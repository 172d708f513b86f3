# Formal models of agentic-workspace

`agentic-workspace` is a native Rust program (`src/src/core`, about 60,000
lines) that coding agents call to keep Planning, Memory and Verification state
in a repository. Every call is one short-lived process: it resolves a *decision*
from the files of the checkout, re-admits the exact *invocation* it was given,
and lets one owner perform one effect. There is no server. All coordination goes
through files: `create_new`, `rename`, `hard_link`, advisory locks. Many
processes can run at once, any of them can be killed at any instruction, and
agents edit the same checkout meanwhile. What the documentation promises is
about exactly that: effects are performed once, evidence is preserved, and what
was interrupted can be recovered
(`docs/maintainer/proof-publication-custody.md`,
`docs/maintainer/native-proof-execution.md`).

This directory models that core in TLA+, checks it with TLC and proves part of
it with TLAPS.

## Inventory

| Component | State it keeps | Operations | Hard because | Correct when |
|---|---|---|---|---|
| Attempt store (`attempt_store.rs`, `attempt.rs`) | `local/effects/<key>.attempt.json`, `.result.json` | admit, prepare_commit, commit, inspect | no lock; torn files; a retry has the same key | an effect begins once, is settled once, and its result is never rewritten |
| Proof execution (`native_proof.rs`) | run, command, assessment, completed files of each effect | select, execute, repeat, replay | concurrent identical invocations, subject changes during the command, deaths between six files | the command runs at most once; answers are the committed outcome |
| Proof publication (`proof_publication.rs`, `repository_proof.rs`) | receipts, index, lock | publish, install, supersede, recover | several writers of one index, deaths between receipt, index, removals and commit | no lost entry, listed receipts exist, interrupted publications recover |
| Proof retirement (`native_proof_retention.rs`) | pending record, custody carrier | retire, transfer an index, recover | consumers take no lock; long-lived judgments; recovery of a recovery | nothing referenced is removed; ownership of the index is explainable |
| Source reconciliation (`native_source_reconciliation.rs`) | receipts of judgments, one projection | offer, confirm, publish, project, retire | shares the proof locks and automatic retention; names are digests of what was judged | the listed groups are of one basis and disjoint; a judgment is lost only to one about the same files |
| Current evidence (`current_evidence.rs`) | one map of assessments, a marker per postimage | assess, retire, recover | as a source owner | satisfaction is shown only for settled publications |
| Planning owner (`native_planning*.rs`) | owner files, selection, lock | create, select, update, retain, recover | non-waiting lock, create-then-rename under a retry | one selected owner; an update lands once on the revision it was bound to |
| Memory (`native_memory*.rs`) | decisions, manifest, markers, candidates | capture, correct, recover, compact | two-file publication with journal | manifest and decision agree |
| Decision kernel (`lib.rs`) and ingress (`native_public.rs`, `operating.rs`) | none | resolve, admit, finish | re-admission after the world changed | only actions of the current decision run |
| Configuration, instructions, intent writers | source files, deferrals | exact edit, defer | temporaries shared between retries | an edit lands on its exact preimage |
| Delegation (`native_delegation.rs`) | run, terminal and completion of a dispatch | dispatch, recover, replace, replay | no lock; a worker that is gone cannot be asked again | a worker is launched once, its return is not lost, a replacement knows the original's outcome |
| Patch integration (`native_patch.rs`) | marker and temporaries per proposal | propose, publish file by file, resume | several files, editors that take no lock | only committed returns reach a file; what others wrote stays |
| Manual carriage (`native_manual.rs`) | four files per stage, one link per task | export, report, use, dispose, retire | the link is read at every entry; no lock | a stage is not taken back; interrupted carriage can be read and resumed |
| Resources (`native_resources.rs`) | scratch containers, worktrees, a removal record | create, retain, release, remove | deletion in steps, Git commands, a lock only for scratch | retained or unintegrated material stays; an interrupted removal is finished |
| Routes, adoption, skills, plugins | copies | expose, adopt | little concurrency of their own | - |
| Command-line adapters, tooling, logging | none | transport | - | - |

How they interact: the ingress resolves the decision from all owners'
contributions; an owner's `execute` receives a `revalidate` callback that
resolves again and re-admits; owners call the attempt store for admission and
commit, each other's locks for shared files (publication before reconciliation)
and each other's observations (`preparation_ready`, `automatic_plan`,
`repository_proof::consumer`). `PROJECT.json` lists every component with what is
modelled of it, and every hazard at its line.

## Modules

| Module | Models | Extends |
|---|---|---|
| `AttemptStore` | the two files of a logical effect, with torn creations | - |
| `EffectOnce` | the abstract promise: begun once, performed at most once, settled once, answers equal to the outcome | - |
| `ProofExecution` | `native_proof.rs::execute` without promotion, by any number of processes | `AttemptStore` |
| `ProofExecutionProofs` | the theorems about it | `ProofExecution`, `TLAPS` |
| `ProofStore` | the shared files of repository proof, ownership of the index, the lock | `AttemptStore` |
| `ProofPublication` | promotion and its recovery | `ProofStore` |
| `ProofRetirement` | retirement, transfer of the index and its recovery | `ProofStore` |
| `ProofOwner` | both together, with consumers, checkouts and deaths | the two above |
| `ProofOwnerProofs` | the theorems about it | `ProofOwner`, `TLAPS` |
| `OwnerHistory` | the abstract promise of the Planning owner: a plan is an append-only history, written only when every earlier write is settled | - |
| `PlanningOwner` | creation, update, replay and recovery of one plan (`native_planning_create.rs`, `native_planning_update.rs`) | `AttemptStore` |
| `PlanningProofs` | the theorems about it | `PlanningOwner`, `TLAPS`, `SequenceTheorems` |
| `SourceOwners` | the three owners that publish one exact source each: configuration, scoped instructions, system intent (`native_config_write.rs`, `native_instruction_write.rs`, `native_intent_write.rs`) | `AttemptStore` |
| `SourceProofs` | the theorems about it | `SourceOwners`, `TLAPS` |
| `MemoryStore` | what the writers of Memory share: notes, manifest, markers, `memory.lock` | `AttemptStore` |
| `MemoryPublication` | capture, revision and recovery of a note and its manifest row (`native_memory_write.rs`, `native_memory_capture.rs`) | `MemoryStore` |
| `MemoryDisposition` | a disposition written to the manifest, and its recovery | `MemoryStore` |
| `MemoryRetirement` | removal of a note with its row, and its recovery (`native_memory_retention.rs`) | `MemoryStore` |
| `MemoryOwner` | the three together, with editors and deaths | the three above |
| `MemoryCandidates` | observed Memory candidates and their state file (`native_memory_candidates.rs`), beside `MemoryOwner` | `MemoryOwner`, `Filtering` |
| `Filtering` | what `retain` leaves of a list, as a recursive function | - |
| `MemoryProofs` | the theorems about the writers of Memory and about the candidates | `MemoryCandidates`, `WellFoundedInduction`, `TLAPS` |
| `DecisionKernel` | contract, contributions, restrictions, ready actions, claims, terminal authority, requests, admission and results of `lib.rs`, as operators | - |
| `OperatingIngress` | callers that start, keep, carry, select, invoke and repeat actions (`operating.rs`, `native_public.rs`) | `DecisionKernel` |
| `IngressProofs` | the theorems about it | `OperatingIngress`, `TLAPS` |
| `Delegation` | dispatch of a sealed assignment to a worker, its recovery, replacement and replay (`native_delegation.rs`) | `AttemptStore` |
| `PatchIntegration` | publication of the patch that came back, beside the dispatches (`native_patch.rs`) | `Delegation` |
| `DelegationProofs` | the theorems about both | `PatchIntegration`, `TLAPS` |
| `Processes` | processes that carry out one invocation each, and their deaths | - |
| `Scratch` | the scratch container of a task, its retention and its removal (`native_resources.rs`) | `Processes` |
| `Worktree` | a retained Git worktree and its removal (`native_resources.rs`) | `Processes` |
| `ManualCarriage` | stages of an assignment carried by hand and their retirement (`native_manual.rs`) | `Processes`, `Filtering` |
| `SourceReconciliation` | judgments on one source relation by groups (`native_source_reconciliation.rs`, `current_projection.rs`) | `Processes` |
| `UpkeepProofs` | the theorems about `Scratch`, `Worktree`, `ManualCarriage` and `SourceReconciliation` | these four, `WellFoundedInduction`, `TLAPS` |
| `MCProofExecution`, `MCProofOwner`, `MCProofRace`, `MCPlanningOwner`, `MCSourceOwners`, `MCMemoryOwner`, `MCOperatingIngress`, `MCDelegation`, `MCUpkeep`, `MCManualEntry` | instances for TLC | |

### How state and actions correspond to the code

*Attempt store.* A file is absent, torn (its writer died between `create_new`
and the last byte) or intact. Custody is a hash of the intact file, so whoever
finds a torn file can neither use nor replace it. `CanAdmit` is `admit` without
custody, `Committed` is `admit` with custody that names a result (a replay),
`CanPrepare` is `prepare_commit`.

*Proof execution.* `pc[p]` is the next step of a process, `old[p]` what
`retained` found (nothing, a run, a completed run), `note[p]` what it has
observed so far. Steps follow `execute` in source order: `Examine`, `AdmitNew` /
`Replay` / `Uncertain`, `Retain` (run.json), `Revalidate`, `Recheck`, `Launch`,
`Finish` (command.json), `Assess` and `Compare` (the two observations behind
assessment.json), `CommitOutcome`, `Complete` (completed.json). `Offered`
is resolve followed by `admit_invocation_value`. `World` changes the subject,
the decision and the state of the index at any time. `Crash`, `CrashCreating` and
`CrashInStore` kill a process anywhere, a file creation included. What happens
inside the command is one step that returns a status or an error; both executors
create command.json only after the process has ended.

*Repository proof.* `receipts[r]` carries what the receipt's custody field
carries: the index before and after, the removal plan and its guard. The code
compares hashes; the model compares the values they are hashes of. `Observation`
is `observe_sources` without the index and its carrier: which receipts are there,
how many `publication-*.tmp` files, and what the consumers reference.
`OwnedByCarrier` / `OwnedByReceipt` are the two branches of `owned_index`. A
checkout brings an index with the `alien` mark: other bytes than this checkout
ever wrote. `binding` remembers what each retirement was bound to, since equal
bindings are the same logical effect. Both owners take `publication.lock` and
then the reconciliation lock; as the order is the same everywhere the two are one
`lock`.

*Planning.* An update names the digest of the bytes it replaces, and the plan
carries the provenance of the update that wrote it. Contents are therefore told
apart by how they came about, and `file` is that: the sequence of materials
written and edits made, or absent, or torn. An update *is* the sequence it
produces; `BoundTo(u)` (the plan is still `Front(u)`) is the comparison with
`prior_revision`, `Published(u)` the comparison with the exact postimage.
`Usable` is `inspect_origin` followed by `inspect`, `Fresh` and `Retained` are what
`view_material` offers for a new request and for an update that is in the plan,
and they are asked again by every `revalidate`. `job[p].custody` is the `retained`
argument of `execute` and `recover`: a snapshot of the view the caller started
from. `May(p)` lists the check the code makes at each step; where it fails,
`Refuse(p)` returns the error, which drops the lock. A revalidation and the byte
comparison that follows it are one step, as are a last comparison and the rename.
Wording, task identity and continuation of a request are part of its material or
of the number of a recovery; that the caller's continuation is admitted is a
choice of the environment.

*Source owners.* One source per kind, replaced as a whole. An invocation is the
record of what it is the digest of: the bytes it replaces, the postimage, the
policy it was authorised under, the work. `marker[k][c]` is the file named by
source and postimage, so it exists at most once for each content; that is why a
content whose write was committed is not published again (`PublishedOnce`) unless,
for system intent, the new proposal names the earlier publication (`returns`).
`Legible` is what every view of the owner has to read first, a put-off
configuration choice included. The configuration is the policy that the other two
bind (`Policy`). The last comparison of the source and the rename that replaces it
are two steps, and `window` records whose source or policy moved in between:
that is the one place where the code loses a concurrent edit, and
`LandsOnPreimage` says it is the only one.

*Memory.* The manifest declares for each note its cues and its status; a note is
its content. `issued` numbers the distinct invocations, because an effect is the
digest of one. `MemoryPublication` follows the capture: under the lock the view is made
again, the attempt admitted, the marker created, the note linked or renamed, the
manifest linked or renamed, the result committed, the marker kept. Declaration
cues are determined by the content. A disposition has a marker of its own
(`filed`), a retirement one pending record for the whole owner. `spent` is a
history variable: effects whose result was once committed. `MemoryCandidates` is
the state file that is replaced between two fixed recovery files; its
operations observe an event, install the prepared state, recover it, and complete
a candidate by a publication.

*Decision kernel and ingress.* `DecisionKernel` has no state. A contract, a
contribution and an invocation are records of what the code compares; digests are
the values they are digests of, and the dependency binding of an operation is the
versions of the domains it reads or writes. `Compiles` is normalisation,
`Ready` / `Available` / `Primary` / `TerminalAuthority` are the selection, `Admitted`
is `admit_invocation_value` with its receipt. `OperatingIngress` runs them: a caller
takes an action from a decision, holds it for as long as it likes, by value or by a
reference that is looked up again (`Found`), enters the owner before or after
admission as the operation requires, is admitted again under the owner's custody,
performs one effect or fails before or after it, and reports what is known
(`report`). What an owner does between entry and result is the subject of the
modules above; here it is one step.

*Delegation and patch integration.* A dispatch is `execute` of `native_delegation.rs`:
`Examine` reads run, terminal and completion, `Found` is what follows from them,
`AdmitNew`, `Retain` and `Revalidate` come before the worker is started, and
`WriteTerminal` binds the outcome before `CommitReturn`. The worker is outside: it
returns something acceptable or is censored. `Dispatchable` is the packet made again
from the checkout. An integration is the record of the dispatch and the preimages,
which is what its proposal is the digest of; a file is the region a worker changes and
the rest, so that a merge is the replacement of one field. `window` records whose files
moved between the last comparison and the rename, `overtaken` whose assignment was changed
after they last looked at it and before what they looked for was done.

*Upkeep.* `Processes` is the frame the four modules share. In `Scratch` a container is
its inode, its marker and whether there is anything in it; `removal` is the record
outside the directory, `Resumable` the comparison of the two. `Worktree` keeps what Git
and the custody file say of one checkout; a call goes through several Git commands and
takes no lock. In `ManualCarriage` every stage is an effect with four files and `link` is the
pointer that every entry for the task reads (`EntryReadable`). In
`SourceReconciliation` a receipt is named by the digest of its binding, so it is its
binding; the projection gives each listed binding its place, `GroupPlan` is the projection
after (`Relisted`) and the receipts that go, `Guard` what their
removal depends on, `Admissible` the owner's answer to the same request, which every
revalidation asks again. `PlanLegible` is what making a plan needs: every listed receipt
readable and its result not torn, its basis current or not. `Askable` are the groups with
a view of their own, the next one among them though it be empty; once `AllCurrent` only what
is listed is offered.

## Runs

| Run | Question | Instance |
|---|---|---|
| `execution` | what holds while two processes race on an execution and its repeat, is the detailed owner an implementation of `EffectOnce`, and does every admission come to a decision? | 2 processes, 2 effects (one repeating the other), 2 subjects, 2 statuses; no bound on deaths or changes: 230,904 states under `FairSpec` |
| `race` | what holds while publications and retirements overlap, what does one death anywhere leave, and can what was interrupted and left alone be recovered? | 2 processes, 2 receipts (the second supersedes the first). A behaviour is in one of three modes: both at once with 1 retirement and 1 death at a seam; one after the other with 2 retirements and 1 death anywhere, file creations included; one after the other with 2 deaths at seams and recoveries of recoveries: 705,896 states |
| `publication_temp` | the same question with deaths inside `install` | violated, see Findings |
| `recovery_reentry` | the same question with deaths inside a recovery's preparation | violated |
| `incomplete_custody` | is an uncommitted receipt protected from retirement? | violated |
| `planning` | what holds while a plan is created, updated, replayed, recovered and edited at once, is it an append-only history, and is a published update settled if somebody comes back for it? | 2 processes, 2 materials, 3 writes or edits of which 1 edit, 1 recovery number, 2 deaths (the second of a process that recovers alone), file creations included: 187,547 states under `PlanningFairness` |
| `sources` | do writes of a source land once and on the bytes they were computed from, and are the results true? | 2 processes, 2 of the 3 owners in a behaviour, 2 contents, 2 calls, 1 edit, 1 death, file creations included; a source that is there at the start holds the first content: 181,037 states |
| `memory` | do manifest, notes and candidates agree with what was decided? | 2 processes, an advisory note and a decision, 2 contents, 3 invocations, 1 edit, 1 death, 2 events: 691,483 states |
| `kernel` | is what is performed and reported covered by the decision of that moment? | 2 callers, 3 owners, 3 operations, 8 contributions, 3 contracts, 1 change, 1 repeat: 118,009 states |
| `delegation` | is a worker launched once and its return kept, and does a patch land whole and alone? | 2 processes, 2 dispatches (the second replaces the first), 2 files; two of an edit, a change of the assignment and a death; a behaviour is about dispatches at once or about integrations: 276,256 states |
| `upkeep` | is what is retained, unintegrated or current kept, and what was interrupted finished? | one of: a container with 2 processes, 2 tasks, 4 stamps and 1 death or change; a worktree with 2 processes, 2 checkouts, 2 events or deaths; manual carriage with 1 caller at a time, 2 assignments, 2 returns, 2 deaths or moves; judgments with 2 processes, up to 2 files in scope, 3 attempts, 2 deaths or changes: 433,398 states |
| `manual_entry` | is entry for a task never an error when no file is torn? | violated, see Findings |

Why the bounds are enough. In proof execution nothing is counted, so only the
sets are bounded: two processes are all the arbitration there is (a third would
only repeat the role of the loser), two effects are one link of a chain of
repeats, and both are unbounded in the theorems. In the owner, one receipt that
supersedes another exercises plan, removal and recovery; one death reaches every
intermediate state of one effect and two deaths reach every intermediate state
of a recovery; two changes let a reference come and go, or a checkout follow a
reference. `Capacity` is two so that a full index occurs. In `race` a death falls at a
seam between file changes where processes overlap or two of them die, anywhere else. Processes of the owner rest when nothing is offered and the bounds are
spent, so those runs do not check for deadlock; `execution` does.
A plan of three writes has a creation, an update and an update of the update, or an
edit in any of their places; two deaths leave an update and its recovery both
unfinished. Processes rest when the plan has its full length. In `sources` a
behaviour calls the configuration and one of the two owners bound to it: the two
share nothing with each other. In `memory` a behaviour is about the writers of notes
or about the observations beside one publication (`about`): an edit takes the place
of one invocation, after an edit and a death one process acts at a time, and the
decision has one content. In `kernel` one thing changes by itself during a behaviour,
at any point: a contribution, the contract, a domain or whether the runtime serves;
what callers perform changes the domains as well. In `delegation` and `upkeep` the
components of a run share no file; `about` says which of them a behaviour is about, and
the bounds are those under which every step of each occurs beside a death or a change.

Every property has a mutant in `PROJECT.json`: a plausible bug in one mapped
definition under which TLC finds that property violated in the same run. The
mutated forms stand before the definitions they replace, each with a comment
that begins with "Mutant".

### Fairness

`FairSpec` asks weak fairness of `Proceed(p)` for each process: a process that was
started goes on. The code justifies it: commands have a time limit
(`selection["timeout_seconds"]`, at most 1,200 seconds), every file operation
returns, and no step of `execute` without promotion waits for a lock. Nothing is
assumed of `World`, of new processes (`Enter`) or of deaths, and a process that
dies has not been unfair: the property allows an admission to be abandoned.

`PlanningOwner!FairSpec` asks weak fairness of every started process: no step of
Planning waits, since `owner_lock` is `try_lock` and a busy owner is an error. It
also asks strong fairness of `Returning(p)`, the replay of a pending update: that
somebody invokes it again is up to the callers, and an assumption. It is strong
because the same caller may be busy with something else again and again.

`ScratchFairness` asks weak fairness of every started call (`resources.lock` is not
waited for) and of `AskAgain`: somebody asks for the recorded removal again, which is
what the refusal tells the caller to do.

## Properties

*Proof execution.* `AtMostOneLaunch`, `EvidenceComplete` (each file vouches for the
ones written before it), `RepeatAfterTerminal`, `AbandonedStaysAbandoned` (an
unfinished execution is never taken up again), `ImplementsEffectOnce`
(refinement: one outcome, and all answers are it, replays included),
`EveryAdmissionDecided`.

*Owner.* `StoreConsistent` and `SeamsRecover` are the conjunctions that the runs check.
`IndexBacked` (a listed receipt exists), `NoLostEntry` (an entry goes only
by a supersession or a judged retirement of that receipt), `CommitsWhatLanded` (a
result is committed when what it reports is true on disk), `OwnershipExplained`
(an index nobody owns came with a checkout, or something recoverable is under
way), `RemovedUnreferenced` (what is removed has no consumer at that instant),
`PublicationRecovers`, `RetirementRecovers` (interrupted and left alone implies
recoverable), and `SeamsRecover`: both hold as long as every death fell between two
files. There are two history variables: `quiet`, the interrupted effects with which
nobody has interfered since, and `smooth`, whether every death so far left nothing half
made (no torn file, no temporary of an index, no recovery admitted but not recorded).
The runs that violate `PublicationRecovers` and `RetirementRecovers` are those without
`smooth`.

*Planning.* `PlanConsistent` is types and lock with the three invariants below.
`ImplementsOwnerHistory` (refinement: an update lands on the exact bytes
it was computed from and only when creation and every earlier update are settled, no
edit or update is lost, results belong to writes in the plan),
`WritesAttributed` (every write in the plan has an intact attempt),
`LeftoverNotPublished` (what a dead writer left beside the plan never becomes it),
`RecoveryAnswersForOriginal` (a recovery's result implies the original's),
`RecoveryWritesNothing` (nobody changes the plan under a recovery, editors
excepted), `PostimageSettles`.

*Sources.* `SourcesConsistent`: `PublicationTraceable` (what is in a source was there, was edited or has
an intact marker), `PublishedOnce`, `RecoveryAnswersForOriginal`, `LandsOnPreimage` (a write
replaces the bytes and stands on the policy it was bound to, save in the window),
`ResultsTrue` (a result is committed when what it reports is there).

*Memory.* `MemoryConsistent`: `MemoryTraceable`, `SpentForEver` (a committed effect is never performed
again), `CandidatesRecoverable`, `SiblingsKept` (a writer of one row keeps the others, which
all share one file), `CommittedAsDecided`, `RetiredKnowingly` (a note leaves with its row
and the evidence that was judged) and `CandidatesLeaveKnowingly`, together `LeaveKnowingly`. Three things were met
while modelling and are in no run of their own: after a death between marker and
manifest, another owner's change of the manifest leaves a publication that
nothing recovers; a death between the journal temporary of a revision and its rename
blocks later, different revisions; and `verify` accepts the manifest from before, so a
retired note may leave while an editor restores its row.

*Kernel.* `ReportsTrue` (a result says committed, failed or uncertain as it was),
`GrantsUncontested` (no restriction touches what the decision grants: an action it offers, an
available claim, the terminal authority), `PerformedAsOffered` (an effect was
offered and unrestricted at the last look before it, and it happens once), `ReadyStayReady`
(of the actions offered together each stays offered, with the same identity, when another
of them is done).

*Delegation.* `ImplementsDispatchOnce` (refinement of `EffectOnce`), `ReplacedAfterOutcome`,
`FinishedWorkerRecoverable` (a terminal that can be read is always committed or
replayed), `UsedWhileAssigned` (what a worker returns becomes an outcome, reaches a file
or completes an integration only as the return of an assignment that is current, unless the
assignment was changed after the last look at it), `IntegratesWhole` (an integration keeps
what others wrote, and its result appears when all files hold it), `NothingElseInTheWay`.

*Upkeep.* `ScratchConsistent` (retained material is not deleted, what is deleted is what was
recorded, effects exclude each other), `RemovalSettles`, `TreeStaysOwned`, `TreesKept`,
`ManualConsistent` (the link can be read, a retirement can be resumed and leaves nothing),
`StageForward`, `ReconciliationConsistent` (one basis, disjoint groups, each with its
receipt; removal comes last), `JudgmentsKept` (a current judgment is lost only to one about
the same files).

Met while modelling these, and in no run of their own. A death between the admission of
a removal of scratch and its record refuses the same removal until the container is
retained or released again; a torn temporary of the record blocks every later removal, and a
policy change during a removal blocks every operation on scratch. A worktree takes no lock: a commit
made after the last look is lost with `git worktree remove`, and an interrupted creation
with an interrupted removal leaves a registration nobody owns. In manual carriage a
death between the admission of a retirement and its link leaves the retry stuck; a first
export begun after a report hides the retained return behind its own pending link. In source
reconciliation an interrupted receipt of the next group that was issued for another task
or scope makes the view of the checkout an error; a publication whose projection was
meanwhile replaced can never be recovered until files change; a death between attempt and
receipt refuses the same request for ever; a torn temporary of the projection blocks every
later publication of the relation. A listed judgment with a torn result blocks the relation
for good: `group_plan` reads every listed receipt with its custody, whatever became of its
basis, and every resolution of a new judgment makes that plan.

## Findings

1. `publication_temp`. `install` writes `publication-<nonce>.tmp` into the
   directory that `observe_sources` reads, and only the retirement's own
   temporaries are excluded from it. A process that dies between writing the
   temporary and the rename, while publishing a receipt that supersedes another,
   leaves a file that changes the guard of its own plan; `recover` refuses from
   then on. The documentation says that recovery completes publication and
   deletion.
2. `recovery_reentry`. A retirement's recovery is admitted before it has renamed
   its new record into place. Interrupted in between, the record keeps its
   identity, the next recovery request has the same key, and the attempt store
   refuses it; the comment there says reentry observes a new identity even
   if recovery itself is interrupted.
3. `incomplete_custody`. `inventory` asks a repository receipt for its shape
   only. The receipt of an interrupted promotion is offered for retirement as
   soon as no consumer references it, and is removed with the promotion
   uncommitted; the documentation says incomplete producer custody prevents
   removal.

4. `manual_entry`. A report is accepted while the stage before it has its pending link
   and no result. Once the report is settled, `retirement` inspects every custody of the
   history, and the missing result is an error of every entry for the task; the manual
   says that ordinary entry omits what is settled and interrupted carriage stays visible.

A fifth divergence is visible in the `planning` run without a run of its own. The
attempt store creates a result under its final name and then writes it. A process
that exits in between, after its update was renamed into place, leaves a result that
`prepare_commit` refuses; `inspect` fails with it, and `start` offers neither the pending
invocation nor a recovery, though `docs/maintainer/native-planning-creation.md` says that an
exit after the postimage is retained permits both.

## Proofs

Each proof module proves about one component, for every value of the constants that
satisfies the named assumptions. The theorems that state a property of a run:

| Module | Theorem | States |
|---|---|---|
| `ProofExecutionProofs` | `LaunchedOnce` | `Spec => []AtMostOneLaunch` |
| | `EvidenceIsComplete` | `Spec => []EvidenceComplete` |
| | `RepeatsAreOrdered` | `Spec => []RepeatAfterTerminal` |
| | `AbandonedIsFinal` | `Spec => AbandonedStaysAbandoned` |
| | `Implements` | `Spec => ImplementsEffectOnce` |
| `ProofOwnerProofs` | `StoreStaysConsistent` | `Spec => []StoreConsistent` |
| | `EntriesNeverLost` | `Spec => NoLostEntry` |
| | `RemovalsUnreferenced` | `Spec => RemovedUnreferenced` |
| | `CommitsLanded` | `Spec => CommitsWhatLanded` |
| | `InterruptedRecover` | `Spec => []SeamsRecover` |
| `PlanningProofs` | `PlanStaysConsistent` | `Spec => []PlanConsistent` |
| | `RecoveriesWriteNothing` | `Spec => RecoveryWritesNothing` |
| | `PlanImplementsHistory` | `Spec => ImplementsOwnerHistory` |
| `SourceProofs` | `SourcesStayConsistent` | `Spec => []SourcesConsistent` |
| | `WritesLandOnPreimage` | `Spec => LandsOnPreimage` |
| | `CommittedResultsTrue` | `Spec => ResultsTrue` |
| `MemoryProofs` | `MemoryStaysConsistent` | `MemorySpec => []MemoryConsistent` |
| | `SiblingsStay` | `MemorySpec => SiblingsKept` |
| | `CommitsAsDecided` | `MemorySpec => CommittedAsDecided` |
| | `RemovalsKnowing` | `MemorySpec => RetiredKnowingly` |
| | `CandidatesStayRecoverable` | `MemorySpec => []CandidatesRecoverable` |
| | `NothingLeavesUnawares` | `MemorySpec => LeaveKnowingly` |
| `IngressProofs` | `ReportsAreTrue` | `Spec => []ReportsTrue` |
| | `GrantsAreUncontested` | `Spec => []GrantsUncontested` |
| | `EffectsAsOffered` | `Spec => PerformedAsOffered` |
| | `ReadyActionsStay` | `RestrictsNoAction`: `Spec => ReadyStayReady` |
| `DelegationProofs` | `WorkerIsRecoverable` | `Spec => []FinishedWorkerRecoverable` |
| | `ReplacementWaits` | `Spec => ReplacedAfterOutcome` |
| | `DispatchImplements` | `Spec => ImplementsDispatchOnce` |
| | `ReturnsOfTheAssigned` | `Spec => UsedWhileAssigned` |
| | `NothingInTheWay` | `Spec => []NothingElseInTheWay` |
| | `IntegrationWhole` | `Spec => IntegratesWhole` |
| `UpkeepProofs` | `ScratchStaysConsistent` | `ScratchSpec => []ScratchConsistent` |
| | `RegistrationStaysOwned` | `WorktreeSpec => []TreeStaysOwned` |
| | `RemovalsKeepWork` | `WorktreeSpec => TreesKept` |
| | `CarriageStaysConsistent` | `CarriageSpec => []ManualConsistent` |
| | `CarriageGoesForward` | `CarriageSpec => StageForward` |
| | `ReconciliationStaysConsistent` | `ReconciliationSpec => []ReconciliationConsistent` |
| | `JudgmentsAreKept` | `ReconciliationSpec => JudgmentsKept` |

Beside them stand the inductive invariants themselves (`Invariant`, `OwnerInvariant`,
`PlanningInvariant`, `SourceInvariant`, `MemoryInvariant`, `CandidatesInvariant`, `IngressInvariant`,
`DispatchInvariant`, `IntegrationInvariant`, `LookedInvariant`, `ScratchInvariant`, `TreeInvariant`, `CarriageInvariant`,
`ReconciliationInvariant`) and `TypeCorrect`. Each was an invariant of the component's
run before it was proved. The step lemmas have one case per action.

None of the properties is inductive by itself, and what is missing is much the same
everywhere: what an interrupted or waiting process relies on.

*Proof execution (`IInv`).* That a command has not been launched does not
say that another process is not about to launch it. `OneOwner`: of the processes beyond
the admission at most one works on an effect, namely the one whose `create_new` of the
attempt succeeded. `ProcInv(p)`: an owner finds exactly the files that its own earlier
steps have written (`InStep`), and its note is what it wrote. `EffectInv(e)`: an
effect's files form a prefix of their order, launches are explained by them, and repeats
name terminal predecessors. Each step is first framed (`Frame(p)`: it changes only the
files of the effect p works on), which leaves the other processes' and effects' parts
unchanged, and then the own part is proved. The refinement is proved action by action
(`BeginStep`, `PerformStep`, `SettleStep`, `AnswerStep`, all others stutter).

*Repository proof (`OwnerInv`).* `IndexBacked` and `OwnershipExplained` speak of files
that any process may have left behind; what keeps them is what the process under the lock
relies on (`AtWork`, by its step): the index is still the one its publication was fixed on,
or already the next; what it has removed so far is gone; a retirement past its record is
pending, and past its commit is committed. A death gives all of that up together with the
lock, and leaves the parts that name no process. `Plans` keeps for ever what was true when a
publication or judgment was fixed: it lists itself, drops only its plan, and nobody
referenced what it plans to drop. With the guard that is compared before each removal this is
`RemovedUnreferenced`. `Counted`: every temporary is that of a dead process or of the one at
`install`. That an index stays explained while other files change is one lemma
(`IndexKept`), used by all steps that leave the index; the steps that replace it each have
their own (`InstallExplained`, `ReplaceExplained`, `CarrierExplains`, `CheckoutExplained`).
`RunsRecorded`, that a publication past its run has a run.json, is proved beside it.

*Recovery of what was interrupted (`SeamInv`).* That the next process passes every check of
a recovery is about a state that other processes keep changing, so the invariant says,
for every interrupted effect nobody interfered with and at any moment, what its recovery
will find. `PublicationKept`: the run and the receipt stand, the index is the one before or
the one after, and what its guard compares is exactly what was seen when it was
planned (`Seen`), temporaries included. `RetirementKept`: the record is intact, its judgment
still verifies, and the identity of its next recovery has not been admitted. The last
needs `RecoveriesInTurn` (recoveries are numbered by the record that they replace, and none is
admitted ahead of it) and `WorksOnPending` (a retirement that works under the lock is a new
one, with nothing pending, or that of the record). As long as deaths are smooth the only
temporary is that of the process at `install`. Two lemmas carry an interrupted effect over
a step that leaves its files alone (`PublicationStays`, `RetirementStays`); each action of a
process then either leaves them alone, or is a step of the effect itself, or is seen by
`Observed`, which drops the effect from `quiet`. The theorem holds for any number of
processes, deaths and recoveries of recoveries.

*Planning (`PInv`).* `EarlierSettled`: of the writes in the plan only the last
can be without its result; it is what the refinement needs, and it holds because an
update is prepared only on a plan whose latest write is settled. It is inductive with
`PlanPossible` (the plan begins with a write and no two in a row are the same, so the
latest write of a plan is determined), `StoreInv` (a result comes after its attempt, and
that of a write after the write), and `ProcInv(p)`: what is in the plan stays in it,
since plans only grow, so a process that has seen its update there may rely on it after
any death and edit. The lemmas about sequences (prefixes, latest writes of an extended
plan) are stated once at the top.

*Sources (`SInv`).* `PublishedOnce` speaks of two committed writes; that the second
never gets there is `CommittedBehind`: a committed write owns the marker of its
postimage, or intent has superseded it by a later return. A process that is about to mark
is therefore either first or the next return (`Markable`). `LookInv(p)` keeps what a
process saw at its last look as long as it is outside `window`; it gives
`LandsOnPreimage` and `ResultsTrue`.

*Memory (`MemoryInv`).* That a committed effect is not there to be committed again is not
clear where receipts are removed: the revision that replaces a publication takes its
attempt and its result away, and the exact request of the replaced one can still be
issued. What stands against it is the marker of the note: it only moves forward, to later
invocations (`Sound`: a revision replaces an earlier one of the same note), so what was
replaced is behind it (`SpentInv`), and admission, which finds the marker absent, its own
or the one its request replaces, never finds it there (`AdmittedUnspent`). `Sound` keeps for every invocation what was so
of the state that listed it: its postimage differs from its preimage in its own row
(`RequestsSound`, from what a view lists), which with the look before the rename is
`SiblingsKept`. `LookInv(p)` says what a process saw last, as long as it is outside
`window`; for a retirement that nothing mentions the note has to survive the time
between the request and the removal, in which others may leave temporaries of the
manifest: a torn temporary never becomes whole (`FilesInv`), and the guard compares which
there are (`VerifiedUnmentioned`). Whoever is past the lock is the only one, so a step is
proved for its process (`HolderStep`, `HolderWrites`); a new invocation leaves what the
others rely on (`ProcStays`). `MemorySpec` is the composition with the candidates, whose
steps leave the notes alone or count a death.

*Candidates (`CandidatesInv`).* What a replacement drops is decided on the state and the clock
of the moment, and carried out later, perhaps by another process that finds only the
prepared record. `Good` is what every such postimage is for ever: within the bound, its events
distinct, and for each row of its preimage that it lacks a reason (`Explained`): the row was
not current, was named, or had to make room. Reasons survive the clock because no row is
dated in its future (`Datable`). The filter over the rows is a recursive function
(`Filtered`). What it returns is proved by induction over its prefixes: `SetInduction` is
induction on the natural numbers stated for a set, which follows from the library's
`WFMin`; `FilteredStep` shows that the recursion is well defined, and `Filters` is the
statement about a prefix (`FilterSkips`, `FilterAppends`).

*Ingress (`GInv`).* An effect happens once although the same envelope can be invoked
again for ever and nothing records it: what was performed raised a domain that its
invocation had observed, so it is `Stale` ever since (`PerformedStale`), and the look
under custody finds only invocations whose versions are current (`LookFinds`). That the
raised domain is among the observed ones is where the contract comes in
(`CustodyDeclared`, from `normalize_capability_contract`). Between the look and the
effect, custody of the owner keeps everybody else from performing the same
invocation. For `ReportsTrue` the invariant carries what was entered, performed and
confirmed at each stage, and that a retained receipt is of something performed.
`GrantsUncontested` follows from the kernel's operators in every state
(`ReadyIsFree`, `AllowedIsFree`, `ConstrainedCovers`). `ReadyStayReady`
follows from what independent actions may touch: the versions that another ready action
observed are not among those that were raised, so it is offered with the same identity
(`ObservedFootprint`, `OthersStayReady`), and the list stays pairwise independent. Its
hypothesis `RestrictsNoAction` is that no owner names one exact invocation in what it
holds back. The contract knows such a scope (`action:` in lib.rs), but no owner in the
repository contributes one, and the run's instance has none. Without the hypothesis the
theorem is false: when the versions of the named invocation change, the restriction
names nothing any more, and what it held back may conflict with a ready action.

*Delegation (`DInv`) and patch integration (`IInv`).* As in proof execution the files of a
dispatch form a prefix of their order (`DispatchInv`), an owner finds what it wrote
(`ProcInv`) and there is one (`OneOwner`). Recovery has no owner: several processes
may commit the same terminal at once, and the invariant says that what they commit is
what the terminal announced. `IInv` adds that the holder of the publication lock acts on
a committed return and keeps, outside `window`, what it compared last. `Looked`, proved on
top of both, says that who relies on an assignment found it current and is `overtaken` if it
no longer is; it has one lemma for each kind of step.

*Scratch (`ScratchInv`).* That retained material is not deleted needs to be known long before
the deletion: whoever is to admit, record or publish a removal found a marker that can be
read and is not retained, and it stays so because `resources.lock` excludes the others
(`UnderLock`, `LockExcludes`) and the directory is replaced only between invocations.
`RetainedInv`: what was answered to be retained has a marker, which says so unless a death
tore it. An earlier form of the property had the guarantee last until a release is answered.
It held under three stamps and is false under four: a release that dies after its marker is
written is as good as one that answered, and a removal may follow. It now ends when the
release is written.

*Worktree (`TreeInv`).* No lock is taken, so `TreeProcInv(p)` says what a removal may rely on
whatever others do (`LeftToRemovals`): as long as the registration is still the one it
saw, integrated commits stay integrated and a lease is not taken back. `OwnedInv`
adds to `TreeStaysOwned` that the removal between the two commands is one that took
the lock off, and will put it back if Git refuses.

*Manual carriage (`CarriageInv`).* Nothing in it takes a lock, so `CarriageSpec` is about one caller
at a time, which may be any process, and may die at any step. A link is written before the
result that it stands for, and a retirement's link before the files go, so `LinkInv` says of
every link what its files must show: the attempt of a stage and its result or its terminal,
the attempt of a retirement, and with its result none of the files it removes. What a link
can be (`StageLinks`, `RetirementLinks`) keeps a retirement's own evidence out of what it
removes: those files are of stages of its own assignment and of a retirement before it, which was of
another (`RemovedWith`), and so an offered stage never writes among them either
(`AllowedElsewhere`). `CarrierInv(p)`: until its link is written a caller holds the link that is
still there, and the offer it was begun on still allows it (`AllowedOn`), also when the
assignment has changed since; afterwards the link names its stage. `KeepsLater` compares with the link that was
read at the start, so this is what `StageForward` needs. The file that a death tears was
absent, hence in none of the parts above (`WriteKeepsLink`). That the filtered history
and the filtered set of files are lists of the same kind is `FilteredType`, by the induction
over prefixes that the candidates of Memory use.

*Source reconciliation (`JudgmentInv`).* A judgment is planned on the list as it is, and the
list is replaced many steps later, perhaps by another process after the first has died:
the receipt carries the plan. So every receipt that can be read, whoever left it, has a
plan that is good for ever (`PlanShape`: what it lists beside its own binding was listed, on
the same basis and about other files; what it drops it does not list, and nobody named
it), and good to apply as long as nothing changed (`PlanTimely`: what it leaves off the list
would not stay). Under the locks (`JudgeInv(p)`) the plan is one of these, the receipt is
still held, and at the rename the list is the one that was planned on. The locks have one
holder (`OneJudge`), hence a step is proved for its process alone (`JudgeAlone`), and
steps outside the locks or without publication are two lemmas (`JudgeOutside`,
`JudgeReads`). That no receipt is removed which another owner names follows from the comparison
before each removal: the citations of now are those of the plan (`RemoveReceiptFacts`).

Assumptions. `StoreAssumption`, `ProofAssumption`, `ProofMarksAssumption`, `PlanningAssumption`,
`SourceAssumption`, `MemoryAssumption`, `MemoryMarksAssumption`, `DelegationAssumption` and `PatchAssumption` say that the constants
are of their kinds and that the marks for nothing, absent and torn are no effects (in
Memory also no declarations, manifests or records); `CandidateAssumption` and
`CandidateMarksAssumption` the same for the candidates, of which at least one is kept.
`EffectsAssumption` of `PlanningOwner` and of `SourceOwners`, and `ProofStoreAssumption`, say which effects
there are: those that the owner can be asked for (`Written`, `Pub`, `Ret`, and recoveries of
them), so that digests of different invocations are different. `ProofStoreAssumption` also says that
no receipt supersedes itself; `ActorAssumption` that a retirement is not a receipt. `IntegrationAssumption`: an integration and a
dispatch are different effects, being invocations of different operations.
`IngressAssumption`: the domains are those of the contracts, contributions have the
fields of a contribution. `ScratchMarksAssumption`, `TreeMarksAssumption` and `ManualMarksAssumption`:
the marks for absent, torn, intact and empty are different and no markers, records, registrations or links. TLC evaluates all of them in the runs.

Only model-checked is liveness (`EveryAdmissionDecided`, `PostimageSettles`,
`RemovalSettles`), which is out of the prover's reach; and what the runs that expect a
violation show. The theorems about manual carriage say nothing of two callers at once, which
the model does not promise either.

## Not modelled, and why

- Writers outside the documented boundary: a change of a file between the last
  check and the unlink or rename that follows it, and power loss
  (`proof-publication-custody.md` excludes both).
- Torn `INDEX.retirement.tmp` and `CARRIER.tmp`; `publication.lock` with content.
- Transfers of receipts (`repository_transfers`, `local_transfers`) inside a
  retirement; reported observations that are published; the 32-record batch,
  8,192 and 4,096 inventory limits.
- The reconciliation lock as a lock of its own: whoever takes it holds `publication.lock`
  already, so the two are one lock in the owner and in source reconciliation.
- Source reconciliation: several relations in one view, receipts of another checkout,
  delivery of material, delegated authority.
- Delegation: derivation of assignments and packets, reuse of a read-only result. Manual
  carriage: the contents of returns, files altered in place, several callers at once.
- Resources: `audit` only reads; routes.
- Owner selection and its custody, plans acquired by reconciliation, copies of a
  plan without its local records, updates made by handoff and returned results
  (the same `execute`, another material), the integration observation of a lifecycle
  proposal, an edit that drops or falsifies provenance or reverts a plan.
- Recovery by another task than the one that retired.
- Memory: the repository destination (a lock of its own, no manifest), durable facts and
  receivers; policy and dependency currency are constant; a torn temporary is
  torn before its first declaration; one work. Completion of a candidate by a
  receiving owner's consequence and the byte bound; `consolidate`, `consider`,
  `defer` and `read` write nothing.
- Sources: parsing, assessment and the setup procedures.
- Kernel and ingress: presentation, semantic routes, schemas, delivery, setup, the
  promotion of a direct decision to a requested question; at most one request in the
  instance. `native_resource_owner::execute` has no revalidation of its own;
  `planning.update` revalidates with the retained invocation it was given and is modelled
  as having none.
- The other components of the inventory: see the plan.

## Plan

1. Attempt store, `EffectOnce`, `ProofExecution` - done, proved.
2. `ProofStore`, `ProofPublication`, `ProofRetirement`, `ProofOwner` - done, proved.
3. `PlanningOwner`, `OwnerHistory` - done, proved.
4. `SourceOwners` - done, proved.
5. `MemoryOwner`, `MemoryCandidates` - done, proved.
6. `DecisionKernel`, `OperatingIngress` - done, proved.
7. `Delegation`, `PatchIntegration`, `Scratch`, `Worktree`, `ManualCarriage`,
   `SourceReconciliation` - done, proved.
8. Current evidence; Planning retention and selection.
