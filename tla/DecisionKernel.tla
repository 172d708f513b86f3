--------------------------- MODULE DecisionKernel ---------------------------
(***************************************************************************)
(* The decision kernel (lib.rs): from a capability contract, the           *)
(* contributions of the source owners and the intent of a caller to one    *)
(* decision, and the admission of an invocation against a decision.        *)
(* Everything here is a pure operator; OperatingIngress runs them.         *)
(*                                                                         *)
(* A contract k is the record the owners declare:                          *)
(*   revision, owners : set of [owner, revision, domains, requests,        *)
(*     effects : set of [id, domain],                                      *)
(*     operations : set of [id, revision, effects, reads, claims]],        *)
(*   claims : set of [claim, owner], restrictions : set of [owner, affects]*)
(* and a contribution c is the record one owner contributes:               *)
(*   owner, revision, relevant, allowed, blocked, response, outcome,       *)
(*   blockers : set of [id, basis, affects],                               *)
(*   decisions : set of [id, basis, affects, kind],                        *)
(*   actions : set of [operation, arguments, effects, requests].           *)
(* A request is [owner, kind, capability, work, source, answer].           *)
(* Digests are the values they are digests of.                             *)
(***************************************************************************)
EXTENDS Naturals

CONSTANTS Unknown,  \* reads an operation does not declare
          None      \* an absent outcome, response, request or receipt

(*************************** Consequence scopes ****************************)

Task             == <<"task">>
EffectScope(e)   == <<"effect", e>>
ActionScope(i)   == <<"action", i>>
ClaimScope(x)    == <<"claim", x>>
OutcomeScope(i)  == <<"outcome", i>>
Attestation(o)   == <<"attestation", o>>

\* What a restriction of a given basis may affect (RestrictionBasis::scopes).
Scoped(basis, affects, o) ==
  /\ basis \in {"unclassified", "task-requirement", "operation-guard",
                "attestation-limit", "optional-work"}
  /\ basis = "optional-work" => affects = {}
  /\ basis = "attestation-limit" => affects = {Attestation(o)}
  /\ basis = "operation-guard" => \A s \in affects : s[1] \in {"effect", "action"}
  /\ basis # "optional-work" => affects # {}

(************************** Capability contract ****************************)

OncePer(S, f) == \A x, y \in S : x[f] = y[f] => x = y

EffectIds(r)    == {e.id : e \in r.effects}
OperationIds(r) == {p.id : p \in r.operations}
AllDomains(k)   == UNION {r.domains : r \in k.owners}

\* One declared owner, apart from what it shares with the others.
OwnerAccepted(k, r) ==
  /\ OncePer(r.effects, "id") /\ OncePer(r.operations, "id")
  /\ \A e \in r.effects : e.domain \in r.domains
  /\ \A p \in r.operations :
       /\ p.effects \subseteq EffectIds(r)
       /\ p.reads # Unknown => p.reads \subseteq AllDomains(k)
       /\ \A x \in p.claims : [claim |-> x, owner |-> r.owner] \in k.claims

\* Nothing is declared by two owners.
OwnersDisjoint(k) ==
  \A r, s \in k.owners : r # s =>
    /\ r.owner # s.owner
    /\ r.domains \cap s.domains = {}
    /\ EffectIds(r) \cap EffectIds(s) = {}
    /\ OperationIds(r) \cap OperationIds(s) = {}
    /\ r.requests \cap s.requests = {}

KnownOwners(k) == {r.owner : r \in k.owners}

\* normalize_capability_contract
ContractAccepted(k) ==
  /\ k.owners # {}
  /\ OwnersDisjoint(k)
  /\ \A r \in k.owners : OwnerAccepted(k, r)
  /\ OncePer(k.claims, "claim") /\ OncePer(k.restrictions, "owner")
  /\ \A x \in k.claims \cup k.restrictions : x.owner \in KnownOwners(k)
  /\ \A x \in k.restrictions : x.affects # {}

Declared(k, o)     == CHOOSE r \in k.owners : r.owner = o
Operation(k, o, p) == CHOOSE d \in Declared(k, o).operations : d.id = p

\* operation_revision: what the operation and its effects' custody declare.
OperationRevision(k, o, p) ==
  [operation |-> Operation(k, o, p),
   custody   |-> {e \in Declared(k, o).effects : e.id \in Operation(k, o, p).effects}]

MayRestrict(k, o) == UNION {x.affects : x \in {y \in k.restrictions : y.owner = o}}

(******************************* Requests **********************************)

\* normalize_public_request: a request is made under one contract revision and one task.
RequestCurrent(k, work, q) ==
  /\ q.capability = k.revision
  /\ q.work = work
  /\ q.owner \in KnownOwners(k)
  /\ q.kind \in Declared(k, q.owner).requests

\* answer_decision_value: the request that carries the answer to a question of S; a question
\* that is not pending any more has none.
AnswerRequest(k, work, c, d, answer) ==
  [owner |-> c.owner, kind |-> d.kind, capability |-> k.revision, work |-> work,
   source |-> c.revision, answer |-> answer]

(***************************** Contributions *******************************)

\* The scopes one owner's blockers and questions hold back.
Restrictions(c) == UNION {b.affects : b \in c.blockers \cup c.decisions}

AuthorityBearing(c) ==
  \/ c.blockers # {} \/ c.decisions # {} \/ c.actions # {}
  \/ c.allowed # {} \/ c.blocked # {}
  \/ c.outcome # None \/ c.response # None

\* normalize_contribution, the actions
ActionsAccepted(k, work, c) ==
  \A a \in c.actions :
    /\ a.operation \in OperationIds(Declared(k, c.owner))
    /\ a.effects \subseteq Operation(k, c.owner, a.operation).effects
    /\ \A q \in a.requests : RequestCurrent(k, work, q)
    /\ \A q, r \in a.requests : q.owner = r.owner /\ q.kind = r.kind => q = r

\* normalize_blocker
BlockersAccepted(c) == \A b \in c.blockers : Scoped(b.basis, b.affects, c.owner)

\* normalize_decision: a question also needs a declared way to be answered.
QuestionsAccepted(k, c) ==
  \A d \in c.decisions :
    Scoped(d.basis, d.affects, c.owner) /\ d.kind \in Declared(k, c.owner).requests

\* normalize_contribution: an owner restricts what it was granted to restrict, and its own
\* attestation.
RestrictionsAccepted(k, c) ==
  (Restrictions(c) \cup {ClaimScope(x) : x \in c.blocked}) \ {Attestation(c.owner)}
    \subseteq MayRestrict(k, c.owner)

\* normalize_contribution and normalize_outcome: the claims
ClaimsAccepted(k, c) ==
  /\ \A x \in c.allowed : [claim |-> x, owner |-> c.owner] \in k.claims
  /\ c.outcome # None =>
       /\ [claim |-> c.outcome.claim, owner |-> c.owner] \in k.claims
       /\ c.outcome.required \subseteq {x.claim : x \in k.claims}

ContributionAccepted(k, work, c) ==
  AuthorityBearing(c) =>
    /\ c.owner \in KnownOwners(k)
    /\ ActionsAccepted(k, work, c)
    /\ BlockersAccepted(c) /\ QuestionsAccepted(k, c) /\ RestrictionsAccepted(k, c)
    /\ ClaimsAccepted(k, c)

\* normalize_action: the invocation an action stands for. versions is what
\* the owner observed of the domains it depends on.
Invocation(k, c, a, versions) ==
  [owner |-> c.owner, operation |-> a.operation, arguments |-> a.arguments,
   effects |-> a.effects, requests |-> a.requests,
   revision |-> OperationRevision(k, c.owner, a.operation),
   dependency |-> versions]

\* logical_effect_id, the idempotency key
LogicalEffect(i) ==
  [owner |-> i.owner, operation |-> i.operation, arguments |-> i.arguments,
   effects |-> i.effects]

(******************************** Decision *********************************)

Relevant(S) == {c \in S : c.relevant}

\* Mutant: questions restrict nothing.
ConstrainedByBlockers(S) ==
  UNION {UNION {b.affects : b \in c.blockers} : c \in Relevant(S)}

Constrained(S) == UNION {Restrictions(c) : c \in Relevant(S)}

\* Of the actions of the contributions, those nothing holds back.
Available(S, A) ==
  LET held == Constrained(S) IN
  {i \in A : /\ Task \notin held /\ ActionScope(i) \notin held
             /\ \A e \in i.effects : EffectScope(e) \notin held}

\* The footprint of an operation: the full ceiling of its effects, never the narrowed ones.
Reads(k, i)  == Operation(k, i.owner, i.operation).reads
Writes(k, i) == {e.domain : e \in {f \in Declared(k, i.owner).effects :
                                     f.id \in Operation(k, i.owner, i.operation).effects}}

\* Mutant: two operations conflict only where both write.
IndependentWrites(k, i, j) == Writes(k, i) \cap Writes(k, j) = {}

IndependentActions(k, i, j) ==
  /\ Reads(k, i) # Unknown /\ Reads(k, j) # Unknown
  /\ Writes(k, i) \cap Writes(k, j) = {}
  /\ Writes(k, i) \cap Reads(k, j) = {}
  /\ Writes(k, j) \cap Reads(k, i) = {}

Independent(k, I) == \A i, j \in I : i # j => IndependentActions(k, i, j)

\* ready_actions: all that is available, or nothing.
Ready(k, S, A) ==
  LET available == Available(S, A) IN IF Independent(k, available) THEN available ELSE {}

TheOnly(S) == CHOOSE x \in S : S = {x}

BlockedClaims(S) == UNION {c.blocked : c \in Relevant(S)}
AllowedClaims(S) == (UNION {c.allowed \ c.blocked : c \in Relevant(S)}) \ BlockedClaims(S)

\* terminal_authority: wish is the outcome the caller intends.
TerminalAuthority(S, wish) ==
  /\ wish # None
  /\ \E c \in Relevant(S) :
       /\ c.owner = wish.owner /\ c.outcome # None
       /\ c.outcome.id = wish.id /\ c.outcome.claim = wish.claim
       /\ c.outcome.complete /\ c.outcome.evidence = c.revision
       /\ \A x \in c.outcome.required \cup {wish.claim} :
            x \in AllowedClaims(S) /\ ClaimScope(x) \notin Constrained(S)
       /\ Task \notin Constrained(S) /\ OutcomeScope(wish.id) \notin Constrained(S)

Questions(S)     == UNION {{[owner |-> c.owner, question |-> d] : d \in c.decisions} : c \in Relevant(S)}
TaskQuestions(S) == {d \in Questions(S) : Task \in d.question.affects}

\* The question a request explicitly asked for (resolve_public_request's consequence ids).
Requested(S) ==
  {d \in Questions(S) : \E c \in Relevant(S) :
     c.response # None /\ c.response.status = "decision"
     /\ c.owner = d.owner /\ d.question.id \in c.response.ids}

DecisionRequest(k, S, A) ==
  IF Ready(k, S, A) # {} \/ ~Independent(k, Available(S, A)) THEN None
  ELSE IF \E d \in TaskQuestions(S) : TaskQuestions(S) = {d} THEN TheOnly(TaskQuestions(S))
  ELSE IF TaskQuestions(S) = {} /\ \E d \in Requested(S) : Requested(S) = {d}
       THEN TheOnly(Requested(S)) ELSE None

\* Conflicting actions or several questions for the whole task block it by themselves.
Composition(k, S, A) ==
  \/ ~Independent(k, Available(S, A))
  \/ /\ ~\E i \in Ready(k, S, A) : Ready(k, S, A) = {i}
     /\ \E d, e \in TaskQuestions(S) : d # e

Status(k, S, A, wish) ==
  CASE TerminalAuthority(S, wish) -> "terminal"
    [] ~TerminalAuthority(S, wish) /\ Ready(k, S, A) # {} -> "actionable"
    [] ~TerminalAuthority(S, wish) /\ Ready(k, S, A) = {} ->
         IF \/ Composition(k, S, A)
            \/ \E c \in Relevant(S) : \E b \in c.blockers : Task \in b.affects
         THEN "blocked"
         ELSE IF DecisionRequest(k, S, A) # None THEN "decision" ELSE "direct"

\* primary_action
Primary(k, S, A, wish) ==
  IF ~TerminalAuthority(S, wish) /\ \E i \in Ready(k, S, A) : Ready(k, S, A) = {i}
  THEN TheOnly(Ready(k, S, A)) ELSE None

\* resolve_public_request: exactly one answer, by the owner it was put to, naming its own
\* current consequences of the kind it declares.
RequestResolved(S, q) ==
  LET answers == {c \in S : c.response # None} IN
  IF q = None THEN answers = {}
  ELSE \E c \in S :
         /\ answers = {c} /\ c.owner = q.owner /\ c.relevant
         /\ c.revision = q.source
         /\ c.response.to = q
         /\ (c.response.status = "settled") = (c.response.ids = {})
         /\ c.response.ids \subseteq
              CASE c.response.status = "action"   -> c.actions
                [] c.response.status = "decision" -> {d.id : d \in c.decisions}
                [] c.response.status = "blocked"  -> {b.id : b \in c.blockers}
                [] OTHER -> {}

\* compile returns a decision at all, under an accepted contract
Compiles(k, work, S, wish, q) ==
  /\ q # None => RequestCurrent(k, work, q)
  /\ wish # None => [claim |-> wish.claim, owner |-> wish.owner] \in k.claims
  /\ \A c \in S : ContributionAccepted(k, work, c)
  /\ RequestResolved(S, q)
  /\ OncePer(Relevant(S), "owner")

(******************************* Admission *********************************)

\* Operations whose revision the decision reports: those of relevant owners.
ReportedRevision(k, S, i) ==
  IF i.owner \in {c.owner : c \in Relevant(S)} /\ i.operation \in OperationIds(Declared(k, i.owner))
  THEN OperationRevision(k, i.owner, i.operation) ELSE None

\* Mutant: an invocation of the same logical effect will do.
AdmittedByKey(k, S, ready, i, previous) ==
  /\ \E j \in previous \cup ready : LogicalEffect(j) = LogicalEffect(i)
  /\ \A p \in previous : LogicalEffect(p) = LogicalEffect(i)

\* admit_invocation_value; previous holds the invocation of the receipt, if there is one.
Admitted(k, S, ready, i, previous) ==
  /\ i \in previous \cup ready
  /\ \A p \in previous :
       /\ p.revision = ReportedRevision(k, S, p) /\ p.revision = i.revision
       /\ LogicalEffect(p) = LogicalEffect(i)

\* operation_result_value: an outcome may not widen the effects of its invocation.
ResultAccepted(i, outcome) ==
  /\ outcome.status \in {"applied", "unchanged", "rejected"}
  /\ outcome.effects \subseteq i.effects
=============================================================================
