---------------------------- MODULE IngressProofs ----------------------------
(***************************************************************************)
(* Theorems about the public entry (OperatingIngress): what a decision     *)
(* grants nobody objects to, an effect happens once and only as offered,   *)
(* and what a caller is told is what happened.                             *)
(***************************************************************************)
EXTENDS OperatingIngress, TLAPS

USE DEF Task, EffectScope, ActionScope, ClaimScope

(***************************************************************************)
(* The kernel: what is ready was offered, and nobody relevant objects.     *)
(***************************************************************************)

(* A ready action is one of the actions offered, held back by no relevant  *)
(* contribution (Available, Ready).                                        *)
LEMMA ReadyIsFree ==
  ASSUME NEW k, NEW S, NEW A, NEW i \in Ready(k, S, A)
  PROVE  i \in A /\ ~Objected(S, i)
<1> DEFINE held == Constrained(S)
<1>1. /\ i \in A /\ Task \notin held /\ ActionScope(i) \notin held
      /\ \A e \in i.effects : EffectScope(e) \notin held
  BY DEF Ready, Available
<1>2. ASSUME NEW s \in S, s.relevant, NEW b \in s.blockers \cup s.decisions
      PROVE  b.affects \subseteq held
  <2>1. s \in Relevant(S)
    BY <1>2 DEF Relevant
  <2> QED
    BY <1>2, <2>1 DEF Constrained, Restrictions
<1> HIDE DEF held
<1> QED
  BY <1>1, <1>2 DEF Objected

(* What the claims of a terminal authority need: somebody relevant allows  *)
(* them and nobody relevant blocks them.                                   *)
LEMMA AllowedIsFree ==
  ASSUME NEW S, NEW x \in AllowedClaims(S)
  PROVE  /\ \E t \in S : x \in t.allowed
         /\ \A s \in S : s.relevant => x \notin s.blocked
<1>1. \E t \in Relevant(S) : x \in t.allowed
  BY DEF AllowedClaims
<1>2. x \notin BlockedClaims(S)
  BY DEF AllowedClaims
<1>3. \A s \in Relevant(S) : x \notin s.blocked
  BY <1>2 DEF BlockedClaims
<1> QED
  BY <1>1, <1>3 DEF Relevant

LEMMA ConstrainedCovers ==
  ASSUME NEW S, NEW x, x \notin Constrained(S)
  PROVE  \A s \in S : s.relevant => \A b \in s.blockers \cup s.decisions : x \notin b.affects
BY DEF Constrained, Restrictions, Relevant

(* GrantsUncontested: ready actions, claims and the end of the task are    *)
(* granted by the kernel only where nobody relevant objects, whatever the  *)
(* owners contribute and whatever the state.                               *)
LEMMA Uncontested == GrantsUncontested
<1> SUFFICES ASSUME NEW R \in Asked, Resolves(R)
             PROVE  LET S == Contributions(R)
                        Contested(x) == \E s \in S : s.relevant /\
                          (x \in s.blocked \/ \E b \in s.blockers \cup s.decisions : ClaimScope(x) \in b.affects) IN
                    /\ \A i \in ReadyActions(R) : ~Objected(S, i)
                    /\ TerminalAuthority(S, Intended) =>
                         \E s \in S : /\ s.outcome # None /\ s.outcome.evidence = s.revision
                                      /\ \A x \in s.outcome.required \cup {Intended.claim} :
                                           ~Contested(x) /\ \E t \in S : x \in t.allowed
                                      /\ \A t \in S : t.relevant =>
                                           \A b \in t.blockers \cup t.decisions : Task \notin b.affects
  BY DEF GrantsUncontested
<1> DEFINE S == Contributions(R)
           Contested(x) == \E s \in S : s.relevant /\
             (x \in s.blocked \/ \E b \in s.blockers \cup s.decisions : ClaimScope(x) \in b.affects)
<1> HIDE DEF S
<1>1. \A i \in ReadyActions(R) : ~Objected(S, i)
  BY ReadyIsFree DEF ReadyActions, S
<1>2. ASSUME TerminalAuthority(S, Intended)
      PROVE  \E s \in S : /\ s.outcome # None /\ s.outcome.evidence = s.revision
                          /\ \A x \in s.outcome.required \cup {Intended.claim} :
                               ~Contested(x) /\ \E t \in S : x \in t.allowed
                          /\ \A t \in S : t.relevant =>
                               \A b \in t.blockers \cup t.decisions : Task \notin b.affects
  <2>1. PICK s \in Relevant(S) :
          /\ s.outcome # None /\ s.outcome.evidence = s.revision
          /\ \A x \in s.outcome.required \cup {Intended.claim} :
               x \in AllowedClaims(S) /\ ClaimScope(x) \notin Constrained(S)
          /\ Task \notin Constrained(S)
    BY <1>2 DEF TerminalAuthority
  <2>2. s \in S
    BY DEF Relevant
  <2>3. ASSUME NEW x \in s.outcome.required \cup {Intended.claim}
        PROVE  ~Contested(x) /\ \E t \in S : x \in t.allowed
    <3>1. x \in AllowedClaims(S) /\ ClaimScope(x) \notin Constrained(S)
      BY <2>1
    <3>2. /\ \E t \in S : x \in t.allowed
          /\ \A t \in S : t.relevant => x \notin t.blocked
      BY <3>1, AllowedIsFree
    <3>3. \A t \in S : t.relevant =>
             \A b \in t.blockers \cup t.decisions : ClaimScope(x) \notin b.affects
      BY <3>1, ConstrainedCovers
    <3> QED
      BY <3>2, <3>3
  <2>4. \A t \in S : t.relevant => \A b \in t.blockers \cup t.decisions : Task \notin b.affects
    BY <2>1, ConstrainedCovers
  <2> HIDE DEF Contested
  <2> QED
    BY <2>1, <2>2, <2>3, <2>4
<1> QED
  BY <1>1, <1>2 DEF S


(***************************************************************************)
(* The inductive invariant.                                                *)
(***************************************************************************)

Stages == {"idle", "holding", "submitted", "entered", "custody", "looked",
           "performed", "confirmed", "told"}

Inside == {"entered", "custody", "looked", "performed", "confirmed"}

(* A call has these parts, which may be anything. *)
Fields == {"pc", "mode", "selector", "held", "asked", "entered", "answered",
           "outcome", "seen", "report"}

IsCall(x) == DOMAIN x = Fields /\ x.pc \in Stages /\ x.entered \in BOOLEAN

Shapes ==
  /\ sources \in [Owners -> Sources] /\ \A o \in Owners : sources[o].owner = o
  /\ world \in [Domains -> Nat]
  /\ DOMAIN retained = Retaining
  /\ custody \in [Owners -> Callers \cup {None}]
  /\ DOMAIN call = Callers
  /\ \A c \in Callers : /\ IsCall(call[c])
                        /\ call[c].pc # "idle" => Held(c).owner \in Owners

(* What an invocation can write was observed when it was offered. *)
Stamped(i, w) ==
  \A x \in i.revision.operation.effects : \E e \in i.revision.custody :
    /\ e.id = x /\ e.domain \in Domains /\ e.domain \in DOMAIN i.dependency
    /\ i.dependency[e.domain] \in Nat /\ i.dependency[e.domain] <= w[e.domain]

(* It was performed: a domain it wrote has moved on since it was offered. *)
Stale(i, w) ==
  \E d \in Domains : /\ d \in DOMAIN i.dependency
                     /\ i.dependency[d] \in Nat /\ i.dependency[d] < w[d]

(* The effects of an outcome are among the performed P, under the same     *)
(* logical effect.                                                         *)
Happened(i, effects, P) ==
  effects # {} => \E p \in P : /\ LogicalEffect(p.invocation) = LogicalEffect(i)
                               /\ p.effects = effects

OutcomeTrue(x, P) ==
  /\ x.outcome.status = "rejected" => x.outcome.effects = {}
  /\ Happened(x.held, x.outcome.effects, P)

ReportTrue(x, P) ==
  LET r == x.report  o == x.outcome IN
  /\ r.status = "rejected-before-effect" => o = None \/ o.effects = {}
  /\ r.status = "committed" => /\ r.effects = o.effects /\ r.effects \subseteq x.held.effects
                               /\ Happened(x.held, r.effects, P)
  /\ r.status = "uncertain" => x.entered \/ x.held.operation \in EnterFirst

IsReport(r) == DOMAIN r = {"status", "effects", "next"}

(* What has happened of the call x of c at each stage, with the locks l,   *)
(* the versions w and the effects P performed so far.                      *)
CallInv(c, x, l, w, P) ==
  /\ x.pc \in {"holding", "submitted"} => x.outcome = None
  /\ x.pc \in Inside => x.entered
  /\ x.pc \in {"custody", "looked"} => l[x.held.owner] = c
  /\ x.pc = "looked" =>
       /\ x.seen = [versions |-> x.held.dependency, objected |-> FALSE]
       /\ Stamped(x.held, w) /\ \A p \in P : p.invocation # x.held
  /\ x.pc \in {"performed", "confirmed"} => OutcomeTrue(x, P)
  /\ x.pc = "confirmed" => ReportTrue(x, P) /\ IsReport(x.report)
  /\ x.pc = "told" => x.report = None \/ ReportTrue(x, P)

CallsInv == \A c \in Callers : CallInv(c, call[c], custody, world, performed)

PerformedStale == \A p \in performed : Stale(p.invocation, world)

RetainedPerformed ==
  \A p \in Retaining : retained[p] = None \/ \E q \in performed :
    retained[p] = [invocation |-> q.invocation,
                   outcome |-> [status |-> "applied", effects |-> q.effects]]

GInv == Shapes /\ CallsInv /\ PerformedStale /\ RetainedPerformed

(***************************************************************************)
(* What is offered: the invocation observed the domains it may write.      *)
(***************************************************************************)

LEMMA DeclaredKnown ==
  ASSUME NEW k, NEW o \in KnownOwners(k)
  PROVE  Declared(k, o) \in k.owners /\ Declared(k, o).owner = o
<1>1. PICK r \in k.owners : r.owner = o
  BY DEF KnownOwners
<1> QED
  BY <1>1 DEF Declared

LEMMA OperationKnown ==
  ASSUME NEW k, NEW o, NEW p \in OperationIds(Declared(k, o))
  PROVE  Operation(k, o, p) \in Declared(k, o).operations
<1>1. PICK d \in Declared(k, o).operations : d.id = p
  BY DEF OperationIds
<1> QED
  BY <1>1 DEF Operation

(* Under an accepted contract the effects of a declared operation are in   *)
(* its owner's custody, in domains of the contract.                        *)
LEMMA CustodyDeclared ==
  ASSUME NEW k \in Accepted, NEW o \in KnownOwners(k), NEW p \in OperationIds(Declared(k, o)),
         NEW x \in Operation(k, o, p).effects
  PROVE  \E e \in OperationRevision(k, o, p).custody :
            e.id = x /\ e.domain \in Domains /\ e.domain \in Observed(k, o, p)
<1> DEFINE r == Declared(k, o)  op == Operation(k, o, p)
<1>1. r \in k.owners /\ op \in r.operations
  BY DeclaredKnown, OperationKnown
<1>2. OwnerAccepted(k, r) /\ k \in Contracts /\ ContractAccepted(k)
  BY <1>1 DEF Accepted, ContractAccepted
<1>3. /\ op.effects \subseteq EffectIds(r)
      /\ \A e \in r.effects : e.domain \in r.domains
  BY <1>1, <1>2 DEF OwnerAccepted
<1>4. PICK e \in r.effects : e.id = x
  BY <1>3 DEF EffectIds
<1>5. e.domain \in AllDomains(k)
  BY <1>1, <1>3, <1>4 DEF AllDomains
<1>6. e.domain \in Domains
  BY <1>2, <1>5, IngressAssumption
<1>7. e \in {f \in r.effects : f.id \in op.effects}
  BY <1>4
<1>8. e.domain \in Observed(k, o, p)
  BY <1>7 DEF Observed
<1>9. e \in OperationRevision(k, o, p).custody
  BY <1>7 DEF OperationRevision
<1> QED
  BY <1>4, <1>6, <1>8, <1>9

(* An owner contributes under its own name. *)
LEMMA ContributedOwner ==
  ASSUME Shapes, NEW o \in Owners, NEW R
  PROVE  Contributed(sources[o], R).owner = o
<1>1. sources[o] \in Sources /\ sources[o].owner = o
  BY DEF Shapes
<1>2. "owner" \in DOMAIN sources[o]
  BY <1>1, IngressAssumption
<1> QED
  BY <1>1, <1>2 DEF Contributed

LEMMA Offered ==
  ASSUME Shapes, NEW R, Resolves(R), NEW i \in ReadyActions(R)
  PROVE  /\ i.owner \in Owners
         /\ i.dependency = Versions(contract, i.owner, i.operation)
         /\ \A d \in DOMAIN i.dependency : i.dependency[d] = world[d]
         /\ Stamped(i, world)
         /\ ~Objected(Contributions(R), i)
<1> DEFINE S == Contributions(R)
<1>1. i \in Invocations(S) /\ ~Objected(S, i)
  BY ReadyIsFree DEF ReadyActions, S
<1> HIDE DEF S
<1>2. PICK c \in Relevant(S) : \E a \in c.actions :
        i = Invocation(contract, c, a, Versions(contract, c.owner, a.operation))
  BY <1>1 DEF Invocations, Versions
<1>21. PICK a \in c.actions :
        i = Invocation(contract, c, a, Versions(contract, c.owner, a.operation))
  BY <1>2
<1>3. c \in S
  BY DEF Relevant
<1>4. PICK o \in Owners : c = Contributed(sources[o], R)
  BY <1>3 DEF Contributions, Contributed, S
<1>5. c.owner = o
  BY <1>4, ContributedOwner
<1>6. /\ i.owner = o /\ i.operation = a.operation
      /\ i.dependency = Versions(contract, o, a.operation)
      /\ i.revision = OperationRevision(contract, o, a.operation)
  BY <1>21, <1>5 DEF Invocation
<1>7. contract \in Accepted /\ ContributionAccepted(contract, Work, c)
  BY <1>3 DEF Resolves, Compiles, S
<1>8. o \in KnownOwners(contract) /\ a.operation \in OperationIds(Declared(contract, o))
  BY <1>21, <1>5, <1>7 DEF ContributionAccepted, AuthorityBearing, ActionsAccepted
<1>9. i.revision.operation = Operation(contract, o, a.operation)
  BY <1>6 DEF OperationRevision
<1>10. /\ DOMAIN i.dependency = Observed(contract, o, a.operation)
       /\ \A d \in DOMAIN i.dependency : i.dependency[d] = world[d]
  BY <1>6 DEF Versions
<1>11. ASSUME NEW x \in i.revision.operation.effects
       PROVE  \E e \in i.revision.custody :
                /\ e.id = x /\ e.domain \in Domains /\ e.domain \in DOMAIN i.dependency
                /\ i.dependency[e.domain] \in Nat /\ i.dependency[e.domain] <= world[e.domain]
  <2>1. PICK e \in i.revision.custody :
          e.id = x /\ e.domain \in Domains /\ e.domain \in DOMAIN i.dependency
    BY <1>6, <1>7, <1>8, <1>9, <1>10, CustodyDeclared
  <2>2. i.dependency[e.domain] = world[e.domain] /\ world[e.domain] \in Nat
    BY <1>10, <2>1 DEF Shapes
  <2> QED
    BY <2>1, <2>2
<1>12. Stamped(i, world)
  BY <1>11 DEF Stamped
<1> QED
  BY <1>1, <1>4, <1>6, <1>10, <1>12 DEF S

(***************************************************************************)
(* Steps.                                                                  *)
(***************************************************************************)

(* Nothing that happened is undone: versions grow, effects accumulate. *)
Grown(v, w) ==
  v \in [Domains -> Nat] /\ w \in [Domains -> Nat] /\ \A d \in Domains : v[d] <= w[d]

LEMMA StampedStays ==
  ASSUME NEW i, NEW v, NEW w, Grown(v, w), Stamped(i, v)
  PROVE  Stamped(i, w)
<1> SUFFICES ASSUME NEW x \in i.revision.operation.effects
             PROVE  \E e \in i.revision.custody :
                      /\ e.id = x /\ e.domain \in Domains /\ e.domain \in DOMAIN i.dependency
                      /\ i.dependency[e.domain] \in Nat
                      /\ i.dependency[e.domain] <= w[e.domain]
  BY DEF Stamped
<1>1. PICK e \in i.revision.custody :
         /\ e.id = x /\ e.domain \in Domains /\ e.domain \in DOMAIN i.dependency
         /\ i.dependency[e.domain] \in Nat /\ i.dependency[e.domain] <= v[e.domain]
  BY DEF Stamped
<1>2. v[e.domain] \in Nat /\ w[e.domain] \in Nat /\ v[e.domain] <= w[e.domain]
  BY <1>1 DEF Grown
<1> QED
  BY <1>1, <1>2

LEMMA StaleStays ==
  ASSUME NEW i, NEW v, NEW w, Grown(v, w), Stale(i, v)
  PROVE  Stale(i, w)
<1>1. PICK d \in Domains : /\ d \in DOMAIN i.dependency
                           /\ i.dependency[d] \in Nat /\ i.dependency[d] < v[d]
  BY DEF Stale
<1>2. v[d] \in Nat /\ w[d] \in Nat /\ v[d] <= w[d]
  BY <1>1 DEF Grown
<1>3. i.dependency[d] < w[d]
  BY <1>1, <1>2
<1> QED
  BY <1>1, <1>3 DEF Stale

LEMMA HappenedStays ==
  ASSUME NEW i, NEW effects, NEW P, NEW Q, P \subseteq Q, Happened(i, effects, P)
  PROVE  Happened(i, effects, Q)
BY DEF Happened

(* A call keeps its part of the invariant while another's step, or the     *)
(* environment's, leaves it alone.                                         *)
LEMMA CallStays ==
  ASSUME NEW c, NEW x, NEW l, NEW m, NEW v, NEW w, NEW P, NEW Q,
         CallInv(c, x, l, v, P), Grown(v, w), P \subseteq Q,
         l[x.held.owner] = c => m[x.held.owner] = c,
         x.pc = "looked" => \A p \in Q : p.invocation # x.held
  PROVE  CallInv(c, x, m, w, Q)
<1>1. x.pc = "looked" => Stamped(x.held, w)
  BY StampedStays DEF CallInv
<1>2. x.pc \in {"performed", "confirmed"} => OutcomeTrue(x, Q)
  BY HappenedStays DEF CallInv, OutcomeTrue
<1>3. ReportTrue(x, P) => ReportTrue(x, Q)
  BY HappenedStays DEF ReportTrue
<1> QED
  BY <1>1, <1>2, <1>3 DEF CallInv

LEMMA GrownSame == ASSUME NEW v \in [Domains -> Nat] PROVE Grown(v, v)
BY DEF Grown

(* The step of one call, and the parts of it the invariant speaks of. *)
Moved(c) ==
  /\ DOMAIN call' = Callers /\ \A d \in Callers : d # c => call'[d] = call[d]
  /\ DOMAIN call'[c] = Fields

MovedTo(c, pc, entered, outcome) ==
  /\ Moved(c) /\ call'[c].pc = pc /\ call'[c].held = call[c].held
  /\ call'[c].entered = entered /\ call'[c].outcome = outcome

LEMMA TellMoves ==
  ASSUME Shapes, NEW c \in Callers, NEW r, Tell(c, r)
  PROVE  MovedTo(c, "told", call[c].entered, call[c].outcome) /\ call'[c].report = r
BY DEF Tell, MovedTo, Moved, Shapes, IsCall, Fields

LEMMA SubmitMoves ==
  ASSUME Shapes, NEW c \in Callers, Submit(c)
  PROVE  MovedTo(c, "submitted", call[c].entered, call[c].outcome)
BY DEF Submit, MovedTo, Moved, Shapes, IsCall, Fields

(* A step of one call keeps the invariant if the call keeps its own part   *)
(* and no other's lock is taken away.                                      *)
LEMMA QuietStep ==
  ASSUME GInv, NEW c \in Callers, Moved(c),
         UNCHANGED <<world, performed, sources, retained>>,
         IsCall(call'[c]), call'[c].pc # "idle" => call'[c].held.owner \in Owners,
         custody' \in [Owners -> Callers \cup {None}],
         \A o \in Owners : custody[o] \notin {c, None} => custody'[o] = custody[o],
         CallInv(c, call'[c], custody', world, performed)
  PROVE  GInv'
<1>1. UNCHANGED <<world, performed, sources, retained>>
  OBVIOUS
<1>2. Shapes'
  BY <1>1 DEF GInv, Shapes, Moved, Held
<1>3. CallsInv'
  <2> SUFFICES ASSUME NEW d \in Callers
               PROVE  CallInv(d, call'[d], custody', world', performed')
    BY DEF CallsInv
  <2>1. CASE d = c
    BY <2>1, <1>1
  <2>2. CASE d # c
    <3>1. call'[d] = call[d] /\ CallInv(d, call[d], custody, world, performed)
      BY <2>2 DEF Moved, GInv, CallsInv
    <3>2. call[d].pc \in {"custody", "looked"} => custody'[call[d].held.owner] = d
      <4>1. call[d].pc \in {"custody", "looked"} =>
              call[d].held.owner \in Owners /\ custody[call[d].held.owner] = d
        BY <3>1 DEF CallInv, GInv, Shapes, Held
      <4> QED
        BY <4>1, <2>2, IngressAssumption
    <3> QED
      BY <3>1, <3>2, <1>1 DEF CallInv
  <2> QED
    BY <2>1, <2>2
<1>4. PerformedStale' /\ RetainedPerformed'
  BY <1>1 DEF GInv, PerformedStale, RetainedPerformed
<1> QED
  BY <1>2, <1>3, <1>4 DEF GInv

LEMMA Releases ==
  ASSUME GInv, NEW c \in Callers, custody' = Release(c) \/ UNCHANGED custody
  PROVE  /\ custody' \in [Owners -> Callers \cup {None}]
         /\ \A o \in Owners : custody[o] \notin {c, None} => custody'[o] = custody[o]
<1>1. custody \in [Owners -> Callers \cup {None}]
  BY DEF GInv, Shapes
<1> QED
  BY <1>1 DEF Release

(* A caller is told what is true, or nothing. *)
LEMMA TellStep ==
  ASSUME GInv, NEW c \in Callers, NEW r, Tell(c, r), Still, call[c].pc # "idle",
         custody' = Release(c) \/ UNCHANGED custody,
         r = None \/ ReportTrue(call'[c], performed)
  PROVE  GInv'
<1>1. MovedTo(c, "told", call[c].entered, call[c].outcome) /\ call'[c].report = r
  BY TellMoves DEF GInv
<1>2. IsCall(call'[c]) /\ call'[c].held.owner \in Owners
  BY <1>1 DEF MovedTo, Moved, GInv, Shapes, IsCall, Held, Stages
<1>3. CallInv(c, call'[c], custody', world, performed)
  BY <1>1 DEF MovedTo, CallInv, Inside
<1> QED
  BY <1>1, <1>2, <1>3, Releases, QuietStep DEF MovedTo, Still

(* A caller goes on without a lock. *)
LEMMA SubmitStep ==
  ASSUME GInv, NEW c \in Callers, Submit(c), Still, UNCHANGED custody, call[c].pc = "holding"
  PROVE  GInv'
<1>1. MovedTo(c, "submitted", call[c].entered, call[c].outcome)
  BY SubmitMoves DEF GInv
<1>2. IsCall(call'[c]) /\ call'[c].held.owner \in Owners
  BY <1>1 DEF MovedTo, Moved, GInv, Shapes, IsCall, Held, Stages
<1>3. call[c].outcome = None
  BY DEF GInv, CallsInv, CallInv
<1>4. CallInv(c, call'[c], custody', world, performed)
  BY <1>1, <1>3 DEF MovedTo, CallInv, Inside
<1> QED
  BY <1>1, <1>2, <1>4, Releases, QuietStep DEF MovedTo, Still

(***************************************************************************)
(* The actions of a call.                                                  *)
(***************************************************************************)

LEMMA StartKeeps ==
  ASSUME GInv, NEW c \in Callers, NEW R, NEW mode, Resolves(R), NEW i \in ReadyActions(R),
         Start(c, R, i, mode)
  PROVE  GInv'
<1> DEFINE y == [NoCall EXCEPT !.pc = "holding", !.mode = mode, !.selector = Selector(R, i),
                               !.held = i, !.asked = R]
<1>1. i.owner \in Owners
  BY Offered DEF GInv
<1>2. /\ DOMAIN y = Fields /\ y.pc = "holding" /\ y.held = i /\ y.outcome = None
      /\ y.entered = FALSE
  BY DEF NoCall, Fields
<1>3. call' = [call EXCEPT ![c] = y]
  BY DEF Start
<1> HIDE DEF y
<1>4. Moved(c) /\ call'[c] = y
  BY <1>2, <1>3 DEF Moved, GInv, Shapes
<1>5. IsCall(y) /\ y.held.owner \in Owners
  BY <1>1, <1>2 DEF IsCall, Stages
<1>6. CallInv(c, y, custody', world, performed)
  BY <1>2 DEF CallInv, Inside
<1> QED
  BY <1>4, <1>5, <1>6, Releases, QuietStep DEF Start, Still

LEMMA SelectKeeps ==
  ASSUME GInv, NEW c \in Callers, Select(c) \/ Carry(c)
  PROVE  GInv'
BY SubmitStep DEF Select, Carry

(* Before it is submitted a call has no outcome. *)
LEMMA NothingBefore ==
  ASSUME GInv, NEW c \in Callers, NEW r, Tell(c, r), call[c].pc \in {"holding", "submitted"},
         r.status = "rejected-before-effect"
  PROVE  ReportTrue(call'[c], performed)
<1>1. call[c].outcome = None
  BY DEF GInv, CallsInv, CallInv
<1>2. call'[c].report = r /\ call'[c].outcome = None
  BY <1>1, TellMoves DEF GInv, MovedTo
<1> QED
  BY <1>2 DEF ReportTrue

LEMMA SelectStaleKeeps ==
  ASSUME GInv, NEW c \in Callers, SelectStale(c)
  PROVE  GInv'
<1> DEFINE r == Report("rejected-before-effect", {})
<1>1. Tell(c, r) /\ Still /\ UNCHANGED custody /\ call[c].pc = "holding"
  BY DEF SelectStale
<1>2. r.status = "rejected-before-effect"
  BY DEF Report
<1> HIDE DEF r
<1>3. ReportTrue(call'[c], performed)
  BY <1>1, <1>2, NothingBefore
<1> QED
  BY <1>1, <1>3, TellStep

LEMMA RefuseKeeps ==
  ASSUME GInv, NEW c \in Callers, Refuse(c)
  PROVE  GInv'
<1> DEFINE r == IF Resolves(Held(c).requests) /\ Held(c).operation \in EnterFirst
                THEN Report("uncertain", {}) ELSE Report("rejected-before-effect", {})
<1>1. Tell(c, r) /\ Still /\ UNCHANGED custody /\ call[c].pc = "submitted"
  BY DEF Refuse
<1>2. \/ r.status = "rejected-before-effect"
      \/ r.status = "uncertain" /\ Held(c).operation \in EnterFirst
  BY DEF Report
<1> HIDE DEF r
<1>3. CASE r.status = "rejected-before-effect"
  <2>1. ReportTrue(call'[c], performed)
    BY <1>1, <1>3, NothingBefore
  <2> QED
    BY <1>1, <2>1, TellStep
<1>4. CASE r.status = "uncertain" /\ Held(c).operation \in EnterFirst
  <2>1. call'[c].report = r /\ call'[c].held = call[c].held
    BY <1>1, TellMoves DEF GInv, MovedTo
  <2>2. ReportTrue(call'[c], performed)
    BY <1>4, <2>1 DEF ReportTrue, Held
  <2> QED
    BY <1>1, <2>2, TellStep
<1> QED
  BY <1>2, <1>3, <1>4

(* A receipt answers with effects that happened under the same logical     *)
(* effect: Admitted compares the two.                                      *)
LEMMA ReceiptTrue ==
  ASSUME GInv, NEW i, Admits(i, Receipt(i)), Receipt(i) # None
  PROVE  /\ Receipt(i).outcome.status = "applied"
         /\ Happened(i, Receipt(i).outcome.effects, performed)
<1> DEFINE r == Receipt(i)
<1>1. i.operation \in Retaining /\ r = retained[i.operation]
  BY DEF Receipt
<1>2. PICK q \in performed :
        r = [invocation |-> q.invocation, outcome |-> [status |-> "applied", effects |-> q.effects]]
  BY <1>1 DEF GInv, RetainedPerformed
<1>3. Admitted(contract, Contributions(i.requests), ReadyActions(i.requests), i, {r.invocation})
  BY DEF Admits
<1> HIDE DEF r
<1>4. LogicalEffect(r.invocation) = LogicalEffect(i)
  BY <1>3 DEF Admitted
<1>5. r.invocation = q.invocation /\ r.outcome.status = "applied" /\ r.outcome.effects = q.effects
  BY <1>2
<1>6. Happened(i, r.outcome.effects, performed)
  BY <1>4, <1>5 DEF Happened
<1> QED
  BY <1>5, <1>6 DEF r

LEMMA EnterKeeps ==
  ASSUME GInv, NEW c \in Callers, Enter(c)
  PROVE  GInv'
<1> DEFINE i == Held(c)
           r == Receipt(i)
           pc == IF r = None THEN "entered" ELSE "performed"
           o == IF r = None THEN None ELSE r.outcome
           n == r # None
<1>1. /\ call' = [call EXCEPT ![c].pc = pc, ![c].entered = TRUE, ![c].answered = n,
                              ![c].outcome = o]
      /\ UNCHANGED custody /\ Still /\ call[c].pc = "submitted"
  BY DEF Enter
<1>2. r # None => r.outcome.status = "applied" /\ Happened(i, r.outcome.effects, performed)
  BY ReceiptTrue DEF Enter
<1>3. \/ r = None /\ pc = "entered"
      \/ /\ pc = "performed" /\ o.status = "applied" /\ Happened(i, o.effects, performed)
  BY <1>2
<1> HIDE DEF pc, o, n, r
<1>4. MovedTo(c, pc, TRUE, o)
  BY <1>1 DEF MovedTo, Moved, GInv, Shapes, IsCall, Fields
<1>5. IsCall(call'[c]) /\ call'[c].held.owner \in Owners
  BY <1>1, <1>3, <1>4 DEF MovedTo, Moved, GInv, Shapes, IsCall, Held, Stages
<1>6. CallInv(c, call'[c], custody', world, performed)
  BY <1>3, <1>4 DEF MovedTo, CallInv, Inside, OutcomeTrue, Held
<1> QED
  BY <1>1, <1>4, <1>5, <1>6, Releases, QuietStep DEF MovedTo, Still

LEMMA TakeCustodyKeeps ==
  ASSUME GInv, NEW c \in Callers, TakeCustody(c)
  PROVE  GInv'
<1> DEFINE o == Held(c).owner
<1>1. /\ call' = [call EXCEPT ![c].pc = "custody"] /\ call[c].pc = "entered" /\ Still
      /\ custody[o] = None /\ custody' = [custody EXCEPT ![o] = c]
  BY DEF TakeCustody, Turn
<1>2. o \in Owners /\ custody \in [Owners -> Callers \cup {None}]
  BY <1>1 DEF GInv, Shapes
<1>3. MovedTo(c, "custody", call[c].entered, call[c].outcome)
  BY <1>1 DEF MovedTo, Moved, GInv, Shapes, IsCall, Fields
<1>4. IsCall(call'[c]) /\ call'[c].held.owner = o /\ call[c].entered
  BY <1>1, <1>3 DEF MovedTo, Moved, GInv, Shapes, IsCall, Held, Stages, CallsInv, CallInv, Inside
<1> HIDE DEF o
<1>5. /\ custody' \in [Owners -> Callers \cup {None}] /\ custody'[o] = c
      /\ \A x \in Owners : custody[x] \notin {c, None} => custody'[x] = custody[x]
  BY <1>1, <1>2
<1>6. CallInv(c, call'[c], custody', world, performed)
  BY <1>3, <1>4, <1>5 DEF MovedTo, CallInv, Inside
<1> QED
  BY <1>1, <1>2, <1>3, <1>4, <1>5, <1>6, QuietStep DEF MovedTo, Still

(* At the look under custody the invocation is offered again as it is: its *)
(* versions are the current ones, so it has not been performed yet.        *)
LEMMA LookFinds ==
  ASSUME GInv, NEW i, Revalidated(i)
  PROVE  /\ Versions(contract, i.owner, i.operation) = i.dependency
         /\ ~Objected(Contributions(i.requests), i)
         /\ Stamped(i, world)
         /\ \A p \in performed : p.invocation # i
<1>1. Resolves(i.requests) /\ Admits(i, None)
  BY DEF Revalidated
<1>2. i \in ReadyActions(i.requests)
  BY <1>1 DEF Admits, Admitted
<1>3. /\ i.dependency = Versions(contract, i.owner, i.operation)
      /\ \A d \in DOMAIN i.dependency : i.dependency[d] = world[d]
      /\ Stamped(i, world) /\ ~Objected(Contributions(i.requests), i)
  BY <1>1, <1>2, Offered DEF GInv
<1>4. \A d \in Domains : world[d] \in Nat
  BY DEF GInv, Shapes
<1>5. ~Stale(i, world)
  BY <1>3, <1>4 DEF Stale
<1>6. \A p \in performed : Stale(p.invocation, world)
  BY DEF GInv, PerformedStale
<1> QED
  BY <1>3, <1>5, <1>6

LEMMA LookKeeps ==
  ASSUME GInv, NEW c \in Callers, Look(c)
  PROVE  GInv'
<1> DEFINE i == Held(c)
           seen == [versions |-> Versions(contract, i.owner, i.operation),
                    objected |-> Objected(Contributions(i.requests), i)]
<1>1. /\ call' = [call EXCEPT ![c].pc = "looked", ![c].seen = seen] /\ call[c].pc = "custody"
      /\ UNCHANGED custody /\ Still /\ Revalidated(i)
  BY DEF Look
<1>2. /\ Versions(contract, i.owner, i.operation) = i.dependency
      /\ ~Objected(Contributions(i.requests), i)
      /\ Stamped(i, world) /\ \A p \in performed : p.invocation # i
  BY <1>1, LookFinds
<1>3. Objected(Contributions(i.requests), i) = FALSE
  BY <1>2 DEF Objected
<1>4. seen = [versions |-> i.dependency, objected |-> FALSE]
  BY <1>2, <1>3
<1> HIDE DEF seen
<1>5. MovedTo(c, "looked", call[c].entered, call[c].outcome) /\ call'[c].seen = seen
  BY <1>1 DEF MovedTo, Moved, GInv, Shapes, IsCall, Fields
<1>6. /\ IsCall(call'[c]) /\ call'[c].held = i /\ i.owner \in Owners /\ call[c].entered
      /\ custody[i.owner] = c
  BY <1>1, <1>5 DEF MovedTo, Moved, GInv, Shapes, IsCall, Held, Stages, CallsInv, CallInv, Inside
<1>7. CallInv(c, call'[c], custody', world, performed)
  BY <1>1, <1>2, <1>4, <1>5, <1>6 DEF MovedTo, CallInv, Inside
<1> QED
  BY <1>1, <1>5, <1>6, <1>7, Releases, QuietStep DEF MovedTo, Still

(* Whoever has entered is told that the outcome is uncertain. *)
LEMMA FailureKeeps ==
  ASSUME GInv, NEW c \in Callers, Tell(c, Failure(c)), Still, custody' = Release(c),
         call[c].pc \in Inside
  PROVE  GInv'
<1>1. call[c].entered
  BY DEF GInv, CallsInv, CallInv
<1> DEFINE r == Failure(c)
<1>2. r.status = "uncertain"
  BY <1>1 DEF Failure, Report
<1> HIDE DEF r
<1>3. call'[c].report = r /\ call'[c].entered
  BY <1>1, TellMoves DEF GInv, MovedTo, r
<1>4. ReportTrue(call'[c], performed)
  BY <1>1, <1>2, <1>3 DEF ReportTrue
<1>5. Tell(c, r) /\ call[c].pc # "idle"
  BY DEF Inside, r
<1> QED
  BY <1>4, <1>5, TellStep

LEMMA OwnerStopKeeps ==
  ASSUME GInv, NEW c \in Callers, LookStale(c) \/ OwnerFails(c) \/ Widened(c)
  PROVE  GInv'
BY FailureKeeps DEF LookStale, OwnerFails, Widened, Inside

LEMMA DeclineKeeps ==
  ASSUME GInv, NEW c \in Callers, NEW status \in {"unchanged", "rejected"}, Decline(c, status)
  PROVE  GInv'
<1> DEFINE o == [status |-> status, effects |-> {}]
<1>1. /\ call' = [call EXCEPT ![c].pc = "performed", ![c].seen = None, ![c].outcome = o]
      /\ UNCHANGED custody /\ Still /\ call[c].pc \in {"custody", "looked"}
  BY DEF Decline
<1>2. o.effects = {}
  OBVIOUS
<1> HIDE DEF o
<1>3. MovedTo(c, "performed", call[c].entered, o)
  BY <1>1 DEF MovedTo, Moved, GInv, Shapes, IsCall, Fields
<1>4. IsCall(call'[c]) /\ call'[c].held.owner \in Owners /\ call[c].entered
  BY <1>1, <1>3 DEF MovedTo, Moved, GInv, Shapes, IsCall, Held, Stages, CallsInv, CallInv, Inside
<1>5. CallInv(c, call'[c], custody', world, performed)
  BY <1>2, <1>3, <1>4 DEF MovedTo, CallInv, Inside, OutcomeTrue, Happened
<1> QED
  BY <1>1, <1>3, <1>4, <1>5, Releases, QuietStep DEF MovedTo, Still

LEMMA ConfirmKeeps ==
  ASSUME GInv, NEW c \in Callers, Confirm(c)
  PROVE  GInv'
<1> DEFINE o == call[c].outcome
           s == IF o.status = "rejected" THEN "rejected-before-effect" ELSE "committed"
           r == Report(s, o.effects)
<1>1. /\ call' = [call EXCEPT ![c].pc = "confirmed", ![c].report = r]
      /\ custody' = Release(c) /\ Still /\ call[c].pc = "performed" /\ ResultAccepted(Held(c), o)
  BY DEF Confirm
<1>2. /\ OutcomeTrue(call[c], performed) /\ call[c].entered
      /\ o.effects \subseteq Held(c).effects
  BY <1>1 DEF GInv, CallsInv, CallInv, Inside, ResultAccepted
<1>3. /\ IsReport(r) /\ r.effects = o.effects
      /\ \/ r.status = "rejected-before-effect" /\ o.effects = {}
         \/ r.status = "committed"
  BY <1>2 DEF Report, IsReport, OutcomeTrue
<1> HIDE DEF r
<1>4. MovedTo(c, "confirmed", call[c].entered, call[c].outcome) /\ call'[c].report = r
  BY <1>1 DEF MovedTo, Moved, GInv, Shapes, IsCall, Fields
<1>5. IsCall(call'[c]) /\ call'[c].held.owner \in Owners
  BY <1>1, <1>4 DEF MovedTo, Moved, GInv, Shapes, IsCall, Held, Stages
<1>6. OutcomeTrue(call'[c], performed) /\ ReportTrue(call'[c], performed)
  BY <1>2, <1>3, <1>4 DEF MovedTo, OutcomeTrue, ReportTrue, Held
<1>7. CallInv(c, call'[c], custody', world, performed)
  BY <1>2, <1>3, <1>4, <1>6 DEF MovedTo, CallInv, Inside
<1> QED
  BY <1>1, <1>4, <1>5, <1>7, Releases, QuietStep DEF MovedTo, Still

LEMMA ContinueKeeps ==
  ASSUME GInv, NEW c \in Callers, Continue(c)
  PROVE  GInv'
<1> DEFINE n == IF Resolves({}) THEN Continuation(Contributions({})) ELSE "unavailable"
           r == [call[c].report EXCEPT !.next = n]
<1>1. Tell(c, r) /\ UNCHANGED custody /\ Still /\ call[c].pc = "confirmed"
  BY DEF Continue
<1>2. ReportTrue(call[c], performed) /\ IsReport(call[c].report)
  BY <1>1 DEF GInv, CallsInv, CallInv
<1> HIDE DEF n
<1>3. r.status = call[c].report.status /\ r.effects = call[c].report.effects
  BY <1>2 DEF IsReport
<1> HIDE DEF r
<1>4. /\ call'[c].report = r /\ call'[c].held = call[c].held
      /\ call'[c].outcome = call[c].outcome /\ call'[c].entered = call[c].entered
  BY <1>1, TellMoves DEF GInv, MovedTo
<1>5. ReportTrue(call'[c], performed)
  BY <1>2, <1>3, <1>4 DEF ReportTrue
<1> QED
  BY <1>1, <1>5, TellStep

LEMMA DieKeeps ==
  ASSUME GInv, NEW c \in Callers, Die(c)
  PROVE  GInv'
BY TellStep DEF Die

LEMMA AgainKeeps ==
  ASSUME GInv, NEW c \in Callers, Again(c)
  PROVE  GInv'
<1> DEFINE y == [NoCall EXCEPT !.pc = "submitted", !.held = Held(c)]
<1>1. /\ call' = [call EXCEPT ![c] = y] /\ call[c].pc = "told"
      /\ UNCHANGED <<contract, sources, world, serving, retained, custody, performed>>
  BY DEF Again
<1>2. Held(c).owner \in Owners
  BY <1>1 DEF GInv, Shapes
<1>3. /\ DOMAIN y = Fields /\ y.pc = "submitted" /\ y.held = Held(c) /\ y.outcome = None
      /\ y.entered = FALSE
  BY DEF NoCall, Fields
<1> HIDE DEF y
<1>4. Moved(c) /\ call'[c] = y
  BY <1>1, <1>3 DEF Moved, GInv, Shapes
<1>5. IsCall(y) /\ y.held.owner \in Owners
  BY <1>2, <1>3 DEF IsCall, Stages
<1>6. CallInv(c, y, custody', world, performed)
  BY <1>3 DEF CallInv, Inside
<1> QED
  BY <1>1, <1>4, <1>5, <1>6, Releases, QuietStep

(* Performing raises a domain that was observed when the action was        *)
(* offered: the invocation is stale from then on.                          *)
LEMMA PerformedIsStale ==
  ASSUME Shapes, NEW i, NEW E, E # {}, E \subseteq i.revision.operation.effects, Stamped(i, world),
         world' = [d \in Domains |->
           IF \E e \in i.revision.custody : e.id \in E /\ e.domain = d THEN world[d] + 1 ELSE world[d]]
  PROVE  Grown(world, world') /\ Stale(i, world')
<1>1. world \in [Domains -> Nat]
  BY DEF Shapes
<1>2. Grown(world, world')
  BY <1>1 DEF Grown
<1>3. PICK x \in E : x \in i.revision.operation.effects
  OBVIOUS
<1>4. PICK e \in i.revision.custody :
        /\ e.id = x /\ e.domain \in Domains /\ e.domain \in DOMAIN i.dependency
        /\ i.dependency[e.domain] \in Nat /\ i.dependency[e.domain] <= world[e.domain]
  BY <1>3 DEF Stamped
<1>5. world'[e.domain] = world[e.domain] + 1
  BY <1>3, <1>4
<1>6. i.dependency[e.domain] < world'[e.domain]
  BY <1>1, <1>4, <1>5
<1> QED
  BY <1>2, <1>4, <1>6 DEF Stale

LEMMA PerformKeeps ==
  ASSUME GInv, NEW c \in Callers, NEW E, Perform(c, E)
  PROVE  GInv'
<1> DEFINE i == Held(c)
           o == [status |-> "applied", effects |-> E]
           new == [invocation |-> i, effects |-> E]
<1>1. /\ call[c].pc = "looked" /\ E # {} /\ E \subseteq i.revision.operation.effects
      /\ world' = [d \in Domains |->
           IF \E e \in i.revision.custody : e.id \in E /\ e.domain = d THEN world[d] + 1 ELSE world[d]]
      /\ call' = [call EXCEPT ![c].pc = "performed", ![c].seen = None, ![c].outcome = o]
      /\ performed' = performed \cup {new}
      /\ retained' = [p \in Retaining |-> IF p = i.operation
                        THEN [invocation |-> i, outcome |-> o] ELSE retained[p]]
      /\ UNCHANGED <<sources, custody>>
  BY DEF Perform
<1>2. new.invocation = i /\ new.effects = E /\ o.status = "applied" /\ o.effects = E
  OBVIOUS
<1>3. /\ Stamped(i, world) /\ custody[i.owner] = c /\ i.owner \in Owners /\ call[c].entered
  BY <1>1 DEF GInv, CallsInv, CallInv, Held, Shapes, Inside
<1> HIDE DEF o
<1>4. MovedTo(c, "performed", call[c].entered, o)
  BY <1>1 DEF MovedTo, Moved, GInv, Shapes, IsCall, Fields
<1> HIDE DEF i
<1>5. Grown(world, world') /\ Stale(i, world')
  BY <1>1, <1>3, PerformedIsStale DEF GInv
<1>6. IsCall(call'[c]) /\ call'[c].held = i
  BY <1>3, <1>4 DEF MovedTo, Moved, GInv, Shapes, IsCall, Held, Stages, i
<1>7. Shapes'
  <2>1. DOMAIN retained' = Retaining /\ DOMAIN call' = Callers /\ world' \in [Domains -> Nat]
    BY <1>1, <1>4, <1>5 DEF MovedTo, Moved, Grown
  <2>2. ASSUME NEW d \in Callers
        PROVE  IsCall(call'[d]) /\ (call'[d].pc # "idle" => call'[d].held.owner \in Owners)
    BY <1>3, <1>4, <1>6 DEF MovedTo, Moved, GInv, Shapes, Held
  <2>3. /\ sources' \in [Owners -> Sources] /\ \A x \in Owners : sources'[x].owner = x
        /\ custody' \in [Owners -> Callers \cup {None}]
    BY <1>1 DEF GInv, Shapes
  <2> QED
    BY <2>1, <2>2, <2>3 DEF Shapes, Held
<1>8. Happened(i, E, performed')
  BY <1>1, <1>2 DEF Happened
<1>9. CallsInv'
  <2> SUFFICES ASSUME NEW d \in Callers
               PROVE  CallInv(d, call'[d], custody', world', performed')
    BY DEF CallsInv
  <2>1. CASE d = c
    BY <2>1, <1>2, <1>3, <1>4, <1>6, <1>8 DEF MovedTo, CallInv, OutcomeTrue, Inside
  <2>2. CASE d # c
    <3>1. call'[d] = call[d] /\ CallInv(d, call[d], custody, world, performed)
      BY <2>2, <1>4 DEF MovedTo, Moved, GInv, CallsInv
    <3>2. call[d].pc = "looked" => call[d].held # i
      BY <2>2, <3>1, <1>3 DEF CallInv
    <3>3. call[d].pc = "looked" => \A p \in performed' : p.invocation # call[d].held
      BY <3>1, <3>2, <1>1, <1>2 DEF CallInv
    <3>4. performed \subseteq performed' /\ custody' = custody
      BY <1>1
    <3> QED
      BY <3>1, <3>3, <3>4, <1>5, CallStays
  <2> QED
    BY <2>1, <2>2
<1>10. PerformedStale'
  <2> SUFFICES ASSUME NEW p \in performed'
               PROVE  Stale(p.invocation, world')
    BY DEF PerformedStale
  <2>1. p = new \/ p \in performed
    BY <1>1
  <2>2. p \in performed => Stale(p.invocation, world)
    BY DEF GInv, PerformedStale
  <2> QED
    BY <2>1, <2>2, <1>2, <1>5, StaleStays
<1>11. RetainedPerformed'
  <2> SUFFICES ASSUME NEW p \in Retaining
               PROVE  retained'[p] = None \/ \E q \in performed' :
                        retained'[p] = [invocation |-> q.invocation,
                                        outcome |-> [status |-> "applied", effects |-> q.effects]]
    BY DEF RetainedPerformed
  <2>1. CASE p = i.operation
    <3>1. retained'[p] = [invocation |-> i, outcome |-> o] /\ new \in performed'
      BY <2>1, <1>1
    <3>2. retained'[p] = [invocation |-> new.invocation,
                          outcome |-> [status |-> "applied", effects |-> new.effects]]
      BY <3>1, <1>2 DEF o
    <3> QED
      BY <3>1, <3>2
  <2>2. CASE p # i.operation
    BY <2>2, <1>1 DEF GInv, RetainedPerformed
  <2> QED
    BY <2>1, <2>2
<1> QED
  BY <1>7, <1>9, <1>10, <1>11 DEF GInv

(***************************************************************************)
(* The environment.                                                        *)
(***************************************************************************)

LEMMA EnvironmentKeeps ==
  ASSUME GInv, Environment
  PROVE  GInv'
<1>1. ASSUME NEW o \in Owners, NEW s \in Sources, Contribute(o, s)
      PROVE  GInv'
  <2>1. /\ s.owner = o /\ sources' = [sources EXCEPT ![o] = s]
        /\ UNCHANGED <<world, retained, custody, call, performed>>
    BY <1>1 DEF Contribute
  <2>2. sources' \in [Owners -> Sources] /\ \A x \in Owners : sources'[x].owner = x
    BY <2>1 DEF GInv, Shapes
  <2>3. Shapes'
    BY <2>1, <2>2 DEF GInv, Shapes, Held
  <2> QED
    BY <2>1, <2>3 DEF GInv, CallsInv, PerformedStale, RetainedPerformed
<1>2. ASSUME NEW k \in Contracts, Redeclare(k)
      PROVE  GInv'
  BY <1>2 DEF Redeclare, GInv, Shapes, Held, CallsInv, PerformedStale, RetainedPerformed
<1>3. ASSUME NEW x \in Domains, Edit(x)
      PROVE  GInv'
  <2>1. /\ world' = [world EXCEPT ![x] = @ + 1]
        /\ UNCHANGED <<sources, retained, custody, call, performed>>
    BY <1>3 DEF Edit
  <2>2. Grown(world, world')
    BY <2>1 DEF Grown, GInv, Shapes
  <2>3. Shapes'
    BY <2>1, <2>2 DEF GInv, Shapes, Held, Grown
  <2>4. CallsInv'
    <3> SUFFICES ASSUME NEW d \in Callers
                 PROVE  CallInv(d, call[d], custody, world', performed)
      BY <2>1 DEF CallsInv
    <3>1. CallInv(d, call[d], custody, world, performed)
      BY DEF GInv, CallsInv
    <3>2. call[d].pc = "looked" => \A p \in performed : p.invocation # call[d].held
      BY <3>1 DEF CallInv
    <3> QED
      BY <3>1, <3>2, <2>2, CallStays
  <2>5. PerformedStale'
    <3> SUFFICES ASSUME NEW p \in performed
                 PROVE  Stale(p.invocation, world')
      BY <2>1 DEF PerformedStale
    <3> QED
      BY <2>2, StaleStays DEF GInv, PerformedStale
  <2>6. RetainedPerformed'
    BY <2>1 DEF GInv, RetainedPerformed
  <2> QED
    BY <2>3, <2>4, <2>5, <2>6 DEF GInv
<1>4. CASE Suspend
  BY <1>4 DEF Suspend, GInv, Shapes, Held, CallsInv, PerformedStale, RetainedPerformed
<1>5. ASSUME NEW p \in Retaining, Forget(p)
      PROVE  GInv'
  <2>1. /\ retained' = [retained EXCEPT ![p] = None]
        /\ UNCHANGED <<sources, world, custody, call, performed>>
    BY <1>5 DEF Forget
  <2>2. Shapes'
    BY <2>1 DEF GInv, Shapes, Held
  <2>3. CallsInv' /\ PerformedStale'
    BY <2>1 DEF GInv, CallsInv, PerformedStale
  <2>4. \A q \in Retaining : retained'[q] = None \/ retained'[q] = retained[q]
    BY <2>1 DEF GInv, Shapes
  <2>5. RetainedPerformed'
    <3> SUFFICES ASSUME NEW q \in Retaining
                 PROVE  retained'[q] = None \/ \E x \in performed :
                          retained'[q] = [invocation |-> x.invocation,
                                          outcome |-> [status |-> "applied", effects |-> x.effects]]
      BY <2>1 DEF RetainedPerformed
    <3>1. CASE retained'[q] = None
      BY <3>1
    <3>2. CASE retained'[q] = retained[q]
      BY <3>2 DEF GInv, RetainedPerformed
    <3> QED
      BY <2>4, <3>1, <3>2
  <2> QED
    BY <2>2, <2>3, <2>5 DEF GInv
<1> QED
  BY <1>1, <1>2, <1>3, <1>4, <1>5 DEF Environment

(***************************************************************************)
(* The theorems.                                                           *)
(***************************************************************************)

LEMMA StartsWithin ==
  ASSUME Init
  PROVE  GInv
<1>1. Shapes
  BY DEF Init, Shapes, NoCall, IsCall, Fields, Stages
<1>2. CallsInv
  BY DEF Init, CallsInv, CallInv, NoCall, Inside
<1>3. PerformedStale /\ RetainedPerformed
  BY DEF Init, PerformedStale, RetainedPerformed
<1> QED
  BY <1>1, <1>2, <1>3 DEF GInv

LEMMA StepKeeps ==
  ASSUME GInv, [Next]_vars
  PROVE  GInv'
<1>1. CASE UNCHANGED vars
  BY <1>1 DEF vars, GInv, Shapes, Held, CallsInv, PerformedStale, RetainedPerformed
<1>2. ASSUME NEW c \in Callers, NEW R, NEW mode, Resolves(R), NEW i \in ReadyActions(R),
             Start(c, R, i, mode)
      PROVE  GInv'
  BY <1>2, StartKeeps
<1>3. ASSUME NEW c \in Callers, Step(c)
      PROVE  GInv'
  <2>1. CASE Select(c) \/ Carry(c)
    BY <2>1, SelectKeeps
  <2>2. CASE SelectStale(c)
    BY <2>2, SelectStaleKeeps
  <2>3. CASE Enter(c)
    BY <2>3, EnterKeeps
  <2>4. CASE Refuse(c)
    BY <2>4, RefuseKeeps
  <2>5. CASE TakeCustody(c)
    BY <2>5, TakeCustodyKeeps
  <2>6. CASE Look(c)
    BY <2>6, LookKeeps
  <2>7. CASE LookStale(c) \/ OwnerFails(c) \/ Widened(c)
    BY <2>7, OwnerStopKeeps
  <2>8. ASSUME NEW E, Perform(c, E)
        PROVE  GInv'
    BY <2>8, PerformKeeps
  <2>9. ASSUME NEW x \in {"unchanged", "rejected"}, Decline(c, x)
        PROVE  GInv'
    BY <2>9, DeclineKeeps
  <2>10. CASE Confirm(c)
    BY <2>10, ConfirmKeeps
  <2>11. CASE Continue(c)
    BY <2>11, ContinueKeeps
  <2>12. CASE Die(c)
    BY <2>12, DieKeeps
  <2>13. CASE Again(c)
    BY <2>13, AgainKeeps
  <2> QED
    BY <1>3, <2>1, <2>2, <2>3, <2>4, <2>5, <2>6, <2>7, <2>8, <2>9, <2>10, <2>11, <2>12, <2>13
    DEF Step
<1>4. CASE Environment
  BY <1>4, EnvironmentKeeps
<1> QED
  BY <1>1, <1>2, <1>3, <1>4 DEF Next

(* The inductive invariant: at each stage of a call what it has entered,   *)
(* locked, seen and performed; whatever was performed is stale ever since. *)
THEOREM IngressInvariant == Spec => []GInv
<1>1. Init => GInv
  BY StartsWithin
<1>2. GInv /\ [Next]_vars => GInv'
  BY StepKeeps
<1> QED
  BY <1>1, <1>2, PTL DEF Spec

(* ReportsTrue (invocation_failure, finish_invocation): what a caller is   *)
(* told is what happened, for any callers, owners, contracts and changes.  *)
THEOREM ReportsAreTrue == Spec => []ReportsTrue
<1>1. GInv => ReportsTrue
  <2> SUFFICES ASSUME GInv, NEW c \in Callers, call[c].pc = "told", call[c].report # None
               PROVE  ReportTrue(call[c], performed)
    BY DEF ReportsTrue, ReportTrue, Happened, Held
  <2> QED
    BY DEF GInv, CallsInv, CallInv
<1> QED
  BY <1>1, IngressInvariant, PTL

(* GrantsUncontested (ready_actions, terminal_authority): what a decision  *)
(* grants nobody relevant objects to, in every state.                      *)
THEOREM GrantsAreUncontested == Spec => []GrantsUncontested
<1>1. GrantsUncontested
  BY Uncontested
<1> QED
  BY <1>1, PTL

(* PerformedAsOffered (the owners' revalidation under custody): an effect  *)
(* happens only as it was offered, unopposed at the last look, and once.   *)
THEOREM EffectsAsOffered == Spec => PerformedAsOffered
<1> DEFINE AsOffered ==
      \A c \in Callers : call[c].pc = "looked" /\ call'[c].pc = "performed"
                         /\ call'[c].outcome.effects # {} =>
        /\ call[c].seen.versions = Held(c).dependency
        /\ ~call[c].seen.objected
        /\ \A p \in performed : p.invocation # Held(c)
<1>1. GInv => AsOffered
  <2> SUFFICES ASSUME GInv, NEW c \in Callers, call[c].pc = "looked"
               PROVE  /\ call[c].seen.versions = Held(c).dependency
                      /\ ~call[c].seen.objected
                      /\ \A p \in performed : p.invocation # Held(c)
    OBVIOUS
  <2>1. /\ call[c].seen = [versions |-> Held(c).dependency, objected |-> FALSE]
        /\ \A p \in performed : p.invocation # Held(c)
    BY DEF GInv, CallsInv, CallInv, Held
  <2>2. call[c].seen.versions = Held(c).dependency /\ call[c].seen.objected = FALSE
    BY <2>1
  <2>3. ~call[c].seen.objected
    BY <2>2
  <2> QED
    BY <2>1, <2>2, <2>3
<1>2. GInv /\ [Next]_vars => [AsOffered]_vars
  BY <1>1
<1>3. PerformedAsOffered <=> [][AsOffered]_vars
  BY DEF PerformedAsOffered
<1> HIDE DEF AsOffered
<1> QED
  BY <1>2, <1>3, IngressInvariant, PTL DEF Spec

(***************************************************************************)
(* Ready actions may be done one after the other.                          *)
(***************************************************************************)

(* No owner holds back one exact invocation: the scopes the owners name    *)
(* are effects, claims, attestations and the task.                         *)
RestrictsNoAction ==
  \A s \in Sources : \A b \in s.blockers \cup s.decisions : \A x \in b.affects : x[1] # "action"

(* What the contributions S offer where the domains have the versions w.   *)
Offer(k, c, a, w) ==
  Invocation(k, c, a, [d \in Observed(k, c.owner, a.operation) |-> w[d]])

Offers(k, S, w) == UNION {{Offer(k, c, a, w) : a \in c.actions} : c \in Relevant(S)}

ContributionsAccepted(k, S) == \A c \in S : ContributionAccepted(k, Work, c)

NamesNoAction(S) == \A i : ActionScope(i) \notin Constrained(S)

LEMMA ReadyOffers ==
  ASSUME NEW R
  PROVE  ReadyActions(R) = Ready(contract, Contributions(R), Offers(contract, Contributions(R), world))
BY DEF ReadyActions, Invocations, Offers, Offer, Versions

LEMMA OfferParts ==
  ASSUME NEW k, NEW c, NEW a, NEW w
  PROVE  LET i == Offer(k, c, a, w) IN
         /\ i.owner = c.owner /\ i.operation = a.operation /\ i.arguments = a.arguments
         /\ i.effects = a.effects /\ i.requests = a.requests
         /\ i.revision = OperationRevision(k, c.owner, a.operation)
BY DEF Offer, Invocation

LEMMA OfferKnown ==
  ASSUME NEW k, NEW S, ContributionsAccepted(k, S), NEW c \in Relevant(S), NEW a \in c.actions
  PROVE  c.owner \in KnownOwners(k) /\ a.operation \in OperationIds(Declared(k, c.owner))
BY DEF ContributionsAccepted, ContributionAccepted, AuthorityBearing, ActionsAccepted, Relevant

(* What an operation of the contract observes are domains of the contract; *)
(* if it declares its reads, what it reads and writes and nothing else.    *)
LEMMA ObservedFootprint ==
  ASSUME NEW k \in Accepted, NEW i, i.owner \in KnownOwners(k),
         i.operation \in OperationIds(Declared(k, i.owner)), Reads(k, i) # Unknown
  PROVE  /\ Observed(k, i.owner, i.operation) = Reads(k, i) \cup Writes(k, i)
         /\ Observed(k, i.owner, i.operation) \subseteq Domains
<1> DEFINE r == Declared(k, i.owner)  op == Operation(k, i.owner, i.operation)
<1>1. Observed(k, i.owner, i.operation) = Reads(k, i) \cup Writes(k, i)
  BY DEF Observed, Reads, Writes
<1>2. r \in k.owners /\ op \in r.operations
  BY DeclaredKnown, OperationKnown
<1>3. OwnerAccepted(k, r) /\ k \in Contracts /\ ContractAccepted(k)
  BY <1>2 DEF Accepted, ContractAccepted
<1>4. op.reads \subseteq AllDomains(k) /\ \A e \in r.effects : e.domain \in r.domains
  BY <1>2, <1>3 DEF OwnerAccepted, Reads
<1>5. r.domains \subseteq AllDomains(k) /\ AllDomains(k) \subseteq Domains
  BY <1>2, <1>3, IngressAssumption DEF AllDomains
<1>6. Reads(k, i) \subseteq Domains
  BY <1>4, <1>5 DEF Reads
<1>7. Writes(k, i) \subseteq Domains
  BY <1>4, <1>5 DEF Writes
<1> QED
  BY <1>1, <1>6, <1>7

(* Availability and independence do not look at versions.                  *)
LEMMA AvailableOffer ==
  ASSUME NEW k, NEW S, NamesNoAction(S), NEW v, NEW w, NEW c \in Relevant(S), NEW a \in c.actions,
         NEW A, NEW B, Offer(k, c, a, v) \in Available(S, A), Offer(k, c, a, w) \in B
  PROVE  Offer(k, c, a, w) \in Available(S, B)
<1> DEFINE i == Offer(k, c, a, v)  j == Offer(k, c, a, w)  held == Constrained(S)
<1>1. Task \notin held /\ \A e \in i.effects : EffectScope(e) \notin held
  BY DEF Available
<1>2. i.effects = j.effects
  BY OfferParts
<1>3. ActionScope(j) \notin held
  BY DEF NamesNoAction
<1> HIDE DEF i, j, held
<1>4. /\ j \in B /\ Task \notin held /\ ActionScope(j) \notin held
      /\ \A e \in j.effects : EffectScope(e) \notin held
  BY <1>1, <1>2, <1>3 DEF j
<1> QED
  BY <1>4 DEF Available, j, held

LEMMA IndependentOffers ==
  ASSUME NEW k, NEW i, NEW j, NEW x, NEW y, IndependentActions(k, i, j),
         x.owner = i.owner, x.operation = i.operation, y.owner = j.owner, y.operation = j.operation
  PROVE  IndependentActions(k, x, y)
BY DEF IndependentActions, Reads, Writes

LEMMA OfferedIn ==
  ASSUME NEW k, NEW S, NEW w, NEW i
  PROVE  i \in Offers(k, S, w) <=> \E c \in Relevant(S) : \E a \in c.actions : i = Offer(k, c, a, w)
BY DEF Offers

LEMMA SameOffer ==
  ASSUME NEW k, NEW c, NEW a, NEW d, NEW b, NEW v, NEW w, Offer(k, c, a, v) = Offer(k, d, b, v)
  PROVE  Offer(k, c, a, w) = Offer(k, d, b, w)
<1>1. /\ c.owner = d.owner /\ a.operation = b.operation /\ a.arguments = b.arguments
      /\ a.effects = b.effects /\ a.requests = b.requests
  BY OfferParts
<1> QED
  BY <1>1 DEF Offer, Invocation

(* Doing one ready action leaves the others ready.                         *)
LEMMA OthersStayReady ==
  ASSUME NEW k \in Accepted, NEW S, ContributionsAccepted(k, S), NamesNoAction(S),
         NEW v, NEW w,
         NEW h \in Ready(k, S, Offers(k, S, v)), NEW i \in Ready(k, S, Offers(k, S, v)), i # h,
         \A d \in Domains : w[d] = v[d] \/ \E e \in h.revision.custody : e.domain = d
  PROVE  i \in Ready(k, S, Offers(k, S, w))
<1> DEFINE A == Available(S, Offers(k, S, v))
           B == Available(S, Offers(k, S, w))
<1>1. Independent(k, A) /\ h \in A /\ i \in A
  BY DEF Ready
<1>2. h \in Offers(k, S, v) /\ i \in Offers(k, S, v)
  BY ReadyIsFree
<1>3. PICK c \in Relevant(S) : \E a \in c.actions : i = Offer(k, c, a, v)
  BY <1>2, OfferedIn
<1>4. PICK a \in c.actions : i = Offer(k, c, a, v)
  BY <1>3
<1>5. PICK d \in Relevant(S) : \E b \in d.actions : h = Offer(k, d, b, v)
  BY <1>2, OfferedIn
<1>6. PICK b \in d.actions : h = Offer(k, d, b, v)
  BY <1>5
<1>7. IndependentActions(k, h, i)
  BY <1>1 DEF Independent
<1>8. /\ i.owner = c.owner /\ i.operation = a.operation
      /\ i.owner \in KnownOwners(k) /\ i.operation \in OperationIds(Declared(k, i.owner))
  BY <1>4, OfferParts, OfferKnown
<1>9. \A e \in h.revision.custody : e.domain \in Writes(k, h)
  <2>1. h.revision = OperationRevision(k, h.owner, h.operation)
    BY <1>6, OfferParts
  <2> QED
    BY <2>1 DEF OperationRevision, Writes
<1>10. /\ Observed(k, i.owner, i.operation) = Reads(k, i) \cup Writes(k, i)
       /\ Observed(k, i.owner, i.operation) \subseteq Domains
  BY <1>7, <1>8, ObservedFootprint DEF IndependentActions
<1>11. \A x \in Observed(k, i.owner, i.operation) : w[x] = v[x]
  BY <1>7, <1>9, <1>10 DEF IndependentActions
<1>12. i = Offer(k, c, a, w)
  <2>1. [x \in Observed(k, c.owner, a.operation) |-> w[x]] = [x \in Observed(k, c.owner, a.operation) |-> v[x]]
    BY <1>8, <1>11
  <2> QED
    BY <1>4, <2>1 DEF Offer
<1>13. i \in Offers(k, S, w)
  BY <1>12, OfferedIn
<1>14. i \in B
  BY <1>1, <1>4, <1>12, <1>13, AvailableOffer
<1>15. ASSUME NEW x \in B, NEW y \in B, x # y
       PROVE  IndependentActions(k, x, y)
  <2>1. x \in Offers(k, S, w) /\ y \in Offers(k, S, w)
    BY DEF Available
  <2>2. PICK e \in Relevant(S) : \E f \in e.actions : x = Offer(k, e, f, w)
    BY <2>1, OfferedIn
  <2>3. PICK f \in e.actions : x = Offer(k, e, f, w)
    BY <2>2
  <2>4. PICK m \in Relevant(S) : \E n \in m.actions : y = Offer(k, m, n, w)
    BY <2>1, OfferedIn
  <2>5. PICK n \in m.actions : y = Offer(k, m, n, w)
    BY <2>4
  <2>6. Offer(k, e, f, v) \in Offers(k, S, v) /\ Offer(k, m, n, v) \in Offers(k, S, v)
    BY OfferedIn
  <2>7. Offer(k, e, f, v) \in A /\ Offer(k, m, n, v) \in A
    BY <2>3, <2>5, <2>6, AvailableOffer
  <2>8. Offer(k, e, f, v) # Offer(k, m, n, v)
    BY <1>15, <2>3, <2>5, SameOffer
  <2>9. IndependentActions(k, Offer(k, e, f, v), Offer(k, m, n, v))
    BY <1>1, <2>7, <2>8 DEF Independent
  <2> HIDE DEF A, B
  <2> QED
    BY <2>3, <2>5, <2>9, OfferParts, IndependentOffers
<1>16. Independent(k, B)
  BY <1>15 DEF Independent
<1> QED
  BY <1>14, <1>16 DEF Ready

(* Between its look and its outcome a call only performs or declines.      *)
LEMMA OutcomeOfLook ==
  ASSUME GInv, [Next]_vars, NEW c \in Callers, call[c].pc = "looked", call'[c].pc = "performed"
  PROVE  (\E E : Perform(c, E)) \/ (\E x : Decline(c, x))
<1>1. call # call' /\ ~UNCHANGED vars
  BY DEF vars
<1>2. ~Environment
  BY <1>1 DEF Environment, Contribute, Redeclare, Edit, Suspend, Forget
<1>3. ASSUME NEW d \in Callers, NEW y, call' = [call EXCEPT ![d] = y]
      PROVE  d = c
  BY <1>3
<1>4. ASSUME NEW d \in Callers, NEW R, NEW mode, NEW i, Start(d, R, i, mode)
      PROVE  FALSE
  BY <1>4, <1>3 DEF Start
<1>5. ASSUME NEW d \in Callers, Step(d)
      PROVE  (\E E : Perform(c, E)) \/ (\E x : Decline(c, x))
  <2>1. CASE \E r : Tell(d, r)
    <3>1. PICK r : Tell(d, r)
      BY <2>1
    <3>2. Moved(d) /\ call'[d].pc = "told"
      BY <3>1, TellMoves DEF GInv, MovedTo
    <3> QED
      BY <3>2 DEF Moved
  <2>2. CASE Select(d) \/ Carry(d)
    <3>1. Moved(d) /\ call'[d].pc = "submitted"
      BY <2>2, SubmitMoves DEF Select, Carry, GInv, MovedTo
    <3> QED
      BY <3>1 DEF Moved
  <2>3. CASE Enter(d) \/ TakeCustody(d) \/ Look(d) \/ Confirm(d) \/ Again(d)
    <3>1. call[d].pc \notin {"looked"}
      BY <2>3 DEF Enter, TakeCustody, Turn, Look, Confirm, Again
    <3>2. d # c
      BY <3>1
    <3>3. call'[c] = call[c]
      BY <2>3, <3>2 DEF Enter, TakeCustody, Turn, Look, Confirm, Again, GInv, Shapes
    <3> QED
      BY <3>3
  <2>4. ASSUME NEW E, Perform(d, E)
        PROVE  Perform(c, E)
    <3>1. CASE d = c
      BY <2>4, <3>1
    <3>2. CASE d # c
      <4>1. call'[c] = call[c]
        BY <2>4, <3>2 DEF Perform, GInv, Shapes
      <4> QED
        BY <4>1
    <3> QED
      BY <3>1, <3>2
  <2>5. ASSUME NEW x, Decline(d, x)
        PROVE  Decline(c, x)
    <3>1. CASE d = c
      BY <2>5, <3>1
    <3>2. CASE d # c
      <4>1. call'[c] = call[c]
        BY <2>5, <3>2 DEF Decline, GInv, Shapes
      <4> QED
        BY <4>1
    <3> QED
      BY <3>1, <3>2
  <2>6. CASE SelectStale(d) \/ Refuse(d) \/ LookStale(d) \/ OwnerFails(d) \/ Widened(d)
             \/ Continue(d) \/ Die(d)
    BY <2>1, <2>6 DEF SelectStale, Refuse, LookStale, OwnerFails, Widened, Continue, Die
  <2> QED
    BY <1>5, <2>2, <2>3, <2>4, <2>5, <2>6 DEF Step
<1> QED
  BY <1>1, <1>2, <1>4, <1>5 DEF Next

LEMMA ContributesNoAction ==
  ASSUME RestrictsNoAction, Shapes, NEW R
  PROVE  NamesNoAction(Contributions(R))
<1> SUFFICES ASSUME NEW i, ActionScope(i) \in Constrained(Contributions(R))
             PROVE  FALSE
  BY DEF NamesNoAction
<1>1. PICK c \in Contributions(R) : ActionScope(i) \in Restrictions(c)
  BY DEF Constrained, Relevant
<1>2. PICK o \in Owners : c = Contributed(sources[o], R)
  BY DEF Contributions, Contributed
<1>3. sources[o] \in Sources
  BY DEF Shapes
<1>4. c.blockers = sources[o].blockers /\ c.decisions = sources[o].decisions
  BY <1>2, <1>3, IngressAssumption DEF Contributed
<1>5. PICK b \in sources[o].blockers \cup sources[o].decisions : ActionScope(i) \in b.affects
  BY <1>1, <1>4 DEF Restrictions
<1>6. ActionScope(i)[1] = "action"
  OBVIOUS
<1> QED
  BY <1>3, <1>5, <1>6 DEF RestrictsNoAction

LEMMA ReadyStay ==
  ASSUME RestrictsNoAction, GInv, NEW c \in Callers,
         (\E E : Perform(c, E)) \/ (\E x : Decline(c, x)),
         NEW R, Resolves(R), Held(c) \in ReadyActions(R),
         NEW i \in ReadyActions(R), i # Held(c)
  PROVE  i \in ReadyActions(R)'
<1> DEFINE S == Contributions(R)
<1>1. UNCHANGED <<contract, sources>>
  BY DEF Perform, Decline, Still
<1>2. \A d \in Domains :
         world'[d] = world[d] \/ \E e \in Held(c).revision.custody : e.domain = d
  <2>1. ASSUME NEW E, Perform(c, E)
        PROVE  \A d \in Domains :
                 world'[d] = world[d] \/ \E e \in Held(c).revision.custody : e.domain = d
    <3>1. world' = [d \in Domains |->
             IF \E e \in Held(c).revision.custody : e.id \in E /\ e.domain = d
             THEN world[d] + 1 ELSE world[d]]
      BY <2>1 DEF Perform
    <3> QED
      BY <3>1
  <2>2. ASSUME NEW x, Decline(c, x)
        PROVE  world' = world
    BY <2>2 DEF Decline, Still
  <2> QED
    BY <2>1, <2>2
<1>3. contract \in Accepted /\ ContributionsAccepted(contract, S)
  BY DEF Resolves, Compiles, ContributionsAccepted
<1>4. NamesNoAction(S)
  BY ContributesNoAction DEF GInv
<1>5. ReadyActions(R) = Ready(contract, S, Offers(contract, S, world))
  BY ReadyOffers
<1>6. ReadyActions(R)' = Ready(contract, S, Offers(contract, S, world'))
  BY <1>1 DEF ReadyActions, Contributions, Invocations, Offers, Offer, Versions
<1> HIDE DEF S
<1>7. i \in Ready(contract, S, Offers(contract, S, world'))
  BY <1>2, <1>3, <1>4, <1>5, OthersStayReady
<1> QED
  BY <1>6, <1>7

(* ReadyStayReady (independent_actions, ready_actions): as long as owners  *)
(* name no exact invocation in what they hold back, doing one of the       *)
(* actions offered together leaves each of the others offered.             *)
THEOREM ReadyActionsStay == ASSUME RestrictsNoAction PROVE Spec => ReadyStayReady
<1> DEFINE Stay ==
      \A c \in Callers : call[c].pc = "looked" /\ call'[c].pc = "performed" =>
        \A R \in Asked : Resolves(R) /\ Held(c) \in ReadyActions(R) =>
          \A i \in ReadyActions(R) \ {Held(c)} : i \in ReadyActions(R)'
<1>1. GInv /\ [Next]_vars => Stay
  <2> SUFFICES ASSUME GInv, [Next]_vars, NEW c \in Callers,
                      call[c].pc = "looked", call'[c].pc = "performed",
                      NEW R \in Asked, Resolves(R), Held(c) \in ReadyActions(R),
                      NEW i \in ReadyActions(R) \ {Held(c)}
               PROVE  i \in ReadyActions(R)'
    OBVIOUS
  <2>1. (\E E : Perform(c, E)) \/ (\E x : Decline(c, x))
    BY OutcomeOfLook
  <2> QED
    BY <2>1, ReadyStay
<1>2. GInv /\ [Next]_vars => [Stay]_vars
  BY <1>1
<1>3. ReadyStayReady <=> [][Stay]_vars
  BY DEF ReadyStayReady
<1> HIDE DEF Stay
<1> QED
  BY <1>2, <1>3, IngressInvariant, PTL DEF Spec
=============================================================================
