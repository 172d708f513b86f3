-------------------------- MODULE OperatingIngress --------------------------
(***************************************************************************)
(* Public entry (operating.rs, native_public.rs): callers take an action   *)
(* from a decision, keep it for as long as they like and invoke it. The    *)
(* invocation is admitted against a fresh decision, enters the owner of    *)
(* its effects, is admitted again under the owner's custody, and is        *)
(* reported with what is known of its effect. Meanwhile owners change      *)
(* their contributions, the contract and the domains change, and callers   *)
(* die and repeat themselves.                                              *)
(*                                                                         *)
(* What an owner does between entry and result is the subject of the owner *)
(* modules; here it is one effect under the owner's custody, or a failure  *)
(* before or after it.                                                     *)
(***************************************************************************)
EXTENDS DecisionKernel, FiniteSets

CONSTANTS
  Callers,        \* processes that start and invoke
  Contracts,      \* capability contracts that may be composed
  Sources,        \* what owners may contribute, with .asks in place of the actions' .requests
  Owners,         \* the owners of Sources
  Domains,        \* the domains of Contracts
  Answers,        \* what a caller may answer
  Work,           \* the identity of the work
  Retaining,      \* operations whose owner retains its committed outcome (Planning)
  Rank,           \* the place of an operation in a sorted list
  EnterFirst,     \* operations that enter their owner before admission
  Intended,       \* the outcome the caller intends, or None
  MaxChanges,     \* bound on what changes by itself
  MaxRepeats      \* bound on repeated calls

VARIABLES
  contract,   \* the composed capability contract
  sources,    \* what each owner would contribute
  world,      \* the version of each domain
  serving,    \* the runtime is compatible and the workspace enabled
  retained,   \* the committed operation each retaining operation's owner keeps
  custody,    \* who holds the owner's lock
  call,       \* the callers' calls
  performed,  \* history: the effects that happened, with their invocations
  changes,    \* how often something changed by itself
  repeats     \* how many calls were repeated

ASSUME IngressAssumption ==
  /\ None \notin Callers
  /\ \A k \in Contracts : ContractAccepted(k) => AllDomains(k) \subseteq Domains
  /\ \A s \in Sources : DOMAIN s = {"owner", "revision", "relevant", "allowed", "blocked",
       "response", "outcome", "blockers", "decisions", "actions"}

vars == <<contract, sources, world, serving, retained, custody, call, performed, changes, repeats>>

(******************************* Resolution ********************************)

\* The actions an owner offers once everything they ask for was asked and is current.
ActionsFor(s, R) ==
  {[operation |-> a.operation, arguments |-> a.arguments, effects |-> a.effects,
    requests |-> {q \in R : q.owner = s.owner /\ q.kind \in a.asks}] :
     a \in {b \in s.actions :
              \A x \in b.asks : \E q \in R : q.owner = s.owner /\ q.kind = x /\ q.source = s.revision}}

Contributed(s, R) == [s EXCEPT !.actions = ActionsFor(s, R)]

Contributions(R) == {Contributed(sources[o], R) : o \in Owners}

\* The domains an owner observes for an operation it offers: those it reads and writes.
Observed(k, o, p) ==
  LET op == Operation(k, o, p) IN
  (IF op.reads = Unknown THEN Domains ELSE op.reads)
    \cup {e.domain : e \in {f \in Declared(k, o).effects : f.id \in op.effects}}

Versions(k, o, p) == [d \in Observed(k, o, p) |-> world[d]]

Invocations(S) ==
  UNION {{Invocation(contract, c, a, Versions(contract, c.owner, a.operation)) : a \in c.actions}
         : c \in Relevant(S)}

\* The contracts compile accepts.
Accepted == {k \in Contracts : ContractAccepted(k)}

\* owner_requests
OneOfAKind(R) == \A q, r \in R : q.owner = r.owner /\ q.kind = r.kind => q = r

\* resolve_selected: a runtime that serves, and requests that are current.
Resolves(R) ==
  /\ serving /\ contract \in Accepted
  /\ \A q \in R : RequestCurrent(contract, Work, q)
  /\ OneOfAKind(R)
  /\ LET S == Contributions(R) IN Compiles(contract, Work, S, Intended, None)

ReadyActions(R) == LET S == Contributions(R) IN Ready(contract, S, Invocations(S))

Receipt(i) == IF i.operation \in Retaining THEN retained[i.operation] ELSE None

\* The fresh decision an invocation is held against, made with its own source requests.
Admits(i, receipt) ==
  Admitted(contract, Contributions(i.requests), ReadyActions(i.requests), i,
           IF receipt = None THEN {} ELSE {receipt.invocation})

(******************************* References ********************************)

\* entries: the one primary action, or the ready actions by their place in the list.
Selector(R, i) ==
  LET S == Contributions(R) IN
  IF Primary(contract, S, Invocations(S), Intended) = i THEN <<"primary">>
  ELSE <<"ready", Cardinality({j \in ReadyActions(R) : Rank[j.operation] < Rank[i.operation]})>>

\* select_entry: the same envelope at the same place.
Found(R, i, selector) ==
  Resolves(R) /\ i \in ReadyActions(R) /\ Selector(R, i) = selector

(********************************* Callers *********************************)

NoCall == [pc |-> "idle", mode |-> None, selector |-> None, held |-> None, asked |-> {},
           entered |-> FALSE, answered |-> FALSE, outcome |-> None, seen |-> None,
           report |-> None]

Held(c) == call[c].held

Turn(c, from, to) == call[c].pc \in from /\ call' = [call EXCEPT ![c].pc = to]

\* The envelope is all an invocation is made of.
Submit(c) ==
  call' = [call EXCEPT ![c].pc = "submitted", ![c].mode = None, ![c].selector = None, ![c].asked = {}]

Release(c) == [o \in Owners |-> IF custody[o] = c THEN None ELSE custody[o]]

Report(status, effects) == [status |-> status, effects |-> effects, next |-> "unavailable"]

\* invocation_failure: a confirmed result is kept; otherwise what is said depends on entry.
Failure(c) ==
  IF call[c].entered THEN Report("uncertain", {}) ELSE Report("rejected-before-effect", {})

Tell(c, report) ==
  call' = [call EXCEPT ![c] = [@ EXCEPT !.pc = "told", !.report = report, !.seen = None,
                                        !.mode = None, !.selector = None, !.asked = {}]]

Changed == changes < MaxChanges /\ changes' = changes + 1

Still == UNCHANGED <<contract, sources, world, serving, retained, performed, changes, repeats>>

\* The questions whose answers an action may ask for.
Ask(o, kind, answer) ==
  AnswerRequest(contract, Work, sources[o], [kind |-> kind], answer)

Kinds(o) == IF o \in KnownOwners(contract) THEN Declared(contract, o).requests ELSE {}

Asked == {{}} \cup UNION {{{Ask(o, x, b)} : x \in Kinds(o), b \in Answers} : o \in Owners}

\* start: the caller keeps one ready action, as an exact envelope or as a reference to it.
Start(c, R, i, mode) ==
  /\ call[c].pc = "idle"
  /\ call' = [call EXCEPT ![c] =
       [NoCall EXCEPT !.pc = "holding", !.mode = mode, !.selector = Selector(R, i),
                      !.held = i, !.asked = R]]
  /\ UNCHANGED custody /\ Still

\* operate_current with a reference: it must be found again in a fresh decision.
Select(c) ==
  /\ call[c].pc = "holding" /\ call[c].mode = "reference"
  /\ Found(call[c].asked, Held(c), call[c].selector)
  /\ Submit(c)
  /\ UNCHANGED custody /\ Still

SelectStale(c) ==
  /\ call[c].pc = "holding" /\ call[c].mode = "reference"
  /\ ~Found(call[c].asked, Held(c), call[c].selector)
  /\ Tell(c, Report("rejected-before-effect", {}))
  /\ UNCHANGED custody /\ Still

\* operate_current with an exact envelope: admission alone decides.
Carry(c) ==
  /\ call[c].pc = "holding" /\ call[c].mode = "carried"
  /\ Submit(c)
  /\ UNCHANGED custody /\ Still

\* Mutant: the owner counts as entered only once it has performed.
EnterLate(c) ==
  /\ call[c].pc = "submitted"
  /\ Resolves(Held(c).requests) /\ Admits(Held(c), Receipt(Held(c)))
  /\ call' = [call EXCEPT ![c].pc = IF Receipt(Held(c)) = None THEN "entered" ELSE "performed",
                          ![c].answered = Receipt(Held(c)) # None,
                          ![c].outcome = IF Receipt(Held(c)) = None THEN None
                                         ELSE Receipt(Held(c)).outcome]
  /\ UNCHANGED custody /\ Still

\* invoke_inner, admitted: with a receipt the retained outcome answers.
Enter(c) ==
  /\ call[c].pc = "submitted"
  /\ Resolves(Held(c).requests) /\ Admits(Held(c), Receipt(Held(c)))
  /\ call' = [call EXCEPT ![c].pc = IF Receipt(Held(c)) = None THEN "entered" ELSE "performed",
                          ![c].entered = TRUE,
                          ![c].answered = Receipt(Held(c)) # None,
                          ![c].outcome = IF Receipt(Held(c)) = None THEN None
                                         ELSE Receipt(Held(c)).outcome]
  /\ UNCHANGED custody /\ Still

\* invoke_inner, refused; patches, delegations and manuals have entered before they ask.
Refuse(c) ==
  /\ call[c].pc = "submitted"
  /\ ~(Resolves(Held(c).requests) /\ Admits(Held(c), Receipt(Held(c))))
  /\ Tell(c, IF Resolves(Held(c).requests) /\ Held(c).operation \in EnterFirst
             THEN Report("uncertain", {}) ELSE Report("rejected-before-effect", {}))
  /\ UNCHANGED custody /\ Still

(********************************** Owners *********************************)

TakeCustody(c) ==
  /\ Turn(c, {"entered"}, "custody")
  /\ custody[Held(c).owner] = None
  /\ custody' = [custody EXCEPT ![Held(c).owner] = c]
  /\ Still

\* Somebody relevant holds back what an invocation would do.
Objected(S, i) ==
  \E s \in S : s.relevant /\ \E b \in s.blockers \cup s.decisions :
    \/ Task \in b.affects \/ ActionScope(i) \in b.affects
    \/ \E e \in i.effects : EffectScope(e) \in b.affects

\* The revalidation every owner is given: a fresh resolution and admission.
Revalidated(i) == Resolves(i.requests) /\ Admits(i, None)

Look(c) ==
  /\ call[c].pc = "custody" /\ Revalidated(Held(c))
  /\ call' = [call EXCEPT ![c].pc = "looked",
                          ![c].seen = [versions |-> Versions(contract, Held(c).owner, Held(c).operation),
                                       objected |-> Objected(Contributions(Held(c).requests), Held(c))]]
  /\ UNCHANGED custody /\ Still

LookStale(c) ==
  /\ call[c].pc = "custody" /\ ~Revalidated(Held(c))
  /\ Tell(c, Failure(c)) /\ custody' = Release(c) /\ Still

\* The owner writes domains of its operation's ceiling.
Perform(c, E) ==
  /\ call[c].pc = "looked" /\ E # {} /\ E \subseteq Held(c).revision.operation.effects
  /\ world' = [d \in Domains |->
       IF \E e \in Held(c).revision.custody : e.id \in E /\ e.domain = d THEN world[d] + 1 ELSE world[d]]
  /\ call' = [call EXCEPT ![c].pc = "performed", ![c].seen = None,
                          ![c].outcome = [status |-> "applied", effects |-> E]]
  /\ performed' = performed \cup {[invocation |-> Held(c), effects |-> E]}
  /\ retained' = [p \in Retaining |-> IF p = Held(c).operation
                    THEN [invocation |-> Held(c), outcome |-> [status |-> "applied", effects |-> E]]
                    ELSE retained[p]]
  /\ UNCHANGED <<contract, sources, serving, custody, changes, repeats>>

\* The owner finds nothing to do, or declines before it does anything.
Decline(c, status) ==
  /\ call[c].pc \in {"custody", "looked"}
  /\ call' = [call EXCEPT ![c].pc = "performed", ![c].seen = None,
                          ![c].outcome = [status |-> status, effects |-> {}]]
  /\ UNCHANGED custody /\ Still

\* The owner fails before its effect or after it: a busy lock, a full disk, a lost answer.
OwnerFails(c) ==
  /\ call[c].pc \in {"entered", "custody", "looked", "performed"}
  /\ Tell(c, Failure(c)) /\ custody' = Release(c) /\ Still

\* finish_invocation: the result is confirmed before anything else is looked at.
Confirm(c) ==
  /\ call[c].pc = "performed" /\ ResultAccepted(Held(c), call[c].outcome)
  /\ call' = [call EXCEPT ![c].pc = "confirmed",
       ![c].report = Report(IF call[c].outcome.status = "rejected"
                            THEN "rejected-before-effect" ELSE "committed", call[c].outcome.effects)]
  /\ custody' = Release(c) /\ Still

Widened(c) ==
  /\ call[c].pc = "performed" /\ ~ResultAccepted(Held(c), call[c].outcome)
  /\ Tell(c, Failure(c)) /\ custody' = Release(c) /\ Still

\* attach_continuation: the status of a fresh decision made without the answers of the
\* invocation; whether there is one or not, the confirmed result stands.
Continuation(S) == Status(contract, S, Invocations(S), Intended)

Continue(c) ==
  /\ call[c].pc = "confirmed"
  /\ Tell(c, [call[c].report EXCEPT
       !.next = IF Resolves({}) THEN Continuation(Contributions({})) ELSE "unavailable"])
  /\ UNCHANGED custody /\ Still

\* The caller's process ends at any point and says nothing.
Die(c) ==
  /\ call[c].pc \notin {"idle", "told"}
  /\ Tell(c, None) /\ custody' = Release(c) /\ Still

\* The same envelope is invoked again, after an answer or after none.
Again(c) ==
  /\ call[c].pc = "told" /\ repeats < MaxRepeats /\ repeats' = repeats + 1
  /\ call' = [call EXCEPT ![c] = [NoCall EXCEPT !.pc = "submitted", !.held = Held(c)]]
  /\ UNCHANGED <<contract, sources, world, serving, retained, custody, performed, changes>>

(******************************* Environment *******************************)

Contribute(o, s) ==
  /\ Changed /\ s.owner = o /\ s # sources[o] /\ sources' = [sources EXCEPT ![o] = s]
  /\ UNCHANGED <<contract, world, serving, retained, custody, call, performed, repeats>>

Redeclare(k) ==
  /\ Changed /\ k # contract /\ contract' = k
  /\ UNCHANGED <<sources, world, serving, retained, custody, call, performed, repeats>>

Edit(d) ==
  /\ Changed /\ world' = [world EXCEPT ![d] = @ + 1]
  /\ UNCHANGED <<contract, sources, serving, retained, custody, call, performed, repeats>>

\* An incompatible runtime or workspace.enabled=false, and back.
Suspend ==
  /\ Changed /\ serving' = ~serving
  /\ UNCHANGED <<contract, sources, world, retained, custody, call, performed, repeats>>

\* A retaining owner moves on to other work.
Forget(p) ==
  /\ Changed /\ retained[p] # None /\ retained' = [retained EXCEPT ![p] = None]
  /\ UNCHANGED <<contract, sources, world, serving, custody, call, performed, repeats>>

Step(c) ==
  \/ Select(c) \/ SelectStale(c) \/ Carry(c) \/ Enter(c) \/ Refuse(c)
  \/ TakeCustody(c) \/ Look(c) \/ LookStale(c)
  \/ \E E \in SUBSET Held(c).revision.operation.effects : Perform(c, E)
  \/ \E x \in {"unchanged", "rejected"} : Decline(c, x)
  \/ OwnerFails(c) \/ Confirm(c) \/ Widened(c) \/ Continue(c) \/ Die(c) \/ Again(c)

Environment ==
  \/ \E o \in Owners, s \in Sources : Contribute(o, s)
  \/ \E k \in Contracts : Redeclare(k)
  \/ \E d \in Domains : Edit(d)
  \/ Suspend
  \/ \E p \in Retaining : Forget(p)

Init ==
  /\ contract \in Accepted
  /\ sources \in {f \in [Owners -> Sources] : \A o \in Owners : f[o].owner = o}
  /\ world = [d \in Domains |-> 0]
  /\ serving = TRUE
  /\ retained = [p \in Retaining |-> None]
  /\ custody = [o \in Owners |-> None]
  /\ call = [c \in Callers |-> NoCall]
  /\ performed = {}
  /\ changes = 0
  /\ repeats = 0

Next ==
  \/ \E c \in Callers :
       \/ \E R \in Asked, mode \in {"carried", "reference"} :
            Resolves(R) /\ \E i \in ReadyActions(R) : Start(c, R, i, mode)
       \/ call[c].pc # "idle" /\ Step(c)
  \/ Environment

Spec == Init /\ [][Next]_vars

(******************************* Properties ********************************)

\* What a caller is told is what happened: nothing, when it is told that nothing was
\* attempted; exactly the effects named, by this call or by the earlier one it repeats, when
\* it is told of a commit; never a confirmation of effects outside its invocation.
ReportsTrue ==
  \A c \in Callers : call[c].pc = "told" /\ call[c].report # None =>
    LET r == call[c].report  o == call[c].outcome IN
    /\ r.status = "rejected-before-effect" => o = None \/ o.effects = {}
    /\ r.status = "committed" =>
         /\ r.effects = o.effects /\ r.effects \subseteq Held(c).effects
         /\ r.effects # {} =>
              \E p \in performed : /\ LogicalEffect(p.invocation) = LogicalEffect(Held(c))
                                   /\ p.effects = r.effects
    /\ r.status = "uncertain" =>
         call[c].entered \/ Held(c).operation \in EnterFirst

\* An effect happens only if, at the last look under custody, nothing it depends on had
\* changed since the caller was offered it and nobody objected; and it happens once.
PerformedAsOffered ==
  [][\A c \in Callers : call[c].pc = "looked" /\ call'[c].pc = "performed"
                        /\ call'[c].outcome.effects # {} =>
       /\ call[c].seen.versions = Held(c).dependency
       /\ ~call[c].seen.objected
       /\ \A p \in performed : p.invocation # Held(c)]_vars

\* Actions offered together may be done one after the other: doing one leaves each of the
\* others offered, with the same identity.
ReadyStayReady ==
  [][\A c \in Callers : call[c].pc = "looked" /\ call'[c].pc = "performed" =>
       \A R \in Asked : Resolves(R) /\ Held(c) \in ReadyActions(R) =>
         \A i \in ReadyActions(R) \ {Held(c)} : i \in ReadyActions(R)']_vars

\* What a decision grants nobody relevant objects to: neither a ready action, nor a claim,
\* nor the end of the task, whoever offers it.
GrantsUncontested ==
  \A R \in Asked : Resolves(R) =>
    LET S == Contributions(R)
        Contested(x) == \E s \in S : s.relevant /\
          (x \in s.blocked \/ \E b \in s.blockers \cup s.decisions : ClaimScope(x) \in b.affects) IN
    /\ \A i \in ReadyActions(R) : ~Objected(S, i)
    /\ TerminalAuthority(S, Intended) =>
         \E s \in S : /\ s.outcome # None /\ s.outcome.evidence = s.revision
                      /\ \A x \in s.outcome.required \cup {Intended.claim} :
                           ~Contested(x) /\ \E t \in S : x \in t.allowed
                      /\ \A t \in S : t.relevant =>
                           \A b \in t.blockers \cup t.decisions : Task \notin b.affects
=============================================================================
