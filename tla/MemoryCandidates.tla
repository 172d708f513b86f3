-------------------------- MODULE MemoryCandidates --------------------------
(***************************************************************************)
(* memory.update-candidates: a bounded set of optional observations in one *)
(* file, replaced through a prepared record and a temporary under a lock   *)
(* of its own.  It has no attempt: the prepared record is the recovery.    *)
(* A completion rests on a publication whose own lock it does not hold, so *)
(* the module is composed with the writers of Memory.                      *)
(***************************************************************************)
EXTENDS MemoryOwner, Filtering

CONSTANTS
    Events,     \* identities of observations
    Count,      \* COUNT: how many candidates are kept
    Age,        \* AGE: how long a candidate stays current
    MaxTime     \* bound: the clock

ASSUME CandidateAssumption == Count \in Nat \ {0} /\ Age \in Nat /\ MaxTime \in Nat

VARIABLES
    candidates, \* state.json: Absent, or a sequence of rows
    prepared,   \* prepared.json: None, Torn, or the images of a replacement
    staged,     \* state.tmp: None, Torn, or a sequence of rows
    owner,      \* holder of owner.lock, or None
    clock,
    step,       \* where each process is in a call of this owner
    bound,      \* the action of that call, or None
    dismissed   \* rows that the replacement under way was asked to remove

candidateVars == <<candidates, prepared, staged, owner, clock, step, bound, dismissed>>

Rows == [event : Events, at : 0 .. MaxTime]
Replacements == [before : Seq(Rows) \cup {Absent}, post : Seq(Rows)]

ASSUME CandidateMarksAssumption ==
    /\ None \notin Seq(Rows) /\ Torn \notin Seq(Rows) /\ Absent \notin Seq(Rows)
    /\ None \notin Replacements /\ Torn \notin Replacements

RowsOf(s) == {s[k] : k \in DOMAIN s}
State == IF candidates = Absent THEN <<>> ELSE candidates

(* Neither expired nor of a later clock.                                   *)
Current(row) == row.at <= clock /\ clock - row.at < Age

CurrentRows == {row \in RowsOf(State) : Current(row)}
Newest(s) == SubSeq(s, IF Len(s) > Count THEN Len(s) - Count + 1 ELSE 1, Len(s))

-----------------------------------------------------------------------------
(* What a request makes of the state; a request names the event and the    *)
(* time it was first considered at, or the rows it disposes of.            *)
Postimage(r) ==
    CASE r.op = "capture" ->
            Newest(Append(Filtered(State, CurrentRows), [event |-> r.event, at |-> r.at]))
      [] r.op = "maintain" -> Filtered(State, CurrentRows)
      [] r.op \in {"discard", "complete"} ->
            Filtered(State, {row \in RowsOf(State) : row.event # r.event})
      [] r.op = "recover-candidates" -> prepared.post

(* The checks of the view.  A pending record leaves only its recovery.     *)
Answered(r) ==
    CASE r.op = "recover-candidates" -> prepared # None /\ candidates \in {prepared.before, prepared.post}
      [] r.op = "capture" -> /\ prepared = None
                             /\ \A row \in RowsOf(State) : row.event # r.event
                             /\ Current(r)
      [] r.op = "complete" -> /\ prepared = None
                              /\ \E row \in RowsOf(State) : row.event = r.event /\ Current(row)
                              /\ Confirmed(r.note)
      [] r.op \in {"maintain", "discard"} -> prepared = None

(* The action of a request: it binds the bytes of the state and of the     *)
(* prepared record, and the exact postimage.                               *)
Bound(r) == [request |-> r, before |-> candidates, prepared |-> prepared, post |-> Postimage(r)]

Offered(a) ==
    /\ prepared # Torn
    /\ Answered(a.request)
    /\ a = Bound(a.request)
    /\ a.request.op # "recover-candidates" => a.post # State

CandidateRequests ==
    LET event(op, v, t, n) == [op |-> op, event |-> v, at |-> t, note |-> n]
    IN {event("capture", v, clock, None) : v \in Events}
         \cup {event("discard", row.event, row.at, None) : row \in RowsOf(State)}
         \cup {event("complete", row.event, row.at, n) : row \in RowsOf(State), n \in Advice}
         \cup {[op |-> "maintain"], [op |-> "recover-candidates"]}

-----------------------------------------------------------------------------
CandidatesInit ==
    /\ candidates = Absent /\ prepared = None /\ staged = None
    /\ owner = None /\ clock = 0
    /\ step = [p \in Procs |-> "idle"]
    /\ bound = [p \in Procs |-> None]
    /\ dismissed = {}

In(p, s) == step[p] = s

MayReplace(p) ==
    CASE In(p, "lock") -> owner = None /\ Offered(bound[p])
      [] In(p, "stage") -> staged \in {None, bound[p].post}
      [] OTHER -> TRUE

StepTo(p, s) ==
    /\ step' = [step EXCEPT ![p] = s]
    /\ UNCHANGED <<bound, owner, clock, dismissed>>

Return(p) ==
    /\ step' = [step EXCEPT ![p] = "idle"]
    /\ bound' = [bound EXCEPT ![p] = None]
    /\ owner' = IF owner = p THEN None ELSE owner
    /\ dismissed' = IF owner = p /\ prepared' = None THEN {} ELSE dismissed
    /\ UNCHANGED clock

BeginCandidates(p, r) ==
    /\ In(p, "idle") /\ At(p, "idle")
    /\ prepared # Torn /\ Answered(r) /\ Offered(Bound(r))
    /\ step' = [step EXCEPT ![p] = "lock"]
    /\ bound' = [bound EXCEPT ![p] = Bound(r)]
    /\ UNCHANGED <<candidates, prepared, staged, owner, clock, dismissed>>

(* Under the lock the view is made again, at the time it is by now.        *)
LockCandidates(p) ==
    /\ In(p, "lock") /\ MayReplace(p)
    /\ owner' = p
    /\ LET r == bound[p].request
       IN dismissed' = CASE r.op \in {"discard", "complete"} ->
                                {row \in RowsOf(State) : row.event = r.event}
                         [] r.op = "recover-candidates" -> dismissed
                         [] OTHER -> {}
    /\ step' = [step EXCEPT ![p] = IF prepared = None THEN "prepare" ELSE "stage"]
    /\ UNCHANGED <<bound, candidates, prepared, staged, clock>>

(* Mutant: the record names only where the replacement leads.              *)
PrepareWithoutPreimage(p) ==
    /\ In(p, "prepare")
    /\ prepared' = [before |-> bound[p].post, post |-> bound[p].post]
    /\ StepTo(p, "stage")
    /\ UNCHANGED <<candidates, staged>>

Prepare(p) ==
    /\ In(p, "prepare")
    /\ prepared' = [before |-> candidates, post |-> bound[p].post]
    /\ StepTo(p, "stage")
    /\ UNCHANGED <<candidates, staged>>

StageState(p) ==
    /\ In(p, "stage") /\ MayReplace(p)
    /\ staged' = bound[p].post
    /\ StepTo(p, "install")
    /\ UNCHANGED <<candidates, prepared>>

(* What is there already only drops its temporary.                         *)
InstallState(p) ==
    /\ In(p, "install")
    /\ candidates' = IF State = bound[p].post THEN candidates ELSE staged
    /\ staged' = None
    /\ StepTo(p, "clear")
    /\ UNCHANGED prepared

ClearPrepared(p) ==
    /\ In(p, "clear")
    /\ prepared' = None
    /\ Return(p)
    /\ UNCHANGED <<candidates, staged>>

RefuseCandidates(p) ==
    /\ ~MayReplace(p)
    /\ UNCHANGED <<candidates, prepared, staged>>
    /\ Return(p)

(* Deaths, inside the creation of a file too.                              *)
DieInCandidates(p) ==
    /\ ~In(p, "idle") /\ crashes < MaxCrashes
    /\ crashes' = crashes + 1
    /\ \/ UNCHANGED <<prepared, staged>>
       \/ Tearing /\ In(p, "prepare") /\ prepared' = Torn /\ UNCHANGED staged
       \/ Tearing /\ In(p, "stage") /\ staged = None /\ staged' = Torn /\ UNCHANGED prepared
    /\ Return(p)
    /\ UNCHANGED candidates

Tick ==
    /\ clock < MaxTime
    /\ clock' = clock + 1
    /\ UNCHANGED <<candidates, prepared, staged, owner, step, bound, dismissed>>

UpdateCandidates(p) ==
    \/ \E r \in CandidateRequests : BeginCandidates(p, r)
    \/ LockCandidates(p)
    \/ Prepare(p)
    \/ StageState(p)
    \/ InstallState(p)
    \/ ClearPrepared(p)
    \/ RefuseCandidates(p)

(* A process in a call of this owner is in no other.                       *)
OthersNext ==
    /\ Next
    /\ \A p \in Procs : ~In(p, "idle") => pc'[p] = "idle"
    /\ UNCHANGED candidateVars

MemoryInit == Init /\ CandidatesInit

MemoryNext ==
    \/ OthersNext
    \/ \E p \in Procs : UpdateCandidates(p) /\ UNCHANGED vars
    \/ \E p \in Procs :
          /\ DieInCandidates(p)
          /\ UNCHANGED <<diskVars, issued, lock, pc, job, window, cited, edits>>
    \/ Tick /\ UNCHANGED vars

-----------------------------------------------------------------------------
(* The observations are a set of at most Count distinct events, and an     *)
(* interrupted replacement can be finished: a prepared record that is      *)
(* whole names the state as its preimage or its postimage, and a temporary *)
(* that is whole is its postimage.                                         *)
CandidatesRecoverable ==
    /\ Len(State) <= Count
    /\ \A j, k \in DOMAIN State : State[j].event = State[k].event => j = k
    /\ prepared \notin {None, Torn} => State = prepared.post \/ candidates = prepared.before
    /\ staged \notin {None, Torn} => prepared \notin {None, Torn} /\ staged = prepared.post

(* An observation that is current leaves the set only because a discard or *)
(* a completion named it, or because newer ones fill the set.              *)
CandidatesLeaveKnowingly ==
    [][\A row \in RowsOf(State) \ RowsOf(State') :
          \/ ~Current(row)
          \/ row \in dismissed
          \/ /\ Len(State') = Count
             /\ State[1] \notin RowsOf(State')]_candidateVars

(* Nothing is lost unawares: a note is removed only as the request named   *)
(* it and nobody mentions it (execute_retirement's last look), and an      *)
(* observation leaves the state file only by a decision, an expiry or the  *)
(* bound the policy states (prune).                                        *)
LeaveKnowingly == RetiredKnowingly /\ CandidatesLeaveKnowingly
=============================================================================
