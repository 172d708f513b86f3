---------------------------- MODULE MemoryStore ----------------------------
(***************************************************************************)
(* What the writers of Memory share: the notes, the one manifest that      *)
(* declares them, the recovery files under local/, and memory.lock.  Three *)
(* owners write the manifest, each as a whole file: the publication of a   *)
(* note, its disposition and its retirement.                               *)
(***************************************************************************)
EXTENDS AttemptStore, Naturals, FiniteSets, Sequences

CONSTANTS
    Procs,          \* processes of the native core
    Advice,         \* names of ordinary advisory notes
    Decisions,      \* names of decisions retained in the Memory archive
    Contents,       \* what a note can hold
    Tasks,          \* the work a request is made for
    Done,           \* the outcome of an effect, determined by its invocation
    None,           \* nobody, nothing
    MaxCalls,       \* bound: distinct invocations
    MaxEdits,       \* bound: edits by others
    MaxCrashes,     \* bound: deaths
    Tearing         \* may a process die inside the creation of a file?

ASSUME MemoryAssumption ==
    /\ Effects = 1 .. MaxCalls
    /\ Advice \cap Decisions = {}
    /\ Absent \notin Contents /\ None \notin Contents \cup Procs /\ None # Absent
    /\ None \notin Effects
    /\ Done \in Outcomes
    /\ MaxCalls \in Nat /\ MaxEdits \in Nat /\ MaxCrashes \in Nat
    /\ Tearing \in BOOLEAN

VARIABLES
    issued,     \* issued[e]: the invocation whose digest is effect e
    notes,      \* notes[n]: Absent or the content of the note
    manifest,   \* Absent, or for each note its declaration or None
    marker,     \* marker[n]: the publication prepared for n, Absent or Torn
    filed,      \* dispositions whose marker is there
    filedTorn,  \* manifest postimages whose disposition marker is torn
    pending,    \* the retirement record, or None
    temps,      \* <<file, effect>>: whole temporaries
    torn,       \* <<file, effect>>: temporaries that are not whole
    cited,      \* notes that a source of another owner mentions
    lock,       \* holder of memory.lock, or None
    pc,         \* where each process is
    job,        \* its effect
    window,     \* processes whose sources moved after their last look
    spent,      \* effects whose result was once committed
    edits,
    crashes

fileVars == <<notes, manifest, marker, filed, filedTorn, pending, temps, torn>>
diskVars == <<attempts, results, spent, fileVars>>
boundVars == <<cited, edits, crashes>>
vars == <<diskVars, issued, lock, pc, job, window, boundVars>>

Notes == Advice \cup Decisions

Declaration(c) == [cues |-> c, status |-> "open"]
Declarations == [cues : Contents, status : {"open", "retire"}]
Manifests == {Absent} \cup [Notes -> Declarations \cup {None}]

(* The marks for nothing, absent and torn are no effects, declarations,    *)
(* manifests or records of a retirement.                                   *)
ASSUME MemoryMarksAssumption ==
    /\ {Absent, Torn} \cap Effects = {} /\ None # Torn
    /\ None \notin Declarations
    /\ Absent \notin [Notes -> Declarations \cup {None}]
    /\ None \notin [of : Effects, recovery : Effects \cup {None}]

Row(m, n) == IF m = Absent THEN None ELSE m[n]
WithRow(m, n, row) == [x \in Notes |-> IF x = n THEN row ELSE Row(m, x)]

-----------------------------------------------------------------------------
(* Invocations: the request, and the binding that its view gave it.        *)
Issued(i) == \E e \in 1 .. Len(issued) : issued[e] = i
Slot(i) == IF Issued(i) THEN CHOOSE e \in 1 .. Len(issued) : issued[e] = i ELSE Len(issued) + 1

At(p, step) == pc[p] = step
Invocation(p) == issued[job[p]]
Op(p) == Invocation(p).op

(* A record that leads to an intact attempt and to no other result.        *)
Held(e) == CanPrepare(e, Done)

(* retained: an absent marker is nothing, any other must be whole and lead *)
(* to its attempt.                                                         *)
Readable(n) == marker[n] # Absent => marker[n] # Torn /\ Held(marker[n])
Retained(n) == IF marker[n] \in {Absent, Torn} THEN None ELSE marker[n]

PendingReadable ==
    pending # None =>
        Held(pending.of) /\ (pending.recovery # None => Held(pending.recovery))

(* Every view of Memory lists the publications of the notes that are in    *)
(* the archives, skipping markers it cannot parse, and the retirement.     *)
Legible ==
    /\ PendingReadable
    /\ \A n \in Notes : notes[n] # Absent /\ Retained(n) # None => Held(marker[n])

-----------------------------------------------------------------------------
Continue(p, step) ==
    /\ pc' = [pc EXCEPT ![p] = step]
    /\ UNCHANGED <<issued, job, lock, window, boundVars>>

(* The call returns or its process dies; the lock goes with its handle.    *)
Leave(p) ==
    /\ pc' = [pc EXCEPT ![p] = "idle"]
    /\ job' = [job EXCEPT ![p] = None]
    /\ window' = window \ {p}
    /\ lock' = IF lock = p THEN None ELSE lock
    /\ UNCHANGED issued

(* Who has looked for the last time at what an edit moves.                 *)
Exposed == {q \in Procs : pc[q] \in
    {"install", "m-stage", "m-barrier", "m-install", "commit", "d-install", "d-original",
     "q-install", "q-unlink", "q-original"}}

Finish(e) ==
    /\ Commit(e, Done)
    /\ spent' = spent \cup {e}
=============================================================================
