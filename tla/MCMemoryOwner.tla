--------------------------- MODULE MCMemoryOwner ---------------------------
(* One advisory note and one decision, two contents, two processes.        *)
EXTENDS MemoryCandidates, TLC

CONSTANTS p1, p2, n1, n2, c1, c2, t1, v1, v2, v3

(* Whether a behaviour is about the writers of notes among themselves, or  *)
(* about the observations beside one publication.                          *)
VARIABLE about

MCOutcomes == {Done}
MCSymmetry == Permutations(Procs)

(* The advisory note is absent or declared with its first content; the     *)
(* decision is absent; no manifest, or one without the decision.           *)
MCInit ==
    /\ MemoryInit
    /\ about \in {"notes", "observations"}
    /\ notes[n2] = Absent /\ notes[n1] \in {Absent, c1}
    /\ IF notes[n1] = Absent
       THEN manifest \in {Absent, [n \in Notes |-> None]}
       ELSE manifest = WithRow(Absent, n1, Declaration(c1))
    /\ cited = {}
    /\ about = "observations" => manifest = Absent /\ notes[n1] = Absent

(* An edit takes the place of one invocation, and after an edit and a      *)
(* death one process acts at a time; one content is enough for the         *)
(* decision, which is never revised.                                       *)
NotesNext ==
    /\ OthersNext
    /\ Len(issued') + edits' <= MaxCalls
    /\ crashes' + edits' = 2 => \E p \in Procs : pc'[p] = "idle"
    /\ notes'[n2] # c2
    /\ Row(manifest', n2) # None => Row(manifest', n2).cues = c1
    /\ \A e \in 1 .. Len(issued') : issued'[e].op = "capture" =>
          issued'[e].content = c1 \/ issued'[e].source_before = c1

(* One publication of advice between the calls of the other owner, and an  *)
(* editor that may change the note during one.                             *)
ObservationsNext ==
    /\ MemoryNext
    /\ Len(issued') <= 1
    /\ issued' # <<>> => issued'[1].op = "capture" /\ issued'[1].content = c1
    /\ pc' # pc => crashes' = 0 /\ \A p \in Procs : In(p, "idle")
    /\ notes'[n2] = Absent /\ Row(manifest', n2) = None /\ cited' = {}
    /\ edits' > 0 => spent' # {} /\ manifest' = manifest

MCNext ==
    /\ CASE about = "notes" -> NotesNext
         [] about = "observations" -> ObservationsNext
    /\ UNCHANGED about

MCSpec == MCInit /\ [][MCNext]_<<vars, candidateVars, about>>
=============================================================================
