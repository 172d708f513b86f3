------------------------------ MODULE Processes ------------------------------
(***************************************************************************)
(* Processes of the native core that carry out one invocation each.  A     *)
(* process is where its code is (pc), the invocation it carries (job) and  *)
(* what it has read and will use again (note); a death loses all three.    *)
(***************************************************************************)
EXTENDS Naturals

CONSTANTS
    Procs,          \* the processes
    None,           \* nobody, nothing
    Absent, Torn,   \* no file; a file whose writer died in it
    MaxCrashes      \* how many deaths a behaviour may have

VARIABLES pc, job, note, crashes

procVars == <<pc, job, note, crashes>>

ProcsInit ==
    /\ pc = [p \in Procs |-> "idle"]
    /\ job = [p \in Procs |-> None]
    /\ note = [p \in Procs |-> None]
    /\ crashes = 0

At(p, step) == pc[p] = step

Begin(p, step, work) ==
    /\ At(p, "idle")
    /\ pc' = [pc EXCEPT ![p] = step]
    /\ job' = [job EXCEPT ![p] = work]
    /\ UNCHANGED <<note, crashes>>

Go(p, step) ==
    /\ pc' = [pc EXCEPT ![p] = step]
    /\ UNCHANGED <<job, note, crashes>>

Keep(p, step, seen) ==
    /\ pc' = [pc EXCEPT ![p] = step]
    /\ note' = [note EXCEPT ![p] = seen]
    /\ UNCHANGED <<job, crashes>>

Leave(p) ==
    /\ pc' = [pc EXCEPT ![p] = "idle"]
    /\ job' = [job EXCEPT ![p] = None]
    /\ note' = [note EXCEPT ![p] = None]

Stop(p) == Leave(p) /\ UNCHANGED crashes

Dies(p) ==
    /\ ~At(p, "idle") /\ crashes < MaxCrashes
    /\ Leave(p)
    /\ crashes' = crashes + 1
=============================================================================
