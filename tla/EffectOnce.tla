----------------------------- MODULE EffectOnce -----------------------------
(***************************************************************************)
(* What the attempt store promises the owners that use it, without files,  *)
(* processes or crashes: an effect is begun once, performed at most once,  *)
(* only after it was begun and before it was settled; it is settled with   *)
(* one outcome; and every caller that is told an outcome is told that one. *)
(***************************************************************************)
CONSTANTS
    Effects,    \* the logical effects
    Outcomes,   \* what can be settled
    Reported    \* effects that only record somebody else's report

VARIABLES
    begun,      \* effects whose admission exists
    performed,  \* effects whose command was started
    settled,    \* pairs <<effect, outcome>> that were committed
    answered    \* pairs <<effect, outcome>> that callers were given

onceVars == <<begun, performed, settled, answered>>

OnceInit == begun = {} /\ performed = {} /\ settled = {} /\ answered = {}

Begin(e) ==
    /\ e \notin begun
    /\ begun' = begun \cup {e}
    /\ UNCHANGED <<performed, settled, answered>>

Perform(e) ==
    /\ e \in begun \ (performed \cup Reported)
    /\ \A o \in Outcomes : <<e, o>> \notin settled
    /\ performed' = performed \cup {e}
    /\ UNCHANGED <<begun, settled, answered>>

Settle(e, o) ==
    /\ e \in begun
    /\ e \in performed \cup Reported
    /\ \A x \in Outcomes : <<e, x>> \notin settled
    /\ settled' = settled \cup {<<e, o>>}
    /\ UNCHANGED <<begun, performed, answered>>

Answer(e, o) ==
    /\ <<e, o>> \in settled
    /\ answered' = answered \cup {<<e, o>>}
    /\ UNCHANGED <<begun, performed, settled>>

OnceNext ==
    \E e \in Effects :
        \/ Begin(e)
        \/ Perform(e)
        \/ \E o \in Outcomes : Settle(e, o) \/ Answer(e, o)

OnceSpec == OnceInit /\ [][OnceNext]_onceVars
=============================================================================
