------------------------- MODULE MCOperatingIngress -------------------------
(***************************************************************************)
(* Three owners: Planning, whose retained operation needs an answered      *)
(* question, Verification, whose two operations write the same domain and  *)
(* of which one reads Planning's, and a policy owner that only restricts.  *)
(***************************************************************************)
EXTENDS OperatingIngress, TLC

CONSTANTS c1, c2, unknown, none

MCCallers == {c1, c2}
Interchangeable == Permutations(MCCallers)
MCOwners  == {"planning", "verification", "policy"}
MCDomains == {"plan", "proof"}

Planning(revision) ==
  [owner |-> "planning", revision |-> 0, domains |-> {"plan"}, requests |-> {"select"},
   effects |-> {[id |-> "write-plan", domain |-> "plan"]},
   operations |-> {[id |-> "reconcile", revision |-> revision, effects |-> {"write-plan"},
                    reads |-> {"plan"}, claims |-> {}]}]

Verification(reads) ==
  [owner |-> "verification", revision |-> 0, domains |-> {"proof"}, requests |-> {},
   effects |-> {[id |-> "run", domain |-> "proof"], [id |-> "record", domain |-> "proof"]},
   operations |->
     {[id |-> "report", revision |-> 0, effects |-> {"run", "record"}, reads |-> {"proof"},
       claims |-> {"proved"}],
      [id |-> "reconcile-sources", revision |-> 0, effects |-> {"record"}, reads |-> reads,
       claims |-> {}]}]

Policy == [owner |-> "policy", revision |-> 0, domains |-> {}, requests |-> {},
           effects |-> {}, operations |-> {}]

Contract(n, plan, reads) ==
  [revision |-> n, owners |-> {Planning(plan), Verification(reads), Policy},
   claims |-> {[claim |-> "proved", owner |-> "verification"]},
   restrictions |-> {[owner |-> "policy", affects |-> {Task, EffectScope("record"), ClaimScope("proved")}],
                     [owner |-> "planning", affects |-> {Task}]}]

\* Another revision of Planning's operation; reads outside every domain are refused.
MCContracts == {Contract(1, 0, {"plan"}), Contract(2, 1, {"plan"}), Contract(3, 0, {"elsewhere"})}

Source(o, n) ==
  [owner |-> o, revision |-> n, relevant |-> TRUE, allowed |-> {}, blocked |-> {},
   response |-> none, outcome |-> none, blockers |-> {}, decisions |-> {}, actions |-> {}]

Action(p, effects, asks) ==
  [operation |-> p, arguments |-> 0, effects |-> effects, asks |-> asks]

Blocked(scope) == {[id |-> "b", basis |-> "task-requirement", affects |-> {scope}]}

Question == {[id |-> "q", basis |-> "unclassified", affects |-> {Task}, kind |-> "select"]}

MCSources ==
  {[Source("planning", 0) EXCEPT !.actions = {Action("reconcile", {"write-plan"}, {"select"})}],
   [Source("planning", 1) EXCEPT !.actions = {Action("reconcile", {"write-plan"}, {})}],
   [Source("planning", 2) EXCEPT !.decisions = Question],
   [Source("verification", 0) EXCEPT !.actions = {Action("report", {"run"}, {})}],
   [Source("verification", 1) EXCEPT !.actions = {Action("reconcile-sources", {"record"}, {})},
      !.allowed = {"proved"},
      !.outcome = [id |-> "done", claim |-> "proved", complete |-> TRUE, evidence |-> 1, required |-> {}]],
   Source("policy", 0),
   [Source("policy", 1) EXCEPT !.blockers = Blocked(EffectScope("record"))],
   [Source("policy", 2) EXCEPT !.blocked = {"proved"}, !.relevant = TRUE]}

MCIntended == [owner |-> "verification", id |-> "done", claim |-> "proved"]

MCRank == [p \in {"reconcile", "report", "reconcile-sources"} |->
             CASE p = "reconcile" -> 1 [] p = "reconcile-sources" -> 2 [] p = "report" -> 3]

\* It starts with an action of each operating owner and nothing held back; changes do the rest.
MCInit ==
  /\ Init /\ contract.revision = 1
  /\ sources["planning"].revision = 0 /\ sources["policy"].revision = 0

MCSpec == MCInit /\ [][Next]_vars
=============================================================================
