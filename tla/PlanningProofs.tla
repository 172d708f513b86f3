---------------------------- MODULE PlanningProofs ----------------------------
(***************************************************************************)
(* Proofs about PlanningOwner, for any processes, materials and bounds.    *)
(* The lemmas about sequences come first: of a plan only its prefixes      *)
(* matter, and what a write or an edit makes of them.                      *)
(***************************************************************************)
EXTENDS PlanningOwner, SequenceTheorems, TLAPS

USE StoreAssumption, PlanningAssumption

Marks == Materials \cup {Edited}

(* A plan is a sequence of bounded length.                                 *)
LEMMA ChainIsSeq ==
  ASSUME NEW c \in Chains
  PROVE  /\ c \in Seq(Marks) /\ Len(c) \in 1 .. MaxLength
         /\ \A i \in 1 .. Len(c) : c[i] \in Marks
<1>1. PICK n \in 1 .. MaxLength : c \in [1 .. n -> Marks]
  BY DEF Chains, Marks
<1>2. c \in Seq(Marks) /\ Len(c) = n
  BY <1>1, IsASeq, LenProperties
<1>3. QED
  BY <1>1, <1>2

LEMMA SeqIsChain ==
  ASSUME NEW c \in Seq(Marks), Len(c) \in 1 .. MaxLength
  PROVE  c \in Chains
<1>1. c \in [1 .. Len(c) -> Marks]
  BY LenProperties
<1>2. QED
  BY <1>1 DEF Chains, Marks

(* Being a prefix, element by element.                                     *)
LEMMA PrefixElements ==
  ASSUME NEW u \in Chains, NEW c \in Chains
  PROVE  IsPrefix(u, c) <=> Len(u) <= Len(c) /\ \A i \in 1 .. Len(u) : u[i] = c[i]
<1>1. u \in Seq(Marks) /\ c \in Seq(Marks) /\ Len(u) \in Nat /\ Len(c) \in Nat
  BY ChainIsSeq
<1>2. ASSUME Len(u) <= Len(c)
      PROVE  SubSeq(u, 1, Len(u)) = SubSeq(c, 1, Len(u)) <=> \A i \in 1 .. Len(u) : u[i] = c[i]
  <2>1. SubSeq(u, 1, Len(u)) = [i \in 1 .. Len(u) |-> u[i]]
    BY <1>1
  <2>2. SubSeq(c, 1, Len(u)) = [i \in 1 .. Len(u) |-> c[i]]
    BY <1>1, <1>2
  <2>3. QED
    BY <2>1, <2>2
<1>3. QED
  BY <1>2 DEF IsPrefix

LEMMA PrefixRefl == ASSUME NEW c \in Chains PROVE IsPrefix(c, c)
BY PrefixElements, ChainIsSeq

LEMMA SameElements ==
  ASSUME NEW u \in Chains, NEW c \in Chains, Len(u) = Len(c), \A i \in 1 .. Len(u) : u[i] = c[i]
  PROVE  u = c
BY ChainIsSeq, SeqEqual

(* Appending: what the new plan is, and which prefixes it has.             *)
LEMMA AppendFacts ==
  ASSUME NEW c \in Chains, NEW x \in Marks, Len(c) < MaxLength
  PROVE  /\ Append(c, x) \in Chains
         /\ Len(Append(c, x)) = Len(c) + 1
         /\ Append(c, x)[Len(c) + 1] = x
         /\ \A i \in 1 .. Len(c) : Append(c, x)[i] = c[i]
         /\ Last(Append(c, x)) = x
         /\ Front(Append(c, x)) = c
<1>1. c \in Seq(Marks) /\ Len(c) \in 1 .. MaxLength
  BY ChainIsSeq
<1>2. /\ Append(c, x) \in Seq(Marks) /\ Len(Append(c, x)) = Len(c) + 1
      /\ \A i \in 1 .. Len(c) : Append(c, x)[i] = c[i]
      /\ Append(c, x)[Len(c) + 1] = x
  BY <1>1, AppendProperties
<1>3. Append(c, x) \in Chains
  <2>1. Len(c) + 1 \in 1 .. MaxLength
    BY <1>1
  <2>2. QED
    BY <1>2, <2>1, SeqIsChain
<1>4. Front(Append(c, x)) = c
  <2>1. /\ SubSeq(Append(c, x), 1, Len(c)) \in Seq(Marks)
        /\ Len(SubSeq(Append(c, x), 1, Len(c))) = Len(c)
        /\ \A i \in 1 .. Len(c) : SubSeq(Append(c, x), 1, Len(c))[i] = Append(c, x)[i]
    <3>1. \A i \in 1 .. Len(c) : Append(c, x)[i] \in Marks
      BY <1>1, <1>2, ChainIsSeq
    <3>2. QED
      BY <1>1, <3>1, SubSeqProperties
  <2>2. SubSeq(Append(c, x), 1, Len(c)) = c
    BY <1>1, <1>2, <2>1, SeqEqual
  <2>3. QED
    BY <1>1, <1>2, <2>2 DEF Front
<1>5. QED
  BY <1>2, <1>3, <1>4 DEF Last

LEMMA PrefixOfAppend ==
  ASSUME NEW c \in Chains, NEW x \in Marks, Len(c) < MaxLength, NEW v \in Chains
  PROVE  IsPrefix(v, Append(c, x)) <=> IsPrefix(v, c) \/ v = Append(c, x)
<1> DEFINE a == Append(c, x)
<1>1. /\ a \in Chains /\ Len(a) = Len(c) + 1 /\ a[Len(c) + 1] = x
      /\ \A i \in 1 .. Len(c) : a[i] = c[i]
  BY AppendFacts
<1> HIDE DEF a
<1>2. Len(c) \in Nat /\ Len(v) \in Nat
  BY ChainIsSeq
<1>3. CASE Len(v) <= Len(c)
  <2>1. v # a
    BY <1>1, <1>2, <1>3
  <2>2. IsPrefix(v, a) <=> IsPrefix(v, c)
    BY <1>1, <1>2, <1>3, PrefixElements
  <2>3. QED
    BY <2>1, <2>2 DEF a
<1>4. CASE Len(v) > Len(c)
  <2>1. ~IsPrefix(v, c)
    BY <1>2, <1>4, PrefixElements
  <2>2. IsPrefix(v, a) => v = a
    <3>1. SUFFICES ASSUME IsPrefix(v, a) PROVE v = a
      OBVIOUS
    <3>2. Len(v) <= Len(a) /\ \A i \in 1 .. Len(v) : v[i] = a[i]
      BY <1>1, <3>1, PrefixElements
    <3>3. QED
      BY <1>1, <1>2, <1>4, <3>2, SameElements
  <2>3. v = a => IsPrefix(v, a)
    BY <1>1, PrefixRefl
  <2>4. QED
    BY <2>1, <2>2, <2>3 DEF a
<1>5. QED
  BY <1>2, <1>3, <1>4

(* The plan an update was computed from.                                   *)
LEMMA FrontFacts ==
  ASSUME NEW u \in Chains, NEW c \in Chains, Front(u) = c
  PROVE  u = Append(c, Last(u)) /\ Last(u) \in Marks /\ Len(u) = Len(c) + 1 /\ Len(c) < MaxLength
<1>1. /\ u \in Seq(Marks) /\ Len(u) \in 1 .. MaxLength /\ \A i \in 1 .. Len(u) : u[i] \in Marks
      /\ c \in Seq(Marks) /\ Len(c) \in 1 .. MaxLength
  BY ChainIsSeq
<1>2. c = SubSeq(u, 1, Len(u) - 1)
  BY DEF Front
<1>3. Len(c) = Len(u) - 1 /\ \A i \in 1 .. Len(c) : c[i] = u[i]
  <2>1. \A i \in 1 .. Len(u) - 1 : u[i] \in Marks
    BY <1>1
  <2>2. /\ Len(SubSeq(u, 1, Len(u) - 1)) = IF 1 <= Len(u) - 1 THEN Len(u) - 1 - 1 + 1 ELSE 0
        /\ \A i \in 1 .. Len(u) - 1 - 1 + 1 : SubSeq(u, 1, Len(u) - 1)[i] = u[1 + i - 1]
    BY <1>1, <2>1, SubSeqProperties
  <2>3. QED
    BY <1>1, <1>2, <2>2
<1>4. Last(u) = u[Len(u)] /\ Last(u) \in Marks
  BY <1>1 DEF Last
<1>5. Len(c) < MaxLength
  BY <1>1, <1>3
<1>6. u = Append(c, Last(u))
  <2> DEFINE a == Append(c, Last(u))
  <2>1. /\ a \in Chains /\ Len(a) = Len(c) + 1 /\ a[Len(c) + 1] = Last(u)
        /\ \A i \in 1 .. Len(c) : a[i] = c[i]
    BY <1>4, <1>5, AppendFacts
  <2> HIDE DEF a
  <2>2. Len(u) = Len(c) + 1 /\ \A i \in 1 .. Len(u) : i \in 1 .. Len(c) \/ i = Len(c) + 1
    BY <1>1, <1>3
  <2>3. \A i \in 1 .. Len(u) : u[i] = a[i]
    BY <1>3, <1>4, <2>1, <2>2
  <2>4. u = a
    BY <2>1, <2>2, <2>3, SameElements
  <2>5. QED
    BY <2>4 DEF a
<1>7. QED
  BY <1>1, <1>3, <1>4, <1>5, <1>6

-----------------------------------------------------------------------------
(* The first k marks of a plan.                                            *)
LEMMA TakeFacts ==
  ASSUME NEW c \in Chains, NEW k \in 1 .. Len(c)
  PROVE  /\ SubSeq(c, 1, k) \in Chains /\ Len(SubSeq(c, 1, k)) = k
         /\ \A i \in 1 .. k : SubSeq(c, 1, k)[i] = c[i]
<1>1. Len(c) \in 1 .. MaxLength /\ \A i \in 1 .. k : c[i] \in Marks
  BY ChainIsSeq
<1>2. /\ SubSeq(c, 1, k) \in Seq(Marks) /\ Len(SubSeq(c, 1, k)) = k
      /\ \A i \in 1 .. k : SubSeq(c, 1, k)[i] = c[i]
  BY <1>1, SubSeqProperties
<1>3. k \in 1 .. MaxLength
  BY <1>1
<1>4. QED
  BY <1>2, <1>3, SeqIsChain

(* The versions of a plan are its prefixes that end with a write.          *)
Version(v, c) == IsPrefix(v, c) /\ v[Len(v)] # Edited

LEMMA VersionsArePrefixes ==
  ASSUME NEW c \in Chains
  PROVE  History!Versions(c) = {v \in Chains : Version(v, c)}
<1>1. ASSUME NEW k \in 1 .. Len(c), c[k] # Edited
      PROVE  SubSeq(c, 1, k) \in Chains /\ Version(SubSeq(c, 1, k), c)
  <2> DEFINE t == SubSeq(c, 1, k)
  <2>1. t \in Chains /\ Len(t) = k /\ \A i \in 1 .. k : t[i] = c[i]
    BY TakeFacts
  <2> HIDE DEF t
  <2>2. Len(c) \in Nat /\ k <= Len(c) /\ k \in 1 .. k
    BY ChainIsSeq
  <2>3. IsPrefix(t, c)
    BY <2>1, <2>2, PrefixElements
  <2>4. t \in Chains /\ Version(t, c)
    BY <1>1, <2>1, <2>2, <2>3 DEF Version
  <2>5. QED
    BY <2>4 DEF t
<1>2. ASSUME NEW v \in Chains, Version(v, c)
      PROVE  Len(v) \in 1 .. Len(c) /\ c[Len(v)] # Edited /\ v = SubSeq(c, 1, Len(v))
  <2>1. Len(v) \in 1 .. Len(c) /\ \A i \in 1 .. Len(v) : v[i] = c[i]
    BY <1>2, PrefixElements, ChainIsSeq DEF Version
  <2> DEFINE t == SubSeq(c, 1, Len(v))
  <2>2. t \in Chains /\ Len(t) = Len(v) /\ \A i \in 1 .. Len(v) : t[i] = c[i]
    BY <2>1, TakeFacts
  <2> HIDE DEF t
  <2>3. v = t
    BY <2>1, <2>2, SameElements
  <2>4. v[Len(v)] = c[Len(v)]
    BY <2>1
  <2>5. QED
    BY <1>2, <2>1, <2>3, <2>4 DEF Version, t
<1>3. QED
  BY <1>1, <1>2 DEF History!Versions

(* Its last write, if one knows where it is.                               *)
LatestAt(c, k) == c[k] # Edited /\ \A j \in k + 1 .. Len(c) : c[j] = Edited

LEMMA LatestFacts ==
  ASSUME NEW c \in Chains, NEW k \in 1 .. Len(c), LatestAt(c, k)
  PROVE  LatestWrite(c) = SubSeq(c, 1, k)
<1>1. Len(c) \in Nat
  BY ChainIsSeq
<1> DEFINE S == {i \in 1 .. Len(c) : c[i] # Edited}
<1>2. k \in S /\ \A y \in S : k >= y
  BY <1>1 DEF LatestAt
<1>3. ASSUME NEW x \in S, \A y \in S : x >= y PROVE x = k
  BY <1>1, <1>2, <1>3
<1>4. Max(S) = k
  BY <1>2, <1>3 DEF Max
<1>5. QED
  BY <1>4 DEF LatestWrite

-----------------------------------------------------------------------------
(* The effects, and what they are not.                                     *)
LEMMA EffectFacts ==
  ASSUME NEW e \in Effects
  PROVE  /\ e.of \in Written /\ e.of \in Chains /\ e.try \in 0 .. MaxTries
         /\ e.try = 0 => e = Post(e.of)
         /\ e.try # 0 => Len(e.of) > 1
         /\ Post(e.of) \in Effects
<1>1. CASE \E u \in Written : e = Post(u)
  BY <1>1, EffectsAssumption DEF Post, Written
<1>2. CASE \E u \in {c \in Written : Len(c) > 1}, n \in 1 .. MaxTries : e = Recovery(u, n)
  BY <1>2, EffectsAssumption DEF Post, Recovery, Written
<1>3. QED
  BY <1>1, <1>2, EffectsAssumption

LEMMA PostIsEffect ==
  ASSUME NEW u \in Written
  PROVE  Post(u) \in Effects /\ Post(u).of = u /\ Post(u).try = 0 /\ u \in Chains
BY EffectsAssumption DEF Post, Written

LEMMA RecoveryIsEffect ==
  ASSUME NEW u \in Written, Len(u) > 1, NEW n \in 1 .. MaxTries
  PROVE  Recovery(u, n) \in Effects /\ Recovery(u, n).of = u /\ Recovery(u, n).try = n
BY EffectsAssumption DEF Recovery

(* A version of a possible plan is what an effect may write.               *)
LEMMA VersionIsWritten ==
  ASSUME NEW c \in Chains, Possible(c), NEW v \in Chains, Version(v, c)
  PROVE  v \in Written
<1>1. Len(v) \in 1 .. Len(c) /\ Len(c) \in Nat /\ \A i \in 1 .. Len(v) : v[i] = c[i]
  BY PrefixElements, ChainIsSeq DEF Version
<1>2. \A i \in 2 .. Len(v) : i \in 1 .. Len(v) /\ i - 1 \in 1 .. Len(v) /\ i \in 2 .. Len(c)
  BY <1>1
<1>3. Possible(v)
  BY <1>1, <1>2 DEF Possible
<1>4. QED
  BY <1>3 DEF Written, Version

(* A plan stays possible when something else than its last write is added. *)
LEMMA AppendPossible ==
  ASSUME NEW c \in Chains, Possible(c), NEW x \in Marks, Len(c) < MaxLength,
         x = Edited \/ x # Last(c)
  PROVE  Possible(Append(c, x))
<1> DEFINE a == Append(c, x)
<1>1. /\ a \in Chains /\ Len(a) = Len(c) + 1 /\ a[Len(c) + 1] = x
      /\ \A i \in 1 .. Len(c) : a[i] = c[i]
  BY AppendFacts
<1>2. Len(c) \in Nat \ {0} /\ Last(c) = c[Len(c)]
  BY ChainIsSeq DEF Last
<1> HIDE DEF a
<1>3. a[1] # Edited
  BY <1>1, <1>2 DEF Possible
<1>4. ASSUME NEW i \in 2 .. Len(a), a[i] = a[i - 1] PROVE a[i] = Edited
  <2>1. CASE i = Len(c) + 1
    BY <1>1, <1>2, <1>4, <2>1
  <2>2. CASE i # Len(c) + 1
    <3>1. i \in 2 .. Len(c) /\ i \in 1 .. Len(c) /\ i - 1 \in 1 .. Len(c)
      BY <1>1, <1>2, <2>2
    <3>2. QED
      BY <1>1, <1>4, <3>1 DEF Possible
  <2>3. QED
    BY <2>1, <2>2
<1>5. Possible(a)
  BY <1>3, <1>4 DEF Possible
<1>6. QED
  BY <1>5 DEF a

-----------------------------------------------------------------------------
(* The inductive invariant.  An update is in the plan when the plan        *)
(* begins with it; from then on it is, because a plan only grows.          *)
InPlan(u) == Whole /\ IsPrefix(u, file)

Creating == {"c-admit", "c-open", "c-write", "c-commit"}
Updating == {"u-lock", "u-check", "u-admit", "u-temp", "u-rename", "u-commit"}
Recovering == {"r-lock", "r-check", "r-admit", "r-final", "r-commit"}
Holding == {"u-check", "u-admit", "u-temp", "u-rename", "u-commit",
            "r-check", "r-admit", "r-final", "r-commit"}

Jobs == [effect : Effects, custody : {None, "pending", "final"}]

PlanTypeOK == TypeOK /\ job \in [Procs -> Jobs \cup {None}]

(* The plan can have been written, and it has a last write.                *)
PlanPossible ==
    Whole => Possible(file) /\ \E k \in 1 .. Len(file) : LatestAt(file, k)

(* A result comes after its attempt, and that of a write, torn or whole,   *)
(* after the write.                                                        *)
StoreInv ==
    \A e \in Effects :
        /\ attempts[e] # Admitted => results[e] = Absent
        /\ e.try = 0 /\ results[e] # Absent => InPlan(e.of)

(* Of the writes in the plan only the last can be without its result.      *)
EarlierSettled ==
    Whole => \A v \in Chains : Version(v, file) => Committed(Post(v)) \/ v = LatestWrite(file)

(* What a process relies on.                                               *)
ProcInv(p) ==
    LET e == job[p].effect
        u == e.of IN
    /\ pc[p] \in Creating => e.try = 0 /\ Len(u) = 1
    /\ pc[p] \in Updating => e.try = 0 /\ Len(u) > 1
    /\ pc[p] \in Recovering => e.try # 0 /\ InPlan(u)
    /\ pc[p] \in {"c-open", "c-write", "c-commit", "u-temp", "u-rename", "u-commit"} =>
          attempts[e] = Admitted
    /\ pc[p] = "c-write" => file = Torn
    /\ pc[p] \in {"c-commit", "u-commit"} => InPlan(u)
    /\ pc[p] \in Updating /\ job[p].custody # None => InPlan(u) /\ attempts[e] = Admitted
    /\ pc[p] = "r-commit" => Committed(Post(u))

TempsAreUpdates == \A e \in temps : Len(e.of) > 1

OneCreator == \A p, q \in Procs : pc[p] = "c-write" /\ pc[q] = "c-write" => p = q

PInv ==
    /\ PlanTypeOK
    /\ PlanPossible
    /\ StoreInv
    /\ EarlierSettled
    /\ WritesAttributed
    /\ LeftoverNotPublished
    /\ RecoveryAnswersForOriginal
    /\ \A p \in Procs : ProcInv(p)
    /\ OneCreator
    /\ TempsAreUpdates

LEMMA Distinct ==
  /\ Absent \notin Chains /\ Torn \notin Chains
  /\ None # "pending" /\ None # "final" /\ None \notin Jobs
BY EffectsAssumption DEF Jobs

LEMMA InitPInv == Init => PInv
<1> SUFFICES ASSUME Init PROVE PInv
  OBVIOUS
<1>1. PlanTypeOK
  BY DEF Init, StoreInit, PlanTypeOK, TypeOK, StoreTypeOK, Steps, At
<1>2. PlanPossible /\ StoreInv /\ EarlierSettled /\ WritesAttributed
  BY DEF Init, StoreInit, PlanPossible, StoreInv, EarlierSettled, WritesAttributed, Whole
<1>3. LeftoverNotPublished /\ RecoveryAnswersForOriginal
  BY DEF Init, StoreInit, LeftoverNotPublished, RecoveryAnswersForOriginal, Committed
<1>4. (\A p \in Procs : ProcInv(p)) /\ OneCreator /\ TempsAreUpdates
  BY DEF Init, TempsAreUpdates, ProcInv, OneCreator, Creating, Updating, Recovering
<1>5. QED
  BY <1>1, <1>2, <1>3, <1>4 DEF PInv

-----------------------------------------------------------------------------
(* What the steps that leave the plan and the temporaries alone preserve.  *)
(* A record appears once, and that of a write only after the write.        *)
RecordsKept ==
    \A e \in Effects :
        /\ attempts[e] = Admitted => attempts'[e] = Admitted
        /\ \/ results'[e] = results[e]
           \/ /\ results[e] = Absent /\ attempts[e] = Admitted
              /\ e.try = 0 => InPlan(e.of)
              /\ e.try # 0 /\ results'[e] \in Outcomes => Committed(Post(e.of))

OthersKept(p) == \A q \in Procs \ {p} : pc'[q] = pc[q] /\ job'[q] = job[q]

LEMMA CommittedKept ==
  ASSUME RecordsKept, NEW e \in Effects, Committed(e)
  PROVE  Committed(e)'
BY DEF RecordsKept, Committed

(* The effect of a process that is at work.                                *)
LEMMA JobFacts ==
  ASSUME PlanTypeOK, NEW p \in Procs, pc[p] # "idle"
  PROVE  /\ job[p] \in Jobs /\ job[p].effect \in Effects
         /\ job[p].effect.of \in Written /\ job[p].effect.of \in Chains
         /\ Post(job[p].effect.of) \in Effects
         /\ job[p].effect.try = 0 => job[p].effect = Post(job[p].effect.of)
<1>1. job[p] \in Jobs
  BY Distinct DEF PlanTypeOK, TypeOK, At
<1>2. job[p].effect \in Effects
  BY <1>1 DEF Jobs
<1>3. QED
  BY <1>1, <1>2, EffectFacts

LEMMA ProcKept ==
  ASSUME PlanTypeOK, NEW q \in Procs, ProcInv(q), pc'[q] = pc[q], job'[q] = job[q],
         \A v \in Chains : InPlan(v) => InPlan(v)',
         RecordsKept, pc[q] = "c-write" => file' = file
  PROVE  ProcInv(q)'
<1>1. CASE pc[q] = "idle"
  BY <1>1 DEF ProcInv, Creating, Updating, Recovering
<1>2. CASE pc[q] # "idle"
  <2>1. /\ job[q].effect \in Effects /\ job[q].effect.of \in Chains
        /\ Post(job[q].effect.of) \in Effects
    BY <1>2, JobFacts
  <2>2. attempts[job[q].effect] = Admitted => attempts'[job[q].effect] = Admitted
    BY <2>1 DEF RecordsKept
  <2>3. Committed(Post(job[q].effect.of)) => Committed(Post(job[q].effect.of))'
    BY <2>1, CommittedKept
  <2>4. InPlan(job[q].effect.of) => InPlan(job[q].effect.of)'
    BY <2>1
  <2>5. QED
    BY <2>2, <2>3, <2>4 DEF ProcInv
<1>3. QED
  BY <1>1, <1>2

LEMMA QuietInv ==
  ASSUME PInv, NEW p \in Procs, UNCHANGED <<file, temps>>, RecordsKept, OthersKept(p),
         pc'[p] # "c-write", PlanTypeOK', ProcInv(p)'
  PROVE  PInv'
<1>t. PlanTypeOK
  BY DEF PInv
<1>i. \A v \in Chains : InPlan(v) => InPlan(v)'
  BY DEF InPlan, Whole
<1>1. PlanPossible'
  BY DEF PInv, PlanPossible, Whole, LatestAt, Possible
<1>2. StoreInv'
  <2> SUFFICES ASSUME NEW e \in Effects
               PROVE  /\ attempts'[e] # Admitted => results'[e] = Absent
                      /\ e.try = 0 /\ results'[e] # Absent => InPlan(e.of)'
    BY DEF StoreInv
  <2>1. e.of \in Chains
    BY EffectFacts
  <2>2. InPlan(e.of) => InPlan(e.of)'
    BY <1>i, <2>1
  <2>3. QED
    BY <2>2 DEF PInv, StoreInv, RecordsKept
<1>3. EarlierSettled'
  <2>1. SUFFICES ASSUME Whole, NEW v \in Chains, Version(v, file)
                 PROVE  Committed(Post(v))' \/ v = LatestWrite(file)
    BY DEF EarlierSettled, Whole
  <2>2. file \in Chains /\ Possible(file)
    BY <2>1 DEF PInv, PlanTypeOK, TypeOK, PlanPossible, Whole
  <2>3. Post(v) \in Effects
    BY <2>1, <2>2, VersionIsWritten, PostIsEffect
  <2>4. QED
    BY <2>1, <2>3, CommittedKept DEF PInv, EarlierSettled
<1>4. WritesAttributed'
  <2>1. SUFFICES ASSUME Whole, NEW v \in History!Versions(file)
                 PROVE  attempts'[Post(v)] = Admitted
    BY DEF WritesAttributed, Whole
  <2>2. file \in Chains /\ Possible(file)
    BY <2>1 DEF PInv, PlanTypeOK, TypeOK, PlanPossible, Whole
  <2>3. Post(v) \in Effects
    BY <2>1, <2>2, VersionsArePrefixes, VersionIsWritten, PostIsEffect
  <2>4. attempts[Post(v)] = Admitted
    BY <2>1 DEF PInv, WritesAttributed
  <2>5. QED
    BY <2>3, <2>4 DEF RecordsKept
<1>5. LeftoverNotPublished'
  <2> SUFFICES ASSUME NEW e \in temps PROVE ~(Whole /\ IsPrefix(e.of, file)) /\ results'[e] = Absent
    BY DEF LeftoverNotPublished, Whole
  <2>1. ~InPlan(e.of) /\ results[e] = Absent /\ e \in Effects /\ e.try = 0
    BY <1>t DEF PInv, LeftoverNotPublished, InPlan, PlanTypeOK, TypeOK
  <2>2. QED
    BY <2>1 DEF RecordsKept, InPlan
<1>6. RecoveryAnswersForOriginal'
  <2> SUFFICES ASSUME NEW e \in Effects, Committed(e)', e.try > 0 PROVE Committed(Post(e.of))'
    BY DEF RecoveryAnswersForOriginal
  <2>1. Post(e.of) \in Effects /\ e.try # 0
    BY EffectFacts
  <2>2. Committed(Post(e.of))
    <3>1. CASE results'[e] = results[e]
      <4>1. results[e] \in Outcomes /\ results[e] # Absent
        BY <3>1 DEF Committed
      <4>2. attempts[e] = Admitted
        BY <4>1 DEF PInv, StoreInv
      <4>3. QED
        BY <4>1, <4>2 DEF PInv, RecoveryAnswersForOriginal, Committed
    <3>2. CASE results'[e] # results[e]
      BY <2>1, <3>2 DEF RecordsKept, Committed
    <3>3. QED
      BY <3>1, <3>2
  <2>3. QED
    BY <2>1, <2>2, CommittedKept
<1>7. \A q \in Procs : ProcInv(q)'
  BY <1>i, <1>t, ProcKept DEF PInv, OthersKept
<1>8. OneCreator' /\ TempsAreUpdates'
  BY DEF PInv, OneCreator, OthersKept, TempsAreUpdates
<1>9. QED
  BY <1>1, <1>2, <1>3, <1>4, <1>5, <1>6, <1>7, <1>8 DEF PInv

LEMMA StillRecords == ASSUME UNCHANGED <<attempts, results>> PROVE RecordsKept
BY DEF RecordsKept

(* A process goes on, possibly taking the lock.                            *)
LEMMA MoveInv ==
  ASSUME PInv, NEW p \in Procs, pc[p] # "idle", NEW step \in Steps \ {"idle", "c-write"},
         pc' = [pc EXCEPT ![p] = step], UNCHANGED <<job, file, temps, edits, crashes>>,
         \/ lock' = lock /\ (step \in Holding <=> pc[p] \in Holding)
         \/ lock = None /\ lock' = p /\ step \in Holding,
         StoreTypeOK', RecordsKept, ProcInv(p)'
  PROVE  PInv'
<1>1. PlanTypeOK'
  BY DEF PInv, PlanTypeOK, TypeOK, At, Holding
<1>2. OthersKept(p) /\ pc'[p] # "c-write"
  BY DEF PInv, PlanTypeOK, TypeOK, OthersKept
<1>3. QED
  BY <1>1, <1>2, QuietInv

(* A call returns, fails or dies.                                          *)
LEMMA LeaveInv ==
  ASSUME PInv, NEW p \in Procs, Leave(p), UNCHANGED <<file, temps, edits>>,
         crashes' \in 0 .. MaxCrashes, StoreTypeOK', RecordsKept
  PROVE  PInv'
<1>1. PlanTypeOK'
  BY DEF PInv, PlanTypeOK, TypeOK, At, Leave, Steps
<1>2. OthersKept(p) /\ pc'[p] = "idle"
  BY DEF PInv, PlanTypeOK, TypeOK, OthersKept, Leave
<1>3. ProcInv(p)'
  BY <1>2 DEF ProcInv, Creating, Updating, Recovering
<1>4. QED
  BY <1>1, <1>2, <1>3, QuietInv

(* A call begins.                                                          *)
LEMMA StartInv ==
  ASSUME PInv, NEW p \in Procs, NEW step \in {"c-admit", "u-lock", "r-lock"}, NEW e \in Effects,
         NEW custody \in {None, "pending", "final"}, Start(p, step, e, custody),
         UNCHANGED <<edits, crashes>>,
         step = "c-admit" => e.try = 0 /\ Len(e.of) = 1,
         step = "u-lock" =>
            /\ e.try = 0 /\ Len(e.of) > 1
            /\ custody # None => InPlan(e.of) /\ attempts[e] = Admitted,
         step = "r-lock" => e.try # 0 /\ InPlan(e.of)
  PROVE  PInv'
<1>1. UNCHANGED <<file, temps, attempts, results, lock>>
  BY DEF Start, diskVars
<1>2. /\ pc'[p] = step /\ job'[p] = [effect |-> e, custody |-> custody] /\ OthersKept(p)
      /\ pc[p] = "idle"
  BY DEF Start, PInv, PlanTypeOK, TypeOK, OthersKept, At
<1>3. PlanTypeOK'
  <2>1. [effect |-> e, custody |-> custody] \in Jobs /\ [effect |-> e, custody |-> custody] # None
    BY Distinct DEF Jobs
  <2>2. job' \in [Procs -> Jobs \cup {None}] /\ pc' \in [Procs -> Steps]
    BY <2>1 DEF Start, PInv, PlanTypeOK, TypeOK, Steps
  <2>3. QED
    BY <1>1, <1>2, <2>1, <2>2 DEF PInv, PlanTypeOK, TypeOK, StoreTypeOK, At, Jobs, OthersKept
<1>4. InPlan(e.of) <=> InPlan(e.of)'
  BY <1>1 DEF InPlan, Whole
<1>5. ProcInv(p)'
  BY <1>1, <1>2, <1>4 DEF ProcInv, Creating, Updating, Recovering
<1>6. QED
  BY <1>1, <1>2, <1>3, <1>5, StillRecords, QuietInv

-----------------------------------------------------------------------------
(* What the store operations do to the records.                            *)
LEMMA AdmitRecords ==
  ASSUME StoreTypeOK, NEW e \in Effects, Admit(e) \/ TearAttempt(e)
  PROVE  StoreTypeOK' /\ RecordsKept /\ (Admit(e) => attempts'[e] = Admitted)
BY DEF StoreTypeOK, Admit, TearAttempt, CanAdmit, RecordsKept

LEMMA CommitRecords ==
  ASSUME StoreTypeOK, NEW e \in Effects, Commit(e, Done) \/ TearResult(e),
         e.try = 0 => InPlan(e.of),
         e.try # 0 /\ Commit(e, Done) => Committed(Post(e.of))
  PROVE  StoreTypeOK' /\ RecordsKept /\ (Commit(e, Done) => Committed(e)')
BY DEF StoreTypeOK, Commit, TearResult, CanCommit, RecordsKept, Committed

LEMMA StoreTyped == ASSUME PInv PROVE StoreTypeOK /\ PlanTypeOK /\ crashes \in 0 .. MaxCrashes
BY DEF PInv, PlanTypeOK, TypeOK

-----------------------------------------------------------------------------
(* Creation.                                                               *)
LEMMA CreationWritten ==
  ASSUME NEW m \in Materials
  PROVE  <<m>> \in Written /\ Len(<<m>>) = 1
<1>1. <<m>> \in Seq(Marks) /\ Len(<<m>>) = 1 /\ <<m>>[1] = m /\ 1 \in 1 .. MaxLength
  BY DEF Marks
<1>2. <<m>> \in Chains
  BY <1>1, SeqIsChain
<1>3. QED
  BY <1>1, <1>2 DEF Written, Possible

LEMMA SingleFacts ==
  ASSUME NEW u \in Written, Len(u) = 1
  PROVE  \A v \in Chains : IsPrefix(v, u) <=> v = u
<1>1. u \in Chains
  BY DEF Written
<1>2. ASSUME NEW v \in Chains, IsPrefix(v, u) PROVE v = u
  <2>1. Len(v) = 1 /\ \A i \in 1 .. Len(v) : v[i] = u[i]
    BY <1>1, <1>2, PrefixElements, ChainIsSeq
  <2>2. QED
    BY <1>1, <2>1, SameElements
<1>3. QED
  BY <1>1, <1>2, PrefixRefl

LEMMA OpenCreateInv ==
  ASSUME PInv, NEW p \in Procs, OpenCreate(p), UNCHANGED <<edits, crashes>>
  PROVE  PInv'
<1>1. /\ file = Absent /\ file' = Torn /\ pc[p] = "c-open" /\ pc' = [pc EXCEPT ![p] = "c-write"]
      /\ UNCHANGED <<attempts, results, temps, job, lock>>
  BY DEF OpenCreate, May, At, Continue
<1>2. ~Whole /\ ~Whole' /\ \A v \in Chains : ~InPlan(v)
  BY <1>1 DEF Whole, InPlan
<1>3. PlanTypeOK'
  BY <1>1 DEF PInv, PlanTypeOK, TypeOK, StoreTypeOK, At, Steps
<1>4. PlanPossible' /\ EarlierSettled' /\ WritesAttributed'
  BY <1>2 DEF PlanPossible, EarlierSettled, WritesAttributed
<1>5. StoreInv' /\ LeftoverNotPublished' /\ RecoveryAnswersForOriginal'
  <2>1. \A e \in Effects : e.of \in Chains /\ ~InPlan(e.of)
    BY <1>2, EffectFacts
  <2>2. QED
    BY <1>1, <1>2, <2>1 DEF PInv, StoreInv, LeftoverNotPublished, RecoveryAnswersForOriginal, Committed
<1>6. \A q \in Procs : pc[q] # "c-write"
  BY <1>1 DEF PInv, ProcInv
<1>7. ASSUME NEW q \in Procs PROVE ProcInv(q)'
  <2>1. CASE q = p
    BY <1>1, <2>1, StoreTyped DEF PInv, PlanTypeOK, TypeOK, ProcInv, Creating, Updating, Recovering
  <2>2. CASE q # p
    <3>1. pc'[q] = pc[q] /\ job'[q] = job[q]
      BY <1>1, <2>2 DEF PInv, PlanTypeOK, TypeOK
    <3>2. QED
      BY <1>1, <1>2, <1>6, <3>1, StoreTyped, StillRecords, ProcKept DEF PInv
  <2>3. QED
    BY <2>1, <2>2
<1>8. OneCreator' /\ TempsAreUpdates'
  BY <1>1, <1>6 DEF PInv, PlanTypeOK, TypeOK, OneCreator, TempsAreUpdates
<1>9. QED
  BY <1>3, <1>4, <1>5, <1>7, <1>8 DEF PInv

LEMMA WriteCreateInv ==
  ASSUME PInv, NEW p \in Procs, WriteCreate(p), UNCHANGED <<edits, crashes>>
  PROVE  PInv'
<1> DEFINE u == job[p].effect.of
<1>1. /\ file' = u /\ pc[p] = "c-write" /\ pc' = [pc EXCEPT ![p] = "c-commit"]
      /\ UNCHANGED <<attempts, results, temps, job, lock>>
  BY DEF WriteCreate, At, Continue, Target
<1>2. /\ file = Torn /\ Len(u) = 1 /\ u \in Written /\ u \in Chains
      /\ job[p].effect = Post(u) /\ attempts[Post(u)] = Admitted
  BY <1>1, StoreTyped, JobFacts DEF PInv, ProcInv, Creating
<1>3. ~Whole /\ Whole' /\ \A v \in Chains : ~InPlan(v)
  BY <1>1, <1>2, Distinct DEF Whole, InPlan
<1>u. \A v \in Chains : IsPrefix(v, u) <=> v = u
  BY <1>2, SingleFacts
<1>4. PlanTypeOK'
  BY <1>1, <1>2 DEF PInv, PlanTypeOK, TypeOK, StoreTypeOK, At, Steps
<1>5. LatestAt(u, 1) /\ Possible(u) /\ u[1] # Edited
  BY <1>2 DEF LatestAt, Written
<1>6. PlanPossible'
  BY <1>1, <1>2, <1>5 DEF PlanPossible
<1>7. EarlierSettled'
  <2>1. LatestWrite(u) = u
    <3>1. SubSeq(u, 1, 1) = u
      BY <1>2, ChainIsSeq, SubSeqFull
    <3>2. QED
      BY <1>2, <1>5, <3>1, LatestFacts
  <2>2. QED
    BY <1>1, <1>3, <1>u, <2>1 DEF EarlierSettled, Version
<1>8. WritesAttributed'
  <2>1. History!Versions(u) \subseteq {u}
    BY <1>2, <1>u, VersionsArePrefixes DEF Version
  <2>2. QED
    BY <1>1, <1>2, <2>1 DEF WritesAttributed
<1>9. StoreInv' /\ RecoveryAnswersForOriginal'
  <2>1. \A e \in Effects : e.of \in Chains /\ ~InPlan(e.of)
    BY <1>3, EffectFacts
  <2>2. QED
    BY <1>1, <2>1 DEF PInv, StoreInv, RecoveryAnswersForOriginal, Committed
<1>10. LeftoverNotPublished'
  <2> SUFFICES ASSUME NEW e \in temps PROVE ~IsPrefix(e.of, u) /\ results[e] = Absent
    BY <1>1 DEF LeftoverNotPublished
  <2>1. e \in Effects /\ e.of \in Chains /\ Len(e.of) > 1 /\ results[e] = Absent
    BY EffectFacts DEF PInv, PlanTypeOK, TypeOK, LeftoverNotPublished, TempsAreUpdates
  <2>2. e.of # u
    <3>1. Len(e.of) # 1
      BY <2>1, ChainIsSeq
    <3>2. QED
      BY <1>2, <3>1, Zenon
  <2>3. QED
    BY <1>u, <2>1, <2>2
<1>11. ASSUME NEW q \in Procs PROVE ProcInv(q)'
  <2>1. CASE q = p
    <3>1. InPlan(u)'
      BY <1>1, <1>2, <1>3, PrefixRefl DEF InPlan
    <3>2. QED
      BY <1>1, <1>2, <2>1, <3>1 DEF PInv, PlanTypeOK, TypeOK, ProcInv, Creating, Updating, Recovering
  <2>2. CASE q # p
    <3>1. pc'[q] = pc[q] /\ job'[q] = job[q] /\ pc[q] # "c-write"
      BY <1>1, <2>2 DEF PInv, PlanTypeOK, TypeOK, OneCreator
    <3>2. QED
      BY <1>1, <1>3, <3>1, StoreTyped, StillRecords, ProcKept DEF PInv
  <2>3. QED
    BY <2>1, <2>2
<1>12. OneCreator' /\ TempsAreUpdates'
  BY <1>1 DEF PInv, PlanTypeOK, TypeOK, OneCreator, TempsAreUpdates
<1>13. QED
  BY <1>4, <1>6, <1>7, <1>8, <1>9, <1>10, <1>11, <1>12 DEF PInv

-----------------------------------------------------------------------------
(* The plan grows.                                                         *)
LEMMA GrowFacts ==
  ASSUME PInv, Whole, NEW x \in Marks, Len(file) < MaxLength, file' = Append(file, x)
  PROVE  /\ file \in Chains /\ Possible(file) /\ file' \in Chains /\ Whole'
         /\ \A v \in Chains : IsPrefix(v, file') <=> IsPrefix(v, file) \/ v = file'
         /\ \A v \in Chains : InPlan(v) => InPlan(v)'
         /\ IsPrefix(file', file')
         /\ \A q \in Procs : pc[q] # "c-write"
<1>1. file \in Chains /\ Possible(file)
  BY DEF PInv, PlanTypeOK, TypeOK, PlanPossible, Whole
<1>2. file' \in Chains
  BY <1>1, AppendFacts
<1>3. Whole'
  BY <1>2, Distinct DEF Whole
<1>4. \A v \in Chains : IsPrefix(v, file') <=> IsPrefix(v, file) \/ v = file'
  BY <1>1, PrefixOfAppend
<1>5. (\A v \in Chains : InPlan(v) => InPlan(v)') /\ IsPrefix(file', file')
  BY <1>2, <1>3, <1>4, PrefixRefl DEF InPlan
<1>6. \A q \in Procs : pc[q] # "c-write"
  BY DEF PInv, ProcInv, Whole
<1>7. QED
  BY <1>1, <1>2, <1>3, <1>4, <1>5, <1>6

(* An update that is fresh finds every earlier write settled.              *)
LEMMA AllSettled ==
  ASSUME PInv, NEW u, Fresh(u), NEW v \in Chains, Version(v, file)
  PROVE  Committed(Post(v))
<1>1. Whole /\ Usable(file) /\ ~Pending(file) /\ file \in Chains
  BY DEF Fresh, BoundTo, Whole, PInv, PlanTypeOK, TypeOK
<1>2. PICK k \in 1 .. Len(file) : LatestAt(file, k)
  BY <1>1 DEF PInv, PlanPossible
<1>3. LatestWrite(file) = SubSeq(file, 1, k) /\ Len(LatestWrite(file)) = k
  <2>1. LatestWrite(file) = SubSeq(file, 1, k)
    BY <1>1, <1>2, LatestFacts
  <2>2. Len(SubSeq(file, 1, k)) = k
    BY <1>1, TakeFacts
  <2>3. QED
    BY <2>1, <2>2, Zenon
<1>4. CASE v # LatestWrite(file)
  BY <1>1, <1>4 DEF PInv, EarlierSettled
<1>5. CASE v = LatestWrite(file) /\ k > 1
  BY <1>1, <1>3, <1>5 DEF Pending, Updated
<1>6. CASE v = LatestWrite(file) /\ k = 1
  BY <1>1, <1>3, <1>6 DEF Usable, OriginCommitted
<1>7. QED
  BY <1>4, <1>5, <1>6

LEMMA AlterInv == ASSUME PInv, Alter PROVE PInv'
<1>1. /\ Whole /\ Len(file) < MaxLength /\ file' = Append(file, Edited) /\ Edited \in Marks
      /\ UNCHANGED <<attempts, results, temps, lock, pc, job, crashes>>
  BY DEF Alter, Marks
<1>2. /\ file \in Chains /\ Possible(file) /\ file' \in Chains /\ Whole'
      /\ \A v \in Chains : IsPrefix(v, file') <=> IsPrefix(v, file) \/ v = file'
      /\ \A v \in Chains : InPlan(v) => InPlan(v)'
      /\ \A q \in Procs : pc[q] # "c-write"
  BY <1>1, GrowFacts
<1>3. /\ Len(file') = Len(file) + 1 /\ file'[Len(file) + 1] = Edited
      /\ \A i \in 1 .. Len(file) : file'[i] = file[i]
      /\ Len(file) \in Nat \ {0}
  BY <1>1, <1>2, AppendFacts, ChainIsSeq
<1>4. \A v \in Chains : Version(v, file') <=> Version(v, file)
  BY <1>2, <1>3 DEF Version
<1>5. PlanTypeOK'
  BY <1>1, <1>2 DEF PInv, PlanTypeOK, TypeOK, StoreTypeOK, At, Alter
<1>6. PICK k \in 1 .. Len(file) : LatestAt(file, k)
  BY <1>1 DEF PInv, PlanPossible
<1>7. k \in 1 .. Len(file') /\ LatestAt(file', k)
  <2>1. k \in 1 .. Len(file') /\ file'[k] # Edited
    BY <1>3, <1>6 DEF LatestAt
  <2>2. ASSUME NEW j \in k + 1 .. Len(file') PROVE file'[j] = Edited
    <3>1. j = Len(file) + 1 \/ (j \in k + 1 .. Len(file) /\ j \in 1 .. Len(file))
      BY <1>3, <1>6, <2>2
    <3>2. QED
      BY <1>3, <1>6, <3>1 DEF LatestAt
  <2>3. QED
    BY <2>1, <2>2 DEF LatestAt
<1>8. PlanPossible'
  BY <1>1, <1>2, <1>7, AppendPossible DEF PlanPossible
<1>9. EarlierSettled'
  <2>1. LatestWrite(file') = LatestWrite(file)
    <3> DEFINE t == SubSeq(file', 1, k)
               w == SubSeq(file, 1, k)
    <3>1. LatestWrite(file') = t /\ LatestWrite(file) = w
      <4>1. LatestWrite(file') = SubSeq(file', 1, k)
        BY <1>2, <1>7, LatestFacts
      <4>2. LatestWrite(file) = SubSeq(file, 1, k)
        BY <1>2, <1>6, LatestFacts
      <4>3. QED
        BY <4>1, <4>2
    <3>2. /\ t \in Chains /\ Len(t) = k /\ \A i \in 1 .. k : t[i] = file'[i]
          /\ w \in Chains /\ Len(w) = k /\ \A i \in 1 .. k : w[i] = file[i]
      BY <1>2, <1>6, <1>7, TakeFacts
    <3> HIDE DEF t, w
    <3>3. \A i \in 1 .. k : i \in 1 .. Len(file)
      BY <1>3, <1>6
    <3>4. t = w
      BY <1>3, <3>2, <3>3, SameElements
    <3>5. QED
      BY <3>1, <3>4
  <2>2. QED
    BY <1>1, <1>2, <1>4, <2>1 DEF PInv, EarlierSettled, Committed
<1>10. WritesAttributed'
  BY <1>1, <1>2, <1>4, VersionsArePrefixes DEF PInv, WritesAttributed
<1>11. StoreInv' /\ RecoveryAnswersForOriginal'
  BY <1>1, <1>2, EffectFacts DEF PInv, StoreInv, RecoveryAnswersForOriginal, Committed
<1>12. LeftoverNotPublished' /\ TempsAreUpdates'
  <2> SUFFICES ASSUME NEW e \in temps PROVE ~IsPrefix(e.of, file') /\ results[e] = Absent
    BY <1>1 DEF PInv, LeftoverNotPublished, TempsAreUpdates
  <2>1. e \in Effects /\ e.of \in Chains /\ e.of \in Written /\ ~IsPrefix(e.of, file) /\ results[e] = Absent
    BY <1>1, EffectFacts DEF PInv, PlanTypeOK, TypeOK, LeftoverNotPublished
  <2>2. e.of # file'
    BY <1>3, <2>1 DEF Written
  <2>3. QED
    BY <1>2, <2>1, <2>2
<1>13. \A q \in Procs : ProcInv(q)'
  BY <1>1, <1>2, StoreTyped, StillRecords, ProcKept DEF PInv
<1>14. OneCreator'
  BY <1>1 DEF PInv, OneCreator
<1>15. QED
  BY <1>5, <1>8, <1>9, <1>10, <1>11, <1>12, <1>13, <1>14 DEF PInv

LEMMA RenameUpdateInv ==
  ASSUME PInv, NEW p \in Procs, RenameUpdate(p), UNCHANGED <<edits, crashes>>
  PROVE  PInv'
<1> DEFINE u == job[p].effect.of
<1>1. /\ pc[p] = "u-rename" /\ Fresh(u) /\ file' = u /\ temps' = temps \ {job[p].effect}
      /\ pc' = [pc EXCEPT ![p] = "u-commit"] /\ UNCHANGED <<attempts, results, job, lock>>
  BY DEF RenameUpdate, May, CanInstall, Effect, Target, At, Continue
<1>2. /\ u \in Written /\ u \in Chains /\ job[p].effect = Post(u) /\ attempts[Post(u)] = Admitted
      /\ Len(u) > 1
  BY <1>1, StoreTyped, JobFacts DEF PInv, ProcInv, Updating
<1>3. Whole /\ file = Front(u) /\ file \in Chains
  BY <1>1 DEF Fresh, BoundTo, Whole, PInv, PlanTypeOK, TypeOK
<1>4. /\ u = Append(file, Last(u)) /\ Last(u) \in Marks /\ Len(u) = Len(file) + 1
      /\ Len(file) < MaxLength /\ Last(u) # Last(file)
  BY <1>1, <1>2, <1>3, FrontFacts DEF Fresh
<1>5. /\ Possible(file) /\ file' \in Chains /\ Whole'
      /\ \A v \in Chains : IsPrefix(v, file') <=> IsPrefix(v, file) \/ v = file'
      /\ \A v \in Chains : InPlan(v) => InPlan(v)'
      /\ IsPrefix(file', file')
      /\ \A q \in Procs : pc[q] # "c-write"
  BY <1>1, <1>3, <1>4, GrowFacts
<1>6. PlanTypeOK'
  BY <1>1, <1>5 DEF PInv, PlanTypeOK, TypeOK, StoreTypeOK, At, Steps
<1>7. Possible(u) /\ u[Len(u)] # Edited /\ LatestAt(u, Len(u)) /\ Len(u) \in 1 .. Len(u)
  BY <1>2, ChainIsSeq DEF Written, LatestAt
<1>8. PlanPossible'
  BY <1>1, <1>7 DEF PlanPossible
<1>9. EarlierSettled'
  <2>1. LatestWrite(u) = u
    <3>1. LatestWrite(u) = SubSeq(u, 1, Len(u))
      BY <1>2, <1>7, LatestFacts
    <3>2. SubSeq(u, 1, Len(u)) = u
      BY <1>2, ChainIsSeq, SubSeqFull
    <3>3. QED
      BY <3>1, <3>2, Zenon
  <2>2. ASSUME NEW v \in Chains, Version(v, u), v # u PROVE Committed(Post(v))
    BY <1>1, <1>5, <2>2, AllSettled DEF Version
  <2>3. QED
    BY <1>1, <2>1, <2>2 DEF EarlierSettled, Committed
<1>10. WritesAttributed'
  <2>1. ASSUME NEW v \in Chains, Version(v, u) PROVE attempts[Post(v)] = Admitted
    BY <1>1, <1>2, <1>3, <1>5, <2>1, VersionsArePrefixes DEF Version, PInv, WritesAttributed
  <2>2. QED
    BY <1>1, <1>2, <2>1, VersionsArePrefixes DEF WritesAttributed
<1>11. StoreInv' /\ RecoveryAnswersForOriginal'
  BY <1>1, <1>5, EffectFacts DEF PInv, StoreInv, RecoveryAnswersForOriginal, Committed
<1>12. LeftoverNotPublished' /\ TempsAreUpdates'
  <2> SUFFICES ASSUME NEW e \in temps, e # job[p].effect
               PROVE  ~IsPrefix(e.of, file') /\ results[e] = Absent
    BY <1>1 DEF PInv, LeftoverNotPublished, TempsAreUpdates
  <2>1. /\ e \in Effects /\ e.of \in Chains /\ e = Post(e.of)
        /\ ~IsPrefix(e.of, file) /\ results[e] = Absent
    BY <1>3, EffectFacts DEF PInv, PlanTypeOK, TypeOK, LeftoverNotPublished
  <2>2. e.of # u
    BY <1>2, <2>1
  <2>3. QED
    BY <1>1, <1>5, <2>1, <2>2
<1>13. ASSUME NEW q \in Procs PROVE ProcInv(q)'
  <2>1. CASE q = p
    <3>1. InPlan(u)'
      BY <1>1, <1>5 DEF InPlan
    <3>2. QED
      BY <1>1, <1>2, <2>1, <3>1 DEF PInv, PlanTypeOK, TypeOK, ProcInv, Creating, Updating, Recovering
  <2>2. CASE q # p
    <3>1. pc'[q] = pc[q] /\ job'[q] = job[q]
      BY <1>1, <2>2 DEF PInv, PlanTypeOK, TypeOK
    <3>2. QED
      BY <1>1, <1>5, <3>1, StoreTyped, StillRecords, ProcKept DEF PInv
  <2>3. QED
    BY <2>1, <2>2
<1>14. OneCreator'
  BY <1>1, <1>5 DEF PInv, PlanTypeOK, TypeOK, OneCreator
<1>15. QED
  BY <1>6, <1>8, <1>9, <1>10, <1>11, <1>12, <1>13, <1>14 DEF PInv

(* A temporary is made for an update that is not in the plan.              *)
LEMMA StageInv ==
  ASSUME PInv, NEW p \in Procs, pc[p] = "u-temp", May(p), ~Published(Target(p)),
         temps' = temps \cup {Effect(p)}, Continue(p, "u-rename"),
         UNCHANGED <<attempts, results, file, edits, crashes>>
  PROVE  PInv'
<1> DEFINE u == job[p].effect.of
           e == job[p].effect
<1>1. /\ BoundTo(u) /\ temps' = temps \cup {e} /\ pc' = [pc EXCEPT ![p] = "u-rename"]
      /\ UNCHANGED <<job, lock>>
  BY DEF May, At, Effect, Target, Continue
<1>2. /\ e \in Effects /\ u \in Chains /\ e = Post(u) /\ e.try = 0 /\ attempts[e] = Admitted /\ Len(u) > 1
  BY StoreTyped, JobFacts DEF PInv, ProcInv, Updating
<1>3. Whole /\ file \in Chains /\ file = Front(u)
  BY <1>1 DEF BoundTo, Whole, PInv, PlanTypeOK, TypeOK
<1>4. ~InPlan(u)
  <2>1. Len(u) = Len(file) + 1 /\ Len(file) \in Nat
    BY <1>2, <1>3, FrontFacts, ChainIsSeq
  <2>2. QED
    BY <1>2, <1>3, <2>1, PrefixElements DEF InPlan
<1>5. results[e] = Absent
  BY <1>2, <1>4 DEF PInv, StoreInv
<1>6. PlanTypeOK'
  BY <1>1, <1>2 DEF PInv, PlanTypeOK, TypeOK, StoreTypeOK, At, Steps
<1>7. /\ PlanPossible' /\ StoreInv' /\ EarlierSettled' /\ WritesAttributed'
      /\ RecoveryAnswersForOriginal'
  BY DEF PInv, PlanPossible, StoreInv, EarlierSettled, WritesAttributed,
         RecoveryAnswersForOriginal, Whole, InPlan, Committed, LatestAt, Possible
<1>8. LeftoverNotPublished' /\ TempsAreUpdates'
  BY <1>1, <1>2, <1>4, <1>5 DEF PInv, LeftoverNotPublished, TempsAreUpdates, Whole, InPlan
<1>9. ASSUME NEW q \in Procs PROVE ProcInv(q)'
  <2>1. CASE q = p
    BY <1>1, <1>2, <1>4, <2>1 DEF PInv, PlanTypeOK, TypeOK, ProcInv, Creating, Updating, Recovering
  <2>2. CASE q # p
    <3>1. pc'[q] = pc[q] /\ job'[q] = job[q]
      BY <1>1, <2>2 DEF PInv, PlanTypeOK, TypeOK
    <3>2. \A v \in Chains : InPlan(v) => InPlan(v)'
      BY DEF InPlan, Whole
    <3>3. QED
      BY <3>1, <3>2, StoreTyped, StillRecords, ProcKept DEF PInv
  <2>3. QED
    BY <2>1, <2>2
<1>10. OneCreator'
  BY <1>1 DEF PInv, PlanTypeOK, TypeOK, OneCreator
<1>11. QED
  BY <1>6, <1>7, <1>8, <1>9, <1>10 DEF PInv

-----------------------------------------------------------------------------
(* The other steps of the three calls.                                     *)
LEMMA Held == ASSUME UNCHANGED file, NEW v, InPlan(v) PROVE InPlan(v)'
BY DEF InPlan, Whole

LEMMA LockInv ==
  ASSUME PInv, NEW p \in Procs, NEW from \in {"u-lock", "r-lock"},
         NEW to \in {"u-check", "r-check"}, Lock(p, from, to), UNCHANGED <<edits, crashes>>,
         from = "u-lock" <=> to = "u-check"
  PROVE  PInv'
<1>1. /\ pc[p] = from /\ lock = None /\ lock' = p /\ pc' = [pc EXCEPT ![p] = to]
      /\ UNCHANGED <<attempts, results, file, temps, job>>
  BY DEF Lock, May, At, diskVars
<1>2. ProcInv(p)'
  BY <1>1, Held DEF PInv, PlanTypeOK, TypeOK, ProcInv, Creating, Updating, Recovering
<1>3. StoreTypeOK' /\ RecordsKept
  BY <1>1, StoreTyped, StillRecords DEF StoreTypeOK
<1>4. to \in Steps \ {"idle", "c-write"} /\ to \in Holding /\ pc[p] # "idle"
  BY <1>1 DEF Steps, Holding
<1>5. QED
  BY <1>1, <1>2, <1>3, <1>4, MoveInv

LEMMA AdmitAtInv ==
  ASSUME PInv, NEW p \in Procs, NEW from, NEW to,
         <<from, to>> \in {<<"c-admit", "c-open">>, <<"u-admit", "u-temp">>, <<"r-admit", "r-final">>},
         AdmitAt(p, from, to), UNCHANGED <<edits, crashes>>
  PROVE  PInv'
<1>1. /\ pc[p] = from /\ Admit(job[p].effect) /\ pc' = [pc EXCEPT ![p] = to]
      /\ UNCHANGED <<file, temps, job, lock>>
  BY DEF AdmitAt, At, Effect, Continue
<1>2. job[p].effect \in Effects /\ pc[p] # "idle"
  BY <1>1, StoreTyped, JobFacts
<1>3. StoreTypeOK' /\ RecordsKept /\ attempts'[job[p].effect] = Admitted
  BY <1>1, <1>2, StoreTyped, AdmitRecords
<1>4. ProcInv(p)'
  BY <1>1, <1>3, Held DEF PInv, PlanTypeOK, TypeOK, ProcInv, Creating, Updating, Recovering
<1>5. to \in Steps \ {"idle", "c-write"} /\ (to \in Holding <=> from \in Holding)
  BY DEF Steps, Holding
<1>6. QED
  BY <1>1, <1>2, <1>3, <1>4, <1>5, MoveInv

LEMMA CommitAtInv ==
  ASSUME PInv, NEW p \in Procs, NEW from \in {"c-commit", "u-commit", "r-commit"},
         CommitAt(p, from), UNCHANGED <<edits, crashes>>
  PROVE  PInv'
<1>1. pc[p] = from /\ Commit(job[p].effect, Done) /\ Leave(p) /\ UNCHANGED <<file, temps>>
  BY DEF CommitAt, At, Effect
<1>2. job[p].effect \in Effects
  BY <1>1, StoreTyped, JobFacts
<1>3. /\ job[p].effect.try = 0 => InPlan(job[p].effect.of)
      /\ job[p].effect.try # 0 => Committed(Post(job[p].effect.of))
  BY <1>1 DEF PInv, ProcInv, Creating, Updating, Recovering
<1>4. StoreTypeOK' /\ RecordsKept
  BY <1>1, <1>2, <1>3, StoreTyped, CommitRecords
<1>5. QED
  BY <1>1, <1>4, StoreTyped, LeaveInv

LEMMA CreateInv ==
  ASSUME PInv, NEW p \in Procs, Create(p), UNCHANGED <<edits, crashes>>
  PROVE  PInv'
<1>1. ASSUME NEW m \in Materials, BeginCreate(p, m) PROVE PInv'
  <2>1. <<m>> \in Written /\ Len(<<m>>) = 1
    BY CreationWritten
  <2>2. Post(<<m>>) \in Effects /\ Post(<<m>>).of = <<m>> /\ Post(<<m>>).try = 0
    BY <2>1, PostIsEffect
  <2>3. Start(p, "c-admit", Post(<<m>>), None)
    BY <1>1 DEF BeginCreate
  <2>4. QED
    BY <2>1, <2>2, <2>3, StartInv
<1>2. CASE AdmitCreate(p)
  BY <1>2, AdmitAtInv DEF AdmitCreate
<1>3. CASE CommitCreate(p)
  BY <1>3, CommitAtInv DEF CommitCreate
<1>4. QED
  BY <1>1, <1>2, <1>3, OpenCreateInv, WriteCreateInv DEF Create

(* An update that is retained is the plan itself.                          *)
LEMMA RetainedFacts ==
  ASSUME PInv, Whole, Retained(file)
  PROVE  /\ file \in Written /\ Len(file) > 1 /\ InPlan(file)
         /\ attempts[Post(file)] = Admitted
<1>1. file \in Chains /\ Possible(file) /\ Len(file) > 1 /\ file[Len(file)] # Edited
  BY DEF PInv, PlanTypeOK, TypeOK, PlanPossible, Whole, Retained, Published, Last
<1>2. file \in Written /\ InPlan(file) /\ Version(file, file)
  BY <1>1, PrefixRefl DEF Written, InPlan, Version
<1>3. attempts[Post(file)] = Admitted
  BY <1>1, <1>2, VersionsArePrefixes DEF PInv, WritesAttributed
<1>4. QED
  BY <1>1, <1>2, <1>3

LEMMA FreshWritten ==
  ASSUME PInv, Whole, NEW m \in Materials, Len(file) < MaxLength, Fresh(Append(file, m))
  PROVE  Append(file, m) \in Written /\ Len(Append(file, m)) > 1
<1>1. file \in Chains /\ Possible(file) /\ m \in Marks /\ m # Edited /\ Len(file) \in Nat \ {0}
  BY ChainIsSeq DEF PInv, PlanTypeOK, TypeOK, PlanPossible, Whole, Marks
<1>2. /\ Append(file, m) \in Chains /\ Len(Append(file, m)) = Len(file) + 1
      /\ Append(file, m)[Len(file) + 1] = m /\ Last(Append(file, m)) = m
  BY <1>1, AppendFacts
<1>3. m # Last(file)
  BY <1>2 DEF Fresh
<1>4. Possible(Append(file, m))
  BY <1>1, <1>3, AppendPossible
<1>5. Append(file, m)[Len(Append(file, m))] # Edited /\ Len(Append(file, m)) > 1
  BY <1>1, <1>2
<1>6. QED
  BY <1>2, <1>4, <1>5 DEF Written

LEMMA UpdateInv ==
  ASSUME PInv, NEW p \in Procs, Update(p), UNCHANGED <<edits, crashes>>
  PROVE  PInv'
<1> DEFINE e == job[p].effect
           u == e.of
<1>1. ASSUME NEW m \in Materials, BeginUpdate(p, m) PROVE PInv'
  <2>1. Whole /\ Len(file) < MaxLength /\ Fresh(Append(file, m))
        /\ Start(p, "u-lock", Post(Append(file, m)), None)
    BY <1>1 DEF BeginUpdate
  <2>2. Append(file, m) \in Written /\ Len(Append(file, m)) > 1
    BY <2>1, FreshWritten
  <2>3. /\ Post(Append(file, m)) \in Effects /\ Post(Append(file, m)).of = Append(file, m)
        /\ Post(Append(file, m)).try = 0
    BY <2>2, PostIsEffect
  <2>4. QED
    BY <2>1, <2>2, <2>3, StartInv
<1>2. CASE ResumeUpdate(p)
  <2>1. /\ file \in Written /\ Len(file) > 1 /\ InPlan(file) /\ attempts[Post(file)] = Admitted
        /\ Start(p, "u-lock", Post(file), Custody(file))
    BY <1>2, RetainedFacts DEF ResumeUpdate
  <2>2. Post(file) \in Effects /\ Post(file).of = file /\ Post(file).try = 0
    BY <2>1, PostIsEffect
  <2>3. Custody(file) \in {None, "pending", "final"}
    BY DEF Custody
  <2>4. QED
    BY <2>1, <2>2, <2>3, StartInv
<1>3. CASE LockUpdate(p)
  BY <1>3, LockInv DEF LockUpdate
<1>4. CASE CheckUpdate(p)
  <2>1. /\ pc[p] = "u-check" /\ pc' = [pc EXCEPT ![p] = "u-admit"]
        /\ UNCHANGED <<job, lock, attempts, results, file, temps>>
    BY <1>4 DEF CheckUpdate, At, Continue, diskVars
  <2>2. ProcInv(p)'
    BY <2>1, Held DEF PInv, PlanTypeOK, TypeOK, ProcInv, Creating, Updating, Recovering
  <2>3. QED
    BY <2>1, <2>2, StoreTyped, StillRecords, MoveInv DEF StoreTypeOK, Steps, Holding
<1>5. CASE At(p, "u-admit") /\ job[p].custody = None /\ AdmitAt(p, "u-admit", "u-temp")
  BY <1>5, AdmitAtInv
<1>6. CASE /\ At(p, "u-admit") /\ job[p].custody # None /\ May(p)
           /\ Continue(p, "u-temp") /\ UNCHANGED diskVars
  <2>1. /\ pc[p] = "u-admit" /\ pc' = [pc EXCEPT ![p] = "u-temp"] /\ job[p].custody # None
        /\ UNCHANGED <<job, lock, attempts, results, file, temps>>
    BY <1>6 DEF At, Continue, diskVars
  <2>2. ProcInv(p)'
    BY <2>1, Held DEF PInv, PlanTypeOK, TypeOK, ProcInv, Creating, Updating, Recovering
  <2>3. QED
    BY <2>1, <2>2, StoreTyped, StillRecords, MoveInv DEF StoreTypeOK, Steps, Holding
<1>7. CASE TempUpdate(p) /\ Published(Target(p))
  <2>1. /\ pc[p] = "u-temp" /\ pc' = [pc EXCEPT ![p] = "u-commit"] /\ Whole /\ file = u
        /\ UNCHANGED <<job, lock, attempts, results, file, temps>>
    BY <1>7 DEF TempUpdate, At, Continue, diskVars, Published, Target
  <2>2. InPlan(u)'
    BY <2>1, PrefixRefl DEF InPlan, Whole, PInv, PlanTypeOK, TypeOK
  <2>3. ProcInv(p)'
    BY <2>1, <2>2, Held DEF PInv, PlanTypeOK, TypeOK, ProcInv, Creating, Updating, Recovering
  <2>4. QED
    BY <2>1, <2>3, StoreTyped, StillRecords, MoveInv DEF StoreTypeOK, Steps, Holding
<1>8. CASE TempUpdate(p) /\ ~Published(Target(p))
  BY <1>8, StageInv DEF TempUpdate, At
<1>9. CASE At(p, "u-commit") /\ CommitAt(p, "u-commit")
  BY <1>9, CommitAtInv
<1>10. CASE Leave(p) /\ UNCHANGED diskVars
  BY <1>10, StoreTyped, StillRecords, LeaveInv DEF diskVars, StoreTypeOK
<1>11. QED
  BY <1>1, <1>2, <1>3, <1>4, <1>5, <1>6, <1>7, <1>8, <1>9, <1>10, RenameUpdateInv
  DEF Update, AdmitUpdate, CommitUpdate

LEMMA RecoverInv ==
  ASSUME PInv, NEW p \in Procs, Recover(p), UNCHANGED <<edits, crashes>>
  PROVE  PInv'
<1> DEFINE u == job[p].effect.of
<1>1. ASSUME NEW n \in 1 .. MaxTries, BeginRecover(p, n) PROVE PInv'
  <2>1. /\ file \in Written /\ Len(file) > 1 /\ InPlan(file)
        /\ Start(p, "r-lock", Recovery(file, n), Custody(file))
    BY <1>1, RetainedFacts DEF BeginRecover
  <2>2. Recovery(file, n) \in Effects /\ Recovery(file, n).of = file /\ Recovery(file, n).try # 0
    BY <2>1, RecoveryIsEffect
  <2>3. Custody(file) \in {None, "pending", "final"}
    BY DEF Custody
  <2>4. QED
    BY <2>1, <2>2, <2>3, StartInv
<1>2. CASE LockRecover(p)
  BY <1>2, LockInv DEF LockRecover
<1>3. CASE CheckRecover(p)
  <2>1. /\ pc[p] = "r-check" /\ pc' = [pc EXCEPT ![p] = "r-admit"]
        /\ UNCHANGED <<job, lock, attempts, results, file, temps>>
    BY <1>3 DEF CheckRecover, At, Continue, diskVars
  <2>2. ProcInv(p)'
    BY <2>1, Held DEF PInv, PlanTypeOK, TypeOK, ProcInv, Creating, Updating, Recovering
  <2>3. QED
    BY <2>1, <2>2, StoreTyped, StillRecords, MoveInv DEF StoreTypeOK, Steps, Holding
<1>4. CASE AdmitRecover(p)
  BY <1>4, AdmitAtInv DEF AdmitRecover
<1>5. CASE FinaliseOriginal(p)
  <2>1. /\ pc[p] = "r-final" /\ pc' = [pc EXCEPT ![p] = "r-commit"]
        /\ UNCHANGED <<job, lock, file, temps>>
    BY <1>5 DEF FinaliseOriginal, At, Continue
  <2>2. /\ u \in Written /\ Post(u) \in Effects /\ Post(u).of = u /\ Post(u).try = 0
        /\ InPlan(u)
    BY <2>1, StoreTyped, JobFacts, PostIsEffect DEF PInv, ProcInv, Recovering
  <2>3. PICK e \in Effects : e = Post(u)
    BY <2>2
  <2>4. StoreTypeOK' /\ RecordsKept /\ Committed(e)'
    <3>1. CASE job[p].custody = "final"
      <4>1. UNCHANGED <<attempts, results>> /\ Committed(e)
        BY <1>5, <2>1, <2>3, <3>1 DEF FinaliseOriginal, May, CanFinalise, Target, At
      <4>2. QED
        BY <4>1, StoreTyped, StillRecords DEF StoreTypeOK, Committed
    <3>2. CASE job[p].custody # "final"
      <4>1. Commit(e, Done) /\ e.try = 0 /\ InPlan(e.of)
        BY <1>5, <2>2, <2>3, <3>2 DEF FinaliseOriginal, Target
      <4>2. QED
        BY <4>1, StoreTyped, CommitRecords
    <3>3. QED
      BY <3>1, <3>2
  <2>5. Committed(Post(u))'
    BY <2>1, <2>3, <2>4 DEF Committed, Post
  <2>6. ProcInv(p)'
    BY <2>1, <2>5, Held DEF PInv, PlanTypeOK, TypeOK, ProcInv, Creating, Updating, Recovering
  <2>7. QED
    BY <1>5, <2>1, <2>4, <2>6, MoveInv DEF Steps, Holding
<1>6. CASE CommitRecover(p)
  BY <1>6, CommitAtInv DEF CommitRecover
<1>7. QED
  BY <1>1, <1>2, <1>3, <1>4, <1>5, <1>6 DEF Recover

LEMMA DeathInv ==
  ASSUME PInv, NEW p \in Procs, Death(p)
  PROVE  PInv'
<1>1. /\ Leave(p) /\ UNCHANGED <<file, temps, edits>> /\ crashes' \in 0 .. MaxCrashes /\ pc[p] # "idle"
  BY StoreTyped DEF Death, At
<1>2. job[p].effect \in Effects /\ job[p].effect.of \in Written /\ Post(job[p].effect.of) \in Effects
  BY <1>1, StoreTyped, JobFacts
<1>3. StoreTypeOK' /\ RecordsKept
  <2>1. CASE UNCHANGED <<attempts, results>>
    BY <2>1, StoreTyped, StillRecords DEF StoreTypeOK
  <2>2. CASE DieAdmitting(p)
    BY <1>2, <2>2, StoreTyped, AdmitRecords DEF DieAdmitting, Effect
  <2>3. CASE pc[p] \in {"c-commit", "u-commit", "r-commit"} /\ TearResult(job[p].effect)
    <3>1. job[p].effect.try = 0 => InPlan(job[p].effect.of)
      BY <2>3 DEF PInv, ProcInv, Recovering
    <3>2. job[p].effect.try # 0 => Committed(Post(job[p].effect.of))
      BY <2>3 DEF PInv, ProcInv, Creating, Updating
    <3>3. QED
      BY <1>2, <2>3, <3>1, <3>2, StoreTyped, CommitRecords
  <2>4. CASE pc[p] = "r-final" /\ TearResult(Post(job[p].effect.of))
    <3>1. InPlan(job[p].effect.of)
      BY <2>4 DEF PInv, ProcInv, Recovering
    <3>2. Post(job[p].effect.of).of = job[p].effect.of /\ Post(job[p].effect.of).try = 0
      BY <1>2, PostIsEffect
    <3>3. QED
      BY <1>2, <2>4, <3>1, <3>2, StoreTyped, CommitRecords
  <2>5. QED
    BY <2>1, <2>2, <2>3, <2>4 DEF Death, DieCommitting, Effect, Target, At
<1>4. QED
  BY <1>1, <1>3, LeaveInv

LEMMA PInvStep == PInv /\ [Next]_vars => PInv'
<1> SUFFICES ASSUME PInv, [Next]_vars PROVE PInv'
  OBVIOUS
<1>1. ASSUME NEW p \in Procs, Refuse(p), UNCHANGED <<edits, crashes>> PROVE PInv'
  BY <1>1, StoreTyped, StillRecords, LeaveInv DEF Refuse, diskVars, StoreTypeOK
<1>2. ASSUME NEW p \in Procs, Proceed(p) PROVE PInv'
  BY <1>1, <1>2, CreateInv, UpdateInv, RecoverInv DEF Proceed
<1>3. ASSUME NEW p \in Procs, Death(p) PROVE PInv'
  BY <1>3, DeathInv
<1>4. CASE UNCHANGED vars
  BY <1>4 DEF vars, PInv, PlanTypeOK, TypeOK, StoreTypeOK, At, PlanPossible, StoreInv, EarlierSettled,
     WritesAttributed, LeftoverNotPublished, RecoveryAnswersForOriginal, ProcInv, OneCreator,
     TempsAreUpdates, InPlan, Whole, Committed, LatestAt, Possible
<1>5. QED
  BY <1>2, <1>3, <1>4, AlterInv DEF Next

THEOREM PlanningInvariant == Spec => []PInv
BY InitPInv, PInvStep, PTL DEF Spec

(* Types and the lock, the attribution of every write in the plan, the     *)
(* leftovers kept apart and recoveries that answer for a result that is    *)
(* there (native_planning_create.rs, native_planning_update.rs).           *)
THEOREM PlanStaysConsistent == Spec => []PlanConsistent
<1>1. PInv => PlanConsistent
  BY DEF PInv, PlanTypeOK, PlanConsistent
<1>2. QED
  BY <1>1, PlanningInvariant, PTL


-----------------------------------------------------------------------------
(* What a step does to the plan and to the results: the plan changes by an *)
(* edit, a creation or a rename; otherwise at most one result appears, and *)
(* that of a write only when the write is in the plan.                     *)
ResultsKept ==
    \/ results' = results
    \/ \E e \in Effects : Commit(e, Done) /\ (e.try = 0 => InPlan(e.of))
    \/ \E e \in Effects : TearResult(e)

PlanChanged ==
    \E p \in Procs : OpenCreate(p) \/ WriteCreate(p) \/ RenameUpdate(p)

LEMMA CommitAtKind ==
  ASSUME PInv, NEW p \in Procs, NEW from \in {"c-commit", "u-commit", "r-commit"},
         CommitAt(p, from)
  PROVE  file' = file /\ ResultsKept
<1>1. pc[p] = from /\ Commit(job[p].effect, Done) /\ file' = file
  BY DEF CommitAt, At, Effect
<1>2. PICK e \in Effects : e = job[p].effect
  BY <1>1, StoreTyped, JobFacts
<1>3. e.try = 0 => InPlan(e.of)
  BY <1>1, <1>2 DEF PInv, ProcInv, Recovering
<1>4. Commit(e, Done)
  BY <1>1, <1>2
<1>5. QED
  BY <1>1, <1>3, <1>4 DEF ResultsKept

LEMMA ProceedKinds ==
  ASSUME PInv, NEW p \in Procs, Proceed(p)
  PROVE  PlanChanged \/ (file' = file /\ ResultsKept)
<1>1. CASE AdmitCreate(p) \/ AdmitRecover(p) \/ (AdmitUpdate(p) /\ AdmitAt(p, "u-admit", "u-temp"))
  BY <1>1 DEF AdmitCreate, AdmitRecover, AdmitAt, Admit, ResultsKept
<1>2. CASE CommitCreate(p) \/ CommitRecover(p) \/ CommitAt(p, "u-commit")
  BY <1>2, CommitAtKind DEF CommitCreate, CommitRecover
<1>3. CASE FinaliseOriginal(p) /\ job[p].custody # "final"
  <2>1. pc[p] = "r-final" /\ file' = file /\ Commit(Post(job[p].effect.of), Done)
    BY <1>3 DEF FinaliseOriginal, At, Target
  <2>2. /\ job[p].effect.of \in Written /\ InPlan(job[p].effect.of)
    BY <2>1, StoreTyped, JobFacts DEF PInv, ProcInv, Recovering
  <2>3. PICK e \in Effects : e = Post(job[p].effect.of) /\ e.of = job[p].effect.of
    BY <2>2, PostIsEffect
  <2>4. Commit(e, Done) /\ InPlan(e.of)
    BY <2>1, <2>2, <2>3
  <2>5. QED
    BY <2>1, <2>4 DEF ResultsKept
<1>4. CASE UNCHANGED <<file, results>>
  BY <1>4 DEF ResultsKept
<1>5. CASE Create(p)
  BY <1>1, <1>2, <1>4, <1>5 DEF Create, BeginCreate, Start, diskVars, PlanChanged
<1>6. CASE Update(p)
  BY <1>1, <1>2, <1>4, <1>6 DEF Update, BeginUpdate, ResumeUpdate, LockUpdate, CheckUpdate,
     AdmitUpdate, TempUpdate, CommitUpdate, Lock, Start, diskVars, PlanChanged
<1>7. CASE Recover(p)
  BY <1>1, <1>2, <1>3, <1>4, <1>7 DEF Recover, BeginRecover, LockRecover, CheckRecover,
     FinaliseOriginal, Lock, Start, diskVars
<1>8. CASE Refuse(p)
  BY <1>4, <1>8 DEF Refuse, diskVars
<1>9. QED
  BY <1>5, <1>6, <1>7, <1>8 DEF Proceed

LEMMA DeathKinds ==
  ASSUME PInv, NEW p \in Procs, Death(p)
  PROVE  file' = file /\ ResultsKept
<1>1. file' = file /\ pc[p] # "idle"
  BY DEF Death, At
<1>2. PICK e \in Effects : e = job[p].effect
  BY <1>1, StoreTyped, JobFacts
<1>3. PICK o \in Effects : o = Post(job[p].effect.of)
  BY <1>1, StoreTyped, JobFacts
<1>4. results' = results \/ TearResult(e) \/ TearResult(o)
  BY <1>2, <1>3 DEF Death, DieAdmitting, DieCommitting, TearAttempt, Effect, Target
<1>5. QED
  BY <1>1, <1>4 DEF ResultsKept

LEMMA StepKinds ==
  ASSUME PInv, [Next]_vars
  PROVE  Alter \/ (PlanChanged /\ UNCHANGED <<edits, crashes>>) \/ (file' = file /\ ResultsKept)
<1>1. CASE Alter
  BY <1>1
<1>2. ASSUME NEW p \in Procs, Proceed(p)
      PROVE  (PlanChanged /\ UNCHANGED <<edits, crashes>>) \/ (file' = file /\ ResultsKept)
  <2>1. UNCHANGED <<edits, crashes>>
    BY <1>2 DEF Proceed
  <2>2. QED
    BY <1>2, <2>1, ProceedKinds
<1>3. ASSUME NEW p \in Procs, Death(p) PROVE file' = file /\ ResultsKept
  BY <1>3, DeathKinds
<1>4. CASE UNCHANGED vars
  BY <1>4 DEF vars, ResultsKept
<1>5. QED
  BY <1>1, <1>2, <1>3, <1>4 DEF Next

(* While a process holds the lock to recover an update the plan is there,  *)
(* so nobody creates it, and the lock keeps every other update away: only  *)
(* an editor can change it (native_planning_update.rs).                    *)
THEOREM RecoveriesWriteNothing == Spec => RecoveryWritesNothing
<1> DEFINE Steady == \A p \in Procs : pc[p] \in {"r-check", "r-admit", "r-final", "r-commit"} =>
                        file' = file \/ edits' # edits
<1>1. PInv /\ [Next]_vars => [Steady]_vars
  <2> SUFFICES ASSUME PInv, [Next]_vars, NEW p \in Procs,
                      pc[p] \in {"r-check", "r-admit", "r-final", "r-commit"}
               PROVE  file' = file \/ edits' # edits
    OBVIOUS
  <2>1. Whole /\ lock = p
    BY DEF PInv, PlanTypeOK, TypeOK, ProcInv, Recovering, InPlan
  <2>2. CASE Alter
    BY <2>2 DEF Alter, PInv, PlanTypeOK, TypeOK
  <2>3. ASSUME NEW q \in Procs, OpenCreate(q) PROVE FALSE
    BY <2>1, <2>3 DEF OpenCreate, May, At, Whole
  <2>4. ASSUME NEW q \in Procs, WriteCreate(q) PROVE FALSE
    BY <2>1, <2>4 DEF WriteCreate, At, Whole, PInv, ProcInv
  <2>5. ASSUME NEW q \in Procs, RenameUpdate(q) PROVE FALSE
    <3>1. pc[q] = "u-rename"
      BY <2>5 DEF RenameUpdate, At
    <3>2. lock = q
      BY <3>1 DEF PInv, PlanTypeOK, TypeOK
    <3>3. QED
      BY <2>1, <3>1, <3>2
  <2>6. QED
    BY <2>2, <2>3, <2>4, <2>5, StepKinds DEF PlanChanged
<1>2. QED
  BY <1>1, PlanningInvariant, PTL DEF Spec, RecoveryWritesNothing

-----------------------------------------------------------------------------
(* The plan implements the abstract history.  Settled are the writes whose *)
(* outcome is committed.                                                   *)
Chronicle == IF Whole THEN file ELSE <<>>

Settled == {e.of : e \in {x \in Effects : x.try = 0 /\ Committed(x)}}

LEMMA SettledFacts ==
  ASSUME NEW v \in Written
  PROVE  v \in Settled <=> Committed(Post(v))
<1>1. Post(v) \in Effects /\ Post(v).of = v /\ Post(v).try = 0
  BY PostIsEffect
<1>2. Committed(Post(v)) => v \in Settled
  BY <1>1 DEF Settled
<1>3. ASSUME v \in Settled PROVE Committed(Post(v))
  <2>1. PICK e \in Effects : e.try = 0 /\ Committed(e) /\ v = e.of
    BY <1>3 DEF Settled
  <2>2. e = Post(v)
    BY <2>1, EffectFacts
  <2>3. QED
    BY <2>1, <2>2
<1>4. QED
  BY <1>2, <1>3

(* Settled writes are versions of the plan.                                *)
LEMMA SettledWritten == Settled \subseteq Written
BY EffectFacts DEF Settled

LEMMA SettledSame ==
  ASSUME \A e \in Effects : e.try = 0 => (Committed(e)' <=> Committed(e))
  PROVE  Settled' = Settled
BY DEF Settled

LEMMA VersionInPlan ==
  ASSUME PInv, NEW v \in Written, InPlan(v)
  PROVE  v \in History!Versions(Chronicle)
<1>1. file \in Chains /\ v \in Chains /\ Version(v, file) /\ Chronicle = file
  BY DEF PInv, PlanTypeOK, TypeOK, InPlan, Whole, Written, Version, Chronicle
<1>2. QED
  BY <1>1, VersionsArePrefixes


LEMMA ChangeImplements ==
  ASSUME PInv, NEW p \in Procs, OpenCreate(p) \/ WriteCreate(p) \/ RenameUpdate(p)
  PROVE  [History!HistoryNext]_<<Chronicle, Settled>>
<1> DEFINE u == job[p].effect.of
<1>s. Settled' = Settled
  BY SettledSame DEF OpenCreate, WriteCreate, RenameUpdate, Committed
<1>1. CASE OpenCreate(p)
  <2>1. file = Absent /\ file' = Torn
    BY <1>1 DEF OpenCreate, May, At
  <2>2. Chronicle' = Chronicle
    BY <2>1 DEF Chronicle, Whole
  <2>3. QED
    BY <1>s, <2>2
<1>2. CASE WriteCreate(p)
  <2>1. pc[p] = "c-write" /\ file' = u
    BY <1>2 DEF WriteCreate, At, Target
  <2>2. file = Torn /\ Len(u) = 1 /\ u \in Written /\ u \in Chains
    BY <2>1, StoreTyped, JobFacts DEF PInv, ProcInv, Creating
  <2>3. Chronicle = <<>> /\ Chronicle' = u
    BY <2>1, <2>2, Distinct DEF Chronicle, Whole
  <2>4. u[1] \in Materials
    BY <2>2, ChainIsSeq DEF Written, Marks
  <2>5. u = Append(<<>>, u[1])
    <3>1. u \in Seq(Marks)
      BY <2>2, ChainIsSeq
    <3>2. Append(<<>>, u[1]) \in Seq(Marks) /\ Len(Append(<<>>, u[1])) = 1 /\ Append(<<>>, u[1])[1] = u[1]
      BY <2>4 DEF Marks
    <3>3. QED
      BY <2>2, <3>1, <3>2, SeqEqual
  <2>6. History!Versions(<<>>) = {}
    BY DEF History!Versions
  <2>7. PICK m \in Materials : Chronicle' = Append(Chronicle, m)
    BY <2>3, <2>4, <2>5
  <2>8. History!Write(m)
    BY <1>s, <2>3, <2>6, <2>7 DEF History!Write, Chronicle, Settled
  <2>9. QED
    BY <2>8 DEF History!HistoryNext
<1>3. CASE RenameUpdate(p)
  <2>1. pc[p] = "u-rename" /\ Fresh(u) /\ file' = u
    BY <1>3 DEF RenameUpdate, May, CanInstall, Target, At
  <2>2. u \in Written /\ u \in Chains
    BY <2>1, StoreTyped, JobFacts
  <2>3. Whole /\ file \in Chains /\ file = Front(u) /\ Possible(file)
    BY <2>1 DEF Fresh, BoundTo, Whole, PInv, PlanTypeOK, TypeOK, PlanPossible
  <2>4. u = Append(file, Last(u)) /\ Last(u) \in Materials
    BY <2>2, <2>3, FrontFacts DEF Written, Last, Marks
  <2>5. Chronicle = file /\ Chronicle' = u
    BY <2>1, <2>2, <2>3, Distinct DEF Chronicle, Whole
  <2>6. History!Versions(Chronicle) \subseteq Settled
    <3>1. ASSUME NEW v \in Chains, Version(v, file) PROVE v \in Settled
      BY <2>1, <2>3, <3>1, AllSettled, VersionIsWritten, SettledFacts
    <3>2. QED
      BY <2>3, <2>5, <3>1, VersionsArePrefixes
  <2>7. PICK m \in Materials : Chronicle' = Append(Chronicle, m)
    BY <2>4, <2>5
  <2>8. History!Write(m)
    BY <1>s, <2>6, <2>7 DEF History!Write, Chronicle, Settled
  <2>9. QED
    BY <2>8 DEF History!HistoryNext
<1>4. QED
  BY <1>1, <1>2, <1>3

LEMMA EditImplements ==
  ASSUME PInv, Alter
  PROVE  History!Edit
<1>1. /\ Whole /\ file \in Chains /\ Len(file) < MaxLength /\ file' = Append(file, Edited)
      /\ Edited \in Marks /\ UNCHANGED <<attempts, results>>
  BY DEF Alter, PInv, PlanTypeOK, TypeOK, Whole, Marks
<1>2. file' \in Chains /\ Len(file) # 0
  BY <1>1, AppendFacts, ChainIsSeq
<1>3. Chronicle = file /\ Chronicle' = Append(Chronicle, Edited) /\ Chronicle # <<>>
  <2>1. Whole' /\ file # <<>>
    BY <1>2, Distinct DEF Whole
  <2>2. Chronicle = file /\ Chronicle' = file'
    BY <1>1, <2>1 DEF Chronicle
  <2>3. QED
    BY <1>1, <2>1, <2>2
<1>4. Settled' = Settled
  BY <1>1, SettledSame DEF Committed
<1>5. QED
  BY <1>3, <1>4 DEF History!Edit, Chronicle, Settled

(* A result that appears settles a write of the plan; that of a recovery   *)
(* and a torn one settle nothing.                                          *)
LEMMA ResultImplements ==
  ASSUME PInv, PInv', file' = file, ResultsKept
  PROVE  [History!HistoryNext]_<<Chronicle, Settled>>
<1>c. Chronicle' = Chronicle
  BY DEF Chronicle, Whole
<1>1. CASE results' = results
  <2>1. ASSUME NEW e \in Effects
        PROVE  (Committed(e) <=> results[e] \in Outcomes) /\ (Committed(e)' <=> results'[e] \in Outcomes)
    <3>1. StoreInv /\ StoreInv'
      BY DEF PInv
    <3>2. /\ attempts[e] # Admitted => results[e] = Absent
          /\ attempts'[e] # Admitted => results'[e] = Absent
      BY <3>1 DEF StoreInv
    <3>3. QED
      BY <3>2 DEF Committed
  <2>2. Settled' = Settled
    BY <1>1, <2>1, SettledSame
  <2>3. QED
    BY <1>c, <2>2
<1>2. ASSUME NEW e \in Effects, TearResult(e) PROVE [History!HistoryNext]_<<Chronicle, Settled>>
  <2>1. Settled' = Settled
    BY <1>2, StoreTyped, SettledSame DEF TearResult, CanCommit, Committed, StoreTypeOK
  <2>2. QED
    BY <1>c, <2>1
<1>3. ASSUME NEW e \in Effects, Commit(e, Done), e.try # 0
      PROVE  [History!HistoryNext]_<<Chronicle, Settled>>
  <2>1. Settled' = Settled
    BY <1>3, StoreTyped, SettledSame DEF Commit, CanCommit, Committed, StoreTypeOK
  <2>2. QED
    BY <1>c, <2>1
<1>4. ASSUME NEW e \in Effects, Commit(e, Done), e.try = 0, InPlan(e.of)
      PROVE  [History!HistoryNext]_<<Chronicle, Settled>>
  <2>1. e.of \in Written /\ e = Post(e.of)
    BY <1>4, EffectFacts
  <2>2. PICK v \in Written : v = e.of
    BY <2>1
  <2>3. v \in History!Versions(Chronicle)
    BY <1>4, <2>2, VersionInPlan
  <2>4. ~Committed(e) /\ Committed(e)'
    BY <1>4, StoreTyped DEF Commit, CanCommit, Committed, StoreTypeOK
  <2>5. v \notin Settled
    BY <2>1, <2>2, <2>4, SettledFacts
  <2>6. \A x \in Effects : Committed(x)' <=> Committed(x) \/ x = e
    BY <1>4, <2>4, StoreTyped DEF Commit, Committed, StoreTypeOK
  <2>7. Settled' = Settled \cup {v}
    BY <1>4, <2>2, <2>6 DEF Settled
  <2>8. History!Settle(v)
    BY <1>c, <2>3, <2>5, <2>7 DEF History!Settle, Chronicle, Settled
  <2>9. QED
    BY <2>3, <2>8 DEF History!HistoryNext, Chronicle
<1>5. QED
  BY <1>1, <1>2, <1>3, <1>4 DEF ResultsKept


(* An update is appended only to the bytes it was computed from, when the  *)
(* creation and every earlier update are settled; no edit is overwritten   *)
(* and no update lost; a result is committed once and only for a write     *)
(* that is in the plan (native_planning_create.rs,                         *)
(* native_planning_update.rs).                                             *)
THEOREM PlanImplementsHistory == Spec => ImplementsOwnerHistory
<1>1. Init => History!HistoryInit
  BY DEF Init, StoreInit, History!HistoryInit, Whole, Committed
<1>2. PInv /\ PInv' /\ [Next]_vars => [History!HistoryNext]_<<Chronicle, Settled>>
  <2> SUFFICES ASSUME PInv, PInv', [Next]_vars PROVE [History!HistoryNext]_<<Chronicle, Settled>>
    OBVIOUS
  <2>1. CASE Alter
    BY <2>1, EditImplements DEF History!HistoryNext
  <2>2. CASE PlanChanged
    BY <2>2, ChangeImplements DEF PlanChanged
  <2>3. CASE file' = file /\ ResultsKept
    BY <2>3, ResultImplements
  <2>4. QED
    BY <2>1, <2>2, <2>3, StepKinds
<1>3. <<Chronicle, Settled>> = History!historyVars
  BY DEF Chronicle, Settled, History!historyVars
<1>4. PInv /\ PInv' /\ [Next]_vars => [History!HistoryNext]_History!historyVars
  BY <1>2, <1>3 DEF Chronicle, Settled, History!historyVars
<1>5. QED
  BY <1>1, <1>4, PlanningInvariant, PTL DEF Spec, ImplementsOwnerHistory, History!HistorySpec
=============================================================================
