-------------------------- MODULE InprocessingProofs --------------------------
(***************************************************************************)
(* The extension stack is always usable: whatever technique runs, and in   *)
(* whatever order, each witness satisfies its clause and is marked, and no *)
(* technique takes a variable as witness that is frozen or assumed.        *)
(***************************************************************************)
EXTENDS Inprocessing, SequenceTheorems, TLAPS

\* A sequence of whatever its elements are.
IsStack(s) == s \in Seq({s[i] : i \in DOMAIN s})

Idle == {"user", "restore", "propagate", "simplify", "answered",
         "substituted", "elim", "block", "cover", "probe"}
Backs == {"user", "restore", "simplify", "substituted"}

\* Nothing is left of the last technique when the next one starts.
Clean ==
  /\ pc \in {"gates", "bounded", "add", "backward", "represent",
             "covering", "covered", "conditioning", "vivify", "last",
             "instantiate"} \/ work = {}
  /\ pc \in {"covering", "covered"} \/ private = <<>>
  /\ pc \in {"gates", "bounded", "add", "backward", "vivify", "last"}
       \/ count \in Nat
  /\ back \in Backs

\* The pivot of an elimination, and of blocked clauses.
PivotFree ==
  /\ pc \in {"gates", "bounded", "add", "blocking"} =>
       ~Frozen(pivot) /\ ~Frozen(-pivot)
  /\ pc = "blocking" => \A c \in queue : pivot \in c

Usable(entries) ==
  /\ IsStack(entries)
  /\ \A i \in DOMAIN entries :
       entries[i].witness \cap entries[i].clause # {}
AllFree(entries) ==
  \A i \in DOMAIN entries : \A w \in entries[i].witness : ~Frozen(w)
\* What cover has prepared for the stack, from the literals still to be tried.
CoverFree ==
  pc \in {"covering", "covered"} =>
    /\ Usable(private) /\ AllFree(private)
    /\ \A i \in DOMAIN private : private[i] =
         [witness |-> private[i].witness, clause |-> private[i].clause]
    /\ work \subseteq marked

\* The assignment of condition, and the literals it has unassigned.
ConditionFree ==
  pc \in {"condition", "conditioning"} => \A l \in trail \cup work : ~Frozen(l)

\* The variables decompose replaces.
EquivalenceFree ==
  pc = "represent" => \A v \in work : ~Frozen(v) /\ ~Frozen(-v)

Stack ==
  /\ Usable(extension)
  /\ \A i \in DOMAIN extension : extension[i].witness \subseteq witness

\* What is pushed by a step may be a witness.
NewFree ==
  \A i \in DOMAIN extension' : i > Len(extension) =>
    \A w \in extension'[i].witness : ~Frozen(w)

JobInv ==
  Clean /\ PivotFree /\ CoverFree /\ ConditionFree /\ EquivalenceFree
IInv == JobInv /\ Stack
-----------------------------------------------------------------------------
(* Sequences. *)

LEMMA StackDomain ==
  ASSUME NEW s, IsStack(s)
  PROVE  Len(s) \in Nat /\ DOMAIN s = 1..Len(s)
  BY LenProperties, Zenon DEF IsStack

\* Every element of the concatenation is one of the two.
LEMMA Joined ==
  ASSUME NEW s, NEW t, IsStack(s), IsStack(t)
  PROVE  /\ IsStack(s \o t)
         /\ Len(s \o t) = Len(s) + Len(t)
         /\ DOMAIN (s \o t) = 1..(Len(s) + Len(t))
         /\ \A i \in DOMAIN s : (s \o t)[i] = s[i]
         /\ \A i \in DOMAIN (s \o t) : i > Len(s) =>
              /\ i - Len(s) \in DOMAIN t
              /\ (s \o t)[i] = t[i - Len(s)]
<1> DEFINE S == {s[i] : i \in DOMAIN s} \cup {t[i] : i \in DOMAIN t}
<1>1. s \in Seq(S) /\ t \in Seq(S)
  BY SeqMonotonic, Zenon DEF IsStack
<1> HIDE DEF S
<1>2. /\ s \o t \in Seq(S)
      /\ Len(s \o t) = Len(s) + Len(t)
      /\ \A i \in 1 .. Len(s) + Len(t) : (s \o t)[i] =
           IF i <= Len(s) THEN s[i] ELSE t[i - Len(s)]
  BY <1>1, ConcatProperties
<1>3. /\ Len(s) \in Nat /\ DOMAIN s = 1..Len(s)
      /\ Len(t) \in Nat /\ DOMAIN t = 1..Len(t)
  BY StackDomain
<1>4. DOMAIN (s \o t) = 1..(Len(s) + Len(t))
  BY <1>2, LenProperties
<1>5. IsStack(s \o t)
  <2> DEFINE u == s \o t
  <2>1. u \in Seq(S)
    BY <1>2
  <2> HIDE DEF u
  <2>2. Len(u) \in Nat /\ u \in [1..Len(u) -> S] /\ DOMAIN u = 1..Len(u)
    BY <2>1, LenProperties, Zenon
  <2>3. u \in [1..Len(u) -> {u[i] : i \in DOMAIN u}]
    BY <2>2, Zenon
  <2>4. u \in Seq({u[i] : i \in DOMAIN u})
    BY <2>2, <2>3, SeqDef, Zenon
  <2> QED
    BY <2>4 DEF IsStack, u
<1>6. \A i \in DOMAIN s : (s \o t)[i] = s[i]
  BY <1>2, <1>3, SMT
<1>7. \A i \in DOMAIN (s \o t) : i > Len(s) =>
        i - Len(s) \in DOMAIN t /\ (s \o t)[i] = t[i - Len(s)]
  BY <1>2, <1>3, <1>4, SMT
<1> QED
  BY <1>2, <1>4, <1>5, <1>6, <1>7

\* A part of a sequence.
LEMMA Part ==
  ASSUME NEW s, IsStack(s), NEW m \in Nat \ {0}, NEW n \in 0..Len(s)
  PROVE  /\ IsStack(SubSeq(s, m, n))
         /\ Len(SubSeq(s, m, n)) = IF m <= n THEN n - m + 1 ELSE 0
         /\ \A i \in DOMAIN SubSeq(s, m, n) :
              \E j \in DOMAIN s : SubSeq(s, m, n)[i] = s[j]
<1> DEFINE S == {s[i] : i \in DOMAIN s}
           u == SubSeq(s, m, n)
<1>1. Len(s) \in Nat /\ DOMAIN s = 1..Len(s)
  BY StackDomain
<1>2. m \in Int /\ n \in Int /\ \A i \in m..n : s[i] \in S
  BY <1>1, SMT
<1> HIDE DEF S
<1>3. u \in Seq(S) /\ Len(u) = IF m <= n THEN n - m + 1 ELSE 0
  BY <1>2, SubSeqProperties, Zenon
<1> HIDE DEF u
<1>4. Len(u) \in Nat /\ u \in [1..Len(u) -> S] /\ DOMAIN u = 1..Len(u)
  BY <1>3, LenProperties, Zenon
<1>5. u \in [1..Len(u) -> {u[i] : i \in DOMAIN u}]
  BY <1>4, Zenon
<1>6. IsStack(u)
  BY <1>4, <1>5, SeqDef, Zenon DEF IsStack
<1>7. \A i \in DOMAIN u : \E j \in DOMAIN s : u[i] = s[j]
  BY <1>4, Zenon DEF S
<1> QED
  BY <1>3, <1>6, <1>7 DEF u

LEMMA WithoutOne ==
  ASSUME NEW s, IsStack(s), NEW i \in 1..Len(s)
  PROVE  /\ IsStack(Without(s, i))
         /\ Len(Without(s, i)) = Len(s) - 1
         /\ \A k \in DOMAIN Without(s, i) :
              \E j \in DOMAIN s : Without(s, i)[k] = s[j]
<1> DEFINE one == 1
           before == i - 1
           after == i + 1
           a == SubSeq(s, one, before)
           b == SubSeq(s, after, Len(s))
<1>1. Len(s) \in Nat
  BY StackDomain
<1>2. /\ one \in Nat \ {0} /\ before \in 0..Len(s)
      /\ after \in Nat \ {0} /\ Len(s) \in 0..Len(s)
  BY <1>1, SMT
<1> HIDE DEF one, before, after
<1>3. IsStack(a) /\ \A k \in DOMAIN a : \E j \in DOMAIN s : a[k] = s[j]
  BY <1>2, Part
<1>4. IsStack(b) /\ \A k \in DOMAIN b : \E j \in DOMAIN s : b[k] = s[j]
  BY <1>2, Part
<1> HIDE DEF a, b
<1>0. /\ IsStack(a \o b)
      /\ DOMAIN (a \o b) = 1..(Len(a) + Len(b))
      /\ \A k \in DOMAIN a : (a \o b)[k] = a[k]
      /\ \A k \in DOMAIN (a \o b) : k > Len(a) =>
           k - Len(a) \in DOMAIN b /\ (a \o b)[k] = b[k - Len(a)]
  <2>1. IsStack(a) /\ IsStack(b)
    BY <1>3, <1>4
  <2> QED
    BY <2>1, Joined
<1>5. IsStack(a \o b) /\ Len(a \o b) = Len(s) - 1
  <2>1. Len(a) = IF one <= before THEN before - one + 1 ELSE 0
    BY <1>2, Part DEF a
  <2>2. Len(b) = IF after <= Len(s) THEN Len(s) - after + 1 ELSE 0
    BY <1>2, Part DEF b
  <2>3. Len(a \o b) = Len(a) + Len(b)
    <3>1. IsStack(a) /\ IsStack(b)
      BY <1>3, <1>4
    <3> QED
      BY <3>1, Joined
  <2>4. Len(a) = i - 1 /\ Len(b) = Len(s) - i
    BY <1>1, <2>1, <2>2, SMT DEF one, before, after
  <2> QED
    BY <1>0, <1>1, <2>3, <2>4, SMT
<1>6. ASSUME NEW k \in DOMAIN (a \o b)
      PROVE  \E j \in DOMAIN s : (a \o b)[k] = s[j]
  <2>1. DOMAIN a = 1..Len(a) /\ Len(a) \in Nat
        /\ DOMAIN (a \o b) = 1..(Len(a) + Len(b)) /\ Len(b) \in Nat
    BY <1>3, <1>4, <1>0, StackDomain, Zenon
  <2>2. CASE k \in DOMAIN a
    BY <2>2, <1>3, <1>0, Zenon
  <2>3. CASE k > Len(a)
    BY <2>3, <1>4, <1>0, Zenon
  <2> QED
    BY <2>1, <2>2, <2>3, SMT
<1> QED
  BY <1>5, <1>6 DEF Without, a, b, one, before, after

LEMMA SingleEntry ==
  ASSUME NEW w, NEW c
  PROVE  LET e == <<[witness |-> w, clause |-> c]>>
         IN  IsStack(e) /\ DOMAIN e = {1}
             /\ e[1].witness = w /\ e[1].clause = c
  BY SMT DEF IsStack
-----------------------------------------------------------------------------
(* The extension stack. *)

\* Entries that are pushed are marked with their witnesses.
LEMMA Pushed ==
  ASSUME Stack, NEW entries, Usable(entries), AllFree(entries), Push(entries)
  PROVE  /\ Stack'
         /\ NewFree
<1>1. IsStack(extension) /\ IsStack(entries)
  BY DEF Stack, Usable
<1>2. /\ extension' = extension \o entries
      /\ witness' = witness \cup Remarked(entries)
  BY DEF Push
<1>0. /\ \A i \in DOMAIN extension : extension'[i] = extension[i]
      /\ \A i \in DOMAIN extension' : i > Len(extension) =>
           /\ i - Len(extension) \in DOMAIN entries
           /\ extension'[i] = entries[i - Len(extension)]
  BY <1>1, <1>2, Joined
<1>3. /\ IsStack(extension') /\ Len(extension) \in Nat
      /\ DOMAIN extension = 1..Len(extension)
      /\ DOMAIN extension' = 1..(Len(extension) + Len(entries))
      /\ Len(entries) \in Nat
  BY <1>1, <1>2, Joined, StackDomain, Zenon
<1>4. ASSUME NEW i \in DOMAIN extension, i \in DOMAIN extension'
      PROVE  /\ extension'[i].witness \cap extension'[i].clause # {}
             /\ extension'[i].witness \subseteq witness'
  <2>1. extension'[i] = extension[i]
    BY <1>0, Zenon
  <2> QED
    BY <2>1, <1>2, Zenon DEF Stack, Usable
<1>5. ASSUME NEW i \in DOMAIN extension', i > Len(extension)
      PROVE  /\ extension'[i].witness \cap extension'[i].clause # {}
             /\ extension'[i].witness \subseteq witness'
             /\ \A w \in extension'[i].witness : ~Frozen(w)
  <2>1. PICK j \in DOMAIN entries : extension'[i] = entries[j]
    BY <1>5, <1>0, Zenon
  <2>2. extension'[i].witness \subseteq Remarked(entries)
    BY <2>1, Zenon DEF Remarked
  <2> QED
    BY <2>1, <2>2, <1>2, Zenon DEF Usable, AllFree
<1>6. \A i \in DOMAIN extension' : i \in DOMAIN extension \/ i > Len(extension)
  BY <1>3, SMT
<1> QED
  BY <1>3, <1>4, <1>5, <1>6, Zenon DEF Stack, Usable, NewFree

LEMMA Popped ==
  ASSUME Stack, NEW i \in 1..Len(extension),
         extension' = Without(extension, i), witness' = witness
  PROVE  Stack' /\ NewFree
<1>1. /\ IsStack(extension')
      /\ \A k \in DOMAIN extension' :
           \E j \in DOMAIN extension : extension'[k] = extension[j]
  BY WithoutOne DEF Stack, Usable
<1>2. Stack'
  BY <1>1, Zenon DEF Stack, Usable
<1>3. Len(extension') = Len(extension) - 1
  BY WithoutOne DEF Stack, Usable
<1>4. Len(extension) \in Nat /\ DOMAIN extension' = 1..Len(extension')
  BY <1>1, StackDomain DEF Stack, Usable
<1>5. \A k \in DOMAIN extension' : ~(k > Len(extension))
  BY <1>3, <1>4, SMT
<1> QED
  BY <1>2, <1>5 DEF NewFree

LEMMA NothingPushed ==
  ASSUME Stack, UNCHANGED stackVars
  PROVE  Stack' /\ NewFree
<1>1. Len(extension) \in Nat /\ DOMAIN extension = 1..Len(extension)
  BY StackDomain DEF Stack, Usable
<1>2. \A k \in DOMAIN extension' : ~(k > Len(extension))
  BY <1>1, SMT DEF stackVars
<1>3. Stack'
  BY Zenon DEF Stack, Usable, stackVars
<1> QED
  BY <1>2, <1>3, Zenon DEF NewFree
-----------------------------------------------------------------------------
(* What a step may do to the job under way. *)

\* Between the techniques.
LEMMA IdleStep ==
  ASSUME JobInv, pc \in Idle \cup {"blocking"}, pc' \in Idle, back' \in Backs,
         UNCHANGED <<work, private>>, count' \in Nat
  PROVE  JobInv'
  BY SMT DEF JobInv, Clean, PivotFree, CoverFree, ConditionFree,
             EquivalenceFree, Idle

\* At the end of one.
LEMMA Cleared ==
  ASSUME NoJob, pc' \in Idle, back' \in Backs
  PROVE  JobInv'
  BY SMT DEF NoJob, JobInv, Clean, PivotFree, CoverFree, ConditionFree,
             EquivalenceFree, Idle

\* Within an elimination the pivot stays.
Trying == {"gates", "bounded", "add"}
LEMMA EliminationStep ==
  ASSUME JobInv, UNCHANGED <<userVars, private, back, pivot>>,
         \/ pc \in Trying /\ pc' \in Trying \cup {"backward"}
         \/ pc = "backward" /\ pc' = "backward"
  PROVE  JobInv'
  BY SMT DEF JobInv, Clean, PivotFree, CoverFree, ConditionFree,
             EquivalenceFree, Trying, Frozen, userVars

\* Vivification and instantiation.
LEMMA StrengtheningStep ==
  ASSUME JobInv, UNCHANGED <<private, back>>,
         \/ pc = "vivify" /\ pc' \in {"vivify", "last"}
         \/ pc = "last" /\ pc' = "last"
         \/ pc \in {"simplify", "instantiate"} /\ pc' = "instantiate"
              /\ UNCHANGED count
         \/ pc = "simplify" /\ pc' = "vivify"
  PROVE  JobInv'
  BY SMT DEF JobInv, Clean, PivotFree, CoverFree, ConditionFree,
             EquivalenceFree
-----------------------------------------------------------------------------
(* The steps. *)

LEMMA SameJob == UNCHANGED jobVars => UNCHANGED <<work, private, count>>
  BY DEF jobVars, markVars

\* A step that leaves the stack alone and moves between idle places.
LEMMA IdleMove ==
  ASSUME IInv, UNCHANGED stackVars, UNCHANGED <<work, private, count>>,
         pc \in Idle \cup {"blocking"}, pc' \in Idle, back' \in Backs
  PROVE  IInv' /\ NewFree
<1>1. count \in Nat
  BY SMT DEF IInv, JobInv, Clean, Idle
<1> QED
  BY <1>1, IdleStep, NothingPushed DEF IInv

LEMMA JobEnds ==
  ASSUME IInv, UNCHANGED stackVars, NoJob, pc' \in Idle, back' \in Backs
  PROVE  IInv' /\ NewFree
  BY Cleared, NothingPushed, Zenon DEF IInv

LEMMA RestoreStep ==
  ASSUME JobInv, Stack, pc = "restore", pc' \in {"restore", "propagate"},
         back' \in Backs, UNCHANGED <<work, private, count, witness>>,
         count < Len(extension), extension' = Without(extension, count + 1)
  PROVE  IInv' /\ NewFree
<1>1. count \in Nat
  BY SMT DEF JobInv, Clean
<1>2. JobInv'
  BY <1>1, IdleStep, SMT DEF Idle
<1>3. Len(extension) \in Nat
  BY StackDomain DEF Stack, Usable
<1>4. count + 1 \in 1..Len(extension)
  BY <1>1, <1>3, SMT
<1> QED
  BY <1>2, <1>4, Popped DEF IInv

LEMMA ExternalStep ==
  ASSUME IInv, External
  PROVE  IInv' /\ NewFree
<1> USE DEF Idle, Backs
<1>0. back \in Backs /\ Stack /\ JobInv
  BY DEF IInv, JobInv, Clean
<1>1. CASE Add
  <2>1. /\ pc = "user" /\ pc' \in {"user", "propagate"}
        /\ back' \in {back, "user"} /\ UNCHANGED <<stackVars, jobVars>>
    BY <1>1, Zenon DEF Add, IsCall, AddOriginal, GoTo, PropagateThen
  <2> QED
    BY <1>0, <2>1, IdleMove, SameJob, SMT
<1>2. CASE Assume \/ Freeze \/ Melt
  <2>1. pc = "user" /\ UNCHANGED <<pc, back, stackVars, jobVars>>
    BY <1>2, Zenon DEF Assume, Freeze, Melt, IsCall
  <2> QED
    BY <1>0, <2>1, IdleMove, SameJob, SMT
<1>3. CASE Solve
  <2>1. /\ pc = "user" /\ pc' \in {"answered", "propagate"}
        /\ back' \in {back, "simplify", "restore"}
        /\ UNCHANGED <<stackVars, jobVars>>
    BY <1>3, Zenon DEF Solve, IsCall, GoTo, PropagateThen
  <2> QED
    BY <1>0, <2>1, IdleMove, SameJob, SMT
<1>4. CASE Steady
  BY <1>0, <1>4, IdleMove, SameJob, SMT DEF Steady, GoTo
<1>5. CASE RestoreFlush
  <2>1. /\ pc = "restore" /\ UNCHANGED <<pc, back, work, private, count>>
        /\ UNCHANGED witness /\ count < Len(extension)
        /\ extension' = Without(extension, count + 1)
    BY <1>5 DEF RestoreFlush, Restoring, jobVars, markVars
  <2> QED
    BY <1>0, <2>1, RestoreStep
<1>6. CASE RestoreClause
  <2>1. /\ pc = "restore" /\ pc' \in {"restore", "propagate"}
        /\ back' \in {back, "restore"}
        /\ UNCHANGED <<work, private, count>>
        /\ UNCHANGED witness /\ count < Len(extension)
        /\ extension' = Without(extension, count + 1)
    BY <1>6, Zenon DEF RestoreClause, Restoring, jobVars, markVars,
                       AddOriginal, GoTo, PropagateThen
  <2> QED
    BY <1>0, <2>1, RestoreStep
<1>7. CASE RestoreKeep
  <2>1. /\ pc = "restore" /\ UNCHANGED <<pc, back, work, private, stackVars>>
        /\ count' = count + 1
    BY <1>7 DEF RestoreKeep, Restoring, markVars
  <2>2. count \in Nat
    BY <1>0, <2>1 DEF JobInv, Clean
  <2>3. JobInv'
    BY <1>0, <2>1, <2>2, IdleStep, SMT
  <2> QED
    BY <1>0, <2>1, <2>3, NothingPushed DEF IInv
<1>8. CASE Restored
  <2>1. /\ pc = "restore" /\ pc' = "propagate" /\ back' = "simplify"
        /\ UNCHANGED <<work, private, extension>> /\ count' = 0
        /\ witness' = Remarked(extension)
    BY <1>8 DEF Restored, PropagateThen, markVars
  <2>2. JobInv'
    BY <1>0, <2>1, IdleStep, SMT
  <2>3. Stack'
    BY <1>0, <2>1, Zenon DEF Stack, Usable, Remarked
  <2>4. NewFree
    <3>1. DOMAIN extension = 1..Len(extension) /\ Len(extension) \in Nat
      BY <1>0, StackDomain DEF Stack, Usable
    <3>2. \A k \in DOMAIN extension' : ~(k > Len(extension))
      BY <2>1, <3>1, SMT
    <3> QED
      BY <3>2 DEF NewFree
  <2> QED
    BY <2>2, <2>3, <2>4 DEF IInv
<1>9. CASE Propagate
  BY <1>0, <1>9, IdleMove, SameJob, SMT DEF Propagate
<1>10. CASE Propagated
  <2>1. /\ pc = "propagate" /\ pc' \in {back, "answered"}
        /\ UNCHANGED <<back, stackVars, jobVars>>
    BY <1>10, Zenon DEF Propagated
  <2> QED
    BY <1>0, <2>1, IdleMove, SameJob, SMT
<1>11. CASE Learn
  BY <1>0, <1>11, IdleMove, SameJob, Zenon DEF Learn, PropagateThen
<1>12. CASE Collect \/ Answer
  BY <1>0, <1>12, IdleMove, SameJob, Zenon DEF Collect, Answer, GoTo
<1> QED
  BY <1>1, <1>2, <1>3, <1>4, <1>5, <1>6, <1>7, <1>8, <1>9, <1>10, <1>11,
     <1>12 DEF External

\* A step of an elimination that pushes nothing.
LEMMA EliminationMove ==
  ASSUME IInv, UNCHANGED <<userVars, stackVars, private, back, pivot>>,
         \/ pc \in Trying /\ pc' \in Trying \cup {"backward"}
         \/ pc = "backward" /\ pc' = "backward"
  PROVE  IInv' /\ NewFree
  BY EliminationStep, NothingPushed, Zenon DEF IInv

LEMMA Negation ==
  ASSUME NEW l \in Lit
  PROVE  Frozen(-l) <=> Frozen(l)
<1>1. l \in Int
  BY VarAssumption, SMT DEF Lit
<1>2. Abs(-l) = Abs(l) /\ {-l, -(-l)} = {l, -l}
  BY <1>1, SMT DEF Abs
<1> QED
  BY <1>2, Zenon DEF Frozen

LEMMA WeakenStep ==
  ASSUME IInv, Weaken
  PROVE  IInv' /\ NewFree
<1>0. Stack /\ JobInv
  BY DEF IInv
<1>1. /\ pc \in Trying /\ pc' \in Trying
      /\ UNCHANGED <<userVars, private, back, pivot>>
  BY Zenon DEF Weaken, jobVars, markVars, Trying
<1>2. JobInv'
  BY <1>0, <1>1, EliminationStep, Zenon
<1>a. PICK w \in {pivot, -pivot} : \E c \in Occs(w) :
        IF Weakened(c) THEN Push(<<[witness |-> {w}, clause |-> c]>>)
        ELSE UNCHANGED stackVars
  BY Zenon DEF Weaken
<1>3. PICK c \in Occs(w) :
        IF Weakened(c) THEN Push(<<[witness |-> {w}, clause |-> c]>>)
        ELSE UNCHANGED stackVars
  BY <1>a
<1>4. w \in c
  BY DEF Occs
<1>5. ~Frozen(w)
  BY <1>0, <1>1, SMT DEF JobInv, PivotFree, Trying
<1>6. CASE Weakened(c)
  <2> DEFINE e == <<[witness |-> {w}, clause |-> c]>>
  <2>1. IsStack(e) /\ DOMAIN e = {1} /\ e[1].witness = {w} /\ e[1].clause = c
    BY SingleEntry
  <2>2. Push(e)
    BY <1>3, <1>6
  <2> HIDE DEF e
  <2>3. Usable(e) /\ AllFree(e)
    BY <2>1, <1>4, <1>5, Zenon DEF Usable, AllFree
  <2> QED
    BY <2>2, <2>3, <1>0, <1>2, Pushed, Zenon DEF IInv
<1>7. CASE ~Weakened(c)
  BY <1>3, <1>7, <1>0, <1>2, NothingPushed, Zenon DEF IInv
<1> QED
  BY <1>6, <1>7

LEMMA EliminatingStep ==
  ASSUME IInv, Eliminating
  PROVE  IInv' /\ NewFree
<1> USE DEF Trying
<1>0. back \in Backs /\ Stack /\ JobInv
  BY DEF IInv, JobInv, Clean
<1>1. CASE StartElim
  BY <1>0, <1>1, IdleMove, SameJob, SMT DEF StartElim, Start, GoTo, Idle
<1>2. CASE Try
  <2>1. PICK l \in Lit : Candidate(l) /\ pivot' = l
                 /\ count' = Cardinality(Occs(l)) + Cardinality(Occs(-l)) + bound
    BY <1>2, Zenon DEF Try
  <2>2. ~Frozen(l) /\ ~Frozen(-l)
    BY <2>1, Negation, Zenon DEF Candidate
  <2>3. /\ pc = "elim" /\ pc' = "gates"
        /\ UNCHANGED <<userVars, stackVars, back, work, private>>
    BY <1>2, Zenon DEF Try, GoTo, markVars
  <2>4. ~Frozen(pivot)' /\ ~Frozen(-pivot)'
    BY <2>1, <2>2, <2>3, SMT DEF Frozen, userVars
  <2>5. JobInv'
    BY <1>0, <2>3, <2>4, SMT DEF JobInv, Clean, PivotFree, CoverFree,
                                 ConditionFree, EquivalenceFree
  <2> QED
    BY <1>0, <2>3, <2>5, NothingPushed, Zenon DEF IInv
<1>3. CASE ElimPropagate
  <2>1. pc \in Trying \cup {"backward"} /\ UNCHANGED pc
        /\ UNCHANGED <<userVars, stackVars, private, back, pivot>>
    BY <1>3, Zenon DEF ElimPropagate, markVars
  <2> QED
    BY <2>1, EliminationMove, Zenon
<1>4. CASE FindUnit \/ FindGarbage \/ GatesFound
  <2>1. pc = "gates" /\ pc' \in {"gates", "bounded"}
        /\ UNCHANGED <<userVars, stackVars, private, back, pivot>>
    BY <1>4, Zenon DEF FindUnit, FindGarbage, GatesFound, Finding, GoTo,
                       jobVars, markVars
  <2> QED
    BY <2>1, EliminationMove, Zenon
<1>5. ASSUME NEW where \in {"bounded", "add"},
             \/ ResolveNothing(where) \/ ResolveUnit(where)
             \/ ResolveStrengthen(where)
      PROVE  IInv' /\ NewFree
  <2>1. pc \in Trying /\ UNCHANGED pc
        /\ UNCHANGED <<userVars, stackVars, private, back, pivot>>
    BY <1>5, Zenon DEF ResolveNothing, ResolveUnit, ResolveStrengthen,
                       Resolving, markVars
  <2> QED
    BY <2>1, EliminationMove, Zenon
<1>6. CASE CountResolvent \/ Bounded \/ GiveUp
  <2>1. pc \in {"gates", "bounded"} /\ pc' \in {"bounded", "add", "backward"}
        /\ UNCHANGED <<userVars, stackVars, private, back, pivot>>
    BY <1>6, Zenon DEF CountResolvent, Bounded, GiveUp, Resolving, GoTo,
                       jobVars, markVars
  <2> QED
    BY <2>1, EliminationMove, Zenon
<1>7. CASE AddResolvent \/ Eliminate
  <2>1. pc = "add" /\ pc' \in {"add", "backward"}
        /\ UNCHANGED <<userVars, stackVars, private, back, pivot>>
    BY <1>7, Zenon DEF AddResolvent, Eliminate, Resolving, GoTo, markVars
  <2> QED
    BY <2>1, EliminationMove, Zenon
<1>8. CASE Weaken
  BY <1>8, WeakenStep
<1>9. CASE \/ Dequeue \/ BackwardSatisfied \/ BackwardSkip
           \/ BackwardSubsume \/ BackwardStrengthen \/ BackwardPass
  <2>1. pc = "backward" /\ UNCHANGED pc
        /\ UNCHANGED <<userVars, stackVars, private, back, pivot>>
    BY <1>9, Zenon DEF Dequeue, BackwardSatisfied, BackwardSkip,
                       BackwardSubsume, BackwardStrengthen, BackwardPass,
                       Comparing, markVars
  <2> QED
    BY <2>1, EliminationMove, Zenon
<1>10. CASE Tried
  BY <1>0, <1>10, JobEnds, SMT DEF Tried, GoTo, Idle
<1>11. CASE ElimRoundDone
  BY <1>0, <1>11, IdleMove, SameJob, SMT
     DEF ElimRoundDone, PropagateThen, Idle, Backs
<1>12. CASE IncreaseBound
  BY <1>0, <1>12, IdleMove, SameJob, SMT DEF IncreaseBound, Idle
<1>13. CASE NextElimRound
  BY <1>0, <1>13, IdleMove, SameJob, SMT DEF NextElimRound, Idle
<1> QED
  BY <1>1, <1>2, <1>3, <1>4, <1>5, <1>6, <1>7, <1>8, <1>9, <1>10, <1>11,
     <1>12, <1>13 DEF Eliminating

\* One entry is pushed, or none.
LEMMA PushOne ==
  ASSUME Stack, NEW w, NEW c, w \cap c # {}, \A l \in w : ~Frozen(l),
         Push(<<[witness |-> w, clause |-> c]>>)
  PROVE  Stack' /\ NewFree
<1> DEFINE e == <<[witness |-> w, clause |-> c]>>
<1>1. IsStack(e) /\ DOMAIN e = {1} /\ e[1].witness = w /\ e[1].clause = c
  BY SingleEntry
<1>2. Push(e)
  OBVIOUS
<1> HIDE DEF e
<1>3. Usable(e) /\ AllFree(e)
  BY <1>1, Zenon DEF Usable, AllFree
<1> QED
  BY <1>2, <1>3, Pushed

\* The invariant of the job, one place after the other.
LEMMA BlockingPlace ==
  ASSUME JobInv, pc \in {"block", "blocking"}, pc' = "blocking",
         UNCHANGED <<back, work, private, count>>,
         ~Frozen(pivot)', ~Frozen(-pivot)', \A c \in queue' : pivot' \in c
  PROVE  JobInv'
  BY SMT DEF JobInv, Clean, PivotFree, CoverFree, ConditionFree,
             EquivalenceFree

LEMMA CoverPlace ==
  ASSUME JobInv, pc \in {"cover", "covering"}, pc' \in {"covering", "covered"},
         UNCHANGED <<back, count>>, CoverFree'
  PROVE  JobInv'
  BY SMT DEF JobInv, Clean, PivotFree, ConditionFree, EquivalenceFree

LEMMA ConditionPlace ==
  ASSUME JobInv, pc \in {"simplify", "condition", "conditioning"},
         pc' = "conditioning" \/ (pc' = "condition" /\ work' = {}),
         UNCHANGED <<back, count, private>>, ConditionFree'
  PROVE  JobInv'
  BY SMT DEF JobInv, Clean, PivotFree, CoverFree, EquivalenceFree

LEMMA IsAStack ==
  ASSUME NEW u, NEW n \in Nat, u \in [1..n -> {u[i] : i \in DOMAIN u}]
  PROVE  IsStack(u)
  BY SeqDef, Zenon DEF IsStack

LEMMA Appended ==
  ASSUME NEW s, IsStack(s), NEW e
  PROVE  /\ IsStack(Append(s, e))
         /\ \A i \in DOMAIN Append(s, e) :
              \/ i \in DOMAIN s /\ Append(s, e)[i] = s[i]
              \/ Append(s, e)[i] = e
<1> DEFINE S == {s[i] : i \in DOMAIN s} \cup {e}
           u == Append(s, e)
<1>1. s \in Seq(S) /\ e \in S
  BY SeqMonotonic, Zenon DEF IsStack
<1> HIDE DEF S
<1>2. /\ u \in Seq(S) /\ Len(u) = Len(s) + 1
      /\ \A i \in 1..Len(s) : u[i] = s[i]
      /\ u[Len(s) + 1] = e
  BY <1>1, AppendProperties
<1> HIDE DEF u
<1>3. Len(s) \in Nat /\ DOMAIN s = 1..Len(s)
  BY StackDomain
<1>4. Len(u) \in Nat /\ u \in [1..Len(u) -> S] /\ DOMAIN u = 1..Len(u)
  BY <1>2, LenProperties
<1>5. u \in [1..Len(u) -> {u[i] : i \in DOMAIN u}]
  BY <1>4, Zenon
<1>6. IsStack(u)
  BY <1>4, <1>5, IsAStack, Zenon
<1>7. \A i \in DOMAIN u : i \in 1..Len(s) \/ i = Len(s) + 1
  BY <1>2, <1>3, <1>4, SMT
<1>8. \A i \in DOMAIN u : (i \in DOMAIN s /\ u[i] = s[i]) \/ u[i] = e
  BY <1>2, <1>3, <1>7, Zenon
<1> QED
  BY <1>6, <1>8 DEF u

\* The entries cover pushes are those it prepared, with more literals.
LEMMA EntriesFree ==
  ASSUME CoverFree, pc \in {"covering", "covered"}
  PROVE  Usable(Entries1) /\ AllFree(Entries1)
<1>0. /\ Usable(private) /\ AllFree(private)
      /\ \A i \in DOMAIN private : private[i] =
           [witness |-> private[i].witness, clause |-> private[i].clause]
  BY DEF CoverFree
<1> DEFINE e == Entries1
<1>1. DOMAIN e = DOMAIN private
  BY DEF Entries1
<1>2. ASSUME NEW i \in DOMAIN private
      PROVE  /\ e[i].witness = private[i].witness
             /\ private[i].clause \subseteq e[i].clause
  <2> DEFINE w == private[i].witness
             c == private[i].clause
             d == IF i < Len(private) THEN c \cup (cand \ Rest(cand)) ELSE c
  <2>1. private[i] = [witness |-> w, clause |-> c]
    BY <1>0
  <2>2. e[i] = [private[i] EXCEPT !.clause = d]
    BY DEF Entries1
  <2>3. c \subseteq d
    BY Zenon
  <2> HIDE DEF w, c, d
  <2>4. e[i] = [witness |-> w, clause |-> d]
    BY <2>1, <2>2
  <2>5. e[i].witness = w /\ e[i].clause = d
    BY <2>4
  <2> QED
    BY <2>3, <2>5 DEF w, c
<1>3. DOMAIN private = 1..Len(private) /\ Len(private) \in Nat
  BY <1>0, StackDomain DEF Usable
<1>4. e = [i \in DOMAIN e |-> e[i]]
  BY DEF Entries1
<1> HIDE DEF e
<1>5. e \in [1..Len(private) -> {e[i] : i \in DOMAIN e}]
  BY <1>1, <1>3, <1>4, Zenon
<1>6. IsStack(e)
  BY <1>3, <1>5, IsAStack, Zenon
<1>7. Usable(e) /\ AllFree(e)
  BY <1>0, <1>1, <1>2, <1>6, Zenon DEF Usable, AllFree
<1> QED
  BY <1>7 DEF e

LEMMA BlockSteps ==
  ASSUME IInv, StartBlock \/ BlockLiteral \/ BlockClause \/ LiteralBlocked
  PROVE  IInv' /\ NewFree
<1>0. back \in Backs /\ Stack /\ JobInv
  BY DEF IInv, JobInv, Clean
<1>1. CASE StartBlock
  <2>1. /\ pc = "simplify" /\ pc' = "block" /\ UNCHANGED back
        /\ UNCHANGED stackVars /\ UNCHANGED <<work, private, count>>
    BY <1>1, Zenon DEF StartBlock, Start, GoTo
  <2> QED
    BY <1>0, <2>1, IdleMove, SMT DEF Idle
<1>2. CASE BlockLiteral
  <2>1. PICK l \in Lit : /\ ~Frozen(l) /\ pivot' = l
          /\ queue' = IF Occs(-l) = {} THEN Occs(l)
                      ELSE IF Cardinality(Occs(-l)) = 1 THEN BlockedByOne(l)
                      ELSE BlockedByMany(l)
    BY <1>2, Zenon DEF BlockLiteral
  <2>2. ~Frozen(-l)
    BY <2>1, Negation
  <2>3. /\ pc = "block" /\ pc' = "blocking"
        /\ UNCHANGED <<userVars, stackVars, back, work, private, count>>
    BY <1>2, Zenon DEF BlockLiteral, GoTo, markVars
  <2>4. ~Frozen(pivot)' /\ ~Frozen(-pivot)'
    BY <2>1, <2>2, <2>3, SMT DEF Frozen, userVars
  <2>5. queue' \subseteq Occs(l)
    BY <2>1, Zenon DEF BlockedByOne, BlockedByMany, BlockCandidates
  <2>6. \A c \in queue' : pivot' \in c
    BY <2>1, <2>5 DEF Occs
  <2>7. JobInv'
    BY <1>0, <2>3, <2>4, <2>6, BlockingPlace, SMT
  <2> QED
    BY <1>0, <2>3, <2>7, NothingPushed, Zenon DEF IInv
<1>3. CASE BlockClause
  <2>1. PICK c \in queue : /\ Push(<<[witness |-> {pivot}, clause |-> c]>>)
                           /\ queue' = queue \ {c}
    BY <1>3, Zenon DEF BlockClause
  <2>2. /\ pc = "blocking" /\ pc' = "blocking"
        /\ UNCHANGED <<userVars, back, work, private, count, pivot>>
    BY <1>3, Zenon DEF BlockClause, markVars
  <2>3. ~Frozen(pivot) /\ ~Frozen(-pivot) /\ \A d \in queue : pivot \in d
    BY <1>0, <2>2, SMT DEF JobInv, PivotFree
  <2>4. Stack' /\ NewFree
    <3>1. {pivot} \cap c # {} /\ \A l \in {pivot} : ~Frozen(l)
      BY <2>3, Zenon
    <3> QED
      BY <1>0, <2>1, <3>1, PushOne
  <2>5. ~Frozen(pivot)' /\ ~Frozen(-pivot)' /\ \A d \in queue' : pivot' \in d
    BY <2>1, <2>2, <2>3, SMT DEF Frozen, userVars
  <2>6. JobInv'
    BY <1>0, <2>2, <2>5, BlockingPlace, SMT
  <2> QED
    BY <2>4, <2>6 DEF IInv
<1>4. CASE LiteralBlocked
  <2>1. /\ pc = "blocking" /\ pc' = "block" /\ UNCHANGED back
        /\ UNCHANGED stackVars /\ UNCHANGED <<work, private, count>>
    BY <1>4, Zenon DEF LiteralBlocked, GoTo, markVars
  <2> QED
    BY <1>0, <2>1, IdleMove, SMT DEF Idle
<1> QED
  BY <1>1, <1>2, <1>3, <1>4

LEMMA CoverSteps ==
  ASSUME IInv, \/ StartCover \/ CoverClause \/ CoverAsymmetric
               \/ CoverLiteral \/ ClauseCovered
  PROVE  IInv' /\ NewFree
<1>0. back \in Backs /\ Stack /\ JobInv
  BY DEF IInv, JobInv, Clean
<1>1. CASE StartCover
  <2>1. /\ pc = "simplify" /\ pc' = "cover" /\ UNCHANGED back
        /\ UNCHANGED stackVars /\ UNCHANGED <<work, private, count>>
    BY <1>1, Zenon DEF StartCover, Start, GoTo, markVars
  <2> QED
    BY <1>0, <2>1, IdleMove, SMT DEF Idle
<1>2. CASE CoverClause
  <2>1. /\ pc = "cover" /\ pc' = "covering" /\ work' = marked'
        /\ UNCHANGED <<stackVars, back, private, count>>
    BY <1>2, Zenon DEF CoverClause, GoTo
  <2>2. private' = <<>>
    BY <1>0, <2>1, SMT DEF JobInv, Clean
  <2>3. DOMAIN (<<>>) = {} /\ IsStack(<<>>)
    BY SMT DEF IsStack
  <2>4. CoverFree'
    BY <2>1, <2>2, <2>3, Zenon DEF CoverFree, Usable, AllFree
  <2>5. JobInv'
    BY <1>0, <2>1, <2>4, CoverPlace, SMT
  <2> QED
    BY <1>0, <2>1, <2>5, NothingPushed, Zenon DEF IInv
<1>3. CASE CoverAsymmetric
  <2>1. /\ pc = "covering" /\ pc' = "covering" /\ work' = marked'
        /\ UNCHANGED <<userVars, stackVars, back, private, count>>
    BY <1>3, Zenon DEF CoverAsymmetric
  <2>2. Usable(private) /\ AllFree(private)
        /\ \A i \in DOMAIN private : private[i] =
             [witness |-> private[i].witness, clause |-> private[i].clause]
    BY <1>0, <2>1, SMT DEF JobInv, CoverFree
  <2>3. AllFree(private)'
    BY <2>1, <2>2, Zenon DEF AllFree, Frozen, userVars
  <2>4. CoverFree'
    BY <2>1, <2>2, <2>3, Zenon DEF CoverFree, Usable
  <2>5. JobInv'
    BY <1>0, <2>1, <2>4, CoverPlace, SMT
  <2> QED
    BY <1>0, <2>1, <2>5, NothingPushed, Zenon DEF IInv
<1>4. CASE CoverLiteral
  <2>1. PICK l \in work :
          \/ work' = work \ {l} /\ UNCHANGED <<marked, private, pc, back>>
          \/ /\ ~Frozen(l) /\ private' = Append(private, Covered(l))
             /\ marked' = marked \cup InCommon(l) /\ work' = marked'
             /\ pc' \in {"covered", pc} /\ UNCHANGED back
    BY <1>4, Zenon DEF CoverLiteral, GoTo
  <2>2. /\ pc = "covering" /\ UNCHANGED <<userVars, stackVars, count>>
    BY <1>4, Zenon DEF CoverLiteral
  <2>3. Usable(private) /\ AllFree(private) /\ work \subseteq marked
        /\ \A i \in DOMAIN private : private[i] =
             [witness |-> private[i].witness, clause |-> private[i].clause]
    BY <1>0, <2>2, SMT DEF JobInv, CoverFree
  <2>4. CASE work' = work \ {l} /\ UNCHANGED <<marked, private, pc, back>>
    <3>1. AllFree(private)'
      BY <2>2, <2>3, <2>4, Zenon DEF AllFree, Frozen, userVars
    <3>2. CoverFree'
      BY <2>3, <2>4, <3>1, Zenon DEF CoverFree, Usable
    <3>3. JobInv'
      BY <1>0, <2>2, <2>4, <3>2, CoverPlace, SMT
    <3> QED
      BY <1>0, <2>2, <3>3, NothingPushed, Zenon DEF IInv
  <2>5. CASE /\ ~Frozen(l) /\ private' = Append(private, Covered(l))
             /\ marked' = marked \cup InCommon(l) /\ work' = marked'
             /\ pc' \in {"covered", pc} /\ UNCHANGED back
    <3> DEFINE e == Covered(l)
    <3>1. e.witness = {l} /\ l \in e.clause
          /\ e = [witness |-> e.witness, clause |-> e.clause]
      BY <2>3, SMT DEF Covered
    <3>2. ~Frozen(l)'
      BY <2>2, <2>5, Zenon DEF Frozen, userVars
    <3>3. private' = Append(private, e)
      BY <2>5
    <3> HIDE DEF e
    <3>4. /\ IsStack(private')
          /\ \A i \in DOMAIN private' :
               (i \in DOMAIN private /\ private'[i] = private[i])
                 \/ private'[i] = e
      BY <2>3, <3>3, Appended DEF Usable
    <3>5. Usable(private)'
      BY <2>3, <3>1, <3>4, Zenon DEF Usable
    <3>6. \A i \in DOMAIN private : \A w \in private[i].witness : ~Frozen(w)'
      BY <2>2, <2>3, Zenon DEF AllFree, Frozen, userVars
    <3>7. AllFree(private)'
      BY <3>1, <3>2, <3>4, <3>6, Zenon DEF AllFree
    <3>8. \A i \in DOMAIN private' : private'[i] =
             [witness |-> private'[i].witness, clause |-> private'[i].clause]
      BY <2>3, <3>1, <3>4, Zenon
    <3>9. CoverFree'
      BY <2>5, <3>5, <3>7, <3>8, Zenon DEF CoverFree
    <3>10. JobInv'
      BY <1>0, <2>2, <2>5, <3>9, CoverPlace, SMT
    <3> QED
      BY <1>0, <2>2, <3>10, NothingPushed, Zenon DEF IInv
  <2> QED
    BY <2>1, <2>4, <2>5, Zenon
<1>5. CASE ClauseCovered
  <2>1. /\ pc \in {"covering", "covered"} /\ pc' = "cover"
        /\ work' = {} /\ private' = <<>> /\ UNCHANGED <<back, count>>
        /\ Push(Entries1) \/ UNCHANGED stackVars
    BY <1>5, Zenon DEF ClauseCovered, GoTo
  <2>2. JobInv'
    BY <1>0, <2>1, SMT DEF JobInv, Clean, PivotFree, CoverFree,
                           ConditionFree, EquivalenceFree
  <2>3. Usable(Entries1) /\ AllFree(Entries1)
    BY <1>0, <2>1, EntriesFree DEF JobInv
  <2>4. Stack' /\ NewFree
    <3>1. CASE Push(Entries1)
      BY <1>0, <2>3, <3>1, Pushed
    <3>2. CASE UNCHANGED stackVars
      BY <1>0, <3>2, NothingPushed
    <3> QED
      BY <2>1, <3>1, <3>2
  <2> QED
    BY <2>2, <2>4 DEF IInv
<1> QED
  BY <1>1, <1>2, <1>3, <1>4, <1>5

LEMMA ConditionSteps ==
  ASSUME IInv, \/ StartCondition \/ ConditionClause \/ ConditionUnassign
               \/ ConditionDone
  PROVE  IInv' /\ NewFree
<1>0. back \in Backs /\ Stack /\ JobInv
  BY DEF IInv, JobInv, Clean
<1>1. CASE StartCondition
  <2>1. PICK neg \in SUBSET {v \in Var : Active(v) /\ ~Frozen(v)} :
          trail' = Negated(neg) \cup
                   {v \in Var : Active(v) /\ ~Frozen(v) /\ v \notin neg}
    BY <1>1, Zenon DEF StartCondition
  <2>2. /\ pc = "simplify" /\ pc' = "condition"
        /\ UNCHANGED <<userVars, stackVars, back, work, private, count>>
    BY <1>1, Zenon DEF StartCondition, Start, GoTo
  <2>3. \A v \in Var : ~Frozen(v) => ~Frozen(-v)
    <3>1. \A v \in Var : v \in Lit
      BY DEF Lit
    <3> QED
      BY <3>1, Negation
  <2>4. \A l \in trail' : ~Frozen(l)
    BY <2>1, <2>3, Zenon DEF Negated
  <2>5. work' = {}
    BY <1>0, <2>2, SMT DEF JobInv, Clean
  <2>6. \A l \in (trail \cup work)' : ~Frozen(l)'
    BY <2>2, <2>4, <2>5, Zenon DEF Frozen, userVars
  <2>7. JobInv'
    BY <1>0, <2>2, <2>5, <2>6, ConditionPlace, SMT DEF ConditionFree
  <2> QED
    BY <1>0, <2>2, <2>7, NothingPushed, Zenon DEF IInv
<1>2. CASE ConditionClause \/ ConditionUnassign
  <2>1. /\ pc \in {"condition", "conditioning"} /\ pc' = "conditioning"
        /\ UNCHANGED <<userVars, stackVars, back, private, count>>
    BY <1>2, Zenon DEF ConditionClause, ConditionUnassign, GoTo, markVars
  <2>2. \A l \in trail \cup work : ~Frozen(l)
    BY <1>0, <2>1, SMT DEF JobInv, ConditionFree
  <2>3. (trail \cup work)' \subseteq trail \cup work
    BY <1>2, Zenon DEF ConditionClause, ConditionUnassign, Unassignable,
                       markVars
  <2>4. \A l \in (trail \cup work)' : ~Frozen(l)'
    BY <2>1, <2>2, <2>3, Zenon DEF Frozen, userVars
  <2>5. JobInv'
    BY <1>0, <2>1, <2>4, ConditionPlace, SMT DEF ConditionFree
  <2> QED
    BY <1>0, <2>1, <2>5, NothingPushed, Zenon DEF IInv
<1>3. CASE ConditionDone
  <2>1. /\ pc = "conditioning" /\ pc' = "condition" /\ work' = {}
        /\ trail' = trail \cup work
        /\ UNCHANGED <<userVars, back, private, count>>
        /\ \/ /\ cand \cap Autarky # {}
              /\ Push(<<[witness |-> Autarky, clause |-> cand]>>)
           \/ UNCHANGED stackVars
    BY <1>3, Zenon DEF ConditionDone, GoTo
  <2>2. \A l \in trail \cup work : ~Frozen(l)
    BY <1>0, <2>1, SMT DEF JobInv, ConditionFree
  <2>3. \A l \in (trail \cup work)' : ~Frozen(l)'
    BY <2>1, <2>2, Zenon DEF Frozen, userVars
  <2>4. JobInv'
    BY <1>0, <2>1, <2>3, ConditionPlace, SMT DEF ConditionFree
  <2>5. Stack' /\ NewFree
    <3>1. CASE /\ cand \cap Autarky # {}
               /\ Push(<<[witness |-> Autarky, clause |-> cand]>>)
      <4>1. Autarky \cap cand # {} /\ \A l \in Autarky : ~Frozen(l)
        BY <2>2, <3>1, Zenon DEF Autarky
      <4> QED
        BY <1>0, <3>1, <4>1, PushOne
    <3>2. CASE UNCHANGED stackVars
      BY <1>0, <3>2, NothingPushed
    <3> QED
      BY <2>1, <3>1, <3>2
  <2> QED
    BY <2>4, <2>5 DEF IInv
<1> QED
  BY <1>1, <1>2, <1>3

LEMMA BlocksStep ==
  ASSUME IInv, Blocks
  PROVE  IInv' /\ NewFree
<1>0. back \in Backs
  BY DEF IInv, JobInv, Clean
<1>1. CASE BlockDone \/ RoundDone
  BY <1>0, <1>1, JobEnds, SMT DEF BlockDone, RoundDone, GoTo, Idle
<1> QED
  BY <1>1, BlockSteps, CoverSteps, ConditionSteps DEF Blocks

LEMMA Pair ==
  ASSUME NEW a, NEW b
  PROVE  IsStack(<<a, b>>)
<1> DEFINE s == <<a, b>>
<1>1. DOMAIN s = 1..2 /\ s[1] = a /\ s[2] = b
  BY SMT
<1>2. s = [i \in 1..2 |-> s[i]]
  BY SMT
<1> HIDE DEF s
<1>3. s \in [1..2 -> {s[i] : i \in DOMAIN s}]
  BY <1>1, <1>2, Zenon
<1>4. 2 \in Nat
  OBVIOUS
<1>5. IsStack(s)
  BY <1>3, <1>4, IsAStack, Zenon
<1> QED
  BY <1>5 DEF s

LEMMA DecomposeSteps ==
  ASSUME IInv, \/ StartDecompose \/ PushEquivalence \/ SubstituteClause
               \/ ClausesSubstituted
  PROVE  IInv' /\ NewFree
<1>0. back \in Backs /\ Stack /\ JobInv
  BY DEF IInv, JobInv, Clean
<1>1. CASE StartDecompose
  <2>1. /\ pc = "simplify" /\ pc' = "represent"
        /\ UNCHANGED <<userVars, stackVars, back, private, count>>
        /\ reprs' = [l \in Lit |-> Repr(l)]
        /\ work' = {v \in Var : reprs'[v] # v}
    BY <1>1, Zenon DEF StartDecompose, Start, GoTo
  <2>2. ASSUME NEW v \in work'
        PROVE  ~Frozen(v)' /\ ~Frozen(-v)'
    <3>1. v \in Lit /\ Repr(v) # v
      BY <2>1, <2>2 DEF Lit
    <3>2. ~Frozen(v)
      BY <3>1, Zenon DEF Repr
    <3>3. ~Frozen(-v)
      BY <3>1, <3>2, Negation
    <3> QED
      BY <2>1, <3>2, <3>3, Zenon DEF Frozen, userVars
  <2>3. EquivalenceFree'
    BY <2>2, Zenon DEF EquivalenceFree
  <2>4. JobInv'
    BY <1>0, <2>1, <2>3, SMT DEF JobInv, Clean, PivotFree, CoverFree,
                                 ConditionFree
  <2> QED
    BY <1>0, <2>1, <2>4, NothingPushed, Zenon DEF IInv
<1>2. CASE PushEquivalence
  <2>1. PICK v \in work : Push(EquivalenceEntries(v)) /\ work' = work \ {v}
    BY <1>2, Zenon DEF PushEquivalence
  <2>2. /\ pc = "represent" /\ pc' = "represent"
        /\ UNCHANGED <<userVars, back, private, count>>
    BY <1>2, Zenon DEF PushEquivalence, markVars
  <2>3. \A u \in work : ~Frozen(u) /\ ~Frozen(-u)
    BY <1>0, <2>2, SMT DEF JobInv, EquivalenceFree
  <2>4. \A u \in work' : ~Frozen(u)' /\ ~Frozen(-u)'
    BY <2>1, <2>2, <2>3, Zenon DEF Frozen, userVars
  <2>5. JobInv'
    BY <1>0, <2>2, <2>4, SMT DEF JobInv, Clean, PivotFree, CoverFree,
                                 ConditionFree, EquivalenceFree
  <2> DEFINE e == EquivalenceEntries(v)
  <2>6. /\ DOMAIN e = {1, 2}
        /\ e[1].witness = {-v} /\ -v \in e[1].clause
        /\ e[2].witness = {v} /\ v \in e[2].clause
    BY SMT DEF EquivalenceEntries
  <2>7. IsStack(e)
    BY Pair DEF EquivalenceEntries
  <2>8. Push(e)
    BY <2>1
  <2> HIDE DEF e
  <2>9. Usable(e)
    <3>1. \A i \in DOMAIN e : e[i].witness \cap e[i].clause # {}
      BY <2>6, SMT
    <3> QED
      BY <2>7, <3>1, Zenon DEF Usable
  <2>10. AllFree(e)
    <3>1. ~Frozen(v) /\ ~Frozen(-v)
      BY <2>1, <2>3
    <3> QED
      BY <2>6, <3>1, SMT DEF AllFree
  <2> QED
    BY <1>0, <2>5, <2>8, <2>9, <2>10, Pushed DEF IInv
<1>3. CASE SubstituteClause
  <2>1. /\ pc = "represent" /\ pc' = "represent"
        /\ UNCHANGED <<userVars, stackVars, back, work, private, count>>
    BY <1>3, Zenon DEF SubstituteClause, markVars
  <2>2. EquivalenceFree'
    <3>1. \A v \in work : ~Frozen(v) /\ ~Frozen(-v)
      BY <1>0, <2>1, SMT DEF JobInv, EquivalenceFree
    <3>2. \A v \in work' : ~Frozen(v)' /\ ~Frozen(-v)'
      BY <2>1, <3>1, Zenon DEF Frozen, userVars
    <3> QED
      BY <3>2, Zenon DEF EquivalenceFree
  <2>3. JobInv'
    BY <1>0, <2>1, <2>2, SMT DEF JobInv, Clean, PivotFree, CoverFree,
                                 ConditionFree
  <2> QED
    BY <1>0, <2>1, <2>3, NothingPushed, Zenon DEF IInv
<1>4. CASE ClausesSubstituted
  <2>1. /\ pc = "represent" /\ pc' = "propagate" /\ back' = "substituted"
        /\ work = {} /\ UNCHANGED <<stackVars, work, private, count>>
    BY <1>4, Zenon DEF ClausesSubstituted, PropagateThen, jobVars, markVars
  <2>2. JobInv'
    BY <1>0, <2>1, SMT DEF JobInv, Clean, PivotFree, CoverFree,
                           ConditionFree, EquivalenceFree, Backs
  <2> QED
    BY <1>0, <2>1, <2>2, NothingPushed, Zenon DEF IInv
<1> QED
  BY <1>1, <1>2, <1>3, <1>4

LEMMA ReducesStep ==
  ASSUME IInv, Reduces
  PROVE  IInv' /\ NewFree
<1>0. back \in Backs
  BY DEF IInv, JobInv, Clean
<1>1. CASE \/ Contradiction \/ Ternary \/ Deduplicate \/ HyperUnary
           \/ Transitive \/ TransitiveFailed
  <2>1. /\ pc = "simplify" /\ pc' \in {"simplify", "propagate"}
        /\ back' \in {back, "simplify"} /\ UNCHANGED <<stackVars, jobVars>>
    BY <1>1, Zenon DEF Contradiction, Ternary, Deduplicate, HyperUnary,
                       Transitive, TransitiveFailed, Start1, Start, GoTo,
                       PropagateThen
  <2> QED
    BY <1>0, <2>1, IdleMove, SameJob, SMT DEF Idle, Backs
<1>2. CASE Substituted \/ Probed
  <2>1. /\ NoJob /\ UNCHANGED stackVars
        /\ pc' \in {"simplify", "propagate"} /\ back' \in {back, "simplify"}
    BY <1>2, Zenon DEF Substituted, Probed, GoTo, PropagateThen
  <2> QED
    BY <1>0, <2>1, JobEnds, SMT DEF Idle, Backs
<1>3. CASE FailedLiteral
  BY <1>3, JobEnds, SMT DEF FailedLiteral, PropagateThen, Idle, Backs
<1>4. CASE StartProbe \/ ProbeBinary \/ ProbeLong
  <2>1. /\ pc \in {"simplify", "probe"} /\ pc' = "probe" /\ UNCHANGED back
        /\ UNCHANGED stackVars /\ UNCHANGED <<work, private, count>>
    BY <1>4, Zenon DEF StartProbe, ProbeBinary, ProbeLong, Probing, Start, GoTo
  <2> QED
    BY <1>0, <2>1, IdleMove, SMT DEF Idle
<1> QED
  BY <1>1, <1>2, <1>3, <1>4, DecomposeSteps DEF Reduces

LEMMA StrengthensStep ==
  ASSUME IInv, Strengthens
  PROVE  IInv' /\ NewFree
<1>0. back \in Backs /\ Stack /\ JobInv
  BY DEF IInv, JobInv, Clean
<1>1. CASE Subsume \/ Strengthen \/ VivifyFlush \/ VivifySatisfied
  <2>1. /\ pc = "simplify" /\ pc' = "simplify" /\ UNCHANGED back
        /\ UNCHANGED <<stackVars, jobVars>>
    BY <1>1, Zenon DEF Subsume, Strengthen, VivifyFlush, VivifySatisfied,
                       Start1, Start, GoTo
  <2> QED
    BY <1>0, <2>1, IdleMove, SameJob, SMT DEF Idle
<1>2. CASE \/ StartVivify \/ ImplyTrail \/ VivifyDecide \/ VivifyImplied
           \/ VivifyLast \/ Instantiate
  <2>1. /\ UNCHANGED stackVars /\ UNCHANGED <<private, back>>
        /\ \/ pc = "vivify" /\ pc' \in {"vivify", "last"}
           \/ pc = "last" /\ pc' = "last"
           \/ /\ pc \in {"simplify", "instantiate"} /\ pc' = "instantiate"
              /\ UNCHANGED count
           \/ pc = "simplify" /\ pc' = "vivify"
    BY <1>2, Zenon DEF StartVivify, ImplyTrail, VivifyDecide, VivifyImplied,
                       VivifyLast, Instantiate, Start, GoTo, markVars
  <2>2. JobInv'
    BY <1>0, <2>1, StrengtheningStep
  <2> QED
    BY <1>0, <2>1, <2>2, NothingPushed DEF IInv
<1>3. CASE VivifySubsume \/ VivifyKeep \/ Instantiated
  <2>1. NoJob /\ pc' = "simplify" /\ UNCHANGED back /\ UNCHANGED stackVars
    BY <1>3, Zenon DEF VivifySubsume, VivifyKeep, Instantiated, GoTo
  <2> QED
    BY <1>0, <2>1, JobEnds DEF Idle
<1>4. CASE VivifyLearn \/ VivifyRemove
  <2>1. NoJob /\ pc' = "propagate" /\ back' = "simplify"
        /\ UNCHANGED stackVars
    BY <1>4, Zenon DEF VivifyLearn, VivifyRemove, VivifyStrengthen,
                       PropagateThen
  <2> QED
    BY <2>1, JobEnds DEF Idle, Backs
<1> QED
  BY <1>1, <1>2, <1>3, <1>4 DEF Strengthens
-----------------------------------------------------------------------------
(* The theorems. *)

LEMMA Start0 == Init => IInv
<1> SUFFICES ASSUME Init PROVE IInv
  OBVIOUS
<1>1. pc = "user" /\ back = "user" /\ work = {} /\ private = <<>> /\ count = 0
      /\ extension = <<>>
  BY DEF Init
<1>2. JobInv
  BY <1>1, SMT DEF JobInv, Clean, PivotFree, CoverFree, ConditionFree,
                   EquivalenceFree, Backs
<1>3. DOMAIN (<<>>) = {} /\ IsStack(<<>>)
  BY SMT DEF IsStack
<1>4. Stack
  BY <1>1, <1>3, Zenon DEF Stack, Usable
<1> QED
  BY <1>2, <1>4 DEF IInv

LEMMA NextStep ==
  ASSUME IInv, [Next]_vars
  PROVE  IInv' /\ NewFree
<1>1. CASE Next
  BY <1>1, ExternalStep, EliminatingStep, BlocksStep, ReducesStep,
     StrengthensStep DEF Next
<1>2. CASE UNCHANGED vars
  <2>1. UNCHANGED <<userVars, stackVars, pc, back, pivot, queue, work, trail,
                    marked, private, count>>
    BY <1>2, Zenon DEF vars, jobVars, markVars
  <2>2. JobInv'
    BY <2>1, Zenon DEF IInv, JobInv, Clean, PivotFree, CoverFree, ConditionFree,
                EquivalenceFree, Usable, AllFree, Frozen, userVars
  <2> QED
    BY <2>1, <2>2, NothingPushed DEF IInv
<1> QED
  BY <1>1, <1>2

(* Every entry of the extension stack can be used: its witness satisfies its
   clause and is marked, so that a later use of its negation is noticed. *)
THEOREM StackAlwaysUsable == Spec => []StackConsistent
<1>1. IInv => StackConsistent
  BY Zenon DEF IInv, Stack, Usable, StackConsistent
<1>2. IInv /\ [Next]_vars => IInv'
  BY NextStep
<1> QED
  BY <1>1, <1>2, Start0, PTL DEF Spec

(* No technique takes a frozen or an assumed variable as a witness. *)
THEOREM FrozenNeverWitness == Spec => WitnessNotFrozen
<1>1. IInv /\ [Next]_vars => IInv'
  BY NextStep
<1>2. IInv /\ [Next]_vars => NewFree
  BY NextStep
<1>3. Spec => [][NewFree]_vars
  BY <1>1, <1>2, Start0, PTL DEF Spec
<1> QED
  BY <1>3 DEF WitnessNotFrozen, NewFree
=============================================================================
