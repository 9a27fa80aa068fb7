------------------------ MODULE DecisionQueueProofs ------------------------
(***************************************************************************)
(* The decision queue is a well-formed list in the order of the stamps,    *)
(* the lazily updated pointer hides no unassigned variable, a decision is  *)
(* the best unassigned variable, and the queue implements DecisionOrder.   *)
(***************************************************************************)
EXTENDS DecisionQueue, FunctionTheorems, FiniteSetTheorems, TLAPS

(* The pointer and the stamp cached with it.  The stamp may be larger than
   that of the variable pointed to, after compaction, or smaller, when this
   variable was bumped while assigned. *)
PointerInv ==
  /\ bumped <= stamp
  /\ IF queued = {} THEN unassigned = 0 ELSE unassigned \in queued
  /\ \A v \in free : btab[v] <= bumped
  /\ \A v \in queued : btab[v] <= bumped => btab[v] <= btab[unassigned]
  /\ pc \notin {"analyze", "backtrack"} /\ queued # {} => btab[first] <= bumped

WalkInv == pc = "walk" =>
  /\ free # {} /\ idx \in queued
  /\ \A v \in free : btab[v] <= btab[idx]

(* The part of the queue DLIS has gone over. *)
Seen(v) == idx = 0 \/ btab[idx] < btab[v]
NoBetter(v, w) == \/ Score(v) < Score(w)
                  \/ Score(v) = Score(w) /\ btab[v] <= btab[w]
DlisInv == pc = "dlis" =>
  /\ free # {} /\ idx \in queued \cup {0}
  /\ best = 0 => \A v \in free : ~Seen(v)
  /\ best # 0 => /\ best \in free /\ Seen(best)
                 /\ \A v \in free : Seen(v) => NoBetter(v, best)

IdleInv ==
  /\ pc # "decided" => decision = 0
  /\ pc # "dlis" => best = 0
  /\ pc \notin {"dlis", "decided"} => occs = None
  /\ pc # "analyze" => analyzed = {}

QInv == /\ TypeOK /\ Linked /\ PointerInv
        /\ WalkInv /\ DlisInv /\ IdleInv /\ DecisionIsBest

-----------------------------------------------------------------------------
(* The variables. *)
LEMMA Variables == Var \subseteq Nat \ {0} /\ 0 \notin Var /\ IsFiniteSet(Var)
BY VarAssumption

LEMMA QueueTypes ==
  ASSUME TypeOK
  PROVE  /\ free \subseteq queued /\ queued \subseteq Var /\ queued \subseteq live
         /\ live \subseteq Var /\ 0 \notin live /\ hole \in fixed \cup {0}
         /\ \A v \in Var : btab[v] \in Int /\ v # 0
         /\ stamp \in Int /\ bumped \in Int
BY Variables DEF TypeOK, free, queued

(* The queue is empty at first. *)
LEMMA InitInv == Init => QInv
<1> SUFFICES ASSUME Init PROVE QInv
  OBVIOUS
<1> USE DEF Init
<1>1. queued = {} /\ free = {}
  BY DEF queued, free
<1>2. TypeOK
  BY BoundAssumption DEF TypeOK, None
<1>3. Linked
  BY <1>1 DEF Linked
<1>4. PointerInv
  BY <1>1 DEF PointerInv
<1> QED
  BY <1>2, <1>3, <1>4 DEF QInv, WalkInv, DlisInv, IdleInv, DecisionIsBest

(* Steps that do not touch the list leave it well-formed. *)
LEMMA LinkedFrame ==
  ASSUME Linked, UNCHANGED <<live, hole, linkVars, btab, stamp>>
  PROVE  Linked' /\ queued' = queued
BY DEF Linked, queued, Pred, Succ, Nearest, linkVars

LEMMA AssignInv == ASSUME QInv, Assign PROVE QInv'
<1> USE DEF Assign, QInv
<1>1. PICK v \in free : /\ assigned' = assigned \cup {v}
                        /\ fixed' \in {fixed, fixed \cup {v}}
  OBVIOUS
<1>2. Linked' /\ queued' = queued
  BY LinkedFrame
<1>3. TypeOK'
  BY <1>1 DEF TypeOK, free, linkVars, pointVars, walkVars
<1>4. free' \subseteq free
  BY <1>1 DEF free
<1>5. PointerInv'
  BY <1>2, <1>4 DEF PointerInv, linkVars, pointVars
<1> QED
  BY <1>2, <1>3, <1>5 DEF WalkInv, DlisInv, IdleInv, DecisionIsBest, walkVars

LEMMA UnassignInv == ASSUME QInv, Unassign PROVE QInv'
<1> USE DEF Unassign, QInv
<1>1. PICK v \in assigned \ fixed :
        /\ assigned' = assigned \ {v}
        /\ IF bumped < btab[v] THEN UpdateQueueUnassigned(v)
                               ELSE UNCHANGED pointVars
  OBVIOUS
<1>2. Linked' /\ queued' = queued
  BY LinkedFrame
<1>3. v \in queued /\ v \in Var /\ free' = free \cup {v}
  <2>1. v \in live /\ v # hole
    BY <1>1, QueueTypes DEF TypeOK
  <2> QED
    BY <1>1, <2>1, QueueTypes DEF queued, free
<1>4. TypeOK'
  BY <1>1, <1>3 DEF TypeOK, IdleInv, linkVars, pointVars, walkVars, UpdateQueueUnassigned
<1>5. PointerInv'
  <2>1. bumped \in Int /\ btab[v] \in Int /\ \A w \in queued : btab[w] \in Int
    BY <1>3, QueueTypes
  <2>2. free \subseteq queued
    BY QueueTypes
  <2>3. CASE bumped < btab[v]
    <3>1. unassigned' = v /\ bumped' = btab[v] /\ btab' = btab
      BY <1>1, <2>3 DEF UpdateQueueUnassigned
    <3>2. btab[v] <= stamp /\ \A w \in free : btab[w] <= btab[v]
      BY <1>3, <2>1, <2>2, <2>3 DEF Linked, PointerInv
    <3>3. queued # {} /\ first \in queued
      BY <1>3 DEF Linked
    <3>4. pc = "search" => btab[first] <= btab[v]
      BY <2>1, <2>3, <3>3 DEF PointerInv
    <3>5. pc' = pc /\ first' = first /\ stamp' = stamp
      BY DEF linkVars
    <3> QED
      BY <1>2, <1>3, <2>1, <2>2, <3>1, <3>2, <3>3, <3>4, <3>5 DEF PointerInv
  <2>4. CASE ~(bumped < btab[v])
    <3>1. UNCHANGED <<unassigned, bumped, btab, stamp, pc, first>>
      BY <1>1, <2>4 DEF pointVars, linkVars
    <3> QED
      BY <1>2, <1>3, <2>1, <2>4, <3>1 DEF PointerInv
  <2> QED
    BY <2>3, <2>4
<1> QED
  BY <1>2, <1>4, <1>5 DEF WalkInv, DlisInv, IdleInv, DecisionIsBest, walkVars

(* Analysis and backtracking only move the control. *)
LEMMA ControlInv ==
  ASSUME QInv, Analyze \/ StartBacktrack \/ EndBacktrack
  PROVE  QInv'
<1> USE DEF QInv, Analyze, StartBacktrack, EndBacktrack
<1>1. Linked' /\ queued' = queued
  BY LinkedFrame DEF valueVars
<1>2. TypeOK'
  BY DEF TypeOK, valueVars, linkVars, pointVars, walkVars
<1>3. free' = free /\ UNCHANGED <<btab, stamp, first, bumped, unassigned>>
  BY DEF free, valueVars, linkVars, pointVars
<1>4. PointerInv'
  <2>1. CASE Analyze
    BY <1>1, <1>3, <2>1 DEF PointerInv
  <2>2. CASE StartBacktrack
    BY <1>1, <1>3, <2>2 DEF PointerInv
  <2>3. CASE EndBacktrack
    <3>1. PICK v \in free : TRUE
      BY <2>3
    <3>2. v \in queued /\ queued # {}
      BY <3>1, QueueTypes
    <3>3. first \in queued /\ prev[first] = 0
      BY <3>2 DEF Linked
    <3>4. btab[first] <= btab[v]
      BY <3>2, <3>3 DEF Linked
    <3>5. btab[v] <= bumped
      BY <3>1 DEF PointerInv
    <3>6. btab[first] \in Int /\ btab[v] \in Int /\ bumped \in Int
      BY <3>2, <3>3, QueueTypes
    <3> QED
      BY <1>1, <1>3, <3>4, <3>5, <3>6 DEF PointerInv
  <2> QED
    BY <2>1, <2>2, <2>3
<1> QED
  BY <1>1, <1>2, <1>4 DEF WalkInv, DlisInv, IdleInv, DecisionIsBest, walkVars

-----------------------------------------------------------------------------
(* The search for a decision.  The first variable a walk from the pointer  *)
(* meets has no unassigned variable after it.                              *)

LEMMA StartWalkInv == ASSUME QInv, StartWalk PROVE QInv'
<1> USE DEF QInv, StartWalk
<1>1. Linked' /\ queued' = queued
  BY LinkedFrame DEF valueVars
<1>2. TypeOK'
  BY DEF TypeOK, valueVars, linkVars, pointVars
<1>3. free' = free /\ UNCHANGED <<btab, stamp, first, bumped, unassigned>>
  BY DEF free, valueVars, linkVars, pointVars
<1>4. PointerInv'
  BY <1>1, <1>3 DEF PointerInv
<1>5. WalkInv'
  <2>1. queued # {} /\ unassigned \in queued
    BY QueueTypes DEF PointerInv
  <2>2. \A v \in free : btab[v] <= btab[unassigned]
    BY QueueTypes DEF PointerInv
  <2> QED
    BY <1>1, <1>3, <2>1, <2>2 DEF WalkInv
<1> QED
  BY <1>1, <1>2, <1>4, <1>5 DEF DlisInv, IdleInv, DecisionIsBest

LEMMA WalkStep ==
  ASSUME QInv, Walk
  PROVE  QInv'
<1> USE DEF QInv, Walk
<1>1. Linked' /\ queued' = queued
  BY LinkedFrame DEF valueVars
<1>2. free' = free /\ UNCHANGED <<btab, stamp, first, bumped, unassigned>>
  BY DEF free, valueVars, linkVars, pointVars
<1>3. PointerInv'
  BY <1>1, <1>2 DEF PointerInv
<1>4. /\ idx \in queued /\ idx \in Var /\ idx \notin free
      /\ \A v \in free : v \in queued /\ btab[v] < btab[idx]
  <2>1. idx \in queued /\ idx \in Var /\ idx \notin free
    BY QueueTypes DEF WalkInv, free
  <2>2. ASSUME NEW v \in free PROVE v \in queued /\ btab[v] < btab[idx]
    <3>1. v \in queued /\ btab[v] <= btab[idx] /\ v # idx
      BY <2>1, <2>2, QueueTypes DEF WalkInv
    <3>2. btab[v] # btab[idx]
      BY <2>1, <3>1 DEF Linked
    <3> QED
      BY <2>1, <3>1, <3>2, QueueTypes
  <2> QED
    BY <2>1, <2>2
<1>5. prev[idx] \in queued
  <2>1. PICK v \in free : v \in queued /\ btab[v] < btab[idx]
    BY <1>4 DEF WalkInv
  <2>2. prev[idx] # 0
    BY <1>4, <2>1, QueueTypes DEF Linked
  <2> QED
    BY <1>4, <2>2 DEF Linked, Pred, Nearest
<1>6. \A v \in free : btab[v] <= btab[prev[idx]]
  <2>1. ASSUME NEW v \in free PROVE btab[v] <= btab[prev[idx]]
    <3>1. Pred(queued, idx, prev[idx])
      BY <1>4, <1>5, QueueTypes DEF Linked
    <3>2. ~(btab[prev[idx]] < btab[v] /\ btab[v] < btab[idx])
      BY <1>4, <2>1, <3>1 DEF Pred, Nearest
    <3> QED
      BY <1>4, <1>5, <2>1, <3>2, QueueTypes
  <2> QED
    BY <2>1
<1>7. idx' = prev[idx] /\ prev[idx] \in Var
  BY <1>5, QueueTypes
<1>8. TypeOK'
  BY <1>7 DEF TypeOK, valueVars, linkVars, pointVars
<1> QED
  BY <1>1, <1>2, <1>3, <1>5, <1>6, <1>7, <1>8
     DEF WalkInv, DlisInv, IdleInv, DecisionIsBest

LEMMA EndWalkInv == ASSUME QInv, EndWalk PROVE QInv'
<1> USE DEF QInv, EndWalk
<1>1. Linked' /\ queued' = queued
  BY LinkedFrame DEF valueVars
<1>3. /\ free' = free /\ btab' = btab /\ stamp' = stamp /\ first' = first /\ occs' = occs
  BY DEF free, valueVars, linkVars
<1>4. idx \in queued /\ idx \in Var /\ btab[idx] \in Int /\ btab[idx] <= stamp
  BY QueueTypes DEF WalkInv, Linked
<1>5. TypeOK'
  BY <1>4 DEF TypeOK, valueVars, linkVars, pointVars, UpdateQueueUnassigned
<1>6. PointerInv'
  <2>1. CASE idx = unassigned
    <3>1. UNCHANGED <<unassigned, bumped>>
      BY <2>1 DEF pointVars
    <3> QED
      BY <1>1, <1>3, <3>1 DEF PointerInv
  <2>2. CASE idx # unassigned
    <3>1. unassigned' = idx /\ bumped' = btab[idx]
      BY <2>2 DEF UpdateQueueUnassigned
    <3>2. first \in queued /\ btab[first] <= btab[idx]
      BY <1>4 DEF Linked
    <3> QED
      BY <1>1, <1>3, <1>4, <3>1, <3>2 DEF PointerInv, WalkInv
  <2> QED
    BY <2>1, <2>2
<1>7. DecisionIsBest'
  <2>1. occs = None
    BY DEF IdleInv
  <2>2. \A v \in Var : Score(v) = 0 \div 2
    BY <2>1 DEF Score, None
  <2>3. \A v \in free : Score(v) = Score(idx)
    BY <1>4, <2>2, QueueTypes
  <2>4. decision' = idx /\ occs' = occs
    BY <1>3
  <2>5. idx \in free
    OBVIOUS
  <2> QED
    BY <1>3, <2>3, <2>4, <2>5 DEF DecisionIsBest, WalkInv, Score
<1> QED
  BY <1>1, <1>5, <1>6, <1>7 DEF WalkInv, DlisInv, IdleInv

LEMMA StartDlisInv == ASSUME QInv, StartDlis PROVE QInv'
<1> USE DEF QInv, StartDlis
<1>1. Linked' /\ queued' = queued
  BY LinkedFrame DEF valueVars
<1>2. TypeOK'
  BY DEF TypeOK, valueVars, linkVars, pointVars
<1>3. free' = free /\ UNCHANGED <<btab, stamp, first, bumped, unassigned>>
  BY DEF free, valueVars, linkVars, pointVars
<1>4. PointerInv'
  BY <1>1, <1>3 DEF PointerInv
<1>5. DlisInv'
  <2>1. unassigned \in queued /\ unassigned # 0
    BY QueueTypes DEF PointerInv
  <2>2. \A v \in free : btab[v] <= btab[unassigned]
    BY QueueTypes DEF PointerInv
  <2>3. \A v \in free : ~(btab[unassigned] < btab[v])
    BY <2>1, <2>2, QueueTypes
  <2> QED
    BY <1>1, <1>3, <2>1, <2>3 DEF DlisInv, Seen
<1> QED
  BY <1>1, <1>2, <1>4, <1>5 DEF WalkInv, IdleInv, DecisionIsBest

(* DLIS has gone over the variables after the cursor. *)
LEMMA SeenMore ==
  ASSUME TypeOK, Linked, NEW v \in queued, idx \in queued
  PROVE  (prev[idx] = 0 \/ btab[prev[idx]] < btab[v]) <=> (v = idx \/ btab[idx] < btab[v])
<1>1. btab[v] \in Int /\ btab[idx] \in Int /\ (btab[v] = btab[idx] => v = idx)
  BY QueueTypes DEF Linked
<1>2. CASE prev[idx] = 0
  <2>1. btab[idx] <= btab[v]
    BY <1>2 DEF Linked
  <2> QED
    BY <1>1, <1>2, <2>1
<1>3. CASE prev[idx] # 0
  <2>1. Pred(queued, idx, prev[idx])
    BY <1>3 DEF Linked
  <2>2. /\ prev[idx] \in queued /\ btab[prev[idx]] < btab[idx]
        /\ ~(btab[prev[idx]] < btab[v] /\ btab[v] < btab[idx])
    BY <2>1 DEF Pred, Nearest
  <2>3. btab[prev[idx]] \in Int
    BY <2>2, QueueTypes
  <2> QED
    BY <1>1, <1>3, <2>2, <2>3
<1> QED
  BY <1>2, <1>3

LEMMA DlisStepInv == ASSUME QInv, DlisStep PROVE QInv'
<1> USE DEF QInv, DlisStep
<1>1. Linked' /\ queued' = queued
  BY LinkedFrame DEF valueVars
<1>2. free' = free /\ UNCHANGED <<btab, stamp, first, bumped, unassigned, occs>>
  BY DEF free, valueVars, linkVars, pointVars
<1>3. PointerInv'
  BY <1>1, <1>2 DEF PointerInv
<1>4. idx \in queued /\ idx \in Var /\ idx' = prev[idx] /\ prev[idx] \in queued \cup {0}
  <2>1. idx \in queued /\ idx \in Var
    BY QueueTypes DEF DlisInv
  <2> QED
    BY <2>1 DEF Linked, Pred, Nearest
<1>5. TypeOK'
  BY <1>4, QueueTypes DEF TypeOK, valueVars, linkVars, pointVars
<1>6. \A v \in free : Seen(v)' <=> (v = idx \/ Seen(v))
  BY <1>2, <1>4, SeenMore, QueueTypes DEF Seen
<1>7. \A v \in free : Score(v) \in Int /\ btab[v] \in Int /\ v # 0
  BY QueueTypes, BoundAssumption DEF TypeOK, Score
<1>8. DlisInv'
  <2>1. best \in free \/ best = 0
    BY DEF DlisInv
  <2>2. CASE idx \in free /\ (best = 0 \/ Score(idx) > Score(best))
    <3>1. best' = idx
      BY <2>2
    <3>2. \A v \in free : Seen(v)' => NoBetter(v, idx)
      <4>1. SUFFICES ASSUME NEW v \in free, Seen(v)' PROVE NoBetter(v, idx)
        OBVIOUS
      <4>2. CASE v = idx
        BY <1>7, <2>2, <4>2 DEF NoBetter
      <4>3. CASE v # idx
        <5>1. Seen(v)
          BY <1>6, <4>1, <4>3
        <5>2. best # 0 /\ NoBetter(v, best) /\ Score(best) < Score(idx) /\ best \in free
          BY <1>7, <2>1, <2>2, <5>1 DEF DlisInv
        <5> QED
          BY <1>7, <2>2, <5>2 DEF NoBetter
      <4> QED
        BY <4>2, <4>3
    <3>3. \A v \in free : NoBetter(v, idx) => (best' # 0 => NoBetter(v, best)')
      BY <1>2, <3>1 DEF NoBetter, Score
    <3>4. Seen(best)'
      BY <1>6, <2>2, <3>1 DEF Seen
    <3>5. free' # {} /\ best' # 0 /\ best' \in free'
      BY <1>2, <1>7, <2>2, <3>1
    <3> QED
      BY <3>5, <1>1, <1>2, <1>4, <3>1, <3>2, <3>3, <3>4 DEF DlisInv
  <2>3. CASE ~(idx \in free /\ (best = 0 \/ Score(idx) > Score(best)))
    <3>1. best' = best
      BY <2>3
    <3>2. CASE best = 0
      <4>1. \A v \in free : ~Seen(v)'
        BY <1>6, <2>3, <3>2 DEF DlisInv
      <4> QED
        BY <1>1, <1>2, <1>4, <3>1, <3>2, <4>1 DEF DlisInv
    <3>3. CASE best # 0
      <4>1. best \in free /\ Seen(best) /\ Seen(best)'
        BY <1>2, <1>4, <1>6, <3>1, <3>3 DEF DlisInv, Seen
      <4>2. \A v \in free : Seen(v)' => NoBetter(v, best)
        <5>1. SUFFICES ASSUME NEW v \in free, Seen(v)' PROVE NoBetter(v, best)
          OBVIOUS
        <5>2. CASE v # idx
          BY <1>6, <3>3, <5>1, <5>2 DEF DlisInv
        <5>3. CASE v = idx
          <6>1. Score(v) <= Score(best)
            BY <1>7, <2>3, <4>1, <5>3
          <6>2. btab[v] < btab[best] \/ v = best
            BY <1>4, <4>1, <5>3 DEF Seen
          <6> QED
            BY <1>7, <4>1, <6>1, <6>2 DEF NoBetter
        <5> QED
          BY <5>2, <5>3
      <4>3. \A v \in free : NoBetter(v, best)' <=> NoBetter(v, best)
        BY <1>2, <3>1 DEF NoBetter, Score
      <4> QED
        BY <1>1, <1>2, <1>4, <3>1, <3>3, <4>1, <4>2, <4>3 DEF DlisInv
    <3> QED
      BY <3>2, <3>3
  <2> QED
    BY <2>2, <2>3
<1> QED
  BY <1>1, <1>3, <1>5, <1>8 DEF WalkInv, IdleInv, DecisionIsBest

LEMMA EndDlisInv == ASSUME QInv, EndDlis PROVE QInv'
<1> USE DEF QInv, EndDlis
<1>1. Linked' /\ queued' = queued
  BY LinkedFrame DEF valueVars
<1>2. TypeOK'
  BY DEF TypeOK, valueVars, linkVars, pointVars
<1>3. free' = free /\ UNCHANGED <<btab, stamp, first, bumped, unassigned, occs>>
  BY DEF free, valueVars, linkVars, pointVars
<1>4. PointerInv'
  BY <1>1, <1>3 DEF PointerInv
<1>5. best # 0 /\ best \in free /\ \A v \in free : NoBetter(v, best)
  BY DEF DlisInv, Seen
<1>6. decision' = best
  OBVIOUS
<1>7. DecisionIsBest'
  BY <1>3, <1>5, <1>6 DEF DecisionIsBest, NoBetter, Score
<1> QED
  BY <1>1, <1>2, <1>4, <1>7 DEF WalkInv, DlisInv, IdleInv

LEMMA DecidedInv == ASSUME QInv, Decided PROVE QInv'
<1> USE DEF QInv, Decided
<1>1. Linked' /\ queued' = queued
  BY LinkedFrame DEF valueVars
<1>2. decision \in free /\ decision \in Var /\ decision \in live
  BY QueueTypes DEF DecisionIsBest, free
<1>3. TypeOK'
  BY <1>2, BoundAssumption DEF TypeOK, None, linkVars, pointVars
<1>4. free' \subseteq free /\ UNCHANGED <<btab, stamp, first, bumped, unassigned>>
  BY DEF free, linkVars, pointVars
<1>5. PointerInv'
  BY <1>1, <1>4 DEF PointerInv
<1> QED
  BY <1>1, <1>3, <1>5 DEF WalkInv, DlisInv, IdleInv, DecisionIsBest

-----------------------------------------------------------------------------
(* Bumping moves a variable to the end of the list.                        *)

(* The neighbours of a variable. *)
LEMMA Neighbours ==
  ASSUME TypeOK, Linked, NEW v \in queued
  PROVE  /\ btab[v] \in Int /\ btab[v] <= stamp /\ first \in queued /\ last \in queued
         /\ prev[v] = 0 => v = first
         /\ next[v] = 0 => v = last
         /\ prev[v] # 0 => /\ prev[v] \in queued /\ btab[prev[v]] < btab[v]
                           /\ \A u \in queued : btab[u] <= btab[prev[v]] \/ btab[v] <= btab[u]
         /\ next[v] # 0 => /\ next[v] \in queued /\ btab[v] < btab[next[v]]
                           /\ \A u \in queued : btab[u] <= btab[v] \/ btab[next[v]] <= btab[u]
<1>1. btab[v] \in Int /\ \A u \in queued : btab[u] \in Int
  BY QueueTypes
<1>2. btab[v] <= stamp /\ first \in queued /\ last \in queued
  BY DEF Linked
<1>3. (prev[v] = 0 => v = first) /\ (next[v] = 0 => v = last)
  BY DEF Linked
<1>4. /\ prev[v] # 0 => Pred(queued, v, prev[v])
      /\ next[v] # 0 => Succ(queued, v, next[v])
  BY DEF Linked
<1>5. prev[v] # 0 => /\ prev[v] \in queued /\ btab[prev[v]] < btab[v]
                     /\ \A u \in queued : btab[u] <= btab[prev[v]] \/ btab[v] <= btab[u]
  BY <1>1, <1>4 DEF Pred, Nearest
<1>6. next[v] # 0 => /\ next[v] \in queued /\ btab[v] < btab[next[v]]
                     /\ \A u \in queued : btab[u] <= btab[v] \/ btab[next[v]] <= btab[u]
  BY <1>1, <1>4 DEF Succ, Nearest
<1> QED
  BY <1>1, <1>2, <1>3, <1>5, <1>6

(* No two variables have the same neighbour. *)
LEMMA Opposite ==
  ASSUME TypeOK, Linked, NEW v \in queued, NEW w \in queued
  PROVE  prev[w] = v <=> next[v] = w
<1>1. v # 0 /\ w # 0 /\ btab[v] \in Int /\ btab[w] \in Int
  BY QueueTypes
<1>2. ASSUME prev[w] = v PROVE next[v] = w
  <2>1. btab[v] < btab[w]
    BY <1>1, <1>2, Neighbours
  <2>2. next[v] # 0
    BY <1>1, <2>1 DEF Linked
  <2>3. /\ next[v] \in queued /\ btab[v] < btab[next[v]]
        /\ btab[w] <= btab[v] \/ btab[next[v]] <= btab[w]
    BY <2>2, Neighbours
  <2>4. btab[next[v]] <= btab[v] \/ btab[w] <= btab[next[v]]
    BY <1>1, <1>2, <2>3, Neighbours
  <2>5. btab[next[v]] = btab[w]
    BY <1>1, <2>1, <2>3, <2>4, QueueTypes
  <2> QED
    BY <2>3, <2>5 DEF Linked
<1>3. ASSUME next[v] = w PROVE prev[w] = v
  <2>1. btab[v] < btab[w]
    BY <1>1, <1>3, Neighbours
  <2>2. prev[w] # 0
    BY <1>1, <2>1 DEF Linked
  <2>3. /\ prev[w] \in queued /\ btab[prev[w]] < btab[w]
        /\ btab[v] <= btab[prev[w]] \/ btab[w] <= btab[v]
    BY <2>2, Neighbours
  <2>4. btab[prev[w]] <= btab[v] \/ btab[w] <= btab[prev[w]]
    BY <1>1, <1>3, <2>3, Neighbours
  <2>5. btab[prev[w]] = btab[v]
    BY <1>1, <2>1, <2>3, <2>4, QueueTypes
  <2> QED
    BY <2>3, <2>5 DEF Linked
<1> QED
  BY <1>2, <1>3

(* The extreme variables of the list. *)
LEMMA Extremes ==
  ASSUME TypeOK, Linked, queued # {}
  PROVE  /\ first \in queued /\ last \in queued /\ prev[first] = 0 /\ next[last] = 0
         /\ \A w \in queued : btab[first] <= btab[w] /\ btab[w] <= btab[last]
BY DEF Linked

(* The new links. *)
LEMMA MoveLinks ==
  ASSUME TypeOK, Linked, NEW v \in queued, next[v] # 0, MoveToEnd(v)
  PROVE  /\ v # last /\ prev[v] # last /\ next[v] # v /\ prev[v] # v
         /\ prev' \in [Var -> Var \cup {0}] /\ next' \in [Var -> Var \cup {0}]
         /\ first' \in queued /\ last' = v
         /\ first' = IF prev[v] = 0 THEN next[v] ELSE first
         /\ \A w \in Var :
              /\ prev'[w] = IF w = v THEN last ELSE IF w = next[v] THEN prev[v] ELSE prev[w]
              /\ next'[w] = IF w = v THEN 0 ELSE IF w = last THEN v
                            ELSE IF w = prev[v] THEN next[v] ELSE next[w]
<1>1. /\ v \in Var /\ next[v] \in queued /\ next[v] \in Var /\ last \in queued /\ last \in Var
      /\ btab[v] < btab[next[v]] /\ btab[v] \in Int
  BY QueueTypes, Neighbours
<1>2. v # last /\ next[v] # v
  BY <1>1, Extremes
<1>3. prev[v] # 0 => prev[v] \in queued /\ prev[v] \in Var /\ prev[v] # last /\ prev[v] # v
  <2> SUFFICES ASSUME prev[v] # 0
               PROVE  prev[v] \in queued /\ prev[v] \in Var /\ prev[v] # last /\ prev[v] # v
    OBVIOUS
  <2>1. prev[v] \in queued /\ prev[v] \in Var /\ btab[prev[v]] < btab[v]
    BY Neighbours, QueueTypes
  <2>2. btab[v] <= btab[last] /\ btab[last] \in Int /\ btab[prev[v]] \in Int
    BY <1>1, <2>1, Extremes, QueueTypes
  <2> QED
    BY <1>1, <2>1, <2>2
<1>4. 0 \notin Var /\ first \in queued
  BY Variables, Neighbours
<1>5. prev \in [Var -> Var \cup {0}] /\ next \in [Var -> Var \cup {0}]
  BY DEF TypeOK
<1>6. /\ prev' = [[prev EXCEPT ![next[v]] = prev[v]] EXCEPT ![v] = last]
      /\ next' = [(IF prev[v] # 0 THEN [next EXCEPT ![prev[v]] = next[v]] ELSE next)
                    EXCEPT ![last] = v, ![v] = 0]
      /\ first' = (IF prev[v] # 0 THEN first ELSE next[v]) /\ last' = v
  BY DEF MoveToEnd, Dequeue
<1>7. prev' \in [Var -> Var \cup {0}] /\ next' \in [Var -> Var \cup {0}]
  <2>1. CASE prev[v] = 0
    BY <1>1, <1>5, <1>6, <2>1
  <2>2. CASE prev[v] # 0
    BY <1>1, <1>3, <1>5, <1>6, <2>2
  <2> QED
    BY <2>1, <2>2
<1>8. first' \in queued /\ last' = v /\ first' = IF prev[v] = 0 THEN next[v] ELSE first
  BY <1>1, <1>4, <1>6
<1>9. ASSUME NEW w \in Var
      PROVE  /\ prev'[w] = IF w = v THEN last ELSE IF w = next[v] THEN prev[v] ELSE prev[w]
             /\ next'[w] = IF w = v THEN 0 ELSE IF w = last THEN v
                           ELSE IF w = prev[v] THEN next[v] ELSE next[w]
  <2>1. CASE prev[v] = 0
    BY <1>1, <1>2, <1>4, <1>5, <1>6, <1>9, <2>1
  <2>2. CASE prev[v] # 0
    BY <1>1, <1>2, <1>3, <1>5, <1>6, <1>9, <2>2
  <2> QED
    BY <2>1, <2>2
<1>10. prev[v] # last /\ prev[v] # v
  BY <1>1, <1>3, <1>4
<1> QED
  BY <1>2, <1>7, <1>8, <1>9, <1>10

LEMMA MoveLinked ==
  ASSUME TypeOK, Linked, NEW v \in queued, next[v] # 0, MoveToEnd(v),
         queued' = queued, stamp' = stamp + 1, btab' = [btab EXCEPT ![v] = stamp + 1]
  PROVE  Linked'
<1>1. /\ v # last /\ prev[v] # last /\ next[v] # v /\ prev[v] # v
      /\ first' \in queued /\ last' = v
      /\ first' = IF prev[v] = 0 THEN next[v] ELSE first
      /\ \A w \in Var :
           /\ prev'[w] = IF w = v THEN last ELSE IF w = next[v] THEN prev[v] ELSE prev[w]
           /\ next'[w] = IF w = v THEN 0 ELSE IF w = last THEN v
                         ELSE IF w = prev[v] THEN next[v] ELSE next[w]
  BY MoveLinks
<1>2. /\ btab'[v] = stamp + 1 /\ \A w \in queued \ {v} : btab'[w] = btab[w]
      /\ \A w \in queued : btab'[w] \in Int /\ btab'[w] <= btab'[v]
      /\ \A w \in queued \ {v} : btab'[w] < btab'[v]
  <2>1. btab \in [Var -> Int] /\ v \in Var /\ queued \subseteq Var /\ stamp \in Int
    BY QueueTypes DEF TypeOK
  <2>2. \A w \in queued : btab[w] <= stamp
    BY DEF Linked
  <2> QED
    BY <2>1, <2>2
<1>3. \A w \in queued : w \in Var /\ w # 0 /\ btab[w] \in Int /\ btab[w] <= stamp
  BY QueueTypes, Neighbours
<1>4. \A w, u \in queued : btab'[w] = btab'[u] => w = u
  <2>1. \A w, u \in queued : btab[w] = btab[u] => w = u
    BY DEF Linked
  <2> QED
    BY <1>2, <1>3, <2>1
<1>5. \A w \in queued : btab'[w] <= stamp'
  BY <1>2, <1>3, QueueTypes
<1>6. ASSUME NEW w \in queued
      PROVE  IF prev'[w] = 0 THEN w = first' /\ \A u \in queued : btab'[w] <= btab'[u]
                             ELSE Pred(queued, w, prev[w])'
  <2>1. CASE w = v
    <3>1. prev'[w] = last /\ last # 0 /\ last \in queued
      BY <1>1, <1>3, <2>1, Extremes
    <3>2. \A u \in queued : btab'[u] <= btab'[last] \/ btab'[w] <= btab'[u]
      BY <1>1, <1>2, <2>1, <3>1, Extremes
    <3>3. btab'[last] < btab'[w] /\ \A u \in queued : btab'[u] <= btab'[w]
      BY <1>1, <1>2, <2>1, <3>1
    <3> QED
      BY <1>2, <3>1, <3>2, <3>3 DEF Pred, Nearest
  <2>2. CASE w = next[v]
    <3>1. w # v /\ prev'[w] = prev[v] /\ btab[v] < btab[w] /\ btab'[w] = btab[w]
          /\ \A u \in queued : btab[u] <= btab[v] \/ btab[w] <= btab[u]
      BY <1>1, <1>2, <1>3, <2>2, Neighbours
    <3>2. CASE prev[v] = 0
      <4>1. \A u \in queued : btab[v] <= btab[u]
        BY <3>2 DEF Linked
      <4>2. ASSUME NEW u \in queued, u # v PROVE btab'[w] <= btab'[u]
        <5>1. btab[u] # btab[v]
          BY <4>2 DEF Linked
        <5> QED
          BY <1>2, <1>3, <3>1, <4>1, <4>2, <5>1
      <4> QED
        BY <1>1, <1>2, <2>2, <3>1, <3>2, <4>2
    <3>3. CASE prev[v] # 0
      <4>1. /\ prev[v] \in queued /\ prev[v] # v /\ btab[prev[v]] < btab[v]
            /\ \A u \in queued : btab[u] <= btab[prev[v]] \/ btab[v] <= btab[u]
        BY <1>1, <3>3, Neighbours
      <4>2. ASSUME NEW u \in queued
            PROVE  btab'[u] <= btab'[prev[v]] \/ btab'[w] <= btab'[u]
        <5>1. CASE u = v
          BY <1>2, <5>1
        <5>2. CASE u # v
          <6>1. btab[u] # btab[v]
            BY <4>2, <5>2 DEF Linked
          <6> QED
            BY <1>2, <1>3, <3>1, <4>1, <4>2, <5>2, <6>1
        <5> QED
          BY <5>1, <5>2
      <4>3. btab'[prev[v]] < btab'[w]
        BY <1>2, <1>3, <3>1, <4>1
      <4> QED
        BY <1>2, <3>1, <3>3, <4>1, <4>2, <4>3 DEF Pred, Nearest
    <3> QED
      BY <3>2, <3>3
  <2>3. CASE w # v /\ w # next[v]
    <3>1. prev'[w] = prev[w] /\ prev[w] # v /\ btab'[w] = btab[w]
      BY <1>1, <1>2, <1>3, <2>3, Opposite
    <3>2. CASE prev[w] = 0
      <4>1. w = first /\ \A u \in queued : btab[w] <= btab[u]
        BY <3>2 DEF Linked
      <4>2. first' = first
        BY <1>1, <2>3, <4>1, Neighbours
      <4>3. \A u \in queued : btab'[w] <= btab'[u]
        BY <1>2, <1>3, <2>3, <3>1, <4>1
      <4> QED
        BY <3>1, <3>2, <4>1, <4>2, <4>3
    <3>3. CASE prev[w] # 0
      <4>1. /\ prev[w] \in queued /\ btab[prev[w]] < btab[w]
            /\ \A u \in queued : btab[u] <= btab[prev[w]] \/ btab[w] <= btab[u]
        BY <3>3, Neighbours
      <4>2. btab'[prev[w]] = btab[prev[w]]
        BY <1>2, <3>1, <4>1
      <4>3. \A u \in queued : btab'[u] <= btab'[prev[w]] \/ btab'[w] <= btab'[u]
        BY <1>2, <1>3, <3>1, <4>1, <4>2
      <4> QED
        BY <1>2, <1>3, <3>1, <3>3, <4>1, <4>2, <4>3 DEF Pred, Nearest
    <3> QED
      BY <3>2, <3>3
  <2> QED
    BY <2>1, <2>2, <2>3
<1>7. ASSUME NEW w \in queued
      PROVE  IF next'[w] = 0 THEN w = last' /\ \A u \in queued : btab'[u] <= btab'[w]
                             ELSE Succ(queued, w, next[w])'
  <2>1. CASE w = v
    BY <1>1, <1>2, <1>3, <2>1
  <2>2. CASE w = last
    <3>1. next'[w] = v /\ v # 0 /\ w # v
      BY <1>1, <1>3, <2>2
    <3>2. \A u \in queued : btab'[u] <= btab'[w] \/ btab'[v] <= btab'[u]
      BY <1>2, <2>2, <3>1, Extremes
    <3>3. btab'[w] < btab'[v]
      BY <1>2, <3>1
    <3> QED
      BY <1>2, <3>1, <3>2, <3>3 DEF Succ, Nearest
  <2>3. CASE w = prev[v]
    <3>1. w # 0 /\ w # last /\ w # v /\ next'[w] = next[v]
      BY <1>1, <1>3, <2>3
    <3>2. /\ btab[w] < btab[v] /\ btab'[w] = btab[w]
          /\ \A u \in queued : btab[u] <= btab[w] \/ btab[v] <= btab[u]
      BY <1>2, <2>3, <3>1, Neighbours
    <3>3. /\ next[v] \in queued /\ next[v] # v /\ next[v] # 0
          /\ btab[v] < btab[next[v]] /\ btab'[next[v]] = btab[next[v]]
          /\ \A u \in queued : btab[u] <= btab[v] \/ btab[next[v]] <= btab[u]
      BY <1>1, <1>2, Neighbours
    <3>4. ASSUME NEW u \in queued
          PROVE  btab'[u] <= btab'[w] \/ btab'[next[v]] <= btab'[u]
      <4>1. CASE u = v
        BY <1>2, <3>3, <4>1
      <4>2. CASE u # v
        <5>1. btab[u] # btab[v]
          BY <3>4, <4>2 DEF Linked
        <5> QED
          BY <1>2, <1>3, <3>2, <3>3, <3>4, <4>2, <5>1
      <4> QED
        BY <4>1, <4>2
    <3>5. btab'[w] < btab'[next[v]]
      BY <1>3, <3>2, <3>3
    <3> QED
      BY <1>2, <3>1, <3>3, <3>4, <3>5 DEF Succ, Nearest
  <2>4. CASE w # v /\ w # last /\ w # prev[v]
    <3>1. next'[w] = next[w] /\ next[w] # v /\ btab'[w] = btab[w]
      BY <1>1, <1>2, <1>3, <2>4, Opposite
    <3>2. /\ next[w] # 0 /\ next[w] \in queued /\ btab[w] < btab[next[w]]
          /\ \A u \in queued : btab[u] <= btab[w] \/ btab[next[w]] <= btab[u]
      BY <2>4, Neighbours
    <3>3. btab'[next[w]] = btab[next[w]]
      BY <1>2, <3>1, <3>2
    <3>4. \A u \in queued : btab'[u] <= btab'[w] \/ btab'[next[w]] <= btab'[u]
      BY <1>2, <1>3, <3>1, <3>2, <3>3
    <3> QED
      BY <1>2, <1>3, <3>1, <3>2, <3>3, <3>4 DEF Succ, Nearest
  <2> QED
    BY <2>1, <2>2, <2>3, <2>4
<1>8. /\ first' \in queued /\ prev'[first'] = 0
      /\ last' \in queued /\ next'[last'] = 0
  <2>1. CASE prev[v] = 0
    BY <1>1, <1>3, <2>1
  <2>2. CASE prev[v] # 0
    <3>1. first' = first /\ prev[first] = 0 /\ first # v /\ first \in queued
      BY <1>1, <2>2, Extremes
    <3>2. first # next[v]
      <4>1. btab[first] <= btab[v] /\ btab[v] < btab[next[v]]
        BY Extremes, Neighbours
      <4> QED
        BY <1>3, <3>1, <4>1
    <3> QED
      BY <1>1, <1>3, <3>1, <3>2
  <2> QED
    BY <2>1, <2>2
<1> QED
  BY <1>4, <1>5, <1>6, <1>7, <1>8 DEF Linked

LEMMA BumpQueueInv == ASSUME QInv, BumpQueue PROVE QInv'
<1> USE DEF QInv
<1>0. PICK v \in analyzed :
        /\ analyzed' = analyzed \ {v}
        /\ \/ next[v] = 0 /\ UNCHANGED <<linkVars, pointVars, btab, stamp>>
           \/ /\ next[v] # 0 /\ MoveToEnd(v)
              /\ stamp' = stamp + 1 /\ btab' = [btab EXCEPT ![v] = stamp + 1]
              /\ IF v \notin assigned THEN UpdateQueueUnassigned(v)
                                      ELSE UNCHANGED pointVars
  BY DEF BumpQueue
<1>1. pc = "analyze" /\ UNCHANGED <<valueVars, pc, walkVars, rounds>>
  BY DEF BumpQueue
<1>2. v \in queued /\ v \in Var /\ v \in assigned /\ v \notin free /\ queued # {}
  BY QueueTypes DEF TypeOK, queued, free
<1>3. queued' = queued /\ free' = free
  BY <1>1 DEF queued, free, valueVars
<1>4. CASE next[v] = 0
  <2>1. UNCHANGED <<linkVars, pointVars, btab, stamp>>
    BY <1>0, <1>4
  <2>2. Linked'
    BY <1>1, <2>1, LinkedFrame DEF valueVars
  <2>3. TypeOK'
    BY <1>0, <1>1, <2>1 DEF TypeOK, valueVars, linkVars, pointVars, walkVars
  <2>4. PointerInv'
    BY <1>1, <1>3, <2>1 DEF PointerInv, linkVars, pointVars
  <2> QED
    BY <1>1, <2>2, <2>3, <2>4 DEF WalkInv, DlisInv, IdleInv, DecisionIsBest, walkVars
<1>5. CASE next[v] # 0
  <2>1. /\ MoveToEnd(v) /\ stamp' = stamp + 1 /\ btab' = [btab EXCEPT ![v] = stamp + 1]
        /\ UNCHANGED pointVars
    BY <1>0, <1>2, <1>5
  <2>2. Linked'
    BY <1>2, <1>3, <1>5, <2>1, MoveLinked
  <2>3. TypeOK'
    <3>1. /\ prev' \in [Var -> Var \cup {0}] /\ next' \in [Var -> Var \cup {0}]
          /\ first' \in Var /\ last' \in Var
      BY <1>2, <1>5, <2>1, MoveLinks, QueueTypes
    <3>2. btab' \in [Var -> Int] /\ stamp' \in Nat
      BY <2>1 DEF TypeOK
    <3> QED
      BY <1>0, <1>1, <2>1, <3>1, <3>2 DEF TypeOK, valueVars, pointVars, walkVars
  <2>4. PointerInv'
    <3>1. UNCHANGED <<unassigned, bumped, pc>>
      BY <1>1, <2>1 DEF pointVars
    <3>2. btab'[v] = stamp + 1 /\ \A w \in queued \ {v} : btab'[w] = btab[w]
      BY <1>2, <2>1, QueueTypes DEF TypeOK
    <3>3. \A w \in queued : btab[w] <= stamp /\ btab[w] \in Int /\ btab[w] <= btab'[w]
      BY <1>2, <3>2, QueueTypes DEF Linked
    <3>4. stamp \in Int /\ bumped \in Int /\ free \subseteq queued
      BY QueueTypes
    <3>5. bumped <= stamp' /\ unassigned \in queued
      BY <1>2, <2>1, <3>4 DEF PointerInv
    <3>6. \A w \in free : btab'[w] <= bumped
      BY <1>2, <3>2, <3>4 DEF PointerInv
    <3>7. ASSUME NEW w \in queued, btab'[w] <= bumped PROVE btab'[w] <= btab'[unassigned]
      <4>1. w # v
        BY <3>2, <3>4, <3>7 DEF PointerInv
      <4>2. btab[w] <= btab[unassigned]
        BY <3>2, <3>7, <4>1 DEF PointerInv
      <4>3. btab'[w] = btab[w] /\ btab[unassigned] <= btab'[unassigned] /\ btab'[unassigned] \in Int
        BY <3>2, <3>3, <3>4, <3>5, <4>1
      <4> QED
        BY <3>3, <3>5, <4>2, <4>3
    <3> QED
      BY <1>1, <1>2, <1>3, <3>1, <3>5, <3>6, <3>7 DEF PointerInv
  <2> QED
    BY <1>1, <2>2, <2>3, <2>4 DEF WalkInv, DlisInv, IdleInv, DecisionIsBest, walkVars
<1> QED
  BY <1>4, <1>5

-----------------------------------------------------------------------------
(* A new variable becomes the last of the list, or the first one.          *)

LEMMA NewVariable ==
  ASSUME TypeOK, NEW v \in Var \ live, live' = live \cup {v}, assigned' = assigned, hole' = hole
  PROVE  /\ queued' = queued \cup {v} /\ free' = free \cup {v}
         /\ v \notin queued /\ v \notin free /\ v # 0
<1>1. v # hole /\ v \notin assigned /\ v # 0
  BY Variables DEF TypeOK
<1> QED
  BY <1>1 DEF queued, free

LEMMA EnqueueLinked ==
  ASSUME TypeOK, Linked, InitEnqueue
  PROVE  Linked'
<1>0. PICK v \in Var \ live :
        /\ live' = live \cup {v}
        /\ prev' = [prev EXCEPT ![v] = last]
        /\ next' = [w \in Var |-> IF w = v THEN 0 ELSE IF w = last THEN v ELSE next[w]]
        /\ first' = (IF last = 0 THEN v ELSE first) /\ last' = v
        /\ stamp' = stamp + 1 /\ btab' = [btab EXCEPT ![v] = stamp + 1]
  BY DEF InitEnqueue, IsFirstOf
<1>1. queued' = queued \cup {v} /\ v \notin queued /\ v # 0
  BY <1>0, NewVariable DEF InitEnqueue
<1>2. \A w \in queued : w \in Var /\ w # 0 /\ w # v /\ btab[w] \in Int /\ btab[w] <= stamp
  BY <1>1, QueueTypes, Neighbours
<1>3. /\ btab'[v] = stamp + 1 /\ \A w \in queued : btab'[w] = btab[w]
      /\ \A w \in queued : btab'[w] \in Int /\ btab'[w] < btab'[v]
      /\ stamp \in Int
  BY <1>0, <1>1, <1>2 DEF TypeOK
<1>4. /\ prev'[v] = last /\ next'[v] = 0
      /\ \A w \in queued : /\ prev'[w] = prev[w]
                           /\ next'[w] = IF w = last THEN v ELSE next[w]
  BY <1>0, <1>2 DEF TypeOK
<1>5. \A w, u \in queued' : btab'[w] = btab'[u] => w = u
  <2>1. \A w, u \in queued : btab[w] = btab[u] => w = u
    BY DEF Linked
  <2> QED
    BY <1>1, <1>2, <1>3, <2>1
<1>6. \A w \in queued' : btab'[w] <= stamp'
  BY <1>0, <1>1, <1>2, <1>3
<1>7. /\ last = 0 <=> queued = {}
      /\ last # 0 => last \in queued /\ \A w \in queued : btab[w] <= btab[last]
  BY <1>2, Extremes DEF Linked
<1>8. ASSUME NEW w \in queued'
      PROVE  IF prev'[w] = 0 THEN w = first' /\ \A u \in queued' : btab'[w] <= btab'[u]
                             ELSE Pred(queued, w, prev[w])'
  <2>1. CASE w = v
    <3>1. CASE last = 0
      BY <1>0, <1>1, <1>3, <1>4, <1>7, <2>1, <3>1
    <3>2. CASE last # 0
      <4>1. /\ prev'[w] = last /\ last \in queued /\ btab'[last] < btab'[w]
            /\ \A u \in queued' : btab'[u] <= btab'[last] \/ btab'[w] <= btab'[u]
        BY <1>1, <1>3, <1>4, <1>7, <2>1, <3>2
      <4> QED
        BY <1>1, <1>3, <2>1, <3>2, <4>1 DEF Pred, Nearest
    <3> QED
      BY <3>1, <3>2
  <2>2. CASE w \in queued
    <3>1. prev'[w] = prev[w] /\ first' = first
      BY <1>0, <1>4, <1>7, <2>2
    <3>2. CASE prev[w] = 0
      <4>1. w = first /\ \A u \in queued : btab[w] <= btab[u]
        BY <2>2, <3>2 DEF Linked
      <4>2. \A u \in queued' : btab'[w] <= btab'[u]
        BY <1>1, <1>2, <1>3, <2>2, <4>1
      <4> QED
        BY <3>1, <3>2, <4>1, <4>2
    <3>3. CASE prev[w] # 0
      <4>1. /\ prev[w] \in queued /\ btab[prev[w]] < btab[w]
            /\ \A u \in queued : btab[u] <= btab[prev[w]] \/ btab[w] <= btab[u]
        BY <2>2, <3>3, Neighbours
      <4>2. \A u \in queued' : btab'[u] <= btab'[prev[w]] \/ btab'[w] <= btab'[u]
        BY <1>1, <1>2, <1>3, <2>2, <4>1
      <4> QED
        BY <1>1, <1>2, <1>3, <2>2, <3>1, <3>3, <4>1, <4>2 DEF Pred, Nearest
    <3> QED
      BY <3>2, <3>3
  <2> QED
    BY <1>1, <2>1, <2>2
<1>9. ASSUME NEW w \in queued'
      PROVE  IF next'[w] = 0 THEN w = last' /\ \A u \in queued' : btab'[u] <= btab'[w]
                             ELSE Succ(queued, w, next[w])'
  <2>1. CASE w = v
    BY <1>0, <1>1, <1>3, <1>4, <2>1
  <2>2. CASE w = last
    <3>1. /\ last # 0 /\ next'[w] = v /\ btab'[w] < btab'[v]
          /\ \A u \in queued' : btab'[u] <= btab'[w] \/ btab'[v] <= btab'[u]
      BY <1>1, <1>2, <1>3, <1>4, <1>7, <2>2
    <3> QED
      BY <1>1, <1>3, <2>2, <3>1 DEF Succ, Nearest
  <2>3. CASE w # v /\ w # last
    <3>1. w \in queued /\ next'[w] = next[w]
      BY <1>1, <1>4, <2>3
    <3>2. /\ next[w] # 0 /\ next[w] \in queued /\ btab[w] < btab[next[w]]
          /\ \A u \in queued : btab[u] <= btab[w] \/ btab[next[w]] <= btab[u]
      BY <2>3, <3>1, Neighbours
    <3>3. \A u \in queued' : btab'[u] <= btab'[w] \/ btab'[next[w]] <= btab'[u]
      BY <1>1, <1>2, <1>3, <3>1, <3>2
    <3> QED
      BY <1>1, <1>2, <1>3, <3>1, <3>2, <3>3 DEF Succ, Nearest
  <2> QED
    BY <2>1, <2>2, <2>3
<1>10. /\ first' \in queued' /\ prev'[first'] = 0
       /\ last' \in queued' /\ next'[last'] = 0
  <2>1. CASE last = 0
    BY <1>0, <1>1, <1>4, <2>1
  <2>2. CASE last # 0
    <3>1. first' = first /\ prev[first] = 0 /\ first \in queued
      BY <1>0, <1>7, <2>2, Extremes
    <3> QED
      BY <1>0, <1>1, <1>4, <3>1
  <2> QED
    BY <2>1, <2>2
<1> QED
  BY <1>1, <1>5, <1>6, <1>8, <1>9, <1>10 DEF Linked

LEMMA InitEnqueueInv == ASSUME QInv, InitEnqueue PROVE QInv'
<1> USE DEF QInv
<1>0. PICK v \in Var \ live :
        /\ live' = live \cup {v}
        /\ prev' = [prev EXCEPT ![v] = last]
        /\ next' = [w \in Var |-> IF w = v THEN 0 ELSE IF w = last THEN v ELSE next[w]]
        /\ first' = (IF last = 0 THEN v ELSE first) /\ last' = v
        /\ stamp' = stamp + 1 /\ btab' = [btab EXCEPT ![v] = stamp + 1]
        /\ unassigned' = v /\ bumped' = btab'[v]
  BY DEF InitEnqueue, IsFirstOf, UpdateQueueUnassigned
<1>1. pc = "search" /\ UNCHANGED <<assigned, fixed, hole, analyzed, pc, walkVars, rounds>>
  BY DEF InitEnqueue
<1>2. Linked'
  BY EnqueueLinked
<1>3. queued' = queued \cup {v} /\ free' = free \cup {v} /\ v \notin queued /\ free \subseteq queued
  BY <1>0, <1>1, NewVariable, QueueTypes
<1>4. TypeOK'
  <2>1. live' \subseteq Var /\ assigned' \subseteq live'
    BY <1>0, <1>1 DEF TypeOK
  <2>2. prev' \in [Var -> Var \cup {0}] /\ next' \in [Var -> Var \cup {0}]
    BY <1>0 DEF TypeOK
  <2>3. {first', last', unassigned', idx', best', decision'} \subseteq Var \cup {0}
    BY <1>0, <1>1 DEF TypeOK, walkVars
  <2>4. bumped' \in Int /\ btab' \in [Var -> Int] /\ stamp' \in Nat
    BY <1>0 DEF TypeOK
  <2> QED
    BY <1>1, <2>1, <2>2, <2>3, <2>4 DEF TypeOK, walkVars
<1>5. bumped' = stamp + 1 /\ stamp' = stamp + 1 /\ btab'[v] = stamp + 1 /\ stamp \in Int
  BY <1>0, QueueTypes DEF TypeOK
<1>6. \A w \in queued' : btab'[w] \in Int /\ btab'[w] <= btab'[v]
  <2>1. \A w \in queued : btab'[w] = btab[w] /\ btab[w] \in Int /\ btab[w] <= stamp
    BY <1>0, <1>3, QueueTypes, Neighbours DEF TypeOK
  <2> QED
    BY <1>3, <1>5, <2>1
<1>7. PointerInv'
  <2>1. first' \in queued'
    BY <1>2, <1>3 DEF Linked
  <2> QED
    BY <1>0, <1>3, <1>5, <1>6, <2>1 DEF PointerInv
<1> QED
  BY <1>1, <1>2, <1>4, <1>7 DEF WalkInv, DlisInv, IdleInv, DecisionIsBest, walkVars

LEMMA EnqueueReverseLinked ==
  ASSUME TypeOK, Linked, InitEnqueueReverse
  PROVE  Linked'
<1>0. PICK v \in Var \ live :
        /\ live' = live \cup {v}
        /\ next' = [next EXCEPT ![v] = first]
        /\ prev' = [w \in Var |-> IF w = v THEN 0 ELSE IF w = first THEN v ELSE prev[w]]
        /\ last' = (IF first = 0 THEN v ELSE last) /\ first' = v
        /\ btab' = [btab EXCEPT ![v] = IF first = 0 THEN 0 ELSE btab[first] - 1]
  BY DEF InitEnqueueReverse, IsFirstOf
<1>1. queued' = queued \cup {v} /\ v \notin queued /\ v # 0 /\ stamp' = stamp
  BY <1>0, NewVariable DEF InitEnqueueReverse
<1>2. \A w \in queued : w \in Var /\ w # 0 /\ w # v /\ btab[w] \in Int /\ btab[w] <= stamp
  BY <1>1, QueueTypes, Neighbours
<1>7. /\ first = 0 <=> queued = {}
      /\ first # 0 => first \in queued /\ \A w \in queued : btab[first] <= btab[w]
  BY <1>2, Extremes DEF Linked
<1>3. /\ btab'[v] = (IF first = 0 THEN 0 ELSE btab[first] - 1) /\ btab'[v] \in Int
      /\ \A w \in queued : btab'[w] = btab[w]
      /\ \A w \in queued : btab'[w] \in Int /\ btab'[v] < btab'[w]
      /\ btab'[v] <= stamp
  <2>1. btab' [v] = (IF first = 0 THEN 0 ELSE btab[first] - 1) /\ \A w \in queued : btab'[w] = btab[w]
    BY <1>0, <1>1, <1>2 DEF TypeOK
  <2>2. stamp \in Nat
    BY DEF TypeOK
  <2> QED
    BY <1>2, <1>7, <2>1, <2>2
<1>4. /\ next'[v] = first /\ prev'[v] = 0
      /\ \A w \in queued : /\ next'[w] = next[w]
                           /\ prev'[w] = IF w = first THEN v ELSE prev[w]
  BY <1>0, <1>2 DEF TypeOK
<1>5. \A w, u \in queued' : btab'[w] = btab'[u] => w = u
  <2>1. \A w, u \in queued : btab[w] = btab[u] => w = u
    BY DEF Linked
  <2> QED
    BY <1>1, <1>2, <1>3, <2>1
<1>6. \A w \in queued' : btab'[w] <= stamp'
  BY <1>1, <1>2, <1>3
<1>8. ASSUME NEW w \in queued'
      PROVE  IF prev'[w] = 0 THEN w = first' /\ \A u \in queued' : btab'[w] <= btab'[u]
                             ELSE Pred(queued, w, prev[w])'
  <2>1. CASE w = v
    BY <1>0, <1>1, <1>3, <1>4, <2>1
  <2>2. CASE w = first
    <3>1. /\ first # 0 /\ prev'[w] = v /\ btab'[v] < btab'[w]
          /\ \A u \in queued' : btab'[u] <= btab'[v] \/ btab'[w] <= btab'[u]
      BY <1>1, <1>2, <1>3, <1>4, <1>7, <2>2
    <3> QED
      BY <1>1, <1>3, <2>2, <3>1 DEF Pred, Nearest
  <2>3. CASE w # v /\ w # first
    <3>1. w \in queued /\ prev'[w] = prev[w]
      BY <1>1, <1>4, <2>3
    <3>2. /\ prev[w] # 0 /\ prev[w] \in queued /\ btab[prev[w]] < btab[w]
          /\ \A u \in queued : btab[u] <= btab[prev[w]] \/ btab[w] <= btab[u]
      BY <2>3, <3>1, Neighbours
    <3>3. \A u \in queued' : btab'[u] <= btab'[prev[w]] \/ btab'[w] <= btab'[u]
      BY <1>1, <1>2, <1>3, <3>1, <3>2
    <3> QED
      BY <1>1, <1>2, <1>3, <3>1, <3>2, <3>3 DEF Pred, Nearest
  <2> QED
    BY <2>1, <2>2, <2>3
<1>9. ASSUME NEW w \in queued'
      PROVE  IF next'[w] = 0 THEN w = last' /\ \A u \in queued' : btab'[u] <= btab'[w]
                             ELSE Succ(queued, w, next[w])'
  <2>1. CASE w = v
    <3>1. CASE first = 0
      BY <1>0, <1>1, <1>3, <1>4, <1>7, <2>1, <3>1
    <3>2. CASE first # 0
      <4>1. /\ next'[w] = first /\ first \in queued /\ btab'[w] < btab'[first]
            /\ \A u \in queued' : btab'[u] <= btab'[w] \/ btab'[first] <= btab'[u]
        BY <1>1, <1>3, <1>4, <1>7, <2>1, <3>2
      <4> QED
        BY <1>1, <1>3, <2>1, <3>2, <4>1 DEF Succ, Nearest
    <3> QED
      BY <3>1, <3>2
  <2>2. CASE w \in queued
    <3>1. next'[w] = next[w] /\ last' = last
      BY <1>0, <1>4, <1>7, <2>2
    <3>2. CASE next[w] = 0
      <4>1. w = last /\ \A u \in queued : btab[u] <= btab[w]
        BY <2>2, <3>2 DEF Linked
      <4>2. \A u \in queued' : btab'[u] <= btab'[w]
        BY <1>1, <1>2, <1>3, <2>2, <4>1
      <4> QED
        BY <3>1, <3>2, <4>1, <4>2
    <3>3. CASE next[w] # 0
      <4>1. /\ next[w] \in queued /\ btab[w] < btab[next[w]]
            /\ \A u \in queued : btab[u] <= btab[w] \/ btab[next[w]] <= btab[u]
        BY <2>2, <3>3, Neighbours
      <4>2. \A u \in queued' : btab'[u] <= btab'[w] \/ btab'[next[w]] <= btab'[u]
        BY <1>1, <1>2, <1>3, <2>2, <4>1
      <4> QED
        BY <1>1, <1>2, <1>3, <2>2, <3>1, <3>3, <4>1, <4>2 DEF Succ, Nearest
    <3> QED
      BY <3>2, <3>3
  <2> QED
    BY <1>1, <2>1, <2>2
<1>10. /\ first' \in queued' /\ prev'[first'] = 0
       /\ last' \in queued' /\ next'[last'] = 0
  <2>1. CASE first = 0
    BY <1>0, <1>1, <1>4, <2>1
  <2>2. CASE first # 0
    <3>1. last' = last /\ next[last] = 0 /\ last \in queued
      BY <1>0, <1>7, <2>2, Extremes
    <3> QED
      BY <1>0, <1>1, <1>4, <3>1
  <2> QED
    BY <2>1, <2>2
<1> QED
  BY <1>1, <1>5, <1>6, <1>8, <1>9, <1>10 DEF Linked

(* The pointer hides no new first variable, as the stamp cached with it is not
   below the one of the first variable. *)
LEMMA InitEnqueueReverseInv == ASSUME QInv, InitEnqueueReverse PROVE QInv'
<1> USE DEF QInv
<1>0. PICK v \in Var \ live :
        /\ live' = live \cup {v}
        /\ next' = [next EXCEPT ![v] = first]
        /\ prev' = [w \in Var |-> IF w = v THEN 0 ELSE IF w = first THEN v ELSE prev[w]]
        /\ last' = (IF first = 0 THEN v ELSE last) /\ first' = v
        /\ btab' = [btab EXCEPT ![v] = IF first = 0 THEN 0 ELSE btab[first] - 1]
        /\ IF unassigned = 0 THEN unassigned' = last' /\ bumped' = btab'[last']
                             ELSE UNCHANGED pointVars
  BY DEF InitEnqueueReverse, IsFirstOf, UpdateQueueUnassigned
<1>1. pc = "search" /\ UNCHANGED <<assigned, fixed, hole, stamp, analyzed, pc, walkVars, rounds>>
  BY DEF InitEnqueueReverse
<1>2. Linked'
  BY EnqueueReverseLinked
<1>3. queued' = queued \cup {v} /\ free' = free \cup {v} /\ v \notin queued /\ free \subseteq queued
  BY <1>0, <1>1, NewVariable, QueueTypes
<1>4. /\ first = 0 <=> queued = {}
      /\ unassigned = 0 <=> queued = {}
      /\ first # 0 => first \in queued /\ btab[first] <= bumped
      /\ unassigned # 0 => unassigned \in queued
  BY <1>1, Extremes, QueueTypes DEF PointerInv, Linked
<1>5. /\ btab'[v] = (IF first = 0 THEN 0 ELSE btab[first] - 1) /\ btab'[v] \in Int
      /\ \A w \in queued : btab'[w] = btab[w] /\ btab[w] \in Int
      /\ stamp \in Nat /\ bumped \in Int
  <2>1. /\ btab'[v] = (IF first = 0 THEN 0 ELSE btab[first] - 1)
        /\ \A w \in queued : btab'[w] = btab[w]
    BY <1>0, <1>3, QueueTypes DEF TypeOK
  <2>2. (\A w \in queued : btab[w] \in Int) /\ stamp \in Nat /\ bumped \in Int
    BY QueueTypes DEF TypeOK
  <2> QED
    BY <1>4, <2>1, <2>2
<1>6. CASE queued = {}
  <2>1. /\ last' = v /\ unassigned' = v /\ bumped' = 0 /\ btab'[v] = 0
        /\ queued' = {v} /\ free' = {v} /\ first' = v /\ stamp' = stamp
    BY <1>0, <1>1, <1>3, <1>4, <1>5, <1>6
  <2>2. PointerInv'
    BY <1>5, <2>1 DEF PointerInv
  <2>3. TypeOK'
    <3>1. prev' \in [Var -> Var \cup {0}] /\ next' \in [Var -> Var \cup {0}]
      BY <1>0 DEF TypeOK
    <3>2. btab' \in [Var -> Int] /\ bumped' \in Int
      BY <1>0, <1>4, <1>6, <2>1 DEF TypeOK
    <3> QED
      BY <1>0, <1>1, <2>1, <3>1, <3>2 DEF TypeOK, walkVars
  <2> QED
    BY <1>1, <1>2, <2>2, <2>3 DEF WalkInv, DlisInv, IdleInv, DecisionIsBest, walkVars
<1>7. CASE queued # {}
  <2>1. /\ last' = last /\ unassigned' = unassigned /\ bumped' = bumped
        /\ btab'[v] = btab[first] - 1 /\ first' = v /\ stamp' = stamp
        /\ first \in queued /\ btab[first] <= bumped /\ unassigned \in queued
    BY <1>0, <1>1, <1>4, <1>5, <1>7 DEF pointVars
  <2>2. btab'[v] <= bumped /\ \A w \in queued : btab'[v] <= btab'[w]
    BY <1>5, <2>1, Extremes
  <2>3. PointerInv'
    <3>1. bumped' <= stamp' /\ unassigned' \in queued'
      BY <1>3, <2>1 DEF PointerInv
    <3>2. \A w \in free' : btab'[w] <= bumped'
      BY <1>3, <1>5, <2>1, <2>2 DEF PointerInv
    <3>3. \A w \in queued' : btab'[w] <= bumped' => btab'[w] <= btab'[unassigned']
      BY <1>3, <1>5, <2>1, <2>2 DEF PointerInv
    <3> QED
      BY <1>1, <1>3, <2>1, <2>2, <3>1, <3>2, <3>3 DEF PointerInv
  <2>4. TypeOK'
    <3>1. prev' \in [Var -> Var \cup {0}] /\ next' \in [Var -> Var \cup {0}]
      BY <1>0 DEF TypeOK
    <3>2. btab' \in [Var -> Int]
      BY <1>0, <1>5, <2>1, QueueTypes DEF TypeOK
    <3> QED
      BY <1>0, <1>1, <2>1, <3>1, <3>2 DEF TypeOK, walkVars
  <2> QED
    BY <1>1, <1>2, <2>3, <2>4 DEF WalkInv, DlisInv, IdleInv, DecisionIsBest, walkVars
<1> QED
  BY <1>6, <1>7

-----------------------------------------------------------------------------
(* Shuffling and compaction build the queue anew.                          *)

Lower(S, v) == {w \in S : btab[w] < btab[v]}

(* The number of variables with a smaller stamp is the position in the queue. *)
LEMMA Ranks ==
  ASSUME TypeOK, Linked, NEW S \in SUBSET queued
  PROVE  /\ IsFiniteSet(S) /\ Cardinality(S) \in Nat
         /\ \A v \in S : Cardinality(Lower(S, v)) \in 0..(Cardinality(S) - 1)
         /\ \A v, w \in S : btab[v] < btab[w] =>
              Cardinality(Lower(S, v)) < Cardinality(Lower(S, w))
         /\ \A i \in 0..(Cardinality(S) - 1) : \E v \in S : Cardinality(Lower(S, v)) = i
<1> DEFINE r == [v \in S |-> Cardinality(Lower(S, v))]
           n == Cardinality(S)
<1>1. IsFiniteSet(S) /\ n \in Nat
  <2>1. IsFiniteSet(Var) /\ S \in SUBSET Var
    BY Variables, QueueTypes
  <2> QED
    BY <2>1, FS_Subset, FS_CardinalityType
<1>2. \A v \in S : btab[v] \in Int
  BY QueueTypes
<1>3. ASSUME NEW T \in SUBSET S
      PROVE  IsFiniteSet(T) /\ Cardinality(T) \in Nat
  BY <1>1, FS_Subset, FS_CardinalityType
<1>4. ASSUME NEW T \in SUBSET S, NEW U \in SUBSET T, T # U
      PROVE  Cardinality(U) < Cardinality(T)
  <2>1. IsFiniteSet(T) /\ Cardinality(T) \in Nat /\ Cardinality(U) \in Nat
    BY <1>3
  <2>2. Cardinality(U) <= Cardinality(T) /\ (Cardinality(T) = Cardinality(U) => T = U)
    BY <2>1, FS_Subset
  <2> QED
    BY <1>4, <2>1, <2>2
<1>5. ASSUME NEW v \in S PROVE Cardinality(Lower(S, v)) \in 0..(n - 1)
  <2>1. Lower(S, v) \in SUBSET S /\ Lower(S, v) # S
    BY <1>2 DEF Lower
  <2>2. Cardinality(Lower(S, v)) < n /\ Cardinality(Lower(S, v)) \in Nat
    BY <1>3, <1>4, <2>1
  <2> QED
    BY <1>1, <2>2
<1>6. ASSUME NEW v \in S, NEW w \in S, btab[v] < btab[w]
      PROVE  Cardinality(Lower(S, v)) < Cardinality(Lower(S, w))
  <2>1. /\ Lower(S, w) \in SUBSET S /\ Lower(S, v) \in SUBSET Lower(S, w)
        /\ v \in Lower(S, w) /\ v \notin Lower(S, v)
    BY <1>2, <1>6 DEF Lower
  <2> QED
    BY <1>4, <2>1
<1>7. r \in Injection(S, 0..(n - 1))
  <2>1. r \in [S -> 0..(n - 1)]
    BY <1>5
  <2>2. ASSUME NEW v \in S, NEW w \in S, r[v] = r[w] PROVE v = w
    <3>1. Cardinality(Lower(S, v)) = Cardinality(Lower(S, w))
      BY <2>2
    <3>2. Cardinality(Lower(S, v)) \in Int
      BY <1>5
    <3>3. ~(btab[v] < btab[w]) /\ ~(btab[w] < btab[v])
      BY <1>6, <3>1, <3>2
    <3>4. btab[v] = btab[w]
      BY <1>2, <3>3
    <3> QED
      BY <3>4 DEF Linked
  <2> QED
    BY <2>1, <2>2, Fun_IsInj
<1>8. r \in Surjection(S, 0..(n - 1))
  <2>1. IsFiniteSet(0..(n - 1)) /\ Cardinality(0..(n - 1)) = n
    BY <1>1, FS_Interval
  <2> QED
    BY <1>7, <2>1, FS_Injection
<1>9. ASSUME NEW i \in 0..(n - 1) PROVE \E v \in S : Cardinality(Lower(S, v)) = i
  <2>1. PICK v \in S : r[v] = i
    BY <1>8, <1>9 DEF Surjection
  <2> QED
    BY <2>1
<1> QED
  BY <1>1, <1>5, <1>6, <1>9

(* A queue that is built anew, whatever the ranks. *)
LEMMA RebuildLinked ==
  ASSUME TypeOK, NEW Q \in SUBSET Var, NEW n \in Nat, NEW r, Q # {},
         \A v \in Q : r[v] \in 0..(n - 1),
         \A v, w \in Q : r[v] = r[w] => v = w,
         \A i \in 0..(n - 1) : \E v \in Q : r[v] = i,
         bumped <= stamp, queued' = Q, stamp' = stamp, Rebuild(r, Q)
  PROVE  /\ Linked' /\ unassigned' = last' /\ bumped' = bumped /\ btab' \in [Var -> Int]
         /\ first' \in Q /\ last' \in Q /\ \A v \in Q : btab'[v] <= bumped /\ btab'[v] <= btab'[last']
         /\ prev' \in [Var -> Var \cup {0}] /\ next' \in [Var -> Var \cup {0}]
<1>0. bumped \in Int /\ stamp \in Int /\ 0 \notin Q
  BY QueueTypes, Variables
<1>1. /\ last' \in Q /\ r[last'] = 0 /\ unassigned' = last' /\ bumped' = bumped
      /\ first' \in Q /\ \A v \in Q : r[v] <= r[first']
  BY DEF Rebuild
<1>2. /\ \A v \in Q : btab'[v] = bumped - r[v]
      /\ btab' \in [Var -> Int]
  BY DEF Rebuild, TypeOK
<1>3. ASSUME NEW v \in Q
      PROVE  \/ prev'[v] = 0 /\ \A w \in Q : r[w] # r[v] + 1
             \/ prev'[v] \in Q /\ r[prev'[v]] = r[v] + 1
  <2>1. prev'[v] = IF \E w \in Q : r[w] = r[v] + 1
                   THEN CHOOSE w \in Q : r[w] = r[v] + 1 ELSE 0
    BY DEF Rebuild
  <2> QED
    BY <2>1
<1>4. ASSUME NEW v \in Q
      PROVE  \/ next'[v] = 0 /\ \A w \in Q : r[v] # r[w] + 1
             \/ next'[v] \in Q /\ r[v] = r[next'[v]] + 1
  <2>1. next'[v] = IF \E w \in Q : r[v] = r[w] + 1
                   THEN CHOOSE w \in Q : r[v] = r[w] + 1 ELSE 0
    BY DEF Rebuild
  <2> QED
    BY <2>1
<1>5. prev' \in [Var -> Var \cup {0}] /\ next' \in [Var -> Var \cup {0}]
  <2>1. /\ prev' = [v \in Var |-> prev'[v]] /\ next' = [v \in Var |-> next'[v]]
        /\ \A v \in Var \ Q : prev'[v] = 0 /\ next'[v] = 0
    BY DEF Rebuild
  <2>2. \A v \in Var : prev'[v] \in Var \cup {0} /\ next'[v] \in Var \cup {0}
    BY <1>3, <1>4, <2>1
  <2> QED
    BY <2>1, <2>2
<1>6. ASSUME NEW v \in Q
      PROVE  prev'[v] = 0 => v = first' /\ \A w \in Q : r[w] <= r[v]
  <2> SUFFICES ASSUME prev'[v] = 0 PROVE v = first' /\ \A w \in Q : r[w] <= r[v]
    OBVIOUS
  <2>1. \A w \in Q : r[w] # r[v] + 1
    BY <1>0, <1>3
  <2>2. r[v] = n - 1
    <3>1. r[v] + 1 \notin 0..(n - 1)
      BY <2>1
    <3> QED
      BY <3>1
  <2>3. r[first'] = r[v]
    BY <1>1, <2>2
  <2> QED
    BY <1>1, <2>3
<1>7. ASSUME NEW v \in Q
      PROVE  next'[v] = 0 => v = last' /\ r[v] = 0
  <2> SUFFICES ASSUME next'[v] = 0 PROVE v = last' /\ r[v] = 0
    OBVIOUS
  <2>1. \A w \in Q : r[v] # r[w] + 1
    BY <1>0, <1>4
  <2>2. r[v] = 0
    <3>1. r[v] - 1 \notin 0..(n - 1)
      BY <2>1
    <3> QED
      BY <3>1
  <2> QED
    BY <1>1, <2>2
<1>8. prev'[first'] = 0 /\ next'[last'] = 0
  <2>1. \A w \in Q : r[w] # r[first'] + 1 /\ r[last'] # r[w] + 1
    BY <1>1
  <2> QED
    BY <1>1, <1>3, <1>4, <2>1
<1>9. \A v \in Q : btab'[v] \in Int /\ btab'[v] <= bumped /\ btab'[v] <= btab'[last']
  BY <1>0, <1>1, <1>2
<1>10. \A v, w \in Q : btab'[v] = btab'[w] => v = w
  BY <1>0, <1>2
<1>11. ASSUME NEW v \in Q
       PROVE  IF prev'[v] = 0 THEN v = first' /\ \A w \in Q : btab'[v] <= btab'[w]
                              ELSE Pred(queued, v, prev[v])'
  <2>1. CASE prev'[v] = 0
    BY <1>0, <1>2, <1>6, <2>1
  <2>2. CASE prev'[v] # 0
    <3>1. prev'[v] \in Q /\ r[prev'[v]] = r[v] + 1
      BY <1>3, <2>2
    <3>2. btab'[prev'[v]] = btab'[v] - 1
      BY <1>0, <1>2, <3>1
    <3> QED
      BY <1>9, <2>2, <3>1, <3>2 DEF Pred, Nearest
  <2> QED
    BY <2>1, <2>2
<1>12. ASSUME NEW v \in Q
       PROVE  IF next'[v] = 0 THEN v = last' /\ \A w \in Q : btab'[w] <= btab'[v]
                              ELSE Succ(queued, v, next[v])'
  <2>1. CASE next'[v] = 0
    BY <1>0, <1>2, <1>7, <2>1
  <2>2. CASE next'[v] # 0
    <3>1. next'[v] \in Q /\ r[v] = r[next'[v]] + 1
      BY <1>4, <2>2
    <3>2. btab'[next'[v]] = btab'[v] + 1
      BY <1>0, <1>2, <3>1
    <3> QED
      BY <1>9, <2>2, <3>1, <3>2 DEF Succ, Nearest
  <2> QED
    BY <2>1, <2>2
<1>13. \A v \in Q : btab'[v] <= stamp'
  BY <1>0, <1>9
<1>14. Linked'
  BY <1>1, <1>8, <1>10, <1>11, <1>12, <1>13 DEF Linked
<1> QED
  BY <1>1, <1>2, <1>5, <1>9, <1>14

LEMMA RebuildInv ==
  ASSUME QInv, NEW Q \in SUBSET Var, NEW n \in Nat, NEW r, Q # {},
         \A v \in Q : r[v] \in 0..(n - 1),
         \A v, w \in Q : r[v] = r[w] => v = w,
         \A i \in 0..(n - 1) : \E v \in Q : r[v] = i,
         Rebuild(r, Q), queued' = Q, hole' \in {hole, 0}, pc = "search", rounds < MaxRounds,
         UNCHANGED <<live, assigned, fixed, stamp, analyzed, pc, walkVars>>, rounds' = rounds + 1
  PROVE  QInv'
<1> USE DEF QInv
<1>1. /\ Linked' /\ unassigned' = last' /\ bumped' = bumped /\ btab' \in [Var -> Int]
      /\ first' \in Q /\ last' \in Q /\ \A v \in Q : btab'[v] <= bumped /\ btab'[v] <= btab'[last']
      /\ prev' \in [Var -> Var \cup {0}] /\ next' \in [Var -> Var \cup {0}]
  BY RebuildLinked DEF PointerInv
<1>2. TypeOK'
  <2>1. rounds + 1 \in 0..MaxRounds
    BY BoundAssumption DEF TypeOK
  <2>2. live' \subseteq Var /\ hole' \in fixed' \cup {0}
    BY DEF TypeOK
  <2>3. {first', last', unassigned', idx', best', decision'} \subseteq Var \cup {0}
    BY <1>1 DEF TypeOK, walkVars
  <2>4. bumped' \in Int
    BY <1>1 DEF TypeOK
  <2> QED
    BY <1>1, <2>1, <2>2, <2>3, <2>4 DEF TypeOK, walkVars
<1>3. free' \subseteq queued'
  BY <1>2, Variables DEF TypeOK, free, queued
<1>4. PointerInv'
  BY <1>1, <1>3 DEF PointerInv
<1> QED
  BY <1>1, <1>2, <1>4 DEF WalkInv, DlisInv, IdleInv, DecisionIsBest, walkVars

LEMMA ShuffleReverseInv == ASSUME QInv, ShuffleReverse PROVE QInv'
<1> DEFINE r == [v \in Var |-> Cardinality({w \in queued : btab[w] < btab[v]})]
<1>1. /\ pc = "search" /\ rounds < MaxRounds /\ queued # {} /\ Rebuild(r, queued)
      /\ UNCHANGED <<live, assigned, fixed, stamp, analyzed, pc, walkVars>>
      /\ rounds' = rounds + 1 /\ hole' = hole /\ queued' = queued
  BY DEF ShuffleReverse, valueVars, queued
<1>2. queued \in SUBSET Var
  BY QueueTypes DEF QInv
<1>3. \A v \in queued : r[v] = Cardinality(Lower(queued, v))
  BY <1>2 DEF Lower
<1> HIDE DEF r
<1>4. PICK n : n = Cardinality(queued)
  OBVIOUS
<1>5. /\ n \in Nat
      /\ \A v \in queued : r[v] \in 0..(n - 1)
      /\ \A v, w \in queued : btab[v] < btab[w] => r[v] < r[w]
      /\ \A i \in 0..(n - 1) : \E v \in queued : r[v] = i
  BY <1>3, <1>4, Ranks DEF QInv
<1>6. ASSUME NEW v \in queued, NEW w \in queued, r[v] = r[w] PROVE v = w
  <2>1. ~(btab[v] < btab[w]) /\ ~(btab[w] < btab[v])
    BY <1>5, <1>6
  <2>2. btab[v] = btab[w]
    BY <2>1, QueueTypes DEF QInv
  <2> QED
    BY <2>2 DEF QInv, Linked
<1> QED
  BY <1>1, <1>2, <1>5, <1>6, RebuildInv

LEMMA ShuffleRandomInv == ASSUME QInv, ShuffleRandom PROVE QInv'
<1>1. PICK r \in [live -> 0..Cardinality(live) - 1] :
        /\ \A v, w \in live : r[v] = r[w] => v = w
        /\ Rebuild(r, live)
  BY DEF ShuffleRandom
<1>2. /\ pc = "search" /\ rounds < MaxRounds /\ live # {}
      /\ UNCHANGED <<live, assigned, fixed, stamp, analyzed, pc, walkVars>>
      /\ rounds' = rounds + 1 /\ hole' = 0
  BY DEF ShuffleRandom
<1>3. live \in SUBSET Var /\ 0 \notin live
  BY QueueTypes DEF QInv
<1>4. queued' = live
  BY <1>2, <1>3 DEF queued
<1>5. PICK n : n = Cardinality(live)
  OBVIOUS
<1>6. IsFiniteSet(live) /\ n \in Nat
  BY <1>3, <1>5, Variables, FS_Subset, FS_CardinalityType
<1>7. r \in [live -> 0..(n - 1)]
  BY <1>5
<1>8. r \in Injection(live, 0..(n - 1))
  BY <1>1, <1>7, Fun_IsInj
<1>9. IsFiniteSet(0..(n - 1)) /\ Cardinality(0..(n - 1)) = n
  BY <1>6, FS_Interval
<1>10. r \in Surjection(live, 0..(n - 1))
  BY <1>5, <1>8, <1>9, FS_Injection
<1>11. \A i \in 0..(n - 1) : \E v \in live : r[v] = i
  BY <1>10 DEF Surjection
<1> QED
  BY <1>1, <1>2, <1>3, <1>4, <1>6, <1>7, <1>11, RebuildInv

(* In a part of the queue every variable but the first has a predecessor, and
   every one but the last a successor. *)
LEMMA NearestExists ==
  ASSUME TypeOK, Linked, NEW S \in SUBSET queued, NEW v \in S, NEW u \in S
  PROVE  /\ btab[u] < btab[v] => \E w \in S : Pred(S, v, w)
         /\ btab[v] < btab[u] => \E w \in S : Succ(S, v, w)
<1> DEFINE R(w) == Cardinality(Lower(S, w))
<1>0. PICK n : n = Cardinality(S)
  OBVIOUS
<1>1. /\ n \in Nat /\ \A w \in S : R(w) \in 0..(n - 1)
      /\ \A w, x \in S : btab[w] < btab[x] => R(w) < R(x)
      /\ \A i \in 0..(n - 1) : \E w \in S : R(w) = i
  BY <1>0, Ranks
<1> HIDE DEF R
<1>2. \A w \in S : btab[w] \in Int
  BY QueueTypes
<1>3. ASSUME NEW w \in S, NEW x \in S, R(w) < R(x) PROVE btab[w] < btab[x]
  <2>1. ~(btab[x] < btab[w])
    BY <1>1, <1>3
  <2>2. btab[w] # btab[x]
    <3>1. w # x
      BY <1>1, <1>3
    <3> QED
      BY <3>1 DEF Linked
  <2> QED
    BY <1>2, <2>1, <2>2
<1>4. ASSUME btab[u] < btab[v] PROVE \E w \in S : Pred(S, v, w)
  <2>1. R(v) - 1 \in 0..(n - 1)
    BY <1>1, <1>4
  <2>2. PICK w \in S : R(w) = R(v) - 1
    BY <1>1, <2>1
  <2>3. btab[w] < btab[v]
    BY <1>1, <1>3, <2>2
  <2>4. ASSUME NEW x \in S, btab[w] < btab[x], btab[x] < btab[v] PROVE FALSE
    <3>1. R(w) < R(x) /\ R(x) < R(v) /\ R(w) \in Int /\ R(x) \in Int /\ R(v) \in Int
      BY <1>1, <2>4
    <3> QED
      BY <2>2, <3>1
  <2> QED
    BY <1>2, <2>3, <2>4 DEF Pred, Nearest
<1>5. ASSUME btab[v] < btab[u] PROVE \E w \in S : Succ(S, v, w)
  <2>1. R(v) + 1 \in 0..(n - 1)
    BY <1>1, <1>5
  <2>2. PICK w \in S : R(w) = R(v) + 1
    BY <1>1, <2>1
  <2>3. btab[v] < btab[w]
    BY <1>1, <1>3, <2>2
  <2>4. ASSUME NEW x \in S, btab[v] < btab[x], btab[x] < btab[w] PROVE FALSE
    <3>1. R(v) < R(x) /\ R(x) < R(w) /\ R(w) \in Int /\ R(x) \in Int /\ R(v) \in Int
      BY <1>1, <2>4
    <3> QED
      BY <2>2, <3>1
  <2> QED
    BY <1>2, <2>3, <2>4 DEF Succ, Nearest
<1> QED
  BY <1>4, <1>5

LEMMA CompactInv == ASSUME QInv, Compact PROVE QInv'
<1> USE DEF QInv
<1>0. PICK S \in SUBSET free :
       /\ hole' \in fixed \cup {0}
       /\ fixed' = {hole'} \ {0} /\ assigned' = fixed'
       /\ live' = S \cup fixed'
       /\ prev' = [v \in Var |-> IF v \in S /\ \E w \in S : Pred(S, v, w)
                                 THEN CHOOSE w \in S : Pred(S, v, w) ELSE 0]
       /\ next' = [v \in Var |-> IF v \in S /\ \E w \in S : Succ(S, v, w)
                                 THEN CHOOSE w \in S : Succ(S, v, w) ELSE 0]
       /\ IF S = {} THEN first' = 0 /\ last' = 0
          ELSE /\ first' \in S /\ \A w \in S : btab[first'] <= btab[w]
               /\ last' \in S /\ \A w \in S : btab[w] <= btab[last']
       /\ unassigned' = last' /\ UNCHANGED bumped
  BY DEF Compact
<1>1. /\ pc = "search" /\ rounds < MaxRounds /\ rounds' = rounds + 1
      /\ btab' = [v \in Var |-> IF v \in live' THEN btab[v] ELSE 0]
      /\ UNCHANGED <<stamp, analyzed, pc, walkVars>>
  BY DEF Compact
<1>2. /\ S \subseteq queued /\ S \subseteq Var /\ 0 \notin S /\ fixed \subseteq Var
      /\ S \cap fixed = {}
  BY QueueTypes, Variables DEF TypeOK, free
<1>3. queued' = S /\ free' = S
  BY <1>0, <1>2, Variables DEF queued, free
<1>4. \A v \in S : btab'[v] = btab[v] /\ btab[v] \in Int /\ btab[v] <= stamp
  BY <1>0, <1>1, <1>2, QueueTypes, Neighbours
<1>5. ASSUME NEW v \in S
      PROVE  \/ prev'[v] = 0 /\ \A w \in S : btab[v] <= btab[w]
             \/ prev'[v] \in S /\ Pred(S, v, prev'[v])
  <2>1. prev'[v] = IF \E w \in S : Pred(S, v, w) THEN CHOOSE w \in S : Pred(S, v, w) ELSE 0
    BY <1>0, <1>2
  <2>2. CASE \E w \in S : Pred(S, v, w)
    BY <2>1, <2>2
  <2>3. CASE ~ \E w \in S : Pred(S, v, w)
    <3>1. \A w \in S : ~(btab[w] < btab[v])
      BY <1>2, <2>3, NearestExists
    <3> QED
      BY <1>4, <2>1, <2>3, <3>1
  <2> QED
    BY <2>2, <2>3
<1>6. ASSUME NEW v \in S
      PROVE  \/ next'[v] = 0 /\ \A w \in S : btab[w] <= btab[v]
             \/ next'[v] \in S /\ Succ(S, v, next'[v])
  <2>1. next'[v] = IF \E w \in S : Succ(S, v, w) THEN CHOOSE w \in S : Succ(S, v, w) ELSE 0
    BY <1>0, <1>2
  <2>2. CASE \E w \in S : Succ(S, v, w)
    BY <2>1, <2>2
  <2>3. CASE ~ \E w \in S : Succ(S, v, w)
    <3>1. \A w \in S : ~(btab[v] < btab[w])
      BY <1>2, <2>3, NearestExists
    <3> QED
      BY <1>4, <2>1, <2>3, <3>1
  <2> QED
    BY <2>2, <2>3
<1>7. \A v, w \in S : btab[v] = btab[w] => v = w
  BY <1>2 DEF Linked
<1>8. S # {} => /\ first' \in S /\ last' \in S /\ prev'[first'] = 0 /\ next'[last'] = 0
                /\ \A w \in S : btab[first'] <= btab[w] /\ btab[w] <= btab[last']
  <2> SUFFICES ASSUME S # {}
      PROVE  /\ first' \in S /\ last' \in S /\ prev'[first'] = 0 /\ next'[last'] = 0
             /\ \A w \in S : btab[first'] <= btab[w] /\ btab[w] <= btab[last']
    OBVIOUS
  <2>1. /\ first' \in S /\ last' \in S
        /\ \A w \in S : btab[first'] <= btab[w] /\ btab[w] <= btab[last']
    BY <1>0
  <2>2. prev'[first'] = 0
    BY <1>4, <1>5, <2>1 DEF Pred
  <2>3. next'[last'] = 0
    BY <1>4, <1>6, <2>1 DEF Succ
  <2> QED
    BY <2>1, <2>2, <2>3
<1>9. ASSUME NEW v \in S
      PROVE  IF prev'[v] = 0 THEN v = first' /\ \A w \in S : btab'[v] <= btab'[w]
                             ELSE Pred(queued, v, prev[v])'
  <2>1. CASE prev'[v] = 0
    <3>1. \A w \in S : btab[v] <= btab[w]
      BY <1>2, <1>5, <2>1
    <3>2. btab[v] = btab[first']
      BY <1>4, <1>8, <3>1
    <3> QED
      BY <1>4, <1>7, <1>8, <2>1, <3>1, <3>2
  <2>2. CASE prev'[v] # 0
    <3>1. prev'[v] \in S /\ Pred(S, v, prev'[v])
      BY <1>5, <2>2
    <3> QED
      BY <1>3, <1>4, <2>2, <3>1 DEF Pred, Nearest
  <2> QED
    BY <2>1, <2>2
<1>10. ASSUME NEW v \in S
       PROVE  IF next'[v] = 0 THEN v = last' /\ \A w \in S : btab'[w] <= btab'[v]
                              ELSE Succ(queued, v, next[v])'
  <2>1. CASE next'[v] = 0
    <3>1. \A w \in S : btab[w] <= btab[v]
      BY <1>2, <1>6, <2>1
    <3>2. btab[v] = btab[last']
      BY <1>4, <1>8, <3>1
    <3> QED
      BY <1>4, <1>7, <1>8, <2>1, <3>1, <3>2
  <2>2. CASE next'[v] # 0
    <3>1. next'[v] \in S /\ Succ(S, v, next'[v])
      BY <1>6, <2>2
    <3> QED
      BY <1>3, <1>4, <2>2, <3>1 DEF Succ, Nearest
  <2> QED
    BY <2>1, <2>2
<1>11. \A v, w \in S : btab'[v] = btab'[w] => v = w
  BY <1>4, <1>7
<1>12. \A v \in S : btab'[v] <= stamp'
  BY <1>1, <1>4
<1>13. Linked'
  BY <1>0, <1>3, <1>8, <1>9, <1>10, <1>11, <1>12 DEF Linked
<1>14. TypeOK'
  <2>1. /\ prev' = [v \in Var |-> prev'[v]] /\ next' = [v \in Var |-> next'[v]]
        /\ \A v \in Var \ S : prev'[v] = 0 /\ next'[v] = 0
    BY <1>0
  <2>2. \A v \in Var : prev'[v] \in Var \cup {0} /\ next'[v] \in Var \cup {0}
    BY <1>2, <1>5, <1>6, <2>1
  <2>3. prev' \in [Var -> Var \cup {0}] /\ next' \in [Var -> Var \cup {0}]
    BY <2>1, <2>2
  <2>4. btab' \in [Var -> Int]
    BY <1>1 DEF TypeOK
  <2>5. rounds + 1 \in 0..MaxRounds
    BY <1>1, BoundAssumption DEF TypeOK
  <2>6. {first', last', unassigned', idx', best', decision'} \subseteq Var \cup {0}
    BY <1>0, <1>1, <1>2 DEF TypeOK, walkVars
  <2>7. live' \subseteq Var /\ assigned' \subseteq live' /\ fixed' \subseteq assigned'
    BY <1>0, <1>2
  <2>8. analyzed' = {} /\ hole' \in fixed' \cup {0}
    BY <1>0, <1>1 DEF IdleInv
  <2> QED
    BY <1>0, <1>1, <2>3, <2>4, <2>5, <2>6, <2>7, <2>8 DEF TypeOK, walkVars
<1>15. PointerInv'
  <2>1. bumped' <= stamp' /\ bumped' = bumped /\ unassigned' = last'
    BY <1>0, <1>1 DEF PointerInv
  <2>2. \A v \in S : btab[v] <= bumped
    BY <1>0 DEF PointerInv
  <2>3. CASE S = {}
    BY <1>0, <1>3, <2>1, <2>3 DEF PointerInv
  <2>4. CASE S # {}
    <3>1. first' \in S /\ last' \in S /\ \A v \in S : btab'[v] <= btab'[last']
      BY <1>4, <1>8, <2>4
    <3>2. \A v \in S : btab'[v] <= bumped
      BY <1>4, <2>2
    <3> QED
      BY <1>3, <2>1, <3>1, <3>2 DEF PointerInv
  <2> QED
    BY <2>3, <2>4
<1> QED
  BY <1>1, <1>13, <1>14, <1>15 DEF WalkInv, DlisInv, IdleInv, DecisionIsBest, walkVars

-----------------------------------------------------------------------------
(* The invariant and what it implies.                                      *)

LEMMA NextInv == ASSUME QInv, [Next]_vars PROVE QInv'
<1>1. CASE UNCHANGED vars
  <2>1. UNCHANGED <<live, assigned, fixed, hole, prev, next, first, last, unassigned, bumped,
                    btab, stamp, analyzed, pc, idx, occs, best, decision, rounds>>
    BY <1>1 DEF vars, valueVars, linkVars, pointVars, walkVars
  <2>2. Linked' /\ queued' = queued /\ free' = free
    BY <2>1, LinkedFrame DEF QInv, linkVars, free
  <2>3. TypeOK'
    BY <2>1 DEF QInv, TypeOK
  <2>4. PointerInv' /\ WalkInv'
    BY <2>1, <2>2 DEF QInv, PointerInv, WalkInv
  <2>5. DlisInv'
    BY <2>1, <2>2 DEF QInv, DlisInv, Seen, NoBetter, Score
  <2>6. IdleInv' /\ DecisionIsBest'
    BY <2>1, <2>2 DEF QInv, IdleInv, DecisionIsBest, Score
  <2> QED
    BY <2>2, <2>3, <2>4, <2>5, <2>6 DEF QInv
<1>2. CASE InitEnqueue
  BY <1>2, InitEnqueueInv
<1>3. CASE InitEnqueueReverse
  BY <1>3, InitEnqueueReverseInv
<1>4. CASE Assign
  BY <1>4, AssignInv
<1>5. CASE Unassign
  BY <1>5, UnassignInv
<1>6. CASE Analyze \/ StartBacktrack \/ EndBacktrack
  BY <1>6, ControlInv
<1>7. CASE BumpQueue
  BY <1>7, BumpQueueInv
<1>8. CASE StartWalk
  BY <1>8, StartWalkInv
<1>9. CASE StartDlis
  BY <1>9, StartDlisInv
<1>10. CASE Walk
  BY <1>10, WalkStep
<1>11. CASE EndWalk
  BY <1>11, EndWalkInv
<1>12. CASE DlisStep
  BY <1>12, DlisStepInv
<1>13. CASE EndDlis
  BY <1>13, EndDlisInv
<1>14. CASE Decided
  BY <1>14, DecidedInv
<1>15. CASE ShuffleReverse
  BY <1>15, ShuffleReverseInv
<1>16. CASE ShuffleRandom
  BY <1>16, ShuffleRandomInv
<1>17. CASE Compact
  BY <1>17, CompactInv
<1> QED
  BY <1>1, <1>2, <1>3, <1>4, <1>5, <1>6, <1>7, <1>8, <1>9, <1>10, <1>11, <1>12, <1>13,
     <1>14, <1>15, <1>16, <1>17 DEF Next, Find

(* The invariant holds in every reachable state. *)
THEOREM QueueInvariant == Spec => []QInv
<1>1. Init => QInv
  BY InitInv
<1>2. QInv /\ [Next]_vars => QInv'
  BY NextInv
<1> QED
  BY <1>1, <1>2, PTL DEF Spec

(* Links, stamps and the pointers keep their ranges: no bump, flush or search
   makes a link point outside of the variables in the queue. *)
THEOREM QueueTyped == Spec => []TypeOK
<1>1. QInv => TypeOK
  BY DEF QInv
<1> QED
  BY <1>1, QueueInvariant, PTL

(* The queue is a well-formed list in the order of different stamps, after any
   sequence of initialisation, bumping, shuffling and compaction. *)
THEOREM QueueLinked == Spec => []Linked
<1>1. QInv => Linked
  BY DEF QInv
<1> QED
  BY <1>1, QueueInvariant, PTL

(* No unassigned variable is after queue.unassigned, though the pointer is only
   moved back when the stamp cached with it is smaller than that of the variable
   being unassigned. *)
THEOREM PointerCovers == Spec => []AfterPointerAssigned
<1>1. QInv => AfterPointerAssigned
  <2>1. QInv => free \subseteq queued
    BY QueueTypes DEF QInv
  <2> QED
    BY <2>1 DEF QInv, PointerInv, AfterPointerAssigned
<1> QED
  BY <1>1, QueueInvariant, PTL

(* The walk of next_decision_variable_on_queue never leaves the list. *)
THEOREM WalkSafe == Spec => []WalkStaysOnQueue
<1>1. QInv => WalkStaysOnQueue
  BY DEF QInv, WalkInv, WalkStaysOnQueue
<1> QED
  BY <1>1, QueueInvariant, PTL

(* Both searches return an unassigned variable, the best one. *)
THEOREM DecisionCorrect == Spec => []DecisionIsBest
<1>1. QInv => DecisionIsBest
  BY DEF QInv
<1> QED
  BY <1>1, QueueInvariant, PTL

-----------------------------------------------------------------------------
(* The queue implements the order of DecisionOrder.                        *)

LEMMA OrderFrame ==
  ASSUME TypeOK, queued' = queued, \A v \in queued : btab'[v] = btab[v]
  PROVE  Before' = Before
BY DEF Before

LEMMA NewStep ==
  ASSUME QInv, QInv', InitEnqueue \/ InitEnqueueReverse
  PROVE  Abstract!New
<1> USE DEF QInv
<1>1. PICK v \in Var \ live :
        /\ live' = live \cup {v}
        /\ \/ InitEnqueue /\ btab' = [btab EXCEPT ![v] = stamp + 1]
           \/ /\ InitEnqueueReverse
              /\ btab' = [btab EXCEPT ![v] = IF first = 0 THEN 0 ELSE btab[first] - 1]
  BY DEF InitEnqueue, InitEnqueueReverse, IsFirstOf
<1>2. /\ queued' = queued \cup {v} /\ free' = free \cup {v} /\ v \notin queued
      /\ decision' = decision
  BY <1>1, NewVariable DEF InitEnqueue, InitEnqueueReverse, walkVars
<1>3. /\ \A w \in queued : btab'[w] = btab[w] /\ btab[w] \in Int /\ btab[w] <= stamp
      /\ stamp \in Int
  BY <1>1, <1>2, QueueTypes, Neighbours DEF TypeOK
<1>4. CASE InitEnqueue /\ btab' = [btab EXCEPT ![v] = stamp + 1]
  <2>1. btab'[v] = stamp + 1
    BY <1>1, <1>4 DEF TypeOK
  <2>2. \A w \in queued : btab'[w] < btab'[v] /\ ~(btab'[v] < btab'[w])
    BY <1>3, <2>1
  <2>3. Before' = Before \cup (queued \X {v})
    BY <1>2, <1>3, <2>1, <2>2 DEF Before
  <2> QED
    BY <1>1, <1>2, <2>3 DEF Abstract!New
<1>5. CASE /\ InitEnqueueReverse
           /\ btab' = [btab EXCEPT ![v] = IF first = 0 THEN 0 ELSE btab[first] - 1]
  <2>1. btab'[v] = IF first = 0 THEN 0 ELSE btab[first] - 1
    BY <1>1, <1>5 DEF TypeOK
  <2>2. ASSUME NEW w \in queued PROVE btab'[v] < btab'[w] /\ ~(btab'[w] < btab'[v])
    <3>1. first \in queued /\ first # 0 /\ btab[first] <= btab[w]
      BY Extremes, QueueTypes
    <3> QED
      BY <1>3, <2>1, <3>1
  <2>3. btab'[v] \in Int
    <3>1. first = 0 \/ first \in queued
      BY DEF Linked
    <3> QED
      BY <1>3, <2>1, <3>1
  <2>4. Before' = Before \cup ({v} \X queued)
    BY <1>2, <1>3, <2>2, <2>3 DEF Before
  <2> QED
    BY <1>1, <1>2, <2>4 DEF Abstract!New
<1> QED
  BY <1>1, <1>4, <1>5

LEMMA BumpStep ==
  ASSUME QInv, QInv', BumpQueue
  PROVE  Abstract!Bump \/ UNCHANGED <<queued, free, Before, decision>>
<1> USE DEF QInv
<1>0. PICK v \in analyzed :
        \/ next[v] = 0 /\ UNCHANGED btab
        \/ next[v] # 0 /\ btab' = [btab EXCEPT ![v] = stamp + 1]
  BY DEF BumpQueue
<1>1. queued' = queued /\ free' = free /\ decision' = decision
  BY DEF BumpQueue, queued, free, valueVars, walkVars
<1>2. v \in queued /\ v \in Var
  BY QueueTypes DEF TypeOK, queued
<1>3. CASE UNCHANGED btab
  BY <1>1, <1>3, OrderFrame
<1>4. CASE btab' = [btab EXCEPT ![v] = stamp + 1]
  <2>1. btab'[v] = stamp + 1 /\ \A w \in queued \ {v} : btab'[w] = btab[w]
    BY <1>2, <1>4, QueueTypes DEF TypeOK
  <2>2. \A w \in queued \ {v} : btab'[w] < btab'[v] /\ ~(btab'[v] < btab'[w])
    BY <2>1, Neighbours, QueueTypes
  <2>3. ~(btab'[v] < btab'[v])
    BY <2>1, QueueTypes
  <2>4. Before' = {p \in queued \X queued : btab'[p[1]] < btab'[p[2]]}
    BY <1>1 DEF Before
  <2>5. ASSUME NEW a \in queued, NEW b \in queued
        PROVE  btab'[a] < btab'[b] <=>
                 (a # v /\ b # v /\ btab[a] < btab[b]) \/ (a # v /\ b = v)
    BY <2>1, <2>2, <2>3
  <2>6. Before' = Abstract!Between(Before, queued \ {v}) \cup ((queued \ {v}) \X {v})
    <3>1. Abstract!Between(Before, queued \ {v})
            = {p \in (queued \ {v}) \X (queued \ {v}) : btab[p[1]] < btab[p[2]]}
      BY DEF Abstract!Between, Before
    <3> QED
      BY <1>2, <2>4, <2>5, <3>1
  <2> QED
    BY <1>1, <1>2, <2>6 DEF Abstract!Bump
<1> QED
  BY <1>0, <1>3, <1>4

LEMMA DecideStep ==
  ASSUME QInv, QInv', EndWalk \/ EndDlis
  PROVE  Abstract!Decide
<1> USE DEF QInv
<1>1. /\ pc' = "decided" /\ UNCHANGED <<live, hole, assigned, btab, occs>>
  BY DEF EndWalk, EndDlis, valueVars
<1>2. queued' = queued /\ free' = free
  BY <1>1 DEF queued, free
<1>3. Before' = Before
  BY <1>1, <1>2, OrderFrame
<1> DEFINE score == [v \in Var |-> Score(v)]
<1>4. score \in [Var -> 0..MaxOccs]
  <2>1. \A v \in Var : occs[v] \in 0..MaxOccs /\ MaxOccs \in Nat
    BY BoundAssumption DEF TypeOK
  <2>2. \A v \in Var : Score(v) \in 0..MaxOccs
    BY <2>1 DEF Score
  <2> QED
    BY <2>2
<1>5. /\ decision' \in free
      /\ \A v \in free : \/ Score(v) < Score(decision')
                         \/ Score(v) = Score(decision') /\ btab[v] <= btab[decision']
  BY <1>1, <1>2 DEF DecisionIsBest, Score
<1>6. ASSUME NEW u \in free \ {decision'}
      PROVE  \/ score[u] < score[decision']
             \/ score[u] = score[decision'] /\ <<u, decision'>> \in Before
  <2>1. /\ u \in queued /\ decision' \in queued /\ u \in Var /\ decision' \in Var
        /\ btab[u] \in Int /\ btab[decision'] \in Int
    BY <1>5, QueueTypes
  <2>2. btab[u] # btab[decision']
    BY <1>6, <2>1 DEF Linked
  <2>3. score[u] = Score(u) /\ score[decision'] = Score(decision')
    BY <2>1
  <2>4. CASE Score(u) < Score(decision')
    BY <2>3, <2>4
  <2>5. CASE Score(u) = Score(decision') /\ btab[u] <= btab[decision']
    BY <2>1, <2>2, <2>3, <2>5 DEF Before
  <2> QED
    BY <1>5, <2>4, <2>5
<1> HIDE DEF score
<1> QED
  BY <1>2, <1>3, <1>4, <1>5, <1>6 DEF Abstract!Decide

LEMMA ReorderStep ==
  ASSUME QInv, QInv', ShuffleReverse \/ ShuffleRandom
  PROVE  Abstract!Reorder
<1> USE DEF QInv
<1>1. live' = live /\ assigned' = assigned /\ decision' = decision /\ hole' \in {hole, 0}
  BY DEF ShuffleReverse, ShuffleRandom, valueVars, walkVars
<1>2. free' = free /\ queued \subseteq queued' /\ queued' \subseteq Var
  BY <1>1, QueueTypes DEF free, queued
<1>3. \A v \in queued' : btab'[v] \in Int
  BY <1>2 DEF TypeOK
<1>4. \A v, w \in queued' : btab'[v] = btab'[w] => v = w
  BY DEF Linked
<1>5. Abstract!IsOrder(Before', queued')
  <2>1. Before' = {p \in queued' \X queued' : btab'[p[1]] < btab'[p[2]]}
    BY DEF Before
  <2>2. \A u, v \in queued' : <<u, v>> \in Before' <=> btab'[u] < btab'[v]
    BY <2>1
  <2>3. Before' \subseteq queued' \X queued'
    BY <2>1
  <2>4. \A u \in queued' : <<u, u>> \notin Before'
    BY <1>3, <2>2
  <2>5. \A u, v \in queued' : u # v => (<<u, v>> \in Before') # (<<v, u>> \in Before')
    BY <1>3, <1>4, <2>2
  <2>6. \A u, v, w \in queued' : <<u, v>> \in Before' /\ <<v, w>> \in Before' => <<u, w>> \in Before'
    BY <1>3, <2>2
  <2> QED
    BY <2>3, <2>4, <2>5, <2>6 DEF Abstract!IsOrder
<1> QED
  BY <1>1, <1>2, <1>5 DEF Abstract!Reorder

LEMMA FlushStep ==
  ASSUME QInv, QInv', Compact
  PROVE  Abstract!Flush
<1> USE DEF QInv
<1>1. PICK S \in SUBSET free :
       /\ hole' \in fixed \cup {0}
       /\ fixed' = {hole'} \ {0} /\ assigned' = fixed'
       /\ live' = S \cup fixed'
  BY DEF Compact
<1>2. /\ btab' = [v \in Var |-> IF v \in live' THEN btab[v] ELSE 0]
      /\ decision' = decision
  BY DEF Compact, walkVars
<1>3. /\ S \subseteq queued /\ S \subseteq Var /\ 0 \notin S /\ fixed \subseteq Var
      /\ S \cap fixed = {}
  BY QueueTypes, Variables DEF TypeOK, free
<1>4. queued' = S /\ free' = S
  BY <1>1, <1>3, Variables DEF queued, free
<1>5. \A v \in S : btab'[v] = btab[v]
  BY <1>1, <1>2, <1>3
<1>6. Before' = Abstract!Between(Before, S)
  BY <1>3, <1>4, <1>5 DEF Abstract!Between, Before
<1> QED
  BY <1>2, <1>3, <1>4, <1>6 DEF Abstract!Flush

LEMMA OtherSteps ==
  ASSUME QInv, QInv'
  PROVE  /\ Assign => Abstract!Assign
         /\ Unassign => Abstract!Unassign
         /\ Decided => Abstract!Assign \/ Abstract!Forget
         /\ Analyze \/ StartBacktrack \/ EndBacktrack \/ StartWalk \/ Walk
              \/ StartDlis \/ DlisStep \/ UNCHANGED vars
            => UNCHANGED <<queued, free, Before, decision>>
<1> USE DEF QInv
<1>1. ASSUME Assign PROVE Abstract!Assign
  <2>1. PICK v \in free : assigned' = assigned \cup {v}
    BY <1>1 DEF Assign
  <2>2. live' = live /\ hole' = hole /\ btab' = btab /\ decision' = decision /\ decision = 0
    BY <1>1 DEF Assign, IdleInv, walkVars
  <2>3. queued' = queued /\ free' = free \ {v}
    BY <2>1, <2>2 DEF queued, free
  <2>4. Before' = Before
    BY <2>2, <2>3, OrderFrame
  <2> QED
    BY <2>1, <2>2, <2>3, <2>4 DEF Abstract!Assign
<1>2. ASSUME Unassign PROVE Abstract!Unassign
  <2>1. PICK v \in assigned \ fixed : assigned' = assigned \ {v}
    BY <1>2 DEF Unassign
  <2>2. live' = live /\ hole' = hole /\ btab' = btab /\ decision' = decision
    BY <1>2 DEF Unassign, walkVars
  <2>3. v \in live /\ v # hole
    BY <2>1, QueueTypes DEF TypeOK
  <2>4. queued' = queued /\ free' = free \cup {v} /\ v \in queued \ free
    BY <2>1, <2>2, <2>3 DEF queued, free
  <2>5. Before' = Before
    BY <2>2, <2>4, OrderFrame
  <2> QED
    BY <2>1, <2>2, <2>4, <2>5 DEF Abstract!Unassign
<1>3. ASSUME Decided PROVE Abstract!Assign \/ Abstract!Forget
  <2>1. /\ live' = live /\ hole' = hole /\ btab' = btab /\ decision' = 0
        /\ assigned' \in {assigned, assigned \cup ({decision} \ {0})}
    BY <1>3 DEF Decided
  <2>2. decision \in free /\ decision # 0
    BY <1>3, QueueTypes DEF Decided, DecisionIsBest
  <2>3. queued' = queued /\ free' \in {free, free \ {decision}}
    BY <2>1, <2>2 DEF queued, free
  <2>4. Before' = Before
    BY <2>1, <2>3, OrderFrame
  <2> QED
    BY <2>1, <2>2, <2>3, <2>4 DEF Abstract!Assign, Abstract!Forget
<1>4. ASSUME Analyze \/ StartBacktrack \/ EndBacktrack \/ StartWalk \/ Walk
               \/ StartDlis \/ DlisStep \/ UNCHANGED vars
      PROVE  UNCHANGED <<queued, free, Before, decision>>
  <2>1. UNCHANGED <<live, hole, assigned, btab, decision>>
    BY <1>4 DEF Analyze, StartBacktrack, EndBacktrack, StartWalk, Walk, StartDlis,
                DlisStep, vars, valueVars, walkVars
  <2>2. queued' = queued /\ free' = free
    BY <2>1 DEF queued, free
  <2> QED
    BY <2>1, <2>2, OrderFrame
<1> QED
  BY <1>1, <1>2, <1>3, <1>4

(* The list, the stamps and the pointer implement the order of DecisionOrder,
   from which decisions take the last unassigned variable, or the best one. *)
THEOREM QueueImplementsOrder == Spec => ImplementsOrder
<1>1. Init => Abstract!Init
  <2> SUFFICES ASSUME Init PROVE Abstract!Init
    OBVIOUS
  <2>1. queued = {} /\ free = {} /\ decision = 0
    BY DEF Init, queued, free
  <2> QED
    BY <2>1 DEF Abstract!Init, Before
<1>2. QInv /\ QInv' /\ [Next]_vars => [Abstract!Next]_(Abstract!vars)
  <2> SUFFICES ASSUME QInv, QInv', [Next]_vars
               PROVE  Abstract!Next \/ UNCHANGED <<queued, free, Before, decision>>
    BY DEF Abstract!vars
  <2>1. CASE InitEnqueue \/ InitEnqueueReverse
    BY <2>1, NewStep DEF Abstract!Next
  <2>2. CASE BumpQueue
    BY <2>2, BumpStep DEF Abstract!Next
  <2>3. CASE EndWalk \/ EndDlis
    BY <2>3, DecideStep DEF Abstract!Next
  <2>4. CASE ShuffleReverse \/ ShuffleRandom
    BY <2>4, ReorderStep DEF Abstract!Next
  <2>5. CASE Compact
    BY <2>5, FlushStep DEF Abstract!Next
  <2>6. CASE Assign \/ Unassign \/ Decided
    BY <2>6, OtherSteps DEF Abstract!Next
  <2>7. CASE Analyze \/ StartBacktrack \/ EndBacktrack \/ StartWalk \/ Walk
               \/ StartDlis \/ DlisStep \/ UNCHANGED vars
    BY <2>7, OtherSteps
  <2> QED
    BY <2>1, <2>2, <2>3, <2>4, <2>5, <2>6, <2>7 DEF Next, Find
<1> QED
  BY <1>1, <1>2, QueueInvariant, PTL DEF Spec, ImplementsOrder, Abstract!Spec

-----------------------------------------------------------------------------
(* Bumping in the order of the queue, under the default options.           *)

DefaultOptions == ~Reverse /\ ~Shuffling /\ MaxBumped < RankModulus

(* Then the stamps are natural numbers below the modulus of the ranks. *)
StampInv ==
  /\ \A v \in queued : btab[v] >= 0
  /\ IsFiniteSet(analyzed) /\ stamp + Cardinality(analyzed) <= MaxBumped

LEMMA StampInvInit == Init => StampInv
BY FS_EmptySet, BoundAssumption DEF Init, StampInv, queued

LEMMA StampInvNext ==
  ASSUME DefaultOptions, QInv, QInv', StampInv, [Next]_vars
  PROVE  StampInv'
<1>0. /\ stamp \in Nat /\ MaxBumped \in Nat
      /\ \A v \in queued : v \in Var /\ btab[v] \in Int /\ btab[v] <= stamp
      /\ IsFiniteSet(analyzed) /\ Cardinality(analyzed) \in Nat
  BY QueueTypes, Neighbours, BoundAssumption, FS_CardinalityType DEF QInv, TypeOK, StampInv
<1>1. CASE InitEnqueue
  <2>1. PICK v \in Var \ live : live' = live \cup {v} /\ btab' = [btab EXCEPT ![v] = stamp + 1]
    BY <1>1 DEF InitEnqueue, IsFirstOf
  <2>2. /\ stamp' = stamp + 1 /\ stamp < MaxBumped /\ analyzed' = analyzed /\ analyzed = {}
        /\ hole' = hole /\ assigned' = assigned
    BY <1>1 DEF InitEnqueue, QInv, IdleInv
  <2>3. queued' = queued \cup {v} /\ btab'[v] = stamp + 1 /\ \A w \in queued : btab'[w] = btab[w]
    BY <1>0, <2>1, <2>2, NewVariable DEF QInv, TypeOK
  <2>4. Cardinality(analyzed) = 0
    BY <2>2, FS_EmptySet
  <2> QED
    BY <1>0, <2>2, <2>3, <2>4 DEF StampInv
<1>2. CASE Analyze
  <2>1. /\ \A v \in queued' : v \in queued /\ btab'[v] = btab[v]
        /\ stamp' = stamp /\ stamp + Cardinality(analyzed') <= MaxBumped
    BY <1>2 DEF Analyze, queued, valueVars
  <2>2. analyzed' \subseteq Var
    BY <1>2 DEF Analyze, QInv, TypeOK
  <2>3. IsFiniteSet(analyzed')
    BY <2>2, Variables, FS_Subset
  <2> QED
    BY <2>1, <2>3 DEF StampInv
<1>3. CASE BumpQueue
  <2>1. PICK v \in analyzed :
          /\ analyzed' = analyzed \ {v}
          /\ \/ UNCHANGED <<btab, stamp>>
             \/ stamp' = stamp + 1 /\ btab' = [btab EXCEPT ![v] = stamp + 1]
    BY <1>3 DEF BumpQueue
  <2>2. queued' = queued
    BY <1>3 DEF BumpQueue, queued, valueVars
  <2>3. IsFiniteSet(analyzed') /\ Cardinality(analyzed') = Cardinality(analyzed) - 1
    BY <1>0, <2>1, FS_RemoveElement
  <2>4. \A w \in queued : btab'[w] >= 0
    BY <1>0, <2>1 DEF StampInv, QInv, TypeOK
  <2> QED
    BY <1>0, <2>1, <2>2, <2>3, <2>4 DEF StampInv
<1>4. CASE Compact
  <2>1. /\ stamp' = stamp /\ analyzed' = analyzed
        /\ btab' = [v \in Var |-> IF v \in live' THEN btab[v] ELSE 0]
    BY <1>4 DEF Compact
  <2>2. queued' \subseteq queued /\ queued' \subseteq live'
    <3>1. PICK S \in SUBSET free :
           /\ hole' \in fixed \cup {0} /\ fixed' = {hole'} \ {0} /\ live' = S \cup fixed'
      BY <1>4 DEF Compact
    <3>2. S \subseteq queued /\ 0 \notin S
      BY QueueTypes DEF QInv
    <3> QED
      BY <3>1, <3>2 DEF queued
  <2> QED
    BY <1>0, <2>1, <2>2 DEF StampInv
<1>5. CASE InitEnqueueReverse \/ ShuffleReverse \/ ShuffleRandom
  BY <1>5 DEF DefaultOptions, InitEnqueueReverse, ShuffleReverse, ShuffleRandom
<1>6. CASE Assign \/ Unassign \/ StartBacktrack \/ EndBacktrack \/ StartWalk \/ StartDlis
             \/ Find \/ Decided \/ UNCHANGED vars
  <2>1. UNCHANGED <<live, hole, btab, stamp, analyzed>>
    BY <1>6 DEF Assign, Unassign, StartBacktrack, EndBacktrack, StartWalk, StartDlis, Find,
                Walk, EndWalk, DlisStep, EndDlis, Decided, vars, valueVars
  <2> QED
    BY <2>1 DEF StampInv, queued
<1> QED
  BY <1>1, <1>2, <1>3, <1>4, <1>5, <1>6 DEF Next

(* The order in which the ranks are sorted is the order of the stamps. *)
LEMMA RanksAreStamps ==
  ASSUME DefaultOptions, QInv, StampInv, NEW v \in analyzed
  PROVE  Rank(v) = btab[v] /\ v \in queued /\ btab[v] \in Int
<1>1. v \in queued /\ btab[v] \in Int /\ stamp \in Nat
  BY QueueTypes DEF QInv, TypeOK, queued
<1>2. btab[v] >= 0 /\ btab[v] <= stamp
  BY <1>1 DEF StampInv, QInv, Linked
<1>3. stamp <= MaxBumped
  BY <1>1, FS_CardinalityType, BoundAssumption DEF StampInv
<1>4. btab[v] \in 0..(RankModulus - 1) /\ RankModulus \in Nat \ {0}
  BY <1>1, <1>2, <1>3, BoundAssumption DEF DefaultOptions
<1>5. ASSUME NEW x \in Nat, NEW m \in Nat \ {0}, x < m PROVE x % m = x
  BY <1>5
<1> QED
  BY <1>1, <1>4, <1>5 DEF Rank

(* Analyzed variables are bumped in the order of the queue, if no new variable
   is put in front of it and it is not shuffled: with opts.reverse, stamps are
   negative and their ranks are not. *)
THEOREM BumpOrder == ASSUME DefaultOptions PROVE Spec => BumpedInOrder
<1>1. ASSUME QInv, StampInv, [Next]_vars
      PROVE  [\A v \in analyzed \ analyzed' : \A w \in analyzed' : btab[v] < btab[w]]_vars
  <2> SUFFICES ASSUME NEW v \in analyzed \ analyzed', NEW w \in analyzed'
               PROVE  btab[v] < btab[w]
    OBVIOUS
  <2>1. CASE BumpQueue
    <3>1. /\ v \in analyzed /\ w \in analyzed /\ v # w
          /\ \A u \in analyzed : Rank(v) <= Rank(u)
      BY <2>1 DEF BumpQueue, IsNext
    <3>2. /\ Rank(v) = btab[v] /\ Rank(w) = btab[w] /\ v \in queued /\ w \in queued
          /\ btab[v] \in Int /\ btab[w] \in Int
      BY <1>1, <3>1, RanksAreStamps
    <3>3. btab[v] # btab[w]
      BY <1>1, <3>1, <3>2 DEF QInv, Linked
    <3> QED
      BY <3>1, <3>2, <3>3
  <2>2. CASE Analyze
    BY <2>2 DEF Analyze
  <2>3. CASE ~BumpQueue /\ ~Analyze
    <3>1. analyzed' = analyzed
      BY <1>1, <2>3 DEF Next, InitEnqueue, InitEnqueueReverse, Assign, Unassign,
         StartBacktrack, EndBacktrack, StartWalk, StartDlis, Find, Walk, EndWalk, DlisStep,
         EndDlis, Decided, ShuffleReverse, ShuffleRandom, Compact, vars
    <3> QED
      BY <3>1
  <2> QED
    BY <2>1, <2>2, <2>3
<1>2. QInv /\ QInv' /\ StampInv /\ [Next]_vars => StampInv'
  BY StampInvNext
<1> QED
  BY <1>1, <1>2, StampInvInit, QueueInvariant, PTL DEF Spec, BumpedInOrder
=============================================================================
