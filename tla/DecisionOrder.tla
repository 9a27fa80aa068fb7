--------------------------- MODULE DecisionOrder ---------------------------
(***************************************************************************)
(* What the decision queue promises the search: a strict order of the      *)
(* variables in use, to the end of which a variable is moved when it is    *)
(* bumped, and decisions that take the last unassigned variable of that    *)
(* order, or one that scores best.  How the last unassigned variable is    *)
(* found is the business of module DecisionQueue.                          *)
(***************************************************************************)
EXTENDS Integers

CONSTANTS
  Var,     \* the variables
  Scores   \* the values a score may have

VARIABLES
  queued,   \* the variables in the order
  free,     \* those that are unassigned
  order,    \* the pairs <<u, v>> with u before v
  decision  \* the answer to the last question for a decision, or 0

vars == <<queued, free, order, decision>>

IsOrder(R, S) ==
  /\ R \subseteq S \X S
  /\ \A u \in S : <<u, u>> \notin R
  /\ \A u, v \in S : u # v => (<<u, v>> \in R) # (<<v, u>> \in R)
  /\ \A u, v, w \in S : <<u, v>> \in R /\ <<v, w>> \in R => <<u, w>> \in R
Between(R, S) == {p \in R : p[1] \in S /\ p[2] \in S}

New == \E v \in Var \ queued :
  /\ queued' = queued \cup {v} /\ free' = free \cup {v}
  /\ \/ order' = order \cup (queued \X {v})
     \/ order' = order \cup ({v} \X queued)
  /\ UNCHANGED decision

Assign == \E v \in free :
  /\ free' = free \ {v} /\ decision' = 0
  /\ UNCHANGED <<queued, order>>

Unassign == \E v \in queued \ free :
  /\ free' = free \cup {v}
  /\ UNCHANGED <<queued, order, decision>>

Bump == \E v \in queued :
  /\ order' = Between(order, queued \ {v}) \cup ((queued \ {v}) \X {v})
  /\ UNCHANGED <<queued, free, decision>>

Reorder ==
  /\ queued \subseteq queued' /\ queued' \subseteq Var
  /\ IsOrder(order', queued')
  /\ UNCHANGED <<free, decision>>

Flush ==
  /\ queued' \subseteq queued
  /\ free' = free \cap queued' /\ order' = Between(order, queued')
  /\ UNCHANGED decision

(* With equal scores, as for VMTF, this is the last unassigned variable. *)
Decide == \E score \in [Var -> Scores] :
  /\ decision' \in free
  /\ \A u \in free \ {decision'} :
       \/ score[u] < score[decision']
       \/ score[u] = score[decision'] /\ <<u, decision'>> \in order
  /\ UNCHANGED <<queued, free, order>>

Forget == decision' = 0 /\ UNCHANGED <<queued, free, order>>

Init == queued = {} /\ free = {} /\ order = {} /\ decision = 0
Next == New \/ Assign \/ Unassign \/ Bump \/ Reorder \/ Flush \/ Decide \/ Forget
Spec == Init /\ [][Next]_vars
=============================================================================
