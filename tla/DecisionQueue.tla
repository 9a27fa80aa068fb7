--------------------------- MODULE DecisionQueue ---------------------------
(***************************************************************************)
(* The VMTF decision queue: the doubly linked list of the variables in     *)
(* bump order (Queue, Links, btab) with the lazily updated pointer         *)
(* 'queue.unassigned', as initialisation, unassignment, bumping, the       *)
(* search for the next decision (VMTF and DLIS), shuffling and compaction  *)
(* use it.  The trail is the set of assigned variables.                    *)
(*                                                                         *)
(* Abstracted: the scores of DLIS are any numbers, what is bumped is any   *)
(* set of assigned variables, and compaction keeps the names of the        *)
(* variables it keeps (the code renumbers them, in the same order).        *)
(***************************************************************************)
EXTENDS Integers, FiniteSets

CONSTANTS
  Var,         \* the variables 1..max_var that may come into use
  Reverse,     \* opts.reverse
  Dlis,        \* opts.dlis
  Shuffling,   \* opts.shuffle, with opts.shufflerandom either way
  RankModulus, \* 2^64: the ranks to sort by are unsigned
  MaxOccs,     \* bound: the watches of a variable and its negation
  MaxBumped,   \* bound: stats.bumped
  MaxRounds    \* bound: shuffles and compactions

ASSUME VarAssumption == Var \subseteq Nat \ {0} /\ IsFiniteSet(Var)
ASSUME OptionAssumption == {Reverse, Dlis, Shuffling} \subseteq BOOLEAN
ASSUME BoundAssumption ==
  {MaxOccs, MaxBumped, MaxRounds} \subseteq Nat /\ RankModulus \in Nat \ {0}

VARIABLES
  live,       \* the variables in use
  assigned,   \* those with a value
  fixed,      \* those with a value on the root level
  hole,       \* the fixed variable compaction left out of the queue, or 0
  prev, next, \* links
  first, last, unassigned, bumped, \* queue
  btab,       \* the stamps
  stamp,      \* stats.bumped
  analyzed,   \* variables that conflict analysis has still to bump
  pc,         \* "search", "walk" (VMTF), "dlis", "decided", "analyze" or "backtrack"
  idx,        \* the cursor of a walk through the queue
  occs,       \* DLIS: the watches counted for a variable and its negation
  best,       \* DLIS: best_lit
  decision,   \* the variable found, or 0
  rounds      \* shuffles and compactions so far

linkVars  == <<prev, next, first, last>>
pointVars == <<unassigned, bumped>>
valueVars == <<live, assigned, fixed, hole>>
walkVars  == <<idx, occs, best, decision>>
vars == <<valueVars, linkVars, pointVars, btab, stamp, analyzed, pc, walkVars, rounds>>

queued == live \ {hole}
free == live \ assigned
None == [v \in Var |-> 0]

-----------------------------------------------------------------------------
(* Seeded fault: queue.bumped is not set with the pointer. *)
UpdateQueueUnassigned_NoStamp(v) == unassigned' = v /\ bumped' = bumped
UpdateQueueUnassigned(v) == unassigned' = v /\ bumped' = btab'[v]

(* dequeue and enqueue of v: v is not the last variable of the queue. *)
Dequeue(v) ==
  [p |-> [prev EXCEPT ![next[v]] = prev[v]],
   n |-> IF prev[v] # 0 THEN [next EXCEPT ![prev[v]] = next[v]] ELSE next,
   f |-> IF prev[v] # 0 THEN first ELSE next[v]]
MoveToEnd(v) ==
  LET d == Dequeue(v)
  IN /\ prev' = [d.p EXCEPT ![v] = last]
     /\ next' = [d.n EXCEPT ![last] = v, ![v] = 0]
     /\ first' = d.f /\ last' = v

(* init_enqueue of the next variable, without and with opts.reverse. *)
IsFirstOf(v, S) == v \in S /\ \A w \in S : v <= w

InitEnqueue ==
  /\ pc = "search" /\ ~Reverse /\ stamp < MaxBumped
  /\ \E v \in Var :
       /\ IsFirstOf(v, Var \ live)
       /\ live' = live \cup {v}
       /\ prev' = [prev EXCEPT ![v] = last]
       /\ next' = [w \in Var |-> IF w = v THEN 0 ELSE IF w = last THEN v ELSE next[w]]
       /\ first' = (IF last = 0 THEN v ELSE first) /\ last' = v
       /\ stamp' = stamp + 1 /\ btab' = [btab EXCEPT ![v] = stamp + 1]
       /\ UpdateQueueUnassigned(v)
  /\ UNCHANGED <<assigned, fixed, hole, analyzed, pc, walkVars, rounds>>

InitEnqueueReverse ==
  /\ pc = "search" /\ Reverse
  /\ \E v \in Var :
       /\ IsFirstOf(v, Var \ live)
       /\ live' = live \cup {v}
       /\ next' = [next EXCEPT ![v] = first]
       /\ prev' = [w \in Var |-> IF w = v THEN 0 ELSE IF w = first THEN v ELSE prev[w]]
       /\ last' = (IF first = 0 THEN v ELSE last) /\ first' = v
       /\ btab' = [btab EXCEPT ![v] = IF first = 0 THEN 0 ELSE btab[first] - 1]
       /\ IF unassigned = 0 THEN UpdateQueueUnassigned(last')
                            ELSE UNCHANGED pointVars
  /\ UNCHANGED <<assigned, fixed, hole, stamp, analyzed, pc, walkVars, rounds>>

-----------------------------------------------------------------------------
(* Propagation, and decisions that are not taken from the queue. *)
Assign ==
  /\ pc = "search"
  /\ \E v \in free : /\ assigned' = assigned \cup {v}
                     /\ fixed' \in {fixed, fixed \cup {v}}
  /\ UNCHANGED <<live, hole, linkVars, pointVars, btab, stamp, analyzed, pc, walkVars, rounds>>

(* Seeded fault: the pointer is not moved back. *)
Unassign_KeepPointer ==
  /\ pc \in {"search", "backtrack"}
  /\ \E v \in assigned \ fixed : assigned' = assigned \ {v}
  /\ btab' = btab
  /\ UNCHANGED <<live, fixed, hole, linkVars, pointVars, stamp, analyzed, pc, walkVars, rounds>>

(* One literal of a backtrack. *)
Unassign ==
  /\ pc \in {"search", "backtrack"}
  /\ \E v \in assigned \ fixed :
       /\ assigned' = assigned \ {v}
       /\ btab' = btab
       /\ IF bumped < btab[v] THEN UpdateQueueUnassigned(v)
                              ELSE UNCHANGED pointVars
  /\ UNCHANGED <<live, fixed, hole, linkVars, stamp, analyzed, pc, walkVars, rounds>>

(* Seeded fault: root-level literals are bumped too. *)
Analyze_Root ==
  /\ pc \in {"search", "analyze"} /\ analyzed = {}
  /\ \E S \in SUBSET assigned :
       S # {} /\ stamp + Cardinality(S) <= MaxBumped /\ analyzed' = S
  /\ pc' = "analyze"
  /\ UNCHANGED <<valueVars, linkVars, pointVars, btab, stamp, walkVars, rounds>>

(* A conflict: its analysis, which strengthening a clause may start again,
   bumps literals above the root level in the order of their stamps. *)
Analyze ==
  /\ pc \in {"search", "analyze"} /\ analyzed = {}
  /\ \E S \in SUBSET (assigned \ fixed) :
       S # {} /\ stamp + Cardinality(S) <= MaxBumped /\ analyzed' = S
  /\ pc' = "analyze"
  /\ UNCHANGED <<valueVars, linkVars, pointVars, btab, stamp, walkVars, rounds>>

Rank(v) == btab[v] % RankModulus
(* Seeded fault: bumped in the opposite order. *)
IsNext_Down(v) == v \in analyzed /\ \A w \in analyzed : Rank(w) <= Rank(v)
IsNext(v) == v \in analyzed /\ \A w \in analyzed : Rank(v) <= Rank(w)

(* Seeded fault: the stamp counter is not incremented. *)
BumpQueue_NoStamp ==
  /\ pc = "analyze"
  /\ \E v \in analyzed :
       /\ IsNext(v)
       /\ analyzed' = analyzed \ {v}
       /\ \/ next[v] = 0 /\ UNCHANGED <<linkVars, btab>>
          \/ next[v] # 0 /\ MoveToEnd(v) /\ btab' = [btab EXCEPT ![v] = stamp]
  /\ UNCHANGED <<valueVars, pointVars, stamp, pc, walkVars, rounds>>

BumpQueue ==
  /\ pc = "analyze"
  /\ \E v \in analyzed :
       /\ IsNext(v)
       /\ analyzed' = analyzed \ {v}
       /\ \/ next[v] = 0 /\ UNCHANGED <<linkVars, pointVars, btab, stamp>>
          \/ /\ next[v] # 0 /\ MoveToEnd(v)
             /\ stamp' = stamp + 1 /\ btab' = [btab EXCEPT ![v] = stamp + 1]
             /\ IF v \notin assigned THEN UpdateQueueUnassigned(v)
                                     ELSE UNCHANGED pointVars
  /\ UNCHANGED <<valueVars, pc, walkVars, rounds>>

(* Backtracking from the conflict level unassigns its literals at least. *)
StartBacktrack ==
  /\ pc = "analyze" /\ analyzed = {} /\ pc' = "backtrack"
  /\ UNCHANGED <<valueVars, linkVars, pointVars, btab, stamp, analyzed, walkVars, rounds>>
EndBacktrack ==
  /\ pc = "backtrack" /\ free # {} /\ pc' = "search"
  /\ UNCHANGED <<valueVars, linkVars, pointVars, btab, stamp, analyzed, walkVars, rounds>>

-----------------------------------------------------------------------------
(* next_decision_variable_on_queue, called by decide unless opts.dlis is set
   and by reuse_trail in any case. *)
StartWalk ==
  /\ pc = "search" /\ free # {}
  /\ pc' = "walk" /\ idx' = unassigned
  /\ UNCHANGED <<valueVars, linkVars, pointVars, btab, stamp, analyzed, occs, best,
                 decision, rounds>>

(* Seeded fault: the walk goes towards the end of the queue. *)
Walk_Next ==
  /\ pc = "walk" /\ idx \in assigned
  /\ idx' = next[idx]
  /\ UNCHANGED <<valueVars, linkVars, pointVars, btab, stamp, analyzed, pc, occs, best,
                 decision, rounds>>

Walk ==
  /\ pc = "walk" /\ idx \in assigned
  /\ idx' = prev[idx]
  /\ UNCHANGED <<valueVars, linkVars, pointVars, btab, stamp, analyzed, pc, occs, best,
                 decision, rounds>>

EndWalk ==
  /\ pc = "walk" /\ idx \in free
  /\ decision' = idx /\ pc' = "decided" /\ idx' = 0
  /\ btab' = btab
  /\ IF idx # unassigned THEN UpdateQueueUnassigned(idx) ELSE UNCHANGED pointVars
  /\ UNCHANGED <<valueVars, linkVars, stamp, analyzed, occs, best, rounds>>

(* next_decision_variable_with_dlis: from queue.unassigned to the front. *)
Score(v) == occs[v] \div 2

StartDlis ==
  /\ pc = "search" /\ Dlis /\ free # {}
  /\ pc' = "dlis" /\ idx' = unassigned
  /\ occs' \in [Var -> 0..MaxOccs] /\ best' = 0
  /\ UNCHANGED <<valueVars, linkVars, pointVars, btab, stamp, analyzed, decision, rounds>>

(* Seeded fault: the first variable with the best score is replaced by later ones. *)
DlisStep_Ties ==
  /\ pc = "dlis" /\ idx # 0
  /\ best' = IF idx \in free /\ (best = 0 \/ Score(idx) >= Score(best)) THEN idx ELSE best
  /\ idx' = prev[idx]
  /\ UNCHANGED <<valueVars, linkVars, pointVars, btab, stamp, analyzed, pc, occs,
                 decision, rounds>>

DlisStep ==
  /\ pc = "dlis" /\ idx # 0
  /\ best' = IF idx \in free /\ (best = 0 \/ Score(idx) > Score(best)) THEN idx ELSE best
  /\ idx' = prev[idx]
  /\ UNCHANGED <<valueVars, linkVars, pointVars, btab, stamp, analyzed, pc, occs,
                 decision, rounds>>

EndDlis ==
  /\ pc = "dlis" /\ idx = 0
  /\ decision' = best /\ pc' = "decided" /\ best' = 0
  /\ UNCHANGED <<valueVars, linkVars, pointVars, btab, stamp, analyzed, idx, occs, rounds>>

(* decide assigns the decision, reuse_trail only compares with it. *)
Decided ==
  /\ pc = "decided" /\ pc' = "search"
  /\ assigned' \in {assigned, assigned \cup ({decision} \ {0})}
  /\ decision' = 0 /\ occs' = None
  /\ UNCHANGED <<live, fixed, hole, linkVars, pointVars, btab, stamp, analyzed, idx,
                 best, rounds>>

-----------------------------------------------------------------------------
(* Seeded fault: the variables keep their stamps. *)
Rebuild_OldStamps(r, Q) ==
  /\ prev' = [v \in Var |-> IF \E w \in Q : v \in Q /\ r[w] = r[v] + 1
                            THEN CHOOSE w \in Q : r[w] = r[v] + 1 ELSE 0]
  /\ next' = [v \in Var |-> IF \E w \in Q : v \in Q /\ r[v] = r[w] + 1
                            THEN CHOOSE w \in Q : r[v] = r[w] + 1 ELSE 0]
  /\ last' \in Q /\ r[last'] = 0
  /\ first' \in Q /\ \A v \in Q : r[v] <= r[first']
  /\ unassigned' = last' /\ UNCHANGED <<bumped, btab>>

(* shuffle_queue: the queue is built anew, with r[v] variables after v. *)
Rebuild(r, Q) ==
  /\ prev' = [v \in Var |-> IF \E w \in Q : v \in Q /\ r[w] = r[v] + 1
                            THEN CHOOSE w \in Q : r[w] = r[v] + 1 ELSE 0]
  /\ next' = [v \in Var |-> IF \E w \in Q : v \in Q /\ r[v] = r[w] + 1
                            THEN CHOOSE w \in Q : r[v] = r[w] + 1 ELSE 0]
  /\ btab' = [v \in Var |-> IF v \in Q THEN bumped - r[v] ELSE btab[v]]
  /\ last' \in Q /\ r[last'] = 0
  /\ first' \in Q /\ \A v \in Q : r[v] <= r[first']
  /\ unassigned' = last' /\ bumped' = bumped

ShuffleReverse ==
  /\ pc = "search" /\ Shuffling /\ rounds < MaxRounds /\ queued # {}
  /\ Rebuild([v \in Var |-> Cardinality({w \in queued : btab[w] < btab[v]})], queued)
  /\ rounds' = rounds + 1
  /\ UNCHANGED <<valueVars, stamp, analyzed, pc, walkVars>>

ShuffleRandom == \* over all variables in use
  /\ pc = "search" /\ Shuffling /\ rounds < MaxRounds /\ live # {}
  /\ \E r \in [live -> 0..Cardinality(live) - 1] :
       /\ \A v, w \in live : r[v] = r[w] => v = w
       /\ Rebuild(r, live)
  /\ rounds' = rounds + 1 /\ hole' = 0
  /\ UNCHANGED <<live, assigned, fixed, stamp, analyzed, pc, walkVars>>

(* compact: on the root level, the variables that are not active are taken
   out of the queue, and of use but for one fixed variable. *)
Nearest(S, v, w) == w \in S /\ \A u \in S : ~(btab[w] < btab[u] /\ btab[u] < btab[v])
                                            /\ ~(btab[v] < btab[u] /\ btab[u] < btab[w])
Pred(S, v, w) == Nearest(S, v, w) /\ btab[w] < btab[v]
Succ(S, v, w) == Nearest(S, v, w) /\ btab[v] < btab[w]

Compact ==
  /\ pc = "search" /\ assigned = fixed /\ rounds < MaxRounds
  /\ \E active \in SUBSET free :
       /\ hole' \in fixed \cup {0} /\ (IF fixed = {} THEN hole' = 0 ELSE IsFirstOf(hole', fixed))
       /\ fixed' = {hole'} \ {0} /\ assigned' = fixed'
       /\ active # live /\ live' = active \cup fixed'
       /\ prev' = [v \in Var |-> IF v \in active /\ \E w \in active : Pred(active, v, w)
                                 THEN CHOOSE w \in active : Pred(active, v, w) ELSE 0]
       /\ next' = [v \in Var |-> IF v \in active /\ \E w \in active : Succ(active, v, w)
                                 THEN CHOOSE w \in active : Succ(active, v, w) ELSE 0]
       /\ IF active = {} THEN first' = 0 /\ last' = 0
          ELSE /\ first' \in active /\ \A w \in active : btab[first'] <= btab[w]
               /\ last' \in active /\ \A w \in active : btab[w] <= btab[last']
       /\ unassigned' = last' /\ UNCHANGED bumped
  /\ rounds' = rounds + 1
  /\ btab' = [v \in Var |-> IF v \in live' THEN btab[v] ELSE 0]
  /\ UNCHANGED <<stamp, analyzed, pc, walkVars>>

-----------------------------------------------------------------------------
Init ==
  /\ live = {} /\ assigned = {} /\ fixed = {} /\ hole = 0
  /\ prev = None /\ next = None
  /\ first = 0 /\ last = 0 /\ unassigned = 0 /\ bumped = 0
  /\ btab = None /\ stamp = 0 /\ analyzed = {} /\ pc = "search"
  /\ idx = 0 /\ occs = None /\ best = 0 /\ decision = 0 /\ rounds = 0

Find == Walk \/ EndWalk \/ DlisStep \/ EndDlis
Next == \/ InitEnqueue \/ InitEnqueueReverse \/ Assign \/ Unassign
        \/ Analyze \/ BumpQueue \/ StartBacktrack \/ EndBacktrack
        \/ StartWalk \/ StartDlis \/ Find \/ Decided
        \/ ShuffleReverse \/ ShuffleRandom \/ Compact

(* The search for a decision is a loop that runs on. *)
Spec == Init /\ [][Next]_vars /\ WF_vars(Find)

-----------------------------------------------------------------------------
(* The type invariant. *)
TypeOK ==
  /\ live \subseteq Var /\ assigned \subseteq live /\ fixed \subseteq assigned
  /\ hole \in fixed \cup {0}
  /\ prev \in [Var -> Var \cup {0}] /\ next \in [Var -> Var \cup {0}]
  /\ {first, last, unassigned, idx, best, decision} \subseteq Var \cup {0}
  /\ bumped \in Int /\ btab \in [Var -> Int] /\ stamp \in Nat
  /\ analyzed \subseteq assigned \ fixed
  /\ pc \in {"search", "walk", "dlis", "decided", "analyze", "backtrack"}
  /\ occs \in [Var -> 0..MaxOccs] /\ rounds \in 0..MaxRounds

(* The links are a list of the queued variables in the order of their stamps,
   which are different, whatever bumping, shuffling and compaction do. *)
Linked ==
  /\ \A v, w \in queued : btab[v] = btab[w] => v = w
  /\ \A v \in queued : btab[v] <= stamp
  /\ \A v \in queued :
       /\ IF prev[v] = 0 THEN v = first /\ \A w \in queued : btab[v] <= btab[w]
                         ELSE Pred(queued, v, prev[v])
       /\ IF next[v] = 0 THEN v = last /\ \A w \in queued : btab[w] <= btab[v]
                         ELSE Succ(queued, v, next[v])
  /\ IF queued = {} THEN first = 0 /\ last = 0
     ELSE /\ first \in queued /\ prev[first] = 0
          /\ last \in queued /\ next[last] = 0

(* "All variables after queue.unassigned in bump order are assumed to be
   assigned" (update_queue_unassigned). *)
AfterPointerAssigned ==
  \A v \in free : unassigned \in queued /\ btab[v] <= btab[unassigned]

(* A decision is an unassigned variable with the best score, the last one in
   the queue of those; the scores of VMTF are all equal.  In particular there
   is one: next_decision_variable_with_dlis does not return 0. *)
DecisionIsBest == pc = "decided" =>
  /\ decision \in free
  /\ \A v \in free : \/ Score(v) < Score(decision)
                     \/ Score(v) = Score(decision) /\ btab[v] <= btab[decision]

(* The loop of next_decision_variable_on_queue does not run off the list. *)
WalkStaysOnQueue == pc = "walk" => idx \in queued

(* "Variables are bumped in the order they are in the current decision queue"
   (bump_variables): those still to bump are after the one bumped. *)
BumpedInOrder ==
  [][\A v \in analyzed \ analyzed' : \A w \in analyzed' : btab[v] < btab[w]]_vars

(* "queue.unassigned always points to an idx such that val(idx) == 0"
   (next_decision_variable_with_dlis). *)
PointerUnassigned == pc = "dlis" => unassigned \in free

(* A decision is found once it is asked for. *)
DecisionFound == pc \in {"walk", "dlis"} ~> pc = "decided"

(* The queue implements the order of DecisionOrder. *)
Before == {p \in queued \X queued : btab[p[1]] < btab[p[2]]}
Abstract == INSTANCE DecisionOrder WITH order <- Before, Scores <- 0..MaxOccs
ImplementsOrder == Abstract!Spec
=============================================================================
