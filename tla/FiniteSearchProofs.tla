------------------------- MODULE FiniteSearchProofs -------------------------
(***************************************************************************)
(* The verdicts of the finite solver are sound and its unsat cores         *)
(* deletion-minimal, for any number of variables, finite or infinite       *)
(* domains, problems, budgets and deadlines; over finite domains an        *)
(* abstention has the cause it names.                                      *)
(***************************************************************************)
EXTENDS FiniteSearch, SequenceTheorems, FiniteSetTheorems, TLAPS

-----------------------------------------------------------------------------
(* The inductive invariant. *)

\* x agrees with the path on the variables before d.
Agrees(x, d) == \A i \in 1..(d - 1) : x[i] = path[i]

\* The search has still to come to x: below the node it enters, or under a value
\* some open loop has not tried.
Ahead(x) ==
    \/ pc = "enter" /\ Agrees(x, Len(path) + 1)
    \/ \E d \in DOMAIN todo : x[d] \in todo[d] /\ Agrees(x, d)

\* No model of the constraints searched is behind.
NoneBehind ==
    /\ pc \in {"enter", "next"} =>
         \A x \in Assignments : Satisfies(x, active) => Ahead(x)
    /\ pc = "unsat" => ~Satisfiable(active)

Searching == {"enter", "next", "unsat", "raised"}

\* What each phase works on.
Phases ==
    /\ \A d \in DOMAIN todo : todo[d] \subseteq Domain[d]
    /\ ~core => active = Positions
    /\ core => active \subseteq Positions
    /\ pc = "shrink" => core
    /\ status # "none" => pc = "done"
    /\ status = "unsat" => core /\ (left = {} \/ Cardinality(remaining) <= 1)

\* The core stays unsatisfiable, and those of its members that were tried cannot
\* be missed, except for the one whose trial is going on.
CoreSound ==
    core =>
        /\ ~Satisfiable(remaining)
        /\ pc \in Searching => active \subseteq remaining
        /\ \A k \in remaining \ left :
             \/ Satisfiable(remaining \ {k})
             \/ pc \in Searching /\ active = remaining \ {k}

IInv == TypeOK /\ Phases /\ NoneBehind /\ CoreSound /\ SatSound

-----------------------------------------------------------------------------
(* Sequences and constraints. *)

LEMMA FrontOf ==
  ASSUME NEW S, NEW s \in Seq(S), s # << >>
  PROVE  /\ SubSeq(s, 1, Len(s) - 1) \in Seq(S)
         /\ Len(SubSeq(s, 1, Len(s) - 1)) = Len(s) - 1
         /\ DOMAIN SubSeq(s, 1, Len(s) - 1) = 1..(Len(s) - 1)
         /\ \A i \in 1..(Len(s) - 1) : SubSeq(s, 1, Len(s) - 1)[i] = s[i]
<1> DEFINE n == Len(s) - 1
           f == SubSeq(s, 1, n)
<1>1. n \in Nat /\ \A i \in 1..n : s[i] \in S
  OBVIOUS
<1> HIDE DEF n
<1>2. /\ f \in Seq(S)
      /\ Len(f) = IF 1 <= n THEN n - 1 + 1 ELSE 0
      /\ \A i \in 1..(n - 1 + 1) : f[i] = s[1 + i - 1]
  BY <1>1, SubSeqProperties
<1>3. Len(f) = n
  BY <1>1, <1>2
<1>4. DOMAIN f = 1..n
  BY <1>2, <1>3
<1>5. \A i \in 1..n : f[i] = s[i]
  <2> SUFFICES ASSUME NEW i \in 1..n PROVE f[i] = s[i]
    OBVIOUS
  <2>1. n - 1 + 1 = n /\ 1 + i - 1 = i
    BY <1>1
  <2> QED BY <1>2, <2>1
<1> QED BY <1>2, <1>3, <1>4, <1>5 DEF n

\* A constraint has one value on all that agree on its variables.
LEMMA EvaluateLocal ==
  ASSUME NEW k, NEW x, NEW y,
         \A i \in constraints[k].over : x[i] = y[i]
  PROVE  Evaluate(k, x) = Evaluate(k, y)
<1>1. [i \in constraints[k].over |-> x[i]] = [i \in constraints[k].over |-> y[i]]
  OBVIOUS
<1> QED BY <1>1 DEF Evaluate

\* A false constraint refutes all that continue the path.
LEMMA Refuted ==
  ASSUME TypeOK, Judged("false"), NEW x, Satisfies(x, active)
  PROVE  ~Agrees(x, Len(path) + 1)
<1> SUFFICES ASSUME Agrees(x, Len(path) + 1) PROVE FALSE
  OBVIOUS
<1>1. PICK k \in Ripe : Evaluate(k, path) = "false"
  BY DEF Judged
<1>2. \A i \in constraints[k].over : x[i] = path[i]
  BY <1>1, SearchAssumption DEF Ripe, Agrees, TypeOK
<1>3. Evaluate(k, x) = "false"
  BY <1>1, <1>2, EvaluateLocal
<1> QED BY <1>1, <1>3 DEF Ripe, Satisfies

LEMMA FewerSatisfiable ==
  ASSUME NEW K, NEW L \in SUBSET K, Satisfiable(K)
  PROVE  Satisfiable(L)
  BY DEF Satisfiable, Satisfies

\* At a leaf where nothing is false, the path is a model.
LEMMA LeafModel ==
  ASSUME TypeOK, AtLeaf, Judged("true")
  PROVE  path \in Assignments /\ Satisfies(path, active)
<1>1. path \in Assignments
  <2>1. path \in [Vars -> Values] /\ DOMAIN path = Vars
    BY SearchAssumption DEF TypeOK, AtLeaf, Vars
  <2> QED BY <2>1 DEF TypeOK, Assignments
<1>2. \A k \in active : constraints[k].over \subseteq Vars
  <2>1. ASSUME NEW c \in Constraint PROVE c.over \subseteq Vars
    <3>1. PICK S \in SUBSET Vars : c \in [over : {S}, value : [[S -> Values] -> Truth]]
      BY DEF Constraint
    <3> QED BY <3>1
  <2>2. \A k \in active : constraints[k] \in Constraint
    BY DEF TypeOK, Positions
  <2> QED BY <2>1, <2>2
<1>3. Ripe = active
  BY <1>2 DEF Ripe, AtLeaf, Vars
<1> QED BY <1>1, <1>3 DEF Judged, Satisfies

-----------------------------------------------------------------------------
LEMMA InitIInv == Init => IInv
<1> SUFFICES ASSUME Init PROVE IInv
  OBVIOUS
<1>1. constraints \in Seq(Constraint)
  BY SearchAssumption DEF Init
<1>2. /\ path \in Seq(Values) /\ Len(path) = 0 /\ DOMAIN path = {}
      /\ todo \in Seq(SUBSET Values) /\ Len(todo) = 0
  BY DEF Init
<1>3. budget \in Budgets \cup {NoBudget} /\ timed \in BOOLEAN /\ N \in Nat
  BY SearchAssumption DEF Init
<1>4. TypeOK
  <2>1. active \subseteq Positions /\ remaining \subseteq Positions /\ left \subseteq remaining
    BY DEF Init
  <2>2. checked \in Nat /\ Len(path) <= N /\ Len(todo) <= N
    BY <1>2, <1>3 DEF Init
  <2> QED BY <1>1, <1>2, <1>3, <2>1, <2>2 DEF Init, TypeOK
<1>5. Phases /\ NoneBehind
  BY <1>2 DEF Init, Phases, NoneBehind, Ahead, Agrees
<1> QED BY <1>4, <1>5 DEF IInv, CoreSound, SatSound, Init

-----------------------------------------------------------------------------
(* Type correctness, step by step. *)

\* What leaving a node does to the path and the loops.
LEMMA BackShape ==
  ASSUME TypeOK, NEW frames, Back(frames),
         \/ pc = "enter" /\ frames = todo
         \/ pc = "next" /\ frames = SubSeq(todo, 1, Len(todo) - 1)
  PROVE  /\ frames \in Seq(SUBSET Values)
         /\ Len(frames) = Len(path)
         /\ \A d \in DOMAIN frames : d \in DOMAIN todo /\ frames[d] = todo[d]
         /\ path = << >> => pc' = "unsat" /\ path' = path
         /\ path # << >> => /\ pc' = "next"
                            /\ path' \in Seq(Values)
                            /\ Len(path') = Len(path) - 1
                            /\ DOMAIN path' = 1..(Len(path) - 1)
                            /\ \A i \in 1..(Len(path) - 1) : path'[i] = path[i]
<1>1. /\ frames \in Seq(SUBSET Values)
      /\ Len(frames) = Len(path)
      /\ \A d \in DOMAIN frames : d \in DOMAIN todo /\ frames[d] = todo[d]
  <2>1. CASE pc = "enter" /\ frames = todo
    BY <2>1 DEF TypeOK
  <2>2. CASE pc = "next" /\ frames = SubSeq(todo, 1, Len(todo) - 1)
    <3>1. todo \in Seq(SUBSET Values) /\ todo # << >> /\ Len(todo) = Len(path) + 1
          /\ path \in Seq(Values)
      BY <2>2 DEF TypeOK
    <3> QED BY <2>2, <3>1, FrontOf
  <2> QED BY <2>1, <2>2
<1>2. ASSUME path = << >>
      PROVE  pc' = "unsat" /\ path' = path
  BY <1>2 DEF Back
<1>3. ASSUME path # << >>
      PROVE  /\ pc' = "next"
             /\ path' \in Seq(Values)
             /\ Len(path') = Len(path) - 1
             /\ DOMAIN path' = 1..(Len(path) - 1)
             /\ \A i \in 1..(Len(path) - 1) : path'[i] = path[i]
  <2>1. pc' = "next" /\ path' = SubSeq(path, 1, Len(path) - 1)
    BY <1>3 DEF Back
  <2>2. path \in Seq(Values)
    BY DEF TypeOK
  <2> QED BY <1>3, <2>1, <2>2, FrontOf
<1> QED BY <1>1, <1>2, <1>3

LEMMA BackTyped ==
  ASSUME TypeOK, NEW frames, Back(frames), checked' \in Nat,
         \/ pc = "enter" /\ frames = todo
         \/ pc = "next" /\ frames = SubSeq(todo, 1, Len(todo) - 1)
  PROVE  TypeOK'
<1>1. UNCHANGED <<inputs, active, shrinking, result, Positions>> /\ todo' = frames
  BY DEF Back, inputs, Positions
<1>2. frames \in Seq(SUBSET Values) /\ Len(frames) = Len(path)
  BY BackShape
<1>3. CASE path = << >>
  <2>1. pc' = "unsat" /\ path' = path
    BY <1>3, BackShape
  <2> QED BY <1>1, <1>2, <2>1 DEF TypeOK, inputs, shrinking, result
<1>4. CASE path # << >>
  <2>1. /\ pc' = "next"
        /\ path' \in Seq(Values)
        /\ Len(path') = Len(path) - 1
        /\ DOMAIN path' = 1..(Len(path) - 1)
        /\ \A i \in 1..(Len(path) - 1) : path'[i] = path[i]
    BY <1>4, BackShape
  <2>2. Len(path) \in Nat /\ DOMAIN path = 1..Len(path) /\ N \in Nat /\ Len(path) <= N
    BY SearchAssumption DEF TypeOK
  <2>3. Len(path') <= N /\ Len(todo') = Len(path') + 1 /\ Len(todo') <= N
    BY <1>1, <1>2, <2>1, <2>2
  <2>4. \A i \in DOMAIN path' : path'[i] \in Domain[i]
    <3>1. \A i \in 1..(Len(path) - 1) : i \in DOMAIN path
      BY <2>2
    <3>2. \A i \in DOMAIN path : path[i] \in Domain[i]
      BY DEF TypeOK
    <3> QED BY <2>1, <3>1, <3>2
  <2>5. Positions' = Positions /\ active' = active
        /\ UNCHANGED <<constraints, budget, timed, core, remaining, left, status, outcome>>
    BY <1>1 DEF inputs, shrinking, result
  <2>6. todo' \in Seq(SUBSET Values)
    BY <1>1, <1>2
  <2> QED BY <2>1, <2>3, <2>4, <2>5, <2>6 DEF TypeOK
<1> QED BY <1>3, <1>4

LEMMA CountTyped ==
  ASSUME TypeOK, Count
  PROVE  checked' \in Nat
  BY DEF TypeOK, Count

LEMMA TypeStep ==
  ASSUME TypeOK, Phases, [Next]_vars
  PROVE  TypeOK'
<1> USE DEF inputs, node, shrinking, result
<1>1. CASE Timeout
  BY <1>1 DEF Timeout, Conclude, TypeOK, Positions
<1>2. CASE Exceed \/ Unsupported \/ Satisfy
  <2>1. checked' \in Nat
    BY <1>2, CountTyped DEF Exceed, Unsupported, Satisfy, Enter
  <2> QED BY <1>2, <2>1 DEF Exceed, Unsupported, Satisfy, Enter, Conclude, TypeOK, Positions
<1>3. CASE Escape \/ Keep
  <2>1. checked' \in Nat
    BY <1>3, CountTyped DEF Escape, Keep, Enter
  <2> QED BY <1>3, <2>1 DEF Escape, Keep, Enter, TypeOK, Positions
<1>4. CASE Refute
  <2>1. checked' \in Nat
    BY <1>4, CountTyped DEF Refute, Enter
  <2> QED BY <1>4, <2>1, BackTyped DEF Refute, Enter
<1>5. CASE Descend
  <2>1. checked' \in Nat
    BY <1>5, CountTyped DEF Descend, Enter
  <2>2. /\ Len(path) \in Nat /\ N \in Nat /\ Len(path) < N
        /\ Len(todo) = Len(path) /\ todo \in Seq(SUBSET Values)
    BY <1>5, SearchAssumption DEF Descend, Enter, AtLeaf, TypeOK
  <2>3. Domain[Len(path) + 1] \in SUBSET Values
    BY <2>2, SearchAssumption DEF Vars
  <2>4. todo' = Append(todo, Domain[Len(path) + 1])
    BY <1>5 DEF Descend
  <2>5. todo' \in Seq(SUBSET Values) /\ Len(todo') = Len(path) + 1 /\ Len(todo') <= N
    BY <2>2, <2>3, <2>4
  <2> QED BY <1>5, <2>1, <2>5 DEF Descend, TypeOK, Positions
<1>6. CASE Exhaust
  <2>1. checked' \in Nat
    BY <1>6 DEF Exhaust, TypeOK
  <2> QED BY <1>6, <2>1, BackTyped DEF Exhaust
<1>7. CASE Prove \/ Drop
  BY <1>7 DEF Prove, Drop, Phases, TypeOK, Positions
<1>8. CASE Minimized
  BY <1>8 DEF Minimized, Conclude, TypeOK, Positions
<1>9. ASSUME NEW v \in Values, Try(v) PROVE TypeOK'
  <2>1. /\ Len(path) \in Nat /\ N \in Nat /\ Len(todo) = Len(path) + 1
        /\ Len(todo) <= N /\ todo \in Seq(SUBSET Values) /\ path \in Seq(Values)
    BY <1>9, SearchAssumption DEF Try, TypeOK
  <2>2. todo[Len(todo)] \in SUBSET Values /\ todo[Len(todo)] \subseteq Domain[Len(todo)]
    BY <2>1 DEF Phases
  <2>3. path' = Append(path, v) /\ v \in Domain[Len(path) + 1]
    BY <1>9, <2>1, <2>2 DEF Try
  <2>4. path' \in Seq(Values) /\ Len(path') = Len(path) + 1 /\ DOMAIN path' = 1..(Len(path) + 1)
    BY <2>1, <2>3
  <2>5. \A i \in DOMAIN path' : path'[i] \in Domain[i]
    BY <2>1, <2>3, <2>4 DEF TypeOK
  <2>6. todo' \in Seq(SUBSET Values) /\ Len(todo') = Len(todo)
    BY <1>9, <2>1, <2>2 DEF Try
  <2> QED BY <1>9, <2>1, <2>4, <2>5, <2>6 DEF Try, TypeOK, Positions
<1>10. ASSUME NEW k \in Positions, Candidate(k) PROVE TypeOK'
  <2>1. path' \in Seq(Values) /\ Len(path') = 0 /\ DOMAIN path' = {}
        /\ todo' \in Seq(SUBSET Values) /\ Len(todo') = 0 /\ 0 <= N
    BY <1>10, SearchAssumption DEF Candidate
  <2>2. left' \subseteq remaining' /\ active' \subseteq Positions'
    BY <1>10 DEF Candidate, TypeOK, Positions
  <2> QED BY <1>10, <2>1, <2>2 DEF Candidate, TypeOK, Positions
<1>11. CASE UNCHANGED vars
  BY <1>11 DEF vars, TypeOK, Positions
<1> QED BY <1>1, <1>2, <1>3, <1>4, <1>5, <1>6, <1>7, <1>8, <1>9, <1>10, <1>11
      DEF Next, Solve, Ended

-----------------------------------------------------------------------------
(* The phases. *)

LEMMA PhasesStep ==
  ASSUME TypeOK, Phases, [Next]_vars
  PROVE  Phases'
<1> USE DEF inputs, node, shrinking, result
<1>1. CASE Timeout
  BY <1>1 DEF Timeout, Conclude, Phases, Positions
<1>2. CASE Exceed \/ Unsupported \/ Satisfy
  BY <1>2 DEF Exceed, Unsupported, Satisfy, Enter, Conclude, Phases, Positions
<1>3. CASE Escape \/ Keep
  BY <1>3 DEF Escape, Keep, Enter, Phases, Positions
<1>4. ASSUME NEW frames, Back(frames),
             \/ pc = "enter" /\ frames = todo
             \/ pc = "next" /\ frames = SubSeq(todo, 1, Len(todo) - 1)
      PROVE  Phases'
  <2>1. /\ \A d \in DOMAIN frames : d \in DOMAIN todo /\ frames[d] = todo[d]
        /\ path = << >> => pc' = "unsat"
        /\ path # << >> => pc' = "next"
    BY <1>4, BackShape
  <2>2. \A d \in DOMAIN todo' : todo'[d] \subseteq Domain[d]
    BY <1>4, <2>1 DEF Back, Phases
  <2> QED BY <1>4, <2>1, <2>2 DEF Back, Phases, Positions
<1>5. CASE Refute
  BY <1>4, <1>5 DEF Refute, Enter
<1>6. CASE Exhaust
  BY <1>4, <1>6 DEF Exhaust
<1>7. CASE Descend
  <2>1. Len(todo) = Len(path) /\ todo \in Seq(SUBSET Values)
    BY <1>7 DEF Descend, Enter, TypeOK
  <2>2. todo' = Append(todo, Domain[Len(path) + 1])
    BY <1>7 DEF Descend
  <2>3. \A d \in DOMAIN todo' : todo'[d] \subseteq Domain[d]
    BY <2>1, <2>2 DEF Phases
  <2> QED BY <1>7, <2>3 DEF Descend, Enter, Phases, Positions
<1>8. CASE Prove \/ Drop
  BY <1>8 DEF Prove, Drop, Phases, TypeOK, Positions
<1>9. CASE Minimized
  BY <1>9 DEF Minimized, Conclude, Phases, Positions
<1>10. ASSUME NEW v \in Values, Try(v) PROVE Phases'
  <2>1. todo \in Seq(SUBSET Values) /\ Len(todo) \in DOMAIN todo
    BY <1>10 DEF Try, TypeOK
  <2>2. \A d \in DOMAIN todo' : todo'[d] \subseteq Domain[d]
    BY <1>10, <2>1 DEF Try, Phases
  <2> QED BY <1>10, <2>2 DEF Try, Phases, Positions
<1>11. ASSUME NEW k \in Positions, Candidate(k) PROVE Phases'
  BY <1>11 DEF Candidate, Phases, TypeOK, Positions
<1>12. CASE UNCHANGED vars
  BY <1>12 DEF vars, Phases, Positions
<1> QED BY <1>1, <1>2, <1>3, <1>5, <1>6, <1>7, <1>8, <1>9, <1>10, <1>11, <1>12
      DEF Next, Solve, Ended

-----------------------------------------------------------------------------
(* No model is left behind. *)

\* Satisfaction speaks of the constraints only.
LEMMA SatisfiesKept ==
  ASSUME UNCHANGED constraints, NEW K
  PROVE  /\ \A x : Satisfies(x, K)' <=> Satisfies(x, K)
         /\ Satisfiable(K)' <=> Satisfiable(K)
  BY DEF Satisfies, Satisfiable, Evaluate

\* Leaving a node passes over no model when none is below it.
LEMMA BackNoneBehind ==
  ASSUME TypeOK, NEW frames, Back(frames),
         \/ pc = "enter" /\ frames = todo
         \/ pc = "next" /\ frames = SubSeq(todo, 1, Len(todo) - 1),
         \A x \in Assignments : Satisfies(x, active) =>
            \E d \in DOMAIN frames : x[d] \in frames[d] /\ Agrees(x, d)
  PROVE  NoneBehind'
<1>1. UNCHANGED <<constraints, active>> /\ todo' = frames
  BY DEF Back, inputs
<1>2. Len(frames) = Len(path) /\ frames \in Seq(SUBSET Values) /\ Len(path) \in Nat
  BY BackShape DEF TypeOK
<1>3. CASE path = << >>
  <2>0. pc' = "unsat" /\ Len(path) = 0
    BY <1>3, BackShape
  <2>1. pc' = "unsat" /\ DOMAIN frames = {}
    BY <1>2, <2>0
  <2>2. ~Satisfiable(active)
    BY <2>1 DEF Satisfiable
  <2>3. ~Satisfiable(active)'
    BY <1>1, <2>2 DEF Satisfies, Satisfiable, Evaluate
  <2> QED BY <2>1, <2>3 DEF NoneBehind
<1>4. CASE path # << >>
  <2>1. pc' = "next" /\ \A i \in 1..(Len(path) - 1) : path'[i] = path[i]
    BY <1>4, BackShape
  <2>2. ASSUME NEW x \in Assignments, Satisfies(x, active)
        PROVE  Ahead(x)'
    <3>1. PICK d \in DOMAIN frames : x[d] \in frames[d] /\ Agrees(x, d)
      BY <2>2
    <3>2. d \in 1..Len(path)
      BY <1>2
    <3>3. \A i \in 1..(d - 1) : x[i] = path'[i]
      BY <1>2, <2>1, <3>1, <3>2 DEF Agrees
    <3> QED BY <1>1, <3>1, <3>3 DEF Ahead, Agrees
  <2>3. \A x \in Assignments : Satisfies(x, active)' => Ahead(x)'
    BY <1>1, <2>2 DEF Satisfies, Evaluate
  <2> QED BY <2>1, <2>3 DEF NoneBehind
<1> QED BY <1>3, <1>4

LEMMA NoneBehindStep ==
  ASSUME TypeOK, Phases, NoneBehind, [Next]_vars
  PROVE  NoneBehind'
<1> USE DEF inputs, node, shrinking, result
<1>1. CASE Timeout \/ Exceed \/ Unsupported \/ Satisfy \/ Minimized
  BY <1>1 DEF Timeout, Exceed, Unsupported, Satisfy, Minimized, Conclude, NoneBehind
<1>2. CASE Escape \/ Keep \/ Prove \/ Drop
  BY <1>2 DEF Escape, Keep, Prove, Drop, NoneBehind
<1>3. CASE Refute
  <2>1. ASSUME NEW x \in Assignments, Satisfies(x, active)
        PROVE  \E d \in DOMAIN todo : x[d] \in todo[d] /\ Agrees(x, d)
    <3>1. Ahead(x)
      BY <1>3, <2>1 DEF Refute, Enter, NoneBehind
    <3>2. ~Agrees(x, Len(path) + 1)
      BY <1>3, <2>1, Refuted DEF Refute, Enter
    <3> QED BY <3>1, <3>2 DEF Ahead
  <2> QED BY <1>3, <2>1, BackNoneBehind DEF Refute, Enter
<1>4. CASE Exhaust
  <2>1. todo \in Seq(SUBSET Values) /\ todo # << >> /\ Len(todo) = Len(path) + 1
        /\ path \in Seq(Values)
    BY <1>4 DEF Exhaust, TypeOK
  <2> DEFINE frames == SubSeq(todo, 1, Len(todo) - 1)
  <2>2. DOMAIN frames = 1..(Len(todo) - 1) /\ \A d \in 1..(Len(todo) - 1) : frames[d] = todo[d]
    BY <2>1, FrontOf
  <2>3. ASSUME NEW x \in Assignments, Satisfies(x, active)
        PROVE  \E d \in DOMAIN frames : x[d] \in frames[d] /\ Agrees(x, d)
    <3>1. PICK d \in DOMAIN todo : x[d] \in todo[d] /\ Agrees(x, d)
      BY <1>4, <2>3 DEF Exhaust, NoneBehind, Ahead
    <3>2. d # Len(todo)
      BY <1>4, <3>1 DEF Exhaust
    <3>3. d \in 1..(Len(todo) - 1)
      BY <2>1, <3>2
    <3> QED BY <2>2, <3>1, <3>3
  <2> QED BY <1>4, <2>3, BackNoneBehind DEF Exhaust
<1>5. CASE Descend
  <2>1. /\ Len(todo) = Len(path) /\ todo \in Seq(SUBSET Values) /\ path \in Seq(Values)
        /\ Len(path) + 1 \in Vars
    BY <1>5, SearchAssumption DEF Descend, Enter, AtLeaf, TypeOK, Vars
  <2>2. todo' = Append(todo, Domain[Len(path) + 1]) /\ pc' = "next"
        /\ UNCHANGED <<path, active, constraints>>
    BY <1>5 DEF Descend
  <2>3. ASSUME NEW x \in Assignments, Satisfies(x, active)
        PROVE  \E d \in DOMAIN todo' : x[d] \in todo'[d] /\ Agrees(x, d)
    <3>1. CASE Agrees(x, Len(path) + 1)
      <4>1. x[Len(path) + 1] \in Domain[Len(path) + 1]
        BY <2>1 DEF Assignments
      <4> QED BY <2>1, <2>2, <3>1, <4>1
    <3>2. CASE \E d \in DOMAIN todo : x[d] \in todo[d] /\ Agrees(x, d)
      BY <2>1, <2>2, <3>2
    <3> QED BY <1>5, <2>3, <3>1, <3>2 DEF Descend, Enter, NoneBehind, Ahead
  <2> QED BY <2>2, <2>3 DEF NoneBehind, Ahead, Agrees, Satisfies, Evaluate
<1>6. ASSUME NEW v \in Values, Try(v) PROVE NoneBehind'
  <2> DEFINE m == Len(todo)
  <2>1. /\ m = Len(path) + 1 /\ todo \in Seq(SUBSET Values) /\ path \in Seq(Values)
        /\ m \in DOMAIN todo
    BY <1>6 DEF Try, TypeOK
  <2>2. /\ todo' = [todo EXCEPT ![m] = @ \ {v}] /\ path' = Append(path, v) /\ pc' = "enter"
        /\ UNCHANGED <<active, constraints>>
    BY <1>6 DEF Try
  <2>3. ASSUME NEW x \in Assignments, Satisfies(x, active)
        PROVE  Ahead(x)'
    <3>1. PICK d \in DOMAIN todo : x[d] \in todo[d] /\ Agrees(x, d)
      BY <1>6, <2>3 DEF Try, NoneBehind, Ahead
    <3>2. d \in 1..m /\ Len(path') = m
      BY <2>1, <2>2
    <3>3. \A i \in 1..(d - 1) : x[i] = path'[i]
      BY <2>1, <2>2, <3>1, <3>2 DEF Agrees
    <3>4. CASE d = m /\ x[m] = v
      <4>1. path'[m] = v
        BY <2>1, <2>2
      <4>2. \A i \in 1..m : x[i] = path'[i]
        BY <2>1, <3>3, <3>4, <4>1
      <4> QED BY <2>1, <2>2, <3>2, <4>2 DEF Ahead, Agrees
    <3>5. CASE ~(d = m /\ x[m] = v)
      <4>1. d \in DOMAIN todo' /\ x[d] \in todo'[d]
        BY <2>1, <2>2, <3>1, <3>5
      <4> QED BY <3>3, <4>1 DEF Ahead, Agrees
    <3> QED BY <3>4, <3>5
  <2> QED BY <2>2, <2>3 DEF NoneBehind, Satisfies, Evaluate
<1>7. ASSUME NEW k \in Positions, Candidate(k) PROVE NoneBehind'
  <2>1. pc' = "enter" /\ Len(path') = 0
    BY <1>7 DEF Candidate
  <2> QED BY <2>1 DEF NoneBehind, Ahead, Agrees
<1>8. CASE UNCHANGED vars
  BY <1>8 DEF vars, NoneBehind, Ahead, Agrees, Satisfies, Satisfiable, Evaluate
<1> QED BY <1>1, <1>2, <1>3, <1>4, <1>5, <1>6, <1>7, <1>8 DEF Next, Solve, Ended

-----------------------------------------------------------------------------
(* The core and the model. *)

LEMMA CoreSoundStep ==
  ASSUME TypeOK, Phases, NoneBehind, CoreSound, [Next]_vars
  PROVE  CoreSound'
<1> USE DEF inputs, node, shrinking, result
<1>1. UNCHANGED constraints
  BY DEF Next, Solve, Ended, vars, Timeout, Exceed, Unsupported, Escape, Refute, Descend,
         Exhaust, Satisfy, Prove, Keep, Drop, Minimized, Try, Candidate, Conclude, Back
<1>2. \A K : Satisfiable(K)' <=> Satisfiable(K)
  BY <1>1, SatisfiesKept
<1>3. CASE Timeout \/ Unsupported \/ Satisfy
  BY <1>3 DEF Timeout, Unsupported, Satisfy, Conclude, CoreSound
<1>4. CASE Exceed
  BY <1>4 DEF Exceed, InBudget, Conclude, CoreSound
<1>5. ASSUME pc' \in Searching, pc \in Searching, UNCHANGED <<core, remaining, left, active>>
      PROVE  CoreSound'
  BY <1>2, <1>5 DEF CoreSound
<1>6. CASE Escape \/ Refute \/ Descend \/ Exhaust \/ \E v \in Values : Try(v)
  BY <1>5, <1>6 DEF Escape, Refute, Descend, Exhaust, Try, Enter, Back, Searching
<1>7. CASE Prove
  <2>1. ~Satisfiable(Positions) /\ remaining' = Positions /\ left' = Positions /\ pc' = "shrink"
    BY <1>7 DEF Prove, NoneBehind, Phases
  <2>2. ~Satisfiable(remaining)'
    BY <1>1, <2>1 DEF Satisfiable, Satisfies, Evaluate
  <2> QED BY <2>1, <2>2 DEF CoreSound, Searching
<1>8. CASE Drop
  <2>1. ~Satisfiable(active) /\ remaining' = active /\ left' = active /\ pc' = "shrink"
    BY <1>8 DEF Drop, NoneBehind
  <2>2. ~Satisfiable(remaining)'
    BY <1>1, <2>1 DEF Satisfiable, Satisfies, Evaluate
  <2> QED BY <2>1, <2>2 DEF CoreSound, Searching
<1>9. CASE Keep
  <2>1. Satisfiable(active)
    BY <1>9, LeafModel DEF Keep, Enter, Satisfiable
  <2>2. UNCHANGED <<core, remaining, left>> /\ pc' = "shrink" /\ core
    BY <1>9 DEF Keep
  <2>3. \A k \in remaining \ left : Satisfiable(remaining \ {k})
    BY <2>1, <2>2 DEF CoreSound
  <2> QED BY <1>2, <2>2, <2>3 DEF CoreSound, Searching
<1>10. CASE Minimized
  BY <1>2, <1>10 DEF Minimized, Conclude, CoreSound, Searching
<1>11. ASSUME NEW k \in Positions, Candidate(k) PROVE CoreSound'
  BY <1>2, <1>11 DEF Candidate, CoreSound, Phases, Searching
<1>12. CASE UNCHANGED vars
  BY <1>2, <1>12 DEF vars, CoreSound
<1> QED BY <1>3, <1>4, <1>6, <1>7, <1>8, <1>9, <1>10, <1>11, <1>12 DEF Next, Solve, Ended

LEMMA SatSoundStep ==
  ASSUME TypeOK, Phases, SatSound, [Next]_vars
  PROVE  SatSound'
<1> USE DEF inputs, node, shrinking, result
<1>1. CASE Satisfy
  <2>1. path \in Assignments /\ Satisfies(path, Positions)
    BY <1>1, LeafModel DEF Satisfy, Enter, Phases
  <2> QED BY <1>1, <2>1 DEF Satisfy, Conclude, SatSound, Satisfies, Evaluate, Positions
<1>2. CASE Timeout \/ Exceed \/ Unsupported \/ Minimized
  BY <1>2 DEF Timeout, Exceed, Unsupported, Minimized, Conclude, SatSound
<1>3. ASSUME pc # "done", UNCHANGED status
      PROVE  SatSound'
  BY <1>3 DEF Phases, SatSound, TypeOK
<1>4. CASE Escape \/ Refute \/ Descend \/ Exhaust \/ Prove \/ Keep \/ Drop
  BY <1>3, <1>4 DEF Escape, Refute, Descend, Exhaust, Prove, Keep, Drop, Enter, Back
<1>5. ASSUME NEW v \in Values, Try(v) PROVE SatSound'
  BY <1>3, <1>5 DEF Try
<1>6. ASSUME NEW k \in Positions, Candidate(k) PROVE SatSound'
  BY <1>3, <1>6 DEF Candidate
<1>7. CASE UNCHANGED vars
  BY <1>7 DEF vars, SatSound, Satisfies, Evaluate, Positions
<1> QED BY <1>1, <1>2, <1>4, <1>5, <1>6, <1>7 DEF Next, Solve, Ended

LEMMA Invariance == Spec => []IInv
<1>1. IInv /\ [Next]_vars => IInv'
  BY TypeStep, PhasesStep, NoneBehindStep, CoreSoundStep, SatSoundStep DEF IInv
<1> QED BY <1>1, InitIInv, PTL DEF Spec

-----------------------------------------------------------------------------
(* Results. *)

\* The variables keep their types: the loops nest as the recursion does.
THEOREM TypeCorrect == Spec => []TypeOK
<1>1. IInv => TypeOK
  BY DEF IInv
<1> QED BY <1>1, Invariance, PTL

\* Each counterexample is a model.
THEOREM ModelsHold == Spec => []SatSound
<1>1. IInv => SatSound
  BY DEF IInv
<1> QED BY <1>1, Invariance, PTL

\* UNSAT means that no assignment satisfies the problem, for every pruning,
\* deadline and budget.
THEOREM NoFalseUnsat == Spec => []UnsatSound
<1>1. IInv => UnsatSound
  <2> SUFFICES ASSUME IInv, status = "unsat" PROVE ~Satisfiable(Positions)
    BY DEF UnsatSound
  <2>1. ~Satisfiable(remaining) /\ remaining \in SUBSET Positions
    BY DEF IInv, Phases, CoreSound, TypeOK
  <2> QED BY <2>1, FewerSatisfiable
<1> QED BY <1>1, Invariance, PTL

\* The core of a finished search is unsatisfiable, and satisfiable without any
\* of its members.
THEOREM CoreMinimal == Spec => []CoreIrreducible
<1>1. IInv => CoreIrreducible
  <2> SUFFICES ASSUME IInv, status = "unsat"
               PROVE  /\ ~Satisfiable(remaining)
                      /\ \A k \in remaining :
                           Cardinality(remaining) > 1 => Satisfiable(remaining \ {k})
    BY DEF CoreIrreducible
  <2>1. pc = "done" /\ core /\ (left = {} \/ Cardinality(remaining) <= 1)
    BY DEF IInv, Phases
  <2>2. remaining \in SUBSET Positions /\ Cardinality(remaining) \in Nat
    <3>1. IsFiniteSet(Positions) /\ remaining \in SUBSET Positions
      <4>1. Positions = 1..Len(constraints) /\ Len(constraints) \in Nat
        BY DEF IInv, TypeOK, Positions
      <4>2. IsFiniteSet(1..Len(constraints))
        BY <4>1, FS_Interval
      <4> QED BY <4>1, <4>2 DEF IInv, TypeOK
    <3> QED BY <3>1, FS_Subset, FS_CardinalityType
  <2>3. \A k \in remaining \ left : Satisfiable(remaining \ {k})
    BY <2>1 DEF IInv, CoreSound, Searching
  <2> QED BY <2>1, <2>2, <2>3 DEF IInv, CoreSound
<1> QED BY <1>1, Invariance, PTL

-----------------------------------------------------------------------------
(***************************************************************************)
(* The solver abstains for cause only.  The budget is a count of leaves    *)
(* against a number of assignments, so the argument counts: the leaves     *)
(* counted are behind the search, each once, and the one that exceeds the  *)
(* budget is not among them.                                               *)
(***************************************************************************)

\* Every domain lists finitely many values.
FiniteDomains == \A i \in Vars : IsFiniteSet(Domain[i])

\* The assignments the search will not come to any more.
Passed == {x \in Assignments : ~Ahead(x)}

\* No open loop tries the value the path has for it again.
Taken == \A d \in DOMAIN path \cap DOMAIN todo : path[d] \notin todo[d]

\* The first search counts no more leaves than it has passed.
Counted == ~core /\ pc \in {"enter", "next"} => checked <= Cardinality(Passed)

\* What an abstention is due to, but for the size of the budget.
Cause ==
    status = "unknown" =>
        \/ outcome = "timed-out" /\ timed
        \/ outcome = "bounded" /\ budget # NoBudget
        \/ outcome = "abstained" /\ \E x \in Assignments, k \in Positions : Evaluate(k, x) = "raises"

\* A constraint that raises on the path raises on an assignment.
LEMMA RaisesSomewhere ==
  ASSUME TypeOK, Judged("raises")
  PROVE  \E x \in Assignments, k \in Positions : Evaluate(k, x) = "raises"
<1>1. PICK k \in Ripe : Evaluate(k, path) = "raises"
  BY DEF Judged
<1>2. k \in Positions /\ constraints[k].over \subseteq 1..Len(path)
  BY <1>1 DEF Ripe, TypeOK
<1>3. /\ Len(path) \in Nat /\ Len(path) <= N /\ N \in Nat /\ DOMAIN path = 1..Len(path)
      /\ \A i \in DOMAIN path : path[i] \in Domain[i]
  BY SearchAssumption DEF TypeOK
<1>4. \A i \in Vars : (\E w : w \in Domain[i]) /\ Domain[i] \subseteq Values
  BY SearchAssumption
<1> DEFINE x == [i \in Vars |-> IF i \in DOMAIN path THEN path[i]
                               ELSE CHOOSE w : w \in Domain[i]]
<1>5. \A i \in Vars : x[i] \in Domain[i]
  BY <1>3, <1>4
<1>6. x \in Assignments
  BY <1>4, <1>5 DEF Assignments
<1>7. \A i \in constraints[k].over : x[i] = path[i]
  BY <1>2, <1>3 DEF Vars
<1> HIDE DEF x
<1>8. Evaluate(k, x) = "raises"
  BY <1>1, <1>7, EvaluateLocal
<1> QED BY <1>2, <1>6, <1>8

LEMMA CauseStep ==
  ASSUME TypeOK, Phases, Cause, [Next]_vars
  PROVE  Cause'
<1> USE DEF inputs, node, shrinking, result
<1>1. CASE Timeout
  BY <1>1 DEF Timeout, Conclude, Cause
<1>2. CASE Exceed
  BY <1>2 DEF Exceed, InBudget, Conclude, Cause
<1>3. CASE Unsupported
  <2>1. \E x \in Assignments, k \in Positions : Evaluate(k, x) = "raises"
    BY <1>3, RaisesSomewhere DEF Unsupported, Enter
  <2> QED BY <1>3, <2>1 DEF Unsupported, Conclude, Cause, Evaluate, Positions
<1>4. CASE Satisfy \/ Minimized
  BY <1>4 DEF Satisfy, Minimized, Conclude, Cause
<1>5. ASSUME pc # "done", UNCHANGED status
      PROVE  Cause'
  BY <1>5 DEF Phases, Cause, TypeOK
<1>6. CASE Escape \/ Refute \/ Descend \/ Exhaust \/ Prove \/ Keep \/ Drop
  BY <1>5, <1>6 DEF Escape, Refute, Descend, Exhaust, Prove, Keep, Drop, Enter, Back
<1>7. ASSUME NEW v \in Values, Try(v) PROVE Cause'
  BY <1>5, <1>7 DEF Try
<1>8. ASSUME NEW k \in Positions, Candidate(k) PROVE Cause'
  BY <1>5, <1>8 DEF Candidate
<1>9. CASE UNCHANGED vars
  BY <1>9 DEF vars, Cause, Evaluate, Positions
<1> QED BY <1>1, <1>2, <1>3, <1>4, <1>6, <1>7, <1>8, <1>9 DEF Next, Solve, Ended

-----------------------------------------------------------------------------
(* Counting. *)

LEMMA FiniteAssignments ==
  ASSUME FiniteDomains
  PROVE  IsFiniteSet(Assignments)
<1> DEFINE D == {Domain[i] : i \in Vars}
           V == UNION D
           T == SUBSET (Vars \X V)
           f == [x \in Assignments |-> {<<i, x[i]>> : i \in Vars}]
<1>1. IsFiniteSet(Vars)
  BY SearchAssumption, FS_Interval DEF Vars
<1>2. IsFiniteSet(D)
  <2>1. Domain \in Surjection(Vars, D)
    BY SearchAssumption DEF Surjection
  <2> HIDE DEF D
  <2> QED BY <1>1, <2>1, FS_Surjection
<1>3. IsFiniteSet(V)
  <2>1. \A S \in D : IsFiniteSet(S)
    BY DEF FiniteDomains
  <2> HIDE DEF D
  <2> QED BY <1>2, <2>1, FS_UNION
<1>4. IsFiniteSet(T)
  <2> HIDE DEF V
  <2>1. IsFiniteSet(Vars \X V)
    BY <1>1, <1>3, FS_Product
  <2> QED BY <2>1, FS_SUBSET
<1>5. f \in [Assignments -> T]
  <2>1. \A x \in Assignments : {<<i, x[i]>> : i \in Vars} \in T
    BY DEF Assignments
  <2> QED BY <2>1
<1>6. ASSUME NEW x \in Assignments, NEW y \in Assignments, f[x] = f[y]
      PROVE  x = y
  <2>1. ASSUME NEW i \in Vars PROVE x[i] = y[i]
    <3>1. <<i, x[i]>> \in {<<j, y[j]>> : j \in Vars}
      BY <1>6
    <3> QED BY <3>1
  <2> QED BY <2>1 DEF Assignments
<1>7. f \in Injection(Assignments, T)
  <2> HIDE DEF f, T
  <2> QED BY <1>5, <1>6 DEF Injection, IsInjective
<1> HIDE DEF f, T
<1> QED BY <1>4, <1>7, FS_Injection

\* Passing more assignments, the one at hand among them, counts one more.
LEMMA CountGrows ==
  ASSUME NEW A, IsFiniteSet(A), NEW S \in SUBSET A, NEW T \in SUBSET A, S \subseteq T
  PROVE  /\ Cardinality(S) \in Nat /\ Cardinality(T) \in Nat
         /\ Cardinality(S) <= Cardinality(T)
         /\ \A x \in T \ S : Cardinality(S) + 1 <= Cardinality(T)
<1>1. IsFiniteSet(S) /\ IsFiniteSet(T) /\ S \in SUBSET T
  BY FS_Subset
<1>2. Cardinality(S) \in Nat /\ Cardinality(T) \in Nat
  BY <1>1, FS_CardinalityType
<1>3. Cardinality(S) <= Cardinality(T) /\ (Cardinality(T) = Cardinality(S) => T = S)
  BY <1>1, FS_Subset
<1> QED BY <1>2, <1>3

\* The loops and the path stay disjoint.
LEMMA TakenStep ==
  ASSUME TypeOK, Phases, Taken, [Next]_vars
  PROVE  Taken'
<1> USE DEF inputs, node, shrinking, result
<1>1. CASE Timeout \/ Exceed \/ Unsupported \/ Satisfy \/ Minimized
  BY <1>1 DEF Timeout, Exceed, Unsupported, Satisfy, Minimized, Conclude, Taken
<1>2. CASE Escape \/ Keep \/ Prove \/ Drop
  BY <1>2 DEF Escape, Keep, Prove, Drop, Taken
<1>3. ASSUME NEW frames, Back(frames),
             \/ pc = "enter" /\ frames = todo
             \/ pc = "next" /\ frames = SubSeq(todo, 1, Len(todo) - 1)
      PROVE  Taken'
  <2>1. /\ \A d \in DOMAIN frames : d \in DOMAIN todo /\ frames[d] = todo[d]
        /\ path = << >> => path' = path
        /\ path # << >> => /\ DOMAIN path' = 1..(Len(path) - 1)
                           /\ \A i \in 1..(Len(path) - 1) : path'[i] = path[i]
    BY <1>3, BackShape
  <2>2. todo' = frames /\ DOMAIN path = 1..Len(path) /\ Len(path) \in Nat
    BY <1>3 DEF Back, TypeOK
  <2>3. \A d \in DOMAIN path' : d \in DOMAIN path /\ path'[d] = path[d]
    BY <2>1, <2>2
  <2> QED BY <2>1, <2>2, <2>3 DEF Taken
<1>4. CASE Refute
  BY <1>3, <1>4 DEF Refute, Enter
<1>5. CASE Exhaust
  BY <1>3, <1>5 DEF Exhaust
<1>6. CASE Descend
  <2>1. Len(todo) = Len(path) /\ todo \in Seq(SUBSET Values) /\ path \in Seq(Values)
    BY <1>6 DEF Descend, Enter, TypeOK
  <2>2. todo' = Append(todo, Domain[Len(path) + 1]) /\ path' = path
    BY <1>6 DEF Descend
  <2>3. \A d \in DOMAIN path : d \in DOMAIN todo /\ todo'[d] = todo[d]
    BY <2>1, <2>2
  <2> QED BY <2>2, <2>3 DEF Taken
<1>7. ASSUME NEW v \in Values, Try(v) PROVE Taken'
  <2>1. /\ Len(todo) = Len(path) + 1 /\ todo \in Seq(SUBSET Values) /\ path \in Seq(Values)
        /\ Len(path) \in Nat
    BY <1>7 DEF Try, TypeOK
  <2>2. todo' = [todo EXCEPT ![Len(todo)] = @ \ {v}] /\ path' = Append(path, v)
    BY <1>7 DEF Try
  <2>3. \A d \in 1..Len(path) : path'[d] = path[d] /\ todo'[d] = todo[d]
    BY <2>1, <2>2
  <2>4. path'[Len(path) + 1] = v /\ v \notin todo'[Len(path) + 1]
    BY <2>1, <2>2
  <2>5. DOMAIN path' = 1..(Len(path) + 1)
        /\ DOMAIN path = 1..Len(path) /\ DOMAIN todo = 1..(Len(path) + 1)
    BY <2>1, <2>2
  <2> QED BY <2>1, <2>3, <2>4, <2>5 DEF Taken
<1>8. ASSUME NEW k \in Positions, Candidate(k) PROVE Taken'
  BY <1>8 DEF Candidate, Taken
<1>9. CASE UNCHANGED vars
  BY <1>9 DEF vars, Taken
<1> QED BY <1>1, <1>2, <1>4, <1>5, <1>6, <1>7, <1>8, <1>9 DEF Next, Solve, Ended

\* Leaving a node brings the search to no assignment it had passed, and takes it
\* past the leaf it leaves.
LEMMA BackPasses ==
  ASSUME TypeOK, NEW frames, Back(frames),
         \/ pc = "enter" /\ frames = todo
         \/ pc = "next" /\ frames = SubSeq(todo, 1, Len(todo) - 1),
         NEW x, Ahead(x)'
  PROVE  \E d \in DOMAIN frames : x[d] \in todo[d] /\ d \in DOMAIN todo /\ Agrees(x, d)
<1>1. /\ \A d \in DOMAIN frames : d \in DOMAIN todo /\ frames[d] = todo[d]
      /\ Len(frames) = Len(path) /\ frames \in Seq(SUBSET Values)
      /\ path = << >> => path' = path /\ pc' = "unsat"
      /\ path # << >> => /\ pc' = "next"
                         /\ \A i \in 1..(Len(path) - 1) : path'[i] = path[i]
  BY BackShape
<1>2. todo' = frames /\ path \in Seq(Values) /\ Len(path) \in Nat
  BY DEF Back, TypeOK
<1>3. pc' # "enter"
  BY <1>1
<1>4. PICK d \in DOMAIN frames : x[d] \in frames[d] /\ \A i \in 1..(d - 1) : x[i] = path'[i]
  BY <1>2, <1>3 DEF Ahead, Agrees
<1>5. path # << >> /\ d \in 1..Len(path)
  BY <1>1, <1>2
<1>6. \A i \in 1..(d - 1) : i \in 1..(Len(path) - 1)
  BY <1>2, <1>5
<1> QED BY <1>1, <1>4, <1>5, <1>6 DEF Agrees

\* What is passed stays passed while the first search goes on.
LEMMA PassedStays ==
  ASSUME TypeOK, Phases, Refute \/ Exhaust \/ Descend \/ \E v \in Values : Try(v),
         NEW x, Ahead(x)'
  PROVE  Ahead(x)
<1> USE DEF inputs, node, shrinking, result
<1>1. CASE Refute
  BY <1>1, BackPasses DEF Refute, Enter, Ahead
<1>2. CASE Exhaust
  BY <1>2, BackPasses DEF Exhaust, Ahead
<1>3. CASE Descend
  <2>1. /\ Len(todo) = Len(path) /\ todo \in Seq(SUBSET Values) /\ path \in Seq(Values)
        /\ pc = "enter"
    BY <1>3 DEF Descend, Enter, TypeOK
  <2>2. todo' = Append(todo, Domain[Len(path) + 1]) /\ pc' = "next" /\ path' = path
    BY <1>3 DEF Descend
  <2>3. PICK d \in DOMAIN todo' : x[d] \in todo'[d] /\ Agrees(x, d)
    BY <2>2 DEF Ahead, Agrees
  <2>4. DOMAIN todo' = 1..(Len(path) + 1) /\ DOMAIN todo = 1..Len(path)
        /\ \A i \in DOMAIN todo : todo'[i] = todo[i]
    BY <2>1, <2>2
  <2>5. CASE d \in DOMAIN todo
    BY <2>3, <2>4, <2>5 DEF Ahead
  <2>6. CASE d \notin DOMAIN todo
    <3>1. d = Len(path) + 1
      BY <2>1, <2>4, <2>6
    <3> QED BY <2>1, <2>3, <3>1 DEF Ahead
  <2> QED BY <2>5, <2>6
<1>4. ASSUME NEW v \in Values, Try(v) PROVE Ahead(x)
  <2> DEFINE m == Len(todo)
  <2>1. /\ m = Len(path) + 1 /\ todo \in Seq(SUBSET Values) /\ path \in Seq(Values)
        /\ m \in DOMAIN todo /\ Len(path) \in Nat
    BY <1>4 DEF Try, TypeOK
  <2>2. /\ todo' = [todo EXCEPT ![m] = @ \ {v}] /\ path' = Append(path, v) /\ v \in todo[m]
    BY <1>4 DEF Try
  <2>3. /\ Len(path') = m /\ path'[m] = v /\ \A i \in 1..Len(path) : path'[i] = path[i]
        /\ DOMAIN todo' = 1..m /\ DOMAIN todo = 1..m /\ m \in Nat
        /\ \A d \in DOMAIN todo : todo'[d] \subseteq todo[d]
    BY <2>1, <2>2
  <2> HIDE DEF m
  <2>4. CASE \A i \in 1..m : x[i] = path'[i]
    <3>1. x[m] = v /\ \A i \in 1..(m - 1) : x[i] = path[i]
      BY <2>1, <2>3, <2>4
    <3> QED BY <2>1, <2>2, <3>1 DEF Ahead, Agrees
  <2>5. ASSUME NEW d \in DOMAIN todo', x[d] \in todo'[d], \A i \in 1..(d - 1) : x[i] = path'[i]
        PROVE  Ahead(x)
    <3>1. d \in 1..m /\ \A i \in 1..(d - 1) : i \in 1..Len(path)
      BY <2>1, <2>3
    <3> QED BY <2>3, <2>5, <3>1 DEF Ahead, Agrees
  <2>6. \/ \A i \in 1..m : x[i] = path'[i]
        \/ \E d \in DOMAIN todo' : x[d] \in todo'[d] /\ \A i \in 1..(d - 1) : x[i] = path'[i]
    <3>1. Len(path') + 1 - 1 = m
      BY <2>3
    <3> QED BY <3>1 DEF Ahead, Agrees
  <2> QED BY <2>4, <2>5, <2>6
<1> QED BY <1>1, <1>2, <1>3, <1>4

\* A leaf that is refuted is passed, and was not before.
LEMMA LeafPassed ==
  ASSUME TypeOK, Taken, AtLeaf, pc = "enter", NEW x, x = path
  PROVE  /\ x \in Assignments /\ Ahead(x)
         /\ Refute => ~Ahead(x)'
<1>1. x \in Assignments
  <2>1. x \in [Vars -> Values] /\ DOMAIN x = Vars
    BY SearchAssumption DEF TypeOK, AtLeaf, Vars
  <2> QED BY <2>1 DEF TypeOK, Assignments
<1>2. Ahead(x)
  BY DEF Ahead, Agrees
<1>3. ASSUME Refute, Ahead(x)' PROVE FALSE
  <2>1. Len(todo) = Len(path) /\ DOMAIN todo = 1..Len(todo) /\ DOMAIN path = 1..Len(path)
    BY DEF TypeOK
  <2>2. \A d \in DOMAIN todo : x[d] \notin todo[d]
    BY <2>1 DEF Taken
  <2> QED BY <1>3, <2>2, BackPasses DEF Refute, Enter
<1> QED BY <1>1, <1>2, <1>3

LEMMA CountedStep ==
  ASSUME FiniteDomains, TypeOK, Phases, Taken, Counted, [Next]_vars
  PROVE  Counted'
<1> USE DEF inputs, node, shrinking, result
<1>1. IsFiniteSet(Assignments) /\ Assignments' = Assignments
  BY FiniteAssignments DEF Assignments
<1>2. Passed \in SUBSET Assignments /\ Passed' \in SUBSET Assignments
  BY <1>1 DEF Passed
<1>3. CASE core' \/ pc' \notin {"enter", "next"}
  BY <1>3 DEF Counted
<1>4. ASSUME ~core, pc \in {"enter", "next"}, Refute \/ Exhaust \/ Descend \/ \E v \in Values : Try(v)
      PROVE  Counted'
  <2>1. Passed \subseteq Passed'
    <3>1. \A x \in Assignments : Ahead(x)' => Ahead(x)
      BY <1>4, PassedStays
    <3> QED BY <1>1, <3>1 DEF Passed
  <2>2. checked \in Nat /\ checked <= Cardinality(Passed)
    BY <1>4 DEF Counted, TypeOK
  <2>3. /\ Cardinality(Passed) \in Nat /\ Cardinality(Passed') \in Nat
        /\ Cardinality(Passed) <= Cardinality(Passed')
        /\ \A x \in Passed' \ Passed : Cardinality(Passed) + 1 <= Cardinality(Passed')
    BY <1>1, <1>2, <2>1, CountGrows
  <2>4. CASE checked' = checked
    BY <2>2, <2>3, <2>4 DEF Counted
  <2>5. CASE checked' # checked
    <3>1. Refute /\ AtLeaf /\ pc = "enter" /\ checked' = checked + 1
      BY <1>4, <2>5 DEF Refute, Enter, Count, Exhaust, Descend, Try
    <3>2. PICK x : x = path
      OBVIOUS
    <3>3. x \in Assignments /\ Ahead(x) /\ ~Ahead(x)'
      BY <3>1, <3>2, LeafPassed
    <3>4. x \in Passed' \ Passed
      BY <1>1, <3>3 DEF Passed
    <3>5. Cardinality(Passed) + 1 <= Cardinality(Passed')
      BY <2>3, <3>4
    <3> QED BY <2>2, <2>3, <3>1, <3>5 DEF Counted
  <2> QED BY <2>4, <2>5
<1>5. ASSUME UNCHANGED vars PROVE Counted'
  <2>1. Passed' = Passed
    BY <1>5 DEF vars, Passed, Assignments, Ahead, Agrees
  <2> QED BY <1>5, <2>1 DEF vars, Counted
<1>6. ASSUME NEW v \in Values, Try(v), ~core' PROVE Counted'
  BY <1>4, <1>6 DEF Try
<1>7. ASSUME NEW k \in Positions, Candidate(k) PROVE core'
  BY <1>7 DEF Candidate, Phases
<1>8. ASSUME Refute \/ Exhaust \/ Descend, ~core' PROVE Counted'
  BY <1>4, <1>8 DEF Refute, Exhaust, Descend, Enter, Back
<1>9. CASE Timeout \/ Exceed \/ Unsupported \/ Satisfy \/ Minimized
  BY <1>3, <1>9 DEF Timeout, Exceed, Unsupported, Satisfy, Minimized, Conclude
<1>10. CASE Escape \/ Prove \/ Keep \/ Drop
  BY <1>3, <1>10 DEF Escape, Prove, Keep, Drop
<1>11. CASE Next
  BY <1>3, <1>5, <1>6, <1>7, <1>8, <1>9, <1>10, <1>11 DEF Next, Solve, Ended
<1> QED BY <1>5, <1>11

\* Within the budget (what an abstention says of it).
Exceeded ==
    status = "unknown" /\ outcome = "bounded" =>
        budget # NoBudget /\ budget < Cardinality(Assignments)

LEMMA ExceededStep ==
  ASSUME FiniteDomains, TypeOK, Phases, Taken, Counted, Exceeded, [Next]_vars
  PROVE  Exceeded'
<1> USE DEF inputs, node, shrinking, result
<1>1. CASE Exceed
  <2>1. AtLeaf /\ ~core /\ budget # NoBudget /\ ~(checked < budget) /\ pc = "enter"
    BY <1>1 DEF Exceed, InBudget
  <2>2. budget \in Nat /\ checked \in Nat
    BY <2>1, SearchAssumption DEF TypeOK
  <2>3. checked <= Cardinality(Passed)
    BY <2>1 DEF Counted
  <2>4. PICK x : x = path
    OBVIOUS
  <2>5. x \in Assignments \ Passed
    BY <2>1, <2>4, LeafPassed DEF Passed
  <2>6. /\ Cardinality(Passed) \in Nat /\ Cardinality(Assignments) \in Nat
        /\ Cardinality(Passed) + 1 <= Cardinality(Assignments)
    <3>1. IsFiniteSet(Assignments) /\ Passed \in SUBSET Assignments
      BY FiniteAssignments DEF Passed
    <3> QED BY <2>5, <3>1, CountGrows
  <2>7. budget < Cardinality(Assignments)
    BY <2>1, <2>2, <2>3, <2>6
  <2> QED BY <1>1, <2>1, <2>7 DEF Exceed, Conclude, Exceeded, Assignments
<1>2. CASE Timeout \/ Unsupported \/ Satisfy \/ Minimized
  BY <1>2 DEF Timeout, Unsupported, Satisfy, Minimized, Conclude, Exceeded
<1>3. ASSUME pc # "done", UNCHANGED status
      PROVE  Exceeded'
  BY <1>3 DEF Phases, Exceeded, TypeOK
<1>4. CASE Escape \/ Refute \/ Descend \/ Exhaust \/ Prove \/ Keep \/ Drop
  BY <1>3, <1>4 DEF Escape, Refute, Descend, Exhaust, Prove, Keep, Drop, Enter, Back
<1>5. ASSUME NEW v \in Values, Try(v) PROVE Exceeded'
  BY <1>3, <1>5 DEF Try
<1>6. ASSUME NEW k \in Positions, Candidate(k) PROVE Exceeded'
  BY <1>3, <1>6 DEF Candidate
<1>7. CASE UNCHANGED vars
  BY <1>7 DEF vars, Exceeded, Assignments
<1> QED BY <1>1, <1>2, <1>4, <1>5, <1>6, <1>7 DEF Next, Solve, Ended

\* Where domains are finite, the solver abstains only past a deadline, on an
\* expression that raises, or when the budget is smaller than the number of
\* assignments, none of which it counts twice.
THEOREM AbstainsSoundly ==
  ASSUME FiniteDomains
  PROVE  Spec => []AbstainsForCause
<1>1. Init => Taken /\ Counted /\ Cause /\ Exceeded
  <2> SUFFICES ASSUME Init PROVE Taken /\ Counted /\ Cause /\ Exceeded
    OBVIOUS
  <2>1. Cardinality(Passed) \in Nat
    <3>1. IsFiniteSet(Assignments) /\ Passed \in SUBSET Assignments
      BY FiniteAssignments DEF Passed
    <3> QED BY <3>1, FS_Subset, FS_CardinalityType
  <2> QED BY <2>1 DEF Init, Taken, Counted, Cause, Exceeded
<1>2. IInv /\ Taken /\ Counted /\ Cause /\ Exceeded /\ [Next]_vars
        => (Taken /\ Counted /\ Cause /\ Exceeded)'
  BY TakenStep, CountedStep, CauseStep, ExceededStep DEF IInv
<1>3. Cause /\ Exceeded => AbstainsForCause
  BY DEF Cause, Exceeded, AbstainsForCause
<1> QED BY <1>1, <1>2, <1>3, Invariance, PTL DEF Spec
=============================================================================
