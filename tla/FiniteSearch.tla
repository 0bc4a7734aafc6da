---------------------------- MODULE FiniteSearch ----------------------------
(***************************************************************************)
(* The finite contract solver without Z3: FiniteContractProblem.solve,     *)
(* _solve_by_enumeration, _enumerated_unsat_core and _is_satisfiable of    *)
(* formal.py.                                                              *)
(*                                                                         *)
(* A depth-first search assigns the variables in order.  It prunes a node  *)
(* when a constraint over the variables assigned so far is false, counts   *)
(* the leaves against an assignment budget, and looks at the clock at each *)
(* node.  When it exhausts the domain, the constraints are deleted one by  *)
(* one to find the unsat core: the same search, over fewer constraints and *)
(* without budget, clock or handler.                                       *)
(*                                                                         *)
(* A constraint is the set of variables its expression names and a table   *)
(* of its value on each choice of these: true, false, or an exception (a   *)
(* numeric comparison of a value that is no number).  The values of a      *)
(* variable are tried in any order; the code has one.                      *)
(***************************************************************************)
EXTENDS Naturals, Sequences, FiniteSets

CONSTANTS
    N,              \* number of variables; they are assigned in the order 1..N
    Values,         \* values of all domains
    Domain,         \* values() of the domain of each variable
    Problems,       \* the constraint sequences considered
    Budgets,        \* max_assignments
    NoBudget,       \* max_assignments is None
    Timed           \* whether a timeout may be given

Vars == 1..N
Truth == {"true", "false", "raises"}
Constraint == UNION {[over : {S}, value : [[S -> Values] -> Truth]] : S \in SUBSET Vars}

ASSUME SearchAssumption ==
    /\ N \in Nat
    /\ Domain \in [Vars -> (SUBSET Values) \ {{}}]
    /\ Problems \subseteq Seq(Constraint)
    /\ Budgets \subseteq Nat \ {0}
    /\ NoBudget \notin Nat
    /\ Timed \subseteq BOOLEAN

VARIABLES
    constraints,    \* input: the constraints of the problem
    budget,         \* input: max_assignments
    timed,          \* input: timeout_seconds is given
    pc,             \* "enter" a node, "next" value of a loop, search "unsat",
                    \* "shrink" the core, "done", or "raised" to the caller
    core,           \* the search is one of the core's
    active,         \* constraints searched, by position
    path,           \* values of the variables assigned
    todo,           \* values not tried yet of each variable some loop is at
    checked,        \* assignments counted
    remaining,      \* the core so far
    left,           \* members of the core not tried since it last shrank
    status,         \* of the result
    outcome         \* solver_budget_outcome of the result

inputs == <<constraints, budget, timed>>
node == <<active, path, todo>>
shrinking == <<core, remaining, left>>
result == <<status, outcome>>
vars == <<inputs, pc, node, checked, shrinking, result>>

-----------------------------------------------------------------------------
Positions == DOMAIN constraints
Assignments == {x \in [Vars -> Values] : \A i \in Vars : x[i] \in Domain[i]}

Evaluate(k, x) == constraints[k].value[[i \in constraints[k].over |-> x[i]]]
Satisfies(x, K) == \A k \in K : Evaluate(k, x) = "true"
Satisfiable(K) == \E x \in Assignments : Satisfies(x, K)

Least(k, K) == k \in K /\ \A j \in K : k <= j

AtLeaf == Len(path) = N

\* Mutant of Ripe: constraints that do not name the last variable assigned are
\* taken for checked before.
RipeLast == {k \in active : Len(path) \in constraints[k].over
                            /\ constraints[k].over \subseteq 1..Len(path)}

\* The constraints all of whose variables are assigned.
Ripe == {k \in active : constraints[k].over \subseteq 1..Len(path)}

\* What the first of them says that is not true.
Judged(v) ==
    IF v = "true" THEN \A k \in Ripe : Evaluate(k, path) = "true"
    ELSE \E k \in Ripe : /\ Evaluate(k, path) = v
                         /\ \A j \in Ripe : j < k => Evaluate(j, path) = "true"

Init ==
    /\ constraints \in Problems
    /\ budget \in Budgets \cup {NoBudget}
    /\ timed \in Timed
    /\ pc = "enter"
    /\ core = FALSE
    /\ active = Positions
    /\ path = << >>
    /\ todo = << >>
    /\ checked = 0
    /\ remaining = {}
    /\ left = {}
    /\ status = "none"
    /\ outcome = "none"

-----------------------------------------------------------------------------
(* search(index, assignment, assigned). *)

Conclude(s, o) ==
    /\ pc' = "done"
    /\ status' = s
    /\ outcome' = o
    /\ UNCHANGED <<inputs, node, shrinking>>

\* Leave a node without a model; the search ends when it was the root.
Back(frames) ==
    /\ pc' = IF path = << >> THEN "unsat" ELSE "next"
    /\ path' = IF path = << >> THEN path ELSE SubSeq(path, 1, Len(path) - 1)
    /\ todo' = frames
    /\ UNCHANGED <<inputs, active, shrinking, result>>

\* Mutant of Timeout: the subtree left out counts as exhausted.
TimeoutPrunes ==
    /\ pc = "enter" /\ ~core
    /\ timed
    /\ Back(todo)
    /\ UNCHANGED checked

\* The deadline has passed when a node is entered.
Timeout ==
    /\ pc = "enter" /\ ~core
    /\ timed
    /\ Conclude("unknown", "timed-out")
    /\ UNCHANGED checked

\* Leaves are counted, in the first search.
Count == checked' = IF AtLeaf /\ ~core THEN checked + 1 ELSE checked

\* Mutant of InBudget: one assignment less.
InBudgetLess == AtLeaf /\ ~core /\ budget # NoBudget => checked + 1 < budget

InBudget == AtLeaf /\ ~core /\ budget # NoBudget => checked < budget

Exceed ==
    /\ pc = "enter"
    /\ ~InBudget
    /\ Count
    /\ Conclude("unknown", "bounded")

\* Enter a node and evaluate its constraints.
Enter(v) == pc = "enter" /\ InBudget /\ Judged(v) /\ Count

\* An expression raises: the first search reports an unsupported fragment.
Unsupported == Enter("raises") /\ ~core /\ Conclude("unknown", "abstained")

\* The search for a core lets the exception through.
Escape ==
    /\ Enter("raises") /\ core
    /\ pc' = "raised"
    /\ UNCHANGED <<inputs, node, shrinking, result>>

Refute == Enter("false") /\ Back(todo)

Descend ==
    /\ Enter("true") /\ ~AtLeaf
    /\ todo' = Append(todo, Domain[Len(path) + 1])
    /\ pc' = "next"
    /\ UNCHANGED <<inputs, active, path, shrinking, result>>

Try(v) ==
    /\ pc = "next"
    /\ v \in todo[Len(todo)]
    /\ todo' = [todo EXCEPT ![Len(todo)] = @ \ {v}]
    /\ path' = Append(path, v)
    /\ pc' = "enter"
    /\ UNCHANGED <<inputs, active, checked, shrinking, result>>

Exhaust ==
    /\ pc = "next"
    /\ todo[Len(todo)] = {}
    /\ Back(SubSeq(todo, 1, Len(todo) - 1))
    /\ UNCHANGED checked

\* The model of the first search is the path.
Satisfy == Enter("true") /\ AtLeaf /\ ~core /\ Conclude("sat", "proved")

-----------------------------------------------------------------------------
(* _enumerated_unsat_core. *)

Prove ==
    /\ pc = "unsat" /\ ~core
    /\ core' = TRUE
    /\ remaining' = Positions
    /\ left' = Positions
    /\ pc' = "shrink"
    /\ UNCHANGED <<inputs, node, checked, result>>

\* Mutant of Candidate: the loop starts again after any candidate.
CandidateAgain(k) ==
    /\ pc = "shrink"
    /\ Cardinality(remaining) > 1
    /\ Least(k, left)
    /\ active' = remaining \ {k}
    /\ path' = << >>
    /\ todo' = << >>
    /\ pc' = "enter"
    /\ UNCHANGED <<inputs, checked, core, remaining, left, result>>

\* Is the core without its next member still unsatisfiable?
Candidate(k) ==
    /\ pc = "shrink"
    /\ Cardinality(remaining) > 1
    /\ Least(k, left)
    /\ left' = left \ {k}
    /\ active' = remaining \ {k}
    /\ path' = << >>
    /\ todo' = << >>
    /\ pc' = "enter"
    /\ UNCHANGED <<inputs, checked, core, remaining, result>>

Keep ==
    /\ Enter("true") /\ AtLeaf /\ core
    /\ pc' = "shrink"
    /\ UNCHANGED <<inputs, node, shrinking, result>>

\* Mutant of Drop: changed is not set again.
DropOnce ==
    /\ pc = "unsat" /\ core
    /\ remaining' = active
    /\ left' = {}
    /\ pc' = "shrink"
    /\ UNCHANGED <<inputs, node, checked, core, result>>

\* It is: the loop starts again on the smaller core.
Drop ==
    /\ pc = "unsat" /\ core
    /\ remaining' = active
    /\ left' = active
    /\ pc' = "shrink"
    /\ UNCHANGED <<inputs, node, checked, core, result>>

Minimized ==
    /\ pc = "shrink"
    /\ Cardinality(remaining) <= 1 \/ left = {}
    /\ Conclude("unsat", "proved")
    /\ UNCHANGED checked

Ended == pc \in {"done", "raised"} /\ UNCHANGED vars

Solve ==
    \/ Timeout \/ Exceed \/ Unsupported \/ Escape \/ Refute \/ Descend \/ Exhaust \/ Satisfy
    \/ Prove \/ Keep \/ Drop \/ Minimized
    \/ \E v \in Values : Try(v)
    \/ \E k \in Positions : Candidate(k)

Next == Solve \/ Ended

Spec == Init /\ [][Next]_vars

-----------------------------------------------------------------------------
(* Properties *)

\* Every variable holds a value of its kind; a value is assigned for each open
\* loop but the innermost, which is between two values at "next".
TypeOK ==
    /\ constraints \in Seq(Constraint)
    /\ budget \in Budgets \cup {NoBudget}
    /\ timed \in BOOLEAN
    /\ pc \in {"enter", "next", "unsat", "shrink", "done", "raised"}
    /\ core \in BOOLEAN
    /\ active \subseteq Positions
    /\ path \in Seq(Values)
    /\ Len(path) <= N
    /\ \A i \in DOMAIN path : path[i] \in Domain[i]
    /\ todo \in Seq(SUBSET Values)
    /\ Len(todo) <= N
    /\ pc = "enter" => Len(todo) = Len(path)
    /\ pc = "next" => Len(todo) = Len(path) + 1
    /\ checked \in Nat
    /\ remaining \subseteq Positions
    /\ left \subseteq remaining
    /\ status \in {"none", "sat", "unsat", "unknown"}
    /\ outcome \in {"none", "proved", "bounded", "timed-out", "abstained"}

\* A counterexample the solver reports satisfies every constraint, although most
\* were checked on partial assignments only.
SatSound == status = "sat" => path \in Assignments /\ Satisfies(path, Positions)

\* "UNSAT" is never said of a problem with a model, whatever was pruned, and
\* whenever the deadline passed or the budget ran out.
UnsatSound == status = "unsat" => ~Satisfiable(Positions)

\* The unsat core is unsatisfiable and deletion-minimal.
CoreIrreducible ==
    status = "unsat" =>
        /\ ~Satisfiable(remaining)
        /\ \A k \in remaining : Cardinality(remaining) > 1 => Satisfiable(remaining \ {k})

\* The solver abstains only for cause: a deadline, an expression that raises, or
\* a budget smaller than the number of assignments, none of which it counts
\* twice.  Without these it decides every problem.
AbstainsForCause ==
    status = "unknown" =>
        \/ outcome = "timed-out" /\ timed
        \/ outcome = "bounded" /\ budget # NoBudget /\ budget < Cardinality(Assignments)
        \/ outcome = "abstained" /\ \E x \in Assignments, k \in Positions : Evaluate(k, x) = "raises"

\* A problem with an expression that raises is answered as any other: UNKNOWN
\* stands for what the solver does not support.
NoEscape == pc # "raised"

=============================================================================
