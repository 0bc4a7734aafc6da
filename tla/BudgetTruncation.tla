--------------------------- MODULE BudgetTruncation ---------------------------
(***************************************************************************)
(* The must-survive proof of budgets.py: what the truncation policy of a   *)
(* framework drops from a prompt that is too long, and the search for the  *)
(* part of the prompt that shows a required segment dropped.               *)
(*                                                                         *)
(* A prompt is a sequence of segments; a part of it is a set of positions, *)
(* since a segment keeps its index when a part is looked at alone.  The    *)
(* search tells segments apart by their names, which need not differ: the  *)
(* segments of several artifacts are put into one prompt as they are.      *)
(***************************************************************************)
EXTENDS Integers, Sequences, FiniteSets

CONSTANTS
    Prompts,        \* the prompts considered
    Policies,       \* the truncation policies considered
    Budget          \* input_budget_tokens

Strategies == {"none", "left", "oldest-message", "sliding-window", "right", "middle", "priority"}
Unknown == -1

ASSUME BudgetAssumption ==
    /\ Prompts \subseteq Seq([name : STRING, role : STRING, tokens : Nat \cup {Unknown}, required : BOOLEAN])
    /\ \A p \in Policies :
         /\ p.strategy \in Strategies
         /\ {p.system, p.tools, p.supported} \subseteq BOOLEAN
         /\ p.roles \in Seq(STRING)
    /\ Budget \in Int

VARIABLES
    prompt,         \* input: name, role, tokens and required of each segment
    policy,         \* input: strategy, what it preserves, and drop_roles
    lost,           \* required positions the policy drops: dropped_required
    sample,         \* counterexample: the positions still in it
    looked,         \* positions the search has looked at
    survival        \* "truncate", "shrink" or the status of the proof

budgetVars == <<prompt, policy, lost, sample, looked, survival>>

Positions == DOMAIN prompt
Required == {i \in Positions : prompt[i].required}
Tokens(K) ==
    LET upTo[n \in 0..Len(prompt)] ==
          IF n = 0 THEN 0 ELSE upTo[n - 1] + IF n \in K THEN prompt[n].tokens ELSE 0
    IN  upTo[Len(prompt)]

\* total_tokens is None, or the policy is one of its own.
Unmodeled(K) == ~policy.supported \/ \E i \in K : prompt[i].tokens = Unknown

-----------------------------------------------------------------------------
(* _apply_truncation_policy and _drop_until_fits on the part K. *)

Preserved(i) ==
    \/ /\ policy.system \/ policy.strategy = "oldest-message"
       /\ prompt[i].role \in {"system", "developer"}
    \/ /\ policy.tools
       /\ prompt[i].role \in {"tool", "function"}

\* Where drop_roles names the role of i, and the first of these places.
RoleRank(i) == {r \in DOMAIN policy.roles : policy.roles[r] = prompt[i].role}
FirstRank(i) == CHOOSE r \in RoleRank(i) : \A s \in RoleRank(i) : r <= s

Eligible(K) ==
    IF policy.strategy # "priority" THEN K
    ELSE LET named == {i \in K : RoleRank(i) # {}}
         IN  IF named # {} THEN named ELSE K \ Required

Droppable(K) == {i \in Eligible(K) : ~Preserved(i)}

Abs(n) == IF n < 0 THEN -n ELSE n

\* i comes before j when the policy drops from K.  The middle is that of the
\* number of segments of K, the distance that of their old indexes.
Before(K, i, j) ==
    LET away(k) == Abs(2 * (k - 1) - (Cardinality(K) - 1))
    IN  CASE policy.strategy = "right" -> i > j
          [] policy.strategy = "middle" -> away(i) < away(j) \/ (away(i) = away(j) /\ i < j)
          [] policy.strategy = "priority" /\ RoleRank(i) \cup RoleRank(j) # {} ->
               \/ FirstRank(i) < FirstRank(j)
               \/ FirstRank(i) = FirstRank(j) /\ i < j
          [] OTHER -> i < j

\* Mutant of Dropped: the segment that would make the rest fit is not dropped.
DroppedTooFew(K) ==
    IF Unmodeled(K) \/ policy.strategy = "none" THEN {}
    ELSE {i \in Droppable(K) :
            Tokens(K) - Tokens({j \in Droppable(K) : i = j \/ Before(K, j, i)}) > Budget}

\* Segments are dropped in order while what is left is too long.
Dropped(K) ==
    IF Unmodeled(K) \/ policy.strategy = "none" THEN {}
    ELSE {i \in Droppable(K) :
            Tokens(K) - Tokens({j \in Droppable(K) : Before(K, j, i)}) > Budget}

-----------------------------------------------------------------------------
(* _prove_must_survive and _minimize_survival_counterexample. *)

BudgetInit ==
    /\ prompt \in Prompts
    /\ policy \in Policies
    /\ lost = {}
    /\ sample = {}
    /\ looked = {}
    /\ survival = "truncate"

Proven ==
    /\ survival = "truncate"
    /\ Required = {} \/ (~Unmodeled(Positions) /\ Dropped(Positions) \cap Required = {})
    /\ survival' = "proven"
    /\ UNCHANGED <<prompt, policy, lost, sample, looked>>

Abstains ==
    /\ survival = "truncate"
    /\ Required # {} /\ Unmodeled(Positions)
    /\ survival' = "abstained"
    /\ UNCHANGED <<prompt, policy, lost, sample, looked>>

Violated ==
    /\ survival = "truncate"
    /\ Dropped(Positions) \cap Required # {}
    /\ lost' = Dropped(Positions) \cap Required
    /\ sample' = Positions
    /\ survival' = "shrink"
    /\ UNCHANGED <<prompt, policy, looked>>

\* The segments whose name is in target_names.  A part shows the violation if the
\* policy drops a required one of them from it.
Targets == {i \in Positions : \E j \in lost : prompt[i].name = prompt[j].name}
Demonstrates(K) == Dropped(K) \cap Required \cap Targets # {}
Upcoming(i) == i \in Positions \ looked /\ \A j \in Positions \ looked : i <= j

\* Mutant of Omit: a segment is left out when no target is dropped without it.
OmitFitting(i) ==
    /\ survival = "shrink" /\ Upcoming(i)
    /\ looked' = looked \cup {i}
    /\ sample' = IF i \notin Targets /\ ~Demonstrates(sample \ {i}) THEN sample \ {i} ELSE sample
    /\ UNCHANGED <<prompt, policy, lost, survival>>

\* A target stays; any other segment is left out if the rest still shows it.
Omit(i) ==
    /\ survival = "shrink" /\ Upcoming(i)
    /\ looked' = looked \cup {i}
    /\ sample' = IF i \notin Targets /\ Demonstrates(sample \ {i}) THEN sample \ {i} ELSE sample
    /\ UNCHANGED <<prompt, policy, lost, survival>>

Shrunk ==
    /\ survival = "shrink" /\ looked = Positions
    /\ survival' = "violated"
    /\ UNCHANGED <<prompt, policy, lost, sample, looked>>

Surviving ==
    \/ Proven \/ Abstains \/ Violated \/ Shrunk
    \/ \E i \in Positions : Omit(i)
BudgetEnded == survival \in {"proven", "abstained", "violated"} /\ UNCHANGED budgetVars

BudgetNext == Surviving \/ BudgetEnded

BudgetSpec == BudgetInit /\ [][BudgetNext]_budgetVars

-----------------------------------------------------------------------------
(* Properties *)

Kept == Positions \ Dropped(Positions)

\* A prompt is proven only when every required segment is kept, and what is kept
\* then fits unless the policy drops nothing or has nothing left to drop; what
\* is dropped last had to go.
ProvenKept ==
    survival = "proven" /\ Required # {} =>
        /\ Required \subseteq Kept
        /\ policy.strategy = "none" \/ Tokens(Kept) <= Budget \/ Droppable(Positions) \subseteq Dropped(Positions)
        /\ Dropped(Positions) # {} =>
             \E i \in Dropped(Positions) : Tokens(Kept \cup {i}) > Budget

\* The counterexample of a violation shows it, and shows no more than it must: it
\* has every segment that is dropped from the whole although it must survive; the
\* same policy drops one of these, or another required one of the same name, from
\* this part; and no segment can be left out besides those that bear such a name,
\* which are never tried.  This is so although the search looks at each only once
\* and what is dropped depends on the rest.  The last part is not said of "middle":
\* the middle moves as segments are left out, and ten segments are enough for one
\* that was needed to become needless.
CounterexampleMinimal ==
    survival = "violated" =>
        /\ lost # {} /\ Targets \subseteq sample /\ Demonstrates(sample)
        /\ policy.strategy # "middle" => \A i \in sample \ Targets : ~Demonstrates(sample \ {i})

\* What docs/concepts/must-survive-budgets.md says of the counterexample: it is
\* the smallest part of the prompt that demonstrates the drop.
SmallestCounterexample ==
    survival = "violated" =>
        \A K \in SUBSET Positions :
            Targets \subseteq K /\ Demonstrates(K) => Cardinality(sample) <= Cardinality(K)

=============================================================================
