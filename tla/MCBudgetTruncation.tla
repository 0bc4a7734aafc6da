-------------------------- MODULE MCBudgetTruncation --------------------------
(***************************************************************************)
(* Prompts of four segments that a left truncation cuts to 4 tokens.       *)
(***************************************************************************)
EXTENDS BudgetTruncation

Segment(n, r, t, q) == [name |-> n, role |-> r, tokens |-> t, required |-> q]
MCSegments == {Segment("rules", "system", 1, TRUE), Segment("note", "user", 2, FALSE),
               Segment("text", "user", 4, FALSE)}
MCPrompts == [1..4 -> MCSegments]
MCPolicies == {[strategy |-> "left", system |-> FALSE, tools |-> FALSE, roles |-> << >>,
                supported |-> TRUE]}
=============================================================================
