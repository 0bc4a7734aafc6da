-------------------------- MODULE AutomatonMinimize --------------------------
(***************************************************************************)
(* DeterministicFiniteAutomaton.minimize of formal.py: the automaton is    *)
(* completed with a sink, its reachable states are collected, and the      *)
(* partition of these into accepting and rejecting ones is refined until a *)
(* sweep splits no block.  The blocks are the states of the result; their  *)
(* names are left out.                                                     *)
(***************************************************************************)
EXTENDS FiniteSets

CONSTANTS
    Alphabet,
    Automata,       \* the automata considered
    Sink            \* the state that completes an automaton

ASSUME AutomatonAssumption ==
    \A d \in Automata :
        /\ Sink \notin d.states
        /\ d.start \in d.states
        /\ d.accepts \subseteq d.states
        /\ DOMAIN d.step \subseteq d.states \X Alphabet
        /\ \A m \in DOMAIN d.step : d.step[m] \in d.states

VARIABLES
    dfa,            \* input
    reached,        \* reachable states found so far
    toVisit,        \* those whose successors were not looked at yet
    blocks,         \* partitions
    minimizing      \* "reach", "refine" or "done"

minimizeVars == <<dfa, reached, toVisit, blocks, minimizing>>

States == dfa.states \cup {Sink}

\* complete(): a missing transition leads to the sink, which is never left.
Succ(p, a) == IF <<p, a>> \in DOMAIN dfa.step THEN dfa.step[<<p, a>>] ELSE Sink

MinimizeInit ==
    /\ dfa \in Automata
    /\ reached = {dfa.start}
    /\ toVisit = {dfa.start}
    /\ blocks = {}
    /\ minimizing = "reach"

Successors(p) == {Succ(p, a) : a \in Alphabet}

\* The order of the queue does not matter and is left open.
Explore(p) ==
    /\ minimizing = "reach" /\ p \in toVisit
    /\ reached' = reached \cup Successors(p)
    /\ toVisit' = (toVisit \ {p}) \cup (Successors(p) \ reached)
    /\ UNCHANGED <<dfa, blocks, minimizing>>

Partition ==
    /\ minimizing = "reach" /\ toVisit = {}
    /\ blocks' = {reached \cap dfa.accepts, reached \ dfa.accepts} \ {{}}
    /\ minimizing' = "refine"
    /\ UNCHANGED <<dfa, reached, toVisit>>

Same(p, q) == \E B \in blocks : p \in B /\ q \in B

\* The signatures of p and q are equal.
Alike(p, q) == \A a \in Alphabet : Same(Succ(p, a), Succ(q, a))

\* Mutant of Refined: a signature holds the successors and not their blocks.
RefinedByTarget ==
    UNION {{{q \in B : \A a \in Alphabet : Succ(p, a) = Succ(q, a)} : p \in B} : B \in blocks}

\* Mutant of Refined: states of different blocks are put together again.
RefinedAcross == {{q \in reached : Alike(p, q)} : p \in reached}

\* Each block is split into buckets of states with the same signature.
Refined == UNION {{{q \in B : Alike(p, q)} : p \in B} : B \in blocks}

Refine ==
    /\ minimizing = "refine"
    /\ blocks' = Refined
    /\ minimizing' = IF Refined = blocks THEN "done" ELSE "refine"
    /\ UNCHANGED <<dfa, reached, toVisit>>

Minimizing == Partition \/ Refine \/ \E p \in toVisit : Explore(p)
MinimizeEnded == minimizing = "done" /\ UNCHANGED minimizeVars

MinimizeNext == Minimizing \/ MinimizeEnded

MinimizeSpec == MinimizeInit /\ [][MinimizeNext]_minimizeVars

-----------------------------------------------------------------------------
(* Properties *)

\* The automaton built from the blocks accepts what the original accepts: each
\* reachable state is in exactly one block, a block accepts as a whole, and the
\* block a symbol leads to does not depend on the state taken for the block.
QuotientSound ==
    minimizing = "done" =>
        /\ UNION blocks = reached
        /\ \A B, C \in blocks : B # C => B \cap C = {}
        /\ \A B \in blocks : B \subseteq dfa.accepts \/ B \cap dfa.accepts = {}
        /\ \A B \in blocks : \A p, q \in B : Alike(p, q)

\* States related by R accept alike and stay related.
Bisimulation(R) ==
    \A m \in R :
        /\ m[1] \in dfa.accepts <=> m[2] \in dfa.accepts
        /\ \A a \in Alphabet : <<Succ(m[1], a), Succ(m[2], a)>> \in R

\* No two blocks can be merged: states that cannot be told apart share one, so
\* the result is the smallest automaton of its language.
Coarsest ==
    minimizing = "done" =>
        \A R \in SUBSET (reached \X reached) :
            Bisimulation(R) => \A m \in R : Same(m[1], m[2])

=============================================================================
