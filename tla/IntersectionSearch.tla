-------------------------- MODULE IntersectionSearch --------------------------
(***************************************************************************)
(* intersection_witness of formal.py: the breadth-first search for a word  *)
(* two automata both accept, over the pairs of their states and without    *)
(* building the product.                                                   *)
(*                                                                         *)
(* The queue is the set of the pairs in it: which of several pairs at the  *)
(* same depth comes first is left open.  A word stands for the chain of    *)
(* predecessors it is read from.  The compressed alphabet, one symbol for  *)
(* each target, changes no result and is left out, as are the counters.    *)
(***************************************************************************)
EXTENDS Naturals, Sequences, FiniteSets

CONSTANTS
    Letters,        \* both alphabets
    Operands,       \* the automata considered, with partial transitions
    Depths,         \* max_depth
    NoDepth         \* max_depth is None

ASSUME OperandAssumption ==
    /\ \A d \in Operands :
         /\ d.start \in d.states
         /\ d.accepts \subseteq d.states
         /\ DOMAIN d.step \subseteq d.states \X Letters
         /\ \A m \in DOMAIN d.step : d.step[m] \in d.states
    /\ Depths \subseteq Nat
    /\ NoDepth \notin Nat

VARIABLES
    left, right,    \* input
    maxDepth,       \* input
    pending,        \* pairs in the queue
    word,           \* the word that led to each pair seen
    meeting,        \* the pair found, once search is "found"
    search          \* "search", "found" or "none"

searchVars == <<left, right, maxDepth, pending, word, meeting, search>>

Origin == <<left.start, right.start>>
Accepted(p) == p[1] \in left.accepts /\ p[2] \in right.accepts

\* a leads from the pair p to the pair r: both automata have the transition.
Leads(p, a, r) ==
    /\ <<p[1], a>> \in DOMAIN left.step /\ r[1] = left.step[<<p[1], a>>]
    /\ <<p[2], a>> \in DOMAIN right.step /\ r[2] = right.step[<<p[2], a>>]

SearchInit ==
    /\ left \in Operands
    /\ right \in Operands
    /\ maxDepth \in Depths \cup {NoDepth}
    /\ pending = {Origin}
    /\ word = [p \in {Origin} |-> << >>]
    /\ meeting = Origin
    /\ search = "search"

Seen == DOMAIN word

\* The pairs of the automata one symbol after p that were not seen.
Fresh(p) ==
    {r \in left.states \X right.states : r \notin Seen /\ \E a \in Letters : Leads(p, a, r)}

\* Mutant of Shallowest: any pair of the queue (a stack instead of a queue).
AnyPending(p) == p \in pending

Shallowest(p) == p \in pending /\ \A q \in pending : Len(word[p]) <= Len(word[q])

Found(p) ==
    /\ search = "search" /\ Shallowest(p)
    /\ Accepted(p)
    /\ meeting' = p
    /\ search' = "found"
    /\ UNCHANGED <<left, right, maxDepth, pending, word>>

\* A pair at the bound has no successors in the queue.
Bounded(p) ==
    /\ search = "search" /\ Shallowest(p)
    /\ ~Accepted(p)
    /\ maxDepth # NoDepth /\ Len(word[p]) >= maxDepth
    /\ pending' = pending \ {p}
    /\ UNCHANGED <<left, right, maxDepth, word, meeting, search>>

\* Mutant of Expand: one successor is taken only.
ExpandOne(p) ==
    /\ search = "search" /\ Shallowest(p)
    /\ ~Accepted(p)
    /\ maxDepth # NoDepth => Len(word[p]) < maxDepth
    /\ \E next \in [Fresh(p) -> Letters] :
         /\ \A r \in Fresh(p) : Leads(p, next[r], r)
         /\ \E new \in SUBSET Fresh(p) :
              /\ Fresh(p) # {} => Cardinality(new) = 1
              /\ word' = [r \in Seen \cup new |-> IF r \in Seen THEN word[r] ELSE Append(word[p], next[r])]
              /\ pending' = (pending \ {p}) \cup new
    /\ UNCHANGED <<left, right, maxDepth, meeting, search>>

\* Each new pair is queued, with a symbol that leads to it.
Expand(p) ==
    /\ search = "search" /\ Shallowest(p)
    /\ ~Accepted(p)
    /\ maxDepth # NoDepth => Len(word[p]) < maxDepth
    /\ \E next \in [Fresh(p) -> Letters] :
         /\ \A r \in Fresh(p) : Leads(p, next[r], r)
         /\ word' = [r \in Seen \cup Fresh(p) |->
                        IF r \in Seen THEN word[r] ELSE Append(word[p], next[r])]
    /\ pending' = (pending \ {p}) \cup Fresh(p)
    /\ UNCHANGED <<left, right, maxDepth, meeting, search>>

NotFound ==
    /\ search = "search" /\ pending = {}
    /\ search' = "none"
    /\ UNCHANGED <<left, right, maxDepth, pending, word, meeting>>

Searching == NotFound \/ \E p \in pending : Found(p) \/ Bounded(p) \/ Expand(p)
SearchEnded == search # "search" /\ UNCHANGED searchVars

SearchNext == Searching \/ SearchEnded

SearchSpec == SearchInit /\ [][SearchNext]_searchVars

-----------------------------------------------------------------------------
(* Properties *)

\* The pairs a word can lead to from p: one or none.
After(p, w) ==
    LET step[n \in 0..Len(w)] ==
            IF n = 0 THEN {p}
            ELSE {r \in left.states \X right.states : \E q \in step[n - 1] : Leads(q, w[n], r)}
    IN  step[Len(w)]

\* Both automata accept the word w.
Both(w) == \E p \in After(Origin, w) : Accepted(p)

WordsUpTo(n) == UNION {[1..k -> Letters] : k \in 0..n}

\* A word is returned that both automata accept, and none of its length or less
\* was passed over; none is returned only if there is none within the depth,
\* although a pair is visited once, by whichever word came first.
ShortestCommonWord ==
    /\ search = "found" =>
         /\ Both(word[meeting])
         /\ maxDepth # NoDepth => Len(word[meeting]) <= maxDepth
         /\ \A w \in WordsUpTo(Len(word[meeting]) - 1) : ~Both(w)
    /\ search = "none" /\ maxDepth # NoDepth =>
         \A w \in WordsUpTo(maxDepth) : ~Both(w)

\* The pairs no set closed under common transitions can miss.
Reachable ==
    {p \in left.states \X right.states :
        \A S \in SUBSET (left.states \X right.states) :
            /\ Origin \in S
            /\ \A q \in S, a \in Letters, r \in left.states \X right.states :
                 Leads(q, a, r) => r \in S
            => p \in S}

\* Without a bound, no word found means that the languages are disjoint: no
\* reachable pair accepts.
NoneMeansDisjoint ==
    search = "none" /\ maxDepth = NoDepth => \A p \in Reachable : ~Accepted(p)

=============================================================================
