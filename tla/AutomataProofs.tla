---------------------------- MODULE AutomataProofs ----------------------------
(***************************************************************************)
(* The algorithms on words, for any automata, grammars and streams.  The   *)
(* minimised automaton is sound and as small as can be.  The search finds  *)
(* a shortest common word within its depth, and without a bound on it      *)
(* "none" shows the languages disjoint.  Both verdicts of the emptiness    *)
(* analysis are right.  A stream is flagged where a protected literal ends *)
(* inside a string, and nowhere else, however it is cut.                   *)
(***************************************************************************)
EXTENDS AutomatonMinimize, IntersectionSearch, GrammarEmptiness, StreamingParser,
        SequenceTheorems, WellFoundedInduction, TLAPS

(* Minimisation. *)

\* What is reached holds the successors of all that was looked at.
ReachedClosed ==
    /\ toVisit \subseteq reached
    /\ \A p \in reached \ toVisit : Successors(p) \subseteq reached

\* Blocks are disjoint, cover what is reached and accept as a whole.
Partitioned ==
    /\ UNION blocks = reached
    /\ \A B, C \in blocks : B # C => B \cap C = {}
    /\ \A B \in blocks : B \subseteq dfa.accepts \/ B \cap dfa.accepts = {}

\* States that cannot be told apart were never separated.
NeverApart ==
    \A R \in SUBSET (reached \X reached) :
        Bisimulation(R) => \A m \in R : Same(m[1], m[2])

MInv ==
    /\ ReachedClosed
    /\ minimizing # "reach" => toVisit = {} /\ Partitioned /\ NeverApart
    /\ minimizing = "done" => \A B \in blocks : \A p, q \in B : Alike(p, q)

LEMMA MinimizeStarts == MinimizeInit => MInv
  BY DEF MinimizeInit, MInv, ReachedClosed

LEMMA ExploreKeeps ==
  ASSUME MInv, NEW p \in toVisit, Explore(p)
  PROVE  MInv'
<1>1. ReachedClosed'
  <2>1. \A q : Successors(q)' = Successors(q)
    BY DEF Explore, Successors, Succ
  <2>2. \A q \in reached' \ toVisit' : q \in reached \ toVisit \/ q = p
    BY DEF Explore
  <2>3. \A q \in reached' \ toVisit' : Successors(q) \subseteq reached'
    BY <2>2 DEF MInv, ReachedClosed, Explore
  <2>4. toVisit' \subseteq reached'
    BY DEF MInv, ReachedClosed, Explore
  <2> QED
    BY <2>1, <2>3, <2>4 DEF ReachedClosed
<1> QED
  BY <1>1 DEF MInv, Explore

LEMMA PartitionKeeps ==
  ASSUME MInv, Partition
  PROVE  MInv'
<1>1. ReachedClosed'
  BY DEF MInv, ReachedClosed, Partition, Successors, Succ
<1>2. Partitioned'
  <2>1. UNION blocks' = reached'
    BY DEF Partition
  <2>2. \A B, C \in blocks' : B # C => B \cap C = {}
    BY DEF Partition
  <2>3. \A B \in blocks' : B \subseteq dfa'.accepts \/ B \cap dfa'.accepts = {}
    BY DEF Partition
  <2> QED
    BY <2>1, <2>2, <2>3 DEF Partitioned
<1>3. NeverApart'
  <2> SUFFICES ASSUME NEW R \in SUBSET (reached' \X reached'), Bisimulation(R)', NEW m \in R
               PROVE  Same(m[1], m[2])'
    BY DEF NeverApart
  <2>1. m[1] \in reached /\ m[2] \in reached /\ (m[1] \in dfa.accepts <=> m[2] \in dfa.accepts)
    BY DEF Bisimulation, Partition
  <2>2. CASE m[1] \in dfa.accepts
    <3>1. reached \cap dfa.accepts \in blocks'
      BY <2>1, <2>2 DEF Partition
    <3> QED
      BY <2>1, <2>2, <3>1 DEF Same
  <2>3. CASE m[1] \notin dfa.accepts
    <3>1. reached \ dfa.accepts \in blocks'
      BY <2>1, <2>3 DEF Partition
    <3> QED
      BY <2>1, <2>3, <3>1 DEF Same
  <2> QED
    BY <2>2, <2>3
<1> QED
  BY <1>1, <1>2, <1>3 DEF MInv, Partition

\* Signatures are equal is an equivalence when blocks are disjoint.
LEMMA AlikeJoins ==
  ASSUME Partitioned, NEW x, NEW p, NEW q, Alike(x, p), Alike(x, q)
  PROVE  Alike(p, q)
<1> SUFFICES ASSUME NEW a \in Alphabet PROVE Same(Succ(p, a), Succ(q, a))
  BY DEF Alike
<1>1. Same(Succ(x, a), Succ(p, a)) /\ Same(Succ(x, a), Succ(q, a))
  BY DEF Alike
<1>2. PICK B \in blocks : Succ(x, a) \in B /\ Succ(p, a) \in B
  BY <1>1 DEF Same
<1>3. PICK C \in blocks : Succ(x, a) \in C /\ Succ(q, a) \in C
  BY <1>1 DEF Same
<1>4. B = C
  BY <1>2, <1>3 DEF Partitioned
<1> QED
  BY <1>2, <1>3, <1>4 DEF Same

LEMMA AlikeItself ==
  ASSUME Partitioned, ReachedClosed, toVisit = {}, NEW p \in reached
  PROVE  Alike(p, p)
<1> SUFFICES ASSUME NEW a \in Alphabet PROVE Same(Succ(p, a), Succ(p, a))
  BY DEF Alike
<1>1. Succ(p, a) \in reached
  BY DEF ReachedClosed, Successors
<1> QED
  BY <1>1 DEF Partitioned, Same

LEMMA AlikeTurns ==
  ASSUME NEW p, NEW q, Alike(p, q)
  PROVE  Alike(q, p)
  BY DEF Alike, Same

\* A sweep keeps the partition.
LEMMA RefinePartitions ==
  ASSUME MInv, Refine
  PROVE  Partitioned'
<1> DEFINE Bucket(B, p) == {q \in B : Alike(p, q)}
<1>1. Partitioned /\ ReachedClosed /\ toVisit = {}
  BY DEF MInv, Refine
<1>2. \A C \in blocks' : \E B \in blocks : \E p \in B : C = Bucket(B, p)
  BY DEF Refine, Refined
<1>3. UNION blocks' = reached'
  <2>1. ASSUME NEW C \in blocks', NEW q \in C PROVE q \in reached
    BY <1>1, <1>2 DEF Partitioned
  <2>2. ASSUME NEW q \in reached PROVE \E C \in blocks' : q \in C
    <3>1. PICK B \in blocks : q \in B
      BY <1>1 DEF Partitioned
    <3>2. q \in Bucket(B, q)
      BY <1>1, <3>1, AlikeItself
    <3>3. Bucket(B, q) \in blocks'
      BY <3>1 DEF Refine, Refined
    <3> QED
      BY <3>2, <3>3
  <2> QED
    BY <2>1, <2>2 DEF Refine
<1>4. ASSUME NEW C \in blocks', NEW D \in blocks', NEW z \in C, z \in D
      PROVE  C = D
  <2>1. PICK B \in blocks : \E p \in B : C = Bucket(B, p)
    BY <1>2
  <2>2. PICK E \in blocks : \E r \in E : D = Bucket(E, r)
    BY <1>2
  <2>p. PICK p \in B : C = Bucket(B, p)
    BY <2>1
  <2>r. PICK r \in E : D = Bucket(E, r)
    BY <2>2
  <2>3. B = E
    BY <1>1, <1>4, <2>p, <2>r DEF Partitioned
  <2>4. Alike(p, z) /\ Alike(r, z)
    BY <1>4, <2>p, <2>r
  <2>5. Alike(z, p) /\ Alike(z, r)
    BY <2>4, AlikeTurns
  <2>6. \A q : Alike(p, q) <=> Alike(z, q)
    BY <1>1, <2>4, <2>5, AlikeJoins
  <2>7. \A q : Alike(r, q) <=> Alike(z, q)
    BY <1>1, <2>4, <2>5, AlikeJoins
  <2> QED
    BY <2>p, <2>r, <2>3, <2>6, <2>7
<1>5. \A C, D \in blocks' : C # D => C \cap D = {}
  BY <1>4
<1>6. \A C \in blocks' : C \subseteq dfa'.accepts \/ C \cap dfa'.accepts = {}
  <2> SUFFICES ASSUME NEW C \in blocks'
               PROVE  C \subseteq dfa.accepts \/ C \cap dfa.accepts = {}
    BY DEF Refine
  <2>1. PICK B \in blocks : \E p \in B : C = Bucket(B, p)
    BY <1>2
  <2>2. C \subseteq B
    BY <2>1
  <2>3. B \subseteq dfa.accepts \/ B \cap dfa.accepts = {}
    BY <1>1 DEF Partitioned
  <2> QED
    BY <2>2, <2>3
<1> QED
  BY <1>3, <1>5, <1>6 DEF Partitioned

\* A sweep splits no two states that cannot be told apart.
LEMMA RefineJoins ==
  ASSUME MInv, Refine
  PROVE  NeverApart'
<1> SUFFICES ASSUME NEW R \in SUBSET (reached \X reached), Bisimulation(R), NEW m \in R
             PROVE  Same(m[1], m[2])'
  BY DEF NeverApart, Refine, Bisimulation, Succ
<1>1. Partitioned /\ NeverApart /\ ReachedClosed /\ toVisit = {}
  BY DEF MInv, Refine
<1>2. PICK B \in blocks : m[1] \in B /\ m[2] \in B
  BY <1>1 DEF NeverApart, Same
<1>3. Alike(m[1], m[2])
  <2> SUFFICES ASSUME NEW a \in Alphabet PROVE Same(Succ(m[1], a), Succ(m[2], a))
    BY DEF Alike
  <2>1. <<Succ(m[1], a), Succ(m[2], a)>> \in R
    BY DEF Bisimulation
  <2> QED
    BY <1>1, <2>1 DEF NeverApart
<1>4. Alike(m[1], m[1])
  BY <1>1, AlikeItself
<1>5. {q \in B : Alike(m[1], q)} \in blocks'
  BY <1>2 DEF Refine, Refined
<1> QED
  BY <1>2, <1>3, <1>4, <1>5 DEF Same

\* When a sweep changes nothing, the states of a block agree on every symbol.
LEMMA RefineEnds ==
  ASSUME MInv, Refine, Refined = blocks
  PROVE  (\A B \in blocks : \A p, q \in B : Alike(p, q))'
<1>1. Partitioned
  BY DEF MInv, Refine
<1>2. blocks' = blocks /\ dfa' = dfa
  BY DEF Refine
<1>3. ASSUME NEW B \in blocks, NEW p \in B, NEW q \in B PROVE Alike(p, q)
  <2>1. B \in Refined
    OBVIOUS
  <2>2. PICK C \in blocks : \E x \in C : B = {z \in C : Alike(x, z)}
    BY <2>1 DEF Refined
  <2>3. PICK x \in C : Alike(x, p) /\ Alike(x, q)
    BY <2>2
  <2> QED
    BY <1>1, <2>3, AlikeJoins
<1>4. \A p, q : Alike(p, q)' <=> Alike(p, q)
  BY <1>2 DEF Alike, Same, Succ
<1> QED
  BY <1>2, <1>3, <1>4

LEMMA RefineKeeps ==
  ASSUME MInv, Refine
  PROVE  MInv'
<1>1. ReachedClosed' /\ toVisit' = {}
  BY DEF MInv, ReachedClosed, Refine, Successors, Succ
<1>2. minimizing' = "done" => Refined = blocks
  BY DEF Refine
<1> QED
  BY <1>1, <1>2, RefinePartitions, RefineJoins, RefineEnds DEF MInv

LEMMA MinimizeUnchanged ==
  ASSUME MInv, UNCHANGED minimizeVars
  PROVE  MInv'
<1>1. \A p, q : (Alike(p, q)' <=> Alike(p, q)) /\ (Same(p, q)' <=> Same(p, q))
  BY DEF Alike, Same, Succ, minimizeVars
<1>2. \A R : Bisimulation(R)' <=> Bisimulation(R)
  BY DEF Bisimulation, Succ, minimizeVars
<1>3. ReachedClosed'
  BY DEF MInv, ReachedClosed, Successors, Succ, minimizeVars
<1>4. NeverApart => NeverApart'
  BY <1>1, <1>2 DEF NeverApart, minimizeVars
<1>5. Partitioned => Partitioned'
  BY DEF Partitioned, minimizeVars
<1> QED
  BY <1>1, <1>3, <1>4, <1>5 DEF MInv, minimizeVars

\* The inductive invariant of the minimisation.
THEOREM MinimizeInvariant == MinimizeSpec => []MInv
<1>1. MInv /\ [MinimizeNext]_minimizeVars => MInv'
  BY ExploreKeeps, PartitionKeeps, RefineKeeps, MinimizeUnchanged
     DEF MinimizeNext, Minimizing, MinimizeEnded
<1> QED
  BY <1>1, MinimizeStarts, PTL DEF MinimizeSpec

\* The minimised automaton accepts what the original accepts (minimize of
\* formal.py), for any automaton.
THEOREM MinimizeSound == MinimizeSpec => []QuotientSound
<1>1. MInv => QuotientSound
  BY DEF MInv, QuotientSound, Partitioned
<1> QED
  BY <1>1, MinimizeInvariant, PTL

\* No two states of the minimised automaton can be merged, for any automaton.
THEOREM MinimizeLeast == MinimizeSpec => []Coarsest
<1>1. MInv => Coarsest
  BY DEF MInv, Coarsest, NeverApart
<1> QED
  BY <1>1, MinimizeInvariant, PTL

-----------------------------------------------------------------------------
(* The search for a common word. *)

Pairs == left.states \X right.states

\* Without a bound, all that left the queue rejects, and was followed.
Followed ==
    \A p \in Seen \ pending :
        /\ ~Accepted(p)
        /\ \A a \in Letters, r \in Pairs : Leads(p, a, r) => r \in Seen

SInv ==
    /\ left \in Operands /\ right \in Operands
    /\ Origin \in Seen
    /\ pending \subseteq Seen
    /\ maxDepth = NoDepth => Followed
    /\ search = "none" => pending = {}

LEMMA SearchStarts == SearchInit => SInv
  BY DEF SearchInit, SInv, Seen, Followed

\* What a step compares the automata by does not change.
LEMMA SameOperands ==
  ASSUME left' = left, right' = right
  PROVE  /\ Origin' = Origin /\ Pairs' = Pairs
         /\ \A p : Accepted(p)' <=> Accepted(p)
         /\ \A p, a, r : Leads(p, a, r)' <=> Leads(p, a, r)
  BY DEF Origin, Pairs, Accepted, Leads

LEMMA FoundKeeps ==
  ASSUME SInv, NEW p \in pending, Found(p)
  PROVE  SInv'
<1>1. Seen' = Seen /\ pending' = pending /\ left' = left /\ right' = right /\ maxDepth' = maxDepth
  BY DEF Found, Seen
<1>2. maxDepth' = NoDepth => Followed'
  BY <1>1, SameOperands DEF SInv, Followed
<1> QED
  BY <1>1, <1>2, SameOperands DEF SInv, Found

LEMMA BoundedKeeps ==
  ASSUME SInv, NEW p \in pending, Bounded(p)
  PROVE  SInv'
<1>1. Seen' = Seen /\ pending' \subseteq pending /\ left' = left /\ right' = right
      /\ maxDepth' # NoDepth
  BY DEF Bounded, Seen
<1> QED
  BY <1>1, SameOperands DEF SInv, Bounded

LEMMA ExpandKeeps ==
  ASSUME SInv, NEW p \in pending, Expand(p)
  PROVE  SInv'
<1>1. left' = left /\ right' = right /\ maxDepth' = maxDepth /\ search' = "search"
  BY DEF Expand
<1>2. Seen' = Seen \cup Fresh(p)
  BY DEF Expand, Seen
<1>3. pending' = (pending \ {p}) \cup Fresh(p)
  BY DEF Expand
<1>4. ASSUME maxDepth = NoDepth PROVE Followed'
  <2> SUFFICES ASSUME NEW q \in Seen' \ pending'
               PROVE  /\ ~Accepted(q)
                      /\ \A a \in Letters, r \in Pairs : Leads(q, a, r) => r \in Seen'
    BY <1>1, SameOperands DEF Followed
  <2>1. q \in Seen \ pending \/ q = p
    BY <1>2, <1>3
  <2>2. CASE q \in Seen \ pending
    BY <1>2, <1>4, <2>2 DEF SInv, Followed
  <2>3. CASE q = p
    <3>1. ~Accepted(p)
      BY DEF Expand
    <3>2. \A a \in Letters, r \in Pairs : Leads(p, a, r) => r \in Seen \cup Fresh(p)
      BY DEF Fresh, Pairs
    <3> QED
      BY <1>2, <2>3, <3>1, <3>2
  <2> QED
    BY <2>1, <2>2, <2>3
<1> QED
  BY <1>1, <1>2, <1>3, <1>4, SameOperands DEF SInv

LEMMA NotFoundKeeps ==
  ASSUME SInv, NotFound
  PROVE  SInv'
<1>1. Seen' = Seen /\ pending' = pending /\ left' = left /\ right' = right /\ maxDepth' = maxDepth
  BY DEF NotFound, Seen
<1>2. maxDepth' = NoDepth => Followed'
  BY <1>1, SameOperands DEF SInv, Followed
<1> QED
  BY <1>1, <1>2, SameOperands DEF SInv, NotFound

LEMMA SearchUnchanged ==
  ASSUME SInv, UNCHANGED searchVars
  PROVE  SInv'
<1>1. Seen' = Seen /\ pending' = pending /\ left' = left /\ right' = right
      /\ maxDepth' = maxDepth /\ search' = search
  BY DEF searchVars, Seen
<1>2. maxDepth' = NoDepth => Followed'
  BY <1>1, SameOperands DEF SInv, Followed
<1> QED
  BY <1>1, <1>2, SameOperands DEF SInv

\* The inductive invariant of the search.
THEOREM SearchInvariant == SearchSpec => []SInv
<1>1. SInv /\ [SearchNext]_searchVars => SInv'
  BY FoundKeeps, BoundedKeeps, ExpandKeeps, NotFoundKeeps, SearchUnchanged
     DEF SearchNext, Searching, SearchEnded
<1> QED
  BY <1>1, SearchStarts, PTL DEF SearchSpec

\* The pairs seen are closed, so they hold every pair that can be reached.
LEMMA SeenHoldsReachable ==
  ASSUME SInv, search = "none", maxDepth = NoDepth, NEW p \in Reachable
  PROVE  p \in Seen
<1> DEFINE S == Seen \cap Pairs
<1>1. Origin \in S
  BY OperandAssumption DEF SInv, Origin, Pairs
<1>2. \A q \in S, a \in Letters, r \in Pairs : Leads(q, a, r) => r \in S
  BY DEF SInv, Followed
<1>3. S \in SUBSET Pairs
  OBVIOUS
<1> QED
  BY <1>1, <1>2, <1>3 DEF Reachable, Pairs

\* A search without a bound that finds nothing has shown the languages disjoint
\* (intersection_witness of formal.py), for any two automata.
THEOREM NoneProvesDisjoint == SearchSpec => []NoneMeansDisjoint
<1>1. SInv => NoneMeansDisjoint
  BY SeenHoldsReachable DEF SInv, NoneMeansDisjoint, Followed
<1> QED
  BY <1>1, SearchInvariant, PTL

-----------------------------------------------------------------------------
(* The word found is a shortest one. *)

\* A pair was seen after one that was seen before, by the last symbol of its word.
Traced ==
    \A r \in Seen :
        \/ r = Origin /\ word[r] = << >>
        \/ \E q \in Seen, a \in Letters : Leads(q, a, r) /\ word[r] = Append(word[q], a)

\* The queue spans two layers at most, and all that was seen is no deeper.
Layered == \A q \in pending, r \in Seen : Len(word[r]) <= Len(word[q]) + 1

WithinDepth == maxDepth # NoDepth => \A r \in Seen : Len(word[r]) <= maxDepth

\* What left the queue rejects, and above the bound its successors were seen, one
\* symbol later at most.
Explored ==
    \A q \in Seen \ pending :
        /\ ~Accepted(q)
        /\ (maxDepth # NoDepth => Len(word[q]) < maxDepth) =>
             \A a \in Letters, r \in Pairs :
                Leads(q, a, r) => r \in Seen /\ Len(word[r]) <= Len(word[q]) + 1

Nearest(p) == \A q \in pending : Len(word[p]) <= Len(word[q])

WInv ==
    /\ word \in [Seen -> Seq(Letters)] /\ Seen \subseteq Pairs
    /\ pending \subseteq Seen
    /\ Origin \in Seen /\ word[Origin] = << >>
    /\ maxDepth \in Nat \cup {NoDepth}
    /\ Traced /\ Layered /\ WithinDepth /\ Explored
    /\ search = "found" => meeting \in pending /\ Accepted(meeting) /\ Nearest(meeting)
    /\ search = "none" => pending = {}

LEMMA WordStarts == SearchInit => WInv
<1> SUFFICES ASSUME SearchInit PROVE WInv
  OBVIOUS
<1>1. Origin \in Pairs /\ maxDepth \in Nat \cup {NoDepth}
  BY OperandAssumption DEF SearchInit, Origin, Pairs
<1>2. /\ Seen = {Origin} /\ pending = {Origin} /\ word \in [Seen -> Seq(Letters)]
      /\ word[Origin] = << >> /\ search = "search" /\ Len(<< >>) = 0
  BY DEF SearchInit, Seen
<1>3. Traced /\ Layered /\ WithinDepth /\ Explored
  BY <1>1, <1>2, OperandAssumption DEF Traced, Layered, WithinDepth, Explored
<1> QED
  BY <1>1, <1>2, <1>3 DEF WInv

LEMMA WordExpands ==
  ASSUME WInv, NEW p \in pending, Expand(p)
  PROVE  WInv'
<1> DEFINE Fr == Fresh(p)
<1>1. PICK next \in [Fr -> Letters] :
        /\ \A r \in Fr : Leads(p, next[r], r)
        /\ word' = [r \in Seen \cup Fr |-> IF r \in Seen THEN word[r] ELSE Append(word[p], next[r])]
  BY DEF Expand
<1>2. /\ search = "search" /\ ~Accepted(p) /\ Nearest(p)
      /\ maxDepth # NoDepth => Len(word[p]) < maxDepth
      /\ pending' = (pending \ {p}) \cup Fr
      /\ UNCHANGED <<left, right, maxDepth, meeting, search>>
  BY DEF Expand, Shallowest, Nearest
<1>3. /\ Fr \subseteq Pairs /\ Fr \cap Seen = {}
      /\ \A a \in Letters, r \in Pairs : Leads(p, a, r) => r \in Seen \cup Fr
  BY DEF Fresh, Pairs
<1> HIDE DEF Fr
<1>4. /\ p \in Seen /\ word[p] \in Seq(Letters) /\ Len(word[p]) \in Nat
      /\ \A r \in Seen : word[r] \in Seq(Letters) /\ Len(word[r]) \in Nat
      /\ maxDepth # NoDepth => maxDepth \in Nat
  BY DEF WInv
<1>5. /\ Seen' = Seen \cup Fr
      /\ \A r \in Seen : word'[r] = word[r]
      /\ \A r \in Fr : word'[r] = Append(word[p], next[r])
  BY <1>1, <1>3 DEF Seen
<1>6. \A r \in Fr : /\ word'[r] \in Seq(Letters) /\ Len(word'[r]) = Len(word[p]) + 1
  BY <1>1, <1>4, <1>5
<1>7. \A r \in Seen : Len(word[r]) <= Len(word[p]) + 1
  BY DEF WInv, Layered
<1>8. /\ word' \in [Seen' -> Seq(Letters)] /\ Seen' \subseteq Pairs' /\ pending' \subseteq Seen'
      /\ Origin' \in Seen' /\ word'[Origin'] = << >>
  <2>1. DOMAIN word' = Seen' /\ word' = [r \in Seen' |-> word'[r]]
    BY <1>1, <1>5
  <2>2. \A r \in Seen' : word'[r] \in Seq(Letters)
    BY <1>4, <1>5, <1>6
  <2>3. word' \in [Seen' -> Seq(Letters)]
    BY <2>1, <2>2
  <2> QED
    BY <1>2, <1>3, <1>5, <2>3, SameOperands DEF WInv
<1>9. Traced'
  <2> SUFFICES ASSUME NEW r \in Seen'
               PROVE  \/ r = Origin /\ word'[r] = << >>
                      \/ \E q \in Seen', a \in Letters :
                           Leads(q, a, r) /\ word'[r] = Append(word'[q], a)
    BY <1>2, SameOperands DEF Traced
  <2>1. CASE r \in Seen
    <3>1. CASE r = Origin /\ word[r] = << >>
      BY <1>5, <2>1, <3>1
    <3>2. ASSUME NEW q \in Seen, NEW a \in Letters, Leads(q, a, r), word[r] = Append(word[q], a)
          PROVE  /\ q \in Seen' /\ Leads(q, a, r) /\ word'[r] = Append(word'[q], a)
      BY <1>5, <2>1, <3>2
    <3> QED
      BY <2>1, <3>1, <3>2 DEF WInv, Traced
  <2>2. CASE r \in Fr
    <3>1. next[r] \in Letters /\ Leads(p, next[r], r) /\ p \in Seen'
          /\ word'[r] = Append(word'[p], next[r])
      BY <1>1, <1>4, <1>5, <2>2
    <3> QED
      BY <3>1
  <2> QED
    BY <1>5, <2>1, <2>2
<1>10. Layered'
  <2> SUFFICES ASSUME NEW q \in pending', NEW r \in Seen'
               PROVE  Len(word'[r]) <= Len(word'[q]) + 1
    BY DEF Layered
  <2>1. Len(word'[r]) \in Nat /\ Len(word'[r]) <= Len(word[p]) + 1
    BY <1>4, <1>5, <1>6, <1>7
  <2>2. Len(word'[q]) \in Nat /\ Len(word[p]) <= Len(word'[q])
    <3>1. CASE q \in pending
      BY <1>2, <1>4, <1>5, <3>1 DEF Nearest, WInv
    <3>2. CASE q \in Fr
      BY <1>4, <1>6, <3>2
    <3> QED
      BY <1>2, <3>1, <3>2
  <2> QED
    BY <1>4, <2>1, <2>2
<1>11. WithinDepth'
  <2> SUFFICES ASSUME maxDepth # NoDepth, NEW r \in Seen' PROVE Len(word'[r]) <= maxDepth
    BY <1>2 DEF WithinDepth
  <2>1. CASE r \in Seen
    BY <1>5, <2>1 DEF WInv, WithinDepth
  <2>2. CASE r \in Fr
    BY <1>2, <1>4, <1>6, <2>2
  <2> QED
    BY <1>5, <2>1, <2>2
<1>12. Explored'
  <2> SUFFICES ASSUME NEW q \in Seen' \ pending'
               PROVE  /\ ~Accepted(q)
                      /\ (maxDepth # NoDepth => Len(word'[q]) < maxDepth) =>
                           \A a \in Letters, r \in Pairs :
                              Leads(q, a, r) => r \in Seen' /\ Len(word'[r]) <= Len(word'[q]) + 1
    BY <1>2, SameOperands DEF Explored
  <2>1. q \in Seen /\ word'[q] = word[q] /\ (q \in Seen \ pending \/ q = p)
    BY <1>2, <1>5
  <2>2. CASE q \in Seen \ pending
    BY <1>5, <2>1, <2>2 DEF WInv, Explored
  <2>3. CASE q = p
    <3>1. ASSUME NEW a \in Letters, NEW r \in Pairs, Leads(p, a, r)
          PROVE  r \in Seen' /\ Len(word'[r]) <= Len(word[p]) + 1
      BY <1>3, <1>4, <1>5, <1>6, <1>7, <3>1
    <3> QED
      BY <1>2, <2>1, <2>3, <3>1
  <2> QED
    BY <2>1, <2>2, <2>3
<1> QED
  BY <1>2, <1>8, <1>9, <1>10, <1>11, <1>12 DEF WInv

LEMMA WordStep == WInv /\ [SearchNext]_searchVars => WInv'
<1> SUFFICES ASSUME WInv, [SearchNext]_searchVars PROVE WInv'
  OBVIOUS
<1>1. ASSUME word' = word, left' = left, right' = right, maxDepth' = maxDepth, pending' = pending
      PROVE  /\ Seen' = Seen /\ Origin' = Origin /\ Pairs' = Pairs
             /\ Traced' /\ Layered' /\ WithinDepth' /\ Explored'
             /\ \A p : (Accepted(p)' <=> Accepted(p)) /\ (Nearest(p)' <=> Nearest(p))
  BY <1>1, SameOperands DEF Seen, WInv, Traced, Layered, WithinDepth, Explored, Nearest
<1>2. ASSUME NEW p \in pending, Found(p) PROVE WInv'
  BY <1>1, <1>2 DEF Found, Shallowest, Nearest, WInv
<1>3. ASSUME NEW p \in pending, Bounded(p) PROVE WInv'
  <2>1. /\ word' = word /\ left' = left /\ right' = right /\ maxDepth' = maxDepth
        /\ pending' = pending \ {p} /\ search' = "search" /\ ~Accepted(p)
        /\ maxDepth # NoDepth /\ Len(word[p]) >= maxDepth /\ Seen' = Seen
    BY <1>3 DEF Bounded, Seen
  <2>2. maxDepth \in Nat /\ Len(word[p]) \in Nat
    BY <2>1 DEF WInv
  <2>3. ~(Len(word[p]) < maxDepth)
    BY <2>1, <2>2
  <2>4. Explored'
    BY <2>1, <2>3, SameOperands DEF WInv, Explored
  <2>5. Traced' /\ Layered' /\ WithinDepth'
    BY <2>1, SameOperands DEF WInv, Traced, Layered, WithinDepth
  <2> QED
    BY <2>1, <2>4, <2>5, SameOperands DEF WInv
<1>4. ASSUME NEW p \in pending, Expand(p) PROVE WInv'
  BY <1>4, WordExpands
<1>5. CASE NotFound
  BY <1>1, <1>5 DEF NotFound, WInv
<1>6. CASE UNCHANGED searchVars
  BY <1>1, <1>6 DEF searchVars, WInv
<1> QED
  BY <1>2, <1>3, <1>4, <1>5, <1>6 DEF SearchNext, Searching, SearchEnded

LEMMA LeastNat ==
  ASSUME NEW T \in SUBSET Nat, T # {}
  PROVE  \E x \in T : \A y \in T : x <= y
<1> DEFINE R == OpToRel(<, Nat)
<1>1. IsWellFoundedOn(R, Nat)
  BY NatLessThanWellFounded
<1> HIDE DEF R
<1>2. PICK x \in T : \A y \in T : <<y, x>> \notin R
  BY <1>1, WFMin, Zenon
<1>3. \A a, b \in Nat : <<b, a>> \in R <=> b < a
  BY DEF R, OpToRel
<1>4. \A y \in T : y \in Nat /\ x \in Nat /\ ~(y < x)
  BY <1>2, <1>3
<1> QED
  BY <1>4

Onward(Q, a) == {r \in left.states \X right.states : \E q \in Q : Leads(q, a, r)}

\* f holds what the prefixes of w up to length n lead to from p.
Follows(f, p, w, n) ==
    f = [i \in 0..n |-> IF i = 0 THEN {p} ELSE Onward(f[i - 1], w[i])]

Path(f, p, w, n) == f[0] = {p} /\ \A i \in 1..n : f[i] = Onward(f[i - 1], w[i])

LEMMA FollowsExists ==
  ASSUME NEW p, NEW w, NEW n \in Nat
  PROVE  \E f : Follows(f, p, w, n)
<1> DEFINE T == {m \in Nat : ~\E f : Follows(f, p, w, m)}
<1> SUFFICES ASSUME T # {} PROVE FALSE
  OBVIOUS
<1>1. PICK m \in T : \A k \in T : m <= k
  BY LeastNat
<1>2. m \in Nat /\ ~\E f : Follows(f, p, w, m)
  OBVIOUS
<1>3. CASE m = 0
  <2> DEFINE f == [i \in 0..0 |-> {p}]
  <2>1. f = [i \in 0..0 |-> IF i = 0 THEN {p} ELSE Onward(f[i - 1], w[i])]
    OBVIOUS
  <2> QED
    BY <1>2, <1>3, <2>1 DEF Follows
<1>4. CASE m > 0
  <2>1. m - 1 \in Nat /\ ~(m <= m - 1)
    BY <1>2, <1>4
  <2>2. PICK f : Follows(f, p, w, m - 1)
    BY <1>1, <2>1
  <2> DEFINE g == [i \in 0..m |-> IF i = m THEN Onward(f[m - 1], w[m]) ELSE f[i]]
  <2>3. \A i \in 0..(m - 1) : f[i] = IF i = 0 THEN {p} ELSE Onward(f[i - 1], w[i])
    BY <2>2 DEF Follows
  <2>4. /\ \A i \in 0..(m - 1) : g[i] = f[i]
        /\ g[m] = Onward(f[m - 1], w[m])
    BY <1>2, <1>4
  <2> HIDE DEF g
  <2>5. \A i \in 0..m : g[i] = IF i = 0 THEN {p} ELSE Onward(g[i - 1], w[i])
    <3> TAKE i \in 0..m
    <3>1. CASE i = m
      BY <1>2, <1>4, <2>4, <3>1
    <3>2. CASE i # m /\ i # 0
      <4>1. i \in 0..(m - 1) /\ i - 1 \in 0..(m - 1)
        BY <1>2, <3>2
      <4> QED
        BY <2>3, <2>4, <3>2, <4>1
    <3>3. CASE i # m /\ i = 0
      <4>1. i \in 0..(m - 1)
        BY <1>2, <3>3
      <4> QED
        BY <2>3, <2>4, <3>3, <4>1
    <3> QED
      BY <3>1, <3>2, <3>3
  <2>6. Follows(g, p, w, m)
    BY <2>5 DEF Follows, g
  <2> QED
    BY <1>2, <2>6
<1> QED
  BY <1>2, <1>3, <1>4

LEMMA AfterFollows ==
  ASSUME NEW p, NEW w, Len(w) \in Nat
  PROVE  \E f : Path(f, p, w, Len(w)) /\ After(p, w) = f[Len(w)]
<1> DEFINE step[n \in 0..Len(w)] ==
             IF n = 0 THEN {p}
             ELSE {r \in left.states \X right.states : \E q \in step[n - 1] : Leads(q, w[n], r)}
<1>1. step = [n \in 0..Len(w) |-> IF n = 0 THEN {p} ELSE Onward(step[n - 1], w[n])]
  <2>1. PICK f : Follows(f, p, w, Len(w))
    BY FollowsExists
  <2>2. f = [n \in 0..Len(w) |->
               IF n = 0 THEN {p}
               ELSE {r \in left.states \X right.states : \E q \in f[n - 1] : Leads(q, w[n], r)}]
    BY <2>1 DEF Follows, Onward
  <2>3. step = [n \in 0..Len(w) |->
               IF n = 0 THEN {p}
               ELSE {r \in left.states \X right.states : \E q \in step[n - 1] : Leads(q, w[n], r)}]
    BY <2>2, Zenon DEF step
  <2> HIDE DEF step
  <2> QED
    BY <2>3 DEF Onward
<1>2. After(p, w) = step[Len(w)]
  BY DEF After, step
<1> HIDE DEF step
<1>3. \A i \in 0..Len(w) : step[i] = IF i = 0 THEN {p} ELSE Onward(step[i - 1], w[i])
  BY <1>1
<1>4. 0 \in 0..Len(w) /\ \A i \in 1..Len(w) : i \in 0..Len(w) /\ i # 0
  OBVIOUS
<1>5. Path(step, p, w, Len(w))
  BY <1>3, <1>4 DEF Path
<1> QED
  BY <1>2, <1>5

\* One symbol more leads one transition further.
LEMMA AfterAppend ==
  ASSUME NEW p, NEW u \in Seq(Letters), NEW a \in Letters
  PROVE  After(p, Append(u, a)) = Onward(After(p, u), a)
<1>0. PICK n \in Nat : Len(u) = n
  OBVIOUS
<1> DEFINE w == Append(u, a)
<1>1. n + 1 \in Nat /\ Len(w) = n + 1 /\ w[n + 1] = a /\ \A i \in 1..n : w[i] = u[i]
  BY <1>0
<1> HIDE DEF w
<1>2. PICK f : Path(f, p, u, n) /\ After(p, u) = f[n]
  BY <1>0, <1>1, AfterFollows
<1>3. PICK g : Path(g, p, w, n + 1) /\ After(p, w) = g[n + 1]
  BY <1>1, AfterFollows
<1>4. f[0] = {p} /\ \A i \in 1..n : f[i] = Onward(f[i - 1], u[i])
  BY <1>2 DEF Path
<1>5. g[0] = {p} /\ \A i \in 1..(n + 1) : g[i] = Onward(g[i - 1], w[i])
  BY <1>3 DEF Path
<1>6. \A i \in 0..n : f[i] = g[i]
  <2> DEFINE T == {i \in 0..n : f[i] # g[i]}
  <2> SUFFICES ASSUME T # {} PROVE FALSE
    OBVIOUS
  <2>1. T \in SUBSET Nat
    BY <1>1
  <2>2. PICK i \in T : \A k \in T : i <= k
    BY <2>1, LeastNat
  <2>3. i \in 1..n
    <3>1. i \in 0..n /\ f[i] # g[i]
      OBVIOUS
    <3>2. i # 0
      BY <1>4, <1>5, <3>1
    <3> QED
      BY <1>1, <3>1, <3>2
  <2>4. i - 1 \in 0..n /\ ~(i <= i - 1) /\ i \in 1..(n + 1)
    BY <1>1, <2>3
  <2>5. f[i - 1] = g[i - 1]
    BY <2>2, <2>4
  <2>6. f[i] = Onward(f[i - 1], u[i]) /\ g[i] = Onward(g[i - 1], w[i]) /\ w[i] = u[i]
    BY <1>1, <1>4, <1>5, <2>3, <2>4
  <2> QED
    BY <2>5, <2>6
<1>7. g[n + 1] = Onward(g[n + 1 - 1], w[n + 1]) /\ n + 1 - 1 = n /\ n \in 0..n
  BY <1>1, <1>5
<1> QED
  BY <1>1, <1>2, <1>3, <1>6, <1>7 DEF w

\* The word of a pair leads to it.
LEMMA WordLeads ==
  ASSUME WInv, NEW r \in Seen
  PROVE  r \in After(Origin, word[r])
<1> DEFINE T == {n \in Nat : \E q \in Seen : Len(word[q]) = n /\ q \notin After(Origin, word[q])}
<1>1. \A q \in Seen : word[q] \in Seq(Letters) /\ Len(word[q]) \in Nat
  BY DEF WInv
<1> SUFFICES ASSUME T # {} PROVE FALSE
  BY <1>1
<1>2. PICK n \in T : \A k \in T : n <= k
  BY LeastNat
<1>3. PICK q \in Seen : Len(word[q]) = n /\ q \notin After(Origin, word[q])
  OBVIOUS
<1>4. CASE word[q] = << >> /\ q = Origin
  <2>1. PICK f : Path(f, Origin, << >>, 0) /\ After(Origin, << >>) = f[0]
    <3>1. Len(<< >>) = 0 /\ Len(<< >>) \in Nat
      OBVIOUS
    <3> QED
      BY <3>1, AfterFollows
  <2> QED
    BY <1>3, <1>4, <2>1 DEF Path
<1>5. ASSUME NEW s \in Seen, NEW a \in Letters, Leads(s, a, q), word[q] = Append(word[s], a)
      PROVE  FALSE
  <2>1. Len(word[s]) + 1 = n /\ ~(n <= Len(word[s]))
    BY <1>1, <1>3, <1>5
  <2>2. s \in After(Origin, word[s])
    BY <1>1, <1>2, <2>1
  <2>3. q \in Pairs
    BY DEF WInv
  <2>4. q \in Onward(After(Origin, word[s]), a)
    BY <1>5, <2>2, <2>3 DEF Onward, Pairs
  <2> QED
    BY <1>1, <1>3, <1>5, <2>4, AfterAppend
<1> QED
  BY <1>4, <1>5 DEF WInv, Traced

\* What a word leads to was seen by a word no longer, as far as all pairs that
\* were seen earlier have been followed.
LEMMA LayersComplete ==
  ASSUME WInv, NEW k \in Nat, NEW w, Len(w) = k, NEW r \in After(Origin, w),
         \A i \in 1..k : w[i] \in Letters,
         \A q \in pending : k <= Len(word[q]),
         maxDepth # NoDepth => k <= maxDepth
  PROVE  r \in Seen /\ Len(word[r]) <= k
<1>1. PICK f : Path(f, Origin, w, k) /\ After(Origin, w) = f[k]
  BY AfterFollows
<1>2. f[0] = {Origin} /\ \A i \in 1..k : f[i] = Onward(f[i - 1], w[i])
  BY <1>1 DEF Path
<1>3. \A q \in Seen : word[q] \in Seq(Letters) /\ Len(word[q]) \in Nat
  BY DEF WInv
<1> DEFINE T == {i \in 0..k : \E q \in f[i] : ~(q \in Seen /\ Len(word[q]) <= i)}
<1>4. T = {}
  <2> SUFFICES ASSUME T # {} PROVE FALSE
    OBVIOUS
  <2>1. T \in SUBSET Nat
    OBVIOUS
  <2>2. PICK i \in T : \A j \in T : i <= j
    BY <2>1, LeastNat
  <2>3. i # 0
    <3>1. Origin \in Seen /\ Len(word[Origin]) = 0
      BY DEF WInv
    <3> QED
      BY <1>2, <3>1
  <2>4. i \in 1..k /\ i - 1 \in 0..k /\ ~(i <= i - 1) /\ i - 1 < k
    BY <2>3
  <2>5. \A s \in f[i - 1] : s \in Seen /\ Len(word[s]) <= i - 1
    BY <2>2, <2>4
  <2>6. ASSUME NEW q \in f[i] PROVE q \in Seen /\ Len(word[q]) <= i
    <3>1. q \in Pairs /\ \E s \in f[i - 1] : Leads(s, w[i], q)
      BY <1>2, <2>4 DEF Onward, Pairs
    <3>2. PICK s \in f[i - 1] : Leads(s, w[i], q)
      BY <3>1
    <3>3. s \in Seen /\ Len(word[s]) <= i - 1 /\ Len(word[s]) \in Nat
      BY <1>3, <2>5
    <3>4. s \notin pending /\ (maxDepth # NoDepth => Len(word[s]) < maxDepth)
      BY <2>4, <3>3 DEF WInv
    <3>5. q \in Seen /\ Len(word[q]) <= Len(word[s]) + 1
      BY <2>4, <3>1, <3>2, <3>3, <3>4 DEF WInv, Explored
    <3> QED
      BY <1>3, <2>4, <3>3, <3>5
  <2> QED
    BY <2>6
<1> QED
  BY <1>1, <1>4

\* A word is found in both languages, and no word of its length or less is passed
\* over, for any two automata and any bound: a pair is visited once only, by the
\* first of the words that lead to it (intersection_witness of formal.py).
THEOREM ShortestFound == SearchSpec => []ShortestCommonWord
<1>1. ASSUME WInv, NEW n \in Int, NEW w \in WordsUpTo(n),
             \A q \in pending : n < Len(word[q]), maxDepth # NoDepth => n <= maxDepth
      PROVE  ~Both(w)
  <2>1. PICK k \in 0..n : w \in [1..k -> Letters]
    BY DEF WordsUpTo
  <2>2. k \in Nat /\ Len(w) = k /\ k <= n
    BY <2>1
  <2>3. \A q \in Seen : Len(word[q]) \in Nat
    BY <1>1 DEF WInv
  <2>4. \A q \in pending : q \in Seen /\ k < Len(word[q]) /\ k <= Len(word[q])
    BY <1>1, <2>2, <2>3 DEF WInv
  <2>5. maxDepth # NoDepth => k <= maxDepth
    BY <1>1, <2>2 DEF WInv
  <2>6. ASSUME NEW r \in After(Origin, w) PROVE ~Accepted(r)
    <3>1. r \in Seen /\ Len(word[r]) <= k
      BY <1>1, <2>1, <2>2, <2>4, <2>5, LayersComplete
    <3>2. r \notin pending
      BY <2>2, <2>3, <2>4, <3>1
    <3> QED
      BY <1>1, <3>1, <3>2 DEF WInv, Explored
  <2> QED
    BY <2>6 DEF Both
<1>2. ASSUME WInv PROVE ShortestCommonWord
  <2>1. \A q \in Seen : Len(word[q]) \in Nat
    BY <1>2 DEF WInv
  <2>2. ASSUME search = "found"
        PROVE  /\ Both(word[meeting])
               /\ maxDepth # NoDepth => Len(word[meeting]) <= maxDepth
               /\ \A w \in WordsUpTo(Len(word[meeting]) - 1) : ~Both(w)
    <3>1. /\ meeting \in Seen /\ Accepted(meeting) /\ Nearest(meeting)
          /\ pending \subseteq Seen
      BY <1>2, <2>2 DEF WInv
    <3>2. Both(word[meeting])
      BY <1>2, <3>1, WordLeads DEF Both
    <3>3. maxDepth # NoDepth => Len(word[meeting]) <= maxDepth /\ maxDepth \in Nat
      BY <1>2, <3>1 DEF WInv, WithinDepth
    <3> DEFINE n == Len(word[meeting]) - 1
    <3>4. n \in Int /\ (\A q \in pending : n < Len(word[q])) /\ (maxDepth # NoDepth => n <= maxDepth)
      BY <2>1, <3>1, <3>3 DEF Nearest
    <3> HIDE DEF n
    <3>5. \A w \in WordsUpTo(n) : ~Both(w)
      BY <1>1, <1>2, <3>4
    <3> QED
      BY <3>2, <3>3, <3>5 DEF n
  <2>3. ASSUME search = "none", maxDepth # NoDepth PROVE \A w \in WordsUpTo(maxDepth) : ~Both(w)
    <3>1. pending = {} /\ maxDepth \in Nat
      BY <1>2, <2>3 DEF WInv
    <3> QED
      BY <1>1, <1>2, <3>1
  <2> QED
    BY <2>2, <2>3 DEF ShortestCommonWord
<1> QED
  BY <1>2, WordStarts, WordStep, PTL DEF SearchSpec

-----------------------------------------------------------------------------
(* Emptiness of a grammar under a tokenizer. *)

\* The depth does not cut the sample off.
Deep == Len(Sample) <= MaxDepth

EInv ==
    /\ schema \in Schemas /\ tokenizer \in Tokenizers
    /\ emptiness \in {"compile", "enumerate", "try"} \cup Statuses
    /\ emptiness \in {"enumerate", "try", "satisfiable", "empty"} => language = {Sample}
    /\ prefixes \subseteq Word
    /\ candidates \in Seq(Word)
    /\ \A i \in 1..Len(candidates) : candidates[i] = Sample
    /\ rejected \subseteq {Sample}
    /\ rejected # {} => tokenizer[Sample] # Sample
    /\ emptiness = "enumerate" /\ Deep =>
         candidates # << >> \/ \E p \in prefixes : IsPrefix(p, Sample)
    /\ emptiness = "try" /\ Deep => candidates # << >> \/ Sample \in rejected
    /\ emptiness = "empty" /\ Deep => Sample \in rejected
    /\ emptiness = "satisfiable" => tokenizer[Sample] = Sample

LEMMA SampleIsWord ==
  ASSUME schema \in Schemas
  PROVE  /\ Sample \in Word /\ Len(Sample) \in Nat
         /\ 1 \in DOMAIN schema.words
<1>1. schema.words \in Seq(Word) /\ schema.words # << >>
  BY GrammarAssumption
<1> QED
  BY <1>1 DEF Sample, Word

\* A prefix agrees with the word at each of its positions.
LEMMA PrefixAgrees ==
  ASSUME NEW p \in Word, NEW w \in Word
  PROVE  IsPrefix(p, w) <=> Len(p) <= Len(w) /\ \A i \in 1..Len(p) : p[i] = w[i]
<1> DEFINE n == Len(p)
           f == SubSeq(w, 1, n)
<1>1. n \in Nat /\ Len(w) \in Nat /\ (n <= Len(w) => \A i \in 1..n : w[i] \in Symbols)
  BY DEF Word
<1> HIDE DEF n
<1>2. CASE n <= Len(w)
  <2>1. /\ f \in Seq(Symbols)
        /\ Len(f) = IF 1 <= n THEN n - 1 + 1 ELSE 0
        /\ \A i \in 1..(n - 1 + 1) : f[i] = w[1 + i - 1]
    BY <1>1, <1>2, SubSeqProperties
  <2>2. Len(f) = n /\ \A i \in 1..n : f[i] = w[i]
    BY <1>1, <2>1
  <2>3. (\A i \in 1..n : p[i] = w[i]) => f = p
    BY <2>1, <2>2, SeqEqual DEF n, Word
  <2> QED
    BY <1>2, <2>2, <2>3 DEF IsPrefix, n
<1> QED
  BY <1>2 DEF IsPrefix, n

\* A proper prefix has a longer one, which the depth allows.
LEMMA PrefixGrows ==
  ASSUME NEW p \in Word, NEW w \in Word, IsPrefix(p, w), p # w,
         language = {w}, Len(w) <= MaxDepth
  PROVE  \E q \in Extended(p) : q \in Word /\ IsPrefix(q, w)
<1>1. /\ Len(p) \in Nat /\ Len(w) \in Nat /\ MaxDepth \in Nat /\ Len(p) <= Len(w)
      /\ \A i \in 1..Len(p) : p[i] = w[i]
  BY PrefixAgrees, GrammarAssumption DEF Word
<1>2. Len(p) # Len(w)
  BY <1>1, SeqEqual DEF Word
<1> DEFINE s == w[Len(p) + 1]
           q == Append(p, s)
<1>3. s \in Symbols /\ Len(p) < MaxDepth
  BY <1>1, <1>2 DEF Word
<1>4. /\ q \in Word /\ Len(q) = Len(p) + 1 /\ q[Len(p) + 1] = s
      /\ \A i \in 1..Len(p) : q[i] = p[i]
  BY <1>1, <1>3 DEF Word
<1>5. Len(q) <= Len(w) /\ \A i \in 1..Len(q) : q[i] = w[i]
  BY <1>1, <1>2, <1>4
<1>6. IsPrefix(q, w)
  BY <1>4, <1>5, PrefixAgrees
<1>7. q \in Extended(p)
  <2>1. q \in {Append(p, x) : x \in Symbols}
    BY <1>3
  <2>2. q \in Longer(p)
    BY <1>6, <2>1 DEF Longer
  <2>3. ~(Len(p) >= MaxDepth)
    BY <1>1, <1>3
  <2> QED
    BY <2>2, <2>3 DEF Extended
<1> QED
  BY <1>4, <1>6, <1>7

LEMMA FollowKeeps ==
  ASSUME EInv, NEW p \in prefixes, Follow(p)
  PROVE  EInv'
<1>1. /\ emptiness = "enumerate" /\ language = {Sample} /\ p \in Word /\ Sample \in Word
      /\ candidates' = IF p \in language THEN Append(candidates, p) ELSE candidates
      /\ prefixes' = (prefixes \ {p}) \cup Extended(p)
      /\ UNCHANGED <<schema, tokenizer, language, rejected, emptiness>>
  BY SampleIsWord DEF Follow, Enumerating, EInv
<1>2. Sample' = Sample /\ Deep' = Deep
  BY <1>1 DEF Sample, Deep
<1>3. Extended(p) \subseteq Word
  BY <1>1 DEF Extended, Longer, Word
<1>4. candidates' \in Seq(Word) /\ \A i \in 1..Len(candidates') : candidates'[i] = Sample
  BY <1>1 DEF EInv
<1>5. ASSUME Deep, candidates' = << >>
      PROVE  \E q \in prefixes' : IsPrefix(q, Sample)
  <2>1. p # Sample /\ candidates = << >>
    BY <1>1, <1>5 DEF EInv
  <2>2. PICK q \in prefixes : IsPrefix(q, Sample)
    BY <1>1, <1>5, <2>1 DEF EInv
  <2>3. CASE q = p
    BY <1>1, <1>5, <2>1, <2>2, <2>3, PrefixGrows DEF Deep
  <2> QED
    BY <1>1, <2>2, <2>3
<1> QED
  BY <1>1, <1>2, <1>3, <1>4, <1>5 DEF EInv, IsPrefix

LEMMA TryKeepsEmptiness ==
  ASSUME EInv, TryCandidate
  PROVE  EInv'
<1>1. /\ emptiness = "try" /\ candidates # << >> /\ candidates' = Tail(candidates)
      /\ UNCHANGED <<schema, tokenizer, language, prefixes>>
      /\ Sample' = Sample /\ Deep' = Deep
  BY DEF TryCandidate, Sample, Deep
<1>2. Head(candidates) = Sample /\ language = {Sample}
  BY <1>1 DEF EInv
<1>3. candidates' \in Seq(Word) /\ \A i \in 1..Len(candidates') : candidates'[i] = Sample
  BY <1>1 DEF EInv
<1>4. \/ tokenizer[Sample] = Sample /\ emptiness' = "satisfiable" /\ rejected' = rejected
      \/ tokenizer[Sample] # Sample /\ rejected' = rejected \cup {Sample} /\ emptiness' = "try"
  BY <1>1, <1>2 DEF TryCandidate, Survives
<1> QED
  BY <1>1, <1>2, <1>3, <1>4 DEF EInv, Statuses

LEMMA EmptinessStep == EInv /\ [EmptinessNext]_emptinessVars => EInv'
<1> SUFFICES ASSUME EInv, [EmptinessNext]_emptinessVars PROVE EInv'
  OBVIOUS
<1>1. CASE Compile
  <2>1. Sample' = Sample /\ Deep' = Deep
    BY <1>1 DEF Compile, Sample, Deep
  <2>2. << >> \in Word /\ Sample \in Word
    BY SampleIsWord DEF EInv, Word
  <2>3. IsPrefix(<< >>, Sample)
    <3>1. Len(<< >>) = 0 /\ Len(Sample) \in Nat
      BY <2>2 DEF Word
    <3>2. Len(<< >>) <= Len(Sample) /\ \A i \in 1..Len(<< >>) : << >>[i] = Sample[i]
      BY <3>1
    <3> QED
      BY <2>2, <3>2, PrefixAgrees
  <2> QED
    BY <1>1, <2>1, <2>2, <2>3 DEF Compile, EInv, Statuses, IsPrefix
<1>2. CASE Enumerated
  <2>1. Sample' = Sample /\ Deep' = Deep
    BY <1>2 DEF Enumerated, Sample, Deep
  <2>2. emptiness = "enumerate" /\ candidates = << >> => prefixes = {}
    BY <1>2, GrammarAssumption DEF Enumerated, Enumerating
  <2> QED
    BY <1>2, <2>1, <2>2 DEF Enumerated, EInv, Statuses
<1>3. CASE TryCandidate
  BY <1>3, TryKeepsEmptiness
<1>4. CASE NoneSurvived
  <2>1. Sample' = Sample /\ Deep' = Deep
    BY <1>4 DEF NoneSurvived, Sample, Deep
  <2> QED
    BY <1>4, <2>1 DEF NoneSurvived, EInv, Statuses
<1>5. ASSUME NEW p \in prefixes, Follow(p) PROVE EInv'
  BY <1>5, FollowKeeps
<1>6. CASE UNCHANGED emptinessVars
  BY <1>6 DEF emptinessVars, EInv, Sample, Deep, IsPrefix
<1> QED
  BY <1>1, <1>2, <1>3, <1>4, <1>5, <1>6 DEF EmptinessNext, Emptying, EmptinessEnded

\* The inductive invariant of the analysis.
THEOREM EmptinessInvariant == EmptinessSpec => []EInv
<1>1. EmptinessInit => EInv
  BY DEF EmptinessInit, EInv
<1> QED
  BY <1>1, EmptinessStep, PTL DEF EmptinessSpec

\* Both verdicts are right, for any schemas, tokenizers and bounds: the depth and
\* the number of candidates cut off no word that the report says was tried
\* (analyze_tokenizer_grammar_emptiness of grammar_emptiness.py).
THEOREM VerdictsSound == EmptinessSpec => []EmptinessSound
<1>1. ASSUME EInv PROVE EmptinessSound
  <2>1. Sample \in Allowed
    BY <1>1, SampleIsWord DEF EInv, Allowed, Sample
  <2> QED
    BY <1>1, <2>1 DEF EInv, EmptinessSound, Deep
<1> QED
  BY <1>1, EmptinessInvariant, PTL

-----------------------------------------------------------------------------
(* Occurrences of a literal in a stream. *)

\* s ends with the first n characters of the literal.
EndsWith(s, n) == n <= Len(s) /\ \A i \in 1..n : s[Len(s) - n + i] = literal[i]

Longest(s, n) ==
    /\ n \in 0..Len(literal) /\ EndsWith(s, n)
    /\ \A m \in n + 1..Len(literal) : ~EndsWith(s, m)

LEMMA PartOf ==
  ASSUME NEW s \in Seq(Characters), NEW a \in Nat, NEW b \in Nat, 1 <= a, b <= Len(s), a <= b + 1
  PROVE  /\ SubSeq(s, a, b) \in Seq(Characters)
         /\ Len(SubSeq(s, a, b)) = b - a + 1
         /\ \A i \in 1..(b - a + 1) : SubSeq(s, a, b)[i] = s[a + i - 1]
<1>1. a \in Int /\ b \in Int /\ \A i \in a..b : s[i] \in Characters
  OBVIOUS
<1>2. /\ SubSeq(s, a, b) \in Seq(Characters)
      /\ Len(SubSeq(s, a, b)) = IF a <= b THEN b - a + 1 ELSE 0
      /\ \A i \in 1..(b - a + 1) : SubSeq(s, a, b)[i] = s[a + i - 1]
  BY <1>1, SubSeqProperties
<1>3. (IF a <= b THEN b - a + 1 ELSE 0) = b - a + 1
  OBVIOUS
<1> QED
  BY <1>2, <1>3

\* A sequence ends with another if they agree from the end.
LEMMA EndsAgree ==
  ASSUME NEW s \in Seq(Characters), NEW t \in Seq(Characters)
  PROVE  Ends(s, t) <=> Len(t) <= Len(s) /\ \A i \in 1..Len(t) : s[Len(s) - Len(t) + i] = t[i]
<1>1. PICK k \in Nat : Len(s) = k
  OBVIOUS
<1>2. PICK n \in Nat : Len(t) = n
  OBVIOUS
<1>3. CASE n <= k
  <2> DEFINE f == SubSeq(s, k - n + 1, k)
  <2>1. k - n + 1 \in Nat /\ 1 <= k - n + 1 /\ k <= Len(s) /\ k - n + 1 <= k + 1
        /\ k - (k - n + 1) + 1 = n
    BY <1>1, <1>3
  <2>2. /\ f \in Seq(Characters) /\ Len(f) = k - (k - n + 1) + 1
        /\ \A i \in 1..(k - (k - n + 1) + 1) : f[i] = s[k - n + 1 + i - 1]
    BY <2>1, PartOf
  <2> HIDE DEF f
  <2>3. \A i \in 1..n : k - n + 1 + i - 1 = k - n + i
    OBVIOUS
  <2>4. Len(f) = n /\ \A i \in 1..n : f[i] = s[k - n + i]
    BY <2>1, <2>2, <2>3
  <2>5. f = t <=> \A i \in 1..n : f[i] = t[i]
    BY <1>2, <2>2, <2>4, SeqEqual
  <2>6. Ends(s, t) <=> f = t
    BY <1>1, <1>2, <1>3 DEF Ends, f
  <2> QED
    BY <1>1, <1>2, <1>3, <2>4, <2>5, <2>6
<1>4. CASE ~(n <= k)
  BY <1>1, <1>2, <1>4 DEF Ends
<1> QED
  BY <1>3, <1>4

LEMMA EndsPrefix ==
  ASSUME literal \in Seq(Characters), NEW s \in Seq(Characters), NEW n \in 0..Len(literal)
  PROVE  Ends(s, SubSeq(literal, 1, n)) <=> EndsWith(s, n)
<1>1. n \in Nat /\ 1 <= 1 /\ n <= Len(literal) /\ 1 <= n + 1 /\ n - 1 + 1 = n
      /\ \A i \in 1..n : 1 + i - 1 = i
  OBVIOUS
<1> DEFINE t == SubSeq(literal, 1, n)
<1>2. /\ t \in Seq(Characters) /\ Len(t) = n - 1 + 1
      /\ \A i \in 1..(n - 1 + 1) : t[i] = literal[1 + i - 1]
  BY <1>1, PartOf
<1> HIDE DEF t
<1>3. Len(t) = n /\ \A i \in 1..n : t[i] = literal[i]
  BY <1>1, <1>2
<1>4. Ends(s, t) <=> EndsWith(s, n)
  BY <1>2, <1>3, EndsAgree DEF EndsWith
<1> QED
  BY <1>4 DEF t

\* There is a longest prefix, and LongestEnd finds it.
LEMMA LongestIs ==
  ASSUME literal \in Seq(Characters), NEW s \in Seq(Characters)
  PROVE  Longest(s, LongestEnd(s))
<1>1. PICK l \in Nat : Len(literal) = l
  OBVIOUS
<1> DEFINE T == {k \in 0..l : EndsWith(s, l - k)}
<1>2. l \in T
  BY DEF EndsWith
<1>3. T \in SUBSET Nat
  OBVIOUS
<1>4. PICK k \in T : \A j \in T : k <= j
  BY <1>2, <1>3, LeastNat
<1>5. l - k \in 0..l /\ EndsWith(s, l - k)
  OBVIOUS
<1>6. ASSUME NEW m \in l - k + 1..l PROVE ~EndsWith(s, m)
  <2>1. l - m \in 0..l /\ ~(k <= l - m) /\ l - (l - m) = m
    OBVIOUS
  <2> QED
    BY <1>4, <2>1
<1> DEFINE P(n) == /\ Ends(s, SubSeq(literal, 1, n))
                   /\ \A m \in n + 1..l : ~Ends(s, SubSeq(literal, 1, m))
<1>7. ASSUME NEW n \in 0..l
      PROVE  P(n) <=> EndsWith(s, n) /\ \A m \in n + 1..l : ~EndsWith(s, m)
  <2>1. \A m \in n + 1..l : m \in 0..l
    OBVIOUS
  <2> QED
    BY <1>1, <2>1, EndsPrefix
<1>8. P(l - k)
  BY <1>5, <1>6, <1>7
<1> DEFINE e == CHOOSE n \in 0..l : P(n)
<1>9. LongestEnd(s) = e
  BY <1>1 DEF LongestEnd
<1> HIDE DEF P
<1>10. e \in 0..l /\ P(e)
  BY <1>5, <1>8
<1> HIDE DEF e
<1> QED
  BY <1>1, <1>7, <1>9, <1>10 DEF Longest

LEMMA EndsWithOneMore ==
  ASSUME NEW s \in Seq(Characters), NEW c \in Characters, NEW n \in Nat
  PROVE  EndsWith(Append(s, c), n + 1) <=> literal[n + 1] = c /\ EndsWith(s, n)
<1>1. PICK k \in Nat : Len(s) = k
  OBVIOUS
<1>2. PICK e : e = Append(s, c)
  OBVIOUS
<1>3. Len(e) = k + 1 /\ e[k + 1] = c /\ \A i \in 1..k : e[i] = s[i]
  BY <1>1, <1>2
<1>4. EndsWith(e, n + 1) <=>
        n <= k /\ \A i \in 1..(n + 1) : e[k - n + i] = literal[i]
  <2>1. n + 1 <= k + 1 <=> n <= k
    OBVIOUS
  <2>2. \A i \in 1..(n + 1) : k + 1 - (n + 1) + i = k - n + i
    OBVIOUS
  <2> QED
    BY <1>3, <2>1, <2>2 DEF EndsWith
<1>5. EndsWith(s, n) <=> n <= k /\ \A i \in 1..n : s[k - n + i] = literal[i]
  BY <1>1 DEF EndsWith
<1>6. ASSUME n <= k
      PROVE  (\A i \in 1..(n + 1) : e[k - n + i] = literal[i]) <=>
               literal[n + 1] = c /\ \A i \in 1..n : s[k - n + i] = literal[i]
  <2>1. k - n + (n + 1) = k + 1 /\ \A i \in 1..n : k - n + i \in 1..k
    BY <1>6
  <2>2. e[k - n + (n + 1)] = c /\ \A i \in 1..n : e[k - n + i] = s[k - n + i]
    BY <1>3, <2>1
  <2>3. \A i : i \in 1..(n + 1) <=> i \in 1..n \/ i = n + 1
    OBVIOUS
  <2> QED
    BY <2>2, <2>3
<1> QED
  BY <1>2, <1>4, <1>5, <1>6

\* What the text ends with, the prefix matched ends with: to know the prefix is
\* to know enough.
LEMMA MatchKnows ==
  ASSUME literal \in Seq(Characters), NEW s \in Seq(Characters), NEW m, Longest(s, m),
         NEW n \in 0..Len(literal)
  PROVE  EndsWith(s, n) <=> EndsWith(SubSeq(literal, 1, m), n)
<1>1. PICK k \in Nat, l \in Nat : Len(s) = k /\ Len(literal) = l
  OBVIOUS
<1>2. m \in 0..l /\ m \in Nat /\ n \in 0..l /\ n \in Nat /\ m <= k
      /\ \A i \in 1..m : s[k - m + i] = literal[i]
  BY <1>1 DEF Longest, EndsWith
<1> DEFINE t == SubSeq(literal, 1, m)
<1>3. Len(t) = m /\ \A i \in 1..m : t[i] = literal[i]
  <2>1. m \in Nat /\ 1 <= 1 /\ m <= Len(literal) /\ 1 <= m + 1 /\ m - 1 + 1 = m
        /\ \A i \in 1..m : 1 + i - 1 = i
    BY <1>1, <1>2
  <2>2. /\ Len(t) = m - 1 + 1
        /\ \A i \in 1..(m - 1 + 1) : t[i] = literal[1 + i - 1]
    BY <2>1, PartOf
  <2> HIDE DEF t
  <2> QED
    BY <2>1, <2>2
<1> HIDE DEF t
<1>4. EndsWith(s, n) => n <= m
  BY <1>1, <1>2 DEF Longest
<1>5. EndsWith(t, n) => n <= m
  BY <1>3 DEF EndsWith
<1>6. ASSUME n <= m PROVE EndsWith(s, n) <=> EndsWith(t, n)
  <2>1. \A i \in 1..n : m - n + i \in 1..m /\ k - m + (m - n + i) = k - n + i
    BY <1>2, <1>6
  <2>2. \A i \in 1..n : s[k - n + i] = literal[m - n + i] /\ t[m - n + i] = literal[m - n + i]
    BY <1>2, <1>3, <2>1
  <2>3. n <= k
    BY <1>2, <1>6
  <2> QED
    BY <1>1, <1>3, <1>6, <2>2, <2>3 DEF EndsWith
<1> QED
  BY <1>4, <1>5, <1>6 DEF t

\* The monitor keeps the longest match although it forgets the text.
LEMMA WatchMatches ==
  ASSUME literal \in Seq(Characters), NEW s \in Seq(Characters), NEW m, Longest(s, m),
         NEW c \in Characters
  PROVE  Longest(Append(s, c), Watch(m, c))
<1> DEFINE t == SubSeq(literal, 1, m)
           s1 == Append(s, c)
           t1 == Append(t, c)
<1>1. PICK l \in Nat : Len(literal) = l
  OBVIOUS
<1>2. t \in Seq(Characters)
  <2>1. m \in Nat /\ 1 <= 1 /\ m <= Len(literal) /\ 1 <= m + 1
    BY DEF Longest
  <2> QED
    BY <2>1, PartOf
<1>3. s1 \in Seq(Characters) /\ t1 \in Seq(Characters)
  BY <1>2
<1>4. Longest(t1, Watch(m, c))
  BY <1>3, LongestIs DEF Watch
<1>5. ASSUME NEW n \in 0..l PROVE EndsWith(s1, n) <=> EndsWith(t1, n)
  <2>1. CASE n = 0
    <3>1. ASSUME NEW x \in Seq(Characters) PROVE EndsWith(x, 0)
      BY DEF EndsWith
    <3> QED
      BY <1>3, <2>1, <3>1
  <2>2. CASE n # 0
    <3>1. PICK h \in Nat : n = h + 1 /\ h \in 0..l
      <4>1. n - 1 \in Nat /\ n = n - 1 + 1 /\ n - 1 \in 0..l
        BY <2>2
      <4> QED
        BY <4>1
    <3>2. EndsWith(s1, n) <=> literal[h + 1] = c /\ EndsWith(s, h)
      BY <3>1, EndsWithOneMore
    <3>3. EndsWith(t1, n) <=> literal[h + 1] = c /\ EndsWith(t, h)
      BY <1>2, <3>1, EndsWithOneMore
    <3>4. EndsWith(s, h) <=> EndsWith(t, h)
      BY <1>1, <3>1, MatchKnows
    <3> QED
      BY <3>2, <3>3, <3>4
  <2> QED
    BY <2>1, <2>2
<1> HIDE DEF s1, t1
<1>6. Watch(m, c) \in 0..l /\ \A n \in Watch(m, c) + 1..l : n \in 0..l
  BY <1>1, <1>4 DEF Longest
<1>7. Longest(s1, Watch(m, c))
  BY <1>1, <1>4, <1>5, <1>6 DEF Longest
<1> QED
  BY <1>7 DEF s1

\* The characters in the first k chunks of s.
FedOf(s) ==
    LET Fed[k \in 0..Len(s)] == IF k = 0 THEN 0 ELSE Fed[k - 1] + Len(s[k])
    IN  Fed

FedUpTo(f, s, n) == f = [k \in 0..n |-> IF k = 0 THEN 0 ELSE f[k - 1] + Len(s[k])]

LEMMA FedExists ==
  ASSUME NEW s, NEW n \in Nat
  PROVE  \E f : FedUpTo(f, s, n)
<1> DEFINE T == {m \in Nat : ~\E f : FedUpTo(f, s, m)}
<1> SUFFICES ASSUME T # {} PROVE FALSE
  OBVIOUS
<1>1. PICK m \in T : \A k \in T : m <= k
  BY LeastNat
<1>2. m \in Nat /\ ~\E f : FedUpTo(f, s, m)
  OBVIOUS
<1>3. CASE m = 0
  <2> DEFINE f == [k \in 0..0 |-> 0]
  <2>1. f = [k \in 0..0 |-> IF k = 0 THEN 0 ELSE f[k - 1] + Len(s[k])]
    OBVIOUS
  <2> QED
    BY <1>2, <1>3, <2>1 DEF FedUpTo
<1>4. CASE m > 0
  <2>1. m - 1 \in Nat /\ ~(m <= m - 1)
    BY <1>2, <1>4
  <2>2. PICK f : FedUpTo(f, s, m - 1)
    BY <1>1, <2>1
  <2> DEFINE g == [k \in 0..m |-> IF k = m THEN f[m - 1] + Len(s[m]) ELSE f[k]]
  <2>3. \A k \in 0..(m - 1) : f[k] = IF k = 0 THEN 0 ELSE f[k - 1] + Len(s[k])
    BY <2>2 DEF FedUpTo
  <2>4. /\ \A k \in 0..(m - 1) : g[k] = f[k]
        /\ g[m] = f[m - 1] + Len(s[m])
    BY <1>2, <1>4
  <2> HIDE DEF g
  <2>5. \A k \in 0..m : g[k] = IF k = 0 THEN 0 ELSE g[k - 1] + Len(s[k])
    <3> TAKE k \in 0..m
    <3>1. CASE k = m
      BY <1>2, <1>4, <2>4, <3>1
    <3>2. CASE k # m /\ k # 0
      <4>1. k \in 0..(m - 1) /\ k - 1 \in 0..(m - 1)
        BY <1>2, <3>2
      <4> QED
        BY <2>3, <2>4, <3>2, <4>1
    <3>3. CASE k # m /\ k = 0
      <4>1. k \in 0..(m - 1)
        BY <1>2, <3>3
      <4> QED
        BY <2>3, <2>4, <3>3, <4>1
    <3> QED
      BY <3>1, <3>2, <3>3
  <2>6. FedUpTo(g, s, m)
    BY <2>5 DEF FedUpTo, g
  <2> QED
    BY <1>2, <2>6
<1> QED
  BY <1>2, <1>3, <1>4

\* Each chunk adds its length.
LEMMA FedAdds ==
  ASSUME NEW s \in Seq(Seq(Characters))
  PROVE  /\ FedOf(s)[0] = 0
         /\ \A k \in 1..Len(s) : FedOf(s)[k] = FedOf(s)[k - 1] + Len(s[k])
         /\ \A k \in 0..Len(s) : FedOf(s)[k] \in Nat
<1>1. PICK n \in Nat : Len(s) = n
  OBVIOUS
<1> DEFINE Fed[k \in 0..Len(s)] == IF k = 0 THEN 0 ELSE Fed[k - 1] + Len(s[k])
<1>2. FedOf(s) = Fed
  BY DEF FedOf, Fed
<1>3. Fed = [k \in 0..Len(s) |-> IF k = 0 THEN 0 ELSE Fed[k - 1] + Len(s[k])]
  <2>1. PICK f : FedUpTo(f, s, Len(s))
    BY <1>1, FedExists
  <2>2. f = [k \in 0..Len(s) |-> IF k = 0 THEN 0 ELSE f[k - 1] + Len(s[k])]
    BY <2>1 DEF FedUpTo
  <2> QED
    BY <2>2, Zenon DEF Fed
<1> HIDE DEF Fed
<1>4. \A k \in 0..n : Fed[k] = IF k = 0 THEN 0 ELSE Fed[k - 1] + Len(s[k])
  BY <1>1, <1>3
<1>5. 0 \in 0..n /\ \A k \in 1..n : k \in 0..n /\ k # 0
  OBVIOUS
<1>6. Fed[0] = 0 /\ \A k \in 1..n : Fed[k] = Fed[k - 1] + Len(s[k])
  BY <1>4, <1>5
<1>7. \A k \in 1..n : Len(s[k]) \in Nat
  BY <1>1
<1> DEFINE T == {k \in 0..n : Fed[k] \notin Nat}
<1>8. T = {}
  <2> SUFFICES ASSUME T # {} PROVE FALSE
    OBVIOUS
  <2>1. T \in SUBSET Nat
    OBVIOUS
  <2>2. PICK k \in T : \A j \in T : k <= j
    BY <2>1, LeastNat
  <2>3. k # 0
    BY <1>6
  <2>4. k \in 1..n /\ k - 1 \in 0..n /\ ~(k <= k - 1)
    BY <2>3
  <2>5. Fed[k - 1] \in Nat
    BY <2>2, <2>4
  <2>6. Fed[k] = Fed[k - 1] + Len(s[k]) /\ Len(s[k]) \in Nat
    BY <1>6, <1>7, <2>4
  <2>7. Fed[k] \notin Nat
    OBVIOUS
  <2> QED
    BY <2>5, <2>6, <2>7
<1> QED
  BY <1>1, <1>2, <1>6, <1>8

\* The i-th character comes in chunk k.
ComesIn(i, k) == FedOf(stream)[k - 1] < i /\ i <= FedOf(stream)[k]

\* The literal ends at the i-th character of the text.
EndsAt(text, i) ==
    Len(literal) <= i /\ \A j \in 1..Len(literal) : text[i - Len(literal) + j] = literal[j]

Reports == [event : 1..Len(events), chunk : 1..Len(stream)]

ParserState ==
    [mode : {"start", "done", "error", "outside", "string", "escape"}, depth : Nat]

\* The position in the stream and the number of characters fed agree.
Positioned ==
    /\ stream \in Seq(Seq(Characters))
    /\ chunk \in 1..(Len(stream) + 1) /\ offset \in Nat
    /\ IF chunk <= Len(stream) THEN offset <= Len(stream[chunk]) ELSE offset = 0
    /\ Len(events) = FedOf(stream)[chunk - 1] + offset

\* Exactly the occurrences of the text so far are reported.
Reported ==
    flagged = {e \in Reports : /\ ComesIn(e.event, e.chunk) /\ EndsAt(events, e.event)
                               /\ Protected(trace[e.event + 1])}

FInv ==
    /\ literal \in Seq(Characters) /\ literal # << >>
    /\ events \in Seq(Characters)
    /\ trace \in Seq(ParserState) /\ Len(trace) = Len(events) + 1
    /\ Longest(events, matched)
    /\ Positioned /\ Reported

LEMMA ParseTyped ==
  ASSUME NEW s \in ParserState, NEW c
  PROVE  Parse(s, c) \in ParserState
<1>1. s.mode \in {"start", "done", "error", "outside", "string", "escape"} /\ s.depth \in Nat
  BY DEF ParserState
<1>2. Outside(s.depth, c) \in ParserState
  BY <1>1 DEF Outside, ParserState, State, Error, Done, Quote, Open, Close
<1>3. \A m \in {"start", "done", "error", "outside", "string", "escape"} :
        State(m, s.depth) \in ParserState /\ State(m, 0) \in ParserState /\ State(m, 1) \in ParserState
  BY <1>1 DEF State, ParserState
<1> HIDE DEF ParserState
<1> QED
  BY <1>1, <1>2, <1>3 DEF Parse, StartState, Done, Error

LEMMA StreamStarts == StreamInit => FInv
<1> SUFFICES ASSUME StreamInit PROVE FInv
  OBVIOUS
<1>1. /\ stream \in Seq(Seq(Characters)) /\ literal \in Seq(Characters) /\ literal # << >>
      /\ Len(stream) \in Nat
  BY StreamAssumption DEF StreamInit
<1>2. /\ events = << >> /\ events \in Seq(Characters) /\ Len(events) = 0
      /\ chunk = 1 /\ offset = 0 /\ matched = 0 /\ flagged = {}
  BY DEF StreamInit
<1>3. trace \in Seq(ParserState) /\ Len(trace) = 1
  BY DEF StreamInit, StartState, State, ParserState
<1>4. Longest(events, 0)
  <2>1. Len(literal) \in Nat
    BY <1>1
  <2> QED
    BY <1>2, <2>1 DEF Longest, EndsWith
<1>5. Positioned
  <2>1. FedOf(stream)[0] = 0 /\ 1 - 1 = 0
    BY <1>1, FedAdds
  <2>2. 1 <= Len(stream) => 0 <= Len(stream[1])
    BY <1>1
  <2> QED
    BY <1>1, <1>2, <2>1, <2>2 DEF Positioned
<1>6. Reported
  <2>1. 1..Len(events) = {}
    BY <1>2
  <2> QED
    BY <1>2, <2>1 DEF Reported, Reports
<1> QED
  BY <1>1, <1>2, <1>3, <1>4, <1>5, <1>6 DEF FInv

\* A later chunk ends later.
LEMMA FedGrows ==
  ASSUME NEW s \in Seq(Seq(Characters)), NEW a \in 0..Len(s), NEW b \in 0..Len(s), a <= b
  PROVE  FedOf(s)[a] <= FedOf(s)[b]
<1>1. PICK n \in Nat : Len(s) = n
  OBVIOUS
<1>2. PICK F : F = FedOf(s)
  OBVIOUS
<1>3. /\ \A k \in 1..n : F[k] = F[k - 1] + Len(s[k]) /\ Len(s[k]) \in Nat
      /\ \A k \in 0..n : F[k] \in Nat
  <2>1. \A k \in 1..n : s[k] \in Seq(Characters)
    BY <1>1
  <2>2. \A k \in 1..n : Len(s[k]) \in Nat
    BY <2>1
  <2>3. /\ \A k \in 1..n : F[k] = F[k - 1] + Len(s[k])
        /\ \A k \in 0..n : F[k] \in Nat
    BY <1>1, <1>2, FedAdds
  <2> QED
    BY <2>2, <2>3
<1> DEFINE T == {k \in a..n : ~(F[a] <= F[k])}
<1>4. T = {}
  <2> SUFFICES ASSUME T # {} PROVE FALSE
    OBVIOUS
  <2>1. T \in SUBSET Nat
    BY <1>1
  <2>2. PICK k \in T : \A j \in T : k <= j
    BY <2>1, LeastNat
  <2>3. k \in a..n /\ ~(F[a] <= F[k]) /\ a \in 0..n
    BY <1>1
  <2>4. k # a
    BY <1>3, <2>3
  <2>5. k \in 1..n /\ k - 1 \in a..n /\ ~(k <= k - 1) /\ k - 1 \in 0..n
    BY <2>3, <2>4
  <2>6. F[a] <= F[k - 1]
    BY <2>2, <2>5
  <2>7. F[k] = F[k - 1] + Len(s[k]) /\ Len(s[k]) \in Nat /\ F[k - 1] \in Nat /\ F[a] \in Nat
    BY <1>3, <2>3, <2>5
  <2> QED
    BY <2>3, <2>6, <2>7
<1>5. b \in a..n
  BY <1>1
<1> QED
  BY <1>2, <1>4, <1>5

\* A character comes in one chunk.
LEMMA ComesInOne ==
  ASSUME stream \in Seq(Seq(Characters)), NEW i \in Int, NEW j \in 1..Len(stream),
         NEW k \in 1..Len(stream), ComesIn(i, j), ComesIn(i, k)
  PROVE  j = k
<1>1. Len(stream) \in Nat
  OBVIOUS
<1>2. ASSUME NEW a \in 1..Len(stream), NEW b \in 1..Len(stream), ComesIn(i, a), ComesIn(i, b), a < b
      PROVE  FALSE
  <2>1. a \in 0..Len(stream) /\ b - 1 \in 0..Len(stream) /\ a <= b - 1
    BY <1>1, <1>2
  <2>2. FedOf(stream)[a] <= FedOf(stream)[b - 1]
    BY <2>1, FedGrows
  <2>3. FedOf(stream)[a] \in Nat /\ FedOf(stream)[b - 1] \in Nat
    BY <2>1, FedAdds
  <2> QED
    BY <1>2, <2>2, <2>3 DEF ComesIn
<1> QED
  BY <1>1, <1>2

LEMMA FeedKeeps ==
  ASSUME FInv, Feed
  PROVE  FInv'
<1> DEFINE c == stream[chunk][offset + 1]
           s == Parse(Now, c)
<1>1. /\ chunk <= Len(stream) /\ offset < Len(stream[chunk])
      /\ events' = Append(events, c) /\ trace' = Append(trace, s) /\ matched' = Watch(matched, c)
      /\ flagged' = IF Protected(s) /\ matched' = Len(literal)
                    THEN flagged \cup {[event |-> Len(events'), chunk |-> chunk]}
                    ELSE flagged
      /\ offset' = offset + 1
      /\ UNCHANGED <<stream, literal, chunk, parsing>>
  BY DEF Feed, Judged
<1>2. PICK n \in Nat, k \in Nat, l \in Nat : Len(events) = n /\ Len(stream) = k /\ Len(literal) = l
  BY DEF FInv, Positioned
<1>3. chunk \in 1..k /\ c \in Characters /\ Len(stream[chunk]) \in Nat /\ offset \in Nat
  <2>1. stream \in Seq(Seq(Characters)) /\ chunk \in 1..k /\ offset \in Nat
    BY <1>1, <1>2 DEF FInv, Positioned
  <2>2. stream[chunk] \in Seq(Characters)
    BY <1>2, <2>1
  <2>3. offset + 1 \in 1..Len(stream[chunk]) /\ Len(stream[chunk]) \in Nat
    BY <1>1, <2>1, <2>2
  <2> QED
    BY <2>1, <2>2, <2>3
<1>4. Now \in ParserState /\ s \in ParserState
  <2>1. Now \in ParserState
    BY <1>2 DEF FInv, Now
  <2> QED
    BY <2>1, ParseTyped
<1> HIDE DEF c, s
<1>5. /\ events' \in Seq(Characters) /\ Len(events') = n + 1
      /\ events'[n + 1] = c /\ \A i \in 1..n : events'[i] = events[i]
  BY <1>1, <1>2, <1>3 DEF FInv
<1>6. /\ trace' \in Seq(ParserState) /\ Len(trace') = Len(events') + 1
      /\ trace'[n + 2] = s /\ \A i \in 1..(n + 1) : trace'[i] = trace[i]
  BY <1>1, <1>2, <1>4, <1>5 DEF FInv
<1>7. Longest(events', matched')
  BY <1>1, <1>3, WatchMatches DEF FInv
<1>8. Longest(events, matched)' <=> Longest(events', matched')
  BY <1>1 DEF Longest, EndsWith
<1>9. n = FedOf(stream)[chunk - 1] + offset /\ n + 1 = FedOf(stream)[chunk - 1] + (offset + 1)
  <2>1. FedOf(stream)[chunk - 1] \in Nat
    BY <1>2, <1>3, FedAdds DEF FInv, Positioned
  <2>2. Len(events) = FedOf(stream)[chunk - 1] + offset
    BY DEF FInv, Positioned
  <2> PICK a : a = FedOf(stream)[chunk - 1]
    OBVIOUS
  <2>3. n = a + offset /\ a \in Nat /\ offset \in Nat
    BY <1>2, <1>3, <2>1, <2>2
  <2>4. n = a + offset /\ n + 1 = a + (offset + 1)
    BY ONLY <2>3
  <2> QED
    BY <2>4
<1>10. Positioned'
  <2>1. stream \in Seq(Seq(Characters)) /\ chunk \in 1..(Len(stream) + 1)
    BY DEF FInv, Positioned
  <2>2. offset' \in Nat /\ chunk' <= Len(stream') /\ offset' <= Len(stream'[chunk'])
    BY <1>1, <1>3
  <2>3. FedOf(stream)' = FedOf(stream)
    BY <1>1 DEF FedOf
  <2>4. Len(events') = FedOf(stream)'[chunk' - 1] + offset'
    BY <1>1, <1>5, <1>9, <2>3
  <2> QED
    BY <1>1, <2>1, <2>2, <2>4 DEF Positioned
<1>11. ComesIn(n + 1, chunk)
  <2>1. FedOf(stream)[chunk - 1] \in Nat /\ FedOf(stream)[chunk] = FedOf(stream)[chunk - 1] + Len(stream[chunk])
    <3>1. chunk \in 1..Len(stream) /\ chunk - 1 \in 0..Len(stream)
      BY <1>2, <1>3
    <3>2. stream \in Seq(Seq(Characters))
      BY DEF FInv, Positioned
    <3> QED
      BY <3>1, <3>2, FedAdds
  <2> PICK a, b, m : a = FedOf(stream)[chunk - 1] /\ b = FedOf(stream)[chunk] /\ m = Len(stream[chunk])
    OBVIOUS
  <2>2. a \in Nat /\ b = a + m
    BY <2>1
  <2>3. n + 1 = a + (offset + 1) /\ offset < m
    BY <1>1, <1>9
  <2>4. m \in Nat /\ offset \in Nat
    BY <1>3
  <2>5. a < n + 1 /\ n + 1 <= b
    BY ONLY <2>2, <2>3, <2>4
  <2> QED
    BY <2>5 DEF ComesIn
<1>12. \A i \in 1..n : EndsAt(events', i) <=> EndsAt(events, i)
  BY <1>2, <1>5 DEF EndsAt
<1>13. matched' = l <=> EndsAt(events', n + 1)
  <2>1. matched' \in 0..l /\ EndsWith(events', matched')
        /\ \A m \in matched' + 1..l : ~EndsWith(events', m)
    BY <1>2, <1>7 DEF Longest
  <2>2. EndsWith(events', l) <=> EndsAt(events', n + 1)
    BY <1>2, <1>5 DEF EndsWith, EndsAt
  <2>3. \A m \in 0..l : m # l => l \in m + 1..l
    OBVIOUS
  <2> QED
    BY <2>1, <2>2, <2>3
<1>14. Reported'
  <2> DEFINE R(e) == /\ ComesIn(e.event, e.chunk) /\ EndsAt(events', e.event)
                     /\ Protected(trace'[e.event + 1])
             new == [event |-> n + 1, chunk |-> chunk]
  <2>1. flagged = {e \in [event : 1..n, chunk : 1..k] :
                      /\ ComesIn(e.event, e.chunk) /\ EndsAt(events, e.event)
                      /\ Protected(trace[e.event + 1])}
    BY <1>2 DEF FInv, Reported, Reports
  <2>2. flagged = {e \in [event : 1..n, chunk : 1..k] : R(e)}
    <3>1. ASSUME NEW e \in [event : 1..n, chunk : 1..k]
          PROVE  /\ EndsAt(events', e.event) <=> EndsAt(events, e.event)
                 /\ trace'[e.event + 1] = trace[e.event + 1]
      <4>1. e.event \in 1..n /\ e.event + 1 \in 1..(n + 1)
        OBVIOUS
      <4> QED
        BY <1>6, <1>12, <4>1
    <3> QED
      BY <2>1, <3>1
  <2>3. ASSUME NEW e \in [event : 1..(n + 1), chunk : 1..k], e.event = n + 1, ComesIn(e.event, e.chunk)
        PROVE  e = new
    <3>1. e.chunk = chunk
      BY <1>2, <1>3, <1>11, <2>3, ComesInOne DEF FInv, Positioned
    <3> QED
      BY <2>3, <3>1
  <2>4. new \in [event : 1..(n + 1), chunk : 1..k] /\ new.event = n + 1 /\ new.chunk = chunk
    BY <1>3
  <2>5. R(new) <=> Protected(s) /\ matched' = l
    <3>1. n + 1 + 1 = n + 2
      OBVIOUS
    <3> QED
      BY <1>6, <1>11, <1>13, <2>4, <3>1
  <2>6. flagged' = IF R(new) THEN flagged \cup {new} ELSE flagged
    BY <1>1, <1>2, <1>5, <2>5
  <2> HIDE DEF new
  <2>7. flagged' = {e \in [event : 1..(n + 1), chunk : 1..k] : R(e)}
    <3>1. ASSUME NEW e \in [event : 1..(n + 1), chunk : 1..k], R(e)
          PROVE  e \in flagged'
      <4>1. CASE e.event = n + 1
        BY <2>3, <2>6, <3>1, <4>1
      <4>2. CASE e.event # n + 1
        <5>1. e \in [event : 1..n, chunk : 1..k]
          BY <4>2
        <5> QED
          BY <2>2, <2>6, <3>1, <5>1
      <4> QED
        BY <4>1, <4>2
    <3>2. ASSUME NEW e \in flagged'
          PROVE  e \in [event : 1..(n + 1), chunk : 1..k] /\ R(e)
      <4>1. CASE e \in flagged
        BY <2>2, <4>1
      <4>2. CASE e = new /\ R(new)
        BY <2>4, <4>2
      <4> QED
        BY <2>6, <3>2, <4>1, <4>2
    <3> HIDE DEF R
    <3> QED
      BY <3>1, <3>2
  <2> QED
    BY <1>1, <1>2, <1>5, <2>7 DEF Reported, Reports, ComesIn, EndsAt
<1> QED
  BY <1>1, <1>5, <1>6, <1>7, <1>8, <1>10, <1>14 DEF FInv

LEMMA StreamStep == FInv /\ [StreamNext]_streamVars => FInv'
<1> SUFFICES ASSUME FInv, [StreamNext]_streamVars PROVE FInv'
  OBVIOUS
<1>1. ASSUME UNCHANGED <<stream, literal, events, trace, matched, flagged>>
      PROVE  /\ Reported' /\ Longest(events, matched)'
             /\ FedOf(stream)' = FedOf(stream)
  BY <1>1 DEF FInv, Reported, Reports, ComesIn, EndsAt, Longest, EndsWith
<1>2. CASE Feed
  BY <1>2, FeedKeeps
<1>3. CASE NextChunk
  <2>1. /\ chunk <= Len(stream) /\ offset = Len(stream[chunk])
        /\ chunk' = chunk + 1 /\ offset' = 0
        /\ UNCHANGED <<stream, literal, events, trace, matched, flagged>>
    BY <1>3 DEF NextChunk
  <2>2. /\ chunk \in 1..Len(stream) /\ Len(stream) \in Nat
        /\ Len(events) = FedOf(stream)[chunk - 1] + offset
    BY <2>1 DEF FInv, Positioned
  <2>3. FedOf(stream)[chunk] = FedOf(stream)[chunk - 1] + Len(stream[chunk])
        /\ FedOf(stream)[chunk] \in Nat
    BY <2>2, FedAdds DEF FInv, Positioned
  <2>4. Len(events) = FedOf(stream)[chunk + 1 - 1] + 0
    BY <2>1, <2>2, <2>3
  <2>5. chunk + 1 <= Len(stream) => 0 <= Len(stream[chunk + 1])
    <3>1. stream \in Seq(Seq(Characters))
      BY DEF FInv, Positioned
    <3>2. chunk + 1 <= Len(stream) => stream[chunk + 1] \in Seq(Characters)
      BY <2>2, <3>1
    <3> QED
      BY <3>2
  <2>6. Positioned'
    BY <1>1, <2>1, <2>2, <2>4, <2>5 DEF FInv, Positioned
  <2> QED
    BY <1>1, <2>1, <2>6 DEF FInv
<1>4. CASE CloseStream \/ UNCHANGED streamVars
  <2>1. UNCHANGED <<stream, literal, chunk, offset, events, trace, matched, flagged>>
    BY <1>4 DEF CloseStream, streamVars
  <2>2. Positioned'
    BY <1>1, <2>1 DEF FInv, Positioned
  <2> QED
    BY <1>1, <2>1, <2>2 DEF FInv
<1> QED
  BY <1>2, <1>3, <1>4 DEF StreamNext, Streaming, StreamEnded

\* A fed character comes in some chunk.
LEMMA ComesInSome ==
  ASSUME FInv, NEW i \in 1..Len(events)
  PROVE  \E k \in 1..Len(stream) : ComesIn(i, k)
<1>1. PICK n \in Nat : Len(stream) = n
  BY DEF FInv, Positioned
<1>2. stream \in Seq(Seq(Characters)) /\ Len(events) \in Nat /\ chunk \in 1..(n + 1) /\ offset \in Nat
  BY <1>1 DEF FInv, Positioned
<1>3. PICK F : F = FedOf(stream)
  OBVIOUS
<1>4. /\ F[0] = 0
      /\ \A k \in 1..n : F[k] = F[k - 1] + Len(stream[k])
      /\ \A k \in 0..n : F[k] \in Nat
  BY <1>1, <1>2, <1>3, FedAdds
<1>5. PICK k \in 0..n : i <= F[k]
  <2>1. Len(events) = F[chunk - 1] + offset
    BY <1>3 DEF FInv, Positioned
  <2>2. CASE chunk <= n
    <3>1. chunk \in 1..n /\ chunk - 1 \in 0..n /\ offset <= Len(stream[chunk])
          /\ Len(stream[chunk]) \in Nat
      BY <1>1, <1>2, <2>2 DEF FInv, Positioned
    <3>2. F[chunk] = F[chunk - 1] + Len(stream[chunk]) /\ F[chunk - 1] \in Nat
      BY <1>4, <3>1
    <3>3. i <= F[chunk]
      BY <1>2, <2>1, <3>1, <3>2
    <3> QED
      BY <3>1, <3>3
  <2>3. CASE ~(chunk <= n)
    <3>1. chunk - 1 = n /\ offset = 0 /\ n \in 0..n
      BY <1>1, <1>2, <2>3 DEF FInv, Positioned
    <3>2. F[n] \in Nat
      BY <1>4, <3>1
    <3> QED
      BY <1>2, <2>1, <3>1, <3>2
  <2> QED
    BY <2>2, <2>3
<1> DEFINE T == {j \in 0..n : i <= F[j]}
<1>6. T \in SUBSET Nat /\ T # {}
  BY <1>5
<1>7. PICK m \in T : \A j \in T : m <= j
  BY <1>6, LeastNat
<1>8. m \in 0..n /\ i <= F[m] /\ i >= 1
  OBVIOUS
<1>9. m # 0
  BY <1>4, <1>8
<1>10. m \in 1..n /\ m - 1 \in 0..n /\ ~(m <= m - 1)
  BY <1>8, <1>9
<1>11. F[m - 1] < i
  <2>1. ~(i <= F[m - 1]) /\ F[m - 1] \in Nat
    BY <1>4, <1>7, <1>10
  <2> QED
    BY <2>1
<1> QED
  BY <1>1, <1>3, <1>8, <1>10, <1>11 DEF ComesIn

\* The reports are the occurrences that end inside a string, for any stream, any
\* chunks and any literal, one that overlaps itself included
\* (analyze_streaming_parser_product of streaming_parser_products.py).
THEOREM OccurrencesReported == StreamSpec => []OccurrencesFlagged
<1>1. ASSUME FInv PROVE OccurrencesFlagged
  <2>1. PICK n \in Nat, k \in Nat : Len(events) = n /\ Len(stream) = k
    BY <1>1 DEF FInv, Positioned
  <2>2. DOMAIN events = 1..n /\ DOMAIN stream = 1..k
    BY <1>1, <2>1 DEF FInv, Positioned
  <2> DEFINE Into(i) == CHOOSE c \in 1..k : ComesIn(i, c)
             Inside == {j \in 1..n : Ends(SubSeq(events, 1, j), literal) /\ Protected(trace[j + 1])}
  <2>3. ASSUME NEW i \in 1..n PROVE Into(i) \in 1..k /\ ComesIn(i, Into(i))
    BY <1>1, <2>1, ComesInSome
  <2>4. ASSUME NEW i \in 1..n PROVE Ends(SubSeq(events, 1, i), literal) <=> EndsAt(events, i)
    <3>1. events \in Seq(Characters) /\ literal \in Seq(Characters)
          /\ i \in Nat /\ 1 \in Nat /\ 1 <= 1 /\ i <= Len(events) /\ 1 <= i + 1 /\ i - 1 + 1 = i
          /\ \A j \in 1..i : 1 + j - 1 = j
      BY <1>1, <2>1 DEF FInv
    <3> DEFINE t == SubSeq(events, 1, i)
    <3>2. /\ t \in Seq(Characters) /\ Len(t) = i - 1 + 1
          /\ \A j \in 1..(i - 1 + 1) : t[j] = events[1 + j - 1]
      BY <3>1, PartOf
    <3> HIDE DEF t
    <3>3. Len(t) = i /\ \A j \in 1..i : t[j] = events[j]
      BY <3>1, <3>2
    <3>4. Len(literal) \in Nat /\ \A j \in 1..Len(literal) : Len(literal) <= i => i - Len(literal) + j \in 1..i
      BY <3>1
    <3>5. Ends(t, literal) <=> EndsAt(events, i)
      BY <3>1, <3>2, <3>3, <3>4, EndsAgree DEF EndsAt
    <3> QED
      BY <3>5 DEF t
  <2>5. flagged = {e \in [event : 1..n, chunk : 1..k] :
                     /\ ComesIn(e.event, e.chunk) /\ EndsAt(events, e.event)
                     /\ Protected(trace[e.event + 1])}
    BY <1>1, <2>1 DEF FInv, Reported, Reports
  <2> HIDE DEF Into
  <2>6. flagged = {[event |-> i, chunk |-> Into(i)] : i \in Inside}
    <3>1. ASSUME NEW e \in flagged PROVE \E i \in Inside : e = [event |-> i, chunk |-> Into(i)]
      <4>1. /\ e \in [event : 1..n, chunk : 1..k] /\ e.event \in 1..n /\ e.chunk \in 1..k
            /\ ComesIn(e.event, e.chunk) /\ EndsAt(events, e.event) /\ Protected(trace[e.event + 1])
        BY <2>5
      <4>2. e.event \in Inside
        BY <2>4, <4>1
      <4>3. e.chunk = Into(e.event)
        BY <1>1, <2>1, <2>3, <4>1, ComesInOne DEF FInv, Positioned
      <4>4. e = [event |-> e.event, chunk |-> Into(e.event)]
        BY <4>1, <4>3
      <4> QED
        BY <4>2, <4>4
    <3>2. ASSUME NEW i \in Inside PROVE [event |-> i, chunk |-> Into(i)] \in flagged
      <4>1. i \in 1..n /\ EndsAt(events, i) /\ Protected(trace[i + 1])
        BY <2>4
      <4>2. Into(i) \in 1..k /\ ComesIn(i, Into(i))
        BY <2>3, <4>1
      <4> QED
        BY <2>5, <4>1, <4>2
    <3> HIDE DEF Inside
    <3> QED
      BY <3>1, <3>2
  <2> DEFINE Fed[m \in 0..Len(stream)] == IF m = 0 THEN 0 ELSE Fed[m - 1] + Len(stream[m])
  <2>7. FedOf(stream) = Fed
    BY DEF FedOf, Fed
  <2>8. \A i : Into(i) = CHOOSE c \in DOMAIN stream : Fed[c - 1] < i /\ i <= Fed[c]
    BY <2>2, <2>7 DEF Into, ComesIn
  <2>9. OccurrencesFlagged <=>
          flagged = {[event |-> i, chunk |-> CHOOSE c \in DOMAIN stream : Fed[c - 1] < i /\ i <= Fed[c]] :
                       i \in {j \in DOMAIN events :
                                Ends(SubSeq(events, 1, j), literal) /\ Protected(trace[j + 1])}}
    BY DEF OccurrencesFlagged, Fed
  <2> HIDE DEF Fed
  <2> QED
    BY <2>2, <2>6, <2>8, <2>9
<1> QED
  BY <1>1, StreamStarts, StreamStep, PTL DEF StreamSpec

=============================================================================
