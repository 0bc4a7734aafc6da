------------------------------ MODULE ToolProofs ------------------------------
(***************************************************************************)
(* The cache of analysis products, bisection, minimisation of repros, the  *)
(* closure of prompt packs and the truncation of prompts, for any threads, *)
(* history, predicate, limit, registry, prompt and policy.                 *)
(***************************************************************************)
EXTENDS AnalysisCache, ArtifactBisection, ReproMinimizer, PackClosure, BudgetTruncation,
        SequenceTheorems, FiniteSetTheorems, WellFoundedInduction, TLAPS

(* The cache of analysis products. *)

\* The lock is held by whoever is inside factories, and they are of known keys.
Locked ==
    /\ owner \in Threads \cup {NoThread}
    /\ want \in [Threads -> Keys \cup {NoKey}]
    /\ frames \in Seq(Keys)
    /\ owner = NoThread <=> frames = << >>

\* At most one product is stored under a key, and only that one was handed out.
Shared ==
    /\ values \in [Keys -> SUBSET Nat]
    /\ builds \in [Keys -> Nat]
    /\ handed \in [Keys -> SUBSET Nat]
    /\ \A k \in Keys : /\ handed[k] \subseteq values[k]
                       /\ values[k] # {} => \E n \in Nat : values[k] = {n}

\* S holds what the factory of k leads to, and not k.
Leads(k, S) == \A a \in Asks : a[1] \in S \cup {k} => a[2] \in S

\* While the factory of k runs, only factories it leads to run inside it, so none
\* stores a product for k.
Nested ==
    \A k \in Keys : \A S \in SUBSET (Keys \ {k}) : Leads(k, S) =>
        /\ builds[k] <= 1
        /\ values[k] = {} => builds[k] = 0
        /\ \A i \in 1..Len(frames) : frames[i] = k =>
             values[k] = {} /\ \A j \in 1..Len(frames) : j > i => frames[j] \in S

MemoInv == Locked /\ Shared /\ Nested

LEMMA MemoStarts == MemoInit => MemoInv
  BY CacheAssumption DEF MemoInit, MemoInv, Locked, Shared, Nested

LEMMA MissKeeps ==
  ASSUME MemoInv, NEW t \in Threads, Miss(t)
  PROVE  MemoInv'
<1>1. /\ want[t] \in Keys /\ values[want[t]] = {} /\ owner' = t /\ frames' = <<want[t]>>
      /\ UNCHANGED <<values, want, builds, handed>>
  BY DEF MemoInv, Locked, Miss, Cached
<1>2. frames' \in Seq(Keys) /\ frames' # << >> /\ Len(frames') = 1 /\ frames'[1] = want[t]
  BY <1>1
<1>3. Locked'
  BY <1>1, <1>2, CacheAssumption DEF MemoInv, Locked
<1>4. Shared'
  BY <1>1 DEF MemoInv, Shared
<1>5. Nested'
  BY <1>1, <1>2 DEF MemoInv, Nested
<1> QED
  BY <1>3, <1>4, <1>5 DEF MemoInv

LEMMA NestKeeps ==
  ASSUME MemoInv, NEW t \in Threads, NEW j \in Keys, Nest(t, j)
  PROVE  MemoInv'
<1>1. /\ owner = t /\ <<Top, j>> \in Asks /\ values[j] = {} /\ frames' = Append(frames, j)
      /\ UNCHANGED <<values, owner, want, builds, handed>>
  BY DEF Nest, Cached
<1>2. frames \in Seq(Keys) /\ frames # << >> /\ Len(frames) \in Nat /\ Len(frames) > 0
  BY <1>1, CacheAssumption DEF MemoInv, Locked
<1>3. /\ frames' \in Seq(Keys) /\ Len(frames') = Len(frames) + 1
      /\ \A i \in 1..Len(frames) : frames'[i] = frames[i]
      /\ frames'[Len(frames) + 1] = j
  BY <1>1, <1>2
<1>4. Locked'
  BY <1>1, <1>2, <1>3, CacheAssumption DEF MemoInv, Locked
<1>5. Shared'
  BY <1>1 DEF MemoInv, Shared
<1>6. Nested'
  <2> SUFFICES ASSUME NEW k \in Keys, NEW S \in SUBSET (Keys \ {k}), Leads(k, S),
                      NEW i \in 1..Len(frames'), frames'[i] = k
               PROVE  /\ values[k] = {}
                      /\ \A h \in 1..Len(frames') : h > i => frames'[h] \in S
    BY <1>1 DEF MemoInv, Nested
  <2>1. CASE i = Len(frames) + 1
    BY <1>1, <1>2, <1>3, <2>1
  <2>2. CASE i \in 1..Len(frames)
    <3>1. frames[i] = k /\ values[k] = {} /\ \A h \in 1..Len(frames) : h > i => frames[h] \in S
      BY <1>3, <2>2 DEF MemoInv, Nested
    <3>2. Top \in S \cup {k}
      BY <1>2, <2>2, <3>1 DEF Top
    <3>3. j \in S
      BY <1>1, <3>2 DEF Leads
    <3> QED
      BY <1>2, <1>3, <3>1, <3>3
  <2> QED
    BY <1>2, <1>3, <2>1, <2>2
<1> QED
  BY <1>4, <1>5, <1>6 DEF MemoInv

LEMMA PopDropsLast ==
  ASSUME frames \in Seq(Keys), frames # << >>
  PROVE  /\ Pop \in Seq(Keys) /\ Len(Pop) = Len(frames) - 1
         /\ \A i \in 1..(Len(frames) - 1) : Pop[i] = frames[i]
<1> DEFINE n == Len(frames) - 1
<1>1. n \in Nat /\ \A i \in 1..n : frames[i] \in Keys
  OBVIOUS
<1> HIDE DEF n
<1>2. /\ SubSeq(frames, 1, n) \in Seq(Keys)
      /\ Len(SubSeq(frames, 1, n)) = IF 1 <= n THEN n - 1 + 1 ELSE 0
      /\ \A i \in 1..(n - 1 + 1) : SubSeq(frames, 1, n)[i] = frames[1 + i - 1]
  BY <1>1, SubSeqProperties
<1>3. Pop = SubSeq(frames, 1, n)
  BY DEF Pop, n
<1>4. Pop \in Seq(Keys) /\ Len(Pop) = n
  BY <1>1, <1>2, <1>3
<1>5. \A i \in 1..n : Pop[i] = frames[i]
  BY <1>1, <1>2, <1>3
<1> QED
  BY <1>4, <1>5 DEF n

LEMMA LeavePops ==
  ASSUME MemoInv, NEW t \in Threads, owner = t, Leave(t)
  PROVE  /\ Locked'
         /\ Top \in Keys /\ Len(frames) \in Nat /\ Len(frames) > 0
         /\ Len(frames') = Len(frames) - 1
         /\ \A i \in 1..(Len(frames) - 1) : frames'[i] = frames[i]
<1>1. frames \in Seq(Keys) /\ frames # << >> /\ Len(frames) \in Nat /\ Len(frames) > 0
  BY CacheAssumption DEF MemoInv, Locked
<1>2. /\ frames' \in Seq(Keys) /\ Len(frames') = Len(frames) - 1
      /\ \A i \in 1..(Len(frames) - 1) : frames'[i] = frames[i]
  BY <1>1, PopDropsLast DEF Leave
<1>3. Len(frames) = 1 <=> frames' = << >>
  BY <1>1, <1>2
<1>4. Locked'
  BY <1>1, <1>2, <1>3, CacheAssumption DEF Leave, MemoInv, Locked
<1> QED
  BY <1>1, <1>2, <1>4 DEF Top

LEMMA RaisedKeeps ==
  ASSUME MemoInv, NEW t \in Threads, Raised(t)
  PROVE  MemoInv'
<1>1. owner = t /\ Leave(t) /\ UNCHANGED <<values, builds, handed>>
  BY DEF Raised
<1>2. /\ Locked' /\ Len(frames) \in Nat /\ Len(frames) > 0 /\ Len(frames') = Len(frames) - 1
      /\ \A i \in 1..(Len(frames) - 1) : frames'[i] = frames[i]
  BY <1>1, LeavePops
<1>3. Shared'
  BY <1>1 DEF MemoInv, Shared
<1>4. Nested'
  BY <1>1, <1>2 DEF MemoInv, Nested
<1> QED
  BY <1>2, <1>3, <1>4 DEF MemoInv

LEMMA BuiltKeeps ==
  ASSUME MemoInv, NEW t \in Threads, Built(t)
  PROVE  MemoInv'
<1>1. /\ owner = t /\ Leave(t)
      /\ values' = [values EXCEPT ![Top] = IF @ = {} THEN {builds[Top]} ELSE @]
      /\ builds' = [builds EXCEPT ![Top] = @ + 1]
      /\ handed' = [handed EXCEPT ![Top] = @ \cup values'[Top]]
  BY DEF Built
<1>2. /\ Locked' /\ Top \in Keys /\ Len(frames) \in Nat /\ Len(frames) > 0
      /\ Len(frames') = Len(frames) - 1
      /\ \A i \in 1..(Len(frames) - 1) : frames'[i] = frames[i]
  BY <1>1, LeavePops
<1>3. /\ values'[Top] = IF values[Top] = {} THEN {builds[Top]} ELSE values[Top]
      /\ builds'[Top] = builds[Top] + 1
      /\ handed'[Top] = handed[Top] \cup values'[Top]
      /\ \A k \in Keys \ {Top} : values'[k] = values[k] /\ builds'[k] = builds[k]
                                   /\ handed'[k] = handed[k]
      /\ builds[Top] \in Nat
  BY <1>1, <1>2 DEF MemoInv, Shared
<1>4. Shared'
  <2>1. /\ values' \in [Keys -> SUBSET Nat] /\ builds' \in [Keys -> Nat]
        /\ handed' \in [Keys -> SUBSET Nat]
    BY <1>1, <1>2, <1>3 DEF MemoInv, Shared
  <2>2. ASSUME NEW k \in Keys
        PROVE  /\ handed'[k] \subseteq values'[k]
               /\ values'[k] # {} => \E n \in Nat : values'[k] = {n}
    BY <1>2, <1>3 DEF MemoInv, Shared
  <2> QED
    BY <2>1, <2>2 DEF Shared
<1>5. Nested'
  <2> SUFFICES ASSUME NEW k \in Keys, NEW S \in SUBSET (Keys \ {k}), Leads(k, S)
               PROVE  /\ builds'[k] <= 1
                      /\ values'[k] = {} => builds'[k] = 0
                      /\ \A i \in 1..Len(frames') : frames'[i] = k =>
                           /\ values'[k] = {}
                           /\ \A h \in 1..Len(frames') : h > i => frames'[h] \in S
    BY DEF Nested, Leads
  <2>1. /\ builds[k] <= 1 /\ builds[k] \in Nat
        /\ values[k] = {} => builds[k] = 0
        /\ \A i \in 1..Len(frames) : frames[i] = k =>
             values[k] = {} /\ \A h \in 1..Len(frames) : h > i => frames[h] \in S
    BY DEF MemoInv, Nested, Shared
  <2>2. Top = frames[Len(frames)] /\ Len(frames) \in 1..Len(frames)
    BY <1>2 DEF Top
  <2> HIDE DEF Top
  <2>3. CASE k = Top
    <3>1. values[k] = {} /\ builds[k] = 0
      BY <2>1, <2>2, <2>3
    <3>2. \A i \in 1..(Len(frames) - 1) : frames[i] # k
      BY <1>2, <2>1, <2>2, <2>3
    <3>3. builds'[k] = 1 /\ values'[k] # {}
      BY <1>3, <2>3, <3>1
    <3>4. \A i \in 1..Len(frames') : frames'[i] # k
      BY <1>2, <3>2
    <3> QED
      BY <3>3, <3>4
  <2>4. CASE k # Top
    <3>1. values'[k] = values[k] /\ builds'[k] = builds[k]
      BY <1>3, <2>4
    <3> QED
      BY <1>2, <2>1, <3>1
  <2> QED
    BY <2>3, <2>4
<1> QED
  BY <1>2, <1>4, <1>5 DEF MemoInv

LEMMA MemoStep == MemoInv /\ [MemoNext]_cvars => MemoInv'
<1> SUFFICES ASSUME MemoInv, [MemoNext]_cvars PROVE MemoInv'
  OBVIOUS
<1>1. ASSUME NEW t \in Threads, NEW k \in Keys, Call(t, k) PROVE MemoInv'
  <2>1. Locked'
    BY <1>1 DEF Call, MemoInv, Locked
  <2>2. Shared'
    BY <1>1 DEF Call, MemoInv, Shared
  <2>3. Nested'
    BY <1>1 DEF Call, MemoInv, Nested
  <2> QED
    BY <2>1, <2>2, <2>3 DEF MemoInv
<1>2. ASSUME NEW t \in Threads, Hit(t) PROVE MemoInv'
  <2>1. /\ want[t] \in Keys /\ want' = [want EXCEPT ![t] = NoKey]
        /\ handed' = [handed EXCEPT ![want[t]] = @ \cup values[want[t]]]
        /\ UNCHANGED <<values, owner, frames, builds>>
    BY <1>2 DEF Hit, MemoInv, Locked
  <2>2. Locked'
    BY <2>1 DEF MemoInv, Locked
  <2>3. Shared'
    BY <2>1 DEF MemoInv, Shared
  <2>4. Nested'
    BY <2>1 DEF MemoInv, Nested
  <2> QED
    BY <2>2, <2>3, <2>4 DEF MemoInv
<1>3. ASSUME NEW t \in Threads, Miss(t) PROVE MemoInv'
  BY <1>3, MissKeeps
<1>4. ASSUME NEW t \in Threads, NEW k \in Keys, Nest(t, k) PROVE MemoInv'
  BY <1>4, NestKeeps
<1>5. ASSUME NEW t \in Threads, Built(t) PROVE MemoInv'
  BY <1>5, BuiltKeeps
<1>6. ASSUME NEW t \in Threads, Raised(t) PROVE MemoInv'
  BY <1>6, RaisedKeeps
<1>7. CASE UNCHANGED cvars
  BY <1>7 DEF cvars, MemoInv, Locked, Shared, Nested
<1> QED
  BY <1>1, <1>2, <1>3, <1>4, <1>5, <1>6, <1>7 DEF MemoNext, MemoIdle

\* The inductive invariant of the cache.
THEOREM MemoInvariant == MemoSpec => []MemoInv
  BY MemoStarts, MemoStep, PTL DEF MemoSpec

\* One product per key, for any number of threads and whatever factories ask for
\* (AnalysisCache.memoize of session.py).
THEOREM ProductShared == MemoSpec => []OneProduct
<1>1. ASSUME MemoInv, NEW k \in Keys PROVE Cardinality(handed[k]) <= 1
  <2>1. PICK T : handed[k] \subseteq T /\ (T = {} \/ \E n \in Nat : T = {n})
    BY <1>1 DEF MemoInv, Shared
  <2>2. handed[k] = {} \/ \E n \in Nat : handed[k] = {n}
    BY <2>1
  <2>3. CASE handed[k] = {}
    BY <2>3, FS_EmptySet
  <2>4. ASSUME NEW n \in Nat, handed[k] = {n} PROVE Cardinality(handed[k]) <= 1
    <3>1. Cardinality({n}) = 1
      BY FS_Singleton
    <3> QED
      BY <2>4, <3>1
  <2> QED
    BY <2>2, <2>3, <2>4
<1>2. MemoInv => OneProduct
  BY <1>1 DEF OneProduct
<1> QED
  BY <1>2, MemoInvariant, PTL

\* A factory that does not lead back to its own key returns once at most.
THEOREM BuiltOnce == MemoSpec => []BuildOnce
<1>1. MemoInv => BuildOnce
  BY DEF MemoInv, Nested, BuildOnce, NeverItself, Leads
<1> QED
  BY <1>1, MemoInvariant, PTL

-----------------------------------------------------------------------------
(* Bisection. *)

\* What is below the range was compared last at its end and is good, what is
\* above it starts with a bad revision, or is empty.
Bracket ==
    /\ low <= high + 1
    /\ low > 0 => low - 1 \in probes /\ Says(low - 1, "good")
    /\ firstBad = None => high = Newest
    /\ firstBad # None => high = firstBad - 1 /\ firstBad \in probes /\ Says(firstBad, "bad")

BInv ==
    /\ BisectTypeOK
    /\ Bracket
    /\ bisect = "done" => low = high + 1 /\ previousGood = Good

LEMMA BisectStarts == BisectInit => BInv
<1> SUFFICES ASSUME BisectInit PROVE BInv
  OBVIOUS
<1>1. history \in Seq(Verdict) /\ history # << >> /\ Len(history) \in Nat /\ Len(history) > 0
  BY HistoryAssumption DEF BisectInit
<1> QED
  BY <1>1 DEF BisectInit, BInv, BisectTypeOK, Bracket, None, Newest

LEMMA MiddleBetween ==
  ASSUME BisectTypeOK, low <= high
  PROVE  Middle \in Int /\ low <= Middle /\ Middle <= high /\ Middle >= 0 /\ Middle <= Newest
<1>1. low \in Int /\ high \in Int /\ low >= 0 /\ high <= Newest /\ Newest \in Int
  BY DEF BisectTypeOK, Newest
<1> QED
  BY <1>1 DEF Middle

LEMMA ProbesKeep ==
  ASSUME BInv, ProbeBad \/ ProbeGood
  PROVE  BInv'
<1>1. /\ low \in Int /\ high \in Int /\ Len(history) \in Nat /\ Len(history) > 0
      /\ low >= 0 /\ high <= Newest /\ high >= -1 /\ Newest = Len(history) - 1
  BY DEF BInv, BisectTypeOK, Newest
<1>2. /\ Middle \in Int /\ low <= Middle /\ Middle <= high /\ Middle >= 0 /\ Middle <= Newest
      /\ bisect = "search" /\ bisect' = bisect /\ history' = history
      /\ previousGood' = previousGood /\ probes' = probes \cup {Middle}
  BY MiddleBetween DEF BInv, ProbeBad, ProbeGood, Probing
<1>3. Newest' = Newest /\ \A i, v : Says(i, v)' <=> Says(i, v)
  BY <1>2 DEF Newest, Says
<1>4. CASE ProbeBad
  <2>1. Says(Middle, "bad") /\ firstBad' = Middle /\ high' = Middle - 1 /\ low' = low
    BY <1>4 DEF ProbeBad
  <2> HIDE DEF Middle
  <2>2. BisectTypeOK'
    BY <1>1, <1>2, <1>3, <2>1 DEF BInv, BisectTypeOK
  <2>3. Bracket'
    BY <1>1, <1>2, <1>3, <2>1 DEF BInv, Bracket, None
  <2> QED
    BY <1>2, <2>2, <2>3 DEF BInv
<1>5. CASE ProbeGood
  <2>1. Says(Middle, "good") /\ firstBad' = firstBad /\ high' = high /\ low' = Middle + 1
    BY <1>5 DEF ProbeGood
  <2> HIDE DEF Middle
  <2>2. BisectTypeOK'
    BY <1>1, <1>2, <1>3, <2>1 DEF BInv, BisectTypeOK
  <2>3. Bracket'
    BY <1>1, <1>2, <1>3, <2>1 DEF BInv, Bracket, None
  <2> QED
    BY <1>2, <2>2, <2>3 DEF BInv
<1> QED
  BY <1>4, <1>5

LEMMA BracketEnds ==
  ASSUME BInv, low > high
  PROVE  low = high + 1 /\ Good = high /\ ~Unprobed
  BY DEF BInv, BisectTypeOK, Bracket, Good, Unprobed, None, Baseline, Newest

LEMMA BisectStep == BInv /\ [BisectNext]_bisectVars => BInv'
<1> SUFFICES ASSUME BInv, [BisectNext]_bisectVars PROVE BInv'
  OBVIOUS
<1>1. CASE ProbeRaises
  BY <1>1 DEF ProbeRaises, BInv, BisectTypeOK, Bracket, Newest, Says
<1>2. CASE ProbeBad \/ ProbeGood
  BY <1>2, ProbesKeep
<1>3. CASE Report
  <2>1. /\ low = high + 1 /\ Good = high /\ ~Unprobed
        /\ bisect' = "done" /\ previousGood' = Good /\ probes' = probes
        /\ UNCHANGED <<history, low, high, firstBad>>
    BY <1>3, BracketEnds DEF Report, BInv, BisectTypeOK
  <2>2. Good' = Good
    BY <2>1 DEF Good, Newest
  <2> QED
    BY <2>1, <2>2 DEF BInv, BisectTypeOK, Bracket, Newest, Says
<1>4. CASE UNCHANGED bisectVars
  BY <1>4 DEF bisectVars, BInv, BisectTypeOK, Bracket, Newest, Says, Good
<1> QED
  BY <1>1, <1>2, <1>3, <1>4 DEF BisectNext, Bisecting, BisectEnded

\* The inductive invariant of the bisection.
THEOREM BisectInvariant == BisectSpec => []BInv
  BY BisectStarts, BisectStep, PTL DEF BisectSpec

\* Every variable holds a value of its kind: the range never leaves the history.
THEOREM BisectTypeCorrect == BisectSpec => []BisectTypeOK
<1>1. BInv => BisectTypeOK
  BY DEF BInv
<1> QED
  BY <1>1, BisectInvariant, PTL

\* A reported transition is real, for any history (bisect_artifact_drift of
\* artifact_bisection.py).
THEOREM TransitionReal == BisectSpec => []RealTransition
<1>1. BInv => RealTransition
  BY DEF BInv, BisectTypeOK, Bracket, RealTransition, Good, None, Baseline, Newest
<1> QED
  BY <1>1, BisectInvariant, PTL

\* On a history that stays bad, the first bad revision is found.
THEOREM FirstFound == BisectSpec => []FirstOfMonotone
<1>1. ASSUME BInv PROVE FirstOfMonotone
  <2> SUFFICES ASSUME bisect = "done", Monotone,
                      NEW i \in 0..Newest, i < low, Says(i, "bad")
               PROVE  FALSE
    BY <1>1 DEF BInv, BisectTypeOK, Bracket, FirstOfMonotone, None, Newest
  <2>1. low - 1 \in 0..Newest /\ Says(low - 1, "good") /\ low \in Int
    BY <1>1 DEF BInv, BisectTypeOK, Bracket, Newest
  <2>2. i = low - 1 \/ Says(low - 1, "bad")
    BY <2>1 DEF Monotone
  <2> QED
    BY <2>1, <2>2 DEF Says
<1> QED
  BY <1>1, BisectInvariant, PTL

-----------------------------------------------------------------------------
(* Minimisation of repros. *)

\* The current repro failed when it was asked about, since the original did.
Failing ==
    /\ shrink = "start" => current = repro.value /\ known = << >>
    /\ shrink \in {"loop", "try", "check", "done"} => Asked(current) /\ known[current]
    /\ shrink = "raised" => current = repro.value /\ ~known[current]

\* Accepted steps stay below the limit until it is reported.
Counted ==
    /\ accepted \in Nat
    /\ limit # NoLimit => limit \in Nat /\ accepted <= limit
    /\ shrink = "try" => CanAccept
    /\ hitLimit => shrink \in {"check", "done", "raised"} /\ ~CanAccept

RInv ==
    /\ shrink \in {"start", "loop", "try", "check", "done", "raised"}
    /\ known \in [DOMAIN known -> BOOLEAN]
    /\ Failing
    /\ Counted

LEMMA ReproStarts == ReproInit => RInv
<1> SUFFICES ASSUME ReproInit PROVE RInv
  OBVIOUS
<1>1. DOMAIN known = {} /\ known \in [{} -> BOOLEAN]
  BY DEF ReproInit
<1> QED
  BY <1>1, ReproAssumption DEF ReproInit, RInv, Failing, Counted, CanAccept

\* The cache keeps what it knows and adds one answer.
LEMMA EvaluateAdds ==
  ASSUME RInv, NEW v, NEW r \in BOOLEAN, Evaluate(v, r)
  PROVE  /\ known' \in [DOMAIN known' -> BOOLEAN]
         /\ DOMAIN known' = DOMAIN known \cup {v}
         /\ known'[v] = r
         /\ \A w \in DOMAIN known : known'[w] = known[w]
  BY DEF RInv, Evaluate, Asked

LEMMA TryKeeps ==
  ASSUME RInv, NEW c \in todo, Try(c)
  PROVE  RInv'
<1>1. PICK r \in BOOLEAN :
        /\ Evaluate(c, r)
        /\ IF r THEN Accept(c) ELSE todo' = todo \ {c} /\ UNCHANGED <<current, accepted, shrink>>
  BY DEF Try
<1>2. UNCHANGED <<repro, limit, hitLimit>> /\ shrink = "try" /\ ~hitLimit /\ CanAccept
  BY DEF Try, RInv, Counted
<1>3. /\ known' \in [DOMAIN known' -> BOOLEAN]
      /\ DOMAIN known' = DOMAIN known \cup {c} /\ known'[c] = r
      /\ \A w \in DOMAIN known : known'[w] = known[w]
  BY <1>1, EvaluateAdds
<1>4. CASE r
  <2>1. shrink' = "loop" /\ current' = c /\ accepted' = IF limit = NoLimit THEN accepted ELSE accepted + 1
    BY <1>1, <1>4 DEF Accept
  <2>2. Failing'
    BY <1>3, <1>4, <2>1 DEF Failing, Asked
  <2>3. Counted'
    BY <1>2, <2>1 DEF RInv, Counted, CanAccept
  <2> QED
    BY <1>3, <2>1, <2>2, <2>3 DEF RInv
<1>5. CASE ~r
  <2>1. UNCHANGED <<current, accepted, shrink>>
    BY <1>1, <1>5
  <2>2. Failing'
    BY <1>2, <1>3, <2>1 DEF RInv, Failing, Asked
  <2>3. Counted'
    BY <1>2, <2>1 DEF RInv, Counted, CanAccept
  <2> QED
    BY <1>2, <1>3, <2>1, <2>2, <2>3 DEF RInv
<1> QED
  BY <1>4, <1>5

\* The original and the result are asked about in the same way.
LEMMA AskKeeps ==
  ASSUME RInv, AskOriginal \/ Check
  PROVE  RInv'
<1>1. PICK r \in BOOLEAN : Evaluate(current, r) /\ shrink' \in {"loop", "raised", "done"}
                           /\ (shrink' = "raised" <=> ~r) /\ (shrink = "start" => shrink' # "done")
                           /\ (shrink = "check" => shrink' # "loop")
  BY DEF AskOriginal, Check
<1>2. UNCHANGED <<repro, limit, current, accepted, hitLimit>> /\ shrink \in {"start", "check"}
  BY DEF AskOriginal, Check
<1>3. /\ known' \in [DOMAIN known' -> BOOLEAN]
      /\ DOMAIN known' = DOMAIN known \cup {current} /\ known'[current] = r
  BY <1>1, EvaluateAdds
<1>4. shrink = "check" => r
  BY <1>1 DEF RInv, Failing, Evaluate
<1>5. Failing'
  BY <1>1, <1>2, <1>3, <1>4 DEF RInv, Failing, Asked
<1>6. Counted'
  BY <1>1, <1>2 DEF RInv, Counted, CanAccept
<1> QED
  BY <1>1, <1>3, <1>5, <1>6 DEF RInv

LEMMA ReproStep == RInv /\ [ReproNext]_reproVars => RInv'
<1> SUFFICES ASSUME RInv, [ReproNext]_reproVars PROVE RInv'
  OBVIOUS
<1>1. CASE AskOriginal \/ Check
  BY <1>1, AskKeeps
<1>2. CASE Generate
  BY <1>2 DEF Generate, RInv, Failing, Counted, CanAccept, Asked
<1>3. CASE StepLimit
  BY <1>3 DEF StepLimit, RInv, Failing, Counted, CanAccept, Asked
<1>4. CASE Exhausted
  BY <1>4 DEF Exhausted, RInv, Failing, Counted, CanAccept, Asked
<1>5. ASSUME NEW c \in todo, Try(c) PROVE RInv'
  BY <1>5, TryKeeps
<1>6. CASE UNCHANGED reproVars
  BY <1>6 DEF reproVars, RInv, Failing, Counted, CanAccept, Asked
<1> QED
  BY <1>1, <1>2, <1>3, <1>4, <1>5, <1>6 DEF ReproNext, Shrinking, ReproEnded

\* The inductive invariant of the minimisation.
THEOREM ReproInvariant == ReproSpec => []RInv
  BY ReproStarts, ReproStep, PTL DEF ReproSpec

\* What minimize_repro hands out was seen to fail, for any predicate, and only an
\* original that passes is refused.
THEOREM ResultFails == ReproSpec => []StillFails
<1>1. RInv => StillFails
  BY DEF RInv, Failing, StillFails
<1> QED
  BY <1>1, ReproInvariant, PTL

\* The step limit is kept, and reported exactly when it stopped the search.
THEOREM LimitKept == ReproSpec => []WithinLimit
<1>1. RInv => WithinLimit
  BY DEF RInv, Counted, WithinLimit, CanAccept
<1> QED
  BY <1>1, ReproInvariant, PTL

(* One-minimality. *)

Refuted(w) == Asked(w) /\ ~known[w]

\* Of the candidates of the current repro only those still to try are not known to
\* pass; at the end none are left, unless the limit cut the loop short.
Tried ==
    /\ shrink = "try" => \A w \in Candidates(current) \ todo : Refuted(w)
    /\ shrink \in {"check", "done"} /\ ~hitLimit => \A w \in Candidates(current) : Refuted(w)

\* An answer that is known is never changed.
LEMMA RefutedStays ==
  ASSUME RInv, NEW v, NEW r \in BOOLEAN, Evaluate(v, r)
  PROVE  \A w : (Refuted(w) => Refuted(w)') /\ (w = v /\ ~r => Refuted(w)')
  BY EvaluateAdds DEF Refuted, Asked

LEMMA TriedStep == RInv /\ Tried /\ [ReproNext]_reproVars => Tried'
<1> SUFFICES ASSUME RInv, Tried, [ReproNext]_reproVars PROVE Tried'
  OBVIOUS
<1>0. repro' = repro
  BY DEF ReproNext, Shrinking, ReproEnded, reproVars, AskOriginal, Generate, StepLimit,
         Exhausted, Check, Try
<1>1. current' = current => Candidates(current)' = Candidates(current)
  BY <1>0 DEF Candidates
<1> HIDE DEF Candidates
<1>2. CASE AskOriginal
  BY <1>2 DEF AskOriginal, Tried
<1>3. CASE Generate
  <2>1. shrink' = "try" /\ todo' = Candidates(current) /\ current' = current
    BY <1>3 DEF Generate
  <2> QED
    BY <1>1, <2>1 DEF Tried
<1>4. CASE StepLimit
  BY <1>4 DEF StepLimit, Tried
<1>5. CASE Exhausted
  <2>1. /\ UNCHANGED <<current, known, todo, hitLimit>> /\ todo = {}
        /\ shrink = "try" /\ shrink' = "check"
    BY <1>5 DEF Exhausted
  <2> QED
    BY <1>1, <2>1 DEF Tried, Refuted, Asked
<1>6. CASE Check
  <2>1. PICK r \in BOOLEAN : Evaluate(current, r)
    BY <1>6 DEF Check
  <2>2. \A w : Refuted(w) => Refuted(w)'
    BY <2>1, RefutedStays
  <2>3. shrink = "check" /\ shrink' # "try" /\ UNCHANGED <<current, hitLimit>>
    BY <1>6 DEF Check
  <2> QED
    BY <1>1, <2>2, <2>3 DEF Tried
<1>7. ASSUME NEW c \in todo, Try(c) PROVE Tried'
  <2>1. PICK r \in BOOLEAN :
          /\ Evaluate(c, r)
          /\ IF r THEN Accept(c) ELSE todo' = todo \ {c} /\ UNCHANGED <<current, accepted, shrink>>
    BY <1>7 DEF Try
  <2>2. shrink = "try"
    BY <1>7 DEF Try
  <2>3. \A w : (Refuted(w) => Refuted(w)') /\ (w = c /\ ~r => Refuted(w)')
    BY <2>1, RefutedStays
  <2>4. CASE r
    BY <2>1, <2>4 DEF Accept, Tried
  <2>5. CASE ~r
    <3>1. todo' = todo \ {c} /\ current' = current /\ shrink' = shrink
      BY <2>1, <2>5
    <3> QED
      BY <1>1, <2>2, <2>3, <2>5, <3>1 DEF Tried
  <2> QED
    BY <2>4, <2>5
<1>8. CASE UNCHANGED reproVars
  BY <1>1, <1>8 DEF reproVars, Tried, Refuted, Asked
<1> QED
  BY <1>2, <1>3, <1>4, <1>5, <1>6, <1>7, <1>8 DEF ReproNext, Shrinking, ReproEnded

\* Chunks of one element are among those tried.
LEMMA OneIsAChunk ==
  ASSUME NEW v
  PROVE  {Cut(v, d, 1) : d \in 0..(Len(v) - 1)} \ {<< >>} \subseteq Chunked(v)
<1>1. ASSUME NEW d \in 0..(Len(v) - 1) PROVE d \in Starts(v, 1)
  <2>1. d \in Int /\ d % 1 = 0
    OBVIOUS
  <2> QED
    BY <2>1 DEF Starts
<1>2. 1 \in ChunkSizes(Len(v))
  BY DEF ChunkSizes
<1> QED
  BY <1>1, <1>2 DEF Chunked

LEMMA OneLessTried ==
  ASSUME ~(repro.kind = "dict" /\ Len(current) = 1)
  PROVE  OneLess(current) \subseteq Candidates(current)
<1>1. \A i : {Cut(current[i], d, 1) : d \in 0..(Len(current[i]) - 1)} \ {<< >>}
            \subseteq Chunked(current[i])
  BY OneIsAChunk
<1>2. {Cut(current, d, 1) : d \in 0..(Len(current) - 1)} \ {<< >>} \subseteq Chunked(current)
  BY OneIsAChunk
<1> HIDE DEF Cut, Chunked
<1> QED
  BY <1>1, <1>2 DEF OneLess, Candidates

\* A minimised repro is one-minimal, for any predicate: removing chunks of every
\* size and reusing the answers of earlier rounds loses no smaller failing repro
\* (minimize_repro of minimization.py).
THEOREM ResultOneMinimal == ReproSpec => []OneMinimal
<1>1. ReproInit => Tried
  BY DEF ReproInit, Tried
<1>2. Tried => OneMinimal
  BY OneLessTried DEF Tried, OneMinimal, Refuted
<1> QED
  BY <1>1, <1>2, ReproInvariant, TriedStep, PTL DEF ReproSpec

-----------------------------------------------------------------------------
(* The closure of a prompt pack. *)

Frame == [pack : Key, rest : Seq(Key)]
Held(q) == {q[i] : i \in DOMAIN q}

\* What the call of frame i has to visit in all, and what it is visiting.
Wanted(i) == IF i = 1 THEN {root} ELSE Needs(registry, visits[i].pack)
Visiting(i) == IF i < Len(visits) THEN {visits[i + 1].pack} ELSE {}

Typed ==
    /\ registry \in Registries /\ root \in Key
    /\ visits \in Seq(Frame) /\ visits # << >>
    /\ resolved \subseteq Key

\* Nothing is visited that the root does not depend on.
OnlyNeeded ==
    \A S \in SUBSET Key : root \in S /\ ClosedUnder(registry, S) =>
        /\ resolved \subseteq S
        /\ \A i \in DOMAIN visits : visits[i].pack \in S /\ Held(visits[i].rest) \subseteq S

\* Without a finding, what was resolved is published and needs nothing that was
\* not, and no call has skipped anything.
NothingSkipped ==
    problems = {} =>
        /\ resolved \subseteq DOMAIN registry
        /\ ClosedUnder(registry, resolved)
        /\ \A i \in DOMAIN visits : Wanted(i) \subseteq resolved \cup Held(visits[i].rest) \cup Visiting(i)

Chose(k) == k.name \in DOMAIN chosen /\ chosen[k.name] = k.version

\* What was visited is at the version chosen for its name.
VersionsChosen ==
    /\ \A k \in resolved : Chose(k)
    /\ \A i \in DOMAIN visits : i > 1 => Published(visits[i].pack) /\ Chose(visits[i].pack)

Pinned ==
    closure = "locked" =>
        /\ problems = {} /\ root \in resolved
        /\ lockfile = [k \in resolved |-> registry[k].digest]

CInv == Typed /\ OnlyNeeded /\ NothingSkipped /\ VersionsChosen /\ Pinned

LEMMA HeldSteps ==
  ASSUME NEW q \in Seq(Key), q # << >>
  PROVE  Held(q) = {Head(q)} \cup Held(Tail(q))
<1>1. Len(q) \in Nat /\ Len(q) > 0 /\ DOMAIN q = 1..Len(q)
  OBVIOUS
<1>2. Head(q) = q[1] /\ DOMAIN Tail(q) = 1..(Len(q) - 1)
      /\ \A i \in 1..(Len(q) - 1) : Tail(q)[i] = q[i + 1]
  BY <1>1
<1>3. \A i \in 1..Len(q) : i = 1 \/ (i - 1 \in 1..(Len(q) - 1) /\ q[i] = Tail(q)[i - 1])
  BY <1>1, <1>2
<1>4. ASSUME NEW x \in Held(q) PROVE x = Head(q) \/ x \in Held(Tail(q))
  <2>1. PICK i \in 1..Len(q) : x = q[i]
    BY <1>1 DEF Held
  <2> QED
    BY <1>2, <1>3, <2>1 DEF Held
<1>5. Head(q) \in Held(q)
  BY <1>1, <1>2 DEF Held
<1>6. ASSUME NEW x \in Held(Tail(q)) PROVE x \in Held(q)
  <2>1. PICK i \in 1..(Len(q) - 1) : x = q[i + 1]
    BY <1>2 DEF Held
  <2>2. i + 1 \in 1..Len(q)
    BY <1>1
  <2> QED
    BY <1>1, <2>1, <2>2 DEF Held
<1> QED
  BY <1>4, <1>5, <1>6

LEMMA ClosureStarts == ClosureInit => CInv
<1> SUFFICES ASSUME ClosureInit PROVE CInv
  OBVIOUS
<1>1. root \in Key /\ registry \in Registries
      /\ visits = <<[pack |-> root, rest |-> <<root>>]>>
      /\ resolved = {} /\ problems = {} /\ closure = "visit"
  BY DEF ClosureInit
<1>2. visits \in Seq(Frame) /\ DOMAIN visits = {1} /\ Len(visits) = 1
      /\ visits[1].pack = root /\ visits[1].rest = <<root>>
  BY <1>1 DEF Frame
<1>3. Held(<<root>>) = {root}
  BY DEF Held
<1> QED
  BY <1>1, <1>2, <1>3
     DEF CInv, Typed, OnlyNeeded, NothingSkipped, VersionsChosen, Pinned, Wanted, ClosedUnder

LEMMA FramesTyped ==
  ASSUME Typed
  PROVE  /\ Len(visits) \in Nat /\ DOMAIN visits = 1..Len(visits)
         /\ \A i \in 1..Len(visits) : visits[i].pack \in Key /\ visits[i].rest \in Seq(Key)
<1>1. Len(visits) \in Nat /\ DOMAIN visits = 1..Len(visits)
  BY DEF Typed
<1>2. ASSUME NEW i \in 1..Len(visits) PROVE visits[i].pack \in Key /\ visits[i].rest \in Seq(Key)
  <2>1. visits[i] \in Frame
    BY <1>1, <1>2 DEF Typed
  <2> QED
    BY <2>1 DEF Frame
<1> QED
  BY <1>1, <1>2

\* The frames after the innermost call has taken the next pack.
LEMMA Advances ==
  ASSUME Typed, NEW k \in Key, Calls(k)
  PROVE  /\ Advanced \in Seq(Frame) /\ Len(Advanced) = Len(visits)
         /\ DOMAIN Advanced = DOMAIN visits
         /\ \A i \in DOMAIN visits : Advanced[i].pack = visits[i].pack
         /\ \A i \in DOMAIN visits : i # Len(visits) => Advanced[i] = visits[i]
         /\ Len(visits) \in DOMAIN visits
         /\ Held(visits[Len(visits)].rest) = {k} \cup Held(Advanced[Len(visits)].rest)
<1> DEFINE n == Len(visits)
<1>1. n \in Nat /\ n > 0 /\ n \in DOMAIN visits /\ DOMAIN visits = 1..n
  BY DEF Typed
<1>2. visits[n] \in Frame
  BY <1>1 DEF Typed
<1>3. visits[n].rest \in Seq(Key) /\ visits[n].rest # << >> /\ k = Head(visits[n].rest)
  BY <1>2 DEF Frame, Calls, Innermost
<1>4. Advanced = [visits EXCEPT ![n] = [visits[n] EXCEPT !.rest = Tail(visits[n].rest)]]
  BY <1>1, <1>2 DEF Advanced
<1>5. [visits[n] EXCEPT !.rest = Tail(visits[n].rest)] \in Frame
  BY <1>2, <1>3 DEF Frame
<1>6. Advanced \in Seq(Frame) /\ Len(Advanced) = n /\ DOMAIN Advanced = DOMAIN visits
  BY <1>1, <1>4, <1>5 DEF Typed
<1>7. Advanced[n].pack = visits[n].pack /\ Advanced[n].rest = Tail(visits[n].rest)
  BY <1>1, <1>2, <1>4 DEF Frame
<1>8. \A i \in DOMAIN visits : i # n => Advanced[i] = visits[i]
  BY <1>4
<1> QED
  BY <1>1, <1>3, <1>6, <1>7, <1>8, HeldSteps

LEMMA ReturnKeeps ==
  ASSUME CInv, NEW k \in Key, Return(k)
  PROVE  CInv'
<1> DEFINE n == Len(visits)
<1>1. /\ Calls(k) /\ visits' = Advanced /\ problems' = problems \cup Finding(k) /\ closure = "visit"
      /\ UNCHANGED <<registry, root, chosen, resolved, lockfile, closure>>
  BY DEF Return, Calls
<1>2. /\ Advanced \in Seq(Frame) /\ Len(Advanced) = n /\ DOMAIN Advanced = DOMAIN visits
      /\ \A i \in DOMAIN visits : Advanced[i].pack = visits[i].pack
      /\ \A i \in DOMAIN visits : i # n => Advanced[i] = visits[i]
      /\ n \in DOMAIN visits
      /\ Held(visits[n].rest) = {k} \cup Held(Advanced[n].rest)
  BY <1>1, Advances DEF CInv
<1>3. \A i \in DOMAIN visits : Held(Advanced[i].rest) \subseteq Held(visits[i].rest)
  BY <1>2
<1>4. Typed'
  BY <1>1, <1>2 DEF CInv, Typed
<1>5. OnlyNeeded'
  BY <1>1, <1>2, <1>3 DEF CInv, OnlyNeeded, ClosedUnder
<1>6. NothingSkipped'
  <2> SUFFICES ASSUME problems' = {} PROVE NothingSkipped'
    BY DEF NothingSkipped
  <2>1. problems = {} /\ k \in resolved
    BY <1>1 DEF Return, Finding
  <2>2. ASSUME NEW i \in DOMAIN visits
        PROVE  Wanted(i)' \subseteq resolved \cup Held(Advanced[i].rest) \cup Visiting(i)'
    <3>1. Wanted(i)' = Wanted(i) /\ Wanted(i) \subseteq resolved \cup Held(visits[i].rest) \cup Visiting(i)
      BY <1>1, <1>2, <2>1 DEF CInv, NothingSkipped, Wanted
    <3>2. Visiting(i)' = Visiting(i)
      <4>1. i < n => i + 1 \in DOMAIN visits
        BY DEF CInv, Typed
      <4> QED
        BY <1>1, <1>2, <4>1 DEF Visiting
    <3>3. Held(visits[i].rest) \subseteq resolved \cup Held(Advanced[i].rest)
      BY <1>2, <2>1
    <3> QED
      BY <3>1, <3>2, <3>3
  <2> QED
    BY <1>1, <1>2, <2>1, <2>2 DEF CInv, NothingSkipped, ClosedUnder
<1>7. VersionsChosen'
  BY <1>1, <1>2 DEF CInv, VersionsChosen, Chose, Published
<1> QED
  BY <1>1, <1>4, <1>5, <1>6, <1>7 DEF CInv, Pinned

LEMMA DescendKeeps ==
  ASSUME CInv, NEW k \in Key, DescendInto(k)
  PROVE  CInv'
<1> DEFINE n == Len(visits)
           new == [pack |-> k, rest |-> registry[k].needs]
<1>1. /\ Calls(k) /\ visits' = Append(Advanced, new) /\ closure = "visit"
      /\ Published(k) /\ ~Conflicting(k)
      /\ chosen' = [x \in DOMAIN chosen \cup {k.name} |-> IF x = k.name THEN k.version ELSE chosen[x]]
      /\ UNCHANGED <<registry, root, resolved, problems, lockfile, closure>>
  BY DEF DescendInto, Calls
<1>2. /\ Advanced \in Seq(Frame) /\ Len(Advanced) = n /\ DOMAIN Advanced = DOMAIN visits
      /\ \A i \in DOMAIN visits : Advanced[i].pack = visits[i].pack
      /\ \A i \in DOMAIN visits : i # n => Advanced[i] = visits[i]
      /\ n \in DOMAIN visits
      /\ Held(visits[n].rest) = {k} \cup Held(Advanced[n].rest)
  BY <1>1, Advances DEF CInv
<1>3. \A i \in DOMAIN visits : Held(Advanced[i].rest) \subseteq Held(visits[i].rest)
  BY <1>2
<1>4. registry \in Registries /\ k \in DOMAIN registry /\ registry[k].needs \in Seq(Key)
  BY <1>1, RegistryAssumption DEF CInv, Typed, Published
<1>5. new \in Frame /\ Held(new.rest) = Needs(registry, k) /\ Held(new.rest) \subseteq Key
  BY <1>4 DEF Frame, Held, Needs
<1>6. n \in Nat /\ n > 0 /\ DOMAIN visits = 1..n
  BY DEF CInv, Typed
<1>7. /\ visits' \in Seq(Frame) /\ Len(visits') = n + 1 /\ DOMAIN visits' = 1..(n + 1)
      /\ visits'[n + 1] = new /\ \A i \in 1..n : visits'[i] = Advanced[i]
  <2> HIDE DEF new
  <2> QED
    BY <1>1, <1>2, <1>5, <1>6
<1>8. Typed'
  BY <1>1, <1>7 DEF CInv, Typed
<1>9. OnlyNeeded'
  <2> SUFFICES ASSUME NEW S \in SUBSET Key, root \in S, ClosedUnder(registry, S)
               PROVE  /\ resolved \subseteq S
                      /\ \A i \in 1..(n + 1) : visits'[i].pack \in S /\ Held(visits'[i].rest) \subseteq S
    BY <1>1, <1>7 DEF OnlyNeeded, ClosedUnder
  <2>1. resolved \subseteq S /\ \A i \in 1..n : visits[i].pack \in S /\ Held(visits[i].rest) \subseteq S
    BY <1>6 DEF CInv, OnlyNeeded
  <2>2. k \in S
    BY <1>2, <1>6, <2>1
  <2>3. Held(new.rest) \subseteq S
    BY <1>5, <2>2 DEF ClosedUnder
  <2> QED
    BY <1>2, <1>3, <1>6, <1>7, <2>1, <2>2, <2>3
<1>10. NothingSkipped'
  <2> SUFFICES ASSUME problems = {}
               PROVE  \A i \in 1..(n + 1) :
                        Wanted(i)' \subseteq resolved \cup Held(visits'[i].rest) \cup Visiting(i)'
    BY <1>1, <1>7 DEF CInv, NothingSkipped, ClosedUnder
  <2>1. ASSUME NEW i \in 1..n
        PROVE  Wanted(i)' \subseteq resolved \cup Held(visits'[i].rest) \cup Visiting(i)'
    <3>1. Wanted(i)' = Wanted(i) /\ Wanted(i) \subseteq resolved \cup Held(visits[i].rest) \cup Visiting(i)
      BY <1>1, <1>2, <1>6, <1>7 DEF CInv, NothingSkipped, Wanted
    <3>2. CASE i = n
      <4>1. Visiting(i)' = {k} /\ Visiting(i) = {}
        BY <1>6, <1>7, <3>2 DEF Visiting
      <4> QED
        BY <1>2, <1>6, <1>7, <3>1, <3>2, <4>1
    <3>3. CASE i # n
      <4>1. Visiting(i)' = Visiting(i)
        <5>1. i < n /\ i + 1 \in 1..n
          <6> HIDE DEF n
          <6> QED
            BY <1>6, <3>3
        <5> QED
          BY <1>2, <1>6, <1>7, <5>1 DEF Visiting
      <4> QED
        BY <1>2, <1>6, <1>7, <3>1, <3>3, <4>1
    <3> QED
      BY <3>2, <3>3
  <2>2. ASSUME NEW i \in 1..(n + 1), i = n + 1
        PROVE  Wanted(i)' = Held(visits'[i].rest)
    <3>1. i # 1 /\ visits'[i].pack = k /\ visits'[i].rest = new.rest /\ registry' = registry
      BY <1>1, <1>6, <1>7, <2>2
    <3> HIDE DEF new
    <3>2. Wanted(i)' = Needs(registry', visits'[i].pack)
      BY <3>1 DEF Wanted
    <3> QED
      BY <1>5, <3>1, <3>2
  <2>3. \A i \in 1..(n + 1) : i \in 1..n \/ i = n + 1
    <3> HIDE DEF n
    <3> QED
      BY <1>6
  <2> SUFFICES ASSUME NEW i \in 1..(n + 1)
               PROVE  Wanted(i)' \subseteq resolved \cup Held(visits'[i].rest) \cup Visiting(i)'
    OBVIOUS
  <2>4. CASE i \in 1..n
    BY <2>1, <2>4
  <2>5. CASE i = n + 1
    BY <2>2, <2>5
  <2> QED
    BY <2>3, <2>4, <2>5
<1>11. VersionsChosen'
  <2>1. \A j \in Key : Chose(j) => Chose(j)'
    BY <1>1 DEF Chose, Conflicting, Key
  <2>2. Chose(k)'
    BY <1>1 DEF Chose
  <2>3. \A i \in 1..n : i > 1 => /\ Published(visits[i].pack) /\ Chose(visits[i].pack)
                                  /\ visits[i].pack \in Key
    BY <1>6, FramesTyped DEF CInv, VersionsChosen
  <2>4. \A i \in 1..n : visits'[i].pack = visits[i].pack
    BY <1>2, <1>6, <1>7
  <2>5. visits'[n + 1].pack = k
    BY <1>7
  <2>6. \A j \in resolved : Chose(j)'
    BY <2>1 DEF CInv, Typed, VersionsChosen
  <2>7. \A j : Published(j)' <=> Published(j)
    BY <1>1 DEF Published
  <2>8. Published(k)
    BY <1>1
  <2>9. DOMAIN visits' = 1..(n + 1) /\ resolved' = resolved
    BY <1>1, <1>7
  <2> HIDE DEF n
  <2>10. \A i \in 1..(n + 1) : i \in 1..n \/ i = n + 1
    BY <1>6
  <2> QED
    BY <2>1, <2>2, <2>3, <2>4, <2>5, <2>6, <2>7, <2>8, <2>9, <2>10 DEF VersionsChosen
<1> QED
  BY <1>1, <1>8, <1>9, <1>10, <1>11 DEF CInv, Pinned

LEMMA ResolveKeeps ==
  ASSUME CInv, Resolve
  PROVE  CInv'
<1> DEFINE n == Len(visits)
<1>1. /\ n > 1 /\ visits[n].rest = << >> /\ closure = "visit"
      /\ resolved' = resolved \cup {visits[n].pack} /\ visits' = SubSeq(visits, 1, n - 1)
      /\ UNCHANGED <<registry, root, chosen, problems, lockfile, closure>>
  BY DEF Resolve, Innermost
<1>2. n \in Nat /\ DOMAIN visits = 1..n /\ n \in DOMAIN visits /\ visits[n].pack \in Key
  BY <1>1, FramesTyped DEF CInv
<1>3. /\ visits' \in Seq(Frame) /\ Len(visits') = n - 1 /\ DOMAIN visits' = 1..(n - 1)
      /\ \A i \in 1..(n - 1) : visits'[i] = visits[i]
  BY <1>1, <1>2 DEF CInv, Typed
<1>4. Typed'
  <2>1. visits' # << >>
    <3>1. Len(visits') # 0
      BY <1>1, <1>2, <1>3
    <3>2. Len(<< >>) = 0
      OBVIOUS
    <3> QED
      BY <3>1, <3>2
  <2>2. resolved' \subseteq Key
    BY <1>1, <1>2 DEF CInv, Typed
  <2> QED
    BY <1>1, <1>3, <2>1, <2>2 DEF CInv, Typed
<1>5. OnlyNeeded'
  BY <1>1, <1>2, <1>3 DEF CInv, OnlyNeeded, ClosedUnder
<1>6. NothingSkipped'
  <2> SUFFICES ASSUME problems = {} PROVE NothingSkipped'
    BY <1>1 DEF NothingSkipped
  <2>1. Needs(registry, visits[n].pack) \subseteq resolved
    <3>1. Held(visits[n].rest) = {} /\ Visiting(n) = {} /\ Wanted(n) = Needs(registry, visits[n].pack)
      BY <1>1, <1>2 DEF Held, Visiting, Wanted
    <3> QED
      BY <1>2, <3>1 DEF CInv, NothingSkipped
  <2>2. resolved' \subseteq DOMAIN registry
    BY <1>1, <1>2 DEF CInv, NothingSkipped, VersionsChosen, Published
  <2>3. ClosedUnder(registry, resolved')
    BY <1>1, <2>1 DEF CInv, NothingSkipped, ClosedUnder
  <2>4. ASSUME NEW i \in 1..(n - 1)
        PROVE  Wanted(i)' \subseteq resolved' \cup Held(visits'[i].rest) \cup Visiting(i)'
    <3>1. i \in DOMAIN visits /\ i < n
      BY <1>2
    <3>2. Wanted(i) \subseteq resolved \cup Held(visits[i].rest) \cup Visiting(i)
      BY <3>1 DEF CInv, NothingSkipped
    <3>3. Wanted(i)' = Wanted(i)
      BY <1>1, <1>3 DEF Wanted
    <3>4. Visiting(i) \subseteq Visiting(i)' \cup {visits[n].pack}
      BY <1>2, <1>3, <3>1 DEF Visiting
    <3> QED
      BY <1>1, <1>3, <3>2, <3>3, <3>4
  <2> QED
    BY <1>1, <1>3, <2>2, <2>3, <2>4 DEF NothingSkipped, ClosedUnder
<1>7. VersionsChosen'
  BY <1>1, <1>2, <1>3 DEF CInv, VersionsChosen, Chose, Published
<1> QED
  BY <1>1, <1>4, <1>5, <1>6, <1>7 DEF CInv, Pinned

LEMMA LockKeeps ==
  ASSUME CInv, Lock
  PROVE  CInv'
<1>1. /\ UNCHANGED <<registry, root, visits, chosen, resolved, problems>>
      /\ Len(visits) = 1 /\ Innermost.rest = << >>
      /\ IF problems = {}
         THEN closure' = "locked" /\ lockfile' = [k \in resolved |-> registry[k].digest]
         ELSE closure' = "raised"
  BY DEF Lock
<1>2. problems = {} => root \in resolved
  <2>1. Len(visits) \in DOMAIN visits /\ visits[1].rest = << >>
    BY <1>1 DEF CInv, Typed, Innermost
  <2>2. Held(visits[1].rest) = {} /\ Visiting(1) = {} /\ Wanted(1) = {root}
    BY <1>1, <2>1 DEF Held, Visiting, Wanted
  <2> QED
    BY <1>1, <2>1, <2>2 DEF CInv, NothingSkipped
<1>3. Typed' /\ OnlyNeeded' /\ VersionsChosen'
  BY <1>1 DEF CInv, Typed, OnlyNeeded, VersionsChosen, ClosedUnder, Chose, Published
<1>4. NothingSkipped'
  BY <1>1 DEF CInv, NothingSkipped, ClosedUnder, Wanted, Visiting
<1>5. Pinned'
  BY <1>1, <1>2 DEF Pinned
<1> QED
  BY <1>3, <1>4, <1>5 DEF CInv

LEMMA ClosureStep == CInv /\ [ClosureNext]_closureVars => CInv'
<1> SUFFICES ASSUME CInv, [ClosureNext]_closureVars PROVE CInv'
  OBVIOUS
<1>1. CASE UNCHANGED closureVars
  <2>1. /\ UNCHANGED <<registry, root, visits, chosen, resolved, problems, lockfile, closure>>
    BY <1>1 DEF closureVars
  <2>2. Typed' /\ OnlyNeeded' /\ VersionsChosen'
    BY <2>1 DEF CInv, Typed, OnlyNeeded, VersionsChosen, ClosedUnder, Chose, Published
  <2>3. NothingSkipped'
    BY <2>1 DEF CInv, NothingSkipped, ClosedUnder, Wanted, Visiting
  <2> QED
    BY <2>1, <2>2, <2>3 DEF CInv, Pinned
<1> QED
  BY <1>1, ReturnKeeps, DescendKeeps, ResolveKeeps, LockKeeps
     DEF ClosureNext, Resolving, ClosureEnded

\* The inductive invariant of the resolution.
THEOREM ClosureInvariant == ClosureSpec => []CInv
  BY ClosureStarts, ClosureStep, PTL DEF ClosureSpec

\* Without a finding, what was resolved is the closure of the root.
LEMMA LockedIsClosure ==
  ASSUME CInv, closure = "locked"
  PROVE  DOMAIN lockfile = ClosureOf(registry, {root}) /\ OneVersionEach(DOMAIN lockfile)
<1>1. /\ DOMAIN lockfile = resolved /\ root \in resolved /\ resolved \subseteq Key
      /\ ClosedUnder(registry, resolved)
  BY DEF CInv, Typed, NothingSkipped, Pinned
<1>2. resolved \subseteq ClosureOf(registry, {root})
  BY <1>1 DEF CInv, OnlyNeeded, ClosureOf
<1>3. ClosureOf(registry, {root}) \subseteq resolved
  BY <1>1 DEF ClosureOf
<1>4. OneVersionEach(resolved)
  <2> SUFFICES ASSUME NEW j \in resolved, NEW k \in resolved, j.name = k.name PROVE j = k
    BY DEF OneVersionEach
  <2>1. j.version = k.version
    BY DEF CInv, VersionsChosen, Chose
  <2> QED
    BY <1>1, <2>1 DEF Key
<1> QED
  BY <1>1, <1>2, <1>3, <1>4

\* A lockfile of resolve_transitive_closure pins the transitive closure of its
\* root, for any registry.
THEOREM LockfilePinsClosure == ClosureSpec => []PinsClosure
<1>1. CInv => PinsClosure
  BY LockedIsClosure DEF PinsClosure
<1> QED
  BY <1>1, ClosureInvariant, PTL

\* A lockfile verifies against its own registry, and what verifies against a
\* later one is the closure there (verify_transitive_lockfile).
THEOREM VerifiedPinsClosure == ClosureSpec => []VerifiedIsClosure
<1>1. ASSUME CInv, closure = "locked" PROVE Verified(lockfile, registry)
  BY <1>1 DEF CInv, NothingSkipped, Pinned, Verified, ClosedUnder
<1>2. ASSUME CInv, closure = "locked", NEW R \in Later, Verified(lockfile, R),
             NEW k \in ClosureOf(R, {root})
      PROVE  k \in DOMAIN lockfile /\ R[k].digest = lockfile[k]
  <2>1. root \in DOMAIN lockfile /\ DOMAIN lockfile \in SUBSET Key
    BY <1>2 DEF CInv, Typed, Pinned
  <2>2. ClosedUnder(R, DOMAIN lockfile)
    BY <1>2 DEF Verified, ClosedUnder
  <2>3. k \in DOMAIN lockfile
    BY <1>2, <2>1, <2>2 DEF ClosureOf
  <2> QED
    BY <1>2, <2>3 DEF Verified
<1>3. CInv => VerifiedIsClosure
  BY <1>1, <1>2 DEF VerifiedIsClosure
<1> QED
  BY <1>3, ClosureInvariant, PTL

-----------------------------------------------------------------------------
(***************************************************************************)
(* Resolution is refused for cause: each finding names a defect of the     *)
(* closure itself, and no defect goes unfound.                             *)
(***************************************************************************)

\* The calls that visit a pack, unlike the outer one.
Stacked == DOMAIN visits \ {1}

\* A pack is visited once: it is on the stack in one place, and not resolved.
VisitedOnce ==
    /\ onStack = {visits[i].pack : i \in Stacked}
    /\ \A i \in Stacked : visits[i].pack \notin resolved
    /\ \A i, j \in Stacked : visits[i].pack = visits[j].pack => i = j

\* What the inner calls visit, a pack on the stack depends on.
NeededOutside ==
    \A i \in Stacked : \A S \in SUBSET Key :
        Needs(registry, visits[i].pack) \subseteq S /\ ClosedUnder(registry, S) =>
            \A j \in Stacked : /\ i < j => visits[j].pack \in S
                               /\ i <= j => Held(visits[j].rest) \subseteq S

\* Versions are chosen for packs of the closure.
ChosenNeeded ==
    \A m \in DOMAIN chosen :
        \E k \in ClosureOf(registry, {root}) : k.name = m /\ k.version = chosen[m]

\* The closure of the root has none of the three defects.
Acceptable ==
    /\ ClosureOf(registry, {root}) \subseteq DOMAIN registry
    /\ OneVersionEach(ClosureOf(registry, {root}))
    /\ Acyclic(registry, ClosureOf(registry, {root}))

FoundForCause == problems # {} => ~Acceptable

\* Without a finding, nothing that was resolved depends on itself.
AcyclicSoFar ==
    problems = {} => \A k \in resolved : k \notin ClosureOf(registry, Needs(registry, k))

Ending == closure \in {"visit", "locked", "raised"} /\ (closure = "raised" => problems # {})

DInv == VisitedOnce /\ NeededOutside /\ ChosenNeeded /\ FoundForCause /\ AcyclicSoFar /\ Ending

\* What the calls hold belongs to the closure of the root.
LEMMA HeldInClosure ==
  ASSUME CInv, NEW i \in DOMAIN visits
  PROVE  /\ visits[i].pack \in ClosureOf(registry, {root})
         /\ Held(visits[i].rest) \subseteq ClosureOf(registry, {root})
<1>1. i \in 1..Len(visits) /\ visits[i].pack \in Key /\ visits[i].rest \in Seq(Key)
  BY FramesTyped DEF CInv
<1>2. Held(visits[i].rest) \subseteq Key
  BY <1>1 DEF Held
<1>3. \A S \in SUBSET Key : {root} \subseteq S /\ ClosedUnder(registry, S) =>
        visits[i].pack \in S /\ Held(visits[i].rest) \subseteq S
  BY DEF CInv, OnlyNeeded
<1> QED
  BY <1>1, <1>2, <1>3 DEF ClosureOf

\* A pack two calls are about at once depends on itself.
LEMMA StackedAgain ==
  ASSUME CInv, DInv, NEW k \in Key, Calls(k), k \in onStack
  PROVE  k \in ClosureOf(registry, Needs(registry, k))
<1>1. PICK i \in Stacked : visits[i].pack = k
  BY DEF DInv, VisitedOnce
<1>2. Len(visits) \in Nat /\ DOMAIN visits = 1..Len(visits)
  BY FramesTyped DEF CInv
<1>3. Len(visits) \in Stacked /\ i <= Len(visits)
  BY <1>1, <1>2 DEF Stacked
<1>4. k \in Held(visits[Len(visits)].rest)
  BY Advances DEF CInv
<1>5. \A S \in SUBSET Key : Needs(registry, k) \subseteq S /\ ClosedUnder(registry, S) => k \in S
  BY <1>1, <1>3, <1>4 DEF DInv, NeededOutside
<1> QED
  BY <1>5 DEF ClosureOf

\* A finding names a defect of the closure.
LEMMA FindingIsDefect ==
  ASSUME CInv, DInv, NEW k \in Key, Calls(k), Finding(k) # {}
  PROVE  ~Acceptable
<1> DEFINE K == ClosureOf(registry, {root})
<1>1. k \in K
  <2>1. Len(visits) \in DOMAIN visits /\ k \in Held(visits[Len(visits)].rest)
    BY Advances DEF CInv
  <2> QED
    BY <2>1, HeldInClosure
<1>2. CASE Conflicting(k)
  <2>1. PICK j \in K : j.name = k.name /\ j.version = chosen[k.name]
    BY <1>2 DEF Conflicting, DInv, ChosenNeeded
  <2>2. j # k /\ j.name = k.name
    BY <1>2, <2>1 DEF Conflicting
  <2> HIDE DEF K
  <2>3. ~OneVersionEach(K)
    BY <1>1, <2>1, <2>2 DEF OneVersionEach
  <2> QED
    BY <2>3 DEF K, Acceptable
<1>3. CASE ~Conflicting(k) /\ k \in onStack
  <2>1. k \in ClosureOf(registry, Needs(registry, k))
    BY <1>3, StackedAgain
  <2> HIDE DEF K
  <2>2. ~Acyclic(registry, K)
    BY <1>1, <2>1 DEF Acyclic
  <2> QED
    BY <2>2 DEF K, Acceptable
<1>4. CASE ~Conflicting(k) /\ k \notin onStack
  <2>1. k \notin DOMAIN registry
    BY <1>4 DEF Finding, Published
  <2> QED
    BY <1>1, <2>1 DEF Acceptable
<1> QED
  BY <1>2, <1>3, <1>4

LEMMA ReturnForCause ==
  ASSUME CInv, DInv, NEW k \in Key, Return(k)
  PROVE  DInv'
<1>1. /\ Calls(k) /\ visits' = Advanced /\ problems' = problems \cup Finding(k)
      /\ UNCHANGED <<registry, root, onStack, chosen, resolved, closure>>
      /\ closure = "visit"
  BY DEF Return, Calls
<1>2. /\ DOMAIN visits' = DOMAIN visits
      /\ \A i \in DOMAIN visits : visits'[i].pack = visits[i].pack
      /\ \A i \in DOMAIN visits : Held(visits'[i].rest) \subseteq Held(visits[i].rest)
  BY <1>1, Advances DEF CInv
<1>3. VisitedOnce'
  BY <1>1, <1>2 DEF DInv, VisitedOnce, Stacked
<1>4. NeededOutside'
  BY <1>1, <1>2 DEF DInv, NeededOutside, Stacked, ClosedUnder
<1>5. ChosenNeeded'
  BY <1>1 DEF DInv, ChosenNeeded
<1>6. FoundForCause'
  <2>1. Acceptable' <=> Acceptable
    BY <1>1 DEF Acceptable
  <2>2. problems # {} => ~Acceptable
    BY DEF DInv, FoundForCause
  <2>3. Finding(k) # {} => ~Acceptable
    BY <1>1, FindingIsDefect
  <2>4. problems' # {} => problems # {} \/ Finding(k) # {}
    BY <1>1
  <2> QED
    BY <2>1, <2>2, <2>3, <2>4 DEF FoundForCause
<1>7. AcyclicSoFar' /\ Ending'
  BY <1>1 DEF DInv, AcyclicSoFar, Ending
<1> QED
  BY <1>3, <1>4, <1>5, <1>6, <1>7 DEF DInv

LEMMA DescendForCause ==
  ASSUME CInv, DInv, NEW k \in Key, DescendInto(k)
  PROVE  DInv'
<1> DEFINE new == [pack |-> k, rest |-> registry[k].needs]
<1>0. PICK n \in Nat : n = Len(visits)
  BY FramesTyped DEF CInv
<1>1. /\ Calls(k) /\ visits' = Append(Advanced, new) /\ closure = "visit"
      /\ k \notin resolved \cup onStack /\ Published(k)
      /\ chosen' = [x \in DOMAIN chosen \cup {k.name} |-> IF x = k.name THEN k.version ELSE chosen[x]]
      /\ onStack' = onStack \cup {k}
      /\ UNCHANGED <<registry, root, resolved, problems, closure>>
  BY DEF DescendInto, Calls
<1>2. /\ Advanced \in Seq(Frame) /\ Len(Advanced) = n /\ DOMAIN visits = 1..n
      /\ \A i \in 1..n : Advanced[i].pack = visits[i].pack
      /\ \A i \in 1..n : i # n => Advanced[i] = visits[i]
      /\ n \in 1..n
      /\ Held(visits[n].rest) = {k} \cup Held(Advanced[n].rest)
  BY <1>0, <1>1, Advances, FramesTyped DEF CInv
<1>3. registry \in Registries /\ registry[k].needs \in Seq(Key)
  BY <1>1, RegistryAssumption DEF CInv, Typed, Published
<1>4. new \in Frame /\ new.pack = k /\ Held(new.rest) = Needs(registry, k)
  BY <1>1, <1>3 DEF Frame, Held, Needs, Published
<1> HIDE DEF new
<1>5. /\ DOMAIN visits' = 1..(n + 1) /\ visits'[n + 1] = new
      /\ \A i \in 1..n : visits'[i] = Advanced[i]
  BY <1>1, <1>2, <1>4
<1>6. /\ \A i \in 1..n : visits'[i].pack = visits[i].pack
      /\ \A i \in 1..n : Held(visits'[i].rest) \subseteq Held(visits[i].rest)
      /\ visits'[n + 1].pack = k /\ Held(visits'[n + 1].rest) = Needs(registry, k)
  BY <1>2, <1>4, <1>5
<1>7. Stacked' = Stacked \cup {n + 1} /\ Stacked \subseteq 1..n /\ n + 1 \notin Stacked
  BY <1>2, <1>5 DEF Stacked
<1>8. VisitedOnce'
  <2>1. onStack = {visits[i].pack : i \in Stacked}
    BY DEF DInv, VisitedOnce
  <2>2. \A i \in Stacked : visits'[i].pack = visits[i].pack /\ visits[i].pack # k
    BY <1>1, <1>6, <1>7, <2>1
  <2>3. onStack' = {visits'[i].pack : i \in Stacked'}
    <3>1. {visits'[i].pack : i \in Stacked'} = {visits'[i].pack : i \in Stacked} \cup {k}
      BY <1>6, <1>7
    <3>2. {visits'[i].pack : i \in Stacked} = {visits[i].pack : i \in Stacked}
      BY <2>2
    <3> QED
      BY <1>1, <2>1, <3>1, <3>2
  <2>4. \A i \in Stacked' : visits'[i].pack \notin resolved'
    BY <1>1, <1>6, <1>7, <2>2 DEF DInv, VisitedOnce
  <2>5. \A i, j \in Stacked' : visits'[i].pack = visits'[j].pack => i = j
    <3>1. \A i, j \in Stacked : visits[i].pack = visits[j].pack => i = j
      BY DEF DInv, VisitedOnce
    <3>2. \A i \in Stacked : visits'[i].pack = visits[i].pack /\ visits'[i].pack # visits'[n + 1].pack
      BY <1>6, <2>2
    <3> HIDE DEF DInv
    <3> QED
      BY <1>7, <3>1, <3>2
  <2> QED
    BY <2>3, <2>4, <2>5 DEF VisitedOnce
<1>9. NeededOutside'
  <2> SUFFICES ASSUME NEW i \in Stacked', NEW S \in SUBSET Key,
                      Needs(registry, visits'[i].pack) \subseteq S, ClosedUnder(registry, S),
                      NEW j \in Stacked'
               PROVE  /\ i < j => visits'[j].pack \in S
                      /\ i <= j => Held(visits'[j].rest) \subseteq S
    BY <1>1 DEF NeededOutside, ClosedUnder
  <2>1. CASE i = n + 1
    <3>1. Needs(registry, k) \subseteq S
      BY <1>6, <2>1
    <3>2. ~(i < j) /\ (i <= j => j = n + 1)
      BY <1>7, <2>1
    <3> QED
      BY <1>6, <3>1, <3>2
  <2>2. CASE i \in Stacked /\ j \in Stacked
    <3>1. /\ i < j => visits[j].pack \in S
          /\ i <= j => Held(visits[j].rest) \subseteq S
      BY <1>6, <1>7, <2>2 DEF DInv, NeededOutside
    <3> QED
      BY <1>6, <1>7, <2>2, <3>1
  <2>3. CASE i \in Stacked /\ j = n + 1
    <3>1. n \in Stacked /\ i <= n
      BY <1>2, <1>7, <2>3 DEF Stacked
    <3>2. Held(visits[n].rest) \subseteq S
      BY <1>6, <1>7, <2>3, <3>1 DEF DInv, NeededOutside
    <3>3. k \in S
      BY <1>2, <3>2
    <3>4. Needs(registry, k) \subseteq S
      BY <3>3 DEF ClosedUnder
    <3> QED
      BY <1>6, <2>3, <3>3, <3>4
  <2> QED
    BY <1>7, <2>1, <2>2, <2>3
<1>10. ChosenNeeded'
  <2>1. k \in ClosureOf(registry, {root})
    BY <1>2, HeldInClosure
  <2>2. ASSUME NEW m \in DOMAIN chosen'
        PROVE  \E p \in ClosureOf(registry, {root}) : p.name = m /\ p.version = chosen'[m]
    <3>1. CASE m = k.name
      BY <1>1, <2>1, <3>1
    <3>2. CASE m # k.name
      <4>1. m \in DOMAIN chosen /\ chosen'[m] = chosen[m]
        BY <1>1, <3>2
      <4> QED
        BY <4>1 DEF DInv, ChosenNeeded
    <3> QED
      BY <3>1, <3>2
  <2> QED
    BY <1>1, <2>2 DEF ChosenNeeded
<1>11. FoundForCause' /\ AcyclicSoFar' /\ Ending'
  BY <1>1 DEF DInv, FoundForCause, Acceptable, AcyclicSoFar, Ending
<1> QED
  BY <1>8, <1>9, <1>10, <1>11 DEF DInv

LEMMA ResolveForCause ==
  ASSUME CInv, DInv, Resolve
  PROVE  DInv'
<1>0. PICK n \in Nat : n = Len(visits)
  BY FramesTyped DEF CInv
<1>1. /\ n > 1 /\ visits[n].rest = << >> /\ closure = "visit"
      /\ resolved' = resolved \cup {visits[n].pack} /\ visits' = SubSeq(visits, 1, n - 1)
      /\ onStack' = onStack \ {visits[n].pack}
      /\ UNCHANGED <<registry, root, chosen, problems, closure>>
  BY <1>0 DEF Resolve, Innermost
<1>2. DOMAIN visits = 1..n /\ n \in DOMAIN visits /\ visits[n].pack \in Key
  BY <1>0, <1>1, FramesTyped DEF CInv
<1>3. DOMAIN visits' = 1..(n - 1) /\ \A i \in 1..(n - 1) : visits'[i] = visits[i]
  BY <1>0, <1>1, <1>2 DEF CInv, Typed
<1>4. Stacked = Stacked' \cup {n} /\ n \notin Stacked' /\ \A i \in Stacked' : visits'[i] = visits[i]
  BY <1>1, <1>2, <1>3 DEF Stacked
<1>5. VisitedOnce'
  <2>1. onStack = {visits[i].pack : i \in Stacked}
    BY DEF DInv, VisitedOnce
  <2>2. \A i \in Stacked' : visits[i].pack # visits[n].pack
    BY <1>4 DEF DInv, VisitedOnce
  <2>3. onStack' = {visits'[i].pack : i \in Stacked'}
    <3>1. onStack' = {visits[i].pack : i \in Stacked'}
      BY <1>1, <1>4, <2>1, <2>2
    <3>2. {visits[i].pack : i \in Stacked'} = {visits'[i].pack : i \in Stacked'}
      BY <1>4
    <3> QED
      BY <3>1, <3>2
  <2>4. \A i \in Stacked' : visits'[i].pack \notin resolved'
    <3>1. \A i \in Stacked : visits[i].pack \notin resolved
      BY DEF DInv, VisitedOnce
    <3>2. \A i \in Stacked' : visits[i].pack \notin resolved' /\ visits'[i] = visits[i]
      BY <1>1, <1>4, <2>2, <3>1
    <3> QED
      BY <3>2
  <2>5. \A i, j \in Stacked' : visits'[i].pack = visits'[j].pack => i = j
    <3>1. \A i, j \in Stacked : visits[i].pack = visits[j].pack => i = j
      BY DEF DInv, VisitedOnce
    <3> QED
      BY <1>4, <3>1
  <2> QED
    BY <2>3, <2>4, <2>5 DEF VisitedOnce
<1>6. NeededOutside'
  <2> SUFFICES ASSUME NEW i \in Stacked', NEW S \in SUBSET Key,
                      Needs(registry, visits'[i].pack) \subseteq S, ClosedUnder(registry, S),
                      NEW j \in Stacked'
               PROVE  /\ i < j => visits'[j].pack \in S
                      /\ i <= j => Held(visits'[j].rest) \subseteq S
    BY <1>1 DEF NeededOutside, ClosedUnder
  <2> QED
    BY <1>4 DEF DInv, NeededOutside
<1>7. AcyclicSoFar'
  <2> SUFFICES ASSUME problems = {}, NEW k \in resolved'
               PROVE  k \notin ClosureOf(registry, Needs(registry, k))
    BY <1>1 DEF AcyclicSoFar
  <2>1. CASE k \in resolved
    BY <2>1 DEF DInv, AcyclicSoFar
  <2>2. CASE k = visits[n].pack
    <3>1. Held(visits[n].rest) = {} /\ Visiting(n) = {} /\ Wanted(n) = Needs(registry, k)
      BY <1>0, <1>1, <1>2, <2>2 DEF Held, Visiting, Wanted
    <3>2. Needs(registry, k) \subseteq resolved
      BY <1>2, <3>1 DEF CInv, NothingSkipped
    <3>3. ClosedUnder(registry, resolved) /\ resolved \in SUBSET Key
      BY DEF CInv, NothingSkipped, Typed
    <3>4. k \notin resolved
      BY <1>4, <2>2 DEF DInv, VisitedOnce
    <3> QED
      BY <3>2, <3>3, <3>4 DEF ClosureOf
  <2> QED
    BY <1>1, <2>1, <2>2
<1>8. ChosenNeeded' /\ FoundForCause' /\ Ending'
  BY <1>1 DEF DInv, ChosenNeeded, FoundForCause, Acceptable, Ending
<1> QED
  BY <1>5, <1>6, <1>7, <1>8 DEF DInv

LEMMA StillForCause ==
  ASSUME DInv, Lock \/ UNCHANGED closureVars
  PROVE  DInv'
<1>1. UNCHANGED <<registry, root, visits, onStack, chosen, resolved, problems>>
  BY DEF Lock, closureVars
<1>2. Ending'
  BY DEF DInv, Ending, Lock, closureVars
<1>3. VisitedOnce' /\ NeededOutside'
  BY <1>1 DEF DInv, VisitedOnce, NeededOutside, Stacked, ClosedUnder
<1>4. ChosenNeeded' /\ FoundForCause' /\ AcyclicSoFar'
  BY <1>1 DEF DInv, ChosenNeeded, FoundForCause, Acceptable, AcyclicSoFar
<1> QED
  BY <1>2, <1>3, <1>4 DEF DInv

LEMMA DefectsStart == ClosureInit => DInv
<1> SUFFICES ASSUME ClosureInit PROVE DInv
  OBVIOUS
<1>1. DOMAIN visits = {1} /\ onStack = {} /\ DOMAIN chosen = {} /\ resolved = {}
      /\ problems = {} /\ closure = "visit"
  BY DEF ClosureInit
<1>2. Stacked = {}
  BY <1>1 DEF Stacked
<1> QED
  BY <1>1, <1>2 DEF DInv, VisitedOnce, NeededOutside, ChosenNeeded, FoundForCause,
                    AcyclicSoFar, Ending

\* A prompt pack is refused exactly when its closure lacks a pack, has two
\* versions of one or a cycle, in any registry and whatever is found first
\* (resolve_transitive_closure).
THEOREM RefusedOnlyForCause == ClosureSpec => []RefusedForCause
<1>1. CInv /\ DInv /\ [ClosureNext]_closureVars => DInv'
  BY ReturnForCause, DescendForCause, ResolveForCause, StillForCause
     DEF ClosureNext, Resolving, ClosureEnded
<1>2. ASSUME CInv, DInv, closure = "locked" PROVE Acceptable
  <2>1. DOMAIN lockfile = resolved /\ problems = {} /\ resolved \subseteq DOMAIN registry
    BY <1>2 DEF CInv, NothingSkipped, Pinned
  <2>2. resolved = ClosureOf(registry, {root}) /\ OneVersionEach(resolved)
    BY <1>2, <2>1, LockedIsClosure
  <2>3. Acyclic(registry, resolved)
    BY <1>2, <2>1 DEF DInv, AcyclicSoFar, Acyclic
  <2> QED
    BY <2>1, <2>2, <2>3 DEF Acceptable
<1>3. ASSUME DInv, closure # "visit", closure # "locked" PROVE ~Acceptable
  BY <1>3 DEF DInv, Ending, FoundForCause
<1>4. CInv /\ DInv => RefusedForCause
  BY <1>2, <1>3 DEF RefusedForCause, Acceptable
<1> QED
  BY <1>1, <1>4, DefectsStart, ClosureInvariant, PTL DEF ClosureSpec

(* What a truncation keeps and drops.  A sum of tokens is computed up to a *)
(* position, so the facts about sums are about the least position at which *)
(* they would fail.                                                        *)

LEMMA LeastNumber ==
  ASSUME NEW T \in SUBSET Nat, T # {}
  PROVE  \E x \in T : \A y \in T : x <= y
<1> DEFINE R == OpToRel(<, Nat)
<1>1. IsWellFoundedOn(R, Nat)
  BY NatLessThanWellFounded
<1> HIDE DEF R
<1>2. PICK x \in T : \A y \in T : <<y, x>> \notin R
  BY <1>1, WFMin, Zenon
<1>3. \A a, b \in Nat : <<b, a>> \in R <=> b < a
  BY DEF R, OpToRel
<1>4. \A y \in T : y \in Nat /\ x \in Nat /\ ~(y < x)
  BY <1>2, <1>3
<1> QED
  BY <1>4

\* f holds the tokens of the first segments of K in the prompt p.
SumsTo(f, p, K, m) ==
    f = [n \in 0..m |-> IF n = 0 THEN 0 ELSE f[n - 1] + IF n \in K THEN p[n].tokens ELSE 0]

LEMMA Summed ==
  ASSUME NEW p, NEW K, NEW n \in Nat
  PROVE  \E f : SumsTo(f, p, K, n)
<1> DEFINE T == {m \in Nat : ~\E f : SumsTo(f, p, K, m)}
           After(f, k) == f[k - 1] + IF k \in K THEN p[k].tokens ELSE 0
<1> SUFFICES ASSUME T # {} PROVE FALSE
  OBVIOUS
<1>1. PICK m \in T : \A k \in T : m <= k
  BY LeastNumber
<1>2. m \in Nat /\ ~\E f : SumsTo(f, p, K, m)
  OBVIOUS
<1>3. CASE m = 0
  <2> DEFINE f == [i \in 0..0 |-> 0]
  <2>1. f = [i \in 0..0 |-> IF i = 0 THEN 0 ELSE f[i - 1] + IF i \in K THEN p[i].tokens ELSE 0]
    OBVIOUS
  <2> QED
    BY <1>2, <1>3, <2>1 DEF SumsTo
<1>4. CASE m > 0
  <2>1. m - 1 \in Nat /\ ~(m <= m - 1)
    BY <1>2, <1>4
  <2>2. PICK f : SumsTo(f, p, K, m - 1)
    BY <1>1, <2>1
  <2> DEFINE g == [i \in 0..m |-> IF i = m THEN After(f, m) ELSE f[i]]
  <2>3. \A i \in 0..(m - 1) : f[i] = IF i = 0 THEN 0 ELSE After(f, i)
    BY <2>2 DEF SumsTo
  <2>4. \A i, j : i - 1 = j => \A h : h[j] = f[j] => After(h, i) = After(f, i)
    OBVIOUS
  <2> HIDE DEF After
  <2>5. /\ \A i \in 0..(m - 1) : g[i] = f[i]
        /\ g[m] = After(f, m)
    BY <1>2, <1>4
  <2> HIDE DEF g
  <2>6. \A i \in 0..m : g[i] = IF i = 0 THEN 0 ELSE After(g, i)
    <3> TAKE i \in 0..m
    <3>1. CASE i = 0
      BY <1>2, <1>4, <2>1, <2>3, <2>5, <3>1
    <3>2. CASE i # 0
      <4>1. i - 1 \in 0..(m - 1) /\ (i = m \/ i \in 0..(m - 1))
        BY <1>2, <3>2
      <4>2. After(g, i) = After(f, i)
        BY <2>4, <2>5, <4>1
      <4> QED
        BY <2>3, <2>5, <3>2, <4>1, <4>2
    <3> QED
      BY <3>1, <3>2
  <2>7. SumsTo(g, p, K, m)
    BY <2>6 DEF SumsTo, After, g
  <2> QED
    BY <1>2, <2>7
<1> QED
  BY <1>2, <1>3, <1>4

LEMMA SumsStep ==
  ASSUME NEW p, NEW K, NEW n \in Nat, NEW f, SumsTo(f, p, K, n), NEW i \in 1..n
  PROVE  f[i] = f[i - 1] + IF i \in K THEN p[i].tokens ELSE 0
<1>1. i \in 0..n /\ i # 0
  OBVIOUS
<1> DEFINE add(k) == f[k - 1] + IF k \in K THEN p[k].tokens ELSE 0
<1>2. f = [k \in 0..n |-> IF k = 0 THEN 0 ELSE add(k)]
  BY DEF SumsTo
<1> HIDE DEF add
<1>3. f[i] = add(i)
  BY <1>1, <1>2
<1> QED
  BY <1>3 DEF add

\* The prompt is one of those considered and K a part of it of known length.
Measured(K) ==
    /\ prompt \in Prompts /\ policy \in Policies
    /\ K \subseteq Positions
    /\ \A i \in K : prompt[i].tokens # Unknown

LEMMA Segments ==
  ASSUME prompt \in Prompts
  PROVE  /\ Len(prompt) \in Nat
         /\ Positions = 1..Len(prompt)
         /\ \A i \in Positions : prompt[i].tokens \in Nat \cup {Unknown} /\ prompt[i].required \in BOOLEAN
<1> DEFINE Segment == [name : STRING, role : STRING, tokens : Nat \cup {Unknown}, required : BOOLEAN]
<1>1. prompt \in Seq(Segment)
  BY BudgetAssumption
<1> HIDE DEF Segment
<1>2. Len(prompt) \in Nat /\ Positions = 1..Len(prompt)
  BY <1>1 DEF Positions
<1>3. \A i \in Positions : prompt[i] \in Segment
  BY <1>1, <1>2
<1> QED
  BY <1>2, <1>3 DEF Segment

LEMMA Totals ==
  ASSUME prompt \in Prompts, NEW K
  PROVE  \E f : SumsTo(f, prompt, K, Len(prompt)) /\ Tokens(K) = f[Len(prompt)]
<1> DEFINE g == CHOOSE f : SumsTo(f, prompt, K, Len(prompt))
<1>1. Tokens(K) = g[Len(prompt)]
  BY DEF Tokens, SumsTo
<1>2. SumsTo(g, prompt, K, Len(prompt))
  BY Summed, Segments
<1> QED
  BY <1>1, <1>2

\* The tokens of a part are those of some of its segments and of the rest.
LEMMA TokensSplit ==
  ASSUME NEW K, NEW D \in SUBSET K, Measured(K)
  PROVE  /\ Tokens(K) \in Nat /\ Tokens(D) \in Nat /\ Tokens(K \ D) \in Nat
         /\ Tokens(K) = Tokens(D) + Tokens(K \ D)
<1> PICK n : n = Len(prompt)
  OBVIOUS
<1>1. n \in Nat
  BY Segments DEF Measured
<1>2. Positions = 1..n /\ \A i \in K : prompt[i].tokens \in Nat
  BY Segments DEF Measured
<1>3. PICK f : SumsTo(f, prompt, K, n) /\ Tokens(K) = f[n]
  BY Totals DEF Measured
<1>4. PICK d : SumsTo(d, prompt, D, n) /\ Tokens(D) = d[n]
  BY Totals DEF Measured
<1>5. PICK r : SumsTo(r, prompt, K \ D, n) /\ Tokens(K \ D) = r[n]
  BY Totals DEF Measured
<1>6. f[0] = 0 /\ d[0] = 0 /\ r[0] = 0
  BY <1>1, <1>3, <1>4, <1>5 DEF SumsTo
<1> DEFINE Even(i) == d[i] \in Nat /\ r[i] \in Nat /\ f[i] = d[i] + r[i]
<1>7. ASSUME NEW i \in 1..n, Even(i - 1) PROVE Even(i)
  <2>1. f[i] = f[i - 1] + IF i \in K THEN prompt[i].tokens ELSE 0
    BY <1>1, <1>3, SumsStep
  <2>2. d[i] = d[i - 1] + IF i \in D THEN prompt[i].tokens ELSE 0
    BY <1>1, <1>4, SumsStep
  <2>3. r[i] = r[i - 1] + IF i \in K \ D THEN prompt[i].tokens ELSE 0
    <3> PICK R : R = K \ D
      OBVIOUS
    <3>1. SumsTo(r, prompt, R, n)
      BY <1>5
    <3>2. r[i] = r[i - 1] + IF i \in R THEN prompt[i].tokens ELSE 0
      BY <1>1, <3>1, SumsStep
    <3> QED
      BY <3>2
  <2>4. i \in K => prompt[i].tokens \in Nat
    BY <1>2
  <2> QED
    BY <1>7, <2>1, <2>2, <2>3, <2>4
<1>8. \A i \in 0..n : Even(i)
  <2> DEFINE T == {m \in 0..n : ~Even(m)}
  <2> HIDE DEF Even
  <2> SUFFICES ASSUME T # {} PROVE FALSE
    OBVIOUS
  <2> T \in SUBSET Nat
    BY <1>1
  <2>1. PICK m \in T : \A k \in T : m <= k
    BY LeastNumber
  <2>2. m # 0
    BY <1>6, <2>1 DEF Even
  <2>3. m \in 1..n /\ m - 1 \in 0..n /\ ~(m <= m - 1)
    BY <1>1, <2>1, <2>2
  <2> QED
    BY <1>7, <2>1, <2>3
<1>9. Even(n)
  BY <1>1, <1>8
<1> QED
  BY <1>3, <1>4, <1>5, <1>9

LEMMA TokensGrow ==
  ASSUME NEW K, NEW S \in SUBSET K, Measured(K)
  PROVE  Tokens(S) <= Tokens(K)
<1>1. /\ Tokens(S) \in Nat /\ Tokens(K \ S) \in Nat
      /\ Tokens(K) = Tokens(S) + Tokens(K \ S)
  BY TokensSplit
<1> QED
  BY <1>1

\* A segment that must survive and is dropped from a part is dropped from a longer
\* one, unless the middle decides.
LEMMA DropsGrow ==
  ASSUME NEW K, NEW S \in SUBSET K, Measured(K), ~Unmodeled(K),
         policy.strategy # "middle", NEW t \in Dropped(S), t \in Required
  PROVE  t \in Dropped(K)
<1> DEFINE first(C) == {j \in Droppable(C) : Before(C, j, t)}
<1>1. /\ ~Unmodeled(S) /\ policy.strategy # "none" /\ t \in Droppable(S)
      /\ Tokens(S) - Tokens(first(S)) > Budget
  BY DEF Dropped
<1>2. t \in Droppable(K)
  BY <1>1 DEF Droppable, Eligible
<1>3. S \cap Droppable(K) \subseteq Droppable(S)
  BY <1>1 DEF Droppable, Eligible
<1>4. \A j : Before(K, j, t) <=> Before(S, j, t)
  BY DEF Before
<1>5. first(S) \subseteq S /\ first(K) \subseteq K
  BY DEF Droppable, Eligible
<1>6. S \ first(S) \subseteq K \ first(K)
  BY <1>3, <1>4
<1>7. Measured(S) /\ Measured(K)
  BY DEF Measured
<1>8. Budget \in Int
  BY BudgetAssumption
<1> HIDE DEF first
<1>9. Tokens(S \ first(S)) <= Tokens(K \ first(K))
  <2>1. Measured(K \ first(K))
    BY <1>7 DEF Measured
  <2> QED
    BY <1>6, <2>1, TokensGrow
<1>10. /\ Tokens(S) = Tokens(first(S)) + Tokens(S \ first(S))
       /\ Tokens(first(S)) \in Nat /\ Tokens(S \ first(S)) \in Nat
  BY <1>5, <1>7, TokensSplit
<1>11. /\ Tokens(K) = Tokens(first(K)) + Tokens(K \ first(K))
       /\ Tokens(first(K)) \in Nat /\ Tokens(K \ first(K)) \in Nat
  BY <1>5, <1>7, TokensSplit
<1>12. Tokens(K) - Tokens(first(K)) > Budget
  BY <1>1, <1>8, <1>9, <1>10, <1>11
<1> QED
  BY <1>1, <1>2, <1>12 DEF Dropped, first

\* In S, the first by f and then by g.
LEMMA FirstBy ==
  ASSUME NEW S, S # {}, NEW f, NEW g, \A i \in S : f[i] \in Nat /\ g[i] \in Nat
  PROVE  \E i \in S : \A j \in S : f[i] < f[j] \/ (f[i] = f[j] /\ g[i] <= g[j])
<1> DEFINE F == {f[i] : i \in S}
<1>1. F \in SUBSET Nat /\ F # {}
  OBVIOUS
<1>2. PICK m \in F : \A k \in F : m <= k
  BY <1>1, LeastNumber
<1> DEFINE G == {g[i] : i \in {j \in S : f[j] = m}}
<1>3. G \in SUBSET Nat /\ G # {}
  OBVIOUS
<1> HIDE DEF F
<1>4. PICK n \in G : \A k \in G : n <= k
  BY <1>3, LeastNumber
<1>5. PICK i \in S : f[i] = m /\ g[i] = n
  BY <1>4
<1>6. \A j \in S : f[j] \in Nat /\ g[j] \in Nat /\ f[j] \in F /\ (f[j] = m => g[j] \in G)
  BY DEF F
<1> HIDE DEF G
<1>7. ASSUME NEW j \in S PROVE f[i] < f[j] \/ (f[i] = f[j] /\ g[i] <= g[j])
  BY <1>2, <1>4, <1>5, <1>6
<1> QED
  BY <1>7

LEMMA RanksAreNumbers ==
  ASSUME policy \in Policies, NEW i, RoleRank(i) # {}
  PROVE  FirstRank(i) \in 1..Len(policy.roles) /\ Len(policy.roles) \in Nat
<1>1. policy.roles \in Seq(STRING)
  BY BudgetAssumption
<1>2. RoleRank(i) \in SUBSET Nat /\ RoleRank(i) \subseteq 1..Len(policy.roles) /\ Len(policy.roles) \in Nat
  BY <1>1 DEF RoleRank
<1>3. \E r \in RoleRank(i) : \A s \in RoleRank(i) : r <= s
  BY <1>2, LeastNumber
<1>4. FirstRank(i) \in RoleRank(i)
  BY <1>3 DEF FirstRank
<1> QED
  BY <1>2, <1>4

\* The policy drops segments in the order of two numbers up to m.
DropKeys(m, f, g) ==
    LET D == Droppable(Positions) IN
        /\ m \in Nat /\ f \in [D -> 0..m] /\ g \in [D -> 0..m]
        /\ \A i, j \in D : Before(Positions, i, j) <=> f[i] < f[j] \/ (f[i] = f[j] /\ g[i] < g[j])
        /\ \A i, j \in D : g[i] = g[j] => i = j

LEMMA DropOrder ==
  ASSUME prompt \in Prompts, policy \in Policies
  PROVE  \E m, f, g : DropKeys(m, f, g)
<1> PICK n : n = Len(prompt)
  OBVIOUS
<1> PICK D : D = Droppable(Positions)
  OBVIOUS
<1>1. n \in Nat /\ Positions = 1..n /\ D \subseteq 1..n
  BY Segments DEF Droppable, Eligible
<1>2. Cardinality(Positions) = n
  <2>1. Cardinality(1..n) = IF 1 > n THEN 0 ELSE n - 1 + 1
    <3>1. 1 \in Int /\ n \in Int
      BY <1>1
    <3> QED
      BY <3>1, FS_Interval, Zenon
  <2>2. Cardinality(1..n) = n
    BY <1>1, <2>1
  <2> QED
    BY <1>1, <2>2, Zenon
<1> DEFINE g == [i \in D |-> i]
           away(k) == Abs(2 * (k - 1) - (n - 1))
<1>3. CASE policy.strategy = "right"
  <2> DEFINE f == [i \in D |-> n - i]
  <2>1. f \in [D -> 0..n] /\ g \in [D -> 0..n]
    BY <1>1
  <2>2. \A i, j \in D : Before(Positions, i, j) <=> i > j
    BY <1>3, Zenon DEF Before
  <2>3. \A i, j \in D : Before(Positions, i, j) <=> f[i] < f[j] \/ (f[i] = f[j] /\ g[i] < g[j])
    BY <1>1, <2>2
  <2>4. DropKeys(n, f, g)
    BY <1>1, <2>1, <2>3 DEF DropKeys
  <2> QED
    BY <2>4
<1>4. CASE policy.strategy = "middle"
  <2> DEFINE f == [i \in D |-> away(i)]
  <2>1. \A i \in D : away(i) \in 0..(4 * n) /\ i \in 0..(4 * n)
    BY <1>1 DEF Abs
  <2>2. \A i, j \in D : Before(Positions, i, j) <=> away(i) < away(j) \/ (away(i) = away(j) /\ i < j)
    BY <1>2, <1>4, Zenon DEF Before
  <2> HIDE DEF away
  <2>3. f \in [D -> 0..(4 * n)] /\ g \in [D -> 0..(4 * n)] /\ 4 * n \in Nat
    BY <1>1, <2>1
  <2>4. \A i, j \in D : Before(Positions, i, j) <=> f[i] < f[j] \/ (f[i] = f[j] /\ g[i] < g[j])
    BY <2>2
  <2>5. DropKeys(4 * n, f, g)
    BY <2>3, <2>4 DEF DropKeys
  <2> QED
    BY <2>5
<1>5. CASE policy.strategy = "priority" /\ \E i \in D : RoleRank(i) # {}
  <2> DEFINE f == [i \in D |-> FirstRank(i)]
             m == n + Len(policy.roles)
  <2>1. \A i \in D : RoleRank(i) # {}
    BY <1>5 DEF Droppable, Eligible
  <2>2. \A i \in D : FirstRank(i) \in 0..m /\ i \in 0..m /\ m \in Nat
    BY <1>1, <2>1, RanksAreNumbers
  <2>3. \A i, j \in D : Before(Positions, i, j) <=>
          FirstRank(i) < FirstRank(j) \/ (FirstRank(i) = FirstRank(j) /\ i < j)
    BY <1>5, <2>1, Zenon DEF Before
  <2> HIDE DEF m
  <2>4. f \in [D -> 0..m] /\ g \in [D -> 0..m]
    BY <2>2
  <2>5. \A i, j \in D : Before(Positions, i, j) <=> f[i] < f[j] \/ (f[i] = f[j] /\ g[i] < g[j])
    BY <2>3
  <2>6. m \in Nat
    BY <1>5, <2>2
  <2>7. DropKeys(m, f, g)
    BY <2>4, <2>5, <2>6 DEF DropKeys
  <2> QED
    BY <2>7
<1>6. CASE /\ policy.strategy \notin {"right", "middle"}
           /\ policy.strategy = "priority" => \A i \in D : RoleRank(i) = {}
  <2> DEFINE f == [i \in D |-> 0]
  <2>1. f \in [D -> 0..n] /\ g \in [D -> 0..n]
    BY <1>1
  <2>2. \A i, j \in D : Before(Positions, i, j) <=> i < j
    BY <1>6, Zenon DEF Before
  <2>3. \A i, j \in D : Before(Positions, i, j) <=> f[i] < f[j] \/ (f[i] = f[j] /\ g[i] < g[j])
    BY <1>1, <2>2
  <2>4. DropKeys(n, f, g)
    BY <1>1, <2>1, <2>3 DEF DropKeys
  <2> QED
    BY <2>4
<1> QED
  BY <1>3, <1>4, <1>5, <1>6

\* What is kept fits unless nothing is left to drop, and what is dropped last had
\* to go.
LEMMA KeptFits ==
  ASSUME prompt \in Prompts, policy \in Policies, ~Unmodeled(Positions)
  PROVE  /\ policy.strategy = "none" \/ Tokens(Kept) <= Budget \/ Droppable(Positions) \subseteq Dropped(Positions)
         /\ Dropped(Positions) # {} => \E i \in Dropped(Positions) : Tokens(Kept \cup {i}) > Budget
<1> SUFFICES ASSUME policy.strategy # "none"
             PROVE  /\ Tokens(Kept) <= Budget \/ Droppable(Positions) \subseteq Dropped(Positions)
                    /\ Dropped(Positions) # {} =>
                         \E i \in Dropped(Positions) : Tokens(Kept \cup {i}) > Budget
  BY DEF Dropped
<1> DEFINE D == Droppable(Positions)
           X == Dropped(Positions)
           first(i) == {j \in D : Before(Positions, j, i)}
<1>1. \A S \in SUBSET Positions : Measured(S)
  BY DEF Measured, Unmodeled
<1>2. D \subseteq Positions /\ \A i : first(i) \subseteq D
  BY DEF Droppable, Eligible
<1>3. \A S \in SUBSET Positions : Tokens(S) \in Nat
  BY <1>1, TokensSplit
<1>4. Budget \in Int
  BY BudgetAssumption
<1>5. \A i \in D : i \in X <=> Tokens(Positions \ first(i)) > Budget
  <2> TAKE i \in D
  <2>1. i \in X <=> Tokens(Positions) - Tokens(first(i)) > Budget
    BY DEF Dropped
  <2> PICK F : F = first(i)
    OBVIOUS
  <2>2. F \in SUBSET Positions
    BY <1>2
  <2>3. /\ Tokens(Positions) \in Nat /\ Tokens(F) \in Nat /\ Tokens(Positions \ F) \in Nat
        /\ Tokens(Positions) = Tokens(F) + Tokens(Positions \ F)
    BY <1>1, <2>2, TokensSplit
  <2> QED
    BY <1>4, <2>1, <2>3
<1>6. PICK m, f, g : DropKeys(m, f, g)
  BY DropOrder
<1>7. /\ m \in Nat /\ \A i \in D : f[i] \in 0..m /\ g[i] \in 0..m
      /\ \A i, j \in D : j \in first(i) <=> f[j] < f[i] \/ (f[j] = f[i] /\ g[j] < g[i])
      /\ \A i, j \in D : g[i] = g[j] => i = j
  BY <1>6 DEF DropKeys
<1>8. X \subseteq D
  BY DEF Dropped
<1> HIDE DEF D, X, first
<1>9. D \subseteq X \/ Tokens(Kept) <= Budget
  <2> SUFFICES ASSUME D \ X # {} PROVE Tokens(Kept) <= Budget
    OBVIOUS
  <2>1. \A i \in D \ X : f[i] \in Nat /\ g[i] \in Nat
    BY <1>7
  <2>2. PICK i \in D \ X : \A j \in D \ X : f[i] < f[j] \/ (f[i] = f[j] /\ g[i] <= g[j])
    <3> PICK S : S = D \ X
      OBVIOUS
    <3>1. S # {} /\ \A i \in S : f[i] \in Nat /\ g[i] \in Nat
      BY <2>1
    <3>2. \E i \in S : \A j \in S : f[i] < f[j] \/ (f[i] = f[j] /\ g[i] <= g[j])
      BY ONLY <3>1, FirstBy, Zenon
    <3> QED
      BY <3>2
  <2>3. first(i) \subseteq X
    BY <1>2, <1>7, <2>2
  <2>4. Kept \subseteq Positions \ first(i)
    BY <2>3 DEF Kept, X
  <2> PICK S, R : S = Positions \ first(i) /\ R = Kept
    OBVIOUS
  <2>5. Tokens(R) <= Tokens(S)
    BY <1>1, <2>4, TokensGrow
  <2>6. ~(Tokens(S) > Budget) /\ Tokens(S) \in Nat /\ Tokens(R) \in Nat
    BY <1>3, <1>5, <2>2, <2>4
  <2> QED
    BY <1>4, <2>5, <2>6
<1>10. X # {} => \E i \in X : Tokens(Kept \cup {i}) > Budget
  <2> SUFFICES ASSUME X # {} PROVE \E i \in X : Tokens(Kept \cup {i}) > Budget
    OBVIOUS
  <2> DEFINE b == [i \in D |-> m - f[i]]
             c == [i \in D |-> m - g[i]]
  <2>1. \A i \in X : b[i] \in Nat /\ c[i] \in Nat
    BY <1>7, <1>8
  <2>2. PICK i \in X : \A j \in X : b[i] < b[j] \/ (b[i] = b[j] /\ c[i] <= c[j])
    <3> HIDE DEF b, c
    <3> PICK S : S = X
      OBVIOUS
    <3>1. S # {} /\ \A i \in S : b[i] \in Nat /\ c[i] \in Nat
      BY <2>1
    <3>2. \E i \in S : \A j \in S : b[i] < b[j] \/ (b[i] = b[j] /\ c[i] <= c[j])
      BY ONLY <3>1, FirstBy, Zenon
    <3> QED
      BY <3>2
  <2>3. \A j \in X : j = i \/ j \in first(i)
    <3> TAKE j \in X
    <3>1. b[i] = m - f[i] /\ b[j] = m - f[j] /\ c[i] = m - g[i] /\ c[j] = m - g[j]
      BY <1>8
    <3>2. f[j] < f[i] \/ (f[j] = f[i] /\ g[j] <= g[i])
      <4> HIDE DEF b, c
      <4>1. f[i] \in 0..m /\ f[j] \in 0..m /\ g[i] \in 0..m /\ g[j] \in 0..m /\ m \in Nat
        BY <1>7, <1>8
      <4> QED
        BY <2>2, <3>1, <4>1
    <3>3. g[j] <= g[i] => g[j] < g[i] \/ i = j
      BY <1>7, <1>8
    <3> QED
      BY <1>7, <1>8, <3>2, <3>3
  <2>4. Positions \ first(i) \subseteq Kept \cup {i}
    BY <2>3 DEF Kept, X
  <2>5. Kept \cup {i} \subseteq Positions
    BY <1>2, <1>8 DEF Kept
  <2> PICK S, R : S = Kept \cup {i} /\ R = Positions \ first(i)
    OBVIOUS
  <2>6. Tokens(R) <= Tokens(S)
    BY <1>1, <2>4, <2>5, TokensGrow
  <2>7. Tokens(R) > Budget /\ Tokens(S) \in Nat /\ Tokens(R) \in Nat
    BY <1>3, <1>5, <1>8, <2>5
  <2>8. Tokens(S) > Budget
    BY <1>4, <2>6, <2>7
  <2> QED
    BY <2>8
<1> QED
  BY <1>9, <1>10 DEF X, D

\* The same operators as functions of the prompt and the policy.
Of(p, q) == INSTANCE BudgetTruncation
    WITH prompt <- p, policy <- q, lost <- {}, sample <- {}, looked <- {}, survival <- ""
Must(p) == {i \in DOMAIN p : p[i].required}
Known(p, q, K) == ~Of(p, q)!Unmodeled(K)
Drops(p, q, K) == Of(p, q)!Dropped(K)
Aims(p, L) == {i \in DOMAIN p : \E j \in L : p[i].name = p[j].name}

LEMMA Renamed ==
  /\ Positions = DOMAIN prompt /\ Required = Must(prompt) /\ Targets = Aims(prompt, lost)
  /\ \A K : Unmodeled(K) <=> ~Known(prompt, policy, K)
  /\ \A K : Dropped(K) = Drops(prompt, policy, K)
<1>1. Positions = DOMAIN prompt /\ Required = Must(prompt) /\ Targets = Aims(prompt, lost)
  BY DEF Positions, Required, Must, Targets, Aims
<1>2. ASSUME NEW K PROVE Unmodeled(K) <=> ~Known(prompt, policy, K)
  BY DEF Unmodeled, Known, Of!Unmodeled, Unknown, Of!Unknown
<1>3. ASSUME NEW K PROVE Dropped(K) = Drops(prompt, policy, K)
  BY DEF Dropped, Droppable, Eligible, Preserved, RoleRank, FirstRank, Before, Abs, Unmodeled, Tokens,
         Required, Positions, Unknown, Drops, Of!Dropped, Of!Droppable, Of!Eligible, Of!Preserved,
         Of!RoleRank, Of!FirstRank, Of!Before, Of!Abs, Of!Unmodeled, Of!Tokens, Of!Required,
         Of!Positions, Of!Unknown
<1> QED
  BY <1>1, <1>2, <1>3

\* The policy drops a required target from the part K.
Shows(K) == Drops(prompt, policy, K) \cap Must(prompt) \cap Aims(prompt, lost) # {}

\* The verdict and the part of the prompt left are about the prompt given.  A
\* segment looked at and kept in the part cannot be left out, now or later.
SurvivalInv ==
    /\ prompt \in Prompts /\ policy \in Policies
    /\ survival \in {"truncate", "shrink", "proven", "abstained", "violated"}
    /\ survival = "proven" =>
         \/ Must(prompt) = {}
         \/ /\ Known(prompt, policy, DOMAIN prompt)
            /\ Drops(prompt, policy, DOMAIN prompt) \cap Must(prompt) = {}
    /\ survival \in {"shrink", "violated"} =>
         /\ lost = Drops(prompt, policy, DOMAIN prompt) \cap Must(prompt) /\ lost # {}
         /\ Aims(prompt, lost) \subseteq sample /\ sample \subseteq DOMAIN prompt
         /\ Shows(sample)
         /\ policy.strategy # "middle" =>
              \A i \in (looked \cap sample) \ Aims(prompt, lost) : ~Shows(sample \ {i})
    /\ survival = "shrink" => looked \subseteq DOMAIN prompt
    /\ survival = "truncate" => looked = {}
    /\ survival = "violated" => looked = DOMAIN prompt

LEMMA ShownByMore ==
  ASSUME SurvivalInv, survival = "shrink", policy.strategy # "middle",
         NEW S \in SUBSET DOMAIN prompt, NEW R \in SUBSET S, Shows(R)
  PROVE  Shows(S)
<1>1. lost \subseteq Dropped(Positions) /\ lost # {}
  BY Renamed DEF SurvivalInv
<1>2. ~Unmodeled(Positions)
  BY <1>1 DEF Dropped
<1>3. ~Unmodeled(S) /\ Measured(S)
  BY <1>2 DEF Unmodeled, Measured, SurvivalInv, Positions
<1>4. \A t \in Dropped(R) : t \in Required => t \in Dropped(S)
  BY <1>3, DropsGrow
<1> QED
  BY <1>4, Renamed DEF Shows

LEMMA SurvivalStarts == BudgetInit => SurvivalInv
  BY DEF BudgetInit, SurvivalInv

LEMMA OmitKeeps ==
  ASSUME SurvivalInv, NEW i \in Positions, Omit(i)
  PROVE  SurvivalInv'
<1> DEFINE T == Aims(prompt, lost)
<1>1. /\ survival = "shrink" /\ i \in DOMAIN prompt
      /\ UNCHANGED <<prompt, policy, lost, survival>>
      /\ looked' = looked \cup {i}
      /\ sample' = IF i \notin T /\ Shows(sample \ {i}) THEN sample \ {i} ELSE sample
  BY Renamed DEF Omit, Demonstrates, Shows
<1>2. /\ T \subseteq sample' /\ sample' \subseteq sample /\ sample' \subseteq DOMAIN prompt
      /\ Shows(sample')
  BY <1>1 DEF SurvivalInv
<1>3. ASSUME policy.strategy # "middle", NEW k \in (looked' \cap sample') \ T
      PROVE  ~Shows(sample' \ {k})
  <2>1. CASE k \in looked
    <3>1. ~Shows(sample \ {k})
      BY <1>1, <1>2, <1>3, <2>1 DEF SurvivalInv
    <3>2. PICK S, R : S = sample \ {k} /\ R = sample' \ {k}
      OBVIOUS
    <3>3. R \in SUBSET S /\ S \in SUBSET DOMAIN prompt
      BY <1>1, <1>2, <3>2 DEF SurvivalInv
    <3> QED
      BY <1>1, <1>3, <3>1, <3>2, <3>3, ShownByMore
  <2>2. CASE k \notin looked
    <3>1. k = i /\ sample' = sample
      BY <1>1, <1>3, <2>2
    <3> QED
      BY <1>1, <1>3, <3>1
  <2> QED
    BY <2>1, <2>2
<1>4. looked' \subseteq DOMAIN prompt
  BY <1>1 DEF SurvivalInv
<1>5. Shows(sample)' /\ (policy.strategy # "middle" =>
        \A k \in (looked' \cap sample') \ T : ~Shows(sample \ {k})')
  BY <1>1, <1>2, <1>3 DEF Shows
<1> QED
  BY <1>1, <1>2, <1>4, <1>5 DEF SurvivalInv

LEMMA SurvivalStep == SurvivalInv /\ [BudgetNext]_budgetVars => SurvivalInv'
<1> SUFFICES ASSUME SurvivalInv, [BudgetNext]_budgetVars PROVE SurvivalInv'
  OBVIOUS
<1>1. ASSUME Proven PROVE SurvivalInv'
  BY <1>1, Renamed DEF Proven, SurvivalInv
<1>2. ASSUME Abstains PROVE SurvivalInv'
  BY <1>2 DEF Abstains, SurvivalInv
<1>3. ASSUME Violated PROVE SurvivalInv'
  <2>1. /\ survival = "truncate" /\ survival' = "shrink" /\ UNCHANGED <<prompt, policy, looked>>
        /\ lost' = Drops(prompt, policy, DOMAIN prompt) \cap Must(prompt) /\ lost' # {}
        /\ sample' = DOMAIN prompt
    BY <1>3, Renamed DEF Violated
  <2>2. Aims(prompt', lost') \subseteq DOMAIN prompt /\ lost' \subseteq Aims(prompt', lost')
    BY <2>1 DEF Must, Aims
  <2>3. Shows(sample)'
    BY <2>1, <2>2 DEF Shows
  <2> QED
    BY <2>1, <2>2, <2>3 DEF SurvivalInv
<1>4. ASSUME NEW i \in Positions, Omit(i) PROVE SurvivalInv'
  BY <1>4, OmitKeeps
<1>5. ASSUME Shrunk PROVE SurvivalInv'
  BY <1>5 DEF Shrunk, SurvivalInv, Positions, Shows
<1>6. ASSUME UNCHANGED budgetVars PROVE SurvivalInv'
  BY <1>6 DEF budgetVars, SurvivalInv, Shows
<1> QED
  BY <1>1, <1>2, <1>3, <1>4, <1>5, <1>6 DEF BudgetNext, Surviving, BudgetEnded

\* ProvenKept: a prompt proven keeps what must survive, and the truncation stops
\* where it should, under every policy.
THEOREM KeepsRequired == BudgetSpec => []ProvenKept
<1>1. SurvivalInv => ProvenKept
  <2> SUFFICES ASSUME SurvivalInv, survival = "proven", Required # {}
               PROVE  ProvenKept
    BY DEF ProvenKept
  <2>1. ~Unmodeled(Positions) /\ Dropped(Positions) \cap Required = {} /\ Required \subseteq Positions
    BY Renamed DEF SurvivalInv, Required
  <2> QED
    BY <2>1, KeptFits DEF SurvivalInv, ProvenKept, Kept
<1> QED
  BY <1>1, SurvivalStarts, SurvivalStep, PTL DEF BudgetSpec

\* CounterexampleMinimal: one pass over the segments is enough, since a segment
\* that is dropped from a part is dropped from every longer one.
THEOREM MinimalWitness == BudgetSpec => []CounterexampleMinimal
<1>1. SurvivalInv => CounterexampleMinimal
  BY Renamed DEF SurvivalInv, CounterexampleMinimal, Demonstrates, Shows
<1> QED
  BY <1>1, SurvivalStarts, SurvivalStep, PTL DEF BudgetSpec

=============================================================================
