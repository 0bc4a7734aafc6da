-------------------------- MODULE SolverCacheProofs --------------------------
(***************************************************************************)
(* Every decided answer of the two solver caches is true of the problem    *)
(* that asked: for the plain cache because equal keys mean the same        *)
(* constraints, for the proof-carrying one because a wrong proof of the    *)
(* result beside it is found out.  An abstention is repeated only for the  *)
(* options it came from.                                                   *)
(***************************************************************************)
EXTENDS SolverCache, FiniteSearchProofs

-----------------------------------------------------------------------------
(* The inductive invariant. *)

Members(q) == {q.constraints[i] : i \in DOMAIN q.constraints}

\* What a status says of the constraints C.
Says(s, C) ==
    /\ s = "sat" => \E x \in Assignments : \A c \in C : Holds(c, x)
    /\ s = "unsat" => ~\E x \in Assignments : \A c \in C : Holds(c, x)

\* A proof, right or wrong, beside a result of status s about the constraints C:
\* a core is part of C, and what is proved is the result, unless anything may
\* have been injected.
EntryFits(e, s, C) ==
    /\ e.kind = "core" =>
         e.core \in Seq(Constraint) /\ \A i \in DOMAIN e.core : e.core[i] \in C
    /\ ~Unrelated =>
         /\ e.kind = "model" => s = "sat" /\ (DOMAIN e.model = Vars => e.model \in Assignments)
         /\ e.kind = "core" => s = "unsat"
         /\ e.kind = "none" /\ e.status = "unknown" => s = "unknown"

\* The results of the plain cache are true; those of the other have their proofs.
EntriesSound ==
    /\ ~carrying => \A k \in DOMAIN results : Says(results[k], DOMAIN k.bag)
    /\ carrying => /\ DOMAIN entries = DOMAIN results
                   /\ \A k \in DOMAIN entries : EntryFits(entries[k], results[k], DOMAIN k.bag)

\* What the search works on, for which query.
Purpose ==
    /\ asked \in Query
    /\ carrying \in BOOLEAN
    /\ use = "solve" => constraints = asked.constraints
    /\ use = "validate" =>
         /\ carrying /\ Key(asked) \in DOMAIN entries /\ entries[Key(asked)].kind = "core"
         /\ \A i \in DOMAIN constraints : constraints[i] \in Members(asked)

Sound == ~Unrelated => AnswerSound

CInv == IInv /\ EntriesSound /\ Purpose /\ Sound

-----------------------------------------------------------------------------
(* Problems and keys. *)

\* A key forgets the order of the constraints and nothing of what they say.
LEMMA KeyMembers ==
  ASSUME NEW q
  PROVE  DOMAIN Key(q).bag = Members(q)
  BY DEF Key, Members

LEMMA HasModelMembers ==
  ASSUME NEW q
  PROVE  HasModel(q.constraints) <=>
           \E x \in Assignments : \A c \in Members(q) : Holds(c, x)
  BY DEF HasModel, Members

\* The search decides what HasModel says.
LEMMA SatisfiableHasModel ==
  Satisfiable(Positions) <=> HasModel(constraints)
  BY DEF Satisfiable, Satisfies, HasModel, Evaluate, Holds, Positions

\* Fewer constraints have a model as well.
LEMMA FewerHaveModel ==
  ASSUME NEW q, HasModel(q.constraints),
         NEW cs, \A i \in DOMAIN cs : cs[i] \in Members(q)
  PROVE  HasModel(cs)
  BY HasModelMembers DEF HasModel

LEMMA StatusSound ==
  ASSUME IInv
  PROVE  /\ status \in {"none", "sat", "unsat", "unknown"}
         /\ status = "sat" => HasModel(constraints)
         /\ status = "unsat" => ~HasModel(constraints)
<1>1. status = "sat" => HasModel(constraints)
  <2>1. status = "sat" => Satisfiable(Positions)
    BY DEF IInv, SatSound, Satisfiable
  <2> QED BY <2>1, SatisfiableHasModel
<1>2. status = "unsat" => ~HasModel(constraints)
  <2> SUFFICES ASSUME status = "unsat" PROVE ~Satisfiable(Positions)
    BY SatisfiableHasModel
  <2>1. ~Satisfiable(remaining) /\ remaining \in SUBSET Positions
    BY DEF IInv, Phases, CoreSound, TypeOK
  <2> QED BY <2>1, FewerSatisfiable
<1> QED BY <1>1, <1>2 DEF IInv, TypeOK

\* A new search starts in a state of the search's own invariant.
LEMMA BeginIInv ==
  ASSUME NEW cs \in Seq(Constraint), NEW b \in Budgets \cup {NoBudget}, NEW t \in BOOLEAN,
         Begin(cs, b, t)
  PROVE  IInv' /\ constraints' = cs
<1> USE SearchAssumption DEF Begin
<1>1. /\ path' \in Seq(Values) /\ Len(path') = 0 /\ DOMAIN path' = {}
      /\ todo' \in Seq(SUBSET Values) /\ Len(todo') = 0 /\ DOMAIN todo' = {}
  OBVIOUS
<1>2. TypeOK'
  <2>1. Positions' = DOMAIN cs
    BY DEF Positions
  <2>2. checked' \in Nat /\ Len(path') <= N /\ Len(todo') <= N
    BY <1>1
  <2> QED BY <1>1, <2>1, <2>2 DEF TypeOK
<1>3. Phases' /\ NoneBehind'
  BY <1>1 DEF Phases, NoneBehind, Ahead, Agrees, Positions
<1> QED BY <1>2, <1>3 DEF IInv, CoreSound, SatSound

-----------------------------------------------------------------------------
(* Sequences of constraints. *)

\* K has an i-th smallest element for each i up to its size.
LEMMA NthExists ==
  ASSUME NEW K \in SUBSET Nat, IsFiniteSet(K), NEW i \in 1..Cardinality(K)
  PROVE  \E k \in K : Cardinality({j \in K : j <= k}) = i
<1> DEFINE Below(k) == {j \in K : j <= k}
           n == Cardinality(K)
           f == [k \in K |-> Cardinality(Below(k))]
<1>1. n \in Nat /\ IsFiniteSet(1..n) /\ Cardinality(1..n) = n
  BY FS_CardinalityType, FS_Interval
<1>2. \A k \in K : /\ IsFiniteSet(Below(k)) /\ Below(k) \in SUBSET K
                   /\ Cardinality(Below(k)) \in 1..n
  <2> SUFFICES ASSUME NEW k \in K
               PROVE  /\ IsFiniteSet(Below(k)) /\ Below(k) \in SUBSET K
                      /\ Cardinality(Below(k)) \in 1..n
    OBVIOUS
  <2>1. Below(k) \in SUBSET K
    OBVIOUS
  <2>2. IsFiniteSet(Below(k)) /\ Cardinality(Below(k)) <= n
    BY <2>1, FS_Subset
  <2>3. Cardinality(Below(k)) \in Nat /\ k \in Below(k)
    BY <2>2, FS_CardinalityType
  <2>4. Cardinality(Below(k)) # 0
    BY <2>2, <2>3, FS_EmptySet
  <2> HIDE DEF Below, n
  <2> QED BY <1>1, <2>1, <2>2, <2>3, <2>4
<1>3. \A k, l \in K : k < l => f[k] # f[l]
  <2> SUFFICES ASSUME NEW k \in K, NEW l \in K, k < l
               PROVE  Cardinality(Below(k)) # Cardinality(Below(l))
    OBVIOUS
  <2>1. Below(k) \in SUBSET Below(l) /\ l \in Below(l) /\ l \notin Below(k)
    <3>1. k \in Nat /\ l \in Nat /\ \A j \in K : j \in Nat
      OBVIOUS
    <3>2. \A j \in K : j <= k => j <= l
      BY <3>1
    <3>3. l <= l /\ ~(l <= k)
      BY <3>1
    <3> QED BY <3>2, <3>3
  <2> HIDE DEF Below
  <2> QED BY <1>2, <2>1, FS_Subset
<1> HIDE DEF Below, n
<1>4. f \in Injection(K, 1..n)
  <2>1. f \in [K -> 1..n]
    BY <1>2
  <2>2. ASSUME NEW k \in K, NEW l \in K, f[k] = f[l] PROVE k = l
    <3> HIDE DEF f
    <3> QED BY <1>3, <2>2
  <2> QED BY <2>1, <2>2 DEF Injection, IsInjective
<1>5. f \in Surjection(K, 1..n)
  BY <1>1, <1>4, FS_Injection DEF n
<1>6. PICK k \in K : f[k] = i
  BY <1>5 DEF Surjection, n
<1> QED BY <1>6 DEF Below

LEMMA PickedInRange ==
  ASSUME NEW cs \in Seq(Constraint), NEW K \in SUBSET DOMAIN cs
  PROVE  /\ At(cs, K) \in Seq(Constraint)
         /\ \A i \in DOMAIN At(cs, K) : \E k \in DOMAIN cs : At(cs, K)[i] = cs[k]
<1>1. DOMAIN cs = 1..Len(cs) /\ Len(cs) \in Nat
  OBVIOUS
<1>2. K \in SUBSET Nat /\ IsFiniteSet(K)
  <2>1. IsFiniteSet(1..Len(cs))
    BY <1>1, FS_Interval
  <2> QED BY <1>1, <2>1, FS_Subset
<1>3. Cardinality(K) \in Nat
  BY <1>2, FS_CardinalityType
<1> DEFINE Nth(i) == CHOOSE k \in K : Cardinality({j \in K : j <= k}) = i
<1>4. \A i \in 1..Cardinality(K) : Nth(i) \in K
  <2> SUFFICES ASSUME NEW i \in 1..Cardinality(K) PROVE Nth(i) \in K
    OBVIOUS
  <2>1. \E k \in K : Cardinality({j \in K : j <= k}) = i
    BY <1>2, NthExists
  <2> QED BY <2>1
<1>5. At(cs, K) = [i \in 1..Cardinality(K) |-> cs[Nth(i)]]
  BY DEF At
<1> HIDE DEF Nth
<1>6. \A i \in 1..Cardinality(K) : cs[Nth(i)] \in Constraint
  BY <1>1, <1>4
<1> QED BY <1>3, <1>4, <1>5, <1>6

-----------------------------------------------------------------------------
(* The steps of a query. *)

\* The search leaves its inputs alone.
LEMMA SolveInputs ==
  ASSUME Solve
  PROVE  UNCHANGED inputs
<1>1. CASE Timeout \/ Exceed \/ Unsupported \/ Satisfy \/ Minimized
  BY <1>1 DEF Timeout, Exceed, Unsupported, Satisfy, Minimized, Conclude
<1>2. CASE Escape \/ Refute \/ Descend \/ Exhaust \/ Prove \/ Keep \/ Drop
  BY <1>2 DEF Escape, Refute, Descend, Exhaust, Prove, Keep, Drop, Enter, Back
<1>3. ASSUME NEW v \in Values, Try(v) PROVE UNCHANGED inputs
  BY <1>3 DEF Try
<1>4. ASSUME NEW k \in Positions, Candidate(k) PROVE UNCHANGED inputs
  BY <1>4 DEF Candidate
<1> QED BY <1>1, <1>2, <1>3, <1>4 DEF Solve

\* Steps that leave the search where it is.
LEMMA SearchKept ==
  ASSUME IInv, UNCHANGED vars
  PROVE  IInv'
<1>1. [Next]_vars
  OBVIOUS
<1> QED BY <1>1, TypeStep, PhasesStep, NoneBehindStep, CoreSoundStep, SatSoundStep DEF IInv

LEMMA StoreKept ==
  ASSUME EntriesSound, UNCHANGED <<carrying, entries, results>>
  PROVE  EntriesSound'
  BY DEF EntriesSound, Says, EntryFits, Holds

LEMMA SearchStep ==
  ASSUME CInv, Search
  PROVE  CInv'
<1>1. IInv'
  <2>1. [Next]_vars
    BY DEF Search, Next
  <2> QED BY <2>1, TypeStep, PhasesStep, NoneBehindStep, CoreSoundStep, SatSoundStep
          DEF IInv, CInv
<1>2. UNCHANGED <<constraints, cacheVars>>
  BY SolveInputs DEF Search, inputs
<1>3. UNCHANGED <<carrying, asked, use, entries, results, answer>>
  BY <1>2 DEF cacheVars, store
<1>4. EntriesSound'
  BY <1>3, StoreKept DEF CInv
<1>5. Purpose' /\ Sound'
  BY <1>2, <1>3 DEF CInv, Purpose, Members, Sound, AnswerSound, HasModel, Holds
<1> QED BY <1>1, <1>4, <1>5 DEF CInv

\* The store stays sound when a result is added that is true of its key, or has
\* its proof.
LEMMA WithSound ==
  ASSUME EntriesSound, UNCHANGED carrying, carrying \in BOOLEAN, NEW q, NEW e, NEW s,
         results' = With(results, Key(q), s),
         carrying => entries' = With(entries, Key(q), e) /\ EntryFits(e, s, Members(q)),
         ~carrying => Says(s, Members(q))
  PROVE  EntriesSound'
<1>1. /\ DOMAIN results' = DOMAIN results \cup {Key(q)} /\ results'[Key(q)] = s
      /\ \A k \in DOMAIN results' : k # Key(q) => k \in DOMAIN results /\ results'[k] = results[k]
  BY DEF With
<1>2. DOMAIN Key(q).bag = Members(q)
  BY KeyMembers
<1>3. CASE ~carrying
  <2>1. \A k \in DOMAIN results' : Says(results'[k], DOMAIN k.bag)
    BY <1>1, <1>2, <1>3 DEF EntriesSound
  <2> QED BY <1>3, <2>1 DEF EntriesSound, Says, Holds
<1>4. CASE carrying
  <2>1. /\ DOMAIN entries' = DOMAIN entries \cup {Key(q)} /\ entries'[Key(q)] = e
        /\ \A k \in DOMAIN entries' : k # Key(q) => k \in DOMAIN entries /\ entries'[k] = entries[k]
    BY <1>4 DEF With
  <2>2. DOMAIN entries' = DOMAIN results'
    BY <1>1, <1>4, <2>1 DEF EntriesSound
  <2>3. ASSUME NEW k \in DOMAIN entries'
        PROVE  EntryFits(entries'[k], results'[k], DOMAIN k.bag)
    <3>1. CASE k = Key(q)
      BY <1>1, <1>2, <1>4, <2>1, <3>1
    <3>2. CASE k # Key(q)
      BY <1>1, <1>4, <2>1, <2>2, <3>2 DEF EntriesSound
    <3> QED BY <3>1, <3>2
  <2> QED BY <1>4, <2>2, <2>3 DEF EntriesSound, EntryFits
<1> QED BY <1>3, <1>4

LEMMA WithoutSound ==
  ASSUME EntriesSound, UNCHANGED carrying, NEW q, Discard(q)
  PROVE  EntriesSound'
  BY DEF EntriesSound, Discard, Without, Says, EntryFits, Holds

\* A query is taken up afresh.
LEMMA FreshStep ==
  ASSUME NEW q \in Query, Fresh(q), asked' = q, UNCHANGED carrying, carrying \in BOOLEAN,
         EntriesSound', Sound'
  PROVE  CInv'
<1>1. q.constraints \in Seq(Constraint) /\ q.budget \in Budgets \cup {NoBudget} /\ q.timed \in BOOLEAN
  BY DEF Query
<1>2. IInv' /\ constraints' = q.constraints
  BY <1>1, BeginIInv DEF Fresh
<1> QED BY <1>2 DEF Fresh, CInv, Purpose

LEMMA HitStep ==
  ASSUME CInv, NEW q \in Query, Hit(q)
  PROVE  CInv'
<1> DEFINE k == Key(q)
<1>1. DOMAIN k.bag = Members(q)
  BY KeyMembers
<1>2. /\ UNCHANGED <<vars, carrying, entries, results, use>> /\ asked' = q
      /\ use = "none" /\ answer' = results[k]
      /\ carrying => k \in DOMAIN entries /\ Valid(entries[k], q)
      /\ ~carrying => k \in DOMAIN results
  BY DEF Hit, Asking, MayAsk, Stored, store
<1>3. Sound'
  <2> SUFFICES ASSUME ~Unrelated
               PROVE  /\ results[k] = "sat" => HasModel(q.constraints)
                      /\ results[k] = "unsat" => ~HasModel(q.constraints)
    BY <1>2 DEF Sound, AnswerSound, HasModel, Holds
  <2>1. CASE ~carrying
    <3>1. Says(results[k], Members(q))
      BY <1>1, <1>2, <2>1 DEF CInv, EntriesSound
    <3> QED BY <3>1, HasModelMembers DEF Says
  <2>2. CASE carrying
    <3> DEFINE e == entries[k]
    <3>1. EntryFits(e, results[k], Members(q))
      BY <1>1, <1>2, <2>2 DEF CInv, EntriesSound
    <3>2. CASE e.kind = "model"
      <4>1. results[k] = "sat" /\ (DOMAIN e.model = Vars => e.model \in Assignments)
        BY <3>1, <3>2 DEF EntryFits
      <4>2. ModelOf(e.model, q.constraints)
        BY <1>2, <2>2, <3>2 DEF Valid
      <4> QED BY <4>1, <4>2 DEF ModelOf, HasModel
    <3>3. CASE e.kind # "model"
      <4>1. e.kind = "none" /\ e.status = "unknown"
        BY <1>2, <2>2, <3>3 DEF Valid
      <4> QED BY <3>1, <4>1 DEF EntryFits
    <3> QED BY <3>2, <3>3
  <2> QED BY <1>2, <2>1, <2>2 DEF CInv, Purpose
<1>4. IInv'
  BY <1>2, SearchKept DEF CInv
<1>5. EntriesSound'
  BY <1>2, StoreKept DEF CInv
<1>6. Purpose'
  BY <1>2 DEF CInv, Purpose
<1> QED BY <1>3, <1>4, <1>5, <1>6 DEF CInv

LEMMA AskStep ==
  ASSUME CInv, NEW q \in Query, Miss(q) \/ Reject(q) \/ Validate(q)
  PROVE  CInv'
<1>1. CASE Miss(q)
  <2>1. EntriesSound'
    BY <1>1, StoreKept DEF CInv, Miss, Asking, store
  <2> QED BY <1>1, <2>1, FreshStep DEF CInv, Purpose, Miss, Asking, Sound, AnswerSound
<1>2. CASE Reject(q)
  <2>1. EntriesSound'
    BY <1>2, WithoutSound DEF CInv, Reject, Asking
  <2> QED BY <1>2, <2>1, FreshStep DEF CInv, Purpose, Reject, Asking, Sound, AnswerSound
<1>3. CASE Validate(q)
  <2> DEFINE k == Key(q)
             cs == entries[k].core
  <2>1. /\ carrying /\ k \in DOMAIN entries /\ entries[k].kind = "core"
        /\ asked' = q /\ use' = "validate" /\ answer' = "none"
        /\ UNCHANGED <<carrying, entries, results>>
        /\ Begin(cs, NoBudget, FALSE)
    BY <1>3 DEF Validate, Stored, Solvable, Asking, store
  <2>2. cs \in Seq(Constraint) /\ \A i \in DOMAIN cs : cs[i] \in Members(q)
    BY <2>1, KeyMembers DEF CInv, EntriesSound, EntryFits
  <2>3. IInv' /\ constraints' = cs
    BY <2>1, <2>2, BeginIInv
  <2>4. EntriesSound'
    BY <2>1, StoreKept DEF CInv
  <2>5. Purpose'
    BY <2>1, <2>2, <2>3 DEF CInv, Purpose, Members
  <2> QED BY <2>1, <2>3, <2>4, <2>5 DEF CInv, Sound, AnswerSound
<1> QED BY <1>1, <1>2, <1>3

\* A finished search is stored under the constraints it was about.
LEMMA PutStep ==
  ASSUME CInv, Put
  PROVE  CInv'
<1>1. constraints = asked.constraints /\ asked \in Query
  BY DEF CInv, Purpose, Put
<1>2. /\ status = "sat" => HasModel(asked.constraints)
      /\ status = "unsat" => ~HasModel(asked.constraints)
  BY <1>1, StatusSound DEF CInv
<1>3. Says(status, Members(asked))
  BY <1>2, HasModelMembers DEF Says
<1>4. EntryFits(Proof, status, Members(asked))
  <2>1. CASE status = "sat"
    <3>1. Proof.kind = "model" /\ Proof.model = path
      BY <2>1 DEF Proof, Model, Entry
    <3>2. path \in Assignments
      BY <2>1 DEF CInv, IInv, SatSound
    <3> QED BY <2>1, <3>1, <3>2 DEF EntryFits
  <2>2. CASE status = "unsat"
    <3>1. Proof.kind = "core" /\ Proof.core = At(constraints, remaining)
      BY <2>2 DEF Proof, Core, Entry
    <3>2. constraints \in Seq(Constraint) /\ remaining \in SUBSET DOMAIN constraints
      BY DEF CInv, IInv, TypeOK, Positions
    <3>3. /\ Proof.core \in Seq(Constraint)
          /\ \A i \in DOMAIN Proof.core : Proof.core[i] \in Members(asked)
      BY <1>1, <3>1, <3>2, PickedInRange DEF Members
    <3> QED BY <2>2, <3>1, <3>3 DEF EntryFits
  <2>3. CASE status \notin {"sat", "unsat"}
    <3>1. Proof.kind = "none" /\ Proof.status = status
      BY <2>3 DEF Proof, None, Entry
    <3> QED BY <3>1 DEF EntryFits
  <2> QED BY <2>1, <2>2, <2>3
<1>5. EntriesSound'
  <2>1. /\ EntriesSound /\ UNCHANGED carrying /\ carrying \in BOOLEAN
        /\ results' = With(results, Key(asked), status)
        /\ carrying => entries' = With(entries, Key(asked), Proof)
    BY DEF CInv, Purpose, Put
  <2> DEFINE q == asked
             e == Proof
             s == status
  <2> HIDE DEF q, e, s
  <2>2. /\ results' = With(results, Key(q), s)
        /\ carrying => entries' = With(entries, Key(q), e) /\ EntryFits(e, s, Members(q))
        /\ ~carrying => Says(s, Members(q))
    BY <1>3, <1>4, <2>1 DEF q, e, s
  <2> QED BY <2>1, <2>2, WithSound
<1>6. IInv'
  BY SearchKept DEF CInv, Put
<1>7. Purpose'
  BY DEF CInv, Purpose, Put
<1>8. Sound'
  BY <1>2 DEF Put, Sound, AnswerSound, HasModel, Holds
<1> QED BY <1>5, <1>6, <1>7, <1>8 DEF CInv

\* A core that is unsatisfiable on its own refutes the problem it is part of.
LEMMA CoreHoldsStep ==
  ASSUME CInv, CoreHolds
  PROVE  CInv'
<1>1. ~HasModel(constraints)
  BY StatusSound DEF CInv, CoreHolds
<1>2. ~HasModel(asked.constraints)
  <2>1. \A i \in DOMAIN constraints : constraints[i] \in Members(asked)
    BY DEF CInv, Purpose, CoreHolds
  <2> QED BY <1>1, <2>1, FewerHaveModel
<1>3. ~Unrelated => results[Key(asked)] = "unsat"
  BY DEF CInv, Purpose, CoreHolds, EntriesSound, EntryFits
<1>4. UNCHANGED <<vars, carrying, asked, entries, results>> /\ answer' = results[Key(asked)] /\ use' = "none"
  BY DEF CoreHolds, store
<1>5. IInv' /\ EntriesSound'
  BY <1>4, SearchKept, StoreKept DEF CInv
<1>6. Purpose'
  BY <1>4 DEF CInv, Purpose
<1>7. Sound'
  BY <1>2, <1>3, <1>4 DEF Sound, AnswerSound, HasModel, Holds
<1> QED BY <1>5, <1>6, <1>7 DEF CInv

LEMMA CoreFailsStep ==
  ASSUME CInv, CoreFails
  PROVE  CInv'
<1>1. EntriesSound'
  BY WithoutSound DEF CInv, CoreFails
<1>2. Sound'
  BY DEF CInv, CoreFails, Sound, AnswerSound, HasModel, Holds
<1> QED BY <1>1, <1>2, FreshStep DEF CInv, Purpose, CoreFails

LEMMA RaiseStep ==
  ASSUME CInv, Raise
  PROVE  CInv'
<1>1. UNCHANGED <<vars, carrying, asked, entries, results>> /\ answer' = "raised" /\ use' = "none"
  BY DEF Raise, store
<1>2. IInv' /\ EntriesSound'
  BY <1>1, SearchKept, StoreKept DEF CInv
<1> QED BY <1>1, <1>2 DEF CInv, Purpose, Sound, AnswerSound

\* What is injected is no more than a claim: a core is part of the problem, and
\* the result is the one that the proof, right or wrong, is offered for.
LEMMA InjectStep ==
  ASSUME CInv, carrying, NEW e \in Forged, NEW s, Inject(e, s), Unrelated \/ Proves(e, s)
  PROVE  CInv'
<1>1. asked \in Query /\ asked.constraints \in Seq(Constraint)
  BY DEF CInv, Purpose, Query
<1>2. e.kind = "core" =>
        /\ e.core \in Seq(Constraint)
        /\ \A i \in DOMAIN e.core : e.core[i] \in Members(asked)
  <2> HAVE e.kind = "core"
  <2>1. PICK K \in SUBSET DOMAIN asked.constraints : e = Core(At(asked.constraints, K))
    BY DEF Forged, Model, None, Entry
  <2>2. e.core = At(asked.constraints, K)
    BY <2>1 DEF Core, Entry
  <2> QED BY <1>1, <2>2, PickedInRange DEF Members
<1>3. EntryFits(e, s, Members(asked))
  BY <1>2 DEF EntryFits, Proves
<1>4. /\ entries' = With(entries, Key(asked), e) /\ results' = With(results, Key(asked), s)
      /\ UNCHANGED <<vars, carrying, asked, use>> /\ use = "none" /\ answer' = "none"
  BY DEF Inject, MayAsk
<1>5. EntriesSound'
  <2> DEFINE q == asked
  <2> HIDE DEF q
  <2>1. /\ entries' = With(entries, Key(q), e) /\ results' = With(results, Key(q), s)
        /\ EntryFits(e, s, Members(q))
    BY <1>3, <1>4 DEF q
  <2> QED BY <1>4, <2>1, WithSound DEF CInv, Purpose
<1>6. IInv'
  BY <1>4, SearchKept DEF CInv
<1> QED BY <1>4, <1>5, <1>6 DEF CInv, Purpose, Sound, AnswerSound

LEMMA StutterStep ==
  ASSUME CInv, UNCHANGED allVars
  PROVE  CInv'
<1>1. UNCHANGED <<vars, carrying, asked, use, entries, results, answer>>
  BY DEF allVars, cacheVars, store
<1>2. IInv' /\ EntriesSound'
  BY <1>1, SearchKept, StoreKept DEF CInv
<1> QED BY <1>1, <1>2 DEF CInv, vars, inputs, Purpose, Members, Sound, AnswerSound, HasModel, Holds

-----------------------------------------------------------------------------
(* The result. *)

LEMMA CacheInitial == CacheInit => CInv
<1> SUFFICES ASSUME CacheInit PROVE CInv
  OBVIOUS
<1>1. IInv
  BY InitIInv DEF CacheInit
<1>2. asked \in Query /\ asked.constraints = constraints
  BY <1>1 DEF CacheInit, Query, IInv, TypeOK
<1>3. EntriesSound
  BY DEF CacheInit, EntriesSound
<1> QED BY <1>1, <1>2, <1>3, CacheAssumption DEF CInv, CacheInit, Purpose, Sound, AnswerSound

LEMMA CacheStep ==
  ASSUME CInv, [CacheNext]_allVars
  PROVE  CInv'
<1>1. CASE Answering
  BY <1>1, SearchStep, PutStep, CoreHoldsStep, CoreFailsStep, RaiseStep DEF Answering
<1>2. ASSUME NEW G \in Groups, NEW q \in G, Miss(q) \/ Hit(q) \/ Validate(q) \/ Reject(q)
      PROVE  CInv'
  <2>1. q \in Query
    BY CacheAssumption
  <2> QED BY <1>2, <2>1, HitStep, AskStep
<1>3. CASE Corrupt
  BY <1>3, InjectStep DEF Corrupt
<1>4. CASE UNCHANGED allVars
  BY <1>4, StutterStep
<1> QED BY <1>1, <1>2, <1>3, <1>4 DEF CacheNext, Quiet

\* The solver's caches never answer SAT for a problem without a model nor UNSAT
\* for one with a model, whatever was asked before, in which order the
\* constraints came, and whatever wrong proofs were put beside wrong results into
\* the cache that carries proofs; it would, from a result that is not the one
\* proved or a model with a value in no domain (Unrelated).
THEOREM AnswersSound ==
  ASSUME ~Unrelated
  PROVE  CacheSpec => []AnswerSound
<1>1. CInv => AnswerSound
  BY DEF CInv, Sound
<1> QED BY <1>1, CacheInitial, CacheStep, PTL DEF CacheSpec

-----------------------------------------------------------------------------
(***************************************************************************)
(* Abstentions are kept apart: the options are part of the key, so UNKNOWN *)
(* is only answered to a query without budget and deadline when one of its *)
(* own expressions raises.                                                 *)
(***************************************************************************)

\* One of the constraints C raises on some assignment.
Raises(C) == \E x \in Assignments, c \in C : c.value[[j \in c.over |-> x[j]]] = "raises"

\* What an abstention under a key is due to, unless it was put there.
EntriesApart ==
    \A k \in DOMAIN results :
        results[k] = "unknown" /\ k.budget = NoBudget /\ ~k.timed /\ k \notin forgone =>
            Raises(DOMAIN k.bag)

\* The search has the options of the query.
Options == use = "solve" => budget = asked.budget /\ timed = asked.timed

\* A query that is being answered has no answer yet.
Unanswered == use # "none" => answer = "none"

AInv == EntriesApart /\ Options /\ Unanswered /\ Cause /\ AbstentionsApart

LEMMA ApartMembers ==
  ASSUME NEW q
  PROVE  Raises(Members(q)) <=>
            \E x \in Assignments, i \in DOMAIN q.constraints :
                LET c == q.constraints[i] IN c.value[[j \in c.over |-> x[j]]] = "raises"
  BY DEF Raises, Members

\* The key of a query has its options.
LEMMA KeyOptions ==
  ASSUME NEW q
  PROVE  Key(q).budget = q.budget /\ Key(q).timed = q.timed
  BY DEF Key

\* Taken up afresh, a query has no answer yet.
LEMMA FreshApart ==
  ASSUME NEW q, Fresh(q), asked' = q, answer' = "none", EntriesApart'
  PROVE  AInv'
  BY DEF Fresh, Begin, AInv, Options, Unanswered, Cause, AbstentionsApart

LEMMA SearchApart ==
  ASSUME CInv, AInv, Search
  PROVE  AInv'
<1>1. Cause'
  <2>1. [Next]_vars
    BY DEF Search, Next
  <2> QED BY <2>1, CauseStep DEF CInv, IInv, AInv
<1>2. UNCHANGED <<constraints, budget, timed, cacheVars>>
  BY SolveInputs DEF Search, inputs
<1> QED BY <1>1, <1>2 DEF AInv, cacheVars, store, EntriesApart, Raises, Assignments, Options,
                          Unanswered, AbstentionsApart

LEMMA CauseKept ==
  ASSUME Cause, UNCHANGED vars
  PROVE  Cause'
  BY DEF vars, inputs, result, Cause, Evaluate, Positions

LEMMA PutApart ==
  ASSUME CInv, AInv, Put
  PROVE  AInv'
<1>1. constraints = asked.constraints /\ budget = asked.budget /\ timed = asked.timed
  BY DEF CInv, Purpose, AInv, Options, Put
<1>2. ASSUME status = "unknown", asked.budget = NoBudget, ~asked.timed
      PROVE  Raises(Members(asked))
  <2>1. \E x \in Assignments, k \in Positions : Evaluate(k, x) = "raises"
    BY <1>1, <1>2 DEF AInv, Cause
  <2> QED BY <1>1, <2>1, ApartMembers DEF Evaluate, Positions
<1>3. EntriesApart'
  <2>1. /\ DOMAIN results' = DOMAIN results \cup {Key(asked)} /\ results'[Key(asked)] = status
        /\ \A k \in DOMAIN results' : k # Key(asked) => k \in DOMAIN results /\ results'[k] = results[k]
        /\ forgone' = forgone
    BY DEF Put, With
  <2>2. ASSUME NEW k \in DOMAIN results',
               results'[k] = "unknown", k.budget = NoBudget, ~k.timed, k \notin forgone
        PROVE  Raises(DOMAIN k.bag)
    <3>1. CASE k = Key(asked)
      BY <1>2, <2>1, <2>2, <3>1, KeyMembers, KeyOptions
    <3>2. CASE k # Key(asked)
      BY <2>1, <2>2, <3>2 DEF AInv, EntriesApart
    <3> QED BY <3>1, <3>2
  <2> QED BY <2>1, <2>2 DEF EntriesApart, Raises, Assignments
<1>4. Cause'
  BY CauseKept DEF AInv, Put
<1>5. AbstentionsApart'
  BY <1>2, ApartMembers DEF Put, AbstentionsApart
<1> QED BY <1>3, <1>4, <1>5 DEF AInv, Options, Unanswered, Put

\* What the store repeats is due to what it was stored for.
LEMMA RepeatApart ==
  ASSUME EntriesApart, UNCHANGED <<results, forgone>>, NEW q, asked' = q,
         Key(q) \in DOMAIN results, answer' = results[Key(q)]
  PROVE  AbstentionsApart'
<1>1. ASSUME answer' = "unknown", q.budget = NoBudget, ~q.timed, Key(q) \notin forgone
      PROVE  Raises(Members(q))
  BY <1>1, KeyMembers, KeyOptions DEF EntriesApart
<1> QED BY <1>1, ApartMembers DEF AbstentionsApart

LEMMA StoreApart ==
  ASSUME EntriesApart, UNCHANGED <<results, forgone>>
  PROVE  EntriesApart'
  BY DEF EntriesApart, Raises, Assignments

LEMMA DiscardApart ==
  ASSUME EntriesApart, NEW q, Discard(q)
  PROVE  EntriesApart'
  BY DEF EntriesApart, Discard, Without, Raises, Assignments

LEMMA AskApart ==
  ASSUME CInv, AInv, NEW q \in Query, Miss(q) \/ Hit(q) \/ Validate(q) \/ Reject(q)
  PROVE  AInv'
<1>1. CASE Miss(q)
  BY <1>1, StoreApart, FreshApart DEF Miss, Asking, AInv, store
<1>2. CASE Reject(q)
  BY <1>2, DiscardApart, FreshApart DEF Reject, Asking, AInv
<1>3. CASE Validate(q)
  <2>1. EntriesApart'
    BY <1>3, StoreApart DEF Validate, AInv, store
  <2> QED BY <1>3, <2>1 DEF Validate, Begin, AInv, Options, Unanswered, Cause, AbstentionsApart
<1>4. CASE Hit(q)
  <2>1. /\ answer' = results[Key(q)] /\ asked' = q
        /\ use = "none" /\ UNCHANGED <<vars, use, results, forgone>>
    BY <1>4 DEF Hit, Asking, MayAsk, store
  <2>2. Key(q) \in DOMAIN results
    BY <1>4 DEF Hit, Stored, CInv, EntriesSound
  <2>3. EntriesApart' /\ AbstentionsApart'
    BY <2>1, <2>2, StoreApart, RepeatApart DEF AInv
  <2>4. Cause'
    BY <2>1, CauseKept DEF AInv
  <2> QED BY <2>1, <2>3, <2>4 DEF AInv, Options, Unanswered
<1> QED BY <1>1, <1>2, <1>3, <1>4

\* An abstention that is injected is taken note of.
LEMMA InjectApart ==
  ASSUME AInv, NEW e, NEW s, Inject(e, s)
  PROVE  AInv'
<1>1. /\ results' = With(results, Key(asked), s) /\ answer' = "none" /\ use = "none"
      /\ forgone' = IF s = "unknown" THEN forgone \cup {Key(asked)} ELSE forgone \ {Key(asked)}
      /\ UNCHANGED <<vars, use>>
  BY DEF Inject, MayAsk
<1>2. EntriesApart'
  <2>1. ASSUME NEW k \in DOMAIN results', results'[k] = "unknown", k \notin forgone'
        PROVE  k \in DOMAIN results /\ results[k] = "unknown" /\ k \notin forgone
    <3> DEFINE j == Key(asked)
    <3> HIDE DEF j
    <3>1. /\ results' = [i \in DOMAIN results \cup {j} |-> IF i = j THEN s ELSE results[i]]
          /\ forgone' = IF s = "unknown" THEN forgone \cup {j} ELSE forgone \ {j}
      BY <1>1 DEF With, j
    <3>2. k # j
      BY <2>1, <3>1
    <3> QED BY <2>1, <3>1, <3>2
  <2> QED BY <2>1 DEF AInv, EntriesApart, Raises, Assignments
<1>3. Cause'
  BY <1>1, CauseKept DEF AInv
<1> QED BY <1>1, <1>2, <1>3 DEF AInv, Options, Unanswered, AbstentionsApart

LEMMA CacheApart ==
  ASSUME CInv, AInv, [CacheNext]_allVars
  PROVE  AInv'
<1>1. CASE Search
  BY <1>1, SearchApart
<1>2. CASE Put
  BY <1>2, PutApart
<1>3. CASE CoreFails
  <2>1. EntriesApart' /\ answer' = "none"
    BY <1>3, DiscardApart DEF CoreFails, AInv, Unanswered
  <2> QED BY <1>3, <2>1, FreshApart DEF CoreFails
<1>4. CASE CoreHolds \/ Raise
  <2>1. UNCHANGED <<vars, asked, results, forgone>> /\ use' = "none"
    BY <1>4 DEF CoreHolds, Raise, store
  <2>2. EntriesApart' /\ Cause'
    BY <2>1, StoreApart, CauseKept DEF AInv
  <2>3. AbstentionsApart'
    <3>1. CASE CoreHolds
      <4>1. Key(asked) \in DOMAIN results
        BY <3>1 DEF CoreHolds, CInv, Purpose, EntriesSound
      <4> QED BY <2>1, <3>1, <4>1, RepeatApart DEF CoreHolds, AInv
    <3>2. CASE Raise
      BY <3>2 DEF Raise, AbstentionsApart
    <3> QED BY <1>4, <3>1, <3>2
  <2> QED BY <2>1, <2>2, <2>3 DEF AInv, Options, Unanswered
<1>5. ASSUME NEW G \in Groups, NEW q \in G, Miss(q) \/ Hit(q) \/ Validate(q) \/ Reject(q)
      PROVE  AInv'
  BY <1>5, CacheAssumption, AskApart
<1>6. CASE Corrupt
  BY <1>6, InjectApart DEF Corrupt
<1>7. CASE UNCHANGED allVars
  <2>1. Cause'
    BY <1>7, CauseKept DEF allVars, AInv
  <2> QED BY <1>7, <2>1 DEF allVars, cacheVars, store, vars, inputs, AInv, EntriesApart, Raises,
                            Assignments, Options, Unanswered, AbstentionsApart
<1> QED BY <1>1, <1>2, <1>3, <1>4, <1>5, <1>6, <1>7 DEF CacheNext, Answering, Quiet

\* A query without budget and deadline never gets the abstention of one that had
\* them, through either cache, unless an abstention was put there.
THEOREM NoForeignAbstention == CacheSpec => []AbstentionsApart
<1>1. CacheInit => AInv
  BY DEF CacheInit, Init, AInv, EntriesApart, Options, Unanswered, Cause, AbstentionsApart
<1>2. AInv => AbstentionsApart
  BY DEF AInv
<1> QED BY <1>1, <1>2, CacheInitial, CacheStep, CacheApart, PTL DEF CacheSpec
=============================================================================
