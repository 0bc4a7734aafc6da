------------------------ MODULE AffectedChecksProofs ------------------------
(***************************************************************************)
(* The closure loop of the incremental planner computes the least closed   *)
(* selection, and what it skips the certificate accepts: for every         *)
(* dependency table and every request.                                     *)
(***************************************************************************)
EXTENDS AffectedChecks, TLAPS

\* c draws nothing more into the selection.
Settled(c) ==
    /\ Follows(table, c, selected) => c \in selected
    /\ c \in selected => table.after[c] \cap Requested \subseteq selected

\* A selection the loop may end with.
Candidate(S) ==
    /\ Seeded \subseteq S
    /\ CutClosed(table, Requested, S)

\* The seeds stay selected and nothing is selected that a candidate lacks.
Bounds ==
    /\ Seeded \subseteq selected
    /\ \A S \in SUBSET Requested : Candidate(S) => selected \subseteq S

\* As long as a sweep has selected nothing, the checks behind it are settled.
Swept ==
    /\ ~changed => \A i \in 1..(index - 1) : Settled(request[i])
    /\ pc = "done" => ~changed /\ index = Len(request) + 1

IInv == TypeOK /\ Bounds /\ Swept

\* The seeds are requested checks.
LEMMA SeedsRequested == Seeded \subseteq Requested
  BY DEF Seeded, Seeds

\* The sets and sequences a request and a table are made of.
LEMMA Shapes ==
  ASSUME TypeOK
  PROVE  /\ Len(request) \in Nat
         /\ DOMAIN request = 1..Len(request)
         /\ Requested \subseteq Names
         /\ \A n \in Names : table.after[n] \subseteq Names /\ table.kinds[n] \subseteq Kinds
  BY DEF TypeOK, Requested, DependencyTable

LEMMA InitInvariant == Init => IInv
<1> SUFFICES ASSUME Init PROVE IInv
  OBVIOUS
<1>1. TypeOK
  <2>1. request \in Seq(Names) /\ table \in DependencyTable(Names, Kinds)
    BY AffectedAssumption DEF Init
  <2>2. 1 \in 1..(Len(request) + 1)
    BY <2>1
  <2> QED BY <2>1, <2>2, SeedsRequested DEF Init, TypeOK
<1>2. Bounds
  BY DEF Init, Bounds, Candidate
<1>3. Swept
  BY DEF Init, Swept
<1> QED BY <1>1, <1>2, <1>3 DEF IInv

\* One iteration of the for loop.
LEMMA VisitInvariant ==
  ASSUME IInv, Visit
  PROVE  IInv'
<1> DEFINE c == request[index]
<1>1. c \in Requested
  BY DEF Visit, Requested
<1>2. Requested' = Requested /\ Seeded' = Seeded
  BY DEF Visit, inputs, Requested, Seeded
<1>3. selected \subseteq selected' /\ selected' \subseteq Requested
  BY <1>1 DEF IInv, TypeOK, Visit, Visited
<1>4. TypeOK'
  BY <1>2, <1>3, Shapes DEF IInv, TypeOK, Visit, inputs
<1>5. Bounds'
  <2>1. ASSUME NEW S \in SUBSET Requested, Candidate(S)
        PROVE  selected' \subseteq S
    <3>1. selected \subseteq S
      BY <2>1 DEF IInv, Bounds
    <3>2. Follows(table, c, selected) \/ c \in selected => c \in S
      BY <1>1, <2>1, <3>1 DEF Candidate, CutClosed, Follows
    <3>3. c \in S => table.after[c] \cap Requested \subseteq S
      BY <1>1, <2>1 DEF Candidate, CutClosed
    <3> QED BY <3>1, <3>2, <3>3 DEF Visit, Visited
  <2>2. \A S : Candidate(S)' <=> Candidate(S)
    BY <1>2 DEF Candidate, Visit, inputs
  <2> QED BY <1>2, <1>3, <2>1, <2>2 DEF IInv, Bounds
<1>6. Swept'
  <2>1. pc' # "done"
    BY DEF Visit
  <2>2. ASSUME ~changed'
        PROVE  \A i \in 1..(index' - 1) : Settled(request[i])'
    <3>1. ~changed /\ selected' = selected
      BY <2>2 DEF Visit, IInv, TypeOK
    <3>2. \A x : Settled(x)' <=> Settled(x)
      BY <1>2, <3>1 DEF Settled, Visit, inputs
    <3>3. Settled(c)
      BY <1>1, <3>1 DEF Visit, Visited, Settled
    <3>4. \A i \in 1..(index - 1) : Settled(request[i])
      BY <3>1 DEF IInv, Swept
    <3>5. index \in Nat /\ index' = index + 1 /\ request' = request
      BY DEF Visit, IInv, TypeOK, inputs
    <3> QED BY <3>2, <3>3, <3>4, <3>5
  <2> QED BY <2>1, <2>2 DEF Swept
<1> QED BY <1>4, <1>5, <1>6 DEF IInv

LEMMA InductiveStep == IInv /\ [Next]_vars => IInv'
<1> SUFFICES ASSUME IInv, [Next]_vars PROVE IInv'
  OBVIOUS
<1> USE DEF IInv
<1>1. CASE Visit
  BY <1>1, VisitInvariant
<1>2. CASE SweepAgain
  <2>1. TypeOK'
    <3>1. 1 \in 1..(Len(request) + 1)
      BY Shapes
    <3> QED BY <1>2, <3>1 DEF TypeOK, SweepAgain, inputs, Requested
  <2>2. Bounds'
    BY <1>2 DEF Bounds, SweepAgain, inputs, Candidate, Requested, Seeded
  <2>3. Swept'
    BY <1>2 DEF Swept, SweepAgain
  <2> QED BY <2>1, <2>2, <2>3
<1>3. CASE Finish
  <2>1. TypeOK'
    BY <1>3 DEF TypeOK, Finish, inputs, Requested
  <2>2. Bounds'
    BY <1>3 DEF Bounds, Finish, inputs, Candidate, Requested, Seeded
  <2>3. Swept'
    <3>1. index = Len(request) + 1
      BY <1>3, Shapes DEF Finish, TypeOK
    <3> QED BY <1>3, <3>1 DEF Swept, Finish, inputs, Settled, Requested
  <2> QED BY <2>1, <2>2, <2>3
<1>4. CASE UNCHANGED vars
  <2>1. TypeOK'
    BY <1>4 DEF vars, TypeOK, Requested
  <2>2. Bounds'
    BY <1>4 DEF vars, Bounds, Candidate, Requested, Seeded
  <2>3. Swept'
    BY <1>4 DEF vars, Swept, Settled, Requested
  <2> QED BY <2>1, <2>2, <2>3
<1> QED BY <1>1, <1>2, <1>3, <1>4 DEF Next, Loop, Ended

\* The invariant holds throughout a run of the loop.
THEOREM Invariance == Spec => []IInv
<1>1. Init => IInv
  BY InitInvariant
<1>2. IInv /\ [Next]_vars => IInv'
  BY InductiveStep
<1> QED BY <1>1, <1>2, PTL DEF Spec

\* Only requested checks are ever selected (TypeOK).
THEOREM TypeCorrect == Spec => []TypeOK
<1>1. IInv => TypeOK
  BY DEF IInv
<1> QED BY <1>1, Invariance, PTL

\* A loop that ended has a closed selection.
LEMMA EndsClosed ==
  ASSUME IInv, pc = "done"
  PROVE  CutClosed(table, Requested, selected)
<1>1. \A c \in Requested : Settled(c)
  BY Shapes DEF IInv, Swept, Requested
<1> QED BY <1>1 DEF CutClosed, Settled

\* The loop computes the least closed selection (LeastCut).
THEOREM ComputesLeastCut == Spec => []LeastCut
<1>1. IInv => LeastCut
  <2> SUFFICES ASSUME IInv, pc = "done"
               PROVE  selected = Affected(table, Requested, changedKinds, remoteKinds)
    BY DEF LeastCut
  <2>1. CutClosed(table, Requested, selected)
    BY EndsClosed
  <2>2. selected \in SUBSET Requested /\ Seeded \subseteq selected
    BY DEF IInv, TypeOK, Bounds
  <2>3. \A S \in SUBSET Requested : Candidate(S) => selected \subseteq S
    BY DEF IInv, Bounds
  <2> QED BY <2>1, <2>2, <2>3 DEF Affected, Candidate, Seeded
<1> QED BY <1>1, Invariance, PTL

\* Every skipped check that declares kinds passes the certificate's obligations
\* on the plan (PlanCertified).
THEOREM SkippedAreCertified == Spec => []PlanCertified
<1>1. IInv => PlanCertified
  <2> SUFFICES ASSUME IInv, pc = "done",
                      NEW c \in Requested \ selected, table.kinds[c] # {}
               PROVE  CutProved(table, Requested, selected, changedKinds, remoteKinds, c)
    BY DEF PlanCertified
  <2>1. CutClosed(table, Requested, selected)
    BY EndsClosed
  <2>2. c \in Names /\ selected \subseteq Requested
    BY Shapes DEF IInv, TypeOK
  <2>3. c \in table.known
    BY <2>2 DEF IInv, TypeOK, DependencyTable
  <2>4. table.kinds[c] \cap (changedKinds \cup remoteKinds) = {}
    BY DEF IInv, Bounds, Seeded, Seeds
  <2>5. table.after[c] \cap selected = {}
    BY <2>1 DEF CutClosed, Follows
  <2>6. \A s \in selected : c \notin table.after[s]
    BY <2>1, <2>2 DEF CutClosed
  <2> QED BY <2>3, <2>4, <2>5, <2>6 DEF CutProved
<1> QED BY <1>1, Invariance, PTL

=============================================================================
