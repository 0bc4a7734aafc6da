------------------------ MODULE CheckSchedulerProofs ------------------------
(***************************************************************************)
(* Proofs about CheckScheduler, for every set of requests, registries and  *)
(* every pool size: type correctness, resource exclusion, the order of     *)
(* prerequisites, completeness of the report, that nothing runs twice or   *)
(* outlives the call, and the order in which diagnostics are reported.     *)
(***************************************************************************)
EXTENDS CheckScheduler, SequenceTheorems, FiniteSetTheorems, WellFoundedInduction, TLAPS

-----------------------------------------------------------------------------
(* The inductive invariant. *)

\* c belongs to the round in progress and is not merged yet.
InRound(c) == c \in unplaced \/ c \in batch \/ \E i \in DOMAIN batches : c \in batches[i]

\* The main thread's locals are empty outside the part of the loop that uses
\* them, and the parts of a round do not overlap.
Shape ==
    /\ pc # "pack" => unplaced = {}
    /\ pc \in {"round", "done"} => batches = << >>
    /\ pc \in {"round", "pack", "done"} => batch = {}
    /\ pc = "done" => pending = {}
    /\ \A i \in DOMAIN batches : batches[i] \cap batch = {} /\ batches[i] \cap unplaced = {}
    /\ \A i, j \in DOMAIN batches : i # j => batches[i] \cap batches[j] = {}

\* Batches are free of resource conflicts from the time they are packed.
FreeOfConflicts(b) == \A c, d \in b : c # d => ~Conflict(c, d)
Packed == FreeOfConflicts(batch) /\ \A i \in DOMAIN batches : FreeOfConflicts(batches[i])

\* A check has an outcome exactly when a thread has executed it.
Futures ==
    /\ queued \cap running = {}
    /\ \A c \in queued \cup running : outcome[c] = "none"
    /\ \A c \in pending \ batch : outcome[c] = "none"
    /\ \A c \in batch \ (queued \cup running) : outcome[c] # "none"
    /\ \A c \in batch \ waiting : outcome[c] \in Reported
    /\ pc = "aborted" => queued = {} /\ running = {}

\* What is merged is what left the pending list.
Merged ==
    /\ completed = {request[c] : c \in Ordinals \ pending}
    /\ \A c \in Ordinals \ pending : outcome[c] \in Reported
    /\ \A c \in Ordinals \ pending : \E i \in DOMAIN results : results[i] = c
    /\ \A i \in DOMAIN results : results[i] \notin pending
    /\ \A i, j \in DOMAIN results : i # j => results[i] # results[j]

\* Checks of one name that no cycle dooms enter the same round.
Together ==
    \A c \in pending, d \in Ordinals :
        (request[c] = request[d] /\ request[c] \notin Doomed /\ (d \notin pending \/ InRound(d)))
            => InRound(c)

\* The prerequisites of a check of this round, unless doomed, are merged.
Prepared ==
    \A c, d \in Ordinals :
        (InRound(c) /\ request[c] \notin Doomed /\ request[d] \in After(c)) => d \notin pending

IInv == TypeOK /\ Shape /\ Packed /\ Futures /\ Merged /\ Together /\ Prepared

-----------------------------------------------------------------------------
(* Initial states. *)

LEMMA InitInvariant == Init => IInv
<1> SUFFICES ASSUME Init PROVE IInv
  OBVIOUS
<1>1. request \in Seq(Names) /\ registry \in Registry
  BY SchedulerAssumption DEF Init
<1>2. TypeOK
  BY <1>1 DEF Init, TypeOK, Selected, Ordinals
<1>3. ~\E c \in Ordinals : InRound(c)
  BY DEF Init, InRound
<1>4. Shape /\ Packed /\ Futures /\ Merged
  BY DEF Init, Shape, Packed, FreeOfConflicts, Futures, Merged, Ordinals, Reported
<1>5. Together /\ Prepared
  BY <1>3 DEF Init, Together, Prepared
<1>6. QED
  BY <1>2, <1>4, <1>5 DEF IInv

-----------------------------------------------------------------------------
(* The sequence merged for a batch lists the batch once.                    *)

\* As many numbers as the last of them.
LEMMA SegmentCounted == \A m \in Nat : IsFiniteSet(1..m) /\ Cardinality(1..m) = m
BY FS_Interval

\* The ordinals of a request are finitely many natural numbers.
LEMMA OrdinalsFinite ==
  ASSUME request \in Seq(Names), NEW S \in SUBSET Ordinals
  PROVE  IsFiniteSet(S) /\ S \subseteq Nat
<1>1. Len(request) \in Nat /\ Ordinals = 1..Len(request)
  BY DEF Ordinals
<1>2. IsFiniteSet(Ordinals)
  BY <1>1, FS_Interval
<1>3. IsFiniteSet(S)
  BY <1>2, FS_Subset
<1>4. S \subseteq Nat
  BY <1>1
<1>5. QED
  BY <1>3, <1>4

\* A strictly increasing enumeration of a finite set of numbers reaches every
\* element once: what results.extend adds is the whole batch.
LEMMA SortedEnumerates ==
  ASSUME NEW S \in SUBSET Nat, IsFiniteSet(S), NEW s \in Sorted(S)
  PROVE  /\ s \in Seq(S)
         /\ \A i, j \in DOMAIN s : i # j => s[i] # s[j]
         /\ \A c \in S : \E i \in DOMAIN s : s[i] = c
<1> DEFINE n == Cardinality(S)
<1>1. n \in Nat
  BY FS_CardinalityType
<1>2. s \in [1..n -> S] /\ \A i, j \in 1..n : i < j => s[i] < s[j]
  BY DEF Sorted
<1>3. \A i, j \in 1..n : i # j => s[i] # s[j]
  <2> SUFFICES ASSUME NEW i \in 1..n, NEW j \in 1..n, i # j PROVE s[i] # s[j]
    OBVIOUS
  <2>1. s[i] \in Nat /\ s[j] \in Nat
    BY <1>2
  <2>2. i < j \/ j < i
    BY <1>1
  <2>3. QED
    BY <1>2, <2>1, <2>2
<1>4. s \in Injection(1..n, S)
  BY <1>2, <1>3 DEF Injection, IsInjective
<1>5. Cardinality(1..n) = n
  BY <1>1, FS_Interval
<1>6. s \in Surjection(1..n, S)
  BY <1>4, <1>5, FS_Injection
<1>7. s \in Seq(S)
  BY <1>1, <1>2
<1>8. QED
  BY <1>2, <1>3, <1>6, <1>7 DEF Surjection

-----------------------------------------------------------------------------
(* Type correctness of a step. *)

LEMMA TypeStep == IInv /\ [Next]_vars => TypeOK'
<1> SUFFICES ASSUME IInv, [Next]_vars PROVE TypeOK'
  OBVIOUS
<1> USE DEF IInv
<1>0. TypeOK /\ Shape
  OBVIOUS
<1>1. CASE PickReady
  BY <1>0, <1>1 DEF PickReady, TypeOK, Selected, Ordinals, Ready, inputs, pool
<1>2. CASE ForceLeast
  BY <1>0, <1>2 DEF ForceLeast, TypeOK, Selected, Ordinals, Least, inputs, pool
<1>3. CASE Submit
  <2>1. batches # << >> /\ batches \in Seq(SUBSET pending)
    BY <1>0, <1>3 DEF Submit, TypeOK
  <2>2. Head(batches) \in SUBSET pending /\ Tail(batches) \in Seq(SUBSET pending)
    BY <2>1
  <2>3. queued = {} /\ running = {}
    BY <1>0, <1>3 DEF Submit, TypeOK, Shape
  <2>4. QED
    BY <1>0, <1>3, <2>2, <2>3 DEF Submit, TypeOK, Selected, Ordinals, inputs
<1>4. CASE Merge
  <2>1. PICK s \in Sorted(batch) : results' = results \o s
    BY <1>4 DEF Merge
  <2>2. IsFiniteSet(batch) /\ batch \in SUBSET Nat
    BY <1>0, OrdinalsFinite DEF TypeOK
  <2>3. s \in Seq(batch)
    BY <2>2, SortedEnumerates
  <2>4. results' \in Seq(Ordinals)
    <3>1. s \in Seq(Ordinals)
      BY <1>0, <2>3 DEF TypeOK
    <3>2. QED
      BY <1>0, <2>1, <3>1 DEF TypeOK
  <2>5. batches \in Seq(SUBSET (pending \ batch))
    BY <1>0 DEF TypeOK, Shape
  <2>6. unplaced = {} /\ pc' = "pack"
    BY <1>0, <1>4 DEF Merge, Shape
  <2>7. completed' \subseteq Selected
    BY <1>0, <1>4 DEF Merge, TypeOK, Selected
  <2>8. QED
    BY <1>0, <1>4, <2>4, <2>5, <2>6, <2>7 DEF Merge, TypeOK, Selected, Ordinals, inputs, pool
<1>5. CASE RoundDone \/ Return \/ Unwind \/ Interrupt
  BY <1>0, <1>5 DEF RoundDone, Return, Unwind, Interrupt, TypeOK, Selected, Ordinals, inputs, round, pool
<1>6. ASSUME NEW c \in Ordinals, Place(c) PROVE TypeOK'
  <2>1. unplaced' \subseteq pending /\ {c} \in SUBSET pending
    BY <1>0, <1>6 DEF Place, Least, TypeOK
  <2>2. batches' \in Seq(SUBSET pending)
    <3>1. batches \in Seq(SUBSET pending)
      BY <1>0 DEF TypeOK
    <3>2. CASE batches' = Append(batches, {c})
      BY <2>1, <3>1, <3>2
    <3>3. ASSUME NEW i \in DOMAIN batches, batches' = [batches EXCEPT ![i] = @ \cup {c}]
          PROVE  batches' \in Seq(SUBSET pending)
      <4>1. batches[i] \cup {c} \in SUBSET pending
        BY <2>1, <3>1
      <4>2. QED
        BY <3>1, <3>3, <4>1
    <3>4. QED
      BY <1>6, <3>2, <3>3 DEF Place
  <2>3. QED
    BY <1>0, <1>6, <2>1, <2>2 DEF Place, TypeOK, Selected, Ordinals, inputs, pool
<1>7. ASSUME NEW c \in Ordinals, Collect(c) \/ Raise(c) PROVE TypeOK'
  BY <1>0, <1>7 DEF Collect, Raise, TypeOK, Selected, Ordinals, inputs, round, pool
<1>8. ASSUME NEW c \in Ordinals, Start(c) PROVE TypeOK'
  BY <1>0, <1>8 DEF Start, Least, TypeOK, Selected, Ordinals, inputs, round
<1>9. ASSUME NEW c \in Ordinals, Finish(c) PROVE TypeOK'
  BY <1>0, <1>9 DEF Finish, TypeOK, Selected, Ordinals, inputs, round
<1>10. CASE UNCHANGED vars
  BY <1>0, <1>10 DEF vars, TypeOK, Selected, Ordinals
<1>11. QED
  BY <1>1, <1>2, <1>3, <1>4, <1>5, <1>6, <1>7, <1>8, <1>9, <1>10 DEF Next, Main, Worker, Ended

-----------------------------------------------------------------------------
(* Steps and the shape of a round. *)

\* Packing puts the check into one batch without conflicts, new or old, and
\* leaves the other batches as they are.
LEMMA PlaceEffect ==
  ASSUME TypeOK, NEW c, Place(c)
  PROVE  /\ DOMAIN batches \subseteq DOMAIN batches'
         /\ \E k \in DOMAIN batches' :
              /\ \A j \in DOMAIN batches' : j # k => j \in DOMAIN batches /\ batches'[j] = batches[j]
              /\ k \in DOMAIN batches => batches'[k] = batches[k] \cup {c} /\ Fits(c, batches[k])
              /\ k \notin DOMAIN batches => batches'[k] = {c}
<1>1. batches \in Seq(SUBSET pending)
  BY DEF TypeOK
<1>2. CASE batches' = Append(batches, {c})
  BY <1>1, <1>2
<1>3. ASSUME NEW i \in DOMAIN batches, Fits(c, batches[i]),
             batches' = [batches EXCEPT ![i] = @ \cup {c}]
      PROVE  /\ DOMAIN batches' = DOMAIN batches
             /\ batches'[i] = batches[i] \cup {c}
             /\ \A j \in DOMAIN batches' : j # i => batches'[j] = batches[j]
  BY <1>1, <1>3
<1>4. CASE \E i \in DOMAIN batches : Fits(c, batches[i]) /\ batches' = [batches EXCEPT ![i] = @ \cup {c}]
  BY <1>3, <1>4
<1>5. QED
  BY <1>2, <1>4 DEF Place

LEMMA ShapeStep == IInv /\ [Next]_vars => Shape'
<1> SUFFICES ASSUME IInv, [Next]_vars PROVE Shape'
  OBVIOUS
<1>0. TypeOK /\ Shape
  BY DEF IInv
<1>1. CASE PickReady \/ ForceLeast \/ RoundDone \/ Return
  BY <1>0, <1>1 DEF PickReady, ForceLeast, RoundDone, Return, Shape, round
<1>2. CASE Submit
  <2>1. batches # << >> /\ batches \in Seq(SUBSET pending) /\ batch = {} /\ unplaced = {}
    BY <1>0, <1>2 DEF Submit, TypeOK, Shape
  <2>2. \A i \in DOMAIN batches' : i + 1 \in DOMAIN batches /\ i + 1 # 1 /\ batches'[i] = batches[i + 1]
    BY <1>2, <2>1 DEF Submit
  <2>3. batch' = batches[1] /\ 1 \in DOMAIN batches
    BY <1>2, <2>1 DEF Submit
  <2>4. \A i \in DOMAIN batches' : batches'[i] \cap batch' = {}
    BY <1>0, <2>2, <2>3 DEF Shape
  <2>5. \A i, j \in DOMAIN batches' : i # j => batches'[i] \cap batches'[j] = {}
    <3> SUFFICES ASSUME NEW i \in DOMAIN batches', NEW j \in DOMAIN batches', i # j
                 PROVE  batches'[i] \cap batches'[j] = {}
      OBVIOUS
    <3>1. i \in Nat /\ j \in Nat
      BY <1>2, <2>1 DEF Submit
    <3>2. i + 1 # j + 1
      BY <3>1
    <3>3. QED
      BY <1>0, <2>2, <3>2 DEF Shape
  <2>6. pc' = "collect" /\ unplaced' = {}
    BY <1>2, <2>1 DEF Submit
  <2>7. QED
    BY <2>4, <2>5, <2>6 DEF Shape
<1>3. CASE Merge
  BY <1>0, <1>3 DEF Merge, Shape
<1>4. CASE Unwind \/ Interrupt
  BY <1>0, <1>4 DEF Unwind, Interrupt, Shape, round
<1>5. ASSUME NEW c \in Ordinals, Place(c) PROVE Shape'
  <2>1. PICK k \in DOMAIN batches' :
              /\ \A j \in DOMAIN batches' : j # k => j \in DOMAIN batches /\ batches'[j] = batches[j]
              /\ k \in DOMAIN batches => batches'[k] = batches[k] \cup {c}
              /\ k \notin DOMAIN batches => batches'[k] = {c}
    BY <1>0, <1>5, PlaceEffect
  <2>2. pc = "pack" /\ pc' = "pack" /\ batch = {} /\ batch' = {}
    BY <1>0, <1>5 DEF Place, Shape
  <2>3. c \in unplaced /\ unplaced' = unplaced \ {c}
    BY <1>5 DEF Place, Least
  <2>4. \A j \in DOMAIN batches : batches[j] \cap unplaced = {}
    BY <1>0 DEF Shape
  <2>5. \A j \in DOMAIN batches' : batches'[j] \cap unplaced' = {}
    BY <2>1, <2>3, <2>4
  <2>6. \A i, j \in DOMAIN batches' : i # j => batches'[i] \cap batches'[j] = {}
    <3>1. \A i, j \in DOMAIN batches : i # j => batches[i] \cap batches[j] = {}
      BY <1>0 DEF Shape
    <3>2. \A j \in DOMAIN batches' : j # k => batches'[j] \cap batches'[k] = {}
      BY <2>1, <2>3, <2>4, <3>1
    <3>3. QED
      BY <2>1, <3>1, <3>2
  <2>7. QED
    BY <2>2, <2>5, <2>6 DEF Shape
<1>6. ASSUME NEW c \in Ordinals, Collect(c) \/ Raise(c) \/ Start(c) \/ Finish(c) PROVE Shape'
  BY <1>0, <1>6 DEF Collect, Raise, Start, Finish, Shape, round
<1>7. CASE UNCHANGED vars
  BY <1>0, <1>7 DEF vars, Shape
<1>8. QED
  BY <1>1, <1>2, <1>3, <1>4, <1>5, <1>6, <1>7 DEF Next, Main, Worker, Ended

\* The inputs of a run never change.
LEMMA InputsFixed ==
  ASSUME [Next]_vars
  PROVE  request' = request /\ registry' = registry
BY DEF Next, Main, Worker, Ended, PickReady, ForceLeast, Place, Submit, Collect, Merge,
       RoundDone, Return, Raise, Interrupt, Unwind, Start, Finish, inputs, vars

-----------------------------------------------------------------------------
(* Resource conflicts. *)

LEMMA PackedStep == IInv /\ [Next]_vars => Packed'
<1> SUFFICES ASSUME IInv, [Next]_vars PROVE Packed'
  OBVIOUS
<1>0. TypeOK /\ Shape /\ Packed
  BY DEF IInv
<1>1. \A c, d : Conflict(c, d)' = Conflict(c, d)
  BY InputsFixed DEF Conflict, ResourcesOf
<1>2. \A c, d : Conflict(c, d) <=> Conflict(d, c)
  BY DEF Conflict
<1>3. CASE Submit
  <2>1. batches # << >> /\ batches \in Seq(SUBSET pending)
    BY <1>0, <1>3 DEF Submit, TypeOK
  <2>2. batch' = batches[1] /\ 1 \in DOMAIN batches
    BY <1>3, <2>1 DEF Submit
  <2>3. \A i \in DOMAIN batches' : i + 1 \in DOMAIN batches /\ batches'[i] = batches[i + 1]
    BY <1>3, <2>1 DEF Submit
  <2>4. QED
    BY <1>0, <1>1, <2>2, <2>3 DEF Packed, FreeOfConflicts
<1>4. ASSUME NEW c \in Ordinals, Place(c) PROVE Packed'
  <2>1. PICK k \in DOMAIN batches' :
              /\ \A j \in DOMAIN batches' : j # k => j \in DOMAIN batches /\ batches'[j] = batches[j]
              /\ k \in DOMAIN batches => batches'[k] = batches[k] \cup {c} /\ Fits(c, batches[k])
              /\ k \notin DOMAIN batches => batches'[k] = {c}
    BY <1>0, <1>4, PlaceEffect
  <2>2. \A d, e \in batches'[k] : d # e => ~Conflict(d, e)
    BY <1>0, <1>2, <2>1 DEF Packed, FreeOfConflicts, Fits
  <2>3. batch' = batch
    BY <1>4 DEF Place
  <2>4. QED
    BY <1>0, <1>1, <2>1, <2>2, <2>3 DEF Packed, FreeOfConflicts
<1>5. CASE ~Submit /\ ~(\E c \in Ordinals : Place(c))
  <2>1. batches' = batches \/ batches' = << >>
    BY <1>5 DEF Next, Main, Worker, Ended, PickReady, ForceLeast, Collect, Merge,
       RoundDone, Return, Raise, Interrupt, Unwind, Start, Finish, round, vars
  <2>2. batch' = batch \/ batch' = {}
    BY <1>5 DEF Next, Main, Worker, Ended, PickReady, ForceLeast, Collect, Merge,
       RoundDone, Return, Raise, Interrupt, Unwind, Start, Finish, vars
  <2>3. QED
    BY <1>0, <1>1, <2>1, <2>2 DEF Packed, FreeOfConflicts
<1>6. QED
  BY <1>3, <1>4, <1>5

-----------------------------------------------------------------------------
(* Futures: what a thread executes, once. *)

LEMMA FuturesStep == IInv /\ [Next]_vars => Futures'
<1> SUFFICES ASSUME IInv, [Next]_vars PROVE Futures'
  OBVIOUS
<1>0. TypeOK /\ Shape /\ Futures
  BY DEF IInv
<1>1. CASE PickReady \/ ForceLeast \/ RoundDone \/ Return \/ Interrupt \/ Unwind
  BY <1>0, <1>1 DEF PickReady, ForceLeast, RoundDone, Return, Interrupt, Unwind, Futures, pool, round
<1>2. CASE Submit
  <2>1. batches # << >> /\ batches \in Seq(SUBSET pending)
    BY <1>0, <1>2 DEF Submit, TypeOK
  <2>2. batch = {} /\ running = {}
    BY <1>0, <1>2 DEF Submit, TypeOK, Shape
  <2>3. batch' \subseteq pending /\ queued' = batch' /\ waiting' = batch'
    BY <1>2, <2>1 DEF Submit
  <2>4. running' = running /\ outcome' = outcome /\ pending' = pending /\ pc' = "collect"
    BY <1>2 DEF Submit
  <2>5. \A c \in pending : outcome[c] = "none"
    BY <1>0, <2>2 DEF Futures
  <2>6. QED
    BY <2>2, <2>3, <2>4, <2>5 DEF Futures
<1>3. CASE Merge
  <2>1. waiting = {} /\ queued = {} /\ running = {} /\ pc' = "pack"
    BY <1>3 DEF Merge
  <2>2. batch' = {} /\ pending' = pending \ batch /\ outcome' = outcome /\ queued' = {} /\ running' = {}
    BY <1>3 DEF Merge, pool
  <2>3. QED
    BY <1>0, <2>1, <2>2 DEF Futures
<1>4. ASSUME NEW c \in Ordinals, Place(c) PROVE Futures'
  BY <1>0, <1>4 DEF Place, Futures, pool
<1>5. ASSUME NEW c \in Ordinals, Collect(c) \/ Raise(c) PROVE Futures'
  BY <1>0, <1>5 DEF Collect, Raise, Futures, pool, round
<1>6. ASSUME NEW c \in Ordinals, Start(c) PROVE Futures'
  BY <1>0, <1>6 DEF Start, Least, Futures, TypeOK, round
<1>7. ASSUME NEW c \in Ordinals, Finish(c) PROVE Futures'
  <2>1. PICK o \in Outcomes : outcome' = [outcome EXCEPT ![c] = o]
    BY <1>7 DEF Finish
  <2>2. o # "none"
    BY DEF Outcomes, Reported
  <2>3. c \in batch /\ c \in running /\ c \notin queued /\ c \in waiting
    BY <1>0, <1>7 DEF Finish, Futures, TypeOK, Reported
  <2>4. outcome'[c] = o /\ \A d \in Ordinals : d # c => outcome'[d] = outcome[d]
    BY <1>0, <2>1 DEF TypeOK
  <2>5. /\ running' = running \ {c} /\ queued' = queued /\ batch' = batch
        /\ waiting' = waiting /\ pending' = pending /\ pc' = pc
    BY <1>7 DEF Finish, round
  <2>6. pc # "aborted"
    BY <1>0, <2>3 DEF Futures
  <2>7. batch \subseteq Ordinals /\ pending \subseteq Ordinals /\ queued \subseteq batch /\ running \subseteq batch
    BY <1>0 DEF TypeOK
  <2>8. QED
    BY <1>0, <2>2, <2>3, <2>4, <2>5, <2>6, <2>7 DEF Futures
<1>8. CASE UNCHANGED vars
  BY <1>0, <1>8 DEF vars, Futures
<1>9. QED
  BY <1>1, <1>2, <1>3, <1>4, <1>5, <1>6, <1>7, <1>8 DEF Next, Main, Worker, Ended

-----------------------------------------------------------------------------
(* Merging: every check once. *)

LEMMA MergedStep == IInv /\ [Next]_vars => Merged'
<1> SUFFICES ASSUME IInv, [Next]_vars PROVE Merged'
  OBVIOUS
<1>0. TypeOK /\ Shape /\ Futures /\ Merged
  BY DEF IInv
<1>1. request' = request /\ registry' = registry /\ Ordinals' = Ordinals
  BY InputsFixed DEF Ordinals
<1>2. CASE Merge
  <2>1. PICK s \in Sorted(batch) : results' = results \o s
    BY <1>2 DEF Merge
  <2>2. IsFiniteSet(batch) /\ batch \in SUBSET Nat
    BY <1>0, OrdinalsFinite DEF TypeOK
  <2>3. /\ s \in Seq(batch)
        /\ \A i, j \in DOMAIN s : i # j => s[i] # s[j]
        /\ \A c \in batch : \E i \in DOMAIN s : s[i] = c
    BY <2>2, SortedEnumerates
  <2>4. results \in Seq(Ordinals) /\ batch \subseteq pending /\ pending \subseteq Ordinals
    BY <1>0 DEF TypeOK
  <2>5. /\ pending' = pending \ batch /\ outcome' = outcome
        /\ completed' = completed \cup {request[c] : c \in batch}
        /\ waiting = {}
    BY <1>2 DEF Merge
  <2> DEFINE m == Len(results)  n == Len(s)
  <2>6. m \in Nat /\ n \in Nat /\ DOMAIN results = 1..m /\ DOMAIN s = 1..n /\ DOMAIN results' = 1..(m + n)
    BY <2>1, <2>3, <2>4
  <2>7. \A i \in 1..m : results'[i] = results[i]
    BY <2>1, <2>3, <2>4, <2>6
  <2>8. \A i \in 1..n : m + i \in 1..(m + n) /\ results'[m + i] = s[i]
    BY <2>1, <2>3, <2>4, <2>6
  <2>9. \A i \in 1..(m + n) : i \notin 1..m => i - m \in 1..n /\ results'[i] = s[i - m]
    <3> SUFFICES ASSUME NEW i \in 1..(m + n), i \notin 1..m
                 PROVE  i - m \in 1..n /\ results'[i] = s[i - m]
      OBVIOUS
    <3>1. i - m \in 1..n /\ m + (i - m) = i
      BY <2>6
    <3>2. QED
      BY <2>8, <3>1
  <2>10. \A c \in Ordinals \ pending' : \E i \in DOMAIN results' : results'[i] = c
    <3> SUFFICES ASSUME NEW c \in Ordinals \ pending' PROVE \E i \in DOMAIN results' : results'[i] = c
      OBVIOUS
    <3>1. CASE c \in batch
      BY <2>3, <2>6, <2>8, <3>1
    <3>2. CASE c \notin batch
      <4>1. PICK i \in DOMAIN results : results[i] = c
        BY <1>0, <2>5, <3>2 DEF Merged
      <4>2. i \in DOMAIN results'
        BY <2>6
      <4>3. QED
        BY <2>6, <2>7, <4>1, <4>2
    <3>3. QED
      BY <3>1, <3>2
  <2>11. \A i \in 1..n : s[i] \in batch
    BY <2>3, <2>6
  <2>12. \A i \in 1..m : results[i] \notin pending
    BY <1>0, <2>6 DEF Merged
  <2>13. \A i \in DOMAIN results' : results'[i] \notin pending'
    <3> SUFFICES ASSUME NEW i \in 1..(m + n) PROVE results'[i] \notin pending'
      BY <2>6
    <3>1. CASE i \in 1..m
      BY <2>5, <2>7, <2>12, <3>1
    <3>2. CASE i \notin 1..m
      <4>1. results'[i] \in batch
        BY <2>9, <2>11, <3>2
      <4>2. QED
        BY <2>5, <4>1
    <3>3. QED
      BY <3>1, <3>2
  <2>14. \A i, j \in DOMAIN results' : i # j => results'[i] # results'[j]
    <3>1. \A i, j \in 1..m : i # j => results[i] # results[j]
      BY <1>0, <2>6 DEF Merged
    <3>2. \A i \in 1..m, j \in 1..n : results[i] # s[j]
      BY <2>4, <2>11, <2>12
    <3> SUFFICES ASSUME NEW i \in 1..(m + n), NEW j \in 1..(m + n), i # j
                 PROVE  results'[i] # results'[j]
      BY <2>6
    <3>3. CASE i \in 1..m /\ j \in 1..m
      BY <2>7, <3>1, <3>3
    <3>4. CASE i \in 1..m /\ j \notin 1..m
      BY <2>7, <2>9, <3>2, <3>4
    <3>5. CASE i \notin 1..m /\ j \in 1..m
      BY <2>7, <2>9, <3>2, <3>5
    <3>6. CASE i \notin 1..m /\ j \notin 1..m
      <4>1. i - m \in 1..n /\ j - m \in 1..n /\ i - m # j - m
        BY <2>6, <2>9, <3>6
      <4>2. results'[i] = s[i - m] /\ results'[j] = s[j - m]
        BY <2>9, <3>6
      <4>3. QED
        BY <2>3, <2>6, <4>1, <4>2
    <3>7. QED
      BY <3>3, <3>4, <3>5, <3>6
  <2>15. completed' = {request[c] : c \in Ordinals \ pending'}
    BY <1>0, <2>4, <2>5 DEF Merged
  <2>16. \A c \in Ordinals \ pending' : outcome'[c] \in Reported
    BY <1>0, <2>4, <2>5 DEF Merged, Futures
  <2>17. QED
    BY <1>1, <2>10, <2>13, <2>14, <2>15, <2>16 DEF Merged
<1>3. ASSUME NEW c \in Ordinals, Finish(c) PROVE Merged'
  <2>1. c \in pending
    BY <1>0, <1>3 DEF Finish, TypeOK
  <2>2. \A d \in Ordinals \ pending : outcome'[d] = outcome[d]
    BY <1>0, <1>3, <2>1 DEF Finish, TypeOK
  <2>3. pending' = pending /\ completed' = completed /\ results' = results
    BY <1>3 DEF Finish, round
  <2>4. QED
    BY <1>0, <1>1, <2>2, <2>3 DEF Merged
<1>4. CASE ~Merge /\ ~(\E c \in Ordinals : Finish(c))
  <2>1. pending' = pending /\ completed' = completed /\ results' = results /\ outcome' = outcome
    BY <1>4 DEF Next, Main, Worker, Ended, PickReady, ForceLeast, Place, Submit, Collect,
       RoundDone, Return, Raise, Interrupt, Unwind, Start, round, vars
  <2>2. QED
    BY <1>0, <1>1, <2>1 DEF Merged
<1>5. QED
  BY <1>2, <1>3, <1>4

-----------------------------------------------------------------------------
(* The order of prerequisites. *)

\* A name whose requested prerequisite is doomed is doomed as well.
LEMMA DoomedUpstream ==
  ASSUME NEW n \in Selected, NEW m \in registry.after[n], m \in Doomed
  PROVE  n \in Doomed
<1>1. PICK S \in SUBSET Selected : Cyclic(S) /\ m \in S
  BY DEF Doomed
<1>2. Cyclic(S \cup {n}) /\ S \cup {n} \in SUBSET Selected
  BY <1>1 DEF Cyclic
<1>3. QED
  BY <1>2 DEF Doomed

\* When nothing is ready, every pending check has a pending prerequisite, so
\* that the fallback forces a doomed check.
LEMMA ForcedIsDoomed ==
  ASSUME TypeOK, Merged, Ready = {}, NEW c \in pending
  PROVE  request[c] \in Doomed
<1> DEFINE S == {request[d] : d \in pending}
<1>1. S \in SUBSET Selected
  BY DEF TypeOK, Selected
<1>2. Cyclic(S)
  <2> SUFFICES ASSUME NEW d \in pending PROVE registry.after[request[d]] \cap S # {}
    BY DEF Cyclic
  <2>1. PICK m \in After(d) : m \notin completed /\ m \in Selected
    BY DEF Ready
  <2>2. PICK e \in Ordinals : request[e] = m
    BY <2>1 DEF Selected
  <2>3. e \in pending
    BY <2>1, <2>2 DEF Merged
  <2>4. QED
    BY <2>1, <2>2, <2>3 DEF After
<1>3. QED
  BY <1>1, <1>2 DEF Doomed

\* What does not begin a round or merge a batch leaves the round's members.
LEMMA RoundMembers ==
  ASSUME IInv, [Next]_vars, ~PickReady, ~ForceLeast, ~Merge
  PROVE  pending' = pending /\ \A c : InRound(c)' <=> InRound(c)
<1>0. TypeOK /\ Shape
  BY DEF IInv
<1>1. CASE Submit
  <2>1. batches # << >> /\ batches \in Seq(SUBSET pending) /\ batch = {}
    BY <1>0, <1>1 DEF Submit, TypeOK, Shape
  <2>2. batch' = batches[1] /\ unplaced' = unplaced /\ pending' = pending
    BY <1>1, <2>1 DEF Submit
  <2>3. \A i \in DOMAIN batches' : i + 1 \in DOMAIN batches /\ batches'[i] = batches[i + 1]
    BY <1>1, <2>1 DEF Submit
  <2>4. \A i \in DOMAIN batches : i # 1 => i - 1 \in DOMAIN batches' /\ batches'[i - 1] = batches[i]
    BY <1>1, <2>1 DEF Submit
  <2>5. 1 \in DOMAIN batches
    BY <2>1
  <2>6. QED
    BY <2>1, <2>2, <2>3, <2>4, <2>5 DEF InRound
<1>2. ASSUME NEW c \in Ordinals, Place(c)
      PROVE  pending' = pending /\ \A d : InRound(d)' <=> InRound(d)
  <2>1. PICK k \in DOMAIN batches' :
              /\ \A j \in DOMAIN batches' : j # k => j \in DOMAIN batches /\ batches'[j] = batches[j]
              /\ k \in DOMAIN batches => batches'[k] = batches[k] \cup {c}
              /\ k \notin DOMAIN batches => batches'[k] = {c}
    BY <1>0, <1>2, PlaceEffect
  <2>2. DOMAIN batches \subseteq DOMAIN batches'
    BY <1>0, <1>2, PlaceEffect
  <2>3. c \in unplaced /\ unplaced' = unplaced \ {c} /\ batch' = batch /\ pending' = pending
    BY <1>2 DEF Place, Least
  <2>4. QED
    BY <2>1, <2>2, <2>3 DEF InRound
<1>3. CASE ~Submit /\ ~(\E c \in Ordinals : Place(c))
  <2>1. pending' = pending /\ unplaced' = unplaced /\ batches' = batches /\ batch' = batch
    BY <1>3 DEF Next, Main, Worker, Ended, Collect, RoundDone, Return, Raise, Interrupt,
       Unwind, Start, Finish, round, vars
  <2>2. QED
    BY <2>1 DEF InRound
<1>4. QED
  BY <1>1, <1>2, <1>3

\* At the start of a round no check is in it.
LEMMA RoundStart ==
  ASSUME TypeOK, Shape, pc = "round"
  PROVE  \A c : ~InRound(c)
BY DEF Shape, InRound

LEMMA OrderStep == IInv /\ [Next]_vars => Together' /\ Prepared'
<1> SUFFICES ASSUME IInv, [Next]_vars PROVE Together' /\ Prepared'
  OBVIOUS
<1>0. TypeOK /\ Shape /\ Merged /\ Together /\ Prepared
  BY DEF IInv
<1>1. request' = request /\ registry' = registry /\ Ordinals' = Ordinals /\ Doomed' = Doomed
  BY InputsFixed DEF Ordinals, Doomed, Cyclic, Selected
<1>2. \A c : After(c)' = After(c)
  BY <1>1 DEF After
<1>3. CASE PickReady
  <2>1. pending' = pending /\ batches' = batches /\ batch' = batch /\ unplaced' = Ready
    BY <1>3 DEF PickReady
  <2>2. \A c : ~InRound(c)
    BY <1>0, <1>3, RoundStart DEF PickReady
  <2>3. \A c : InRound(c)' <=> c \in Ready
    BY <2>1, <2>2 DEF InRound
  <2>4. \A c \in pending, d \in Ordinals :
          request[c] = request[d] /\ request[c] \notin Doomed => d \in pending
    BY <1>0, <2>2 DEF Together
  <2>5. \A c \in pending, d \in Ready : request[c] = request[d] => c \in Ready
    BY DEF Ready, After
  <2>6. Together'
    BY <1>1, <2>1, <2>3, <2>4, <2>5 DEF Together
  <2>7. ASSUME NEW c \in Ready, NEW d \in Ordinals, request[c] \notin Doomed, request[d] \in After(c)
        PROVE  d \notin pending
    <3>1. request[c] \in Selected /\ request[d] \in Selected
      BY <1>0 DEF Ready, TypeOK, Selected
    <3>2. request[d] \notin Doomed
      BY <2>7, <3>1, DoomedUpstream DEF After
    <3>3. request[d] \in completed
      BY <2>7, <3>1 DEF Ready
    <3>4. PICK e \in Ordinals \ pending : request[e] = request[d]
      BY <1>0, <3>3 DEF Merged
    <3>5. QED
      BY <2>4, <3>2, <3>4
  <2>8. Prepared'
    BY <1>1, <1>2, <2>1, <2>3, <2>7 DEF Prepared
  <2>9. QED
    BY <2>6, <2>8
<1>4. CASE ForceLeast
  <2>1. PICK f \in pending : unplaced' = {f}
    BY <1>4 DEF ForceLeast
  <2>2. pending' = pending /\ batches' = batches /\ batch' = batch
    BY <1>4 DEF ForceLeast
  <2>3. \A c : ~InRound(c)
    BY <1>0, <1>4, RoundStart DEF ForceLeast
  <2>4. \A c : InRound(c)' <=> c = f
    BY <2>1, <2>2, <2>3 DEF InRound
  <2>5. request[f] \in Doomed
    BY <1>0, <1>4, ForcedIsDoomed DEF ForceLeast
  <2>6. \A c \in pending, d \in Ordinals :
          request[c] = request[d] /\ request[c] \notin Doomed => d \in pending
    BY <1>0, <2>3 DEF Together
  <2>7. QED
    BY <1>1, <2>2, <2>4, <2>5, <2>6 DEF Together, Prepared
<1>5. CASE Merge
  <2>1. pending' = pending \ batch /\ batches' = batches /\ unplaced' = unplaced /\ batch' = {}
    BY <1>5 DEF Merge
  <2>2. \A c : InRound(c)' => InRound(c)
    BY <2>1 DEF InRound
  <2>3. \A c : InRound(c) /\ c \notin batch => InRound(c)'
    BY <2>1 DEF InRound
  <2>4. \A d \in batch : InRound(d)
    BY DEF InRound
  <2>5. Together'
    BY <1>0, <1>1, <2>1, <2>2, <2>3, <2>4 DEF Together
  <2>6. Prepared'
    BY <1>0, <1>1, <1>2, <2>1, <2>2 DEF Prepared
  <2>7. QED
    BY <2>5, <2>6
<1>6. CASE ~PickReady /\ ~ForceLeast /\ ~Merge
  <2>1. pending' = pending /\ \A c : InRound(c)' <=> InRound(c)
    BY <1>6, RoundMembers
  <2>2. QED
    BY <1>0, <1>1, <1>2, <2>1 DEF Together, Prepared
<1>7. QED
  BY <1>3, <1>4, <1>5, <1>6

-----------------------------------------------------------------------------
(* Theorems *)

LEMMA InductiveStep == IInv /\ [Next]_vars => IInv'
BY TypeStep, ShapeStep, PackedStep, FuturesStep, MergedStep, OrderStep DEF IInv

\* The inductive invariant holds in every run.
THEOREM Invariance == Spec => []IInv
BY InitInvariant, InductiveStep, PTL DEF Spec

\* The main thread's sets nest as its code assumes, in every run.
THEOREM TypeCorrect == Spec => []TypeOK
<1>1. IInv => TypeOK
  BY DEF IInv
<1>2. QED
  BY Invariance, <1>1, PTL

\* For every registry, no two checks that share a resource execute together.
THEOREM ExclusionHolds == Spec => []ResourceExclusion
<1>1. IInv => ResourceExclusion
  BY DEF IInv, TypeOK, Packed, FreeOfConflicts, ResourceExclusion
<1>2. QED
  BY Invariance, <1>1, PTL

\* For every dependency graph, with cycles or without, a check that no cycle
\* dooms executes after its prerequisites are merged.
THEOREM OrderHolds == Spec => []DependencyOrder
<1>1. IInv => DependencyOrder
  <2> SUFFICES ASSUME IInv, NEW c \in running, request[c] \notin Doomed,
                      NEW d \in Ordinals, request[d] \in After(c)
               PROVE  d \in Ordinals \ pending
    BY DEF DependencyOrder
  <2>1. c \in batch /\ c \in Ordinals
    BY DEF IInv, TypeOK
  <2>2. QED
    BY <2>1 DEF IInv, Prepared, InRound
<1>2. QED
  BY Invariance, <1>1, PTL

\* A run that returns reports every requested check exactly once.
THEOREM ReportComplete == Spec => []CompleteReport
<1>1. IInv => CompleteReport
  <2> SUFFICES ASSUME IInv, pc = "done" PROVE CompleteReport
    BY DEF CompleteReport
  <2>1. pending = {} /\ TypeOK /\ Merged
    BY DEF IInv, Shape
  <2>2. \A c \in Ordinals : outcome[c] \in Reported /\ \E i \in DOMAIN results : results[i] = c
    BY <2>1 DEF Merged
  <2> DEFINE m == Len(results)  n == Len(request)
  <2>3. m \in Nat /\ n \in Nat /\ DOMAIN results = 1..m /\ Ordinals = 1..n /\ results \in [1..m -> 1..n]
    BY <2>1 DEF TypeOK, Ordinals
  <2>4. results \in Injection(1..m, 1..n)
    BY <2>1, <2>3 DEF Merged, Injection, IsInjective
  <2>5. results \in Surjection(1..m, 1..n)
    BY <2>2, <2>3 DEF Surjection
  <2>6. IsFiniteSet(1..n) /\ Cardinality(1..n) = n /\ Cardinality(1..m) = m
    BY <2>3, SegmentCounted
  <2>7. Cardinality(1..m) = Cardinality(1..n)
    BY <2>4, <2>5, <2>6, FS_Injection
  <2>8. QED
    BY <2>2, <2>6, <2>7 DEF CompleteReport
<1>2. QED
  BY Invariance, <1>1, PTL

\* On either way out, the threads have been joined.
THEOREM NoThreadLeft == Spec => []PoolJoined
<1>1. IInv => PoolJoined
  BY DEF IInv, TypeOK, Shape, Futures, PoolJoined
<1>2. QED
  BY Invariance, <1>1, PTL

\* No check is executed twice.
THEOREM NothingRunsTwice == Spec => RunsOnce
<1>1. IInv /\ [Next]_vars => [\A c \in Ordinals : c \in running' \ running => outcome[c] = "none"]_vars
  <2> SUFFICES ASSUME IInv, Next, NEW c \in Ordinals, c \in running', c \notin running
               PROVE  outcome[c] = "none"
    OBVIOUS
  <2>1. PICK d \in Ordinals : Start(d)
    BY DEF Next, Main, Worker, Ended, PickReady, ForceLeast, Place, Submit, Collect, Merge,
       RoundDone, Return, Raise, Interrupt, Unwind, Finish, pool, vars
  <2>2. c = d /\ d \in queued
    BY <2>1 DEF Start, Least
  <2>3. QED
    BY <2>2 DEF IInv, Futures
<1>2. QED
  BY Invariance, <1>1, PTL DEF Spec, RunsOnce

-----------------------------------------------------------------------------
(***************************************************************************)
(* The order of the report.  The reference computes its rounds and slots   *)
(* by recursive functions; what they yield is found by the least number at *)
(* which it could fail.                                                    *)
(***************************************************************************)

\* A set of numbers that is not empty has a least one.
LEMMA LeastNumber ==
  ASSUME NEW T \in SUBSET Nat, T # {}
  PROVE  \E x \in T : \A y \in T : x <= y
<1> DEFINE R == OpToRel(<, Nat)
<1>1. IsWellFoundedOn(R, Nat)
  BY NatLessThanWellFounded
<1> HIDE DEF R
<1>2. PICK x \in T : \A y \in T : <<y, x>> \notin R
  BY <1>1, WFMin, Zenon
<1>3. \A a, b \in Nat : <<b, a>> \in R <=> b < a
  BY DEF R, OpToRel
<1>4. \A y \in T : y \in Nat /\ x \in Nat /\ ~(y < x)
  BY <1>2, <1>3
<1> QED
  BY <1>4

-----------------------------------------------------------------------------
(* The rounds of the reference order. *)

Extended(M) == M \cup NextRound(M)
RoundsTo(f, n) == f = [k \in 0..n |-> IF k = 0 THEN {} ELSE Extended(f[k - 1])]

\* The rounds are computed up to any number: the least one they fell short of
\* would extend the rounds before it.
LEMMA RoundsExist ==
  ASSUME NEW n \in Nat
  PROVE  \E f : RoundsTo(f, n)
<1> DEFINE T == {m \in Nat : ~\E f : RoundsTo(f, m)}
<1> SUFFICES ASSUME T # {} PROVE FALSE
  OBVIOUS
<1>1. PICK m \in T : \A k \in T : m <= k
  BY LeastNumber
<1>2. m \in Nat /\ ~\E f : RoundsTo(f, m)
  OBVIOUS
<1>3. CASE m = 0
  <2> DEFINE f == [i \in 0..0 |-> {}]
  <2>1. f = [i \in 0..0 |-> IF i = 0 THEN {} ELSE Extended(f[i - 1])]
    OBVIOUS
  <2> QED
    BY <1>2, <1>3, <2>1 DEF RoundsTo
<1>4. CASE m > 0
  <2>1. m - 1 \in Nat /\ ~(m <= m - 1)
    BY <1>2, <1>4
  <2>2. PICK f : RoundsTo(f, m - 1)
    BY <1>1, <2>1
  <2> DEFINE g == [i \in 0..m |-> IF i = m THEN Extended(f[m - 1]) ELSE f[i]]
  <2>3. \A i \in 0..(m - 1) : f[i] = IF i = 0 THEN {} ELSE Extended(f[i - 1])
    BY <2>2 DEF RoundsTo
  <2>4. /\ \A i \in 0..(m - 1) : g[i] = f[i]
        /\ g[m] = Extended(f[m - 1])
    BY <1>2, <1>4
  <2> HIDE DEF g
  <2>5. \A i \in 0..m : g[i] = IF i = 0 THEN {} ELSE Extended(g[i - 1])
    <3> TAKE i \in 0..m
    <3>1. CASE i = 0
      BY <1>2, <1>4, <2>1, <2>3, <2>4, <3>1
    <3>2. CASE i # 0
      <4>1. i - 1 \in 0..(m - 1) /\ (i = m \/ i \in 0..(m - 1))
        BY <1>2, <3>2
      <4> QED
        BY <2>3, <2>4, <3>2, <4>1
    <3> QED
      BY <3>1, <3>2
  <2>6. RoundsTo(g, m)
    BY <2>5 DEF RoundsTo, g
  <2> QED
    BY <1>2, <2>6
<1> QED
  BY <1>2, <1>3, <1>4

\* The rounds begin with nothing merged, and each merges what is ready.
LEMMA RoundsUnfold ==
  ASSUME NEW n \in Nat, Len(request) = n
  PROVE  /\ MergedBy[0] = {}
         /\ \A k \in 1..n : MergedBy[k] = MergedBy[k - 1] \cup NextRound(MergedBy[k - 1])
<1>1. RoundsTo(MergedBy, n)
  <2>1. MergedBy = CHOOSE f : RoundsTo(f, n)
    BY DEF MergedBy, RoundsTo, Extended
  <2> QED
    BY <2>1, RoundsExist
<1>2. MergedBy = [k \in 0..n |-> IF k = 0 THEN {} ELSE Extended(MergedBy[k - 1])]
  BY <1>1 DEF RoundsTo
<1> PICK f : f = MergedBy
  OBVIOUS
<1>3. f = [k \in 0..n |-> IF k = 0 THEN {} ELSE Extended(f[k - 1])]
  BY <1>2
<1>4. f[0] = {}
  BY <1>3
<1>5. \A k \in 1..n : f[k] = Extended(f[k - 1])
  <2> TAKE k \in 1..n
  <2>1. k \in 0..n /\ k # 0
    OBVIOUS
  <2> QED
    BY <1>3, <2>1
<1> QED
  BY <1>4, <1>5 DEF Extended

\* A round takes checks not merged yet.
LEMMA NextRoundMembers ==
  ASSUME NEW M \in SUBSET Ordinals
  PROVE  NextRound(M) \subseteq Ordinals \ M
BY DEF NextRound, Least

\* Only checks are merged.
LEMMA RoundsBounded ==
  ASSUME NEW n \in Nat, Len(request) = n, request \in Seq(Names)
  PROVE  \A k \in 0..n : MergedBy[k] \subseteq Ordinals
<1> DEFINE T == {k \in 0..n : ~(MergedBy[k] \subseteq Ordinals)}
<1> SUFFICES ASSUME T # {} PROVE FALSE
  OBVIOUS
<1>1. T \in SUBSET Nat
  OBVIOUS
<1>2. PICK m \in T : \A k \in T : m <= k
  BY <1>1, LeastNumber
<1>3. m \in 1..n /\ m - 1 \in 0..n /\ ~(m <= m - 1)
  BY RoundsUnfold
<1>4. MergedBy[m - 1] \subseteq Ordinals
  BY <1>2, <1>3
<1>5. MergedBy[m] \subseteq Ordinals
  BY <1>3, <1>4, RoundsUnfold, NextRoundMembers
<1> QED
  BY <1>5

\* What is merged stays merged.
LEMMA RoundsGrow ==
  ASSUME NEW n \in Nat, Len(request) = n, request \in Seq(Names),
         NEW j \in 0..n, NEW k \in 0..n, j <= k
  PROVE  MergedBy[j] \subseteq MergedBy[k]
<1> DEFINE T == {m \in j..n : ~(MergedBy[j] \subseteq MergedBy[m])}
<1> SUFFICES ASSUME T # {} PROVE FALSE
  OBVIOUS
<1>1. T \in SUBSET Nat
  OBVIOUS
<1>2. PICK m \in T : \A i \in T : m <= i
  BY <1>1, LeastNumber
<1>3. m \in 1..n /\ m - 1 \in j..n /\ ~(m <= m - 1)
  OBVIOUS
<1>4. MergedBy[j] \subseteq MergedBy[m - 1]
  BY <1>2, <1>3
<1>5. MergedBy[m - 1] \subseteq MergedBy[m]
  BY <1>3, RoundsUnfold
<1> QED
  BY <1>4, <1>5

\* Every round merges a check while one is left.
LEMMA RoundsCount ==
  ASSUME NEW n \in Nat, Len(request) = n, request \in Seq(Names), NEW k \in 0..n
  PROVE  MergedBy[k] = Ordinals \/ k <= Cardinality(MergedBy[k])
<1> DEFINE T == {m \in 0..n : ~(MergedBy[m] = Ordinals \/ m <= Cardinality(MergedBy[m]))}
<1> SUFFICES ASSUME T # {} PROVE FALSE
  OBVIOUS
<1>1. T \in SUBSET Nat
  OBVIOUS
<1>2. PICK m \in T : \A i \in T : m <= i
  BY <1>1, LeastNumber
<1>3. \A i \in 0..n : IsFiniteSet(MergedBy[i]) /\ Cardinality(MergedBy[i]) \in Nat /\ MergedBy[i] \subseteq Ordinals
  BY RoundsBounded, OrdinalsFinite, FS_CardinalityType
<1>4. m # 0
  BY <1>3
<1>5. m \in 1..n /\ m - 1 \in 0..n /\ ~(m <= m - 1) /\ m \in 0..n
  BY <1>4
<1>6. MergedBy[m - 1] = Ordinals \/ m - 1 <= Cardinality(MergedBy[m - 1])
  BY <1>2, <1>5
<1>7. MergedBy[m] = MergedBy[m - 1] \cup NextRound(MergedBy[m - 1])
  BY <1>5, RoundsUnfold
<1> PICK A, B : A = MergedBy[m - 1] /\ B = MergedBy[m]
  OBVIOUS
<1>8. CASE A = Ordinals
  BY <1>3, <1>5, <1>7, <1>8
<1>9. CASE A # Ordinals
  <2>1. \E c \in Ordinals \ A : Least(c, Ordinals \ A)
    <3>1. Ordinals \ A # {} /\ Ordinals \ A \in SUBSET Nat
      BY <1>3, <1>5, <1>9, OrdinalsFinite
    <3> QED
      BY <3>1, LeastNumber DEF Least
  <2>2. NextRound(A) # {}
    BY <2>1 DEF NextRound
  <2>3. PICK c \in NextRound(A) : c \notin A
    BY <1>3, <1>5, <2>2, NextRoundMembers
  <2>4. Cardinality(A \cup {c}) = Cardinality(A) + 1 /\ IsFiniteSet(A \cup {c})
    BY <1>3, <1>5, <2>3, FS_AddElement
  <2>5. Cardinality(A \cup {c}) <= Cardinality(B)
    <3>1. A \cup {c} \subseteq B
      BY <1>5, <1>7, <2>3
    <3>2. IsFiniteSet(B)
      BY <1>3, <1>5
    <3> QED
      BY <3>1, <3>2, FS_Subset
  <2> QED
    BY <1>3, <1>5, <1>6, <1>9, <2>4, <2>5
<1> QED
  BY <1>8, <1>9

\* A round that begins is one of the reference's.
LEMMA RoundLeft ==
  ASSUME NEW n \in Nat, Len(request) = n, request \in Seq(Names), NEW k \in 0..n,
         MergedBy[k] # Ordinals
  PROVE  k + 1 \in 1..n
<1>1. k <= Cardinality(MergedBy[k]) /\ MergedBy[k] \subseteq Ordinals
  BY RoundsCount, RoundsBounded
<1>2. IsFiniteSet(Ordinals) /\ Ordinals = 1..n
  BY OrdinalsFinite DEF Ordinals
<1>3. Cardinality(Ordinals) = n
  BY <1>2, SegmentCounted
<1>4. Cardinality(MergedBy[k]) < Cardinality(Ordinals) /\ Cardinality(MergedBy[k]) \in Nat
  BY <1>1, <1>2, FS_Subset, FS_CardinalityType
<1> QED
  BY <1>1, <1>3, <1>4

\* The round of a check is the one that merges it.
LEMMA RoundKnown ==
  ASSUME NEW n \in Nat, Len(request) = n, request \in Seq(Names),
         NEW k \in 1..n, NEW c \in MergedBy[k] \ MergedBy[k - 1]
  PROVE  RoundOf(c) = k
<1>1. k \in Ordinals /\ Ordinals = 1..n
  BY DEF Ordinals
<1>2. ASSUME NEW j \in 1..n, c \in MergedBy[j] \ MergedBy[j - 1] PROVE j = k
  <2>1. ~(j <= k - 1) /\ ~(k <= j - 1)
    BY <1>2, RoundsGrow
  <2> QED
    BY <2>1
<1> QED
  BY <1>1, <1>2 DEF RoundOf

\* What is merged by round k is merged by a round up to it.
LEMMA RoundFound ==
  ASSUME NEW n \in Nat, Len(request) = n, request \in Seq(Names),
         NEW k \in 0..n, NEW c \in MergedBy[k]
  PROVE  \E j \in 1..k : c \in MergedBy[j] \ MergedBy[j - 1]
<1> DEFINE T == {m \in 0..k : c \in MergedBy[m]}
<1>1. T \in SUBSET Nat /\ k \in T
  OBVIOUS
<1>2. PICK j \in T : \A i \in T : j <= i
  BY <1>1, LeastNumber
<1>3. j # 0
  BY RoundsUnfold
<1>4. j \in 1..k /\ j - 1 \in 0..k /\ ~(j <= j - 1)
  BY <1>3
<1> QED
  BY <1>2, <1>4

-----------------------------------------------------------------------------
(* The slots of a round. *)

\* The slots of earlier checks of S that are in conflict with c.
Taken(s, S, c) == {s[d] : d \in {e \in S : e < c /\ Conflict(c, e)}}
SlotsFor(s, S) == s = [c \in S |-> First(Ordinals \ Taken(s, S, c))]

\* The slots are computed for every set of checks, by the same argument.
LEMMA SlotsExist ==
  ASSUME request \in Seq(Names), NEW S \in SUBSET Ordinals
  PROVE  \E s : SlotsFor(s, S)
<1> PICK n \in Nat : n = Len(request)
  OBVIOUS
<1>1. Ordinals = 1..n
  BY DEF Ordinals
<1> DEFINE U(m) == S \cap (1..m)
           T == {m \in Nat : ~\E s : SlotsFor(s, U(m))}
<1>2. T = {}
  <2> SUFFICES ASSUME T # {} PROVE FALSE
    OBVIOUS
  <2>1. PICK m \in T : \A k \in T : m <= k
    BY LeastNumber
  <2>2. m \in Nat /\ ~\E s : SlotsFor(s, U(m))
    OBVIOUS
  <2>3. m # 0
    <3> SUFFICES ASSUME m = 0 PROVE FALSE
      OBVIOUS
    <3> DEFINE s == [c \in {} |-> 0]
    <3>1. U(m) = {}
      OBVIOUS
    <3>2. SlotsFor(s, {})
      BY DEF SlotsFor
    <3> QED
      BY <2>2, <3>1, <3>2
  <2>4. m - 1 \in Nat /\ ~(m <= m - 1)
    BY <2>2, <2>3
  <2>5. PICK s : SlotsFor(s, U(m - 1))
    BY <2>1, <2>4
  <2>6. CASE m \notin S
    <3>1. U(m) = U(m - 1)
      BY <2>2, <2>6
    <3> QED
      BY <2>2, <2>5, <3>1
  <2>7. CASE m \in S
    <3> PICK V, W : V = U(m - 1) /\ W = U(m)
      OBVIOUS
    <3>1. W = V \cup {m} /\ m \notin V /\ \A c \in V : c \in Nat /\ c < m
      BY <2>2, <2>4, <2>7
    <3> DEFINE g == [c \in W |-> IF c = m THEN First(Ordinals \ Taken(s, V, m)) ELSE s[c]]
    <3>2. s = [c \in V |-> First(Ordinals \ Taken(s, V, c))]
      BY <2>5 DEF SlotsFor
    <3>3. \A c \in V : g[c] = s[c] /\ s[c] = First(Ordinals \ Taken(s, V, c))
      BY <3>1, <3>2
    <3>4. g[m] = First(Ordinals \ Taken(s, V, m))
      BY <3>1
    <3>5. g = [c \in W |-> g[c]]
      OBVIOUS
    <3> HIDE DEF g
    <3>6. \A c \in W : Taken(g, W, c) = Taken(s, V, c)
      <4> TAKE c \in W
      <4>1. c \in 1..m /\ \A e \in W : e \in 1..m
        BY <2>2
      <4>2. \A e \in W : e < c => e \in V /\ g[e] = s[e]
        <5> TAKE e \in W
        <5> HAVE e < c
        <5>1. e # m
          BY <4>1, <2>2
        <5> QED
          BY <3>1, <3>3, <5>1
      <4> QED
        BY <3>1, <4>1, <4>2, <2>2 DEF Taken
    <3>7. \A c \in W : g[c] = First(Ordinals \ Taken(g, W, c))
      BY <3>1, <3>3, <3>4, <3>6
    <3>8. SlotsFor(g, W)
      BY <3>5, <3>7 DEF SlotsFor
    <3> QED
      BY <2>2, <3>8
  <2> QED
    BY <2>6, <2>7
<1>3. U(n) = S
  BY <1>1
<1> QED
  BY <1>2, <1>3

\* The slot of a check is the first that is not taken.
LEMMA SlotFound ==
  ASSUME NEW n \in Nat, Len(request) = n, request \in Seq(Names), NEW k \in 1..n,
         NEW S, S = MergedBy[k] \ MergedBy[k - 1], NEW c \in S, NEW i \in Ordinals,
         i \notin Taken(SlotOf(k), S, c), \A j \in 1..(i - 1) : j \in Taken(SlotOf(k), S, c)
  PROVE  SlotOf(k)[c] = i
<1>1. S \subseteq Ordinals /\ Ordinals = 1..n
  BY RoundsBounded DEF Ordinals
<1>2. SlotsFor(SlotOf(k), S)
  <2>1. SlotOf(k) = CHOOSE s : SlotsFor(s, S)
    BY DEF SlotOf, SlotsFor, Taken
  <2>2. \E s : SlotsFor(s, S)
    BY <1>1, SlotsExist
  <2> QED
    BY <2>1, <2>2
<1> DEFINE X == Ordinals \ Taken(SlotOf(k), S, c)
<1>3. SlotOf(k)[c] = First(X)
  <2> PICK s : s = SlotOf(k)
    OBVIOUS
  <2>1. s = [d \in S |-> First(Ordinals \ Taken(s, S, d))]
    BY <1>2 DEF SlotsFor
  <2>2. s[c] = First(Ordinals \ Taken(s, S, c))
    BY <2>1
  <2> QED
    BY <2>2
<1> PICK taken : taken = Taken(SlotOf(k), S, c)
  OBVIOUS
<1>4. X \subseteq Nat \ {0} /\ i \in X /\ \A j \in 1..(i - 1) : j \notin X
  <2>1. X = (1..n) \ taken /\ i \in 1..n /\ i \notin taken /\ \A j \in 1..(i - 1) : j \in taken
    BY <1>1
  <2> HIDE DEF X
  <2>2. X \subseteq Nat \ {0}
    BY <2>1
  <2>3. i \in X
    BY <2>1
  <2>4. \A j \in 1..(i - 1) : j \notin X
    BY <2>1
  <2> QED
    BY <2>2, <2>3, <2>4
<1> HIDE DEF X
<1>5. Least(i, X)
  <2> SUFFICES ASSUME NEW j \in X, ~(i <= j) PROVE FALSE
    BY <1>4 DEF Least
  <2>1. i \in Nat /\ j \in Nat /\ j # 0
    BY <1>4
  <2>2. j \in 1..(i - 1)
    BY <2>1
  <2> QED
    BY <1>4, <2>2
<1>6. \A j \in X : Least(j, X) => j = i
  BY <1>4, <1>5 DEF Least
<1>7. First(X) = i
  BY <1>4, <1>5, <1>6 DEF First
<1> QED
  BY <1>3, <1>7

\* A check of an earlier round precedes.
LEMMA LaterRound ==
  ASSUME NEW n \in Nat, Len(request) = n, request \in Seq(Names), NEW k \in 1..n,
         NEW c \in MergedBy[k - 1], NEW d \in MergedBy[k] \ MergedBy[k - 1]
  PROVE  Precedes(c, d)
<1>1. k - 1 \in 0..n
  OBVIOUS
<1>2. PICK j \in 1..(k - 1) : c \in MergedBy[j] \ MergedBy[j - 1]
  BY <1>1, RoundFound
<1>3. RoundOf(c) = j /\ RoundOf(d) = k
  <2>1. j \in 1..n
    OBVIOUS
  <2> QED
    BY <1>2, <2>1, RoundKnown
<1>4. j < k
  OBVIOUS
<1> QED
  BY <1>3, <1>4 DEF Precedes

\* Within a round, so does one of an earlier slot or, in a slot, ordinal.
LEMMA SameRound ==
  ASSUME NEW n \in Nat, Len(request) = n, request \in Seq(Names), NEW k \in 1..n,
         NEW c \in MergedBy[k] \ MergedBy[k - 1], NEW d \in MergedBy[k] \ MergedBy[k - 1],
         SlotOf(k)[c] < SlotOf(k)[d] \/ (SlotOf(k)[c] = SlotOf(k)[d] /\ c < d)
  PROVE  Precedes(c, d)
<1>1. RoundOf(c) = k /\ RoundOf(d) = k
  BY RoundKnown
<1> QED
  BY <1>1 DEF Precedes

\* Every check has a round.
LEMMA HasRound ==
  ASSUME NEW n \in Nat, Len(request) = n, request \in Seq(Names), NEW c \in Ordinals
  PROVE  \E k \in 1..n : c \in MergedBy[k] \ MergedBy[k - 1] /\ RoundOf(c) = k
<1>1. MergedBy[n] = Ordinals
  BY RoundLeft
<1>2. PICK k \in 1..n : c \in MergedBy[k] \ MergedBy[k - 1]
  BY <1>1, RoundFound
<1> QED
  BY <1>2, RoundKnown

\* There are more slots than earlier checks, so one is free.
LEMMA HasSlot ==
  ASSUME NEW n \in Nat, Len(request) = n, request \in Seq(Names), NEW k \in 1..n,
         NEW c \in MergedBy[k] \ MergedBy[k - 1]
  PROVE  SlotOf(k)[c] \in Ordinals
<1> PICK S : S = MergedBy[k] \ MergedBy[k - 1]
  OBVIOUS
<1> PICK t : t = SlotOf(k)
  OBVIOUS
<1>1. S \subseteq Ordinals /\ Ordinals = 1..n /\ c \in 1..n
  BY RoundsBounded DEF Ordinals
<1>2. SlotsFor(t, S)
  <2>1. SlotOf(k) = CHOOSE s : SlotsFor(s, S)
    BY DEF SlotOf, SlotsFor, Taken
  <2>2. \E s : SlotsFor(s, S)
    BY <1>1, SlotsExist
  <2> QED
    BY <2>1, <2>2
<1>3. t[c] = First(Ordinals \ Taken(t, S, c))
  <2>1. t = [d \in S |-> First(Ordinals \ Taken(t, S, d))]
    BY <1>2 DEF SlotsFor
  <2> QED
    BY <2>1
<1> DEFINE E == {e \in S : e < c /\ Conflict(c, e)}
           f == [e \in E |-> t[e]]
<1>4. E \subseteq 1..(c - 1)
  BY <1>1
<1>5. f \in Surjection(E, Taken(t, S, c))
  BY DEF Surjection, Taken
<1> HIDE DEF E, f
<1>6. /\ IsFiniteSet(1..(c - 1)) /\ Cardinality(1..(c - 1)) = c - 1
      /\ IsFiniteSet(1..n) /\ Cardinality(1..n) = n
  <2>1. c - 1 \in Nat
    BY <1>1
  <2> QED
    BY <2>1, SegmentCounted
<1>7. IsFiniteSet(E) /\ Cardinality(E) <= c - 1 /\ Cardinality(E) \in Nat
  <2>1. IsFiniteSet(E) /\ Cardinality(E) <= Cardinality(1..(c - 1))
    BY <1>4, <1>6, FS_Subset
  <2> QED
    BY <1>6, <2>1, FS_CardinalityType
<1> PICK taken : taken = Taken(t, S, c)
  OBVIOUS
<1>8. IsFiniteSet(taken) /\ Cardinality(taken) <= Cardinality(E) /\ Cardinality(taken) \in Nat
  BY <1>5, <1>7, FS_Surjection, FS_CardinalityType
<1>9. ~(1..n \subseteq taken)
  <2> SUFFICES ASSUME 1..n \subseteq taken PROVE FALSE
    OBVIOUS
  <2>1. Cardinality(1..n) <= Cardinality(taken)
    BY <1>8, FS_Subset
  <2> QED
    BY <1>1, <1>6, <1>7, <1>8, <2>1
<1> PICK X : X = (1..n) \ taken
  OBVIOUS
<1>10. X # {} /\ X \in SUBSET Nat
  <2>1. \A i \in X : i \in Nat
    OBVIOUS
  <2>2. X # {}
    BY <1>9
  <2> QED
    BY <2>1, <2>2
<1>11. \E i \in X : Least(i, X)
  BY <1>10, LeastNumber DEF Least
<1>12. First(X) \in X
  BY <1>11 DEF First
<1> QED
  BY <1>1, <1>3, <1>12

\* The order of the report is total and strict: of two checks exactly one is
\* reported before the other, so that it determines the report.
THEOREM OneOrder ==
  ASSUME request \in Seq(Names), NEW c \in Ordinals, NEW d \in Ordinals, c # d
  PROVE  Precedes(c, d) <=> ~Precedes(d, c)
<1> PICK n \in Nat : n = Len(request)
  OBVIOUS
<1>1. c \in 1..n /\ d \in 1..n
  BY DEF Ordinals
<1>2. PICK k \in 1..n : c \in MergedBy[k] \ MergedBy[k - 1] /\ RoundOf(c) = k
  BY HasRound
<1>3. PICK m \in 1..n : d \in MergedBy[m] \ MergedBy[m - 1] /\ RoundOf(d) = m
  BY HasRound
<1>4. SlotOf(k)[c] \in Nat /\ SlotOf(m)[d] \in Nat
  <2>1. SlotOf(k)[c] \in Ordinals /\ SlotOf(m)[d] \in Ordinals
    BY <1>2, <1>3, HasSlot
  <2>2. Ordinals = 1..n
    BY DEF Ordinals
  <2> QED
    BY <2>1, <2>2
<1>5. CASE k # m
  BY <1>2, <1>3, <1>5 DEF Precedes
<1>6. CASE k = m
  <2> PICK a, b : a = SlotOf(k)[c] /\ b = SlotOf(k)[d]
    OBVIOUS
  <2>1. /\ Precedes(c, d) <=> a < b \/ (a = b /\ c < d)
        /\ Precedes(d, c) <=> b < a \/ (b = a /\ d < c)
    BY <1>2, <1>3, <1>6 DEF Precedes
  <2>2. a \in Nat /\ b \in Nat
    BY <1>4, <1>6
  <2> QED
    BY ONLY <1>1, <2>1, <2>2, c # d
<1> QED
  BY <1>5, <1>6

\* The reference is a function of the inputs, which no step changes.
LEMMA ReferenceFixed ==
  ASSUME request' = request, registry' = registry
  PROVE  /\ Ordinals' = Ordinals
         /\ MergedBy' = MergedBy
         /\ \A k : SlotOf(k)' = SlotOf(k)
         /\ \A c, d : Precedes(c, d)' <=> Precedes(c, d)
         /\ \A c, d : Conflict(c, d)' <=> Conflict(c, d)
<1>1. Ordinals' = Ordinals
  BY DEF Ordinals
<1>2. MergedBy' = MergedBy
  BY DEF MergedBy, NextRound, Ordinals, Selected, After, Least
<1>3. \A c, d : Conflict(c, d)' <=> Conflict(c, d)
  BY DEF Conflict, ResourcesOf
<1>4. \A k : SlotOf(k)' = SlotOf(k)
  BY <1>2 DEF SlotOf, First, Least, Ordinals, Conflict, ResourcesOf
<1>5. \A k : RoundOf(k)' = RoundOf(k)
  BY <1>1, <1>2 DEF RoundOf
<1>6. \A c, d : Precedes(c, d)' <=> Precedes(c, d)
  BY <1>4, <1>5 DEF Precedes
<1> QED
  BY <1>1, <1>2, <1>3, <1>4, <1>6

-----------------------------------------------------------------------------
(* The invariant of the order. *)

Members(k) == MergedBy[k] \ MergedBy[k - 1]
Left == Ordinals \ pending

\* The main thread is in round k, whose check is merged already or in the round.
InRoundOf(k) ==
    /\ MergedBy[k - 1] \subseteq Left /\ Left \subseteq MergedBy[k]
    /\ \A c : InRound(c) <=> c \in MergedBy[k] /\ c \in pending

\* Packing comes first, in the order of the ordinals, so no batch is merged yet
\* and a check finds fewer batches than checks before it.
PackedFirst(k, s) ==
    /\ unplaced # {} => s = 0 /\ Left = MergedBy[k - 1]
    /\ \A c \in unplaced :
        /\ Len(batches) < c
        /\ \A i \in DOMAIN batches : \A d \in batches[i] : d < c

\* A batch is one slot of the reference; s of them have been handed to the pool.
SlotsOf(k, s) ==
    /\ \A i \in DOMAIN batches : \A c \in batches[i] : SlotOf(k)[c] = s + i
    /\ \A c \in batch : SlotOf(k)[c] = s
    /\ \A c \in Left \ MergedBy[k - 1] :
        /\ SlotOf(k)[c] \in Nat
        /\ SlotOf(k)[c] <= s
        /\ pc = "collect" => SlotOf(k)[c] < s

Progress(k, s) == InRoundOf(k) /\ PackedFirst(k, s) /\ SlotsOf(k, s)

Between == pc \in {"round", "done"} => \E k \in 0..Len(request) : Left = MergedBy[k]
During == pc \in {"pack", "collect"} => \E k \in 1..Len(request), s \in Nat : Progress(k, s)
Ordered == \A i, j \in DOMAIN results : i < j => Precedes(results[i], results[j])

OInv == Between /\ During /\ Ordered

\* What a round takes from the pending checks is what the reference takes.
LEMMA RoundTaken ==
  ASSUME TypeOK, Merged
  PROVE  /\ Ready # {} => NextRound(Left) = Ready
         /\ Ready = {} => NextRound(Left) = {c \in pending : Least(c, pending)}
<1>1. Ordinals \ Left = pending
  BY DEF TypeOK, Left
<1>2. Ready = {c \in pending : \A n \in After(c) \cap Selected : \E d \in Left : request[d] = n}
  <2>1. \A n : n \in completed <=> \E d \in Left : request[d] = n
    BY DEF Merged, Left
  <2> QED
    BY <2>1 DEF Ready
<1> QED
  BY <1>1, <1>2 DEF NextRound

\* A round that begins is the next one of the reference.
LEMMA BeginStep ==
  ASSUME IInv, [Next]_vars, OInv, PickReady \/ ForceLeast
  PROVE  OInv'
<1>0. TypeOK /\ Shape /\ Merged /\ pc = "round"
  BY DEF IInv, PickReady, ForceLeast
<1> PICK n \in Nat : n = Len(request)
  BY <1>0 DEF TypeOK
<1>1. request' = request /\ registry' = registry
  BY InputsFixed
<1>2. request \in Seq(Names) /\ Ordinals = 1..n
  BY <1>0 DEF TypeOK, Ordinals
<1>3. PICK k \in 0..n : Left = MergedBy[k]
  BY <1>0 DEF OInv, Between
<1>4. pc' = "pack" /\ pending' = pending /\ batches' = batches /\ batch' = batch /\ results' = results
  BY DEF PickReady, ForceLeast
<1>5. unplaced' = NextRound(Left) /\ pending # {}
  <2>1. CASE PickReady
    BY <1>0, <2>1, RoundTaken DEF PickReady, Ready
  <2>2. CASE ForceLeast
    <3>1. PICK c \in pending : Least(c, pending) /\ unplaced' = {c}
      BY <2>2 DEF ForceLeast
    <3>2. \A d \in pending : Least(d, pending) => d = c
      BY <1>0, <1>2, <3>1 DEF Least, TypeOK
    <3> QED
      BY <1>0, <2>2, <3>1, <3>2, RoundTaken DEF ForceLeast
  <2> QED
    BY <2>1, <2>2
<1>6. k + 1 \in 1..n
  <2>1. MergedBy[k] # Ordinals
    BY <1>0, <1>3, <1>5 DEF TypeOK, Left
  <2> QED
    BY <1>2, <2>1, RoundLeft
<1> PICK m : m = k + 1
  OBVIOUS
<1>7. m \in 1..n /\ m - 1 = k
  BY <1>6
<1>8. MergedBy[m] = Left \cup NextRound(Left)
  BY <1>2, <1>3, <1>7, RoundsUnfold
<1>9. /\ \A c : InRound(c)' <=> c \in NextRound(Left)
      /\ NextRound(Left) \subseteq pending
  <2>1. NextRound(Left) \subseteq pending
    BY NextRoundMembers DEF Left
  <2>2. \A c : ~InRound(c)
    BY <1>0, RoundStart
  <2> QED
    BY <1>4, <1>5, <2>1, <2>2 DEF InRound
<1>10. /\ Left' = Left /\ MergedBy' = MergedBy /\ Len(request)' = n
       /\ \A c, d : Precedes(c, d)' <=> Precedes(c, d)
  BY <1>1, <1>4, ReferenceFixed DEF Left
<1>11. InRoundOf(m)'
  BY <1>3, <1>4, <1>7, <1>8, <1>9, <1>10 DEF InRoundOf, Left
<1>12. batches' = << >> /\ batch' = {}
  BY <1>0, <1>4 DEF Shape
<1>13. PackedFirst(m, 0)'
  <2>1. \A c \in unplaced' : c \in 1..n
    BY <1>0, <1>2, <1>5, <1>9 DEF TypeOK
  <2> QED
    BY <1>3, <1>7, <1>10, <1>12, <2>1 DEF PackedFirst
<1>14. SlotsOf(m, 0)'
  BY <1>3, <1>7, <1>10, <1>12 DEF SlotsOf
<1>15. During'
  BY <1>7, <1>10, <1>11, <1>13, <1>14 DEF During, Progress
<1>16. Between' /\ Ordered'
  BY <1>4, <1>10 DEF OInv, Between, Ordered
<1> QED
  BY <1>15, <1>16 DEF OInv

\* First fit in the order of the ordinals gives a check its slot.
LEMMA PlaceStep ==
  ASSUME IInv, [Next]_vars, OInv, NEW c \in Ordinals, Place(c)
  PROVE  OInv'
<1>0. TypeOK /\ Shape /\ pc = "pack" /\ pc' = "pack"
  BY DEF IInv, Place
<1> PICK n \in Nat : n = Len(request)
  BY <1>0 DEF TypeOK
<1>1. request' = request /\ registry' = registry
  BY InputsFixed
<1>2. request \in Seq(Names) /\ Ordinals = 1..n /\ batches \in Seq(SUBSET pending)
  BY <1>0 DEF TypeOK, Ordinals
<1>3. PICK k \in 1..n, s \in Nat : Progress(k, s)
  BY <1>0 DEF OInv, During
<1>4. /\ c \in unplaced /\ \A d \in unplaced : c <= d
      /\ unplaced' = unplaced \ {c}
      /\ pending' = pending /\ batch' = batch /\ results' = results
  BY DEF Place, Least
<1>5. s = 0 /\ Left = MergedBy[k - 1] /\ batch = {}
  BY <1>0, <1>3, <1>4 DEF Progress, PackedFirst, Shape
<1> PICK l \in Nat : l = Len(batches)
  BY <1>2
<1>6. /\ DOMAIN batches = 1..l /\ l < c
      /\ \A i \in 1..l : \A d \in batches[i] : d \in Members(k) /\ d < c /\ SlotOf(k)[d] = i
      /\ \A e \in Members(k) : e \in unplaced \/ \E i \in 1..l : e \in batches[i]
      /\ c \in Members(k)
  <2>1. DOMAIN batches = 1..l
    BY <1>2
  <2>2. \A e : e \in Members(k) <=> InRound(e)
    <3>1. MergedBy[k] \subseteq Ordinals
      BY <1>2, RoundsBounded
    <3> QED
      BY <1>3, <1>5, <3>1 DEF Progress, InRoundOf, Members, Left
  <2>3. l < c /\ \A i \in 1..l : \A d \in batches[i] : d < c
    BY <1>3, <1>4, <2>1 DEF Progress, PackedFirst
  <2>4. \A i \in 1..l : \A d \in batches[i] : SlotOf(k)[d] = i
    BY <1>3, <1>5, <2>1 DEF Progress, SlotsOf
  <2> QED
    BY <1>4, <1>5, <2>1, <2>2, <2>3, <2>4 DEF InRound
<1>7. \A j : j \in Taken(SlotOf(k), Members(k), c) <=> j \in 1..l /\ ~Fits(c, batches[j])
  <2> PICK t : t = SlotOf(k)
    OBVIOUS
  <2> PICK S : S = Members(k)
    OBVIOUS
  <2>1. \A e \in S : e < c => ~(e \in unplaced)
    <3> SUFFICES ASSUME NEW e \in S, e < c, e \in unplaced PROVE FALSE
      OBVIOUS
    <3>1. e \in Int /\ c \in Int
      BY <1>0, <1>2 DEF TypeOK
    <3>2. c <= e
      BY <1>4
    <3> QED
      BY <3>1, <3>2
  <2>2. \A e \in S : e < c => \E i \in 1..l : e \in batches[i] /\ t[e] = i
    BY <1>6, <2>1
  <2>3. \A i \in 1..l : \A d \in batches[i] : d \in S /\ d < c /\ t[d] = i
    BY <1>6
  <2>4. ASSUME NEW j, j \in Taken(t, S, c) PROVE j \in 1..l /\ ~Fits(c, batches[j])
    <3>1. PICK e \in S : e < c /\ Conflict(c, e) /\ j = t[e]
      BY <2>4 DEF Taken
    <3> QED
      BY <2>2, <3>1 DEF Fits
  <2>5. ASSUME NEW j \in 1..l, ~Fits(c, batches[j]) PROVE j \in Taken(t, S, c)
    BY <2>3, <2>5 DEF Fits, Taken
  <2> QED
    BY <2>4, <2>5
<1>8. PICK i \in 1..(l + 1) :
        /\ \A j \in 1..(i - 1) : ~Fits(c, batches[j])
        /\ i \in 1..l => Fits(c, batches[i])
        /\ DOMAIN batches' \subseteq 1..(l + 1)
        /\ Len(batches') <= l + 1
        /\ \A j \in DOMAIN batches' : j # i => j \in 1..l /\ batches'[j] = batches[j]
        /\ \A d \in batches'[i] : d = c \/ (i \in 1..l /\ d \in batches[i])
  <2>1. CASE (\A j \in DOMAIN batches : ~Fits(c, batches[j])) /\ batches' = Append(batches, {c})
    <3>1. ~ (l + 1 \in 1..l) /\ l + 1 \in 1..(l + 1)
      OBVIOUS
    <3>2. /\ DOMAIN batches' = 1..(l + 1)
          /\ Len(batches') = l + 1
          /\ batches'[l + 1] = {c}
          /\ \A j \in 1..l : batches'[j] = batches[j]
      <4>1. {c} \in SUBSET pending
        BY <1>0, <1>4 DEF TypeOK
      <4>2. batches' = Append(batches, {c})
        BY <2>1
      <4> QED
        BY <1>2, <4>1, <4>2, AppendProperties
    <3> QED
      BY <1>6, <2>1, <3>1, <3>2
  <2>2. ASSUME NEW i \in DOMAIN batches, Fits(c, batches[i]),
               \A j \in 1..(i - 1) : ~Fits(c, batches[j]),
               batches' = [batches EXCEPT ![i] = @ \cup {c}]
        PROVE  \E h \in 1..(l + 1) :
                /\ \A j \in 1..(h - 1) : ~Fits(c, batches[j])
                /\ h \in 1..l => Fits(c, batches[h])
                /\ DOMAIN batches' \subseteq 1..(l + 1)
                /\ Len(batches') <= l + 1
                /\ \A j \in DOMAIN batches' : j # h => j \in 1..l /\ batches'[j] = batches[j]
                /\ \A d \in batches'[h] : d = c \/ (h \in 1..l /\ d \in batches[h])
    <3>1. i \in 1..l /\ i \in 1..(l + 1)
      BY <1>6
    <3>2. /\ DOMAIN batches' = 1..l
          /\ Len(batches') = l
          /\ batches'[i] = batches[i] \cup {c}
          /\ \A j \in 1..l : j # i => batches'[j] = batches[j]
      BY <1>2, <1>6, <2>2
    <3> QED
      BY <2>2, <3>1, <3>2
  <2> QED
    BY <1>6, <2>1, <2>2 DEF Place
<1>9. SlotOf(k)[c] = i
  <2> PICK S : S = Members(k)
    OBVIOUS
  <2>1. i \in Ordinals /\ i \notin Taken(SlotOf(k), S, c)
    BY <1>2, <1>6, <1>7, <1>8
  <2>2. \A j \in 1..(i - 1) : j \in Taken(SlotOf(k), S, c)
    <3> TAKE j \in 1..(i - 1)
    <3>1. j \in 1..l /\ ~Fits(c, batches[j])
      BY <1>8
    <3> QED
      BY <1>7, <3>1
  <2>3. S = MergedBy[k] \ MergedBy[k - 1] /\ c \in S
    BY <1>6 DEF Members
  <2> QED
    BY <1>2, <2>1, <2>2, <2>3, SlotFound
<1>10. /\ Left' = Left /\ MergedBy' = MergedBy /\ Len(request)' = n
       /\ \A d, e : Precedes(d, e)' <=> Precedes(d, e)
       /\ SlotOf(k)' = SlotOf(k)
  BY <1>1, <1>4, ReferenceFixed DEF Left
<1>11. InRoundOf(k)'
  <2>1. \A d : InRound(d)' <=> InRound(d)
    BY <1>0, <1>4, RoundMembers DEF Place, PickReady, ForceLeast, Merge
  <2> QED
    BY <1>3, <1>4, <1>10, <2>1 DEF Progress, InRoundOf
<1>12. PackedFirst(k, s)'
  <2>1. \A d \in unplaced' : c < d /\ d \in 1..n /\ c \in 1..n
    BY <1>0, <1>2, <1>4 DEF TypeOK
  <2>2. \A j \in DOMAIN batches' : \A d \in batches'[j] : d = c \/ d < c
    BY <1>6, <1>8
  <2>3. \A j \in DOMAIN batches' : \A d \in batches'[j] : d \in Ordinals
    <3>1. Members(k) \subseteq Ordinals
      BY <1>2, RoundsBounded DEF Members
    <3> QED
      BY <1>6, <1>8, <3>1
  <2>4. Len(batches') \in Nat
    <3>1. batches' \in Seq(SUBSET pending')
      BY TypeStep DEF TypeOK
    <3> QED
      BY <3>1
  <2>5. \A d \in unplaced' : Len(batches') < d
    BY <1>6, <1>8, <2>1, <2>4
  <2>6. \A d \in unplaced' : \A j \in DOMAIN batches' : \A e \in batches'[j] : e < d
    BY <1>2, <2>1, <2>2, <2>3
  <2> QED
    BY <1>5, <1>10, <2>5, <2>6 DEF PackedFirst
<1>13. SlotsOf(k, s)'
  <2>1. \A j \in DOMAIN batches' : \A d \in batches'[j] : SlotOf(k)[d] = s + j
    BY <1>5, <1>6, <1>8, <1>9
  <2> QED
    BY <1>4, <1>5, <1>10, <2>1 DEF SlotsOf
<1>14. During'
  BY <1>10, <1>11, <1>12, <1>13 DEF During, Progress
<1>15. Between' /\ Ordered'
  BY <1>0, <1>4, <1>10 DEF OInv, Between, Ordered
<1> QED
  BY <1>14, <1>15 DEF OInv

\* The next batch of the round is the next slot.
LEMMA SubmitStep ==
  ASSUME IInv, [Next]_vars, OInv, Submit
  PROVE  OInv'
<1>0. TypeOK /\ Shape /\ pc = "pack" /\ pc' = "collect" /\ unplaced' = {}
  BY DEF IInv, Submit
<1> PICK n \in Nat : n = Len(request)
  BY <1>0 DEF TypeOK
<1>1. request' = request /\ registry' = registry
  BY InputsFixed
<1>2. PICK k \in 1..n, s \in Nat : Progress(k, s)
  BY <1>0 DEF OInv, During
<1>3. pending' = pending /\ results' = results
  BY DEF Submit
<1>4. /\ Left' = Left /\ MergedBy' = MergedBy /\ Len(request)' = n
      /\ \A d, e : Precedes(d, e)' <=> Precedes(d, e)
      /\ SlotOf(k)' = SlotOf(k)
  BY <1>1, <1>3, ReferenceFixed DEF Left
<1>5. InRoundOf(k)'
  <2>1. \A d : InRound(d)' <=> InRound(d)
    BY <1>0, RoundMembers DEF PickReady, ForceLeast, Merge
  <2> QED
    BY <1>2, <1>3, <1>4, <2>1 DEF Progress, InRoundOf
<1>6. PackedFirst(k, s + 1)'
  BY <1>0 DEF PackedFirst
<1>7. SlotsOf(k, s + 1)'
  <2>1. /\ 1 \in DOMAIN batches /\ batch' = batches[1]
        /\ \A i \in DOMAIN batches' : i \in Nat /\ i + 1 \in DOMAIN batches /\ batches'[i] = batches[i + 1]
    BY <1>0 DEF Submit, TypeOK
  <2>2. \A i \in DOMAIN batches : \A c \in batches[i] : SlotOf(k)[c] = s + i
    BY <1>2 DEF Progress, SlotsOf
  <2>3. \A c \in Left \ MergedBy[k - 1] : SlotOf(k)[c] \in Nat /\ SlotOf(k)[c] <= s
    BY <1>2 DEF Progress, SlotsOf
  <2>4. \A i \in DOMAIN batches' : \A c \in batches'[i] : SlotOf(k)[c] = (s + 1) + i
    BY <2>1, <2>2
  <2>5. \A c \in batch' : SlotOf(k)[c] = s + 1
    BY <2>1, <2>2
  <2>6. \A c \in Left \ MergedBy[k - 1] : SlotOf(k)[c] \in Nat /\ SlotOf(k)[c] < s + 1
    BY <2>3
  <2> QED
    BY <1>4, <2>4, <2>5, <2>6 DEF SlotsOf
<1>8. During'
  BY <1>4, <1>5, <1>6, <1>7 DEF During, Progress
<1>9. Between' /\ Ordered'
  BY <1>0, <1>3, <1>4 DEF OInv, Between, Ordered
<1> QED
  BY <1>8, <1>9 DEF OInv

\* Diagnostics are merged slot by slot, and by ordinal within a slot.
LEMMA MergeOrder ==
  ASSUME IInv, [Next]_vars, OInv, Merge
  PROVE  OInv'
<1>0. TypeOK /\ Shape /\ Merged /\ pc = "collect" /\ pc' = "pack" /\ unplaced = {} /\ unplaced' = {}
  BY DEF IInv, Merge, Shape
<1> PICK n \in Nat : n = Len(request)
  BY <1>0 DEF TypeOK
<1>1. request' = request /\ registry' = registry
  BY InputsFixed
<1>2. request \in Seq(Names) /\ Ordinals = 1..n
  BY <1>0 DEF TypeOK, Ordinals
<1>3. PICK k \in 1..n, s \in Nat : Progress(k, s)
  BY <1>0 DEF OInv, During
<1>4. pending' = pending \ batch /\ batches' = batches /\ batch' = {}
  BY DEF Merge
<1>5. /\ MergedBy' = MergedBy /\ Len(request)' = n /\ Ordinals' = Ordinals
      /\ \A d, e : Precedes(d, e)' <=> Precedes(d, e)
      /\ SlotOf(k)' = SlotOf(k)
  BY <1>1, ReferenceFixed
<1>6. Left' = Left \cup batch /\ batch \cap Left = {}
  BY <1>0, <1>4, <1>5 DEF Left, TypeOK
<1>7. InRoundOf(k)'
  <2>1. \A d : InRound(d)' <=> InRound(d) /\ d \notin batch
    BY <1>0, <1>4 DEF InRound, Shape
  <2>2. \A d \in batch : d \in MergedBy[k]
    BY <1>3 DEF Progress, InRoundOf, InRound
  <2> QED
    BY <1>3, <1>4, <1>5, <1>6, <2>1, <2>2 DEF Progress, InRoundOf
<1>8. PackedFirst(k, s)'
  BY <1>0 DEF PackedFirst
<1>9. SlotsOf(k, s)'
  BY <1>0, <1>3, <1>4, <1>5, <1>6 DEF Progress, SlotsOf
<1>10. During'
  BY <1>5, <1>7, <1>8, <1>9 DEF During, Progress
<1>11. PICK q \in Sorted(batch) : results' = results \o q
  BY DEF Merge
<1>12. q \in Seq(batch) /\ \A i, j \in DOMAIN q : i < j => q[i] < q[j]
  <2>1. batch \in SUBSET Ordinals
    BY <1>0 DEF TypeOK
  <2>2. q \in Seq(batch)
    BY <1>2, <2>1, OrdinalsFinite, SortedEnumerates
  <2> QED
    BY <2>2 DEF Sorted
<1>13. \A c \in batch : c \in Members(k) /\ SlotOf(k)[c] = s
  BY <1>0, <1>3, <1>6 DEF Progress, InRoundOf, InRound, SlotsOf, Members
<1>14. ASSUME NEW i \in DOMAIN results, NEW d \in batch PROVE Precedes(results[i], d)
  <2> PICK c : c = results[i]
    OBVIOUS
  <2>1. c \in Left
    BY <1>0 DEF Merged, TypeOK, Left
  <2>2. CASE c \in MergedBy[k - 1]
    BY <1>2, <1>13, <2>2, LaterRound DEF Members
  <2>3. CASE c \notin MergedBy[k - 1]
    <3>1. c \in Members(k) /\ SlotOf(k)[c] < s
      BY <1>0, <1>3, <2>1, <2>3 DEF Progress, InRoundOf, SlotsOf, Members
    <3> QED
      BY <1>2, <1>13, <3>1, SameRound DEF Members
  <2> QED
    BY <2>2, <2>3
<1>15. ASSUME NEW i \in DOMAIN q, NEW j \in DOMAIN q, i < j PROVE Precedes(q[i], q[j])
  <2>1. q[i] \in batch /\ q[j] \in batch /\ q[i] < q[j]
    BY <1>12, <1>15
  <2> QED
    BY <1>2, <1>13, <2>1, SameRound DEF Members
<1>16. Ordered'
  <2> PICK l \in Nat : l = Len(results)
    BY <1>0 DEF TypeOK
  <2>1. /\ DOMAIN results = 1..l /\ results \in Seq(Ordinals)
        /\ q \in Seq(Ordinals)
    BY <1>0, <1>12 DEF TypeOK
  <2>2. DOMAIN results' = 1..(l + Len(q)) /\ DOMAIN q = 1..Len(q) /\ Len(q) \in Nat
    BY <1>11, <2>1
  <2>3. /\ \A i \in 1..l : results'[i] = results[i]
        /\ \A i \in DOMAIN results' : i > l => i - l \in DOMAIN q /\ results'[i] = q[i - l]
    BY <1>11, <2>1, <2>2
  <2> SUFFICES ASSUME NEW i \in DOMAIN results', NEW j \in DOMAIN results', i < j
               PROVE  Precedes(results'[i], results'[j])
    BY <1>5 DEF Ordered
  <2>4. i \in Int /\ j \in Int /\ 1 <= i /\ 1 <= j
    BY <2>2
  <2>5. CASE j <= l
    <3>1. i \in DOMAIN results /\ j \in DOMAIN results
      BY <2>1, <2>4, <2>5
    <3> QED
      BY <2>1, <2>3, <3>1 DEF OInv, Ordered
  <2>6. CASE i <= l /\ j > l
    <3>1. i \in DOMAIN results /\ results'[i] = results[i] /\ results'[j] \in batch
      BY <1>12, <2>1, <2>3, <2>4, <2>6
    <3> QED
      BY <1>14, <3>1
  <2>7. CASE i > l
    <3>1. j > l /\ i - l < j - l
      BY <2>4, <2>7
    <3>2. i - l \in DOMAIN q /\ j - l \in DOMAIN q /\ results'[i] = q[i - l] /\ results'[j] = q[j - l]
      BY <2>3, <2>7, <3>1
    <3> QED
      BY <1>15, <3>1, <3>2
  <2> QED
    BY <2>4, <2>5, <2>6, <2>7
<1>17. Between'
  BY <1>0 DEF Between
<1> QED
  BY <1>10, <1>16, <1>17 DEF OInv

\* The last batch of a round completes it.
LEMMA EndStep ==
  ASSUME IInv, [Next]_vars, OInv, RoundDone \/ Return
  PROVE  OInv'
<1>0. TypeOK /\ Shape /\ pc' \in {"round", "done"}
  BY DEF IInv, RoundDone, Return
<1> PICK n \in Nat : n = Len(request)
  BY <1>0 DEF TypeOK
<1>1. request' = request /\ registry' = registry /\ pending' = pending /\ results' = results
  BY InputsFixed DEF RoundDone, Return, round
<1>2. /\ MergedBy' = MergedBy /\ Len(request)' = n /\ Left' = Left
      /\ \A d, e : Precedes(d, e)' <=> Precedes(d, e)
  BY <1>1, ReferenceFixed DEF Left
<1>3. \E k \in 0..n : Left = MergedBy[k]
  <2>1. CASE RoundDone
    <3>1. pc = "pack" /\ \A c : ~InRound(c)
      BY <1>0, <2>1 DEF RoundDone, InRound, Shape
    <3>2. PICK k \in 1..n, s \in Nat : Progress(k, s)
      BY <3>1 DEF OInv, During
    <3>3. MergedBy[k] \subseteq Ordinals
      BY <1>0, RoundsBounded DEF TypeOK
    <3>4. Left = MergedBy[k] /\ k \in 0..n
      BY <3>1, <3>2, <3>3 DEF Progress, InRoundOf, Left
    <3> QED
      BY <3>4
  <2>2. CASE Return
    BY <2>2 DEF OInv, Between, Return
  <2> QED
    BY <2>1, <2>2
<1>4. Between'
  BY <1>2, <1>3 DEF Between
<1>5. During' /\ Ordered'
  BY <1>0, <1>1, <1>2 DEF OInv, During, Ordered
<1> QED
  BY <1>4, <1>5 DEF OInv

\* The other steps leave the rounds and the report alone.
LEMMA OtherOrder ==
  ASSUME IInv, [Next]_vars, OInv,
         ~PickReady, ~ForceLeast, ~Submit, ~Merge, ~RoundDone, ~Return,
         \A c \in Ordinals : ~Place(c)
  PROVE  OInv'
<1>1. request' = request /\ registry' = registry
  BY InputsFixed
<1>2. /\ pending' = pending /\ unplaced' = unplaced /\ batches' = batches /\ batch' = batch
      /\ results' = results /\ pc' \in {pc, "unwind", "aborted"}
  BY DEF Next, Main, Worker, Ended, Collect, Raise, Interrupt, Unwind, Start, Finish, round, vars
<1>3. /\ MergedBy' = MergedBy /\ Len(request)' = Len(request) /\ Left' = Left
      /\ \A d, e : Precedes(d, e)' <=> Precedes(d, e)
      /\ \A k : SlotOf(k)' = SlotOf(k)
  BY <1>1, <1>2, ReferenceFixed DEF Left
<1>4. Between' /\ Ordered'
  BY <1>2, <1>3 DEF OInv, Between, Ordered
<1>5. During'
  <2> SUFFICES ASSUME pc' = pc, pc \in {"pack", "collect"} PROVE During'
    BY <1>2 DEF During
  <2>1. PICK k \in 1..Len(request), s \in Nat : Progress(k, s)
    BY DEF OInv, During
  <2>2. InRoundOf(k)'
    BY <1>2, <1>3, <2>1 DEF Progress, InRoundOf, InRound
  <2>3. PackedFirst(k, s)'
    BY <1>2, <1>3, <2>1 DEF Progress, PackedFirst
  <2>4. SlotsOf(k, s)'
    BY <1>2, <1>3, <2>1 DEF Progress, SlotsOf
  <2> QED
    BY <1>3, <2>1, <2>2, <2>3, <2>4 DEF During, Progress
<1> QED
  BY <1>4, <1>5 DEF OInv

\* Nothing is merged or reported before the first round.
LEMMA OrderInitially == Init => OInv
<1> SUFFICES ASSUME Init PROVE OInv
  OBVIOUS
<1> PICK n \in Nat : n = Len(request)
  BY SchedulerAssumption DEF Init
<1>1. Left = {} /\ MergedBy[0] = {}
  BY RoundsUnfold DEF Init, Left
<1> QED
  BY <1>1 DEF Init, OInv, Between, During, Ordered

\* For every request, registry and pool size, a run that returns reports in the
\* order computed without threads.
THEOREM OrderDetermined == Spec => []Deterministic
<1>1. IInv /\ OInv /\ [Next]_vars => OInv'
  BY BeginStep, PlaceStep, SubmitStep, MergeOrder, EndStep, OtherOrder
<1>2. OInv => Deterministic
  BY DEF OInv, Ordered, Deterministic
<1> QED
  BY OrderInitially, Invariance, <1>1, <1>2, PTL DEF Spec

=============================================================================
