--------------------------- MODULE CheckScheduler ---------------------------
(***************************************************************************)
(* The scheduler that runs the checks of a verification session:           *)
(* CheckScheduler.run, _resource_safe_batches, _run_batch and              *)
(* _run_scheduled_check of session.py.                                     *)
(*                                                                         *)
(* A request is a sequence of check names; a check is known by its ordinal *)
(* in that sequence, so one name may be requested twice.  The main thread  *)
(* works in rounds: it takes the checks whose prerequisites are completed  *)
(* (or the least pending one when a cycle leaves none), packs them into    *)
(* batches of checks with disjoint resources, and runs the batches one     *)
(* after the other, each on a thread pool.                                 *)
(***************************************************************************)
EXTENDS Naturals, Sequences, FiniteSets

CONSTANTS
    Names,          \* check names
    Resources,      \* names of the resources a check may declare
    Requests,       \* the requests considered: a set of sequences of names
    Registries,     \* the dependency tables considered
    MaxWorkers      \* bound on the threads of a pool (32 in the code)

Registry == [after : [Names -> SUBSET Names],
             resources : [Names -> SUBSET Resources]]

ASSUME SchedulerAssumption ==
    /\ Requests \subseteq Seq(Names)
    /\ Registries \subseteq Registry
    /\ MaxWorkers \in Nat \ {0}

VARIABLES
    request,        \* input of the run: the names requested, by ordinal
    registry,       \* input of the run: dependencies by check name
    pc,             \* where the main thread is
    pending,        \* ordinals not merged yet
    completed,      \* names merged so far
    unplaced,       \* ready ordinals not packed into a batch yet
    batches,        \* batches of this round still to run
    batch,          \* batch handed to the thread pool
    queued,         \* checks of the batch no thread has taken
    running,        \* checks some thread is executing
    waiting,        \* futures of the batch the main thread has not read
    outcome,        \* how each check ended
    results         \* ordinals in the order their diagnostics were merged

vars == <<request, registry, pc, pending, completed, unplaced, batches, batch,
          queued, running, waiting, outcome, results>>

inputs == <<request, registry>>
round == <<pending, completed, unplaced, batches>>
pool == <<queued, running>>

-----------------------------------------------------------------------------
Ordinals == DOMAIN request
Selected == {request[c] : c \in Ordinals}

After(c) == registry.after[request[c]]
ResourcesOf(c) == registry.resources[request[c]]
Conflict(c, d) == ResourcesOf(c) \cap ResourcesOf(d) # {}

\* c is the smallest ordinal of S.
Least(c, S) == c \in S /\ \A d \in S : c <= d

\* Mutants of Ready: every scheduled check is looked at again in each round; one
\* completed prerequisite is enough.
ReadyAgain == {c \in Ordinals : \A n \in After(c) : n \in completed \/ n \notin Selected}
ReadyAny == {c \in pending : After(c) # {} =>
                \E n \in After(c) : n \in completed \/ n \notin Selected}

\* A prerequisite that was not requested does not hold a check back.
Ready == {c \in pending : \A n \in After(c) : n \in completed \/ n \notin Selected}

\* The sequence of the elements of S in increasing order.
Sorted(S) == {s \in [1..Cardinality(S) -> S] :
                \A i, j \in DOMAIN s : i < j => s[i] < s[j]}

\* A callable returns its diagnostics; raises an Exception, which becomes one
\* check-failed diagnostic; or raises another BaseException (SystemExit).
Reported == {"ok", "failed"}
Outcomes == Reported \cup {"abort"}

Init ==
    /\ request \in Requests
    /\ registry \in Registries
    /\ pc = "round"
    /\ pending = Ordinals
    /\ completed = {}
    /\ unplaced = {}
    /\ batches = << >>
    /\ batch = {}
    /\ queued = {}
    /\ running = {}
    /\ waiting = {}
    /\ outcome = [c \in Ordinals |-> "none"]
    /\ results = << >>

-----------------------------------------------------------------------------
(* The main thread. *)

PickReady ==
    /\ pc = "round"
    /\ Ready # {}
    /\ unplaced' = Ready
    /\ pc' = "pack"
    /\ UNCHANGED <<inputs, pending, completed, batches, batch, pool, waiting, outcome, results>>

\* Mutant of ForceLeast: the round is left without forcing a check.
ForceNothing ==
    /\ pc = "round"
    /\ pending # {}
    /\ Ready = {}
    /\ unplaced' = {}
    /\ pc' = "pack"
    /\ UNCHANGED <<inputs, pending, completed, batches, batch, pool, waiting, outcome, results>>

\* A cycle of prerequisites leaves nothing ready: take the least pending check.
ForceLeast ==
    /\ pc = "round"
    /\ pending # {}
    /\ Ready = {}
    /\ \E c \in pending : Least(c, pending) /\ unplaced' = {c}
    /\ pc' = "pack"
    /\ UNCHANGED <<inputs, pending, completed, batches, batch, pool, waiting, outcome, results>>

\* Mutant of Fits: the resources of a batch are those of its first check
\* (used.update is forgotten).
FitsFirst(c, b) == \A d \in b : Least(d, b) => ~Conflict(c, d)

Fits(c, b) == \A d \in b : ~Conflict(c, d)

\* First fit, in the order of the ordinals: the first batch whose resources are
\* disjoint from the check's, or a new one at the end.
Place(c) ==
    /\ pc = "pack"
    /\ Least(c, unplaced)
    /\ \/ \E i \in DOMAIN batches :
            /\ Fits(c, batches[i])
            /\ \A j \in 1..(i - 1) : ~Fits(c, batches[j])
            /\ batches' = [batches EXCEPT ![i] = @ \cup {c}]
       \/ /\ \A i \in DOMAIN batches : ~Fits(c, batches[i])
          /\ batches' = Append(batches, {c})
    /\ unplaced' = unplaced \ {c}
    /\ UNCHANGED <<inputs, pc, pending, completed, batch, pool, waiting, outcome, results>>

Submit ==
    /\ pc = "pack"
    /\ unplaced = {}
    /\ batches # << >>
    /\ batch' = Head(batches)
    /\ queued' = Head(batches)
    /\ waiting' = Head(batches)
    /\ batches' = Tail(batches)
    /\ pc' = "collect"
    /\ UNCHANGED <<inputs, pending, completed, unplaced, running, outcome, results>>

\* Mutant of Collect: whatever a future holds is taken for diagnostics.
CollectAny(c) ==
    /\ pc = "collect"
    /\ Least(c, waiting)
    /\ outcome[c] # "none"
    /\ waiting' = waiting \ {c}
    /\ UNCHANGED <<inputs, pc, round, batch, pool, outcome, results>>

\* future.result(), in the order of submission.
Collect(c) ==
    /\ pc = "collect"
    /\ Least(c, waiting)
    /\ outcome[c] \in Reported
    /\ waiting' = waiting \ {c}
    /\ UNCHANGED <<inputs, pc, round, batch, pool, outcome, results>>

\* Mutants of Merge: diagnostics in any order, as completed futures arrive; and
\* only the first check of the batch taken off the pending list.
MergeAnyOrder ==
    /\ pc = "collect"
    /\ waiting = {}
    /\ queued = {} /\ running = {}
    /\ \E s \in [1..Cardinality(batch) -> batch] :
         (\A i, j \in DOMAIN s : i # j => s[i] # s[j]) /\ results' = results \o s
    /\ completed' = completed \cup {request[c] : c \in batch}
    /\ pending' = pending \ batch
    /\ batch' = {}
    /\ pc' = "pack"
    /\ UNCHANGED <<inputs, unplaced, batches, pool, waiting, outcome>>

MergeFirst ==
    /\ pc = "collect"
    /\ waiting = {}
    /\ queued = {} /\ running = {}
    /\ \E s \in Sorted(batch) : results' = results \o s
    /\ completed' = completed \cup {request[c] : c \in batch}
    /\ \E c \in batch : Least(c, batch) /\ pending' = pending \ {c}
    /\ batch' = {}
    /\ pc' = "pack"
    /\ UNCHANGED <<inputs, unplaced, batches, pool, waiting, outcome>>

\* Leaving the pool joins its threads; then the diagnostics are merged in the
\* order of the ordinals and the batch is taken off the pending list.
Merge ==
    /\ pc = "collect"
    /\ waiting = {}
    /\ queued = {} /\ running = {}
    /\ \E s \in Sorted(batch) : results' = results \o s
    /\ completed' = completed \cup {request[c] : c \in batch}
    /\ pending' = pending \ batch
    /\ batch' = {}
    /\ pc' = "pack"
    /\ UNCHANGED <<inputs, unplaced, batches, pool, waiting, outcome>>

RoundDone ==
    /\ pc = "pack"
    /\ unplaced = {}
    /\ batches = << >>
    /\ pc' = "round"
    /\ UNCHANGED <<inputs, round, batch, pool, waiting, outcome, results>>

Return ==
    /\ pc = "round"
    /\ pending = {}
    /\ pc' = "done"
    /\ UNCHANGED <<inputs, round, batch, pool, waiting, outcome, results>>

\* future.result() re-raises what is not an Exception.
Raise(c) ==
    /\ pc = "collect"
    /\ Least(c, waiting)
    /\ outcome[c] = "abort"
    /\ pc' = "unwind"
    /\ UNCHANGED <<inputs, round, batch, pool, waiting, outcome, results>>

\* KeyboardInterrupt while the main thread waits for a pool.  A batch of one
\* runs on the main thread, where the interrupt is an outcome of the check.
Interrupt ==
    /\ pc = "collect"
    /\ Cardinality(batch) > 1
    /\ pc' = "unwind"
    /\ UNCHANGED <<inputs, round, batch, pool, waiting, outcome, results>>

\* Mutant of Unwind: shutdown(wait=False).
UnwindNow ==
    /\ pc = "unwind"
    /\ pc' = "aborted"
    /\ UNCHANGED <<inputs, round, batch, pool, waiting, outcome, results>>

\* The exception leaves the with block only after shutdown(wait=True): the
\* checks still queued run first.
Unwind ==
    /\ pc = "unwind"
    /\ queued = {} /\ running = {}
    /\ pc' = "aborted"
    /\ UNCHANGED <<inputs, round, batch, pool, waiting, outcome, results>>

-----------------------------------------------------------------------------
(* The threads of the pool.  A pool of min(len(batch), MaxWorkers) threads  *)
(* serves its queue in the order of submission.                             *)

Start(c) ==
    /\ Least(c, queued)
    /\ Cardinality(running) < MaxWorkers
    /\ queued' = queued \ {c}
    /\ running' = running \cup {c}
    /\ UNCHANGED <<inputs, pc, round, batch, waiting, outcome, results>>

Finish(c) ==
    /\ c \in running
    /\ running' = running \ {c}
    /\ \E o \in Outcomes : outcome' = [outcome EXCEPT ![c] = o]
    /\ UNCHANGED <<inputs, pc, round, batch, queued, waiting, results>>

Ended == pc \in {"done", "aborted"} /\ UNCHANGED vars

Main ==
    \/ PickReady \/ ForceLeast \/ Submit \/ Merge \/ RoundDone \/ Return \/ Unwind
    \/ \E c \in Ordinals : Place(c) \/ Collect(c) \/ Raise(c)

Worker == \E c \in Ordinals : Start(c) \/ Finish(c)

Next == Main \/ Worker \/ Interrupt \/ Ended

Spec == Init /\ [][Next]_vars

-----------------------------------------------------------------------------
(* Properties *)

\* Every variable holds a value of its kind, and the sets of ordinals nest the
\* way the main thread's local variables do.
TypeOK ==
    /\ request \in Seq(Names)
    /\ registry \in Registry
    /\ pc \in {"round", "pack", "collect", "unwind", "done", "aborted"}
    /\ pending \subseteq Ordinals
    /\ completed \subseteq Selected
    /\ unplaced \subseteq pending
    /\ batches \in Seq(SUBSET pending)
    /\ batch \subseteq pending
    /\ queued \subseteq batch
    /\ running \subseteq batch
    /\ waiting \subseteq batch
    /\ outcome \in [Ordinals -> Outcomes \cup {"none"}]
    /\ results \in Seq(Ordinals)

\* Two checks that declare a common resource never execute at the same time:
\* what _resource_safe_batches packs together is what the pool runs together.
ResourceExclusion == \A c, d \in running : c # d => ~Conflict(c, d)

\* The names on a cycle of prerequisites, or downstream of one.
Cyclic(S) == \A n \in S : registry.after[n] \cap S # {}
Doomed == UNION {S \in SUBSET Selected : Cyclic(S)}

\* A check executes only after every requested check it names in `after` has
\* been merged, whatever cycles the rest of the request has: the fallback of
\* run() that breaks a cycle never disturbs a check whose prerequisites are
\* free of cycles.
DependencyOrder ==
    \A c \in running : request[c] \notin Doomed =>
        \A d \in Ordinals : request[d] \in After(c) => d \in Ordinals \ pending

\* A run that returns has run every requested check, and merged its diagnostics
\* exactly once, also when checks raised: none is lost, duplicated or aborted.
CompleteReport ==
    pc = "done" =>
        /\ Len(results) = Len(request)
        /\ \A c \in Ordinals :
            /\ outcome[c] \in Reported
            /\ \E i \in DOMAIN results : results[i] = c

\* No check is executed twice: a check that starts has not ended before.
RunsOnce == [][\A c \in Ordinals : c \in running' \ running => outcome[c] = "none"]_vars

\* run() leaves no thread behind, on either way out.
PoolJoined == pc \in {"done", "aborted"} => queued = {} /\ running = {}

\* The order of the diagnostics, computed without threads: by round, then by
\* the first batch of the round whose earlier members do not conflict.
NextRound(merged) ==
    LET left == Ordinals \ merged
        ready == {c \in left : \A n \in After(c) \cap Selected :
                                   \E d \in merged : request[d] = n}
    IN  IF ready # {} THEN ready ELSE {c \in left : Least(c, left)}

MergedBy == LET f[k \in 0..Len(request)] ==
                    IF k = 0 THEN {} ELSE f[k - 1] \cup NextRound(f[k - 1])
            IN  f

RoundOf(c) == CHOOSE k \in Ordinals : c \in MergedBy[k] \ MergedBy[k - 1]

\* A check goes to the first slot that no earlier one in conflict with it has;
\* there are no more slots than checks.
First(S) == CHOOSE i \in S : Least(i, S)
SlotOf(r) ==
    LET members == MergedBy[r] \ MergedBy[r - 1]
        slot[c \in members] ==
            First(Ordinals \ {slot[d] : d \in {e \in members : e < c /\ Conflict(c, e)}})
    IN  slot

Precedes(c, d) ==
    LET r == RoundOf(c)
        q == RoundOf(d)
    IN  \/ r < q
        \/ r = q /\ SlotOf(r)[c] < SlotOf(r)[d]
        \/ r = q /\ SlotOf(r)[c] = SlotOf(r)[d] /\ c < d

\* The order of the output is a function of the request and the registry: no
\* interleaving of the threads, and no check that raises, changes it.
Deterministic ==
    pc = "done" => \A i, j \in DOMAIN results : i < j => Precedes(results[i], results[j])

=============================================================================
