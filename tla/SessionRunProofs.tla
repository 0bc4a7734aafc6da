-------------------------- MODULE SessionRunProofs --------------------------
(***************************************************************************)
(* For any registry, request and number of threads: when checks that share *)
(* a product declare a common resource, they never want it at once, and a  *)
(* session leaves its cache free.                                          *)
(***************************************************************************)
EXTENDS SessionRun, CheckSchedulerProofs

\* The obligation on CHECK_DEPENDENCIES: callables that ask the cache for the
\* same product declare a common resource.
ProductsCovered ==
    \A R \in Registries : \A n, m \in Names :
        Uses[n] \cap Uses[m] # {} => R.resources[n] \cap R.resources[m] # {}

\* Who is in a memoize call is running and asked for a product of its own, and
\* who holds the lock is in such a call.
Busy ==
    /\ request \in Requests
    /\ registry \in Registries
    /\ want = [c \in 1..MaxRequest |-> want[c]]
    /\ \A c \in Ordinals : want[c] # NoKey => c \in running /\ want[c] \in Uses[request[c]]
    /\ owner # 0 => owner \in Ordinals /\ want[owner] # NoKey

LEMMA OrdinalsBounded ==
  ASSUME request \in Requests
  PROVE  Ordinals \subseteq 1..MaxRequest /\ \A c \in Ordinals : c # 0 /\ request[c] \in Names
<1>1. request \in Seq(Names) /\ Len(request) <= MaxRequest /\ MaxRequest \in Nat
  BY SchedulerAssumption, SessionAssumption
<1> QED BY <1>1 DEF Ordinals

LEMMA InitBusy == SessionInit => Busy
<1> SUFFICES ASSUME SessionInit PROVE Busy
  OBVIOUS
<1>1. request \in Requests /\ registry \in Registries
  BY DEF SessionInit, Init
<1>2. want = [c \in 1..MaxRequest |-> NoKey] /\ owner = 0
  BY DEF SessionInit, Cache!MemoInit
<1> QED BY <1>1, <1>2, OrdinalsBounded DEF Busy

\* The session only restricts when a step of the scheduler happens.
LEMMA SchedulerStep == [SessionNext]_svars => [Next]_vars
  BY DEF SessionNext, svars, Steer, Stop, Ask, Serve, End, Take, Next, Worker

LEMMA SchedulerKept == SessionSpec => Spec
<1>1. SessionInit => Init
  BY DEF SessionInit
<1> QED BY <1>1, SchedulerStep, PTL DEF SessionSpec, Spec

\* The main thread neither starts nor ends a check.
LEMMA MainLeavesRunning ==
  ASSUME Main \/ Interrupt \/ Ended
  PROVE  UNCHANGED <<request, registry, running>>
<1>1. ASSUME PickReady \/ ForceLeast \/ Submit \/ Merge \/ RoundDone \/ Return \/ Unwind
      PROVE  UNCHANGED <<request, registry, running>>
  BY <1>1 DEF PickReady, ForceLeast, Submit, Merge, RoundDone, Return, Unwind, inputs, pool
<1>2. ASSUME NEW c \in Ordinals, Place(c) \/ Collect(c) \/ Raise(c)
      PROVE  UNCHANGED <<request, registry, running>>
  BY <1>2 DEF Place, Collect, Raise, inputs, pool
<1>3. ASSUME Interrupt \/ Ended
      PROVE  UNCHANGED <<request, registry, running>>
  BY <1>3 DEF Interrupt, Ended, inputs, pool, vars
<1> QED BY <1>1, <1>2, <1>3 DEF Main

LEMMA BusyStep ==
  ASSUME Busy, [SessionNext]_svars
  PROVE  Busy'
<1> USE OrdinalsBounded DEF Busy
<1>1. CASE Steer \/ Stop
  <2>1. UNCHANGED <<request, registry, running, want, owner>>
    BY <1>1, MainLeavesRunning DEF Steer, Stop, cache
  <2> QED BY <2>1 DEF Ordinals
<1>2. ASSUME NEW c \in Ordinals, Ask(c)
      PROVE  Busy'
  <2>1. PICK k \in Uses[request[c]] : want' = [want EXCEPT ![c] = k]
    BY <1>2 DEF Ask, Cache!Call
  <2>2. c \in running /\ want[c] = NoKey /\ UNCHANGED <<request, registry, running, owner>>
    BY <1>2 DEF Ask, Cache!Call, vars, inputs, pool
  <2>3. k # NoKey
    BY SessionAssumption
  <2> QED BY <2>1, <2>2, <2>3 DEF Ordinals
<1>3. ASSUME NEW c \in Ordinals, Serve(c)
      PROVE  Busy'
  <2>1. UNCHANGED <<request, registry, running>>
    BY <1>3 DEF Serve, vars
  <2>2. CASE Cache!Hit(c)
    BY <2>1, <2>2 DEF Cache!Hit, Ordinals
  <2>3. CASE Cache!Miss(c)
    BY <2>1, <2>3 DEF Cache!Miss, Ordinals
  <2>4. CASE Cache!Built(c) \/ Cache!Raised(c)
    <3>1. owner = c /\ (\/ owner' = 0 /\ want' = [want EXCEPT ![c] = NoKey]
                        \/ UNCHANGED <<owner, want>>)
      BY <2>4 DEF Cache!Built, Cache!Raised, Cache!Leave
    <3> QED BY <2>1, <3>1 DEF Ordinals
  <2> QED BY <1>3, <2>2, <2>3, <2>4 DEF Serve, Cache!Step, Cache!Enter, Cache!End
<1>4. ASSUME NEW c \in Ordinals, End(c)
      PROVE  Busy'
  <2>1. want[c] = NoKey /\ running' = running \ {c} /\ UNCHANGED <<request, registry, want, owner>>
    BY <1>4 DEF End, Finish, inputs, cache
  <2> QED BY <2>1 DEF Ordinals
<1>5. ASSUME NEW c \in Ordinals, Take(c)
      PROVE  Busy'
  <2>1. running' = running \cup {c} /\ UNCHANGED <<request, registry, want, owner>>
    BY <1>5 DEF Take, Start, inputs, cache
  <2> QED BY <2>1 DEF Ordinals
<1>6. CASE UNCHANGED svars
  BY <1>6 DEF svars, vars, cache, Ordinals
<1> QED BY <1>1, <1>2, <1>3, <1>4, <1>5, <1>6 DEF SessionNext

THEOREM BusyKept == SessionSpec => []Busy
  BY InitBusy, BusyStep, PTL DEF SessionSpec

\* Checks of a session never queue behind one another for the same product of
\* AnalysisCache, given that the dependency table covers what they share.
THEOREM NobodyWaitsForItsOwn ==
  ASSUME ProductsCovered
  PROVE  SessionSpec => []WantedApart
<1>1. Busy /\ ResourceExclusion => WantedApart
  <2> SUFFICES ASSUME Busy, ResourceExclusion, NEW c \in Ordinals, NEW d \in Ordinals,
                      c # d, want[c] # NoKey, want[c] = want[d]
               PROVE  FALSE
    BY DEF WantedApart
  <2>1. c \in running /\ d \in running
        /\ want[c] \in Uses[request[c]] \cap Uses[request[d]]
    BY DEF Busy
  <2>2. request[c] \in Names /\ request[d] \in Names
    BY OrdinalsBounded DEF Busy
  <2>3. Conflict(c, d)
    BY <2>1, <2>2 DEF ProductsCovered, Busy, Conflict, ResourcesOf
  <2> QED BY <2>1, <2>3 DEF ResourceExclusion
<1>2. Spec => []ResourceExclusion
  BY ExclusionHolds
<1> QED BY <1>1, <1>2, BusyKept, SchedulerKept, PTL

\* However a session of CheckScheduler.run ends, no thread is left in memoize.
THEOREM CacheIsReleased == SessionSpec => []CacheReleased
<1>1. Busy /\ PoolJoined => CacheReleased
  BY DEF Busy, PoolJoined, CacheReleased
<1>2. Spec => []PoolJoined
  BY NoThreadLeft
<1> QED BY <1>1, <1>2, BusyKept, SchedulerKept, PTL
==============================================================================
