-------------------------- MODULE IncrementalProofs --------------------------
(***************************************************************************)
(* What is proved of IncrementalVerification, for any number of runs,      *)
(* checks, artifacts and edits, in four parts: the ledger (every check is  *)
(* answered, never from the cache when its inputs changed), fresh reuse,   *)
(* the refinement of full verification, and the store of a run that no     *)
(* other run contends with.                                                *)
(***************************************************************************)
EXTENDS IncrementalVerification, TLAPS

(***************************************************************************)
(* Every requested check is answered, and never from the cache when its    *)
(* inputs changed: for any number of runs, checks, artifacts and edits,    *)
(* whatever the checks look at.                                            *)
(***************************************************************************)

\* Variables that hold a dictionary or a set for each run.
Tables ==
    /\ cache = [r \in Runs |-> cache[r]]
    /\ reused = [r \in Runs |-> reused[r]]
    /\ fresh = [r \in Runs |-> fresh[r]]
    /\ toRun = [r \in Runs |-> toRun[r]]
    /\ unstored = [r \in Runs |-> unstored[r]]

\* How far a run is with what it has: nothing is answered before the cache is
\* opened, the plan covers the request, and what is stored has been run.
Progress ==
    \A r \in Runs :
        /\ pc[r] \in {"idle", "load", "crashed"} => DOMAIN reused[r] = {} /\ DOMAIN fresh[r] = {}
        /\ pc[r] \in {"idle", "crashed"} => reading[r] = {}
        /\ pc[r] \in {"run", "store", "write"} => toLoad[r] = {} /\ reading[r] = {}
        /\ pc[r] \in {"run", "store", "write", "done"} => toRun[r] = Checks \ DOMAIN reused[r]
        /\ pc[r] \in {"store", "write", "done"} => DOMAIN fresh[r] = toRun[r]

Shape == TypeOK /\ Tables
LInv == Shape /\ Progress /\ ChangedAreRerun

LEMMA InitLedger == Init => LInv
<1> SUFFICES ASSUME Init PROVE LInv
  OBVIOUS
<1>1. DOMAIN Empty = {} /\ IsCache(Empty)
  BY DEF Empty, IsCache
<1>2. TypeOK
  BY <1>1, IncrementalAssumption DEF Init, TypeOK, Inputs
<1>3. Tables /\ Progress /\ ChangedAreRerun
  BY <1>1 DEF Init, Tables, Progress, ChangedAreRerun
<1> QED BY <1>2, <1>3 DEF LInv, Shape

LEMMA KeyShape ==
  ASSUME NEW c \in Checks, NEW l
  PROVE  Key(c, l).check = c /\ DOMAIN Key(c, l).inputs \subseteq Files
  BY DEF Key, Declared, Files

\* Dictionaries and plans that a step leaves alone keep their types.
LEMMA CachesKept ==
  ASSUME TypeOK, UNCHANGED <<file, cache>>
  PROVE  (file = Torn \/ IsCache(file))' /\ \A r \in Runs : IsCache(cache[r])'
<1>1. file' = Torn \/ IsCache(file')
  BY DEF TypeOK
<1>2. \A r \in Runs : IsCache(cache'[r])
  BY DEF TypeOK
<1> QED BY <1>1, <1>2

LEMMA PlansKept ==
  ASSUME TypeOK, UNCHANGED <<reused, toRun, fresh, unstored>>
  PROVE  \A r \in Runs :
            /\ toRun'[r] \subseteq Checks
            /\ DOMAIN reused'[r] \subseteq Checks \ toRun'[r]
            /\ DOMAIN fresh'[r] \subseteq toRun'[r]
            /\ unstored'[r] \subseteq DOMAIN fresh'[r]
  BY DEF TypeOK

LEMMA EditLedger ==
  ASSUME LInv, NEW f \in Files, Edit(f)
  PROVE  LInv'
<1> USE DEF LInv, Shape
<1>1. TypeOK'
  <2>1. disk' \in Inputs
    BY DEF TypeOK, Edit, Inputs
  <2>2. edits' \in 0..MaxEdits
    BY IncrementalAssumption DEF TypeOK, Edit
  <2>3. /\ pc \in [Runs -> {"idle", "load", "run", "store", "write", "done", "crashed"}]
        /\ UNCHANGED <<file, pc, plans, fresh, writes>>
    BY DEF TypeOK, Edit
  <2> QED BY <2>1, <2>2, <2>3, CachesKept, PlansKept DEF TypeOK, plans, writes
<1>2. Tables' /\ Progress' /\ ChangedAreRerun'
  BY DEF Edit, plans, writes, Tables, Progress, ChangedAreRerun
<1> QED BY <1>1, <1>2

LEMMA StartLedger ==
  ASSUME LInv, NEW r \in Runs, Start(r)
  PROVE  LInv'
<1> USE DEF LInv, Shape
<1>1. TypeOK'
  <2>1. loaded' \in [Runs -> Inputs] /\ hashed' \in [Runs -> Inputs]
    BY DEF TypeOK, Start, Inputs, Files
  <2>2. /\ pc' \in [Runs -> {"idle", "load", "run", "store", "write", "done", "crashed"}]
        /\ toLoad' \in [Runs -> SUBSET Artifacts]
    BY DEF TypeOK, Start
  <2>3. UNCHANGED <<disk, edits, file, changedPaths, reading, cache, reused, toRun, fresh, unstored,
                    overlap, contended>>
    BY DEF Start, disks, writes
  <2> QED BY <2>1, <2>2, <2>3, CachesKept, PlansKept DEF TypeOK
<1>2. Tables'
  BY DEF Start, writes, Tables
<1>3. Progress'
  <2>1. /\ pc[r] = "idle" /\ pc'[r] = "load"
        /\ UNCHANGED <<reading, reused, toRun, fresh>>
        /\ \A q \in Runs \ {r} : pc'[q] = pc[q] /\ toLoad'[q] = toLoad[q]
    BY DEF Start, TypeOK
  <2> QED BY <2>1 DEF Progress
<1>4. ChangedAreRerun'
  <2>1. DOMAIN reused[r] = {}
    BY DEF Start, Progress
  <2>2. \A q \in Runs \ {r} : loaded'[q] = loaded[q]
    BY DEF Start, TypeOK
  <2> QED BY <2>1, <2>2 DEF Start, ChangedAreRerun
<1> QED BY <1>1, <1>2, <1>3, <1>4

LEMMA LoadLedger ==
  ASSUME LInv, NEW r \in Runs, NEW a \in Artifacts, Load(r, a)
  PROVE  LInv'
<1> USE DEF LInv, Shape
<1>1. TypeOK'
  <2>1. loaded' \in [Runs -> Inputs] /\ hashed' \in [Runs -> Inputs]
    BY DEF TypeOK, Load, Inputs, Files
  <2>2. toLoad' \in [Runs -> SUBSET Artifacts] /\ reading' \in [Runs -> SUBSET Artifacts]
    BY DEF TypeOK, Load
  <2>3. UNCHANGED <<disk, edits, file, pc, changedPaths, cache, reused, toRun, fresh, unstored,
                    overlap, contended>>
    BY DEF Load, disks, writes
  <2> QED BY <2>1, <2>2, <2>3, CachesKept, PlansKept DEF TypeOK
<1>2. Tables'
  BY DEF Load, writes, Tables
<1>3. Progress'
  <2>1. /\ pc[r] = "load" /\ UNCHANGED <<pc, reused, toRun, fresh>>
        /\ \A q \in Runs \ {r} : toLoad'[q] = toLoad[q] /\ reading'[q] = reading[q]
    BY DEF Load, TypeOK
  <2> QED BY <2>1 DEF Progress
<1>4. ChangedAreRerun'
  <2>1. DOMAIN reused[r] = {}
    BY DEF Load, Progress
  <2>2. \A q \in Runs \ {r} : loaded'[q] = loaded[q]
    BY DEF Load, TypeOK
  <2> QED BY <2>1, <2>2 DEF Load, ChangedAreRerun
<1> QED BY <1>1, <1>2, <1>3, <1>4

LEMMA HashLedger ==
  ASSUME LInv, NEW r \in Runs, NEW a \in Artifacts, Hash(r, a)
  PROVE  LInv'
<1> USE DEF LInv, Shape
<1>1. TypeOK'
  <2>1. hashed' \in [Runs -> Inputs]
    BY DEF TypeOK, Hash, Inputs, Files
  <2>2. loaded' \in [Runs -> Inputs]
    BY DEF TypeOK, Hash, Inputs, Files
  <2>3. reading' \in [Runs -> SUBSET Artifacts]
    BY DEF TypeOK, Hash
  <2>4. UNCHANGED <<disk, edits, file, pc, changedPaths, toLoad, cache, reused, toRun, fresh,
                    unstored, overlap, contended>>
    BY DEF Hash, disks, writes
  <2> QED BY <2>1, <2>2, <2>3, <2>4, CachesKept, PlansKept DEF TypeOK
<1>2. Tables'
  BY DEF Hash, writes, Tables
<1>3. Progress'
  <2>1. /\ pc[r] = "load" /\ UNCHANGED <<pc, toLoad, reused, toRun, fresh>>
        /\ \A q \in Runs \ {r} : reading'[q] = reading[q]
    BY DEF Hash, TypeOK
  <2> QED BY <2>1 DEF Progress
<1>4. ChangedAreRerun'
  <2>1. DOMAIN reused[r] = {}
    BY DEF Hash, Progress
  <2>2. \A q \in Runs \ {r} : loaded'[q] = loaded[q]
    BY DEF Hash, TypeOK
  <2> QED BY <2>1, <2>2 DEF Hash, ChangedAreRerun
<1> QED BY <1>1, <1>2, <1>3, <1>4

\* What the certificate accepts did not change.
LEMMA ReusableUnchanged ==
  ASSUME NEW r \in Runs, NEW paths, NEW c \in Checks, Reusable(r, paths, c)
  PROVE  /\ paths # {} /\ Config \notin paths
         /\ \A a \in Declared(c) : a \notin Remote
         /\ \A a \in Declared(c) \cap paths : loaded[r][a] = Missing
<1>1. Table.kinds[c] # {} /\ \A a \in Declared(c) : a \in Artifacts /\ KindOf[a] \in Table.kinds[c]
  BY DEF Reusable, CutProved, Declared
<1>2. \A a \in Declared(c) : a \notin Remote
  BY <1>1 DEF Reusable, CutProved, RemoteKinds
<1>3. ASSUME NEW a \in Declared(c) \cap paths, loaded[r][a] # Missing
      PROVE  FALSE
  <2>1. KindOf[a] \in ChangedKinds(r, paths)
    BY <1>1, <1>2, <1>3 DEF ChangedKinds, Present, Files
  <2> QED BY <1>1, <2>1 DEF Reusable, CutProved
<1> QED BY <1>2, <1>3 DEF Reusable, FullRun

LEMMA OpenLedger ==
  ASSUME LInv, NEW r \in Runs, Open(r)
  PROVE  LInv'
<1> USE DEF LInv, Shape
<1>1. PICK paths \in Changes :
        LET hits == {c \in Checks : Reusable(r, paths, c) /\ Key(c, hashed[r]) \in DOMAIN OnFile}
        IN  /\ changedPaths' = [changedPaths EXCEPT ![r] = paths]
            /\ reused' = [reused EXCEPT ![r] = [c \in hits |-> OnFile[Key(c, hashed[r])]]]
            /\ toRun' = [toRun EXCEPT ![r] = Checks \ hits]
  BY DEF Open, Recomputed
<1> DEFINE hits == {c \in Checks : Reusable(r, paths, c) /\ Key(c, hashed[r]) \in DOMAIN OnFile}
<1>2. IsCache(OnFile)
  BY DEF OnFile, Empty, IsCache, TypeOK
<1>3. Tables'
  BY <1>1 DEF Open, Tables
<1>4. /\ reused'[r] = [c \in hits |-> OnFile[Key(c, hashed[r])]]
      /\ toRun'[r] = Checks \ hits
      /\ cache'[r] = OnFile
      /\ changedPaths'[r] = paths
      /\ pc'[r] = IF toRun'[r] = {} THEN "done" ELSE "run"
      /\ DOMAIN fresh[r] = {}
  BY <1>1 DEF Open, Tables, TypeOK, Progress
<1>5. ASSUME NEW q \in Runs \ {r}
      PROVE  /\ reused'[q] = reused[q]
             /\ toRun'[q] = toRun[q]
             /\ cache'[q] = cache[q]
             /\ changedPaths'[q] = changedPaths[q]
             /\ pc'[q] = pc[q]
  BY <1>1 DEF Open, Tables, TypeOK
<1>6. DOMAIN reused'[r] = hits
  BY <1>4
<1>7. TypeOK'
  <2>1. pc' \in [Runs -> {"idle", "load", "run", "store", "write", "done", "crashed"}]
    BY DEF Open, TypeOK
  <2>2. changedPaths' \in [Runs -> SUBSET Paths]
    BY <1>1, IncrementalAssumption DEF TypeOK
  <2>3. ASSUME NEW q \in Runs
        PROVE  /\ IsCache(cache'[q])
               /\ toRun'[q] \subseteq Checks
               /\ DOMAIN reused'[q] \subseteq Checks \ toRun'[q]
               /\ DOMAIN fresh[q] \subseteq toRun'[q]
    BY <1>2, <1>4, <1>5, <1>6 DEF TypeOK
  <2>4. file' = Torn \/ IsCache(file')
    BY DEF Open, disks, TypeOK
  <2>5. contended' \in [Runs -> BOOLEAN]
    BY DEF Open, TypeOK
  <2> QED BY <2>1, <2>2, <2>3, <2>4, <2>5 DEF Open, TypeOK, disks
<1>8. Progress'
  <2> SUFFICES ASSUME NEW q \in Runs
               PROVE  /\ pc'[q] \in {"idle", "load", "crashed"} => DOMAIN reused'[q] = {} /\ DOMAIN fresh[q] = {}
                      /\ pc'[q] \in {"idle", "crashed"} => reading[q] = {}
                      /\ pc'[q] \in {"run", "store", "write"} => toLoad[q] = {} /\ reading[q] = {}
                      /\ pc'[q] \in {"run", "store", "write", "done"} => toRun'[q] = Checks \ DOMAIN reused'[q]
                      /\ pc'[q] \in {"store", "write", "done"} => DOMAIN fresh[q] = toRun'[q]
    BY DEF Progress, Open
  <2>1. CASE q = r
    <3>1. pc'[q] \in {"run", "done"} /\ (pc'[q] = "done" => toRun'[q] = {})
      BY <1>4, <2>1
    <3>2. toRun'[q] = Checks \ DOMAIN reused'[q]
      BY <1>4, <1>6, <2>1
    <3>3. toLoad[q] = {} /\ reading[q] = {} /\ DOMAIN fresh[q] = {}
      BY <1>4, <2>1 DEF Open
    <3> QED BY <3>1, <3>2, <3>3
  <2>2. CASE q # r
    BY <1>5, <2>2 DEF Progress
  <2> QED BY <2>1, <2>2
<1>9. ChangedAreRerun'
  <2> SUFFICES ASSUME NEW q \in Runs, NEW c \in DOMAIN reused'[q]
               PROVE  /\ changedPaths'[q] # {}
                      /\ Config \notin changedPaths'[q]
                      /\ \A a \in Declared(c) : a \notin Remote
                      /\ \A a \in Declared(c) \cap changedPaths'[q] : loaded[q][a] = Missing
    BY DEF ChangedAreRerun, Open
  <2>1. CASE q = r
    BY <1>4, <1>6, <2>1, ReusableUnchanged
  <2>2. CASE q # r
    BY <1>5, <2>2 DEF ChangedAreRerun
  <2> QED BY <2>1, <2>2
<1> QED BY <1>3, <1>7, <1>8, <1>9

LEMMA RunLedger ==
  ASSUME LInv, NEW r \in Runs, NEW c \in Checks, Run(r, c)
  PROVE  LInv'
<1> USE DEF LInv, Shape
<1>1. PICK answer :
        fresh' = [fresh EXCEPT ![r] = [d \in DOMAIN @ \cup {c} |->
                     IF d = c THEN answer ELSE @[d]]]
  BY DEF Run
<1>2. fresh'[r] = [d \in DOMAIN fresh[r] \cup {c} |-> IF d = c THEN answer ELSE fresh[r][d]]
  BY <1>1 DEF Tables
<1>3. DOMAIN fresh'[r] = DOMAIN fresh[r] \cup {c}
  BY <1>2
<1>4. \A q \in Runs \ {r} : fresh'[q] = fresh[q]
  BY <1>1 DEF Tables
<1>5. TypeOK'
  <2>1. ASSUME NEW q \in Runs
        PROVE  DOMAIN fresh'[q] \subseteq toRun[q] /\ unstored[q] \subseteq DOMAIN fresh'[q]
    <3>1. CASE q = r
      BY <1>3, <3>1 DEF Run, TypeOK
    <3>2. CASE q # r
      BY <1>4, <3>2 DEF TypeOK
    <3> QED BY <3>1, <3>2
  <2>2. UNCHANGED <<disks, pc, plans, writes>>
    BY DEF Run
  <2> QED BY <2>1, <2>2, CachesKept DEF TypeOK, disks, plans, writes
<1>6. Tables'
  BY <1>1 DEF Run, plans, writes, Tables
<1>7. Progress'
  <2> SUFFICES ASSUME NEW q \in Runs
               PROVE  /\ pc[q] \in {"idle", "load", "crashed"} => DOMAIN fresh'[q] = {}
                      /\ pc[q] \in {"store", "write", "done"} => DOMAIN fresh'[q] = toRun[q]
    BY DEF Progress, Run, plans, writes
  <2>1. CASE q = r
    BY <2>1 DEF Run
  <2>2. CASE q # r
    BY <1>4, <2>2 DEF Progress
  <2> QED BY <2>1, <2>2
<1>8. ChangedAreRerun'
  BY DEF Run, plans, writes, ChangedAreRerun
<1> QED BY <1>5, <1>6, <1>7, <1>8

LEMMA RanLedger ==
  ASSUME LInv, NEW r \in Runs, Ran(r)
  PROVE  LInv'
<1> USE DEF LInv, Shape
<1>1. unstored'[r] = toRun[r] /\ \A q \in Runs \ {r} : unstored'[q] = unstored[q]
  BY DEF Ran, Tables
<1>2. TypeOK'
  <2>1. \A q \in Runs : unstored'[q] \subseteq DOMAIN fresh[q]
    BY <1>1 DEF Ran, TypeOK
  <2>2. pc' \in [Runs -> {"idle", "load", "run", "store", "write", "done", "crashed"}]
    BY DEF Ran, TypeOK
  <2> QED BY <2>1, <2>2 DEF TypeOK, Ran, disks, plans, writes, IsCache
<1>3. Tables'
  BY DEF Ran, plans, writes, Tables
<1>4. Progress'
  BY DEF Ran, plans, writes, Progress, TypeOK
<1>5. ChangedAreRerun'
  BY DEF Ran, plans, writes, ChangedAreRerun
<1> QED BY <1>2, <1>3, <1>4, <1>5

\* A dictionary stays one when a check's diagnostics are added under its key.
LEMMA AddToCache ==
  ASSUME NEW d, IsCache(d), NEW c \in Checks, NEW l, NEW v
  PROVE  IsCache([x \in DOMAIN d \cup {Key(c, l)} |-> IF x = Key(c, l) THEN v ELSE d[x]])
<1> DEFINE k == Key(c, l)
<1>1. k.check \in Checks /\ DOMAIN k.inputs \subseteq Files
  BY KeyShape
<1>2. \A x \in DOMAIN d \cup {k} : x.check \in Checks /\ DOMAIN x.inputs \subseteq Files
  BY <1>1 DEF IsCache
<1> HIDE DEF k
<1>3. IsCache([x \in DOMAIN d \cup {k} |-> IF x = k THEN v ELSE d[x]])
  BY <1>2 DEF IsCache
<1> QED BY <1>3 DEF k

LEMMA TruncateLedger ==
  ASSUME LInv, NEW r \in Runs, NEW c \in Checks, Truncate(r, c)
  PROVE  LInv'
<1> USE DEF LInv, Shape
<1>1. /\ cache'[r] = [x \in DOMAIN cache[r] \cup {Key(c, hashed[r])} |->
                        IF x = Key(c, hashed[r]) THEN fresh[r][c] ELSE cache[r][x]]
      /\ \A q \in Runs \ {r} : cache'[q] = cache[q]
      /\ cache' = [q \in Runs |-> cache'[q]]
  BY DEF Truncate, Tables
<1>2. unstored'[r] = unstored[r] \ {c} /\ \A q \in Runs \ {r} : unstored'[q] = unstored[q]
  BY DEF Truncate, Tables
<1>3. TypeOK'
  <2>1. ASSUME NEW q \in Runs
        PROVE  IsCache(cache'[q])
    <3>1. CASE q = r
      <4>1. IsCache(cache[r])
        BY DEF TypeOK
      <4>2. IsCache([x \in DOMAIN cache[r] \cup {Key(c, hashed[r])} |->
                        IF x = Key(c, hashed[r]) THEN fresh[r][c] ELSE cache[r][x]])
        <5> DEFINE d == cache[r]
                   l == hashed[r]
                   v == fresh[r][c]
        <5> HIDE DEF d, l, v
        <5>1. IsCache([x \in DOMAIN d \cup {Key(c, l)} |-> IF x = Key(c, l) THEN v ELSE d[x]])
          BY <4>1, AddToCache DEF d
        <5> QED BY <5>1 DEF d, l, v
      <4> QED BY <1>1, <3>1, <4>2
    <3>2. CASE q # r
      BY <1>1, <3>2 DEF TypeOK
    <3> QED BY <3>1, <3>2
  <2>2. \A q \in Runs : unstored'[q] \subseteq DOMAIN fresh[q]
    BY <1>2 DEF TypeOK
  <2>3. pc' \in [Runs -> {"idle", "load", "run", "store", "write", "done", "crashed"}]
    BY DEF Truncate, TypeOK
  <2>4. overlap' \in [Runs -> BOOLEAN] /\ contended' \in [Runs -> BOOLEAN]
    BY DEF Truncate, TypeOK
  <2>5. file' = Torn
    BY DEF Truncate
  <2> QED BY <2>1, <2>2, <2>3, <2>4, <2>5 DEF TypeOK, Truncate
<1>4. Tables'
  <2>1. unstored' = [q \in Runs |-> unstored'[q]]
    BY DEF Truncate, Tables
  <2>2. UNCHANGED <<reused, fresh, toRun>>
    BY DEF Truncate
  <2> QED BY <1>1, <2>1, <2>2 DEF Tables
<1>5. Progress'
  BY DEF Truncate, Progress, TypeOK
<1>6. ChangedAreRerun'
  BY DEF Truncate, ChangedAreRerun
<1> QED BY <1>3, <1>4, <1>5, <1>6

LEMMA FlushLedger ==
  ASSUME LInv, NEW r \in Runs, Flush(r)
  PROVE  LInv'
<1> USE DEF LInv, Shape
<1>1. TypeOK'
  <2>1. IsCache(cache[r])
    BY DEF TypeOK
  <2>2. file' = Torn \/ IsCache(file')
    BY <2>1 DEF Flush
  <2>3. pc' \in [Runs -> {"idle", "load", "run", "store", "write", "done", "crashed"}]
    BY DEF Flush, TypeOK
  <2>4. UNCHANGED <<disk, edits, plans, fresh, writes>>
    BY DEF Flush
  <2> QED BY <2>2, <2>3, <2>4 DEF TypeOK, plans, writes, IsCache
<1>2. Tables'
  BY DEF Flush, plans, writes, Tables
<1>3. Progress'
  BY DEF Flush, plans, writes, Progress, TypeOK
<1>4. ChangedAreRerun'
  BY DEF Flush, plans, writes, ChangedAreRerun
<1> QED BY <1>1, <1>2, <1>3, <1>4

LEMMA CrashLedger ==
  ASSUME LInv, NEW r \in Runs, Crash(r)
  PROVE  LInv'
<1> USE DEF LInv, Shape
<1>1. DOMAIN Empty = {} /\ IsCache(Empty)
  BY DEF Empty, IsCache
<1>2. /\ cache'[r] = Empty /\ reused'[r] = Empty /\ fresh'[r] = Empty
      /\ toRun'[r] = {} /\ unstored'[r] = {} /\ reading'[r] = {} /\ pc'[r] = "crashed"
  BY DEF Crash, Tables, TypeOK
<1>3. ASSUME NEW q \in Runs \ {r}
      PROVE  /\ cache'[q] = cache[q] /\ reused'[q] = reused[q] /\ fresh'[q] = fresh[q]
             /\ toRun'[q] = toRun[q] /\ unstored'[q] = unstored[q] /\ pc'[q] = pc[q]
             /\ changedPaths'[q] = changedPaths[q] /\ toLoad'[q] = toLoad[q]
             /\ reading'[q] = reading[q]
  BY DEF Crash, Tables, TypeOK
<1>4. TypeOK'
  <2>1. ASSUME NEW q \in Runs
        PROVE  /\ IsCache(cache'[q])
               /\ toRun'[q] \subseteq Checks
               /\ DOMAIN reused'[q] \subseteq Checks \ toRun'[q]
               /\ DOMAIN fresh'[q] \subseteq toRun'[q]
               /\ unstored'[q] \subseteq DOMAIN fresh'[q]
    <3>1. CASE q = r
      BY <1>1, <1>2, <3>1
    <3>2. CASE q # r
      BY <1>3, <3>2 DEF TypeOK
    <3> QED BY <3>1, <3>2
  <2>2. file' = Torn \/ IsCache(file')
    BY DEF Crash, TypeOK
  <2>3. pc' \in [Runs -> {"idle", "load", "run", "store", "write", "done", "crashed"}]
    BY DEF Crash, TypeOK
  <2>4. /\ changedPaths' \in [Runs -> SUBSET Paths]
        /\ toLoad' \in [Runs -> SUBSET Artifacts]
        /\ reading' \in [Runs -> SUBSET Artifacts]
        /\ overlap' \in [Runs -> BOOLEAN]
        /\ contended' \in [Runs -> BOOLEAN]
    BY DEF Crash, TypeOK
  <2>5. disk' = disk /\ edits' = edits /\ loaded' = loaded /\ hashed' = hashed
    BY DEF Crash
  <2> QED BY <2>1, <2>2, <2>3, <2>4, <2>5 DEF TypeOK
<1>5. Tables'
  BY DEF Crash, Tables
<1>6. Progress'
  <2> SUFFICES ASSUME NEW q \in Runs
               PROVE  /\ pc'[q] \in {"idle", "load", "crashed"} => DOMAIN reused'[q] = {} /\ DOMAIN fresh'[q] = {}
                      /\ pc'[q] \in {"idle", "crashed"} => reading'[q] = {}
                      /\ pc'[q] \in {"run", "store", "write"} => toLoad'[q] = {} /\ reading'[q] = {}
                      /\ pc'[q] \in {"run", "store", "write", "done"} => toRun'[q] = Checks \ DOMAIN reused'[q]
                      /\ pc'[q] \in {"store", "write", "done"} => DOMAIN fresh'[q] = toRun'[q]
    BY DEF Progress
  <2>1. CASE q = r
    BY <1>1, <1>2, <2>1
  <2>2. CASE q # r
    BY <1>3, <2>2 DEF Progress
  <2> QED BY <2>1, <2>2
<1>7. ChangedAreRerun'
  <2> SUFFICES ASSUME NEW q \in Runs, NEW c \in DOMAIN reused'[q]
               PROVE  /\ changedPaths'[q] # {}
                      /\ Config \notin changedPaths'[q]
                      /\ \A a \in Declared(c) : a \notin Remote
                      /\ \A a \in Declared(c) \cap changedPaths'[q] : loaded[q][a] = Missing
    BY DEF ChangedAreRerun, Crash
  <2>1. q # r
    BY <1>1, <1>2
  <2> QED BY <1>3, <2>1 DEF ChangedAreRerun
<1> QED BY <1>4, <1>5, <1>6, <1>7

LEMMA LedgerStep == LInv /\ [Next]_vars => LInv'
<1> SUFFICES ASSUME LInv, [Next]_vars PROVE LInv'
  OBVIOUS
<1>1. CASE \E f \in Files : Edit(f)
  BY <1>1, EditLedger
<1>2. CASE \E r \in Runs : Start(r) \/ Crash(r)
  BY <1>2, StartLedger, CrashLedger
<1>3. CASE \E r \in Runs : Step(r)
  BY <1>3, OpenLedger, RanLedger, FlushLedger, LoadLedger, HashLedger, RunLedger, TruncateLedger DEF Step
<1>4. CASE Ended \/ UNCHANGED vars
  <2> USE <1>4 DEF Ended, vars, disks, plans, writes
  <2>1. TypeOK'
    BY DEF LInv, Shape, TypeOK, IsCache
  <2>2. Tables' /\ Progress' /\ ChangedAreRerun'
    BY DEF LInv, Shape, Tables, Progress, ChangedAreRerun
  <2> QED BY <2>1, <2>2 DEF LInv, Shape
<1> QED BY <1>1, <1>2, <1>3, <1>4 DEF Next

\* The ledger of every run stays in order.
THEOREM LedgerKept == Spec => []LInv
  BY InitLedger, LedgerStep, PTL DEF Spec

\* The variables of incremental.py keep their types, through crashes too.
THEOREM TypeCorrect == Spec => []TypeOK
<1>1. LInv => TypeOK
  BY DEF LInv, Shape
<1> QED BY <1>1, LedgerKept, PTL

\* No check whose declared inputs changed, or are remote, is answered from the
\* cache by run_incremental_verification.
THEOREM ChangedRerun == Spec => []ChangedAreRerun
<1>1. LInv => ChangedAreRerun
  BY DEF LInv
<1> QED BY <1>1, LedgerKept, PTL

\* A run of run_incremental_verification that ends has an answer for every
\* requested check.
THEOREM AllAnswered == Spec => []EveryCheckAnswered
<1>1. LInv => EveryCheckAnswered
  <2> SUFFICES ASSUME LInv, NEW r \in Runs, pc[r] = "done"
               PROVE  DOMAIN Report(r) = Checks
    BY DEF EveryCheckAnswered
  <2>1. DOMAIN fresh[r] = Checks \ DOMAIN reused[r]
    BY DEF LInv, Progress
  <2>2. DOMAIN reused[r] \subseteq Checks
    BY DEF LInv, Shape, TypeOK
  <2> QED BY <2>1, <2>2 DEF Report
<1> QED BY <1>1, LedgerKept, PTL

-----------------------------------------------------------------------------
(***************************************************************************)
(* Reused diagnostics are fresh, for any number of runs, checks, artifacts *)
(* and edits, under the two conditions the code relies on: a check looks   *)
(* at nothing but artifacts of the kinds it declares, and no file changes  *)
(* between two reads of one run.                                           *)
(***************************************************************************)

\* Checks whose cached diagnostics the certificate may accept.
Judgeable(c) ==
    /\ c \in Checks
    /\ Table.kinds[c] # {}
    /\ Table.kinds[c] \cap RemoteKinds = {}

\* "check dependency metadata is complete", and a check is a function of what it
\* looks at (the assumption of the incremental-cache-soundness sketch).
MetadataComplete ==
    \A c \in Checks : Judgeable(c) => Reads[c] \subseteq Declared(c) /\ c \notin Flaky

\* A file a run looks at twice, to parse and to hash it or because a check opens
\* it again, is the same both times.
InputsSteady == ~EditsBetweenReads

\* Then a run hashed what it parsed, and finds again what it looked at.
Mirror ==
    /\ hashed = loaded
    /\ \A r \in Runs : \A a \in Between(r) : loaded[r][a] = disk[a]

\* The diagnostics that belong under a key.
Recorded(k) == [f \in (Reads[k.check] \cap DOMAIN k.inputs) \cup {Config} |-> k.inputs[f]]

\* A dictionary holds, under the key of a judgeable check, what the key says.
Sound(d) == \A k \in DOMAIN d : Judgeable(k.check) => d[k] = Recorded(k)

CachesSound ==
    /\ file # Torn => Sound(file)
    /\ \A r \in Runs : Sound(cache[r])

\* A judgeable check that ran saw what was loaded.
FreshSound ==
    \A r \in Runs : \A c \in DOMAIN fresh[r] :
        Judgeable(c) => fresh[r][c] = Answer(c, loaded[r])

FInv == Mirror /\ CachesSound /\ FreshSound /\ ReuseIsFresh

-----------------------------------------------------------------------------
(* Keys. *)

\* The declared artifacts of a judgeable check are local.
LEMMA JudgeableLocal ==
  ASSUME NEW c, Judgeable(c)
  PROVE  Declared(c) \cap Remote = {}
<1>1. \A a \in Declared(c) : KindOf[a] \in Table.kinds[c]
  BY DEF Judgeable, Declared
<1>2. \A a \in Remote : KindOf[a] \in RemoteKinds
  BY DEF RemoteKinds
<1> QED BY <1>1, <1>2 DEF Judgeable

\* Under the key of some loaded contents belongs the answer on these contents.
LEMMA KeyHoldsAnswer ==
  ASSUME MetadataComplete, NEW c, Judgeable(c), NEW l
  PROVE  Recorded(Key(c, l)) = Answer(c, l)
<1> DEFINE k == Key(c, l)
           D == (Declared(c) \cap Present(l)) \cup {Config}
           R == (Reads[c] \cap Present(l)) \cup {Config}
<1>1. k.check = c /\ k.inputs = [f \in D |-> IF f \in Remote THEN Unhashed ELSE l[f]]
  BY DEF Key
<1>2. DOMAIN k.inputs = D
  BY <1>1
<1>3. Reads[c] \subseteq Declared(c) /\ Config \notin Reads[c] /\ Config \notin Remote
  BY IncrementalAssumption DEF MetadataComplete, Judgeable, Files
<1>4. (Reads[c] \cap D) \cup {Config} = R
  BY <1>3
<1>5. \A f \in R : f \in D /\ f \notin Remote
  BY <1>3, JudgeableLocal
<1>6. \A f \in R : k.inputs[f] = l[f]
  BY <1>1, <1>5
<1>7. Recorded(k) = [f \in R |-> k.inputs[f]]
  BY <1>1, <1>2, <1>4 DEF Recorded
<1>8. Answer(c, l) = [f \in R |-> l[f]]
  BY DEF Answer
<1> QED BY <1>6, <1>7, <1>8

\* Adding to a sound dictionary an answer under its key leaves it sound.
LEMMA SoundAdd ==
  ASSUME NEW d, Sound(d), NEW k, NEW v, Judgeable(k.check) => v = Recorded(k)
  PROVE  Sound([x \in DOMAIN d \cup {k} |-> IF x = k THEN v ELSE d[x]])
  BY DEF Sound

\* A check the certificate accepts is judgeable.
LEMMA ReusableJudgeable ==
  ASSUME NEW r \in Runs, NEW paths, NEW c, Reusable(r, paths, c)
  PROVE  Judgeable(c)
  BY DEF Reusable, CutProved, Judgeable

LEMMA EmptySound == Sound(Empty)
  BY DEF Sound, Empty

-----------------------------------------------------------------------------
(* The invariant. *)

LEMMA InitFresh == Init => FInv
<1> SUFFICES ASSUME Init PROVE FInv
  OBVIOUS
<1>1. DOMAIN Empty = {}
  BY DEF Empty
<1>2. FreshSound /\ ReuseIsFresh
  BY <1>1 DEF Init, Progress, FreshSound, ReuseIsFresh
<1>3. Mirror
  BY DEF Init, Mirror, Between, Active
<1>4. CachesSound
  BY EmptySound DEF Init, CachesSound
<1> QED BY <1>2, <1>3, <1>4 DEF FInv

\* A run has less left to look at again when it answers checks or ends.
LEMMA BetweenShrinks ==
  ASSUME NEW r \in Runs, Active(r)' => Active(r),
         reading'[r] = reading[r], toLoad'[r] = toLoad[r],
         DOMAIN reused[r] \cup DOMAIN fresh[r] \subseteq DOMAIN reused'[r] \cup DOMAIN fresh'[r]
  PROVE  Between(r)' \subseteq Between(r)
<1>1. Checks \ (DOMAIN reused'[r] \cup DOMAIN fresh'[r])
        \subseteq Checks \ (DOMAIN reused[r] \cup DOMAIN fresh[r])
  OBVIOUS
<1> QED BY <1>1 DEF Between

LEMMA MirrorKept ==
  ASSUME Mirror, UNCHANGED <<disk, loaded, hashed>>,
         \A r \in Runs : Between(r)' \subseteq Between(r)
  PROVE  Mirror'
  BY DEF Mirror

\* An edit is of a file that no run looks at again.
LEMMA EditStep ==
  ASSUME InputsSteady, LInv, FInv, NEW f \in Files, Edit(f)
  PROVE  FInv'
<1> USE DEF LInv, Shape, FInv
<1>1. Mirror'
  <2>1. \A r \in Runs : Between(r)' = Between(r)
    BY DEF Edit, plans, Between, Active
  <2>2. UNCHANGED <<loaded, hashed>> /\ \A g \in Files \ {f} : disk'[g] = disk[g]
    BY DEF Edit, plans, TypeOK, Inputs
  <2>3. ASSUME NEW r \in Runs, NEW a \in Between(r)
        PROVE  loaded[r][a] = disk'[a]
    <3>1. a \in Artifacts /\ a # f
      BY <2>3 DEF Between, Edit, InputsSteady, TypeOK
    <3>2. disk'[a] = disk[a]
      BY <2>2, <3>1 DEF Files
    <3> QED BY <2>3, <3>2 DEF Mirror
  <2> QED BY <2>1, <2>2, <2>3 DEF Mirror
<1>2. CachesSound' /\ FreshSound' /\ ReuseIsFresh'
  BY DEF Edit, plans, writes, CachesSound, FreshSound, ReuseIsFresh, Sound
<1> QED BY <1>1, <1>2

\* Before the cache is opened, a step of a run only concerns what it looks at.
LEMMA BeforeOpening ==
  ASSUME CachesSound, FreshSound, ReuseIsFresh, NEW r \in Runs,
         DOMAIN reused[r] = {}, DOMAIN fresh[r] = {},
         UNCHANGED <<file, cache, reused, fresh>>,
         \A q \in Runs \ {r} : loaded'[q] = loaded[q]
  PROVE  CachesSound' /\ FreshSound' /\ ReuseIsFresh'
<1>1. CachesSound'
  BY DEF CachesSound, Sound
<1>2. FreshSound' /\ ReuseIsFresh'
  BY DEF FreshSound, ReuseIsFresh
<1> QED BY <1>1, <1>2

LEMMA StartStep ==
  ASSUME LInv, FInv, NEW r \in Runs, Start(r)
  PROVE  FInv'
<1> USE DEF LInv, Shape, FInv
<1>1. Mirror'
  <2>1. hashed' = loaded' /\ disk' = disk
    BY DEF Start, Mirror, disks
  <2>2. Between(r)' = {}
    <3>1. toLoad'[r] = Artifacts /\ reading'[r] = {}
      BY DEF Start, Progress, TypeOK
    <3> QED BY <3>1 DEF Between
  <2>3. ASSUME NEW q \in Runs \ {r}
        PROVE  Between(q)' = Between(q) /\ loaded'[q] = loaded[q]
    <3>1. /\ loaded'[q] = loaded[q] /\ toLoad'[q] = toLoad[q] /\ pc'[q] = pc[q]
          /\ UNCHANGED <<reading, reused, fresh>>
      BY DEF Start, TypeOK
    <3> QED BY <3>1 DEF Between, Active
  <2> QED BY <2>1, <2>2, <2>3 DEF Mirror
<1>2. DOMAIN reused[r] = {} /\ DOMAIN fresh[r] = {}
  BY DEF Progress, Start
<1>3. UNCHANGED <<file, cache, reused, fresh>> /\ \A q \in Runs \ {r} : loaded'[q] = loaded[q]
  BY DEF Start, disks, TypeOK
<1> QED BY <1>1, <1>2, <1>3, BeforeOpening

LEMMA LoadStep ==
  ASSUME LInv, FInv, NEW r \in Runs, NEW a \in Artifacts, Load(r, a)
  PROVE  FInv'
<1> USE DEF LInv, Shape, FInv
<1>1. Mirror'
  <2>1. hashed' = loaded' /\ disk' = disk
    BY DEF Load, Mirror, disks
  <2>2. ASSUME NEW b \in Between(r)'
        PROVE  loaded'[r][b] = disk[b]
    <3>1. loaded'[r][a] = disk[a] /\ \A g \in Files \ {a} : loaded'[r][g] = loaded[r][g]
      BY DEF Load, TypeOK, Inputs, Files
    <3>2. /\ toLoad'[r] = toLoad[r] \ {a} /\ reading'[r] \subseteq {a}
          /\ UNCHANGED <<pc, reused, fresh>>
      BY DEF Load, TypeOK
    <3>3. b \in Artifacts /\ (b # a => b \in Between(r))
      BY <2>2, <3>2 DEF Between, Active
    <3> QED BY <3>1, <3>3 DEF Mirror, Files
  <2>3. ASSUME NEW q \in Runs \ {r}
        PROVE  Between(q)' = Between(q) /\ loaded'[q] = loaded[q]
    <3>1. /\ loaded'[q] = loaded[q] /\ toLoad'[q] = toLoad[q] /\ reading'[q] = reading[q]
          /\ UNCHANGED <<pc, reused, fresh>>
      BY DEF Load, TypeOK
    <3> QED BY <3>1 DEF Between, Active
  <2> QED BY <2>1, <2>2, <2>3 DEF Mirror
<1>2. DOMAIN reused[r] = {} /\ DOMAIN fresh[r] = {}
  BY DEF Progress, Load
<1>3. UNCHANGED <<file, cache, reused, fresh>> /\ \A q \in Runs \ {r} : loaded'[q] = loaded[q]
  BY DEF Load, disks, TypeOK
<1> QED BY <1>1, <1>2, <1>3, BeforeOpening

\* What is hashed is what was parsed.
LEMMA HashedIsLoaded ==
  ASSUME LInv, FInv, NEW r \in Runs, NEW a \in Artifacts, Hash(r, a)
  PROVE  UNCHANGED <<loaded, hashed>>
<1> USE DEF LInv, Shape, FInv
<1>1. disk[a] = loaded[r][a] /\ hashed = loaded
  BY DEF Hash, Between, Mirror
<1>2. /\ loaded' = [loaded EXCEPT ![r][a] = IF disk[a] = Missing THEN Missing ELSE loaded[r][a]]
      /\ hashed' = [hashed EXCEPT ![r][a] = disk[a]]
  BY DEF Hash
<1>3. loaded \in [Runs -> Inputs]
  BY DEF TypeOK
<1>4. [loaded EXCEPT ![r][a] = loaded[r][a]] = loaded
  BY <1>3 DEF Inputs
<1> QED BY <1>1, <1>2, <1>4

LEMMA HashStep ==
  ASSUME LInv, FInv, NEW r \in Runs, NEW a \in Artifacts, Hash(r, a)
  PROVE  FInv'
<1> USE DEF LInv, Shape, FInv
<1>1. UNCHANGED <<loaded, hashed>>
  BY HashedIsLoaded
<1>2. Mirror'
  <2>1. \A q \in Runs : Between(q)' \subseteq Between(q)
    BY DEF Hash, Between, Active, TypeOK
  <2> QED BY <1>1, <2>1, MirrorKept DEF Hash, disks
<1>3. CachesSound' /\ FreshSound' /\ ReuseIsFresh'
  BY <1>1 DEF Hash, disks, CachesSound, Sound, FreshSound, ReuseIsFresh
<1> QED BY <1>2, <1>3

LEMMA OpenStep ==
  ASSUME MetadataComplete, LInv, FInv, NEW r \in Runs, Open(r)
  PROVE  FInv'
<1> USE DEF LInv, Shape, FInv
<1>1. PICK paths \in Changes :
        LET hits == {c \in Checks : Reusable(r, paths, c) /\ Key(c, hashed[r]) \in DOMAIN OnFile}
        IN  /\ changedPaths' = [changedPaths EXCEPT ![r] = paths]
            /\ reused' = [reused EXCEPT ![r] = [c \in hits |-> OnFile[Key(c, hashed[r])]]]
            /\ toRun' = [toRun EXCEPT ![r] = Checks \ hits]
  BY DEF Open, Recomputed
<1> DEFINE hits == {c \in Checks : Reusable(r, paths, c) /\ Key(c, hashed[r]) \in DOMAIN OnFile}
<1>2. Sound(OnFile)
  BY EmptySound DEF CachesSound, OnFile
<1>3. Mirror'
  <2>1. ASSUME NEW q \in Runs
        PROVE  Between(q)' \subseteq Between(q)
    <3>1. Active(q)' => Active(q)
      BY DEF Open, Active, TypeOK
    <3>2. DOMAIN reused[q] \subseteq DOMAIN reused'[q]
      BY <1>1 DEF Open, Progress, Tables
    <3> QED BY <3>1, <3>2, BetweenShrinks DEF Open
  <2> QED BY <2>1, MirrorKept DEF Open, disks
<1>4. CachesSound'
  <2>1. \A q \in Runs : Sound(cache'[q])
    BY <1>2 DEF Open, CachesSound, TypeOK, Tables
  <2>2. file' # Torn => Sound(file')
    BY DEF Open, disks, writes, CachesSound
  <2>3. \A d : Sound(d)' <=> Sound(d)
    BY DEF Sound
  <2> QED BY <2>1, <2>2 DEF CachesSound
<1>5. FreshSound'
  BY DEF Open, FreshSound
<1>6. ReuseIsFresh'
  <2> SUFFICES ASSUME NEW q \in Runs, NEW c \in DOMAIN reused'[q]
               PROVE  reused'[q][c] = Answer(c, loaded[q])
    BY DEF ReuseIsFresh, Open
  <2>1. CASE q # r
    <3>1. reused'[q] = reused[q]
      BY <1>1, <2>1 DEF TypeOK, Tables
    <3> QED BY <3>1 DEF ReuseIsFresh
  <2>2. CASE q = r
    <3>1. reused'[r] = [x \in hits |-> OnFile[Key(x, loaded[r])]] /\ hashed = loaded
      BY <1>1 DEF Tables, Mirror
    <3>2. c \in hits /\ reused'[r][c] = OnFile[Key(c, loaded[r])]
      BY <2>2, <3>1
    <3>3. Judgeable(c)
      BY <3>2, ReusableJudgeable
    <3>4. Key(c, loaded[r]).check = c
      BY DEF Key
    <3>5. OnFile[Key(c, loaded[r])] = Recorded(Key(c, loaded[r]))
      BY <1>2, <3>1, <3>2, <3>3, <3>4 DEF Sound
    <3> QED BY <2>2, <3>2, <3>3, <3>5, KeyHoldsAnswer
  <2> QED BY <2>1, <2>2
<1> QED BY <1>3, <1>4, <1>5, <1>6

\* A check that runs sees what was loaded.
LEMMA SeenIsLoaded ==
  ASSUME LInv, FInv, NEW r \in Runs, NEW c \in Checks, Run(r, c)
  PROVE  Answer(c, Seen(r, c)) = Answer(c, loaded[r])
<1> DEFINE l == loaded[r]
           s == Seen(r, c)
<1>1. Rereads[c] \subseteq Artifacts
  BY IncrementalAssumption
<1>2. ASSUME NEW f \in Rereads[c]
      PROVE  disk[f] = l[f]
  <2>1. Active(r) /\ toLoad[r] = {} /\ c \notin DOMAIN reused[r] \cup DOMAIN fresh[r]
    BY DEF Run, Active, LInv, Progress
  <2>2. f \in Between(r)
    BY <1>1, <2>1 DEF Between
  <2> QED BY <2>2 DEF FInv, Mirror
<1>3. \A f \in Files : s[f] = l[f]
  BY <1>2 DEF Seen
<1>4. Present(s) = Present(l)
  BY <1>3 DEF Present
<1>5. (Reads[c] \cap Present(l)) \cup {Config} \subseteq Files
  BY DEF Present, Files
<1> QED BY <1>3, <1>4, <1>5 DEF Answer

LEMMA RunStep ==
  ASSUME MetadataComplete, LInv, FInv, NEW r \in Runs, NEW c \in Checks, Run(r, c)
  PROVE  FInv'
<1> USE DEF LInv, Shape, FInv
<1>1. PICK answer \in {Answer(c, Seen(r, c))} \cup (IF c \in Flaky THEN {Failed} ELSE {}) :
        fresh' = [fresh EXCEPT ![r] = [d \in DOMAIN fresh[r] \cup {c} |->
                     IF d = c THEN answer ELSE fresh[r][d]]]
  BY DEF Run
<1>2. /\ fresh'[r] = [d \in DOMAIN fresh[r] \cup {c} |-> IF d = c THEN answer ELSE fresh[r][d]]
      /\ \A q \in Runs \ {r} : fresh'[q] = fresh[q]
  BY <1>1 DEF TypeOK, Tables
<1>3. CachesSound' /\ ReuseIsFresh'
  BY DEF Run, plans, writes, disks, CachesSound, Sound, ReuseIsFresh
<1>5. Mirror'
  <2>1. ASSUME NEW q \in Runs
        PROVE  Between(q)' \subseteq Between(q)
    <3>1. DOMAIN fresh[q] \subseteq DOMAIN fresh'[q]
      BY <1>2
    <3> QED BY <3>1, BetweenShrinks DEF Run, plans, Active
  <2> QED BY <2>1, MirrorKept DEF Run, disks, plans
<1>4. FreshSound'
  <2> SUFFICES ASSUME NEW q \in Runs, NEW d \in DOMAIN fresh'[q], Judgeable(d)
               PROVE  fresh'[q][d] = Answer(d, loaded[q])
    BY DEF FreshSound, Run, plans, writes
  <2>1. CASE q = r /\ d = c
    <3>1. answer = Answer(c, Seen(r, c))
      BY <1>1, <2>1 DEF MetadataComplete
    <3> QED BY <1>2, <2>1, <3>1, SeenIsLoaded
  <2>2. CASE q = r /\ d # c
    BY <1>2, <2>2 DEF FreshSound
  <2>3. CASE q # r
    BY <1>2, <2>3 DEF FreshSound
  <2> QED BY <2>1, <2>2, <2>3
<1> QED BY <1>3, <1>4, <1>5

LEMMA RanStep ==
  ASSUME LInv, FInv, NEW r \in Runs, Ran(r)
  PROVE  FInv'
<1> USE DEF LInv, Shape, FInv
<1>1. Mirror'
  <2>1. \A q \in Runs : Active(q)' => Active(q)
    BY DEF Ran, TypeOK, Active
  <2> QED BY <2>1, BetweenShrinks, MirrorKept DEF Ran, disks, plans
<1>2. CachesSound' /\ FreshSound' /\ ReuseIsFresh'
  BY DEF Ran, plans, writes, disks, CachesSound, Sound, FreshSound, ReuseIsFresh
<1> QED BY <1>1, <1>2

LEMMA TruncateStep ==
  ASSUME MetadataComplete, LInv, FInv, NEW r \in Runs, NEW c \in Checks, Truncate(r, c)
  PROVE  FInv'
<1> USE DEF LInv, Shape, FInv
<1> DEFINE k == Key(c, loaded[r])
<1>1. /\ cache'[r] = [x \in DOMAIN cache[r] \cup {k} |-> IF x = k THEN fresh[r][c] ELSE cache[r][x]]
      /\ \A q \in Runs \ {r} : cache'[q] = cache[q]
      /\ cache' = [q \in Runs |-> cache'[q]]
  BY DEF Truncate, Mirror, Tables
<1>2. Mirror'
  <2>1. \A q \in Runs : Active(q)' => Active(q)
    BY DEF Truncate, TypeOK, Active
  <2> QED BY <2>1, BetweenShrinks, MirrorKept DEF Truncate
<1>3. CachesSound'
  <2>1. Judgeable(k.check) => fresh[r][c] = Recorded(k)
    <3>1. k.check = c
      BY DEF Key
    <3>2. c \in DOMAIN fresh[r]
      BY DEF Truncate, TypeOK, Tables
    <3>3. Judgeable(c) => fresh[r][c] = Answer(c, loaded[r])
      BY <3>2 DEF FreshSound
    <3> QED BY <3>1, <3>3, KeyHoldsAnswer
  <2>2. Sound(cache'[r])
    <3>1. Sound(cache[r])
      BY DEF CachesSound
    <3> HIDE DEF k
    <3>2. Sound([x \in DOMAIN cache[r] \cup {k} |-> IF x = k THEN fresh[r][c] ELSE cache[r][x]])
      BY <2>1, <3>1, SoundAdd
    <3> QED BY <1>1, <3>2
  <2>3. \A q \in Runs : Sound(cache'[q])
    BY <1>1, <2>2 DEF CachesSound
  <2>4. file' = Torn
    BY DEF Truncate
  <2> QED BY <2>3, <2>4 DEF CachesSound
<1>4. FreshSound' /\ ReuseIsFresh'
  BY DEF Truncate, FreshSound, ReuseIsFresh
<1> QED BY <1>2, <1>3, <1>4

LEMMA FlushStep ==
  ASSUME LInv, FInv, NEW r \in Runs, Flush(r)
  PROVE  FInv'
<1> USE DEF LInv, Shape, FInv
<1>1. Mirror'
  <2>1. \A q \in Runs : Active(q)' => Active(q)
    BY DEF Flush, TypeOK, Active
  <2> QED BY <2>1, BetweenShrinks, MirrorKept DEF Flush, plans
<1>2. CachesSound'
  BY DEF Flush, plans, writes, CachesSound, Sound
<1>3. FreshSound' /\ ReuseIsFresh'
  BY DEF Flush, plans, writes, FreshSound, ReuseIsFresh
<1> QED BY <1>1, <1>2, <1>3

LEMMA CrashStep ==
  ASSUME LInv, FInv, NEW r \in Runs, Crash(r)
  PROVE  FInv'
<1> USE DEF LInv, Shape, FInv
<1>1. DOMAIN Empty = {}
  BY DEF Empty
<1>2. /\ DOMAIN reused'[r] = {} /\ DOMAIN fresh'[r] = {} /\ cache'[r] = Empty
      /\ \A q \in Runs \ {r} :
            reused'[q] = reused[q] /\ fresh'[q] = fresh[q] /\ cache'[q] = cache[q] /\ pc'[q] = pc[q]
  BY <1>1 DEF Crash, TypeOK, Tables
<1>3. Mirror'
  <2>1. Between(r)' = {}
    BY DEF Crash, TypeOK, Between, Active
  <2>2. ASSUME NEW q \in Runs \ {r}
        PROVE  Between(q)' \subseteq Between(q)
    <3>1. reading'[q] = reading[q] /\ toLoad'[q] = toLoad[q]
      BY DEF Crash, TypeOK
    <3> QED BY <1>2, <3>1, BetweenShrinks DEF Active
  <2> QED BY <2>1, <2>2, MirrorKept DEF Crash
<1>4. CachesSound'
  <2>1. \A q \in Runs : Sound(cache'[q])
    BY <1>2, EmptySound DEF CachesSound
  <2>2. file' # Torn => Sound(file')
    BY DEF Crash, CachesSound
  <2> QED BY <2>1, <2>2 DEF CachesSound, Sound
<1>5. FreshSound' /\ ReuseIsFresh'
  BY <1>2 DEF Crash, FreshSound, ReuseIsFresh
<1> QED BY <1>3, <1>4, <1>5

LEMMA InductiveStep ==
  ASSUME MetadataComplete, InputsSteady, LInv, FInv, [Next]_vars
  PROVE  FInv'
<1>1. ASSUME NEW f \in Files, Edit(f) PROVE FInv'
  BY <1>1, EditStep
<1>2. ASSUME NEW r \in Runs, Start(r) PROVE FInv'
  BY <1>2, StartStep
<1>3. ASSUME NEW r \in Runs, NEW a \in Artifacts, Load(r, a) PROVE FInv'
  BY <1>3, LoadStep
<1>4. ASSUME NEW r \in Runs, Open(r) PROVE FInv'
  BY <1>4, OpenStep
<1>5. ASSUME NEW r \in Runs, NEW c \in Checks, Run(r, c) PROVE FInv'
  BY <1>5, RunStep
<1>6. ASSUME NEW r \in Runs, Ran(r) PROVE FInv'
  BY <1>6, RanStep
<1>7. ASSUME NEW r \in Runs, NEW c \in Checks, Truncate(r, c) PROVE FInv'
  BY <1>7, TruncateStep
<1>8. ASSUME NEW r \in Runs, Flush(r) PROVE FInv'
  BY <1>8, FlushStep
<1>9. ASSUME NEW r \in Runs, Crash(r) PROVE FInv'
  BY <1>9, CrashStep
<1>10. ASSUME UNCHANGED vars PROVE FInv'
  <2>1. Mirror'
    BY <1>10, MirrorKept DEF FInv, vars, disks, plans, Between, Active
  <2>2. CachesSound' /\ FreshSound' /\ ReuseIsFresh'
    BY <1>10 DEF FInv, vars, disks, plans, writes, CachesSound, Sound, FreshSound, ReuseIsFresh
  <2> QED BY <2>1, <2>2 DEF FInv
<1>11. ASSUME NEW r \in Runs, NEW a \in Artifacts, Hash(r, a) PROVE FInv'
  BY <1>11, HashStep
<1> QED BY <1>1, <1>2, <1>3, <1>4, <1>5, <1>6, <1>7, <1>8, <1>9, <1>10, <1>11
        DEF Next, Step, Ended

\* Under complete metadata and steady inputs the invariant always holds.
THEOREM Invariance ==
  ASSUME MetadataComplete, InputsSteady
  PROVE  Spec => []FInv
<1>1. Init => FInv
  BY InitFresh
<1>2. LInv /\ FInv /\ [Next]_vars => FInv'
  BY InductiveStep
<1> QED BY <1>1, <1>2, LedgerKept, PTL DEF Spec

\* Reused diagnostics are those of a full run on the loaded files, across any
\* interleaving of runs, crashes, torn files and edits, provided that no file
\* changes between two reads of one run (ReuseIsFresh).
THEOREM ReusedAreFresh ==
  ASSUME MetadataComplete, InputsSteady
  PROVE  Spec => []ReuseIsFresh
<1>1. FInv => ReuseIsFresh
  BY DEF FInv
<1> QED BY <1>1, Invariance, PTL

-----------------------------------------------------------------------------
(***************************************************************************)
(* Incremental verification implements full verification: for any number   *)
(* of runs, checks, artifacts and edits, when the metadata are complete,   *)
(* no file changes between two reads of one run, and no check raises by    *)
(* itself.                                                                 *)
(***************************************************************************)

\* Whatever a run recomputed is the answer on what it loaded.
AllFresh ==
    \A r \in Runs : \A c \in DOMAIN fresh[r] : fresh[r][c] = Answer(c, loaded[r])

RInv == LInv /\ FInv /\ AllFresh

LEMMA AllFreshStep ==
  ASSUME Flaky = {}, RInv, [Next]_vars
  PROVE  AllFresh'
<1> USE DEF RInv
<1>1. CASE \E f \in Files : Edit(f)
  BY <1>1 DEF Edit, plans, writes, AllFresh
<1>2. ASSUME NEW r \in Runs, DOMAIN fresh[r] = {}, UNCHANGED fresh,
             \A q \in Runs \ {r} : loaded'[q] = loaded[q]
      PROVE  AllFresh'
  BY <1>2 DEF AllFresh
<1>3. ASSUME NEW r \in Runs, Start(r)
      PROVE  AllFresh'
  BY <1>2, <1>3 DEF Start, LInv, Shape, TypeOK, Progress
<1>4. ASSUME NEW r \in Runs, NEW a \in Artifacts, Load(r, a)
      PROVE  AllFresh'
  BY <1>2, <1>4 DEF Load, LInv, Shape, TypeOK, Progress
<1>5. ASSUME NEW r \in Runs, NEW c \in Checks, Run(r, c)
      PROVE  AllFresh'
  <2>1. /\ fresh'[r] = [d \in DOMAIN fresh[r] \cup {c} |->
                           IF d = c THEN Answer(c, Seen(r, c)) ELSE fresh[r][d]]
        /\ \A q \in Runs \ {r} : fresh'[q] = fresh[q]
        /\ loaded' = loaded
    BY <1>5 DEF Run, plans, LInv, Shape, Tables
  <2>2. Answer(c, Seen(r, c)) = Answer(c, loaded[r])
    BY <1>5, SeenIsLoaded
  <2> QED BY <2>1, <2>2 DEF AllFresh
<1>6. ASSUME NEW r \in Runs, Crash(r)
      PROVE  AllFresh'
  <2>1. DOMAIN fresh'[r] = {} /\ \A q \in Runs \ {r} : fresh'[q] = fresh[q]
    BY <1>6 DEF Crash, Empty, LInv, Shape, Tables
  <2> QED BY <1>6, <2>1 DEF Crash, AllFresh
<1>7. ASSUME NEW r \in Runs, NEW c \in Checks, Truncate(r, c)
      PROVE  AllFresh'
  BY <1>7 DEF Truncate, AllFresh
<1>8. ASSUME NEW r \in Runs, Open(r) \/ Ran(r) \/ Flush(r)
      PROVE  AllFresh'
  BY <1>8 DEF Open, Ran, Flush, plans, writes, AllFresh
<1>9. CASE UNCHANGED vars
  BY <1>9 DEF vars, plans, writes, AllFresh
<1>10. ASSUME NEW r \in Runs, NEW a \in Artifacts, Hash(r, a)
       PROVE  AllFresh'
  BY <1>2, <1>10 DEF Hash, LInv, Shape, TypeOK, Progress
<1> QED BY <1>1, <1>3, <1>4, <1>5, <1>6, <1>7, <1>8, <1>9, <1>10 DEF Next, Step, Ended

\* Under the stated conditions a run has only right answers.
THEOREM RightAnswers ==
  ASSUME MetadataComplete, InputsSteady, Flaky = {}
  PROVE  Spec => []RInv
<1>2. Init => AllFresh
  BY DEF Init, Empty, AllFresh
<1>3. LInv /\ FInv /\ AllFresh /\ [Next]_vars => AllFresh'
  BY AllFreshStep DEF RInv
<1>4. Spec => []FInv
  BY Invariance
<1>5. Spec => []AllFresh
  BY <1>2, <1>3, <1>4, LedgerKept, PTL DEF Spec
<1>6. LInv /\ FInv /\ AllFresh => RInv
  BY DEF RInv
<1> QED BY <1>4, <1>5, <1>6, LedgerKept, PTL

-----------------------------------------------------------------------------
(* The refinement. *)

\* What the other runs show of themselves.
Published(r) == IF pc[r] = "done" THEN Report(r) ELSE NoReport

\* Reports are complete and right when they are published.
Truthful ==
    \A r \in Runs : pc[r] = "done" => Published(r) = [c \in Checks |-> Answer(c, loaded[r])]

LEMMA PublishedAnswers == RInv => Truthful
<1> SUFFICES ASSUME RInv, NEW r \in Runs, pc[r] = "done"
             PROVE  Published(r) = [c \in Checks |-> Answer(c, loaded[r])]
  BY DEF Truthful
<1> USE DEF RInv
<1>1. DOMAIN fresh[r] = Checks \ DOMAIN reused[r] /\ DOMAIN reused[r] \subseteq Checks
  BY DEF LInv, Progress, Shape, TypeOK
<1>2. DOMAIN reused[r] \cup DOMAIN fresh[r] = Checks
  BY <1>1
<1>3. ASSUME NEW c \in Checks
      PROVE  (IF c \in DOMAIN reused[r] THEN reused[r][c] ELSE fresh[r][c]) = Answer(c, loaded[r])
  BY <1>1, <1>3 DEF FInv, ReuseIsFresh, AllFresh
<1> QED BY <1>2, <1>3 DEF Published, Report

LEMMA InitImplements == Init => Full!Init
<1> SUFFICES ASSUME Init PROVE Full!Init
  OBVIOUS
<1>1. disk \in [Files -> Contents \cup {Missing}]
  BY DEF Init
<1>2. loaded \in [Runs -> [Files -> Contents \cup {Missing}]]
  BY <1>1 DEF Init
<1>3. \A r \in Runs : pc[r] # "done"
  BY DEF Init
<1> QED BY <1>1, <1>2, <1>3 DEF Full!Init

\* A step that neither loads nor publishes is a stutter of full verification.
LEMMA Stutter ==
  ASSUME UNCHANGED <<disk, loaded>>,
         \A r \in Runs : Published(r)' = Published(r)
  PROVE  UNCHANGED Full!fvars
  BY DEF Full!fvars, Published

\* A step that publishes the answers of one run is its report.
LEMMA Publishes ==
  ASSUME Truthful', NEW r \in Runs, pc[r] # "done", pc'[r] = "done",
         UNCHANGED <<disk, loaded>>,
         \A q \in Runs \ {r} : Published(q)' = Published(q)
  PROVE  Full!Report(r)
<1>1. Published(r)' = [c \in Checks |-> Answer(c, loaded[r])]
  BY DEF Truthful
<1>2. Published(r) = NoReport
  BY DEF Published
<1>3. [q \in Runs |-> Published(q)'] =
        [[q \in Runs |-> Published(q)] EXCEPT ![r] = [c \in Checks |-> Answer(c, loaded[r])]]
  BY <1>1
<1> QED BY <1>2, <1>3 DEF Full!Report, Published

\* A step that loads one file of a run that has not published takes it.
LEMMA Takes ==
  ASSUME NEW r \in Runs, NEW f \in Files, pc[r] # "done",
         loaded' = [loaded EXCEPT ![r][f] = disk[f]], disk' = disk,
         \A q \in Runs : Published(q)' = Published(q)
  PROVE  Full!Take(r, f)
  BY DEF Full!Take, Published

\* What a run publishes depends on its own variables.
LEMMA SamePublished ==
  ASSUME NEW q \in Runs, pc'[q] = pc[q], reused'[q] = reused[q], fresh'[q] = fresh[q]
  PROVE  Published(q)' = Published(q)
  BY DEF Published, Report, NoReport

LEMMA Unpublished ==
  ASSUME NEW q \in Runs, pc[q] # "done", pc'[q] # "done"
  PROVE  Published(q)' = Published(q)
  BY DEF Published, NoReport

LEMMA StepImplements ==
  ASSUME RInv, Truthful', [Next]_vars
  PROVE  [Full!Next]_(Full!fvars)
<1> USE DEF RInv, LInv, Shape
<1>1. ASSUME NEW f \in Files, Edit(f)
      PROVE  Full!Edit(f)
  <2>1. \A q \in Runs : Published(q)' = Published(q)
    BY <1>1, SamePublished DEF Edit, plans, writes
  <2> QED BY <1>1, <2>1 DEF Edit, plans, writes, Full!Edit, Published
<1>2. ASSUME NEW r \in Runs, Start(r)
      PROVE  Full!Take(r, Config)
  <2>1. \A q \in Runs \ {r} : Published(q)' = Published(q)
    BY <1>2, SamePublished DEF Start, TypeOK
  <2>2. pc[r] # "done" /\ pc'[r] # "done"
    BY <1>2 DEF Start, TypeOK
  <2> QED BY <1>2, <2>1, <2>2, Unpublished, Takes DEF Start, disks, writes, Files
<1>3. ASSUME NEW r \in Runs, NEW a \in Artifacts, Load(r, a)
      PROVE  Full!Take(r, a)
  <2>1. \A q \in Runs : Published(q)' = Published(q)
    BY <1>3, SamePublished DEF Load
  <2> QED BY <1>3, <2>1, Takes DEF Load, disks, writes, Files
<1>4. ASSUME NEW r \in Runs, Open(r)
      PROVE  Full!Report(r) \/ UNCHANGED Full!fvars
  <2>1. /\ \A q \in Runs \ {r} : pc'[q] = pc[q] /\ reused'[q] = reused[q] /\ fresh'[q] = fresh[q]
        /\ pc[r] # "done"
        /\ UNCHANGED <<disk, loaded>>
    BY <1>4 DEF Open, disks, writes, TypeOK, Tables
  <2>2. \A q \in Runs \ {r} : Published(q)' = Published(q)
    BY <2>1, SamePublished
  <2>3. CASE pc'[r] = "done"
    BY <2>1, <2>2, <2>3, Publishes
  <2>4. CASE pc'[r] # "done"
    BY <2>1, <2>2, <2>4, Unpublished, Stutter
  <2> QED BY <2>3, <2>4
<1>5. ASSUME NEW r \in Runs, NEW c \in Checks, Run(r, c)
      PROVE  UNCHANGED Full!fvars
  <2>1. /\ \A q \in Runs \ {r} : pc'[q] = pc[q] /\ reused'[q] = reused[q] /\ fresh'[q] = fresh[q]
        /\ pc[r] # "done" /\ pc'[r] # "done"
        /\ UNCHANGED <<disk, loaded>>
    BY <1>5 DEF Run, disks, plans, writes, Tables
  <2>2. \A q \in Runs \ {r} : Published(q)' = Published(q)
    BY <2>1, SamePublished
  <2> QED BY <2>1, <2>2, Unpublished, Stutter
<1>6. ASSUME NEW r \in Runs, NEW c \in Checks, Truncate(r, c)
      PROVE  UNCHANGED Full!fvars
  <2>1. /\ \A q \in Runs \ {r} : pc'[q] = pc[q] /\ reused'[q] = reused[q] /\ fresh'[q] = fresh[q]
        /\ pc[r] # "done" /\ pc'[r] # "done"
        /\ UNCHANGED <<disk, loaded>>
    BY <1>6 DEF Truncate, TypeOK
  <2>2. \A q \in Runs \ {r} : Published(q)' = Published(q)
    BY <2>1, SamePublished
  <2> QED BY <2>1, <2>2, Unpublished, Stutter
<1>7. ASSUME NEW r \in Runs, Ran(r)
      PROVE  UNCHANGED Full!fvars
  <2>1. /\ \A q \in Runs \ {r} : pc'[q] = pc[q] /\ reused'[q] = reused[q] /\ fresh'[q] = fresh[q]
        /\ pc[r] # "done" /\ pc'[r] # "done"
        /\ UNCHANGED <<disk, loaded>>
    BY <1>7 DEF Ran, disks, plans, writes, TypeOK
  <2>2. \A q \in Runs \ {r} : Published(q)' = Published(q)
    BY <2>1, SamePublished
  <2> QED BY <2>1, <2>2, Unpublished, Stutter
<1>8. ASSUME NEW r \in Runs, Flush(r)
      PROVE  Full!Report(r) \/ UNCHANGED Full!fvars
  <2>1. /\ \A q \in Runs \ {r} : pc'[q] = pc[q] /\ reused'[q] = reused[q] /\ fresh'[q] = fresh[q]
        /\ pc[r] # "done"
        /\ UNCHANGED <<disk, loaded>>
    BY <1>8 DEF Flush, plans, writes, TypeOK
  <2>2. \A q \in Runs \ {r} : Published(q)' = Published(q)
    BY <2>1, SamePublished
  <2>3. CASE pc'[r] = "done"
    BY <2>1, <2>2, <2>3, Publishes
  <2>4. CASE pc'[r] # "done"
    BY <2>1, <2>2, <2>4, Unpublished, Stutter
  <2> QED BY <2>3, <2>4
<1>9. ASSUME NEW r \in Runs, Crash(r)
      PROVE  UNCHANGED Full!fvars
  <2>1. /\ \A q \in Runs \ {r} : pc'[q] = pc[q] /\ reused'[q] = reused[q] /\ fresh'[q] = fresh[q]
        /\ pc[r] # "done" /\ pc'[r] # "done"
        /\ UNCHANGED <<disk, loaded>>
    BY <1>9 DEF Crash, Active, TypeOK, Tables
  <2>2. \A q \in Runs \ {r} : Published(q)' = Published(q)
    BY <2>1, SamePublished
  <2> QED BY <2>1, <2>2, Unpublished, Stutter
<1>10. ASSUME UNCHANGED vars
       PROVE  UNCHANGED Full!fvars
  <2>1. UNCHANGED <<disk, loaded, pc, reused, fresh>>
    BY <1>10 DEF vars, disks, plans, writes
  <2> QED BY <2>1, SamePublished, Stutter
<1>11. Config \in Files /\ Artifacts \subseteq Files
  BY DEF Files
<1>12. ASSUME NEW r \in Runs, NEW a \in Artifacts, Hash(r, a)
       PROVE  UNCHANGED Full!fvars
  <2>1. UNCHANGED <<disk, loaded, pc, reused, fresh>>
    BY <1>12, HashedIsLoaded DEF Hash, disks
  <2> QED BY <2>1, SamePublished, Stutter
<1> QED BY <1>1, <1>2, <1>3, <1>4, <1>5, <1>6, <1>7, <1>8, <1>9, <1>10, <1>11, <1>12
        DEF Next, Step, Ended, Full!Next

\* Incremental runs report what full runs do: run_incremental_verification
\* implements VerificationSession.run (ImplementsFull).
THEOREM Refinement ==
  ASSUME MetadataComplete, InputsSteady, Flaky = {}
  PROVE  Spec => ImplementsFull
<1>1. RInv /\ Truthful' /\ [Next]_vars => [Full!Next]_(Full!fvars)
  BY StepImplements
<1>2. Init => Full!Init
  BY InitImplements
<1>3. Spec => []RInv
  BY RightAnswers
<1>4. Spec => []Truthful
  BY <1>3, PublishedAnswers, PTL
<1> QED BY <1>1, <1>2, <1>3, <1>4, PTL DEF Spec, ImplementsFull, Full!Spec

-----------------------------------------------------------------------------
(***************************************************************************)
(* What a run leaves in the cache file when no other one has been writing  *)
(* it since this one opened it, whatever was in the file by then: the      *)
(* argument needs no assumption on the metadata.                           *)
(***************************************************************************)

\* A file cut short is no dictionary of diagnostics.
TornIsNoCache == ~IsCache(Torn)

\* A run that no other contends with has the file to itself: the file is what
\* the run holds, except while it is written, which nothing overlaps.
Own(r) ==
    pc[r] \in {"run", "store", "write", "done"} /\ ~contended[r] =>
        /\ \A q \in Runs \ {r} : pc[q] # "write"
        /\ pc[r] # "write" => OnFile = cache[r]
        /\ pc[r] = "write" => ~overlap[r]

\* The run's copy answers every check but those it still has to run or store.
CopyComplete(r) ==
    pc[r] \in {"run", "store", "write", "done"} =>
        \A c \in Checks :
            \/ Key(c, hashed[r]) \in DOMAIN cache[r]
            \/ pc[r] = "run" /\ c \in toRun[r]
            \/ pc[r] \in {"store", "write"} /\ c \in unstored[r]

KInv == \A r \in Runs : Own(r) /\ CopyComplete(r)

\* A run's step keeps another run's part of the invariant, unless that run is
\* contended from then on: only a run that writes touches the file.
LEMMA OthersKept ==
  ASSUME KInv, NEW r \in Runs, NEW q \in Runs \ {r},
         UNCHANGED <<pc[q], hashed[q], cache[q], toRun[q], unstored[q]>>,
         \A p \in Runs \ {r} : pc'[p] = pc[p],
         q \in Opened /\ ~contended'[q] =>
            /\ ~contended[q] /\ overlap'[q] = overlap[q]
            /\ pc[r] = "write" \/ (file' = file /\ pc'[r] # "write")
  PROVE  Own(q)' /\ CopyComplete(q)'
<1>1. CopyComplete(q)'
  BY DEF KInv, CopyComplete
<1>2. Own(q)'
  <2> SUFFICES ASSUME pc'[q] \in {"run", "store", "write", "done"}, ~contended'[q]
               PROVE  /\ \A p \in Runs \ {q} : pc'[p] # "write"
                      /\ pc'[q] # "write" => OnFile' = cache'[q]
                      /\ pc'[q] = "write" => ~overlap'[q]
    BY DEF Own
  <2>1. q \in Opened
    BY DEF Opened
  <2>2. /\ \A p \in Runs \ {q} : pc[p] # "write"
        /\ pc[q] # "write" => OnFile = cache[q]
        /\ pc[q] = "write" => ~overlap[q]
    BY <2>1 DEF KInv, Own
  <2>3. file' = file /\ pc'[r] # "write"
    BY <2>1, <2>2
  <2>4. \A p \in Runs \ {q} : pc'[p] # "write"
    BY <2>2, <2>3
  <2>5. OnFile' = OnFile
    BY <2>3 DEF OnFile
  <2> QED BY <2>1, <2>2, <2>4, <2>5
<1> QED BY <1>1, <1>2

\* Steps before the cache file is opened.
LEMMA BeforeOpeningKeeps ==
  ASSUME LInv, KInv, NEW r \in Runs, pc[r] \in {"idle", "load"}, pc'[r] = "load",
         UNCHANGED <<file, cache, toRun, writes>>,
         \A q \in Runs \ {r} : pc'[q] = pc[q] /\ hashed'[q] = hashed[q]
  PROVE  KInv'
<1>1. \A q \in Runs \ {r} : Own(q)' /\ CopyComplete(q)'
  BY OthersKept DEF writes
<1>2. Own(r)' /\ CopyComplete(r)'
  BY DEF Own, CopyComplete
<1> QED BY <1>1, <1>2 DEF KInv

LEMMA OpenKeeps ==
  ASSUME LInv, KInv, NEW r \in Runs, Open(r)
  PROVE  KInv'
<1> USE DEF LInv, Shape
<1>1. PICK paths \in Changes :
        LET hits == {c \in Checks : Reusable(r, paths, c) /\ Key(c, hashed[r]) \in DOMAIN OnFile}
        IN  toRun' = [toRun EXCEPT ![r] = Checks \ hits]
  BY DEF Open, Recomputed
<1> DEFINE hits == {c \in Checks : Reusable(r, paths, c) /\ Key(c, hashed[r]) \in DOMAIN OnFile}
<1>2. /\ toRun'[r] = Checks \ hits /\ cache'[r] = OnFile
      /\ pc'[r] = (IF toRun'[r] = {} THEN "done" ELSE "run") /\ pc[r] = "load"
      /\ UNCHANGED <<file, hashed, unstored, overlap>>
      /\ contended'[r] = (Writers # {})
  BY <1>1 DEF Open, Tables, TypeOK, disks
<1>3. ASSUME NEW q \in Runs \ {r}
      PROVE  /\ pc'[q] = pc[q] /\ cache'[q] = cache[q] /\ toRun'[q] = toRun[q]
             /\ contended'[q] = contended[q]
  BY <1>1 DEF Open, Tables, TypeOK
<1>4. pc'[r] \in {"run", "done"} /\ (pc'[r] = "done" => toRun'[r] = {})
  BY <1>2
<1>5. \A c \in Checks : Key(c, hashed'[r]) \in DOMAIN cache'[r] \/ c \in toRun'[r]
  BY <1>2
<1> HIDE DEF hits
<1>6. CopyComplete(r)'
  BY <1>4, <1>5 DEF CopyComplete
<1>7. Own(r)'
  <2>1. OnFile' = cache'[r]
    BY <1>2 DEF OnFile
  <2>2. ~contended'[r] => \A q \in Runs \ {r} : pc'[q] # "write"
    BY <1>2, <1>3 DEF Writers
  <2> QED BY <1>4, <2>1, <2>2 DEF Own
<1>8. \A q \in Runs \ {r} : Own(q)' /\ CopyComplete(q)'
  BY <1>2, <1>3, <1>4, OthersKept
<1> QED BY <1>6, <1>7, <1>8 DEF KInv

LEMMA TruncateKeeps ==
  ASSUME LInv, KInv, NEW r \in Runs, NEW c \in Checks, Truncate(r, c)
  PROVE  KInv'
<1> USE DEF LInv, Shape
<1> DEFINE k == Key(c, hashed[r])
<1>1. /\ DOMAIN cache'[r] = DOMAIN cache[r] \cup {k}
      /\ unstored'[r] = unstored[r] \ {c}
      /\ pc'[r] = "write" /\ pc[r] = "store" /\ hashed' = hashed /\ toRun' = toRun
      /\ overlap'[r] = (Writers # {}) /\ contended'[r] = contended[r]
  BY DEF Truncate, Tables, TypeOK
<1>2. ASSUME NEW q \in Runs \ {r}
      PROVE  /\ pc'[q] = pc[q] /\ cache'[q] = cache[q] /\ unstored'[q] = unstored[q]
             /\ q \in Opened => contended'[q]
  BY DEF Truncate, Tables, TypeOK
<1>3. Own(r)'
  <2> SUFFICES ASSUME ~contended[r]
               PROVE  (\A q \in Runs \ {r} : pc'[q] # "write") /\ ~overlap'[r]
    BY <1>1 DEF Own
  <2>1. \A q \in Runs \ {r} : pc[q] # "write"
    BY <1>1 DEF KInv, Own
  <2> QED BY <1>1, <1>2, <2>1 DEF Writers
<1>4. \A d \in Checks : Key(d, hashed'[r]) \in DOMAIN cache'[r] \/ d \in unstored'[r]
  <2> SUFFICES ASSUME NEW d \in Checks, d \notin unstored'[r]
               PROVE  Key(d, hashed'[r]) \in DOMAIN cache'[r]
    OBVIOUS
  <2>1. CASE d = c
    BY <1>1, <2>1
  <2>2. CASE d # c
    <3>1. Key(d, hashed[r]) \in DOMAIN cache[r]
      BY <1>1, <2>2 DEF KInv, CopyComplete
    <3> QED BY <1>1, <3>1
  <2> QED BY <2>1, <2>2
<1> HIDE DEF k
<1>5. CopyComplete(r)'
  BY <1>1, <1>4 DEF CopyComplete
<1>6. \A q \in Runs \ {r} : Own(q)' /\ CopyComplete(q)'
  BY <1>1, <1>2, OthersKept
<1> QED BY <1>3, <1>5, <1>6 DEF KInv

LEMMA FlushKeeps ==
  ASSUME TornIsNoCache, LInv, KInv, NEW r \in Runs, Flush(r)
  PROVE  KInv'
<1> USE DEF LInv, Shape
<1>1. /\ pc[r] = "write" /\ pc'[r] = (IF unstored[r] = {} THEN "done" ELSE "store")
      /\ UNCHANGED <<cache, toRun, hashed, unstored, overlap, contended>>
      /\ \A q \in Runs \ {r} : pc'[q] = pc[q]
      /\ file' = cache[r] \/ overlap[r]
  BY DEF Flush, TypeOK, plans, writes
<1>2. Own(r)'
  <2> SUFFICES ASSUME ~contended[r]
               PROVE  (\A q \in Runs \ {r} : pc'[q] # "write") /\ OnFile' = cache'[r]
    BY <1>1 DEF Own
  <2>1. ~overlap[r] /\ \A q \in Runs \ {r} : pc[q] # "write"
    BY <1>1 DEF KInv, Own
  <2>2. file' = cache[r] /\ cache[r] # Torn
    BY <1>1, <2>1 DEF TypeOK, TornIsNoCache
  <2> QED BY <1>1, <2>1, <2>2 DEF OnFile
<1>3. CopyComplete(r)'
  <2>1. \A c \in Checks : Key(c, hashed'[r]) \in DOMAIN cache'[r] \/ c \in unstored'[r]
    BY <1>1 DEF KInv, CopyComplete
  <2>2. pc'[r] = "done" => unstored'[r] = {}
    BY <1>1
  <2> QED BY <1>1, <2>1, <2>2 DEF CopyComplete
<1>4. \A q \in Runs \ {r} : Own(q)' /\ CopyComplete(q)'
  BY <1>1, OthersKept
<1> QED BY <1>2, <1>3, <1>4 DEF KInv

LEMMA StorageStep ==
  ASSUME TornIsNoCache, LInv, KInv, [Next]_vars
  PROVE  KInv'
<1> USE DEF LInv, Shape
<1>1. ASSUME NEW f \in Files, Edit(f) PROVE KInv'
  BY <1>1 DEF Edit, plans, writes, KInv, Own, CopyComplete, OnFile
<1>2. ASSUME NEW r \in Runs, Start(r) PROVE KInv'
  <2>1. pc[r] = "idle" /\ pc'[r] = "load" /\ UNCHANGED <<file, cache, toRun, writes>>
    BY <1>2 DEF Start, TypeOK, disks
  <2>2. \A q \in Runs \ {r} : pc'[q] = pc[q] /\ hashed'[q] = hashed[q]
    BY <1>2 DEF Start, TypeOK
  <2> QED BY <2>1, <2>2, BeforeOpeningKeeps
<1>3. ASSUME NEW r \in Runs, NEW a \in Artifacts, Load(r, a) \/ Hash(r, a) PROVE KInv'
  <2>1. pc[r] = "load" /\ pc' = pc /\ UNCHANGED <<file, cache, toRun, writes>>
    BY <1>3 DEF Load, Hash, disks
  <2>2. \A q \in Runs \ {r} : pc'[q] = pc[q] /\ hashed'[q] = hashed[q]
    BY <1>3, <2>1 DEF Load, Hash, TypeOK
  <2> QED BY <2>1, <2>2, BeforeOpeningKeeps
<1>4. ASSUME NEW r \in Runs, Open(r) PROVE KInv'
  BY <1>4, OpenKeeps
<1>5. ASSUME NEW r \in Runs, NEW c \in Checks, Run(r, c) PROVE KInv'
  BY <1>5 DEF Run, disks, plans, writes, KInv, Own, CopyComplete, OnFile
<1>6. ASSUME NEW r \in Runs, Ran(r) PROVE KInv'
  <2>1. /\ pc[r] = "run" /\ pc'[r] = "store" /\ unstored'[r] = toRun[r]
        /\ UNCHANGED <<file, cache, toRun, hashed, overlap, contended>>
        /\ \A q \in Runs \ {r} : pc'[q] = pc[q] /\ unstored'[q] = unstored[q]
    BY <1>6 DEF Ran, Tables, TypeOK, disks, plans
  <2>2. Own(r)'
    BY <2>1 DEF KInv, Own, OnFile
  <2>3. CopyComplete(r)'
    BY <2>1 DEF KInv, CopyComplete
  <2>4. \A q \in Runs \ {r} : Own(q)' /\ CopyComplete(q)'
    BY <2>1, OthersKept
  <2> QED BY <2>2, <2>3, <2>4 DEF KInv
<1>7. ASSUME NEW r \in Runs, NEW c \in Checks, Truncate(r, c) PROVE KInv'
  BY <1>7, TruncateKeeps
<1>8. ASSUME NEW r \in Runs, Flush(r) PROVE KInv'
  BY <1>8, FlushKeeps
<1>9. ASSUME NEW r \in Runs, Crash(r) PROVE KInv'
  <2>1. /\ pc'[r] = "crashed" /\ hashed' = hashed /\ (pc[r] = "write" \/ file' = file)
        /\ \A q \in Runs \ {r} : /\ pc'[q] = pc[q] /\ cache'[q] = cache[q]
                                 /\ toRun'[q] = toRun[q] /\ unstored'[q] = unstored[q]
                                 /\ overlap'[q] = overlap[q] /\ contended'[q] = contended[q]
    BY <1>9 DEF Crash, TypeOK, Tables
  <2>2. \A q \in Runs \ {r} : Own(q)' /\ CopyComplete(q)'
    BY <2>1, OthersKept
  <2>3. Own(r)' /\ CopyComplete(r)'
    BY <2>1 DEF Own, CopyComplete
  <2> QED BY <2>2, <2>3 DEF KInv
<1>10. CASE UNCHANGED vars
  BY <1>10 DEF vars, disks, plans, writes, KInv, Own, CopyComplete, OnFile
<1> QED BY <1>1, <1>2, <1>3, <1>4, <1>5, <1>6, <1>7, <1>8, <1>9, <1>10 DEF Next, Step, Ended

\* A run that finishes leaves a whole cache file with an answer under the key of
\* every check it was asked for, whichever runs finished or died before and
\* whatever they left in the file, unless another one has been writing it since
\* this one opened it (StoredUnlessContended).
THEOREM StoredAlone ==
  ASSUME TornIsNoCache
  PROVE  Spec => []StoredUnlessContended
<1>1. Init => KInv
  BY DEF Init, KInv, Own, CopyComplete
<1>2. LInv /\ KInv => StoredUnlessContended
  <2> SUFFICES ASSUME LInv, KInv, NEW r \in Runs, pc[r] = "done", ~contended[r],
                      NEW c \in Checks
               PROVE  file # Torn /\ Key(c, hashed[r]) \in DOMAIN file
    BY DEF StoredUnlessContended
  <2>1. OnFile = cache[r]
    BY DEF KInv, Own
  <2>2. Key(c, hashed[r]) \in DOMAIN OnFile
    BY <2>1 DEF KInv, CopyComplete
  <2> QED BY <2>2 DEF OnFile, Empty
<1>3. LInv /\ KInv /\ [Next]_vars => KInv'
  BY StorageStep
<1> QED BY <1>1, <1>2, <1>3, LedgerKept, PTL DEF Spec
=============================================================================
