----------------------- MODULE IncrementalVerification -----------------------
(***************************************************************************)
(* Incremental verification, run_incremental_verification of               *)
(* incremental.py: processes that verify the same configuration, share one *)
(* diagnostic cache file, and may run at the same time, crash, or find the *)
(* files edited.                                                           *)
(*                                                                         *)
(* A run loads the artifacts, each by one read for its contents and one    *)
(* for its hash, plans which checks the changed paths affect, reads the    *)
(* cache file once, answers each skipped check from it when its            *)
(* certificate holds and its key is present, runs the other checks, and    *)
(* stores each result by rewriting the whole file.  The diagnostics of a   *)
(* check are represented by what it read, a hash by what was hashed.       *)
(***************************************************************************)
EXTENDS DependencyCut, Naturals, FiniteSets

CONSTANTS
    Runs,           \* verification processes
    Checks,         \* session.config.checks
    Kinds,          \* artifact kinds
    Table,          \* session.check_dependencies
    Artifacts,      \* artifacts of the configuration
    KindOf,         \* the kind of each artifact
    Remote,         \* artifacts with a uri and no path: no bytes are hashed
    Twice,          \* artifacts whose loader parses one read and hashes another
    Reads,          \* artifacts the callable of a check looks at
    Rereads,        \* those it opens again instead of using what was loaded
    Flaky,          \* checks that may raise whatever their inputs are
    Contents,       \* contents of a file
    Missing,        \* the file does not exist
    Config,         \* the configuration file
    Elsewhere,      \* a changed path that is no file of the configuration
    Unhashed,       \* place of the hash of a remote artifact
    Failed,         \* the check-failed diagnostic
    Torn,           \* a cache file that is not a JSON document
    Changes,        \* lists of changed paths on the command line (bound)
    EditsBetweenReads,  \* files may change between two reads of one run
    MaxEdits        \* bound on the edits

Files == Artifacts \cup {Config}
Paths == Files \cup {Elsewhere}

ASSUME IncrementalAssumption ==
    /\ Table \in DependencyTable(Checks, Kinds)
    /\ KindOf \in [Artifacts -> Kinds]
    /\ Remote \subseteq Artifacts
    /\ Twice \subseteq Artifacts \ Remote
    /\ Reads \in [Checks -> SUBSET Artifacts]
    /\ Rereads \in [Checks -> SUBSET Artifacts]
    /\ \A c \in Checks : Rereads[c] \subseteq Reads[c]
    /\ Flaky \subseteq Checks
    /\ Config \notin Artifacts
    /\ Elsewhere \notin Files
    /\ Missing \notin Contents
    /\ Changes \subseteq SUBSET Paths
    /\ EditsBetweenReads \in BOOLEAN
    /\ MaxEdits \in Nat

VARIABLES
    disk,           \* content of each file
    edits,          \* edits so far
    file,           \* the cache file: diagnostics by key, or Torn
    pc,             \* where each run is
    changedPaths,   \* the changed paths given to a run
    toLoad,         \* artifacts a run has not loaded yet
    reading,        \* the artifact it has looked at and not hashed yet
    loaded,         \* files as a run parsed them
    hashed,         \* files as it hashed them
    cache,          \* the run's copy of the cache file
    reused,         \* diagnostics taken from the cache
    toRun,          \* checks to recompute
    fresh,          \* diagnostics of the checks recomputed so far
    unstored,       \* recomputed checks not written to the cache yet
    overlap,        \* another run writes the file during this run's write
    contended       \* another run has been writing it since this one opened it

disks == <<disk, edits, file>>
plans == <<changedPaths, toLoad, reading, loaded, hashed, cache, reused, toRun>>
writes == <<unstored, overlap, contended>>
vars == <<disks, pc, plans, fresh, writes>>

-----------------------------------------------------------------------------
(* Keys and answers. *)

Empty == [x \in {} |-> {}]

\* The artifacts of a check's key: those of its declared kinds, or all.
Declared(c) == {a \in Artifacts : Table.kinds[c] = {} \/ KindOf[a] \in Table.kinds[c]}

\* Loaded contents: an artifact that is missing or fails to load is left out.
Present(l) == {f \in Files : l[f] # Missing}

\* Mutants of Key: without the configuration, without the artifacts.
KeyNoConfig(c, l) ==
    [check |-> c,
     inputs |-> [f \in Declared(c) \cap Present(l) |->
                    IF f \in Remote THEN Unhashed ELSE l[f]]]
KeyNoHash(c, l) ==
    [check |-> c,
     inputs |-> [f \in (Declared(c) \cap Present(l)) \cup {Config} |->
                    IF f \in Artifacts THEN Unhashed ELSE l[f]]]

\* The fingerprint of the check, the configuration and the declared artifacts.
Key(c, l) ==
    [check |-> c,
     inputs |-> [f \in (Declared(c) \cap Present(l)) \cup {Config} |->
                    IF f \in Remote THEN Unhashed ELSE l[f]]]

\* What a run of the check on these contents reports.
Answer(c, l) == [f \in (Reads[c] \cap Present(l)) \cup {Config} |-> l[f]]

RemoteKinds == {KindOf[a] : a \in Remote}

\* The planner: kinds of the loaded artifacts among the changed paths.
ChangedKinds(r, paths) ==
    {KindOf[a] : a \in paths \cap Present(loaded[r]) \cap (Artifacts \ Remote)}

Selected(r, paths) == Affected(Table, Checks, ChangedKinds(r, paths), RemoteKinds)

\* No changed path, or the configuration among them, forces a full run.
FullRun(paths) == paths = {} \/ Config \in paths

\* Mutant of Reusable: a full run still looks at the cache.
ReusableInFullRun(r, paths, c) ==
    CutProved(Table, Checks, Selected(r, paths), ChangedKinds(r, paths), RemoteKinds, c)

\* A skipped check whose certificate holds.
Reusable(r, paths, c) ==
    /\ ~FullRun(paths)
    /\ CutProved(Table, Checks, Selected(r, paths), ChangedKinds(r, paths), RemoteKinds, c)

-----------------------------------------------------------------------------
Writers == {r \in Runs : pc[r] = "write"}
Opened == {r \in Runs : pc[r] \in {"run", "store", "write", "done"}}
Active(r) == pc[r] \notin {"idle", "done", "crashed"}
Quiet == \A r \in Runs : ~Active(r)

Init ==
    /\ disk \in [Files -> Contents]
    /\ edits = 0
    /\ file = Empty
    /\ pc = [r \in Runs |-> "idle"]
    /\ changedPaths = [r \in Runs |-> {}]
    /\ toLoad = [r \in Runs |-> {}]
    /\ reading = [r \in Runs |-> {}]
    /\ loaded = [r \in Runs |-> disk]
    /\ hashed = [r \in Runs |-> disk]
    /\ cache = [r \in Runs |-> Empty]
    /\ reused = [r \in Runs |-> Empty]
    /\ toRun = [r \in Runs |-> {}]
    /\ fresh = [r \in Runs |-> Empty]
    /\ unstored = [r \in Runs |-> {}]
    /\ overlap = [r \in Runs |-> FALSE]
    /\ contended = [r \in Runs |-> FALSE]

\* Files a run has looked at and looks at again: to hash them, or because a
\* check that has no answer yet opens them.
Between(r) ==
    reading[r] \cup
    {a \in Artifacts \ toLoad[r] :
        Active(r) /\ \E c \in Checks \ (DOMAIN reused[r] \cup DOMAIN fresh[r]) : a \in Rereads[c]}

\* Somebody edits, deletes or restores a file.
Edit(f) ==
    /\ edits < MaxEdits
    /\ EditsBetweenReads \/ \A r \in Runs : f \notin Between(r)
    /\ \E v \in Contents \cup (IF f \in Remote \cup {Config} THEN {} ELSE {Missing}) :
         v # disk[f] /\ disk' = [disk EXCEPT ![f] = v]
    /\ edits' = edits + 1
    /\ UNCHANGED <<file, pc, plans, fresh, writes>>

\* The configuration is read first.
Start(r) ==
    /\ pc[r] = "idle"
    /\ loaded' = [loaded EXCEPT ![r][Config] = disk[Config]]
    /\ hashed' = [hashed EXCEPT ![r][Config] = disk[Config]]
    /\ toLoad' = [toLoad EXCEPT ![r] = Artifacts]
    /\ pc' = [pc EXCEPT ![r] = "load"]
    /\ UNCHANGED <<disks, changedPaths, reading, cache, reused, toRun, fresh, writes>>

\* An artifact is loaded.  A JSON document is only parsed at first; another file
\* is hashed at once, and a missing or remote one never.
Load(r, a) ==
    /\ pc[r] = "load"
    /\ reading[r] = {}
    /\ a \in toLoad[r]
    /\ loaded' = [loaded EXCEPT ![r][a] = disk[a]]
    /\ hashed' = [hashed EXCEPT ![r][a] = disk[a]]
    /\ toLoad' = [toLoad EXCEPT ![r] = @ \ {a}]
    /\ reading' = [reading EXCEPT ![r] = IF a \in Twice /\ disk[a] # Missing THEN {a} ELSE {}]
    /\ UNCHANGED <<disks, pc, changedPaths, cache, reused, toRun, fresh, writes>>

\* A JSON document is read again and hashed.  One that is gone fails to load.
Hash(r, a) ==
    /\ pc[r] = "load"
    /\ a \in reading[r]
    /\ hashed' = [hashed EXCEPT ![r][a] = disk[a]]
    /\ loaded' = [loaded EXCEPT ![r][a] = IF disk[a] = Missing THEN Missing ELSE @]
    /\ reading' = [reading EXCEPT ![r] = {}]
    /\ UNCHANGED <<disks, pc, changedPaths, toLoad, cache, reused, toRun, fresh, writes>>

\* A file that is not a JSON object is an empty cache.
OnFile == IF file = Torn THEN Empty ELSE file

\* Mutant of Recomputed: a skipped check that misses is not run.
RecomputedSelected(r, paths, hits) == {c \in Checks : ~Reusable(r, paths, c)}

\* The checks to run: those selected, and the skipped ones that the cache file
\* or the certificate does not answer.
Recomputed(r, paths, hits) == Checks \ hits

\* Plan for the changed paths of the command line (any, complete or not), read
\* the cache file, and look the skipped checks up.
Open(r) ==
    /\ pc[r] = "load"
    /\ toLoad[r] = {} /\ reading[r] = {}
    /\ \E paths \in Changes :
         LET hits == {c \in Checks : Reusable(r, paths, c) /\ Key(c, hashed[r]) \in DOMAIN OnFile}
         IN  /\ changedPaths' = [changedPaths EXCEPT ![r] = paths]
             /\ reused' = [reused EXCEPT ![r] = [c \in hits |-> OnFile[Key(c, hashed[r])]]]
             /\ toRun' = [toRun EXCEPT ![r] = Recomputed(r, paths, hits)]
    /\ pc' = [pc EXCEPT ![r] = IF toRun'[r] = {} THEN "done" ELSE "run"]
    /\ cache' = [cache EXCEPT ![r] = OnFile]
    /\ contended' = [contended EXCEPT ![r] = Writers # {}]
    /\ UNCHANGED <<disks, toLoad, reading, loaded, hashed, fresh, unstored, overlap>>

\* What the callable finds: some artifacts as loaded, some read once more.
Seen(r, c) == [f \in Files |-> IF f \in Rereads[c] /\ loaded[r][f] # Missing
                               THEN disk[f] ELSE loaded[r][f]]

\* The scheduler runs a check (CheckScheduler says in which order).
Run(r, c) ==
    /\ pc[r] = "run"
    /\ c \in toRun[r] \ DOMAIN fresh[r]
    /\ \E answer \in {Answer(c, Seen(r, c))} \cup (IF c \in Flaky THEN {Failed} ELSE {}) :
         fresh' = [fresh EXCEPT ![r] = [d \in DOMAIN @ \cup {c} |->
                      IF d = c THEN answer ELSE @[d]]]
    /\ UNCHANGED <<disks, pc, plans, writes>>

Ran(r) ==
    /\ pc[r] = "run"
    /\ toRun[r] = DOMAIN fresh[r]
    /\ unstored' = [unstored EXCEPT ![r] = toRun[r]]
    /\ pc' = [pc EXCEPT ![r] = "store"]
    /\ UNCHANGED <<disks, plans, fresh, overlap, contended>>

\* Mutant of Truncate: the result stays on the list of those to store.
TruncateAgain(r, c) ==
    /\ pc[r] = "store"
    /\ c \in unstored[r]
    /\ LET k == Key(c, hashed[r])
       IN  cache' = [cache EXCEPT ![r] = [x \in DOMAIN @ \cup {k} |->
                        IF x = k THEN fresh[r][c] ELSE @[x]]]
    /\ file' = Torn
    /\ overlap' = [q \in Runs |-> IF q = r THEN Writers # {} ELSE overlap[q] \/ q \in Writers]
    /\ contended' = [q \in Runs |-> contended[q] \/ (q # r /\ q \in Opened)]
    /\ pc' = [pc EXCEPT ![r] = "write"]
    /\ UNCHANGED <<disk, edits, changedPaths, toLoad, reading, loaded, hashed,
                   reused, toRun, fresh, unstored>>

\* Mutant of Truncate: the copy is replaced by the new result.
TruncateAlone(r, c) ==
    /\ pc[r] = "store"
    /\ c \in unstored[r]
    /\ LET k == Key(c, hashed[r])
       IN  cache' = [cache EXCEPT ![r] = [x \in {k} |-> fresh[r][c]]]
    /\ file' = Torn
    /\ unstored' = [unstored EXCEPT ![r] = @ \ {c}]
    /\ overlap' = [q \in Runs |-> IF q = r THEN Writers # {} ELSE overlap[q] \/ q \in Writers]
    /\ contended' = [q \in Runs |-> contended[q] \/ (q # r /\ q \in Opened)]
    /\ pc' = [pc EXCEPT ![r] = "write"]
    /\ UNCHANGED <<disk, edits, changedPaths, toLoad, reading, loaded, hashed,
                   reused, toRun, fresh>>

\* A result joins the run's copy, and the file is truncated to be rewritten.
Truncate(r, c) ==
    /\ pc[r] = "store"
    /\ c \in unstored[r]
    /\ LET k == Key(c, hashed[r])
       IN  cache' = [cache EXCEPT ![r] = [x \in DOMAIN @ \cup {k} |->
                        IF x = k THEN fresh[r][c] ELSE @[x]]]
    /\ file' = Torn
    /\ unstored' = [unstored EXCEPT ![r] = @ \ {c}]
    /\ overlap' = [q \in Runs |-> IF q = r THEN Writers # {} ELSE overlap[q] \/ q \in Writers]
    /\ contended' = [q \in Runs |-> contended[q] \/ (q # r /\ q \in Opened)]
    /\ pc' = [pc EXCEPT ![r] = "write"]
    /\ UNCHANGED <<disk, edits, changedPaths, toLoad, reading, loaded, hashed,
                   reused, toRun, fresh>>

\* The copy is written.  Writes that overlap may leave bytes of both.
Flush(r) ==
    /\ pc[r] = "write"
    /\ \/ file' = cache[r]
       \/ overlap[r] /\ file' = Torn
    /\ pc' = [pc EXCEPT ![r] = IF unstored[r] = {} THEN "done" ELSE "store"]
    /\ UNCHANGED <<disk, edits, plans, fresh, writes>>

\* The process dies, or a check or a write raises what nothing catches: what it
\* had in memory is gone, the cache file stays as it is or is left half written.
Crash(r) ==
    /\ Active(r)
    /\ pc' = [pc EXCEPT ![r] = "crashed"]
    /\ changedPaths' = [changedPaths EXCEPT ![r] = {}]
    /\ toLoad' = [toLoad EXCEPT ![r] = {}]
    /\ reading' = [reading EXCEPT ![r] = {}]
    /\ cache' = [cache EXCEPT ![r] = Empty]
    /\ reused' = [reused EXCEPT ![r] = Empty]
    /\ toRun' = [toRun EXCEPT ![r] = {}]
    /\ fresh' = [fresh EXCEPT ![r] = Empty]
    /\ unstored' = [unstored EXCEPT ![r] = {}]
    /\ overlap' = [overlap EXCEPT ![r] = FALSE]
    /\ contended' = [contended EXCEPT ![r] = FALSE]
    /\ \/ file' = file
       \/ pc[r] = "write" /\ file' = Torn
    /\ UNCHANGED <<disk, edits, loaded, hashed>>

Ended == Quiet /\ (\A r \in Runs : pc[r] # "idle") /\ edits = MaxEdits /\ UNCHANGED vars

Step(r) ==
    \/ Open(r) \/ Ran(r) \/ Flush(r)
    \/ \E a \in Artifacts : Load(r, a) \/ Hash(r, a)
    \/ \E c \in Checks : Run(r, c) \/ Truncate(r, c)

Next ==
    \/ \E f \in Files : Edit(f)
    \/ \E r \in Runs : Start(r) \/ Step(r) \/ Crash(r)
    \/ Ended

Spec == Init /\ [][Next]_vars

\* A run that has started goes on or crashes.
FairSpec == Spec /\ \A r \in Runs : WF_vars(Step(r))

-----------------------------------------------------------------------------
(* Properties *)

Inputs == [Files -> Contents \cup {Missing}]

\* A dictionary from keys to diagnostics.
IsCache(d) ==
    /\ d = [k \in DOMAIN d |-> d[k]]
    /\ \A k \in DOMAIN d : k.check \in Checks /\ DOMAIN k.inputs \subseteq Files

\* Every variable holds a value of its kind; the two parts of a plan are the
\* requested checks, each once.
TypeOK ==
    /\ disk \in Inputs
    /\ edits \in 0..MaxEdits
    /\ file = Torn \/ IsCache(file)
    /\ pc \in [Runs -> {"idle", "load", "run", "store", "write", "done", "crashed"}]
    /\ changedPaths \in [Runs -> SUBSET Paths]
    /\ toLoad \in [Runs -> SUBSET Artifacts]
    /\ reading \in [Runs -> SUBSET Artifacts]
    /\ loaded \in [Runs -> Inputs]
    /\ hashed \in [Runs -> Inputs]
    /\ \A r \in Runs :
        /\ IsCache(cache[r])
        /\ toRun[r] \subseteq Checks
        /\ DOMAIN reused[r] \subseteq Checks \ toRun[r]
        /\ DOMAIN fresh[r] \subseteq toRun[r]
        /\ unstored[r] \subseteq DOMAIN fresh[r]
    /\ overlap \in [Runs -> BOOLEAN]
    /\ contended \in [Runs -> BOOLEAN]

\* The answer a run gives for each check.
Report(r) == [c \in DOMAIN reused[r] \cup DOMAIN fresh[r] |->
                 IF c \in DOMAIN reused[r] THEN reused[r][c] ELSE fresh[r][c]]

\* Reused diagnostics are those a full run on the files as parsed would give,
\* whatever was edited since they were stored, whichever runs wrote the cache
\* file over one another or died writing it, and whatever changed paths the
\* command line names; as long as no file changes between two reads of one run,
\* because the key has the hash of the second read and the answer is of the first.
ReuseIsFresh ==
    \A r \in Runs : \A c \in DOMAIN reused[r] : reused[r][c] = Answer(c, loaded[r])

\* Changed files are never judged from the cache: no reused check declares the
\* kind of a changed artifact or of a remote one, and a changed configuration
\* or an unknown change reuses nothing.
ChangedAreRerun ==
    \A r \in Runs : \A c \in DOMAIN reused[r] :
        /\ changedPaths[r] # {}
        /\ Config \notin changedPaths[r]
        /\ \A a \in Declared(c) : a \notin Remote
        /\ \A a \in Declared(c) \cap changedPaths[r] : loaded[r][a] = Missing

\* A run that finishes answers every requested check, from the cache or afresh.
EveryCheckAnswered ==
    \A r \in Runs : pc[r] = "done" => DOMAIN Report(r) = Checks

\* A finished run has left an answer for every check in a whole file, however
\* many runs finished or died before it and whatever they left in the file,
\* unless another one has been writing the file since this run opened it.
StoredUnlessContended ==
    \A r \in Runs : pc[r] = "done" /\ ~contended[r] =>
        \A c \in Checks : file # Torn /\ Key(c, hashed[r]) \in DOMAIN file

\* A run ends or crashes: neither a damaged cache file nor another run that
\* writes it keeps it from ending.
RunsEnd == \A r \in Runs : pc[r] = "load" ~> pc[r] \in {"done", "crashed"}

\* Incremental runs do what full runs do: they report, for all checks at once,
\* the answers on the files they loaded.
NoReport == [x \in {} |-> Torn]

Full == INSTANCE FullVerification WITH
            Contents <- Contents \cup {Missing},
            snapshot <- loaded,
            report <- [r \in Runs |-> IF pc[r] = "done" THEN Report(r) ELSE NoReport]

ImplementsFull == Full!Spec

=============================================================================
