# PromptABI in TLA+

Specifications, model-checking configurations and machine-checked proofs for the
verification engine of PromptABI (`src/src/promptabi`).  Paths below are relative to
that directory unless they say otherwise; `session.py:580` is a line of it.

To check a model: `tlc -config MCIncremental.cfg MCIncremental.tla`.  To check proofs:
`tlapm IncrementalProofs.tla`.  `PROJECT.json` lists the components, runs, mutants,
theorems, hazards and findings, and maps each definition to the lines it models.

## 1. The system

PromptABI verifies the "interface" of an LLM application: templates, tokenizers, tool
schemas, grammars, provider configurations, training data.  Most of its 234 modules are
pure functions of records (a report, a comparison, a certificate).  What makes the whole
correct is the engine that decides which check runs when, on which thread, with which
shared product, and when an old answer may stand for a new one.

| part | state it keeps | operations |
|---|---|---|
| check scheduler (`session.py:516-636`) | pending ordinals, completed names, batches, futures, results | rounds of ready checks, cycle fallback, resource-safe batches, a thread pool per batch, ordered merge |
| analysis cache (`session.py:310-375`) | dictionary of products, a reentrant lock | `memoize` under the lock, nested and raising factories |
| verification session (`session.py:740-1460`) | configuration, registry of callables, dependency table | load artifacts, run checks, suppress and report |
| incremental planner and certificate (`incremental.py:195-360`) | none between runs | changed files to changed kinds, the closed selection of checks, obligations per reused check |
| incremental verification (`incremental.py:100-192, 363-464, 588-612`) | a JSON file of diagnostics by key, shared by processes | load, plan, look up, run, rewrite the file once per result |
| configuration and loaders (`config.py`, `loaders.py`, `artifacts.py`) | none | read a file, hash it, span it |
| plugins (`plugins.py`) | registry | add checks and dependencies |
| finite contract solver (`formal.py:1640-1790, 2310-2370`) | path and open loops of the enumeration | enumeration under budget and deadline, Z3, unsat cores |
| solver caches (`formal.py:1472-1560`, `proof_carrying_cache.py`) | results by key, hit and miss counters | look up, store, check a stored model or core against the problem that asks |
| portfolios and degradation (`solver_portfolio_replay.py`, `timeout_degradation.py`, ...) | none | replay of recorded results, ladders of timeouts |
| automata (`formal.py:60-480`) | none | completion, minimisation, products, lazy search for a common word |
| grammars (`grammars.py`, `grammar_*.py`) | none | compilation of a sample, enumeration of words, round trip through a tokenizer |
| streaming parser products (`streaming_parser_products.py`) | parser state, monitor state, offsets | feed a chunk, judge a match, close |
| token budgets (`budgets.py`) | none | truncation strategies, must-survive proof, search for a counterexample |
| tokenizers, templates, stop policies (`tokenizers.py`, `chat_templates.py`, `stop_*.py`, ...) | none | string and interval algorithms |
| prompt packs (`prompt_pack*.py`) | registry, lockfile, lifecycle, log | resolve a closure, verify a lockfile, publish, deprecate, certify |
| lockfiles and bundles (`lockfiles.py`, `bundles.py`) | lockfile | build, compare |
| runtime attestation, gates (`runtime_*.py`, `deployment_gate*.py`) | windows of observations | accept, alarm, block |
| minimisation and bisection (`minimization.py`, `artifact_bisection.py`) | predicate cache, accepted steps; probes made | shrink a repro, search a history |
| scaling helpers (`performance_scaling.py`) | queues | simulated stealing, sharding |
| training interfaces, providers, policies, rendering, CLI, benchmarks | none or I/O | scans, comparisons, output |

How they interact.  `cli.py:3240` reads the configuration, then either runs the session or
calls `run_incremental_verification`.  Both load every artifact, and both hand a
`CheckContext` to `CheckScheduler.run`; the scheduler's threads call the check callables,
which share tokenizers, budget reports, grammar analyses and contracts through one
`AnalysisCache`.  Incremental verification wraps this: it leaves checks out because of a
plan and a certificate over `CHECK_DEPENDENCIES`, answers them from a file other processes
write too, and stores what it ran.

What is hard here: which checks share a thread pool (a table of resources decides), cycles
of prerequisites that plugins can introduce, exceptions and interrupts while futures are
open, factories that nest under a lock, a cache file rewritten whole by several processes
that may die halfway, files edited while a run is under way, and the distance between what
a check *declares* and what it *reads*.  The `hazards` of `PROJECT.json` list them line by
line.

What makes each part correct:

* scheduler: exclusion of conflicting checks, order of prerequisites, a complete report in
  an order that does not depend on threads, no thread left, termination on any table;
* analysis cache: one product per key for everybody, built once, no self-deadlock;
* session: the declared resources cover the shared products; it ends with the cache free;
* planner: the loop computes the least closed selection; the certificate agrees with it;
* solver: models satisfy every constraint, UNSAT is never wrong, cores are minimal,
  abstentions have a cause;
* solver caches: an answer is true of the problem that asked, whatever was asked and stored
  before, and a wrong proof is found out; an abstention is only repeated under the budgets it
  came from;
* automata: minimisation merges what may be merged and nothing else; the lazy search finds a
  shortest common word, and "none" is a proof of disjointness when there is no depth bound;
* streaming products: a protected literal is flagged exactly where it ends inside a string,
  however the stream is cut;
* grammars: both verdicts of the emptiness analysis are right within its bounds;
* token budgets: "proven" means that the required segments survive in what is sent, a
  counterexample shows the drop and loses it when a segment is left out;
* prompt packs: a lockfile pins the transitive closure, one version each; what verifies
  against a registry installs nothing unpinned;
* minimisation, bisection: the result fails and is locally minimal; the transition that is
  reported was compared on both sides;
* incremental verification: same answers as a full run; a changed file is never judged from
  the cache; every check answered; results survive; the run ends whatever the file holds.

## 2. Modules

| module | models | state and actions against the code |
|---|---|---|
| `CheckScheduler` | `CheckScheduler.run`, `_resource_safe_batches`, `_run_batch`, `_run_scheduled_check` | `pending`, `completed`, `results` are the locals of `run`; `unplaced`/`batches` those of `_resource_safe_batches`; `queued`/`running`/`waiting` are the pool's queue, its busy threads and the futures still to read. `PickReady`, `ForceLeast` (lines 541-549), `Place` (580-593), `Submit`, `Collect`, `Raise`, `Interrupt`, `Unwind` (596-607), `Merge` (550-554, 608-612), `Return`; `Start`/`Finish` are the pool threads |
| `AnalysisCache` | `AnalysisCache.memoize` | `owner`/`frames` are the RLock with its nesting; `Call`, `Hit`, `Miss`, `Nest`, `Built`, `Raised` |
| `SessionRun` | both together | each callable of the scheduler may `Ask` the cache for products of its `Uses`; it `End`s only outside a `memoize` call |
| `DependencyCut` | the vocabulary of `_affected_checks` and `incremental_cache_certificate` | constant operators: seeds, closed selections, the least one, the obligations |
| `AffectedChecks` | `_affected_checks` as the loop it is | `Visit` is the body of the for loop, `SweepAgain`/`Finish` the while |
| `FullVerification` | what any verification run promises | takes files one at a time, reports the answer of every check on them, once |
| `IncrementalVerification` | `run_incremental_verification` with `_CheckDiagnosticCache`, by several processes | `disk` (the user's files), `file` (the cache file), and per run the files as it parsed them (`loaded`) and as it hashed them (`hashed`), its copy `cache`, `reused`, `toRun`, `fresh`, `unstored`; `contended` remembers that another run has been writing the cache file since this one opened it. `Start`/`Load`/`Hash` (configuration first, then artifacts; those in `Twice` are parsed by one step and hashed by another), `Open` (plan, certificate, lookups), `Run`, `Ran`, `Truncate`/`Flush` (one whole rewrite per result), `Crash`, and `Edit` of the environment |
| `FiniteSearch` | `FiniteContractProblem.solve` without Z3, `_enumerated_unsat_core`, `_is_satisfiable` | `path`/`todo` are the recursion: the values assigned and what each open loop has left. `Timeout`, `Exceed`, `Unsupported`, `Refute`, `Descend`, `Satisfy` are the ways a node is left or entered, `Try`/`Exhaust` the loop over values; `Prove`, `Candidate`, `Keep`, `Drop`, `Minimized` the deletion loop, which uses the same search with `core` set |
| `SolverCache` | `SolverQueryCache` and `ProofCarryingCache` around `FiniteSearch` | `entries` (proofs) and `results` (statuses) by `Key` (constraints as a bag, budgets), two dictionaries as in the code; a query is looked up, solved by the search, stored; with `carrying` a hit is validated (a model against the problem, a core by a search of its own) and answers with the result stored beside the proof; rejected entries are solved again. `Inject` replaces proof and result in between: with `Unrelated` by any of each, else by a wrong proof of a result of its kind |
| `ArtifactBisection` | `bisect_artifact_drift` | `low`/`high`/`firstBad`, `probes` the cache of comparisons; `ProbeBad`, `ProbeGood`, `ProbeFails` and the comparison of the predecessor after the loop |
| `ReproMinimizer` | `minimize_repro` | `current`, `known` the cache of the predicate, `accepted` and `hitLimit`; `Generate` the candidates of a round, `Try` one in the code's order, `StepLimit` |
| `PackClosure` | `resolve_transitive_closure`, `verify_transitive_lockfile` | `visits` is the recursion of `visit`, `onStack`/`chosen`/`resolved` its sets; `Verified` the later check of a lockfile |
| `GrammarEmptiness` | `analyze_tokenizer_grammar_emptiness` | compile to the automaton of a sample, enumerate prefixes breadth first up to two bounds, try each candidate |
| `BudgetTruncation` | must-survive proof of `budgets.py` | `Dropped` is the truncation by strategy and preservation; `Omit` the loop that shrinks the counterexample, which tells segments apart by their names (`Targets`): names need not differ, since the segments of all artifacts are put into one list (`budgets.py:420`) |
| `AutomatonMinimize` | `DeterministicFiniteAutomaton.minimize` | `reached`/`toVisit` the exploration, `blocks` the partition, one action per sweep |
| `IntersectionSearch` | `intersection_witness` | `pending` the queue, `word` the chain of predecessors; a pair of least depth is taken next |
| `StreamingParser` | `analyze_streaming_parser_product` | parser and substring monitor in step, `offset` in `chunk`; `Feed`, `NextChunk`, `CloseStream` |
| `*Proofs` | theorems | section 5 |
| `MC*` | instances for TLC | section 3 |

`MCTools` composes the algorithms that share no state with anything: a behaviour picks one of
them and an input of its, the rest stay where they are.  `SolverCache` EXTENDS `FiniteSearch`:
the steps of the search are its steps while a query or a validation is under way.
`SessionRun` composes the first two by EXTENDS and INSTANCE: its steps are theirs, with the
scheduler's `Finish` delayed while the callable is in the cache.  `IncrementalVerification`
and `AffectedChecks` share `DependencyCut`: the former plans with the *least closed
selection*, the latter shows (for every table and request, by proof) that the loop computes
it.  `IncrementalVerification` refines `FullVerification`: `snapshot <- loaded`, and a run
has reported once it is done.  A run's recomputation is one step per check there, in any
order; `CheckScheduler` says which order the scheduler chooses.

Abstractions worth knowing:

* Diagnostics are represented by the contents the callable looked at (`Answer`).  Two runs
  of a check agree iff they looked at the same contents: the strictest reading of "same".
* A hash is the content.  A cache key is the check, the configuration and the hashes of the
  artifacts of the declared kinds (all kinds when none are declared).  The SHA of a remote
  artifact does not exist: `Unhashed`.
* The changed paths of the command line are arbitrary, also incomplete or wrong: nothing
  says that `--changed-path` names what really changed.
* Each rewrite of the cache file truncates it and then fills it.  When two writers overlap
  the outcome is one of their documents or bytes that are not JSON (`Torn`); a crash during
  a write leaves `Torn` or the file as it was.  A process that reads `Torn` has an empty cache.
* One version of program and plugins throughout.
* The loaders of JSON documents parse one read and hash a second (`loaders.py:665` and `697`);
  a third (`loaders.py:1600`) only gives source spans and is left out.  Other files are hashed by
  the one read of the load.  The data files that the adapters of a training manifest open
  (`training_data_loaders.py:188`) are neither hashed nor artifacts, and are left out too.
* `EditsBetweenReads` says whether a file may be edited between two reads of one run, whether
  those of its load or that of a check that opens it again.  Without it edits still happen at
  any other moment of a run: before a file is read and after its last read.
* A predicate or comparison (`minimization.py`, `artifact_bisection.py`) is a choice made at
  the first call and remembered, because the code remembers it.
* A schema is the words it allows, the compiler's sample first; a tokenizer is what encoding
  and decoding make of each word; a token count is given with its segment.
* Automata are functions; the names given to blocks and products are left out.
* A solver constraint is a table over the variables it names; expressions and domains are
  not modelled further.  The values of a variable are tried in any order.  Problems name
  declared variables only.  A deadline may pass at any node.
* A check that may fail for passing reasons is in `Flaky`; failures are stored as the code
  stores them.
* The mutants that stand beside a definition (`ReadyAny`, `KeyNoHash`, ...) are plausible
  bugs, used to show that each property can break; no specification refers to them.

## 3. Runs

| run (cfg) | instance | shows |
|---|---|---|
| `session` (`MCSessionRun`) | five first-party checks with their entries of `CHECK_DEPENDENCIES`, and three plugin checks with every graph of prerequisites without self-loops and one with, in four conflict patterns; requests of 3-4 ordinals with repetitions, 3 threads, 2 cache calls per check, raises and an interrupt | `TypeOK`, `ResourceExclusion`, `DependencyOrder`, `CompleteReport`, `Deterministic`, `CacheReleased`, `SessionEnds` |
| `tools` (`MCTools`) | ten algorithms, each over the inputs listed below | `LeastCut`, `PlanCertified` (planner); `BuildOnce`, `OneProduct` (cache); `RealTransition`, `FirstOfMonotone` (bisection); `StillFails`, `OneMinimal` (minimiser); `PinsClosure`, `RefusedForCause`, `VerifiedIsClosure` (packs); `EmptinessSound` (grammars); `ProvenKept`, `CounterexampleMinimal` (budgets); `QuotientSound`, `Coarsest` (minimisation); `ShortestCommonWord`, `NoneMeansDisjoint` (search); `OccurrencesFlagged` (streams); `AlgorithmsEnd` |
| `incremental` (`MCIncremental`) | 2 processes, a check on a template (opened again by the check) and one on prompt segments (parsed and hashed by two reads), 2 contents, 2 edits or deletions at any moment except between two reads of the file by one run, changed lists of at most one path, crashes | `EveryCheckAnswered`, `StoredUnlessContended`, `ReuseIsFresh`, `ImplementsFull` |
| `incremental_ends` (`...Ends`) | a local manifest, whose check fails now and then, and a remote tokenizer; no edits (so one content), fair runs | `ChangedAreRerun`, `RunsEnd` |
| `solver` (`MCFiniteSearch`) | 2 variables of 2 values; problems of 2 constraints from all tables (true, false, raises) and of 3 Boolean ones, two of them on one variable; budgets of 1, 4 or none, with and without deadline; then histories of 3 queries and corruptions through either cache, over five pairs of constraints in both orders | `SatSound`, `UnsatSound`, `AbstainsForCause`, `CoreIrreducible`, `AnswerSound`, `AbstentionsApart`, `QueriesEnd` |
| `solver_raises` (`MCFiniteSearchRaises`) | as `solver` | *violates* `NoEscape` |
| `incremental_tools` (`...Tools`) | `rag-chunking-compatibility` with segments and tool definitions | *violates* `ReuseIsFresh` |
| `incremental_reread` (`...Reread`) | `role-boundary-nonforgeability`, edits also between two reads (`EditsBetweenReads`) | *violates* `ReuseIsFresh` |
| `solver_cache_corrupted` (`MCSolverCacheCorrupted`) | one problem without a model that a value outside the domain would satisfy, 3 queries and corruptions of the proof-carrying cache by any proof beside any result (`Unrelated`) | *violates* `AnswerSound` |
| `solver_cache_order` (`MCSolverCacheOrder`) | 2 queries over the permuted pairs | *violates* `CachedAsFresh` |
| `grammar_empty` (`MCGrammarEmptiness`) | schemas of one word, one longer than the depth, a tokenizer that changes nothing | *violates* `EmptyProved` |
| `budget_smallest` (`MCBudgetTruncation`) | prompts of few segments truncated from the left | *violates* `SmallestCounterexample` |

The inputs of `tools`:

| algorithm | inputs |
|---|---|
| planner | every dependency table over three names that declare at most one of two kinds, one name perhaps without an entry; two requests |
| cache | 3 threads, 3 products, a factory that asks for another product and for its own, 2 nested asks, 2 calls per thread |
| bisection | every history of 1-6 revisions that are good, bad or unreadable |
| minimiser | lists of one and three strings and a dict of two, every predicate, limits of 0, 2 and none |
| packs | registries of four packs with empty, chained, diamond-shaped, cyclic and conflicting needs, one pack missing or not; later registries with other needs under the same digest |
| grammars | schemas of one or two words of up to three symbols, one longer than the depth of 2; every tokenizer of these words |
| budgets | every prompt of 3-4 of seven segments, of which two (one required, one not) have one name, and one with an unknown count, under eleven policies, with 4 tokens |
| minimisation | every partial automaton of two states over two letters, 64 of three states, 8 of four |
| common word | every pair of automata of two states of three shapes, and three of up to five states; depths 0, 3 and none |
| streams | texts of up to six characters cut in two chunks, two literals, one of which may overlap itself and one of which ends with a quote |

Why these bounds are enough to be interesting.  Scheduler: three names are the least with a
cycle beside a free check and with a chain of conflicts that is not transitive; four ordinals
on three threads make a pool queue.  A configuration file yields a sorted request without
repetitions (`config.py:111`); the incremental verifier appends cache misses to the selected
checks, so its requests are unsorted, and a `VerificationConfig` built through the API may
repeat a name.  Cache: three threads let one wait while two race; two
nested asks let a factory nest in a nested one.  Planner: the tables over three names
contain every shape of the closure rule (dependent before prerequisite, prerequisite pulled
in by a pulled-in check, cycles of two and three).  Incremental: two processes are what a lost update or an
overlapping write takes, and a run that fills the cache, an edit, an edit back and a run
that reuses is the shortest history that can go stale; two contents are enough because a property
only tells "same" from "different".  One changed path is enough to select a check, none forces a
full run, and a list of more selects more, which leaves less to reuse.  Solver: all tables over two variables contain every pattern of what is
checked at which depth; three constraints are the least with a redundant member beside a core
of two; a budget of four is exactly the number of assignments.  Two more queries after the first
let an entry be stored, corrupted or permuted, and used.  Bisection: six revisions are three
halvings.  Minimiser: three strings give chunks of two sizes and a removal that makes another
one possible.  Packs: four entries hold a diamond, a cycle of two and two versions of one
name.  Automata: states that differ only after three letters need as many sweeps.  Streams:
two chunks split a match, an escape and a string.  What needs more runs or larger data than
that is what the theorems are for.  Runs and contents are symmetric (`Symmetric`), and no run with symmetry
checks liveness.

No run turns deadlock checking off: the end of a run is an explicit stutter (`Ended`,
`Idle`), so an unintended stop is an error.

## 4. Fairness

* `SessionRun` (`SessionFairness`): weak fairness of the main thread, and for each check of
  taking it from the queue, of its step in the cache, and of its end.  The main thread is
  never preempted for good, a waiting thread gets a lock that stays free, and every callable
  returns or raises.  The last is an assumption about check code: the scheduler has no timeout.
* `MCTools`: one weak fairness condition on `Progress`, the steps of whatever algorithm runs.
  They are sequential programs, so it says that they go on running; for the cache it says
  that some thread in a call goes on, which is enough because calls and nested asks are
  finitely many.
* `SolverCache` (`CacheFairSpec`): the solver answers the query it has; no query is forced to
  be asked, no entry to be corrupted, and the deadline is never forced.
* `IncrementalVerification`: weak fairness per process for its own steps; no fairness for
  `Start`, `Edit` or `Crash`.

`Interrupt`, `Crash`, `Edit`, `Call`, `Ask` and `Nest` are never forced.

## 5. Proofs

All theorems hold for arbitrary constants under the named assumptions of the modules and, where
said, the hypotheses named with them.

**`CheckSchedulerProofs`** (assumes `SchedulerAssumption` only).  The inductive invariant
`IInv` adds to `TypeOK`: `Shape` (the parts of a round are disjoint, locals are empty outside
their part of the loop), `Packed` (each batch is free of conflicts), `Futures` (a check has
an outcome exactly when a thread executed it), `Merged` (what left the pending list is in the
results once), and for the order of prerequisites `Together` and `Prepared`.  The last two
are needed because completion is recorded by *name* while checks are scheduled by ordinal:
with a name requested twice, "completed" would come too early if checks of one name could
enter different rounds; `Together` says they cannot, unless a cycle dooms the name.  From it:
`TypeCorrect`, `ExclusionHolds`, `OrderHolds`, `ReportComplete`, `NoThreadLeft`,
`NothingRunsTwice`.

The order of the report has an invariant of its own, `OInv`: in round k what has left the
pending list lies between the reference's rounds k-1 and k, the checks in the round are the
rest of it, batch i of those still to run is the reference's slot s+i when s have been handed
to the pool, and a check still to be packed has a greater ordinal than any packed one, so that
first fit finds it the slot the reference gives it.  The reference computes rounds and slots
by recursive functions; that these are defined is shown by the least number at which they
could fail (`LeastNumber`, from the well-foundedness of `<`), without an induction theorem.
`OrderDetermined` is `Deterministic`, `OneOrder` that its order is total and strict, so that
it leaves the report no choice.

**`SessionRunProofs`** (also `SessionAssumption`).  Every session step is a scheduler step or
a stutter, so the scheduler's theorems carry over.  `Busy`: whoever is in a `memoize` call is
running and wants a product of its own; the lock's holder is in such a call.
`CacheIsReleased` follows with `PoolJoined`; `NobodyWaitsForItsOwn` follows with
`ResourceExclusion` under `ProductsCovered` (callables that share a product declare a
common resource), which is the obligation on `CHECK_DEPENDENCIES`.

**`AffectedChecksProofs`**.  The loop invariant: the selection lies within every closed set
that has the seeds, and when a sweep has changed nothing so far, the closure rule holds for
the checks visited.  So the loop ends with the least closed set (`ComputesLeastCut`), whence
`SkippedAreCertified`.

**`FiniteSearchProofs`** (assumes `SearchAssumption`; domains may be infinite).  The key of the
invariant is `NoneBehind`: every model of the constraints searched either continues the path
or lies under a value some open loop has not tried.  Pruning keeps it because a constraint
has one value on all assignments that agree on its variables (`EvaluateLocal`); so an
exhausted root has no model.  `CoreSound` adds that the core stays unsatisfiable and that
each member tried since it last shrank is necessary.  Theorems `ModelsHold`, `NoFalseUnsat`,
`CoreMinimal`, `TypeCorrect`.  `AbstainsSoundly` needs `FiniteDomains`: each assignment counted
against the budget is one the search has passed for good (`Passed`), so a search over budget has
more assignments than the budget allows; the code's domains are finite by construction.

**`SolverCacheProofs`** (also `CacheAssumption`).  The invariant `CInv` joins the search's
invariant with `EntriesSound` (in the trusting cache every stored SAT has a model of the members
of its key and every stored UNSAT none; in the carrying cache, which may be corrupted, a core
consists of constraints of its key, and without `Unrelated` a proof lies beside a result of its
kind and a model takes values from the domains: `EntryFits`) and `Purpose` (which problem the
search is working on, and for what).
The key forgets the order of the constraints, so the lemmas show that a model and its absence
depend on the members only.  `AnswersSound`: whatever is decided is true of the problem that
asked, because a carried proof is checked before it is believed.  It assumes `~Unrelated`; the
run `solver_cache_corrupted` shows that it must.
`AInv` adds that an entry
with an abstention and without limits belongs to a bag with a member that raises, because the
options are part of the key, unless it was injected (an injected abstention carries no proof);
`NoForeignAbstention` follows, also with `Unrelated`.

**`AutomataProofs`** (`AutomatonAssumption`, `OperandAssumption`, `GrammarAssumption`,
`StreamAssumption`).  Minimisation: what was
reached is closed but for what is still to visit; the blocks partition it and no two states
that a bisimulation relates are in different blocks (`NeverApart`); after a sweep without a
split, members of a block agree on their successors' blocks.  Hence `MinimizeSound` and
`MinimizeLeast`.  Search: without a depth bound, the successors of every pair that was seen
and is not pending were seen and accept not (`Followed`), so an empty queue has shown that
no reachable pair accepts (`NoneProvesDisjoint`).  `ShortestFound` adds to it that each seen pair
is reached by the word kept for it (`Traced`) and that depths in the queue differ by one at
most (`Layered`); a common word passed over would have a first prefix whose pair was not seen
in time, and the least such prefix does not exist.  Grammars (`VerdictsSound`): the prefixes
enumerated are those of the sample up to the bounds, so that a candidate is the sample and
"empty" has tried it or was cut off.  Streams (`OccurrencesReported`): the monitor's count is the longest prefix
of the literal that ends the text (`Longest`), also for a literal that overlaps itself, and
the reports so far are the occurrences so far.

**`ToolProofs`** (`CacheAssumption` of `AnalysisCache`, `HistoryAssumption`, `ReproAssumption`,
`RegistryAssumption`, `BudgetAssumption`).  Cache: with the lock held, the keys whose factories are
open above k's are among those k's factory leads to (`Nested`), so none of them stores a product for k:
`ProductShared`, `BuiltOnce`.  Bisection:
what lies left of the interval was found good at its end, what lies right of it was found bad
at its start (`Bracket`), hence `TransitionReal` on any history and `FirstFound` on monotone
ones.  Minimiser: the current repro is one the cache knows to fail (`Failing`); when a round
ends without a change, its candidates of size one were all asked, in this round or before, and
passed (`ResultOneMinimal`).  Packs: every
pack met is needed by the root (`OnlyNeeded`), and every need of a resolved pack is resolved,
in progress or still to visit (`NothingSkipped`); with one version per name this gives
`LockfilePinsClosure`, and agreement of the digests and needs gives `VerifiedPinsClosure`.
A second invariant (`DInv`) gives each finding its cause: what the inner calls visit, a pack on
the stack depends on, so meeting a pack on the stack is a cycle of the closure; and without a
finding nothing resolved depends on itself (`RefusedOnlyForCause`).  Budgets: the sum of the tokens of
a part of the prompt grows with the part, and policies drop in a fixed order, so a part drops a
segment only if every longer part does.  One pass of the shrinking loop is then enough
(`MinimalWitness`), as far as it looks: segments that bear the name of a lost one are never tried,
so with repeated names an optional one of them may stay without need.  With history (optional, 2
tokens), history (required, 4), doc (optional, 4), truncation from the left to 4 tokens, the code
reports all three, although the first could go.  `KeepsRequired` says that truncation stops
where it should.  The truncation of a
sample is stated through an instance of the module with the prompt and the policy as parameters
(`Of(p, q)`).  Of the strategy "middle" minimality is not claimed: the middle moves as segments are
left out.  With the token counts 1, 0, 1, 2, 2, 0, 0, 2, 0, 2, a budget of 7 and only the fourth
segment required, the code reports segments 1, 4, 5, 8 and 10, although 1 can be left out.

**`IncrementalProofs`**, first part (assumes `IncrementalAssumption` only, whatever checks read).
`LInv` = types, shapes of the per-run tables, `Progress` (what is answered at which point of
a run) and `ChangedAreRerun`.  Theorems `TypeCorrect`, `ChangedRerun`, `AllAnswered`.

Second part.  `ReuseIsFresh` is not inductive: it needs that the cache file and
every process's copy hold, under the key of a check the certificate may accept, what the key
says (`CachesSound`), that what is about to be stored is right (`FreshSound`), and that every file
was hashed as it was parsed and is still on disk so while its run will read it again (`Mirror`).
`ReusedAreFresh` proves it under
  * `MetadataComplete`: judgeable checks read only artifacts of the kinds they declare and do
    not fail at random.  This is the code's own assumption (`proof_sketches.py:650`);
  * `InputsSteady`: no file is edited between two reads of it by one run.

Third part.  Adds that no check fails at random (`Flaky = {}`), which concerns *all* checks because a
full run's answer is claimed for all.  `Refinement` proves that each step of
`IncrementalVerification` is a step of `FullVerification` or a stutter.

Fourth part.  `KInv`: as long as no other run has been writing the file since this one opened it,
the file is this run's copy or being rewritten by it (`Own`), and the copy answers every check but
those the run still has to run or store (`CopyComplete`).  Earlier runs may have ended, died or
left torn bytes.  `StoredAlone` proves `StoredUnlessContended` from it under `TornIsNoCache`:
`Torn`, which stands for bytes that are not a JSON document, is not one.

The assumptions cannot be dropped: the runs `incremental_tools` and `incremental_reread`
falsify `ReuseIsFresh` when `MetadataComplete` or `InputsSteady` fails, with first-party checks.
No check that opens a file again is needed for the latter: for prompt segments or a manifest, an
edit between `Load` and `Hash` stores the diagnostics of the old bytes under the hash of the new
ones.

Some theorems state facts that no run repeats: `NoThreadLeft`, `NothingRunsTwice`, `OneOrder`,
`NobodyWaitsForItsOwn`, `LimitKept` and the type invariants of all but the scheduler.

Only model-checked: the liveness properties (`SessionEnds`, `AlgorithmsEnd`, `QueriesEnd`,
`RunsEnd`), which need fairness and enabledness.  Every invariant a passing run checks, and the
refinement, is also a theorem.

## 6. Findings

1. **A check reads what it does not declare** (`incremental_tools`).  The
   `rag-chunking-compatibility` entry (`session.py:467`) declares prompt segments, truncation
   configurations and tokenizers.  Its findings come from the budget report, and
   `budgets.py:615` also judges tool definitions.  Edit a tool definition and pass it as the changed path:
   the plan skips the check, the key is the same, the certificate accepts, and the old
   diagnostics are reported as current.  `proof_sketches.py:650` assumes that this metadata is
   complete.
2. **A file is hashed at one time and read at another** (`incremental_reread`).
   `role-boundary-nonforgeability` parses the template from disk again (`session.py:975`)
   after it was loaded and hashed.  An edit in between stores diagnostics of the new bytes
   under the old hash; once the old content is back, a later run reuses them.
   `proof_sketches.py:662` describes a reused entry as keyed by the artifact hashes.  The loaders
   of JSON documents have the same gap within one load (`loaders.py:665` and `697`).
3. **The core loop lets exceptions through** (`solver_raises`).  A constraint that raises (a
   numeric comparison of an enum member that is no number) may be shielded by one that is
   false before it.  The first search then proves UNSAT; the search for the core leaves the
   shield out, and the `TypeError` leaves `solve()` (`formal.py:2345`).  With the constraints
   in the other order the result is UNKNOWN, which `docs/formal-methods.md:83` describes
   as what unsupported syntax gets.
4. **A cached abstention answers a query that would be decided** (`solver_cache_order`).
   `solver_query_key` (`formal.py:1532`) sorts the constraints by name; the search evaluates
   them in their order, and the order decides whether an expression that raises is reached.
   Of two permuted problems the second gets the UNKNOWN of the first.  The answer is never
   unsound (`AnswerSound`), but `solver_lemma_cache.py:11-14` says that a cached verdict is
   identical to a fresh one.
5. **A bound of the enumeration is reported as emptiness** (`grammar_empty`).  When the only
   compiled sample is longer than `max_depth`, there are no candidates, and
   `grammar_emptiness.py:193` takes that for a language without accepting path.
   `grammar_emptiness.py:161` promises to abstain instead of guessing.
6. **The smallest counterexample is a locally minimal one** (`budget_smallest`).  The loop at
   `budgets.py:1464` tries to leave out each segment once; `docs/concepts/must-survive-budgets.md:54`
   calls the result the smallest segment set.  For the strategy "middle" one pass does not even
   make it locally minimal (section 5), which the name of the field, `minimal_counterexample`, suggests.
7. **A validated proof need not be one of the result** (`solver_cache_corrupted`).
   `validate_proof` evaluates the constraints on a carried model but does not ask whether its
   values are in their domains (`proof_carrying_cache.py:62-69`), and a hit returns the result that
   was stored beside the proof whatever the proof says (line 143).  For x in 0..3 with x >= 5, a
   corrupted entry with the model x = 7 and a sat result is a validated hit; the problem is UNSAT.
   The module promises that a corrupted entry is caught (lines 5-6) and that a hit is never weaker
   than solving from scratch (lines 15-16).  Entries the cache stored itself are right
   (`AnswerSound` in the run `solver`), as are corrupted proofs beside a result of their kind.

Seen on the way, outside the models: the reason `LTS_WITH_EOL_IN_PAST` of
`prompt_pack_lifecycle.py` is never emitted; `minimize(complete=False)` raises `TypeError` on a
partial automaton; the must-survive document names a status `unknown` where the code has
"abstained"; `ORPHAN_RESULT` of `tool_call_replay.py` cannot be reached.

## 7. Order of the work

Modelled first: the engine (scheduler, cache, incremental verification), since every verdict
passes through it.  Then the enumeration of the solver, with its caches.  Then the algorithms
whose result other parts take for granted: planner, automata, packs, budgets, minimisation,
bisection, streams.  An extension would start with the Z3 path and its deletion loop
(`formal.py:2393-2431`), where a sub-query may be unknown.

## 8. Not modelled

* **String algorithms**: tokenizers, chat templates and role boundaries, stop sequences, JSON
  schema.  What they compute is a matter of characters, not of order and state.  Where their
  result feeds a modelled part it is an input (a tokenizer as a function of words).
* **Encodings**: bit vectors, envelope maps, static contracts, the contract language.  Pure
  translations into finite contracts; the search they end in is `FiniteSearch`.  Z3 itself is
  external.
* **Monitors and comparisons of recorded data**: `streaming_chunk_order.py`,
  `parallel_cancellation.py`, `tool_call_replay.py`, `multi_epoch_packing.py`, `shard_replay.py`,
  `runtime_alarms.py`, provider and migration records, transparency log, portfolios, gates.
  Each folds a list it is given, once, and keeps nothing: a model would be the same fold
  again, and a property of it a restatement.
* **Scaling helpers**: the simulated work stealing deals its tasks round robin, so that no
  queue runs empty before the others by more than one task and the stealing branch
  (`performance_scaling.py:136`) is not taken.
* **Lockfiles and bundles**: written from one snapshot and compared field by field.  The
  snapshot of `--write-lockfile` comes from a second load after the run (`cli.py:3272`), so it
  may record other bytes than were judged.
* **Versions** of the program and its plugins: no part of the cache key (`incremental.py:429`);
  the model has one version.
* **Failing tokenizers**: failures are not cached (`session.py:1380`), so two reports of one
  session may differ; report keys are not modelled to that depth.
* **Command line, rendering, editors, benchmarks, releases, reports**: input and output.

Most of the 234 modules belong to these kinds, which is why the models cover a small part of
the lines and the part of the program that keeps state, waits, retries or gives up.
