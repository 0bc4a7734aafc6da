----------------------------- MODULE SolverCache -----------------------------
(***************************************************************************)
(* Two caches around the solver of FiniteSearch: SolverQueryCache of       *)
(* formal.py, which trusts what it stored, and ProofCarryingCache of       *)
(* proof_carrying_cache.py, which keeps a proof beside each result, a      *)
(* model or a core, and checks the proof against the problem that asks     *)
(* before it answers with the result.                                      *)
(*                                                                         *)
(* The key of a query holds the constraints sorted by name and the         *)
(* budgets, so problems that list the same constraints in another order    *)
(* share an entry, although the search evaluates them in order.            *)
(***************************************************************************)
EXTENDS FiniteSearch

CONSTANTS
    Groups,         \* sets of queries asked after one another (bound a history)
    MaxAsks,        \* bound on the queries and the corruptions of a history
    Carrying,       \* the caches considered: {FALSE}, {TRUE} or both
    Unrelated       \* what is injected may be any proof beside any result

Query == [constraints : Seq(Constraint), budget : Budgets \cup {NoBudget}, timed : BOOLEAN]

ASSUME CacheAssumption ==
    /\ Groups \subseteq SUBSET Query
    /\ MaxAsks \in Nat
    /\ Carrying \subseteq BOOLEAN
    /\ Unrelated \in BOOLEAN

VARIABLES
    carrying,       \* the cache carries proofs
    asks,           \* queries and corruptions so far
    asked,          \* the query being answered
    use,            \* what the search is for: "solve", "validate" or "none"
    entries,        \* proofs by key, of the cache that carries them
    results,        \* the status of the result stored under a key
    forgone,        \* keys under which an abstention was injected
    answer          \* the status returned for asked

store == <<entries, results, forgone>>
cacheVars == <<carrying, asks, asked, use, store, answer>>
allVars == <<vars, cacheVars>>

-----------------------------------------------------------------------------
\* Mutant of Key: the budgets are left out.
KeyNoBudget(q) ==
    [c \in {q.constraints[i] : i \in DOMAIN q.constraints} |->
        Cardinality({i \in DOMAIN q.constraints : q.constraints[i] = c})]

\* The constraints without their order, and the options.
Key(q) ==
    [bag |-> [c \in {q.constraints[i] : i \in DOMAIN q.constraints} |->
                  Cardinality({i \in DOMAIN q.constraints : q.constraints[i] = c})],
     budget |-> q.budget, timed |-> q.timed]

Stored(q) == Key(q) \in IF carrying THEN DOMAIN entries ELSE DOMAIN results
With(d, k, e) == [j \in DOMAIN d \cup {k} |-> IF j = k THEN e ELSE d[j]]
Without(d, k) == [j \in DOMAIN d \ {k} |-> d[j]]

\* The constraints of cs at the positions K, in order.
At(cs, K) ==
    [i \in 1..Cardinality(K) |->
        cs[CHOOSE k \in K : Cardinality({j \in K : j <= k}) = i]]

\* A proof: a model or a core, or none with the status it goes with.
Entry(kind, s, model, unsat) == [kind |-> kind, status |-> s, model |-> model, core |-> unsat]
Model(x) == Entry("model", "sat", x, << >>)
Core(cs) == Entry("core", "unsat", << >>, cs)
None(s) == Entry("none", s, << >>, << >>)

\* build_proof, of the result of the finished search.
Proof ==
    IF status = "sat" THEN Model(path)
    ELSE IF status = "unsat" THEN Core(At(constraints, remaining))
    ELSE None(status)

\* A model names the variables and satisfies the constraints; whether its values
\* are in the domains is not asked.
Holds(c, x) == c.value[[i \in c.over |-> x[i]]] = "true"
ModelOf(x, cs) == DOMAIN x = Vars /\ \A i \in DOMAIN cs : Holds(cs[i], x)
HasModel(cs) == \E x \in Assignments : \A i \in DOMAIN cs : Holds(cs[i], x)

\* The search starts on the constraints cs.
Begin(cs, b, t) ==
    /\ constraints' = cs /\ budget' = b /\ timed' = t
    /\ pc' = "enter" /\ core' = FALSE /\ active' = DOMAIN cs
    /\ path' = << >> /\ todo' = << >> /\ checked' = 0
    /\ remaining' = {} /\ left' = {} /\ status' = "none" /\ outcome' = "none"

Fresh(q) == Begin(q.constraints, q.budget, q.timed) /\ use' = "solve"

\* A carrying cache takes no budgets.  (Bound: its first query is one that may
\* be asked again.)
CacheInit ==
    /\ Init
    /\ carrying \in Carrying
    /\ asks = 1
    /\ asked = [constraints |-> constraints, budget |-> budget, timed |-> timed]
    /\ carrying => budget = NoBudget /\ ~timed /\ \E G \in Groups : asked \in G
    /\ use = "solve"
    /\ entries = << >>
    /\ results = << >>
    /\ forgone = {}
    /\ answer = "none"

MayAsk == use = "none" /\ asks < MaxAsks

Asking(q) ==
    /\ MayAsk
    /\ carrying => q.budget = NoBudget /\ ~q.timed
    /\ asks' = asks + 1
    /\ asked' = q
    /\ UNCHANGED carrying

Miss(q) ==
    /\ Asking(q)
    /\ ~Stored(q)
    /\ Fresh(q)
    /\ answer' = "none"
    /\ UNCHANGED store

\* Mutant of Valid: only the kind of the proof is looked at.
ValidKind(e, q) == e.kind \in {"model", "none"}

\* A model is evaluated on every constraint; of no proof only the status counts.
Valid(e, q) ==
    \/ e.kind = "model" /\ ModelOf(e.model, q.constraints)
    \/ e.kind = "none" /\ e.status = "unknown"

\* The result is returned as it is, whatever the proof beside it proves.
Hit(q) ==
    /\ Asking(q)
    /\ Stored(q)
    /\ carrying => Valid(entries[Key(q)], q)
    /\ answer' = results[Key(q)]
    /\ UNCHANGED <<vars, use, store>>

\* A core that names a constraint is solved again, as a problem of its own.
Solvable(e) == e.kind = "core" /\ e.core # << >>

Validate(q) ==
    /\ Asking(q)
    /\ Stored(q)
    /\ carrying /\ Solvable(entries[Key(q)])
    /\ Begin(entries[Key(q)].core, NoBudget, FALSE)
    /\ use' = "validate"
    /\ answer' = "none"
    /\ UNCHANGED store

Discard(q) ==
    /\ entries' = Without(entries, Key(q))
    /\ results' = Without(results, Key(q))
    /\ UNCHANGED forgone

\* The proof does not fit: the entry is discarded and the problem solved.
Reject(q) ==
    /\ Asking(q)
    /\ Stored(q)
    /\ carrying /\ ~Solvable(entries[Key(q)]) /\ ~Valid(entries[Key(q)], q)
    /\ Discard(q)
    /\ Fresh(q)
    /\ answer' = "none"

Search ==
    /\ use # "none"
    /\ Solve
    /\ UNCHANGED cacheVars

\* A finished search is stored, abstentions included.
Put ==
    /\ use = "solve" /\ pc = "done"
    /\ entries' = IF carrying THEN With(entries, Key(asked), Proof) ELSE entries
    /\ results' = With(results, Key(asked), status)
    /\ answer' = status
    /\ use' = "none"
    /\ UNCHANGED <<vars, carrying, asks, asked, forgone>>

CoreHolds ==
    /\ use = "validate" /\ pc = "done" /\ status = "unsat"
    /\ answer' = results[Key(asked)]
    /\ use' = "none"
    /\ UNCHANGED <<vars, carrying, asks, asked, store>>

CoreFails ==
    /\ use = "validate" /\ pc = "done" /\ status # "unsat"
    /\ Discard(asked)
    /\ Fresh(asked)
    /\ UNCHANGED <<carrying, asks, asked, answer>>

\* The search raises: so does the cache, and it keeps what it had.
Raise ==
    /\ use # "none" /\ pc = "raised"
    /\ answer' = "raised"
    /\ use' = "none"
    /\ UNCHANGED <<vars, carrying, asks, asked, store>>

\* inject: the proof and the result of a problem are replaced.
Inject(e, s) ==
    /\ MayAsk
    /\ entries' = With(entries, Key(asked), e)
    /\ results' = With(results, Key(asked), s)
    /\ forgone' = IF s = "unknown" THEN forgone \cup {Key(asked)} ELSE forgone \ {Key(asked)}
    /\ asks' = asks + 1
    /\ answer' = "none"
    /\ UNCHANGED <<vars, carrying, asked, use>>

Forged ==
    {Model(x) : x \in [Vars -> Values] \cup {<< >>}} \cup
    {Core(At(asked.constraints, K)) : K \in SUBSET DOMAIN asked.constraints} \cup
    {None(s) : s \in {"sat", "unsat", "unknown"}}

\* A proof, right or wrong, of a result of status s, and a model in the domains.
Proves(e, s) ==
    \/ s = "sat" /\ e.kind = "model" /\ (DOMAIN e.model = Vars => e.model \in Assignments)
    \/ s = "unsat" /\ e.kind = "core"
    \/ s = "unknown" /\ e.kind = "none"

Corrupt ==
    /\ carrying
    /\ \E e \in Forged, s \in {"sat", "unsat", "unknown"} :
            (Unrelated \/ Proves(e, s)) /\ Inject(e, s)

Answering == Search \/ Put \/ CoreHolds \/ CoreFails \/ Raise

Quiet == use = "none" /\ UNCHANGED allVars

CacheNext ==
    \/ Answering
    \/ \E G \in Groups : /\ MayAsk /\ asked \in G
                         /\ \/ \E q \in G : Miss(q) \/ Hit(q) \/ Validate(q) \/ Reject(q)
                            \/ Corrupt
    \/ Quiet

CacheSpec == CacheInit /\ [][CacheNext]_allVars

\* A query that is being answered goes on.
CacheFairSpec == CacheSpec /\ WF_allVars(Answering)

-----------------------------------------------------------------------------
(* Properties *)

\* A decided answer is true of the problem that asked, whether the search, the
\* entry of a permuted problem or a corrupted one gave it: the carrying cache
\* finds out every wrong proof of the result beside it.  It does not when the
\* result is another than what is proved, or a value of the model in no domain
\* (Unrelated).
AnswerSound ==
    /\ answer = "sat" => HasModel(asked.constraints)
    /\ answer = "unsat" => ~HasModel(asked.constraints)

\* A query without budget and deadline never gets the abstention of one that had
\* them: UNKNOWN means that an expression of its own raises, or that somebody
\* put an abstention, which needs no proof, into the carrying cache.
AbstentionsApart ==
    answer = "unknown" /\ asked.budget = NoBudget /\ ~asked.timed /\ Key(asked) \notin forgone =>
        \E x \in Assignments, i \in DOMAIN asked.constraints :
            LET c == asked.constraints[i] IN c.value[[j \in c.over |-> x[j]]] = "raises"

\* The search and the shrinking of the core end: every query is answered or
\* raises, also when a proof has to be checked first.
QueriesEnd == use # "none" ~> use = "none"

-----------------------------------------------------------------------------
\* The first constraint over x[1..d] only, in the order of cs, that is not true
\* there raises.
RaisesAt(cs, x, d) ==
    \E i \in DOMAIN cs :
        /\ cs[i].over \subseteq 1..d
        /\ cs[i].value[[j \in cs[i].over |-> x[j]]] = "raises"
        /\ \A h \in DOMAIN cs : h < i /\ cs[h].over \subseteq 1..d => Holds(cs[h], x)

ReachedAt(cs, x, d) ==
    \A i \in DOMAIN cs : cs[i].over \subseteq 1..d => Holds(cs[i], x)

\* Caching does not turn a decision into an abstention: when neither budget nor
\* deadline is given, UNKNOWN is an answer the search itself could give to this
\* problem, because an expression raises before another constraint shields it.
CachedAsFresh ==
    answer = "unknown" /\ asked.budget = NoBudget /\ ~asked.timed /\ Key(asked) \notin forgone =>
        \E x \in Assignments, d \in 0..N :
            /\ RaisesAt(asked.constraints, x, d)
            /\ \A e \in 0..d : e < d => ReachedAt(asked.constraints, x, e)

=============================================================================
