------------------------------- MODULE MCTools -------------------------------
(***************************************************************************)
(* The algorithms that stand on their own, in one run: a behaviour picks   *)
(* one of them and an input, and the others stay at the start of a small   *)
(* input of theirs.                                                        *)
(***************************************************************************)
EXTENDS AffectedChecks, AnalysisCache, ArtifactBisection, ReproMinimizer,
        PackClosure, GrammarEmptiness, BudgetTruncation, AutomatonMinimize,
        IntersectionSearch, StreamingParser, TLC

-----------------------------------------------------------------------------
(* AffectedChecks: every dependency table over three checks that declare   *)
(* at most one of two kinds, cycles included (a check that runs after      *)
(* itself adds nothing), and one of them may lack an entry; requests that  *)
(* have a check of the table or leave one out.                             *)

MCNames == {"a", "b", "c"}
MCKinds == {"template", "tokenizer"}
MCTables == {T \in DependencyTable(MCNames, MCKinds) :
                /\ MCNames \ {"a"} \subseteq T.known
                /\ \A n \in MCNames : n \notin T.after[n] /\ T.kinds[n] # MCKinds}
MCRequests == {<<"a", "b", "c">>, <<"b", "a">>}

RestAffected ==
    /\ table = [after |-> [n \in MCNames |-> {}], kinds |-> [n \in MCNames |-> {}], known |-> {}]
    /\ request = << >> /\ changedKinds = {} /\ remoteKinds = {}
    /\ pc = "sweep" /\ index = 1 /\ changed = FALSE /\ selected = {}

(* AnalysisCache: three threads, three products.  A report and a grammar   *)
(* analysis ask for a tokenizer; the report also asks for itself.          *)

MCThreads == {"t1", "t2", "t3"}
MCKeys == {"report", "adapter", "analysis"}
MCAsks == {<<"report", "adapter">>, <<"analysis", "adapter">>, <<"report", "report">>}

(* ArtifactBisection: every history of up to six revisions.                *)

MCHistories == UNION {[1..n -> Verdict] : n \in 1..6}

RestBisect ==
    /\ history = <<"good">> /\ low = 0 /\ high = 0 /\ firstBad = None
    /\ probes = {} /\ previousGood = None /\ bisect = "search"

(* ReproMinimizer: lists and dicts of up to three strings, with no limit   *)
(* and with limits of none and two steps.                                  *)

MCRepros == {[kind |-> "list", value |-> <<<<"a", "b">>, <<"a">>, <<"c">>>>],
             [kind |-> "dict", value |-> <<<<"a", "b">>, <<"c">>>>],
             [kind |-> "list", value |-> <<<<"a", "b", "c", "d">>>>],
             [kind |-> "list", value |-> <<<<"c">>>>]}

RestRepro ==
    /\ repro = [kind |-> "list", value |-> <<<<"c">>>>] /\ limit = NoLimit
    /\ current = repro.value /\ known = << >> /\ todo = {}
    /\ accepted = 0 /\ hitLimit = FALSE /\ shrink = "start"

(* PackClosure: diamonds, conflicts, cycles, missing packs, and a later    *)
(* registry in which a pack of the same digest has other dependencies.     *)

Pack(n, v) == [name |-> n, version |-> v]
Entry(d, s) == [digest |-> d, needs |-> s]
MCPublished == {Pack("a", 1), Pack("a", 2), Pack("b", 1), Pack("c", 1)}
MCNeeds == {<< >>, <<Pack("b", 1)>>, <<Pack("b", 1), Pack("c", 1)>>,
            <<Pack("c", 1), Pack("b", 1)>>, <<Pack("a", 2), Pack("b", 1)>>,
            <<Pack("c", 1), Pack("a", 2)>>}
MCRegistries == UNION {[K -> {Entry(1, s) : s \in MCNeeds}] :
                         K \in {MCPublished, MCPublished \ {Pack("c", 1)}}}
                \cup {Pack("b", 1) :> Entry(1, << >>)}
MCLater == [MCPublished -> {Entry(1, << >>), Entry(1, <<Pack("b", 1)>>), Entry(2, <<Pack("c", 1)>>)}]

RestClosure ==
    /\ registry = (Pack("b", 1) :> Entry(1, << >>)) /\ root = Pack("b", 1)
    /\ visits = <<[pack |-> root, rest |-> <<root>>]>> /\ onStack = {} /\ chosen = << >>
    /\ resolved = {} /\ problems = {} /\ lockfile = << >> /\ closure = "visit"

(* GrammarEmptiness: schemas of one or two words of up to three symbols,   *)
(* one longer than the depth, and every tokenizer of these words.          *)

MCWords == {<<"k">>, <<"o", "k">>, <<"k", "o">>, <<"o", "o", "k">>}
MCSchemas == {[supported |-> TRUE, words |-> s] : s \in UNION {[1..n -> MCWords] : n \in 1..2}}
             \cup {[supported |-> FALSE, words |-> <<<<"k">>>>]}
MCTokenizers == {t \in [MCWords -> MCWords \cup {<< >>}] : t[<<"k">>] \in {<< >>, <<"k">>}}

RestEmptiness ==
    /\ schema = [supported |-> FALSE, words |-> <<<<"k">>>>]
    /\ tokenizer = [w \in MCWords |-> w]
    /\ language = {} /\ prefixes = {} /\ candidates = << >> /\ rejected = {}
    /\ emptiness = "compile"

(* BudgetTruncation: prompts of three and four segments that leave 4       *)
(* tokens, under every strategy with and without what it can preserve; a   *)
(* name may be that of several segments, of which one need not survive.    *)

Segment(n, r, t, q) == [name |-> n, role |-> r, tokens |-> t, required |-> q]
MCSegments == {Segment("rules", "system", 1, TRUE), Segment("note", "user", 1, FALSE),
               Segment("text", "user", 3, FALSE), Segment("history", "user", 2, TRUE),
               Segment("history", "user", 1, FALSE), Segment("search", "tool", 1, TRUE),
               Segment("text", "tool", 4, FALSE)}
MCPrompts == UNION {[1..n -> MCSegments] : n \in 3..4} \cup
             {<<Segment("note", "user", Unknown, FALSE), Segment("history", "user", 2, TRUE)>>}

Policy(s, y, t, r, u) ==
    [strategy |-> s, system |-> y, tools |-> t, roles |-> r, supported |-> u]
MCPolicies == {
    Policy("none", TRUE, FALSE, << >>, TRUE), Policy("left", FALSE, FALSE, << >>, TRUE),
    Policy("left", TRUE, TRUE, << >>, TRUE), Policy("left", FALSE, FALSE, << >>, FALSE),
    Policy("oldest-message", FALSE, FALSE, << >>, TRUE), Policy("right", FALSE, FALSE, << >>, TRUE),
    Policy("right", TRUE, FALSE, << >>, TRUE), Policy("middle", FALSE, FALSE, << >>, TRUE),
    Policy("priority", FALSE, FALSE, <<"tool", "user">>, TRUE),
    Policy("priority", TRUE, FALSE, << >>, TRUE), Policy("priority", FALSE, FALSE, <<"user">>, TRUE)}

RestBudget ==
    /\ prompt = << >> /\ policy = Policy("none", TRUE, FALSE, << >>, TRUE)
    /\ lost = {} /\ sample = {} /\ looked = {} /\ survival = "truncate"

(* AutomatonMinimize and IntersectionSearch: partial and total automata of *)
(* two states, and some of three and four: a state that differs from the   *)
(* others after three symbols, words that loop, a long word beside a short *)
(* one.                                                                    *)

Automaton(S, acc, st) == [states |-> S, start |-> 1, accepts |-> acc, step |-> st]
Moves(S) == S \X {"a", "b"}
MCAutomata ==
    UNION {{Automaton({1, 2}, acc, st) : acc \in SUBSET {1, 2}, st \in [K -> {1, 2}]} :
             K \in SUBSET Moves({1, 2})} \cup
    {Automaton({1, 2, 3}, {3}, st) : st \in [Moves({1, 2, 3}) -> {2, 3}]} \cup
    {Automaton({1, 2, 3, 4}, {x},
        [m \in Moves({1, 2, 3, 4}) |-> IF m[2] = "b" THEN z ELSE IF m[1] = 4 THEN y ELSE m[1] + 1]) :
       x \in {1, 4}, y \in {1, 4}, z \in {1, 2}}
MCOperands ==
    {Automaton({1, 2}, acc, st) : acc \in {{1}, {2}, {}}, st \in
        UNION {[K -> {1, 2}] : K \in {Moves({1, 2}), {<<1, "a">>, <<2, "b">>},
                                      {<<1, "a">>, <<1, "b">>, <<2, "a">>}}}} \cup
    {Automaton({1, 2, 3}, {3}, <<1, "a">> :> 2 @@ <<2, "a">> :> 3 @@ <<3, "b">> :> x) : x \in {1, 2}} \cup
    {Automaton(1..5, {4}, <<1, "a">> :> 2 @@ <<2, "a">> :> 4 @@
                          <<1, "b">> :> 3 @@ <<3, "b">> :> 5 @@ <<5, "b">> :> 4)}

RestMinimize ==
    /\ dfa = Automaton({1, 2}, {}, << >>) /\ reached = {1} /\ toVisit = {1}
    /\ blocks = {} /\ minimizing = "reach"

RestSearch ==
    /\ left = Automaton({1, 2}, {}, << >>) /\ right = left /\ maxDepth = NoDepth
    /\ pending = {<<1, 1>>} /\ word = (<<1, 1>> :> << >>) /\ meeting = <<1, 1>>
    /\ search = "search"

(* StreamingParser: texts of up to six characters in two chunks, and two   *)
(* literals that can overlap themselves or hold a quote.                   *)

InString == {"x", Quote, Backslash, Open, Close}
MCTexts == {<<Open, Quote>> \o s : s \in [1..4 -> InString]} \cup
           UNION {[1..n -> InString \cup {Blank}] : n \in 0..4}
Halved(s) == LET n == Len(s) \div 2 IN <<SubSeq(s, 1, n), SubSeq(s, n + 1, Len(s))>>
MCStreams == {Halved(s) : s \in MCTexts}
MCLiterals == {<<"x", "x">>, <<"x", Quote>>}

RestStream ==
    /\ stream = << >> /\ literal = <<"x", "x">> /\ chunk = 1 /\ offset = 0
    /\ events = << >> /\ trace = <<StartState>> /\ matched = 0 /\ flagged = {}
    /\ parsing = "feed"

-----------------------------------------------------------------------------
VARIABLE tool

allVars == <<tool, vars, cvars, bisectVars, reproVars, closureVars, emptinessVars,
             budgetVars, minimizeVars, searchVars, streamVars>>

Tools == {"affected", "cache", "bisect", "repro", "closure", "emptiness", "budget", "minimize",
          "search", "stream"}

\* One of the algorithms starts.
ToolsInit ==
    /\ tool \in Tools
    /\ IF tool = "affected" THEN Init ELSE RestAffected
    /\ MemoInit
    /\ IF tool = "bisect" THEN BisectInit ELSE RestBisect
    /\ IF tool = "repro" THEN ReproInit ELSE RestRepro
    /\ IF tool = "closure" THEN ClosureInit ELSE RestClosure
    /\ IF tool = "emptiness" THEN EmptinessInit ELSE RestEmptiness
    /\ IF tool = "budget" THEN BudgetInit ELSE RestBudget
    /\ IF tool = "minimize" THEN MinimizeInit ELSE RestMinimize
    /\ IF tool = "search" THEN SearchInit ELSE RestSearch
    /\ IF tool = "stream" THEN StreamInit ELSE RestStream

\* A step of that algorithm alone.
OnlyAffected == /\ tool = "affected"
                /\ UNCHANGED <<tool, cvars, bisectVars, reproVars, closureVars, emptinessVars,
                              budgetVars, minimizeVars, searchVars, streamVars>>
OnlyCache == /\ tool = "cache"
             /\ UNCHANGED <<tool, vars, bisectVars, reproVars, closureVars, emptinessVars,
                           budgetVars, minimizeVars, searchVars, streamVars>>
OnlyBisect == /\ tool = "bisect"
              /\ UNCHANGED <<tool, vars, cvars, reproVars, closureVars, emptinessVars,
                            budgetVars, minimizeVars, searchVars, streamVars>>
OnlyRepro == /\ tool = "repro"
             /\ UNCHANGED <<tool, vars, cvars, bisectVars, closureVars, emptinessVars,
                           budgetVars, minimizeVars, searchVars, streamVars>>
OnlyClosure == /\ tool = "closure"
               /\ UNCHANGED <<tool, vars, cvars, bisectVars, reproVars, emptinessVars,
                             budgetVars, minimizeVars, searchVars, streamVars>>
OnlyEmptiness == /\ tool = "emptiness"
                 /\ UNCHANGED <<tool, vars, cvars, bisectVars, reproVars, closureVars,
                               budgetVars, minimizeVars, searchVars, streamVars>>
OnlyBudget == /\ tool = "budget"
              /\ UNCHANGED <<tool, vars, cvars, bisectVars, reproVars, closureVars,
                            emptinessVars, minimizeVars, searchVars, streamVars>>
OnlyMinimize == /\ tool = "minimize"
                /\ UNCHANGED <<tool, vars, cvars, bisectVars, reproVars, closureVars,
                              emptinessVars, budgetVars, searchVars, streamVars>>
OnlySearch == /\ tool = "search"
              /\ UNCHANGED <<tool, vars, cvars, bisectVars, reproVars, closureVars,
                            emptinessVars, budgetVars, minimizeVars, streamVars>>
OnlyStream == /\ tool = "stream"
              /\ UNCHANGED <<tool, vars, cvars, bisectVars, reproVars, closureVars,
                            emptinessVars, budgetVars, minimizeVars, searchVars>>

\* A step of the algorithm, or of a thread that is in a call of the cache.
Progress ==
    \/ OnlyAffected /\ Loop
    \/ OnlyCache /\ \E t \in Threads : Step(t)
    \/ OnlyBisect /\ Bisecting
    \/ OnlyRepro /\ Shrinking
    \/ OnlyClosure /\ Resolving
    \/ OnlyEmptiness /\ Emptying
    \/ OnlyBudget /\ Surviving
    \/ OnlyMinimize /\ Minimizing
    \/ OnlySearch /\ Searching
    \/ OnlyStream /\ Streaming

Over ==
    CASE tool = "affected" -> pc = "done"
      [] tool = "cache" -> \A t \in Threads : want[t] = NoKey
      [] tool = "bisect" -> bisect # "search"
      [] tool = "repro" -> shrink \in {"done", "raised"}
      [] tool = "closure" -> closure # "visit"
      [] tool = "emptiness" -> emptiness \in Statuses
      [] tool = "budget" -> survival \in {"proven", "abstained", "violated"}
      [] tool = "minimize" -> minimizing = "done"
      [] tool = "search" -> search # "search"
      [] tool = "stream" -> parsing # "feed"

ToolsNext ==
    \/ Progress
    \/ OnlyCache /\ MemoNext
    \/ Over /\ UNCHANGED allVars

\* What runs keeps running.  The calls and the nested asks of the cache are
\* bounded, so that no thread can be passed over for good.
ToolsSpec == ToolsInit /\ [][ToolsNext]_allVars /\ WF_allVars(Progress)

-----------------------------------------------------------------------------
\* Each algorithm ends on every input: the closure on cyclic tables, the
\* bisection on histories nobody can order, the search on automata with loops
\* and without a bound, the shrinking whatever its predicate says; and every
\* call of the cache returns or raises, nested calls included.
AlgorithmsEnd == []<>Over
=============================================================================
