----------------------------- MODULE MCSessionRun -----------------------------
(***************************************************************************)
(* Sessions of up to four checks.  Those of the first-party registry have  *)
(* the entries of CHECK_DEPENDENCIES and ask the cache for the products    *)
(* their callables ask for; plugin checks a, b and c ask for none and      *)
(* have every graph of prerequisites.                                      *)
(***************************************************************************)
EXTENDS SessionRun, TLC

PluginNames == {"a", "b", "c"}

\* static-contracts, stop-tokenizer-analysis, grammar-tokenizer-ambiguity,
\* token-budget-model, rag-chunking-compatibility
FirstParty == {"static", "stop", "ambiguity", "budget", "rag"}

MCNames == PluginNames \cup FirstParty

MCResources == {"r", "s", "z3-query", "tokenizer-adapter", "automata-product", "token-budget-report"}

OnPlugins(a, b, c) == "a" :> a @@ "b" :> b @@ "c" :> c

FirstPartyResources == [n \in FirstParty |->
    CASE n = "static" -> {"z3-query"}
      [] n = "stop" -> {"tokenizer-adapter"}
      [] n = "ambiguity" -> {"tokenizer-adapter", "automata-product"}
      [] n \in {"budget", "rag"} -> {"token-budget-report", "tokenizer-adapter"}]

FirstPartyAfter == [n \in FirstParty |-> IF n = "rag" THEN {"budget"} ELSE {}]

\* No conflict; one resource for all; a chain of conflicts; only one pair.
PluginResources == {OnPlugins({}, {}, {}), OnPlugins({"r"}, {"r"}, {"r"}),
                    OnPlugins({"r"}, {"r", "s"}, {"s"}), OnPlugins({}, {"r"}, {"r"})}

\* Every graph of prerequisites without self-loops, and one with a self-loop.
PluginAfter == {g \in [PluginNames -> SUBSET PluginNames] : \A n \in PluginNames : n \notin g[n]}
               \cup {OnPlugins({}, {"b"}, {"b"})}

MCRegistries == {[after |-> FirstPartyAfter @@ g, resources |-> FirstPartyResources @@ u] :
                    g \in PluginAfter, u \in PluginResources}

MCKeys == {"adapter", "report", "ambiguities", "contracts"}

MCUses == [n \in MCNames |->
    CASE n = "static" -> {"contracts"}
      [] n = "stop" -> {"adapter"}
      [] n = "ambiguity" -> {"adapter", "ambiguities"}
      [] n \in {"budget", "rag"} -> {"adapter", "report"}
      [] OTHER -> {}]

\* Requests of the first-party checks are sorted by the full name (config.py).
FirstPartyRequests == {<<"ambiguity", "static", "stop">>, <<"rag", "static", "budget">>,
                       <<"static", "stop", "budget">>, <<"ambiguity", "rag", "static", "budget">>}

\* Three checks, a repeated name before and after another check, and four
\* checks (more than MaxWorkers, so that the pool queues).
PluginRequests == {<<"a", "b", "c">>, <<"b", "a", "b">>, <<"c", "a", "b", "c">>}

MCRequests == FirstPartyRequests \cup PluginRequests

\* The table of the plugins is of no account to a first-party request.
Paired ==
    request \in FirstPartyRequests =>
        registry = [after |-> FirstPartyAfter @@ OnPlugins({}, {}, {}),
                    resources |-> FirstPartyResources @@ OnPlugins({}, {}, {})]

MCInit == SessionInit /\ Paired

MCSpec == MCInit /\ [][SessionNext]_svars /\ SessionFairness
=============================================================================
