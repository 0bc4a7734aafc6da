--------------------------- MODULE MCIncremental ---------------------------
(***************************************************************************)
(* Instances of IncrementalVerification: checks of the first-party         *)
(* registry, with the kinds CHECK_DEPENDENCIES declares for them and the   *)
(* artifacts their callables look at.                                      *)
(***************************************************************************)
EXTENDS IncrementalVerification, TLC

CONSTANTS
    roleBoundary,   \* role-boundary-nonforgeability
    ragChunking,    \* rag-chunking-compatibility
    tokenBudget,    \* token-budget-model
    packing,        \* training-packing
    enterprise,     \* enterprise-readiness, which declares no kinds
    template, segments, tools, tokenizer, manifest

\* The part of CHECK_DEPENDENCIES that concerns some checks.
MCTable ==
    [known |-> Checks,
     kinds |-> [c \in Checks |->
         CASE c = roleBoundary -> {"chat_template"} \cap Kinds
           [] c \in {ragChunking, tokenBudget} -> {"prompt_segment", "tokenizer"} \cap Kinds
           [] c = packing -> {"training_manifest"} \cap Kinds
           [] c = enterprise -> {}],
     after |-> [c \in Checks |->
         IF c = ragChunking THEN {tokenBudget} \cap Checks ELSE {}]]

MCKindOf == [a \in Artifacts |->
    CASE a = template -> "chat_template"
      [] a = segments -> "prompt_segment"
      [] a = tools -> "tool_definition"
      [] a = tokenizer -> "tokenizer"
      [] a = manifest -> "training_manifest"]

\* JSON documents.
MCTwice == Artifacts \cap {segments, tools, manifest}

\* The artifacts each callable looks at.  The budget analysis of the rag and
\* budget checks takes tool definitions into account (budgets.py).
MCReads == [c \in Checks |-> Artifacts \cap
    CASE c = roleBoundary -> {template}
      [] c = ragChunking -> {segments, tools, tokenizer}
      [] c = tokenBudget -> {segments, tokenizer}
      [] c = packing -> {manifest}
      [] c = enterprise -> {}]

\* Those it opens again: the template is parsed anew, the tokenizer is loaded.
MCRereads == [c \in Checks |-> MCReads[c] \cap {template, tokenizer}]

\* No path, or one.
MCChanges == {P \in SUBSET Paths : Cardinality(P) <= 1}

\* Runs are alike, and so are the contents of a file.
Symmetric == Permutations(Runs) \cup Permutations(Contents)
=============================================================================
