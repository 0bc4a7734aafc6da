--------------------------- MODULE GrammarEmptiness ---------------------------
(***************************************************************************)
(* analyze_tokenizer_grammar_emptiness of grammar_emptiness.py: can a      *)
(* tokenizer produce a word that a grammar accepts?                        *)
(*                                                                         *)
(* A schema is compiled to the automaton of one sample word; the words of  *)
(* the automaton are enumerated breadth first, up to a depth and a number; *)
(* each is encoded and decoded, and has survived when the automaton        *)
(* accepts what comes back.  A schema stands for the words it allows, the  *)
(* compiler's sample first; a tokenizer for what encoding and decoding     *)
(* make of a word.                                                         *)
(***************************************************************************)
EXTENDS Naturals, Sequences, FiniteSets

CONSTANTS
    Symbols,
    Schemas,        \* the schemas considered
    Tokenizers,     \* the tokenizers considered: functions of words
    MaxDepth,       \* max_depth: symbols of an enumerated word
    MaxCandidates   \* max_candidates: words enumerated

Word == Seq(Symbols)

ASSUME GrammarAssumption ==
    /\ \A s \in Schemas : s.supported \in BOOLEAN /\ s.words \in Seq(Word) \ {<< >>}
    /\ \A t \in Tokenizers, s \in Schemas : \A i \in DOMAIN s.words :
         s.words[i] \in DOMAIN t /\ t[s.words[i]] \in Word
    /\ MaxDepth \in Nat
    /\ MaxCandidates \in Nat \ {0}

VARIABLES
    schema,         \* input: what it allows, and whether the compiler supports it
    tokenizer,      \* input
    language,       \* words of the compiled automaton
    prefixes,       \* the queue of the enumeration: the paths to follow
    candidates,     \* words enumerated, shortest first
    rejected,       \* candidates that did not survive
    emptiness       \* "compile", "enumerate", "try" or the status of the report

emptinessVars == <<schema, tokenizer, language, prefixes, candidates, rejected, emptiness>>

Statuses == {"satisfiable", "empty", "abstained"}

EmptinessInit ==
    /\ schema \in Schemas
    /\ tokenizer \in Tokenizers
    /\ language = {}
    /\ prefixes = {}
    /\ candidates = << >>
    /\ rejected = {}
    /\ emptiness = "compile"

\* compile_json_schema_mapping: the constant, the first of an enumeration or of
\* a union's variants, the smallest instance otherwise.
Sample == schema.words[1]

Compile ==
    /\ emptiness = "compile"
    /\ IF schema.supported
       THEN /\ language' = {Sample}
            /\ prefixes' = {<< >>}
            /\ emptiness' = "enumerate"
       ELSE emptiness' = "abstained" /\ UNCHANGED <<language, prefixes>>
    /\ UNCHANGED <<schema, tokenizer, candidates, rejected>>

IsPrefix(p, w) == Len(p) <= Len(w) /\ SubSeq(w, 1, Len(p)) = p

\* The paths of the trie one symbol longer than p.
Longer(p) == {q \in {Append(p, s) : s \in Symbols} : \E w \in language : IsPrefix(q, w)}

\* Mutant of Extended: one symbol less.
ExtendedLess(p) == IF Len(p) + 1 >= MaxDepth THEN {} ELSE Longer(p)

Extended(p) == IF Len(p) >= MaxDepth THEN {} ELSE Longer(p)

Enumerating == emptiness = "enumerate" /\ prefixes # {} /\ Len(candidates) < MaxCandidates

\* A shortest path leaves the queue; which of several is left open.
Follow(p) ==
    /\ Enumerating
    /\ \A q \in prefixes : Len(p) <= Len(q)
    /\ candidates' = IF p \in language THEN Append(candidates, p) ELSE candidates
    /\ prefixes' = (prefixes \ {p}) \cup Extended(p)
    /\ UNCHANGED <<schema, tokenizer, language, rejected, emptiness>>

\* No candidate means no accepting path to the code, whatever the bounds cut off.
Enumerated ==
    /\ emptiness = "enumerate" /\ ~Enumerating
    /\ emptiness' = IF candidates = << >> THEN "empty" ELSE "try"
    /\ UNCHANGED <<schema, tokenizer, language, prefixes, candidates, rejected>>

\* Mutant of Survives: the word that went in is looked at.
SurvivesAsIs(w) == w \in language

\* What decoding gives back is accepted by the automaton.
Survives(w) == tokenizer[w] \in language

TryCandidate ==
    /\ emptiness = "try" /\ candidates # << >>
    /\ candidates' = Tail(candidates)
    /\ IF Survives(Head(candidates))
       THEN emptiness' = "satisfiable" /\ UNCHANGED rejected
       ELSE rejected' = rejected \cup {Head(candidates)} /\ UNCHANGED emptiness
    /\ UNCHANGED <<schema, tokenizer, language, prefixes>>

NoneSurvived ==
    /\ emptiness = "try" /\ candidates = << >>
    /\ emptiness' = "empty"
    /\ UNCHANGED <<schema, tokenizer, language, prefixes, candidates, rejected>>

Emptying ==
    \/ Compile \/ Enumerated \/ TryCandidate \/ NoneSurvived
    \/ \E p \in prefixes : Follow(p)
EmptinessEnded == emptiness \in Statuses /\ UNCHANGED emptinessVars

EmptinessNext == Emptying \/ EmptinessEnded

EmptinessSpec == EmptinessInit /\ [][EmptinessNext]_emptinessVars

-----------------------------------------------------------------------------
(* Properties *)

Allowed == {schema.words[i] : i \in DOMAIN schema.words}

\* Both verdicts hold. A satisfiable report is right about the schema itself, not
\* only about the sample: some word of the schema comes back from the tokenizer as
\* a word of the schema. An empty report has tried every word of the automaton
\* within the depth, none of which survived: no word is lost at the boundary.
EmptinessSound ==
    /\ emptiness = "satisfiable" => \E w \in Allowed : tokenizer[w] \in Allowed
    /\ emptiness = "empty" =>
         \A w \in language : Len(w) <= MaxDepth => w \in rejected /\ tokenizer[w] \notin language

\* What grammar_emptiness.py promises: emptiness is proved over the finite
\* language of the compiler and the tokenizer, or the analysis abstains.
EmptyProved ==
    emptiness = "empty" => \A w \in language : tokenizer[w] \notin language

=============================================================================
