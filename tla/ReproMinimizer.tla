---------------------------- MODULE ReproMinimizer ----------------------------
(***************************************************************************)
(* minimize_repro of minimization.py: a failing repro is shrunk as long as *)
(* a smaller candidate still fails, with a cache of the predicate's        *)
(* answers and a bound on the accepted steps.                              *)
(*                                                                         *)
(* A repro is a list or a dict of strings, a string a sequence of          *)
(* characters; the keys of a dict stand for its positions.  Any predicate  *)
(* is considered: its answer on a value is chosen when it is first asked   *)
(* and kept by the cache, so a flaky one is covered too.                   *)
(***************************************************************************)
EXTENDS Naturals, Sequences

CONSTANTS
    Chars,          \* characters
    Repros,         \* the repros considered
    Limits,         \* max_steps
    NoLimit         \* max_steps is None

ReproKinds == {"list", "dict"}
Repro == [kind : ReproKinds, value : Seq(Seq(Chars) \ {<< >>}) \ {<< >>}]

ASSUME ReproAssumption ==
    /\ Repros \subseteq Repro
    /\ Limits \subseteq Nat
    /\ NoLimit \notin Nat

VARIABLES
    repro,          \* input
    limit,          \* input: max_steps
    current,        \* the smallest repro accepted so far
    known,          \* answers of the predicate in the cache
    todo,           \* candidates of the current one not tried yet
    accepted,       \* steps accepted, counted when there is a limit
    hitLimit,       \* hit_step_limit
    shrink          \* "start", "loop", "try", "check", "done" or "raised"

reproVars == <<repro, limit, current, known, todo, accepted, hitLimit, shrink>>

-----------------------------------------------------------------------------
(* _candidate_values. *)

\* Mutant of ChunkSizes: single elements are not removed.
ChunkSizesCoarse(n) == {c \in 2..n : \E k \in 1..n : c = n \div (2 ^ k)}

\* Half the length, a quarter and so on down to 1.
ChunkSizes(n) == {1} \cup {c \in 1..n : \E k \in 1..n : c = n \div (2 ^ k)}

Cut(s, start, c) == SubSeq(s, 1, start) \o SubSeq(s, start + c + 1, Len(s))

\* The starts of the chunks of size c.
Starts(s, c) == {d \in 0..(Len(s) - 1) : d % c = 0}

\* s without one of its chunks, unless nothing is left.
Chunked(s) ==
    (UNION {{Cut(s, d, c) : d \in Starts(s, c)} : c \in ChunkSizes(Len(s))}) \ {<< >>}

\* The list without a chunk, or with a chunk of one string removed; a dict with
\* one key has no candidates.
Candidates(v) ==
    IF repro.kind = "dict" /\ Len(v) = 1 THEN {}
    ELSE Chunked(v) \cup UNION {{[v EXCEPT ![i] = s] : s \in Chunked(v[i])} : i \in DOMAIN v}

\* _json_size, up to the keys of a dict.
Size(v) ==
    LET upTo[n \in 0..Len(v)] == IF n = 0 THEN 2 ELSE upTo[n - 1] + Len(v[n]) + 3
    IN  upTo[Len(v)]

-----------------------------------------------------------------------------
Asked(v) == v \in DOMAIN known

\* The predicate says r of v; the cache remembers it.
Evaluate(v, r) ==
    /\ Asked(v) => r = known[v]
    /\ known' = [w \in DOMAIN known \cup {v} |-> IF w = v THEN r ELSE known[w]]

ReproInit ==
    /\ repro \in Repros
    /\ limit \in Limits \cup {NoLimit}
    /\ current = repro.value
    /\ known = << >>
    /\ todo = {}
    /\ accepted = 0
    /\ hitLimit = FALSE
    /\ shrink = "start"

\* The original must fail.
AskOriginal ==
    /\ shrink = "start"
    /\ \E r \in BOOLEAN : /\ Evaluate(current, r)
                          /\ shrink' = IF r THEN "loop" ELSE "raised"
    /\ UNCHANGED <<repro, limit, current, todo, accepted, hitLimit>>

CanAccept == limit # NoLimit => accepted < limit

Generate ==
    /\ shrink = "loop" /\ CanAccept
    /\ todo' = Candidates(current)
    /\ shrink' = "try"
    /\ UNCHANGED <<repro, limit, current, known, accepted, hitLimit>>

StepLimit ==
    /\ shrink = "loop" /\ ~CanAccept
    /\ hitLimit' = TRUE
    /\ shrink' = "check"
    /\ UNCHANGED <<repro, limit, current, known, todo, accepted>>

\* Candidates are tried by size.
Smallest(c) == c \in todo /\ \A d \in todo : Size(c) <= Size(d)

Accept(c) ==
    /\ current' = c
    /\ accepted' = IF limit = NoLimit THEN accepted ELSE accepted + 1
    /\ todo' = {}
    /\ shrink' = "loop"

\* Mutant of Try: a candidate is cut out of the current repro in place.
TryInPlace(c) ==
    /\ shrink = "try"
    /\ Smallest(c)
    /\ \E r \in BOOLEAN :
         /\ Evaluate(c, r)
         /\ IF r THEN Accept(c)
            ELSE todo' = todo \ {c} /\ current' = c /\ UNCHANGED <<accepted, shrink>>
    /\ UNCHANGED <<repro, limit, hitLimit>>

Try(c) ==
    /\ shrink = "try"
    /\ Smallest(c)
    /\ \E r \in BOOLEAN :
         /\ Evaluate(c, r)
         /\ IF r THEN Accept(c)
            ELSE todo' = todo \ {c} /\ UNCHANGED <<current, accepted, shrink>>
    /\ UNCHANGED <<repro, limit, hitLimit>>

Exhausted ==
    /\ shrink = "try" /\ todo = {}
    /\ shrink' = "check"
    /\ UNCHANGED <<repro, limit, current, known, todo, accepted, hitLimit>>

\* The result is asked about once more, from the cache.
Check ==
    /\ shrink = "check"
    /\ \E r \in BOOLEAN : /\ Evaluate(current, r)
                          /\ shrink' = IF r THEN "done" ELSE "raised"
    /\ UNCHANGED <<repro, limit, current, todo, accepted, hitLimit>>

Shrinking ==
    \/ AskOriginal \/ Generate \/ StepLimit \/ Exhausted \/ Check
    \/ \E c \in todo : Try(c)
ReproEnded == shrink \in {"done", "raised"} /\ UNCHANGED reproVars

ReproNext == Shrinking \/ ReproEnded

ReproSpec == ReproInit /\ [][ReproNext]_reproVars

-----------------------------------------------------------------------------
(* Properties *)

\* The repro handed out was seen to fail, also when the step limit cut the loop
\* short; only an original that does not fail is refused.
StillFails ==
    /\ shrink = "done" => Asked(current) /\ known[current]
    /\ shrink = "raised" => current = repro.value /\ ~known[current]

\* v without one element, or without one character of one of its strings.
OneLess(v) ==
    ({Cut(v, d, 1) : d \in 0..(Len(v) - 1)} \ {<< >>}) \cup
    UNION {{[v EXCEPT ![i] = s] : s \in {Cut(v[i], d, 1) : d \in 0..(Len(v[i]) - 1)} \ {<< >>}}
            : i \in DOMAIN v}

\* Unless the limit was hit, removing any single element or character makes the
\* failure go away: a result is minimal even though chunks are removed and the
\* answers of earlier rounds are reused.  (A dict with one key is left as it is.)
OneMinimal ==
    shrink = "done" /\ ~hitLimit /\ ~(repro.kind = "dict" /\ Len(current) = 1) =>
        \A w \in OneLess(current) : Asked(w) /\ ~known[w]

\* The step limit bounds the accepted steps, and is reported exactly when it was
\* reached.
WithinLimit ==
    /\ limit # NoLimit => accepted <= limit
    /\ hitLimit => limit # NoLimit /\ accepted = limit

=============================================================================
