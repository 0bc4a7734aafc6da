-------------------------- MODULE ArtifactBisection --------------------------
(***************************************************************************)
(* bisect_artifact_drift of artifact_bisection.py: the search for the      *)
(* first revision of an artifact that drifted from the baseline.           *)
(*                                                                         *)
(* A probe compares a revision with the baseline; it is remembered, and    *)
(* raises when a file cannot be read.  Revisions count from 0, and the     *)
(* baseline stands before them.  The search assumes that a revision after  *)
(* a bad one is bad; nothing checks that.                                  *)
(***************************************************************************)
EXTENDS Integers, Sequences, FiniteSets

CONSTANT
    Histories       \* what a comparison says of each revision, in order

Verdict == {"good", "bad", "unreadable"}

ASSUME HistoryAssumption == Histories \subseteq Seq(Verdict) \ {<< >>}

VARIABLES
    history,        \* input
    low, high,      \* the revisions still searched
    firstBad,       \* first_bad_index, or None
    probes,         \* revisions compared so far
    previousGood,   \* the revision reported as the last good one
    bisect          \* "search", "done" or "raised"

bisectVars == <<history, low, high, firstBad, probes, previousGood, bisect>>

None == -1
Baseline == -1
Newest == Len(history) - 1
Says(i, v) == history[i + 1] = v
Middle == (low + high) \div 2

BisectInit ==
    /\ history \in Histories
    /\ low = 0
    /\ high = Newest
    /\ firstBad = None
    /\ probes = {}
    /\ previousGood = None
    /\ bisect = "search"

Probing == bisect = "search" /\ low <= high

\* The comparison of the middle revision fails: so does the search.
ProbeRaises ==
    /\ Probing
    /\ Says(Middle, "unreadable")
    /\ bisect' = "raised"
    /\ UNCHANGED <<history, low, high, firstBad, probes, previousGood>>

\* Mutant of ProbeBad: the search goes on above.
ProbeBadAbove ==
    /\ Probing
    /\ Says(Middle, "bad")
    /\ probes' = probes \cup {Middle}
    /\ firstBad' = Middle
    /\ low' = Middle + 1
    /\ UNCHANGED <<history, high, previousGood, bisect>>

ProbeBad ==
    /\ Probing
    /\ Says(Middle, "bad")
    /\ probes' = probes \cup {Middle}
    /\ firstBad' = Middle
    /\ high' = Middle - 1
    /\ UNCHANGED <<history, low, previousGood, bisect>>

\* Mutant of ProbeGood: one revision more is skipped.
ProbeGoodSkips ==
    /\ Probing
    /\ Says(Middle, "good")
    /\ probes' = probes \cup {Middle}
    /\ low' = Middle + 2
    /\ UNCHANGED <<history, high, firstBad, previousGood, bisect>>

ProbeGood ==
    /\ Probing
    /\ Says(Middle, "good")
    /\ probes' = probes \cup {Middle}
    /\ low' = Middle + 1
    /\ UNCHANGED <<history, high, firstBad, previousGood, bisect>>

\* The revision the report calls good, and whether it still has to be compared.
Good == IF firstBad = None THEN Newest ELSE firstBad - 1
Unprobed == Good # Baseline /\ Good \notin probes

Report ==
    /\ bisect = "search" /\ low > high
    /\ IF Unprobed /\ Says(Good, "unreadable")
       THEN bisect' = "raised" /\ UNCHANGED <<probes, previousGood>>
       ELSE /\ probes' = IF Unprobed THEN probes \cup {Good} ELSE probes
            /\ previousGood' = Good
            /\ bisect' = "done"
    /\ UNCHANGED <<history, low, high, firstBad>>

Bisecting == ProbeRaises \/ ProbeBad \/ ProbeGood \/ Report
BisectEnded == bisect # "search" /\ UNCHANGED bisectVars

BisectNext == Bisecting \/ BisectEnded

BisectSpec == BisectInit /\ [][BisectNext]_bisectVars

-----------------------------------------------------------------------------
(* Properties *)

BisectTypeOK ==
    /\ history \in Seq(Verdict) \ {<< >>}
    /\ low \in 0..Len(history)
    /\ high \in -1..Newest
    /\ firstBad \in -1..Newest
    /\ probes \subseteq 0..Newest
    /\ previousGood \in -1..Newest
    /\ bisect \in {"search", "done", "raised"}

\* The two revisions a report names were both compared and are neighbours, the
\* first good and the second bad, although nothing makes the history monotone;
\* when it names none, the newest revision is good.
RealTransition ==
    bisect = "done" =>
        /\ firstBad # None =>
             /\ firstBad \in probes /\ Says(firstBad, "bad")
             /\ previousGood = firstBad - 1
        /\ firstBad = None => previousGood = Newest
        /\ previousGood # Baseline => previousGood \in probes /\ Says(previousGood, "good")

Monotone ==
    \A i, j \in 0..Newest : i < j /\ Says(i, "bad") => Says(j, "bad")

\* On a history that stays bad the search finds the first bad revision, or none
\* only if there is none, past revisions nobody can read.
FirstOfMonotone ==
    bisect = "done" /\ Monotone =>
        /\ firstBad # None => \A i \in 0..(firstBad - 1) : ~Says(i, "bad")
        /\ firstBad = None => \A i \in 0..Newest : ~Says(i, "bad")

=============================================================================
