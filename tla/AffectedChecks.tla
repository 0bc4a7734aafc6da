--------------------------- MODULE AffectedChecks ---------------------------
(***************************************************************************)
(* _affected_checks of incremental.py: the loop that closes the set of     *)
(* affected checks under dependents and prerequisites.                     *)
(***************************************************************************)
EXTENDS DependencyCut, Naturals, Sequences

CONSTANTS
    Names,          \* check names
    Kinds,          \* artifact kinds
    Tables,         \* the dependency tables considered
    Requests        \* the requests considered: sequences of distinct names

ASSUME AffectedAssumption ==
    /\ Tables \subseteq DependencyTable(Names, Kinds)
    /\ Requests \subseteq {s \in Seq(Names) :
                              \A i, j \in DOMAIN s : s[i] = s[j] => i = j}

VARIABLES
    table,          \* input: session.check_dependencies
    request,        \* input: session.config.checks
    changedKinds,   \* input: kinds of the changed artifacts
    remoteKinds,    \* input: kinds of the loaded artifacts that have a uri
    pc,             \* "sweep" inside the while loop, "done" after it
    index,          \* position of the for loop
    changed,        \* this sweep selected a check
    selected        \* checks selected so far

vars == <<table, request, changedKinds, remoteKinds, pc, index, changed, selected>>
inputs == <<table, request, changedKinds, remoteKinds>>

Requested == {request[i] : i \in DOMAIN request}
Seeded == Seeds(table, Requested, changedKinds, remoteKinds)

\* The first loop selects the seeds; the while loop is entered once anyway.
Init ==
    /\ table \in Tables
    /\ request \in Requests
    /\ changedKinds \in SUBSET Kinds
    /\ remoteKinds \in SUBSET Kinds
    /\ selected = Seeded
    /\ pc = "sweep"
    /\ index = 1
    /\ changed = FALSE

\* Mutants of Visited: dependents only; prerequisites only.
DependentsOnly(c) == selected \cup IF Follows(table, c, selected) THEN {c} ELSE {}
PrerequisitesOnly(c) ==
    selected \cup IF c \in selected THEN table.after[c] \cap Requested ELSE {}

\* The selection after the body of the for loop has looked at c: c joins when a
\* check it runs after is selected, and then draws its prerequisites in.
Visited(c) ==
    IF Follows(table, c, selected) \/ c \in selected
    THEN selected \cup {c} \cup (table.after[c] \cap Requested)
    ELSE selected

Visit ==
    /\ pc = "sweep"
    /\ index \in DOMAIN request
    /\ selected' = Visited(request[index])
    /\ changed' = (changed \/ selected' # selected)
    /\ index' = index + 1
    /\ UNCHANGED <<inputs, pc>>

\* Mutant of SweepAgain: changed is not reset when a sweep starts.
SweepStale ==
    /\ pc = "sweep"
    /\ index > Len(request)
    /\ changed
    /\ index' = 1
    /\ UNCHANGED <<inputs, pc, changed, selected>>

SweepAgain ==
    /\ pc = "sweep"
    /\ index > Len(request)
    /\ changed
    /\ index' = 1
    /\ changed' = FALSE
    /\ UNCHANGED <<inputs, pc, selected>>

Finish ==
    /\ pc = "sweep"
    /\ index > Len(request)
    /\ ~changed
    /\ pc' = "done"
    /\ UNCHANGED <<inputs, index, changed, selected>>

Ended == pc = "done" /\ UNCHANGED vars

Loop == Visit \/ SweepAgain \/ Finish
Next == Loop \/ Ended

Spec == Init /\ [][Next]_vars

-----------------------------------------------------------------------------
(* Properties *)

\* Every variable holds a value of its kind, and only requested checks are
\* selected.
TypeOK ==
    /\ table \in DependencyTable(Names, Kinds)
    /\ request \in Seq(Names)
    /\ changedKinds \subseteq Kinds
    /\ remoteKinds \subseteq Kinds
    /\ pc \in {"sweep", "done"}
    /\ index \in 1..(Len(request) + 1)
    /\ changed \in BOOLEAN
    /\ selected \subseteq Requested

\* The loop computes the least selection that holds the seeds and is closed
\* under requested dependents and prerequisites, in whatever order the request
\* lists the checks and whatever cycles the table has.
LeastCut ==
    pc = "done" => selected = Affected(table, Requested, changedKinds, remoteKinds)

\* The planner and the certificate, two pieces of code over the same table,
\* agree: each check the plan skips either passes every obligation on the plan
\* or has no declared kinds to judge by.
PlanCertified ==
    pc = "done" => \A c \in Requested \ selected :
        table.kinds[c] # {} =>
            CutProved(table, Requested, selected, changedKinds, remoteKinds, c)

=============================================================================
