--------------------------- MODULE DependencyCut ---------------------------
(***************************************************************************)
(* What the incremental planner and its certificate say about a dependency *)
(* table: _affected_checks and incremental_cache_certificate of            *)
(* incremental.py.                                                         *)
(*                                                                         *)
(* A table is what session.check_dependencies holds: the checks that have  *)
(* an entry, the artifact kinds each declares, and the checks it runs      *)
(* after.  A check without an entry reads as the empty dependency.         *)
(***************************************************************************)

\* The dependency tables over some check names and artifact kinds.
DependencyTable(Names, Kinds) ==
    {T \in [known : SUBSET Names,
            kinds : [Names -> SUBSET Kinds],
            after : [Names -> SUBSET Names]] :
        \A n \in Names \ T.known : T.kinds[n] = {} /\ T.after[n] = {}}

\* The checks selected for themselves: they declare a kind that changed, or one
\* of which some loaded artifact is remote.
Seeds(T, requested, changedKinds, remoteKinds) ==
    {c \in requested : T.kinds[c] \cap (changedKinds \cup remoteKinds) # {}}

\* c is selected because a check it runs after is.
Follows(T, c, selected) == T.after[c] \cap selected # {}

\* A selection that needs no further check: it has the dependents of its
\* members, and their prerequisites as far as they are requested.
CutClosed(T, requested, selected) ==
    \A c \in requested :
        /\ Follows(T, c, selected) => c \in selected
        /\ c \in selected => T.after[c] \cap requested \subseteq selected

\* The checks every closed selection that holds the seeds must have.
Affected(T, requested, changedKinds, remoteKinds) ==
    {c \in requested : \A S \in SUBSET requested :
        /\ Seeds(T, requested, changedKinds, remoteKinds) \subseteq S
        /\ CutClosed(T, requested, S)
        => c \in S}

\* The obligations of the certificate that speak of the plan: the check is
\* requested and skipped, has an entry that declares kinds, none of them changed
\* or remote, and no check it runs after, or that runs after it, is selected.
CutProved(T, requested, selected, changedKinds, remoteKinds, c) ==
    /\ c \in requested \ selected
    /\ c \in T.known
    /\ T.kinds[c] # {}
    /\ T.kinds[c] \cap changedKinds = {}
    /\ T.kinds[c] \cap remoteKinds = {}
    /\ T.after[c] \cap selected = {}
    /\ \A s \in selected : c \notin T.after[s]

============================================================================
