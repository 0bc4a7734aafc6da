----------------------------- MODULE PackClosure -----------------------------
(***************************************************************************)
(* resolve_transitive_closure and verify_transitive_lockfile of            *)
(* prompt_pack_registry.py: the dependencies of a prompt pack are visited  *)
(* depth first, one version of each name is chosen, and the packs met are  *)
(* pinned; the lockfile is verified later, against the registry as it is   *)
(* by then.                                                                *)
(*                                                                         *)
(* An entry is a digest, which the publisher states, and the dependencies  *)
(* of the pack in order.  The root digest is a hash of the pins: on a      *)
(* lockfile that resolution wrote it never differs, and is left out.       *)
(***************************************************************************)
EXTENDS Naturals, Sequences, FiniteSets

CONSTANTS
    Packs,          \* names of packs
    Versions,
    Digests,
    Registries,     \* the registries considered, as resolved against
    Later           \* the registries a lockfile is verified against

Key == [name : Packs, version : Versions]

ASSUME RegistryAssumption ==
    \A R \in Registries \cup Later :
        /\ DOMAIN R \subseteq Key
        /\ \A k \in DOMAIN R : R[k].digest \in Digests /\ R[k].needs \in Seq(Key)

VARIABLES
    registry,       \* input: entries by key
    root,           \* input: the pack to install
    visits,         \* calls of visit: what each still has to visit, innermost last
    onStack,        \* packs being visited
    chosen,         \* chosen_version, by name
    resolved,       \* packs whose dependencies were visited
    problems,       \* findings: <<kind, key>>
    lockfile,       \* the pins: digests by key
    closure         \* "visit", "locked" or "raised"

closureVars == <<registry, root, visits, onStack, chosen, resolved, problems, lockfile, closure>>

Published(k) == k \in DOMAIN registry

ClosureInit ==
    /\ registry \in Registries
    /\ root \in Key
    /\ visits = <<[pack |-> root, rest |-> <<root>>]>>
    /\ onStack = {}
    /\ chosen = << >>
    /\ resolved = {}
    /\ problems = {}
    /\ lockfile = << >>
    /\ closure = "visit"

Innermost == visits[Len(visits)]

\* visit is called with k; the first frame stands for the outer call.
Calls(k) ==
    /\ closure = "visit"
    /\ visits # << >>
    /\ Innermost.rest # << >>
    /\ k = Head(Innermost.rest)

Advanced == [visits EXCEPT ![Len(visits)].rest = Tail(@)]

Conflicting(k) == k.name \in DOMAIN chosen /\ chosen[k.name] # k.version

\* Mutant of Finding: packs that are being visited count as visited.
FindingAcyclic(k) ==
    IF Conflicting(k) THEN {<<"conflict", k>>}
    ELSE IF k \in resolved \cup onStack THEN {}
    ELSE IF ~Published(k) THEN {<<"missing", k>>} ELSE {}

\* The finding that ends a visit of k, in the order the code looks for one.
Finding(k) ==
    IF Conflicting(k) THEN {<<"conflict", k>>}
    ELSE IF k \in resolved THEN {}
    ELSE IF k \in onStack THEN {<<"cycle", k>>}
    ELSE IF ~Published(k) THEN {<<"missing", k>>} ELSE {}

\* visit returns at once, with a finding or because the pack was visited.
Return(k) ==
    /\ Calls(k)
    /\ Conflicting(k) \/ k \in resolved \cup onStack \/ ~Published(k)
    /\ visits' = Advanced
    /\ problems' = problems \cup Finding(k)
    /\ UNCHANGED <<registry, root, onStack, chosen, resolved, lockfile, closure>>

\* Mutant of DescendInto: the version is chosen when the visit ends, if at all.
DescendUnchosen(k) ==
    /\ Calls(k)
    /\ ~Conflicting(k) /\ k \notin resolved \cup onStack /\ Published(k)
    /\ onStack' = onStack \cup {k}
    /\ visits' = Append(Advanced, [pack |-> k, rest |-> registry[k].needs])
    /\ UNCHANGED <<registry, root, chosen, resolved, problems, lockfile, closure>>

DescendInto(k) ==
    /\ Calls(k)
    /\ ~Conflicting(k) /\ k \notin resolved \cup onStack /\ Published(k)
    /\ chosen' = [n \in DOMAIN chosen \cup {k.name} |-> IF n = k.name THEN k.version ELSE chosen[n]]
    /\ onStack' = onStack \cup {k}
    /\ visits' = Append(Advanced, [pack |-> k, rest |-> registry[k].needs])
    /\ UNCHANGED <<registry, root, resolved, problems, lockfile, closure>>

\* The dependencies of a pack were visited.
Resolve ==
    /\ closure = "visit"
    /\ Len(visits) > 1
    /\ Innermost.rest = << >>
    /\ onStack' = onStack \ {Innermost.pack}
    /\ resolved' = resolved \cup {Innermost.pack}
    /\ visits' = SubSeq(visits, 1, Len(visits) - 1)
    /\ UNCHANGED <<registry, root, chosen, problems, lockfile, closure>>

\* The outer visit returned: raise the findings or pin what was resolved.
Lock ==
    /\ closure = "visit"
    /\ Len(visits) = 1 /\ Innermost.rest = << >>
    /\ IF problems = {}
       THEN closure' = "locked" /\ lockfile' = [k \in resolved |-> registry[k].digest]
       ELSE closure' = "raised" /\ UNCHANGED lockfile
    /\ UNCHANGED <<registry, root, visits, onStack, chosen, resolved, problems>>

Resolving ==
    \/ Resolve \/ Lock
    \/ \E k \in Key : Return(k) \/ DescendInto(k)
ClosureEnded == closure # "visit" /\ UNCHANGED closureVars

ClosureNext == Resolving \/ ClosureEnded

ClosureSpec == ClosureInit /\ [][ClosureNext]_closureVars

-----------------------------------------------------------------------------
(* verify_transitive_lockfile(lockfile, R). *)

\* Mutant of Verified: the dependencies of a pin are not looked at.
VerifiedPins(pins, R) == \A k \in DOMAIN pins : k \in DOMAIN R /\ R[k].digest = pins[k]

\* What R says the pack k depends on.
Needs(R, k) == IF k \in DOMAIN R THEN {R[k].needs[i] : i \in DOMAIN R[k].needs} ELSE {}

Verified(pins, R) ==
    /\ \A k \in DOMAIN pins : k \in DOMAIN R /\ R[k].digest = pins[k]
    /\ \A k \in DOMAIN pins : Needs(R, k) \subseteq DOMAIN pins

-----------------------------------------------------------------------------
(* Properties *)

ClosedUnder(R, K) == \A k \in K : Needs(R, k) \subseteq K

\* The transitive dependencies of the packs K, the packs included.
ClosureOf(R, K) ==
    {k \in Key : \A S \in SUBSET Key : K \subseteq S /\ ClosedUnder(R, S) => k \in S}

OneVersionEach(K) == \A j, k \in K : j.name = k.name => j = k
Acyclic(R, K) == \A k \in K : k \notin ClosureOf(R, Needs(R, k))

\* A lockfile pins the transitive closure of its root, no more and no less,
\* one version of each pack, although each subtree is walked once only.
PinsClosure ==
    closure = "locked" =>
        /\ DOMAIN lockfile = ClosureOf(registry, {root})
        /\ OneVersionEach(DOMAIN lockfile)

\* Resolution is refused exactly when the closure lacks a pack, has two versions
\* of one or a cycle: no diamond is taken for a cycle and none of these is
\* hidden by a conflict met before it.
RefusedForCause ==
    closure # "visit" =>
        LET K == ClosureOf(registry, {root})
        IN  closure = "locked" <=> /\ K \subseteq DOMAIN registry
                                   /\ OneVersionEach(K)
                                   /\ Acyclic(registry, K)

\* A lockfile verifies against the registry it was resolved from, and against
\* a later one only when all its root depends on there is pinned, at the digest
\* published there, although a digest says nothing of dependencies.
VerifiedIsClosure ==
    closure = "locked" =>
        /\ Verified(lockfile, registry)
        /\ \A R \in Later : Verified(lockfile, R) =>
              \A k \in ClosureOf(R, {root}) : k \in DOMAIN lockfile /\ R[k].digest = lockfile[k]

=============================================================================
