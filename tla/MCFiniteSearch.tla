--------------------------- MODULE MCFiniteSearch ---------------------------
(***************************************************************************)
(* Two variables of two values, and all problems of two constraints, or of *)
(* three constraints, most of one variable, that never raise.  Some of     *)
(* them are asked again, with the constraints in either order and other    *)
(* budgets, through the two caches.                                        *)
(***************************************************************************)
EXTENDS SolverCache

CONSTANTS u, v, w    \* values; w is in no domain

MCDomain == [i \in Vars |-> Values \ {w}]

Over(S, truth) == [over : {S}, value : [[S -> Values] -> truth]]
Bool == {"true", "false"}

Partial == Over({1, 2}, Bool) \cup UNION {Over(S, Truth) : S \in {{}, {1}, {2}}}
Wide == Over({1, 2}, Truth)
Narrow == UNION {Over(S, Bool) : S \in {{}, {1}, {2}}}

MCPairs == {<<c, d>> : c \in Partial, d \in Partial \cup Wide} \cup {<< >>}
MCTriples == {<<c, d, e>> : c \in Narrow, d \in Over({2}, Bool), e \in Over({1, 2}, Bool)}
MCProblems == MCPairs \cup MCTriples

\* A constraint on the first variable, and one on either that raises.
Table(i, tu, tv) ==
    [over |-> {i}, value |-> [f \in [{i} -> Values] |-> IF f[i] = u THEN tu ELSE tv]]
Shield == Table(1, "false", "true")
MCAgain == {<<Shield, c>> : c \in {Table(1, "raises", "true"), Table(1, "true", "false"),
                                   Table(2, "raises", "true"), Table(2, "false", "true")}}
           \cup {<<Table(1, "true", "false"), Table(1, "raises", "true")>>}
Turned(p) == <<p[2], p[1]>>
MCPermuted == MCAgain \cup {Turned(p) : p \in MCAgain}

Posed(p, b, t) == [constraints |-> p, budget |-> b, timed |-> t]
MCGroups ==
    {{Posed(o, b, t) : o \in {p, Turned(p)}, b \in {1, NoBudget}, t \in Timed} : p \in MCAgain}

\* A problem without a model, which w would satisfy.
Outside == [over |-> {1}, value |-> [f \in [{1} -> Values] |-> IF f[1] = w THEN "true" ELSE "false"]]
MCRefuted == {<<Outside, Table(2, "true", "true")>>}
MCRefutedGroups == {{Posed(p, NoBudget, FALSE)} : p \in MCRefuted}
=============================================================================
