----------------------------- MODULE SessionRun -----------------------------
(***************************************************************************)
(* The checks of one session at work: the scheduler of CheckScheduler, the *)
(* threads of whose pools ask the session's AnalysisCache for the products *)
(* the check callables of session.py share (tokenizer adapters, the token  *)
(* budget report, automata products, static contracts).                    *)
(***************************************************************************)
EXTENDS CheckScheduler

CONSTANTS
    Keys,           \* (namespace, key) pairs of the session
    Uses,           \* the products the callable of a check asks for, by name
    MaxRequest,     \* bound on the length of a request
    MaxCalls,       \* bound on the memoize calls of a check
    NoKey           \* a check is not in a memoize call

ASSUME SessionAssumption ==
    /\ Uses \in [Names -> SUBSET Keys]
    /\ MaxRequest \in Nat
    /\ \A s \in Requests : Len(s) <= MaxRequest
    /\ MaxCalls \in Nat
    /\ NoKey \notin Keys

VARIABLES values, owner, frames, nested, want, calls, builds, handed

\* No first-party factory asks for another product, and a check is one thread.
Cache == INSTANCE AnalysisCache WITH
            Threads <- 1..MaxRequest,
            Asks <- {},
            MaxNested <- 0,
            NoThread <- 0

cache == <<values, owner, frames, nested, want, calls, builds, handed>>
svars == <<vars, cache>>

SessionInit == Init /\ Cache!MemoInit

\* A callable under way asks the cache of its context.
Ask(c) ==
    /\ c \in running
    /\ \E k \in Uses[request[c]] : Cache!Call(c, k)
    /\ UNCHANGED vars

Serve(c) == Cache!Step(c) /\ UNCHANGED vars

\* A callable ends when no memoize call of it is open; what a factory raised it
\* may have caught or not.
End(c) == want[c] = NoKey /\ Finish(c) /\ UNCHANGED cache

Steer == Main /\ UNCHANGED cache
Take(c) == Start(c) /\ UNCHANGED cache
Stop == (Interrupt \/ Ended) /\ UNCHANGED cache

SessionNext ==
    \/ Steer \/ Stop
    \/ \E c \in Ordinals : Ask(c) \/ Serve(c) \/ End(c) \/ Take(c)

SessionSpec == SessionInit /\ [][SessionNext]_svars

\* The main thread and each thread of a pool keep running, and no callable
\* stays in its own code for ever.
SessionFairness ==
    /\ WF_svars(Steer)
    /\ \A c \in 1..MaxRequest :
        /\ WF_svars(c \in Ordinals /\ Take(c))
        /\ WF_svars(c \in Ordinals /\ Serve(c))
        /\ WF_svars(c \in Ordinals /\ End(c))

-----------------------------------------------------------------------------
(* Properties *)

\* Checks that run at the same time never want the same product: the resources
\* of CHECK_DEPENDENCIES cover what the callables ask the cache for, and the
\* batches keep them apart, so nobody queues for the lock behind the factory
\* that builds what it wants itself.
WantedApart ==
    \A c, d \in Ordinals : c # d /\ want[c] # NoKey => want[c] # want[d]

\* A run that returned or re-raised has left its cache: nobody holds the lock or
\* waits for it, so no callable is still at work for a run that is over.
CacheReleased ==
    pc \in {"done", "aborted"} => owner = 0 /\ \A c \in Ordinals : want[c] = NoKey

\* A session ends although checks of a batch wait for one lock that is held
\* while factories run, prerequisites form cycles, some callables raise and the
\* user interrupts.
SessionEnds == <>(pc \in {"done", "aborted"})

=============================================================================
