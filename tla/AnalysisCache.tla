---------------------------- MODULE AnalysisCache ----------------------------
(***************************************************************************)
(* The per-session cache of analysis products, AnalysisCache.memoize of    *)
(* session.py, as the threads of a check pool use it.                      *)
(*                                                                         *)
(* memoize holds a reentrant lock from the lookup to the store, so the     *)
(* factory of a product runs under the lock.  A factory may itself ask for *)
(* other products (the lock is an RLock); one that raises stores nothing.  *)
(***************************************************************************)
EXTENDS Naturals, Sequences, FiniteSets

CONSTANTS
    Threads,        \* threads that call memoize
    Keys,           \* (namespace, key) pairs
    Asks,           \* <<k, j>>: the factory of k may ask for j
    MaxNested,      \* bound on the nested asks of one outermost factory
    MaxCalls,       \* bound on the memoize calls of a thread
    NoThread,       \* the lock is free
    NoKey           \* a thread is not in a call

ASSUME CacheAssumption ==
    /\ Asks \subseteq Keys \X Keys
    /\ MaxNested \in Nat
    /\ MaxCalls \in Nat
    /\ NoThread \notin Threads
    /\ NoKey \notin Keys

VARIABLES
    values,         \* the dictionary: the builds stored under a key, at most one
    owner,          \* thread that holds the lock
    frames,         \* factories the owner is inside of, outermost first
    nested,         \* asks its outermost factory has made, at any depth
    want,           \* key a thread has called memoize for and not got yet
    calls,          \* calls made by a thread
    builds,         \* factories of a key that returned so far
    handed          \* every product returned to a caller, by key

cvars == <<values, owner, frames, nested, want, calls, builds, handed>>

-----------------------------------------------------------------------------
Cached(k) == values[k] # {}
Top == frames[Len(frames)]
Pop == SubSeq(frames, 1, Len(frames) - 1)

MemoInit ==
    /\ values = [k \in Keys |-> {}]
    /\ owner = NoThread
    /\ frames = << >>
    /\ nested = 0
    /\ want = [t \in Threads |-> NoKey]
    /\ calls = [t \in Threads |-> 0]
    /\ builds = [k \in Keys |-> 0]
    /\ handed = [k \in Keys |-> {}]

\* A check calls memoize and waits for the lock.
Call(t, k) ==
    /\ want[t] = NoKey
    /\ calls[t] < MaxCalls
    /\ want' = [want EXCEPT ![t] = k]
    /\ calls' = [calls EXCEPT ![t] = @ + 1]
    /\ UNCHANGED <<values, owner, frames, nested, builds, handed>>

\* The key is present: the stored product is returned and the lock released.
Hit(t) ==
    /\ want[t] # NoKey
    /\ owner = NoThread
    /\ Cached(want[t])
    /\ handed' = [handed EXCEPT ![want[t]] = @ \cup values[want[t]]]
    /\ want' = [want EXCEPT ![t] = NoKey]
    /\ UNCHANGED <<values, owner, frames, nested, calls, builds>>

\* Mutant of Miss: the lookup before the lock is not repeated under it.
MissStale(t) ==
    /\ want[t] # NoKey
    /\ owner = NoThread
    /\ owner' = t
    /\ frames' = <<want[t]>>
    /\ nested' = 0
    /\ UNCHANGED <<values, want, calls, builds, handed>>

\* The key is absent: the factory starts, under the lock.
Miss(t) ==
    /\ want[t] # NoKey
    /\ owner = NoThread
    /\ ~Cached(want[t])
    /\ owner' = t
    /\ frames' = <<want[t]>>
    /\ nested' = 0
    /\ UNCHANGED <<values, want, calls, builds, handed>>

\* A factory asks for another product that is not cached (one that is changes
\* nothing): its factory starts inside the first.
Nest(t, j) ==
    /\ owner = t
    /\ <<Top, j>> \in Asks
    /\ ~Cached(j)
    /\ nested < MaxNested
    /\ nested' = nested + 1
    /\ frames' = Append(frames, j)
    /\ UNCHANGED <<values, owner, want, calls, builds, handed>>

\* The innermost call ends; the outermost end releases the lock.
Leave(t) ==
    /\ frames' = Pop
    /\ IF Len(frames) = 1
       THEN owner' = NoThread /\ want' = [want EXCEPT ![t] = NoKey]
       ELSE UNCHANGED <<owner, want>>

\* Mutant of Built: values[key] = value instead of setdefault.
BuiltOverwrite(t) ==
    /\ owner = t
    /\ values' = [values EXCEPT ![Top] = {builds[Top]}]
    /\ builds' = [builds EXCEPT ![Top] = @ + 1]
    /\ handed' = [handed EXCEPT ![Top] = @ \cup values'[Top]]
    /\ Leave(t)
    /\ UNCHANGED <<nested, calls>>

\* The factory returns; setdefault keeps a product that a nested call for the
\* same key stored meanwhile.
Built(t) ==
    /\ owner = t
    /\ values' = [values EXCEPT ![Top] = IF @ = {} THEN {builds[Top]} ELSE @]
    /\ builds' = [builds EXCEPT ![Top] = @ + 1]
    /\ handed' = [handed EXCEPT ![Top] = @ \cup values'[Top]]
    /\ Leave(t)
    /\ UNCHANGED <<nested, calls>>

\* The factory raises: nothing is stored, the enclosing factory may go on.
Raised(t) ==
    /\ owner = t
    /\ Leave(t)
    /\ UNCHANGED <<values, nested, calls, builds, handed>>

MemoQuiet == \A t \in Threads : want[t] = NoKey /\ calls[t] = MaxCalls
MemoIdle == MemoQuiet /\ UNCHANGED cvars

Enter(t) == Hit(t) \/ Miss(t)
End(t) == Built(t) \/ Raised(t)
Step(t) == Enter(t) \/ End(t)

MemoNext ==
    \/ \E t \in Threads : Hit(t) \/ Miss(t) \/ Built(t) \/ Raised(t)
    \/ \E t \in Threads, k \in Keys : Call(t, k) \/ Nest(t, k)
    \/ MemoIdle

MemoSpec == MemoInit /\ [][MemoNext]_cvars

-----------------------------------------------------------------------------
(* Properties *)

\* All checks of a session share one product per key: two calls for a key never
\* return different objects, whichever threads race and whatever factories nest.
OneProduct == \A k \in Keys : Cardinality(handed[k]) <= 1

\* The factory of k asks for products that never lead back to k.
NeverItself(k) ==
    \E S \in SUBSET (Keys \ {k}) :
        \A a \in Asks : a[1] \in S \cup {k} => a[2] \in S

\* A product is computed once: a factory that returned is not run again for its
\* key, unless it asks for its own product on the way.
BuildOnce == \A k \in Keys : NeverItself(k) => builds[k] <= 1

=============================================================================
