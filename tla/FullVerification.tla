-------------------------- MODULE FullVerification --------------------------
(***************************************************************************)
(* What a verification run promises, incremental or not: it takes its      *)
(* inputs one file at a time and reports, for every check, the diagnostics *)
(* that check gives on those inputs.  VerificationSession.run of           *)
(* session.py, without the cache.                                          *)
(***************************************************************************)
CONSTANTS
    Runs,           \* verification runs, one process each
    Checks,         \* the checks of the configuration
    Files,          \* the configuration and the artifacts
    Contents,       \* what a file may hold
    Answer(_, _),   \* diagnostics of a check on the contents of the files
    NoReport        \* a run that has not reported

VARIABLES
    disk,           \* content of each file
    snapshot,       \* content of each file as a run took it
    report          \* diagnostics of each check, once a run reports

fvars == <<disk, snapshot, report>>

Init ==
    /\ disk \in [Files -> Contents]
    /\ snapshot \in [Runs -> [Files -> Contents]]
    /\ report = [r \in Runs |-> NoReport]

Edit(f) ==
    /\ \E v \in Contents : disk' = [disk EXCEPT ![f] = v]
    /\ UNCHANGED <<snapshot, report>>

Take(r, f) ==
    /\ report[r] = NoReport
    /\ snapshot' = [snapshot EXCEPT ![r][f] = disk[f]]
    /\ UNCHANGED <<disk, report>>

Report(r) ==
    /\ report[r] = NoReport
    /\ report' = [report EXCEPT ![r] = [c \in Checks |-> Answer(c, snapshot[r])]]
    /\ UNCHANGED <<disk, snapshot>>

Next ==
    \/ \E f \in Files : Edit(f)
    \/ \E r \in Runs : Report(r) \/ \E f \in Files : Take(r, f)

Spec == Init /\ [][Next]_fvars

=============================================================================
