-------------------------- MODULE ComparePerfAbstract --------------------------
(***************************************************************************)
(* What the regression classifier promises (spec.md, sections 4.3 and 5), *)
(* without the order in which it works.  Each test case of either results  *)
(* map receives a verdict, in any order, decided by its own two Stats      *)
(* alone: added, removed, or by the interval rules.  A test case whose     *)
(* factor range is undefined (a before interval ending at 0) may instead   *)
(* abort the whole comparison.  The comparison ends when every test case   *)
(* has its verdict.                                                        *)
(***************************************************************************)
EXTENDS Integers, FiniteSets, PerfStats

VARIABLES
    before,     \* the before results map: label -> Stats
    after,      \* the after results map: label -> Stats
    verdicts,   \* label -> verdict, for the test cases decided so far
    status      \* "loop", then "done" or "crashed"

absVars == <<before, after, verdicts, status>>

TestCases == DOMAIN before \cup DOMAIN after

\* Section 4.3: the verdict of a test case.
SpecVerdict(l) ==
    IF l \notin DOMAIN before THEN "added"
    ELSE IF l \notin DOMAIN after THEN "removed"
    ELSE LET b == Interval(before[l])
             a == Interval(after[l])
         IN  IF a[1] >= b[2] THEN "slower"
             ELSE IF a[2] <= b[1] THEN "faster"
             ELSE "no_sig_diff"

\* The factor range a0/b1 .. a1/b0 divides by an end point that is 0.
FactorUndefined(l) ==
    /\ l \in DOMAIN before \cap DOMAIN after
    /\ 0 \in {Interval(before[l])[1], Interval(before[l])[2]}

AbsInit ==
    /\ before \in ResultsMaps
    /\ after \in ResultsMaps
    /\ verdicts = [l \in {} |-> "added"]
    /\ status = "loop"

Decide(l) ==
    /\ status = "loop"
    /\ l \in TestCases \ DOMAIN verdicts
    /\ ~FactorUndefined(l)
    /\ verdicts' = [m \in DOMAIN verdicts \cup {l} |->
                      IF m = l THEN SpecVerdict(l) ELSE verdicts[m]]
    /\ UNCHANGED <<before, after, status>>

Abort(l) ==
    /\ status = "loop"
    /\ l \in TestCases \ DOMAIN verdicts
    /\ FactorUndefined(l)
    /\ status' = "crashed"
    /\ UNCHANGED <<before, after, verdicts>>

Finish ==
    /\ status = "loop"
    /\ DOMAIN verdicts = TestCases
    /\ status' = "done"
    /\ UNCHANGED <<before, after, verdicts>>

AbsNext == (\E l \in TestCases : Decide(l) \/ Abort(l)) \/ Finish

AbsSpec == AbsInit /\ [][AbsNext]_absVars
=============================================================================
