----------------------------- MODULE ComparePerf -----------------------------
(***************************************************************************)
(* The classification loop of ComparePerf() in                             *)
(* garnet/bin/perfcompare/perfcompare.py (lines 190-261).                  *)
(*                                                                         *)
(* Two results maps (label -> Stats), "before" and "after", are compared   *)
(* label by label in sorted order.  Each label yields one table row with   *)
(* a verdict (added, removed, faster, slower, no_sig_diff), a factor range *)
(* and the two confidence intervals; counts per verdict are accumulated    *)
(* and the rows with a difference are collected into a second table.      *)
(*                                                                         *)
(* Data abstraction: a Stats object is its mean and its CI offset (the     *)
(* half-width produced by the t-quantile, line 74).  Both are integers     *)
(* from small sets; the order relations of the interval end points, which  *)
(* is all the classification reads, are kept exactly.  A factor a/b is the *)
(* pair <<a, b>>; Python's float division raises ZeroDivisionError when    *)
(* b = 0, which aborts the whole comparison ("crashed").  Formatting of    *)
(* the rows and of the summary is left out.                                *)
(***************************************************************************)
EXTENDS Integers, Sequences, FiniteSets, PerfStats

CONSTANT
    Dash        \* the "-" written in a row for a missing factor range or side

VARIABLES
    before,     \* results_maps[0]: label -> Stats
    after,      \* results_maps[1]: label -> Stats
    todo,       \* labels of sorted(labels) not yet visited by the loop
    counts,     \* counts: verdict -> number of test cases
    allRows,    \* all_rows
    diffRows,   \* diff_rows
    status      \* "loop" while in the for loop, then "done" or "crashed"

vars == <<before, after, todo, counts, allRows, diffRows, status>>

Verdicts == {"added", "removed", "faster", "slower", "no_sig_diff"}

Factor == Int \X Int

ASSUME DashAssumption == Dash \notin Stats \cup (Factor \X Factor)

Rows == [label : Labels, result : Verdicts,
         factor : {Dash} \cup (Factor \X Factor),
         before : Stats \cup {Dash}, after : Stats \cup {Dash}]

\* labels = set(results_maps[0]) | set(results_maps[1])   (lines 195-196)
AllLabels == DOMAIN before \cup DOMAIN after

\* Mutant: the labels visited in descending order.
NextLabelReversed == CHOOSE l \in todo : \A m \in todo : l >= m

\* The next label of "for label in sorted(labels)" (line 209).
NextLabel == CHOOSE l \in todo : \A m \in todo : l <= m

\* Mutant: strict comparisons, so touching intervals are not significant.
ClassifyStrict(b, a) ==
    IF a[1] > b[2] THEN "slower"
    ELSE IF a[2] < b[1] THEN "faster"
    ELSE "no_sig_diff"

\* Mutant: a misspelt verdict in the else branch.
ClassifyTypo(b, a) ==
    IF a[1] >= b[2] THEN "slower"
    ELSE IF a[2] <= b[1] THEN "faster"
    ELSE "no_significant_difference"

\* The if/elif/else of lines 226-231, tested in this order.
Classify(b, a) ==
    IF a[1] >= b[2] THEN "slower"
    ELSE IF a[2] <= b[1] THEN "faster"
    ELSE "no_sig_diff"

\* Mutant: only faster and slower rows go to the difference table.
RecordOnlySpeedDiffs(l, result, factor, bs, as) ==
    LET row == [label |-> l, result |-> result, factor |-> factor,
                before |-> bs, after |-> as]
    IN  /\ todo' = todo \ {l}
        /\ counts' = [counts EXCEPT ![result] = @ + 1]
        /\ allRows' = Append(allRows, row)
        /\ diffRows' = IF result \in {"faster", "slower"}
                         THEN Append(diffRows, row) ELSE diffRows
        /\ UNCHANGED <<before, after, status>>

(***************************************************************************)
(* The tail of the loop body (lines 235-239): count the verdict, append    *)
(* the row to all_rows and, unless no_sig_diff, to diff_rows.              *)
(***************************************************************************)
Record(l, result, factor, bs, as) ==
    LET row == [label |-> l, result |-> result, factor |-> factor,
                before |-> bs, after |-> as]
    IN  /\ todo' = todo \ {l}
        /\ counts' = [counts EXCEPT ![result] = @ + 1]
        /\ allRows' = Append(allRows, row)
        /\ diffRows' = IF result # "no_sig_diff"
                         THEN Append(diffRows, row) ELSE diffRows
        /\ UNCHANGED <<before, after, status>>

Init ==
    /\ before \in ResultsMaps
    /\ after \in ResultsMaps
    /\ todo = AllLabels
    /\ counts = [v \in Verdicts |-> 0]
    /\ allRows = <<>>
    /\ diffRows = <<>>
    /\ status = "loop"

\* Lines 210-214: the label is only in the after map.
CompareAdded ==
    /\ status = "loop"
    /\ todo # {}
    /\ NextLabel \notin DOMAIN before
    /\ Record(NextLabel, "added", Dash, Dash, after[NextLabel])

\* Mutant: the elif of line 215 without its test of the after map.
CompareRemovedNoAfterCheck ==
    /\ status = "loop"
    /\ todo # {}
    /\ NextLabel \in DOMAIN before
    /\ Record(NextLabel, "removed", Dash, before[NextLabel], Dash)

\* Lines 215-219: the label is only in the before map.
CompareRemoved ==
    /\ status = "loop"
    /\ todo # {}
    /\ NextLabel \in DOMAIN before
    /\ NextLabel \notin DOMAIN after
    /\ Record(NextLabel, "removed", Dash, before[NextLabel], Dash)

(***************************************************************************)
(* Lines 220-234: the label is in both maps.  The factor range is computed *)
(* before the verdict: a zero end point of the before interval makes one   *)
(* of the divisions of lines 224-225 raise, and the comparison aborts.     *)
(***************************************************************************)
CompareBoth ==
    /\ status = "loop"
    /\ todo # {}
    /\ NextLabel \in DOMAIN before \cap DOMAIN after
    /\ LET b == Interval(before[NextLabel])
           a == Interval(after[NextLabel])
       IN  \/ /\ b[1] = 0 \/ b[2] = 0
              /\ status' = "crashed"
              /\ UNCHANGED <<before, after, todo, counts, allRows, diffRows>>
           \/ /\ b[1] # 0 /\ b[2] # 0
              /\ Record(NextLabel, Classify(b, a),
                        <<<<a[1], b[2]>>, <<a[2], b[1]>>>>,
                        before[NextLabel], after[NextLabel])

\* Lines 241-261: the loop is over; the summary and the tables are written.
Report ==
    /\ status = "loop"
    /\ todo = {}
    /\ status' = "done"
    /\ UNCHANGED <<before, after, todo, counts, allRows, diffRows>>

Next == CompareAdded \/ CompareRemoved \/ CompareBoth \/ Report

Spec == Init /\ [][Next]_vars

-----------------------------------------------------------------------------
(***************************************************************************)
(* Properties                                                              *)
(***************************************************************************)

TypeOK ==
    /\ before \in ResultsMaps
    /\ after \in ResultsMaps
    /\ todo \subseteq AllLabels
    /\ counts \in [Verdicts -> Nat]
    /\ allRows \in Seq(Rows)
    /\ diffRows \in Seq(Rows)
    /\ status \in {"loop", "done", "crashed"}

\* The labels of the rows written so far.
RowLabels == {allRows[i].label : i \in DOMAIN allRows}

(***************************************************************************)
(* The table lists every label of before and after exactly once, in        *)
(* ascending order: the rows written so far and the labels the loop has    *)
(* not reached partition the union of the two maps' labels, the rows are   *)
(* strictly ascending, and every row comes before every label still to     *)
(* do.  This is about the sorted() iteration of line 209 and the union of  *)
(* lines 195-196.                                                          *)
(***************************************************************************)
RowsSortedAndComplete ==
    /\ RowLabels \cap todo = {}
    /\ RowLabels \cup todo = AllLabels
    /\ \A i, j \in DOMAIN allRows : i < j => allRows[i].label < allRows[j].label
    /\ \A i \in DOMAIN allRows : \A l \in todo : allRows[i].label < l

(***************************************************************************)
(* Every verdict agrees with the two maps and with the spec's rules        *)
(* (section 4.3): added iff only after has the label, removed iff only     *)
(* before has it; slower means the after interval lies at or above the     *)
(* before interval, faster that it lies at or below it and the two are not *)
(* also "slower", no_sig_diff that the intervals intersect; and the factor *)
(* range is a0/b1 .. a1/b0 of the label's intervals.  This is about the    *)
(* branch order and the >= / <= tests of lines 210-234.                    *)
(***************************************************************************)
RowOK(r) ==
    LET inB == r.label \in DOMAIN before
        inA == r.label \in DOMAIN after
    IN  /\ (r.result = "added") <=> (~inB /\ inA)
        /\ (r.result = "removed") <=> (inB /\ ~inA)
        /\ inB /\ inA =>
             LET b == Interval(before[r.label])
                 a == Interval(after[r.label])
             IN  /\ r.result = "slower" => a[1] >= b[2]
                 /\ r.result = "faster" => a[2] <= b[1] /\ a[1] < b[2]
                 /\ r.result = "no_sig_diff" => IntervalsIntersect(b, a)
                 /\ r.factor = <<<<a[1], b[2]>>, <<a[2], b[1]>>>>

VerdictSound == \A i \in DOMAIN allRows : RowOK(allRows[i])

\* The rows of a sequence with the given verdict.
RowsWith(rs, v) == {i \in DOMAIN rs : rs[i].result = v}

(***************************************************************************)
(* The summary counts agree with the table: each verdict's count is the    *)
(* number of rows with that verdict, the difference table is the all-rows  *)
(* table without the no_sig_diff rows, in the same order, and once the     *)
(* report is written the counts add up to the number of labels (spec,      *)
(* section 8).  This is about lines 235-239 and the summary of 245-252.    *)
(***************************************************************************)
CountsMatchRows ==
    /\ \A v \in Verdicts : counts[v] = Cardinality(RowsWith(allRows, v))
    /\ diffRows = SelectSeq(allRows, LAMBDA r : r.result # "no_sig_diff")
    /\ status = "done" =>
         counts["added"] + counts["removed"] + counts["faster"]
           + counts["slower"] + counts["no_sig_diff"] = Cardinality(AllLabels)

(***************************************************************************)
(* Spec section 4.3 reports the factor range [a0/b1, a1/b0] as "the        *)
(* plausible range of the true after/before ratio", so its low end should  *)
(* not exceed its high end.                                                *)
(***************************************************************************)
\* p/q <= r/s for q, s # 0.
RatLeq(x, y) == (x[1] * y[2] - y[1] * x[2]) * (x[2] * y[2]) <= 0

FactorRangeOrdered ==
    \A i \in DOMAIN allRows :
        allRows[i].factor # Dash => RatLeq(allRows[i].factor[1], allRows[i].factor[2])

(***************************************************************************)
(* Spec section 8: classification is symmetric under swapping before and   *)
(* after (faster <-> slower).  A test case whose two Stats are identical   *)
(* is its own swap, so its verdict must be no_sig_diff.                    *)
(***************************************************************************)
IdenticalStatsNoSigDiff ==
    \A i \in DOMAIN allRows :
        allRows[i].before = allRows[i].after => allRows[i].result = "no_sig_diff"


-----------------------------------------------------------------------------
(***************************************************************************)
(* Refinement: the loop implements the order-free promise of               *)
(* ComparePerfAbstract.  The abstract verdict of a label is the verdict of *)
(* its row in all_rows; the maps and the status are the same.              *)
(***************************************************************************)
\* The position of the row of label l in all_rows.
RowIndex(l) == CHOOSE i \in DOMAIN allRows : allRows[i].label = l

\* The verdict of the row written for each label visited so far.
TableVerdicts == [l \in RowLabels |-> allRows[RowIndex(l)].result]

Abs == INSTANCE ComparePerfAbstract WITH verdicts <- TableVerdicts

(***************************************************************************)
(* Each step of the sorted loop of lines 209-239 is a step of the abstract *)
(* classifier: the row it appends carries the spec's verdict for a label   *)
(* not yet decided, a ZeroDivisionError of lines 224-225 aborts only on a  *)
(* label whose factor range is undefined, and the report of lines 241-261  *)
(* is written only once every label of either map has its verdict.         *)
(***************************************************************************)
ImplementsAbstract == Abs!AbsSpec

=============================================================================
