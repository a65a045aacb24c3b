------------------------- MODULE ValidatePerfCompare -------------------------
(***************************************************************************)
(* ValidatePerfCompare() and MismatchRate() of                             *)
(* garnet/bin/perfcompare/perfcompare.py (lines 264-319).                  *)
(*                                                                         *)
(* The boots of one build are split into group_count = boot_count /        *)
(* group_size contiguous groups; each group is aggregated by               *)
(* ResultsFromDirs into a results map; the Stats intervals are collected   *)
(* per label (by_test); for each label, in sorted order, the rate of       *)
(* non-intersecting pairs of its intervals is computed; finally the mean   *)
(* relative CI width and the mean mismatch rate are reported.              *)
(*                                                                         *)
(* ResultsFromDirs is modelled in its own module; here a group's call      *)
(* either returns some results map over Labels or raises.  The slice of   *)
(* boots each group reads is kept in the history variable "slices".       *)
(* A rate is the exact fraction <<mismatches, comparisons>>.               *)
(***************************************************************************)
EXTENDS Integers, Sequences, FiniteSets, PerfStats

CONSTANTS
    MaxBoots,       \* the most result directories passed (nargs='+')
    GroupSizes      \* the --group_size values tried

ASSUME BootsAssumption == MaxBoots \in Nat \ {0}
ASSUME GroupSizesAssumption == GroupSizes \subseteq Nat

VARIABLES
    bootCount,      \* boot_count = len(args.results_dirs)
    groupSize,      \* group_size
    groupCount,     \* group_count
    resultsMaps,    \* results_maps, one per group loaded so far
    slices,         \* history: the boot indices (1-based) each group read
    byTest,         \* by_test: label -> intervals of the groups that have it
    todo,           \* labels of sorted(by_test) whose rate is not yet computed
    rates,          \* mismatch_rates, in label order, as <<label, rate>>
    status          \* "start", "groups", "rates", then "done" or "crashed"

vars == <<bootCount, groupSize, groupCount, resultsMaps, slices, byTest,
          todo, rates, status>>

(***************************************************************************)
(* MismatchRate (lines 271-276): the code's double loop over j < i, and    *)
(* comparisons_count = n * (n - 1) / 2.  Sequences are 1-based here.       *)
(***************************************************************************)
\* Mutant: "for j in xrange(i + 1)", comparing each interval with itself too.
MismatchCountWithSelf(ivs) ==
    Cardinality({p \in (1..Len(ivs)) \X (1..Len(ivs)) :
                    p[2] <= p[1] /\ ~IntervalsIntersect(ivs[p[1]], ivs[p[2]])})

MismatchCount(ivs) ==
    Cardinality({p \in (1..Len(ivs)) \X (1..Len(ivs)) :
                    p[2] < p[1] /\ ~IntervalsIntersect(ivs[p[1]], ivs[p[2]])})

ComparisonsCount(ivs) == (Len(ivs) * (Len(ivs) - 1)) \div 2

MismatchRate(ivs) == <<MismatchCount(ivs), ComparisonsCount(ivs)>>

\* The next label of "for label, stats_list in sorted(by_test.iteritems())".
NextLabel == CHOOSE l \in todo : \A m \in todo : l <= m

Init ==
    /\ bootCount \in 1..MaxBoots
    /\ groupSize \in GroupSizes
    /\ groupCount = 0
    /\ resultsMaps = <<>>
    /\ slices = <<>>
    /\ byTest = [l \in {} |-> <<>>]
    /\ todo = {}
    /\ rates = <<>>
    /\ status = "start"

\* Mutant: the trailing partial group is kept (group_count rounded up).
SplitGroupsRoundUp ==
    /\ status = "start"
    /\ groupSize # 0
    /\ groupCount' = bootCount \div groupSize + 1
    /\ status' = "groups"
    /\ UNCHANGED <<bootCount, groupSize, resultsMaps, slices, byTest, todo, rates>>

\* Line 282: group_count = boot_count / group_size (integer division).
SplitGroups ==
    /\ status = "start"
    /\ groupSize # 0
    /\ groupCount' = bootCount \div groupSize
    /\ status' = "groups"
    /\ UNCHANGED <<bootCount, groupSize, resultsMaps, slices, byTest, todo, rates>>

\* Line 282 with group_size 0: ZeroDivisionError.
SplitGroupsByZero ==
    /\ status = "start"
    /\ groupSize = 0
    /\ status' = "crashed"
    /\ UNCHANGED <<bootCount, groupSize, groupCount, resultsMaps, slices, byTest, todo, rates>>

(***************************************************************************)
(* Lines 284-287: group i (0-based) aggregates                             *)
(* args.results_dirs[i * group_size : (i + 1) * group_size].               *)
(***************************************************************************)
\* Mutant: the slice end one past (i + 1) * group_size.
GroupSliceOverlap(i) == {b \in 1..bootCount : i * groupSize < b /\ b <= (i + 1) * groupSize + 1}

GroupSlice(i) == {b \in 1..bootCount : i * groupSize < b /\ b <= (i + 1) * groupSize}

\* The group's ResultsFromDirs returns the map m.  A group of one boot gives
\* every label a single per-boot value, so Stats raises (lines 56-59) unless
\* that boot ran no test case and the map is empty.
LoadGroup(m) ==
    /\ status = "groups"
    /\ Len(resultsMaps) < groupCount
    /\ groupSize >= 2 \/ DOMAIN m = {}
    /\ resultsMaps' = Append(resultsMaps, m)
    /\ slices' = Append(slices, GroupSlice(Len(resultsMaps)))
    /\ UNCHANGED <<bootCount, groupSize, groupCount, byTest, todo, rates, status>>

\* ResultsFromDirs raises for the group (a short record, or a label in one boot).
LoadGroupFails ==
    /\ status = "groups"
    /\ Len(resultsMaps) < groupCount
    /\ slices' = Append(slices, GroupSlice(Len(resultsMaps)))
    /\ status' = "crashed"
    /\ UNCHANGED <<bootCount, groupSize, groupCount, resultsMaps, byTest, todo, rates>>

(***************************************************************************)
(* Lines 290-293: the intervals are grouped by label, in group order.      *)
(***************************************************************************)
GroupByTest ==
    /\ status = "groups"
    /\ Len(resultsMaps) = groupCount
    /\ LET ls == UNION {DOMAIN resultsMaps[g] : g \in DOMAIN resultsMaps}
           gs(l) == SelectSeq([g \in DOMAIN resultsMaps |-> g],
                              LAMBDA g : l \in DOMAIN resultsMaps[g])
       IN  /\ byTest' = [l \in ls |->
                           [k \in DOMAIN gs(l) |-> Interval(resultsMaps[gs(l)[k]][l])]]
           /\ todo' = ls
    /\ status' = "rates"
    /\ UNCHANGED <<bootCount, groupSize, groupCount, resultsMaps, slices, rates>>

\* Lines 298-301: the next label's mismatch rate.
ComputeRate ==
    /\ status = "rates"
    /\ todo # {}
    /\ ComparisonsCount(byTest[NextLabel]) # 0
    /\ rates' = Append(rates, <<NextLabel, MismatchRate(byTest[NextLabel])>>)
    /\ todo' = todo \ {NextLabel}
    /\ UNCHANGED <<bootCount, groupSize, groupCount, resultsMaps, slices, byTest, status>>

\* Mutant: a label with a single pair of intervals is taken for one without any.
ComputeRateByZeroOffByOne ==
    /\ status = "rates"
    /\ todo # {}
    /\ ComparisonsCount(byTest[NextLabel]) <= 1
    /\ status' = "crashed"
    /\ UNCHANGED <<bootCount, groupSize, groupCount, resultsMaps, slices, byTest, todo, rates>>

\* Line 276 for a label only one group has: float(0) / 0 raises ZeroDivisionError.
ComputeRateByZero ==
    /\ status = "rates"
    /\ todo # {}
    /\ ComparisonsCount(byTest[NextLabel]) = 0
    /\ status' = "crashed"
    /\ UNCHANGED <<bootCount, groupSize, groupCount, resultsMaps, slices, byTest, todo, rates>>

(***************************************************************************)
(* Lines 303-319: the mean relative CI width over every Stats of every     *)
(* group (RelativeConfidenceIntervalWidth divides by the mean, line 87),   *)
(* then the mean mismatch rate, then the report.  Mean of an empty list    *)
(* raises AssertionError (line 49); a zero mean raises ZeroDivisionError.  *)
(***************************************************************************)
AllStats == UNION {{resultsMaps[g][l] : l \in DOMAIN resultsMaps[g]} : g \in DOMAIN resultsMaps}

WidthsDefined == AllStats # {} /\ \A s \in AllStats : s.mean # 0

Report ==
    /\ status = "rates"
    /\ todo = {}
    /\ WidthsDefined
    /\ status' = "done"
    /\ UNCHANGED <<bootCount, groupSize, groupCount, resultsMaps, slices, byTest, todo, rates>>

ReportFails ==
    /\ status = "rates"
    /\ todo = {}
    /\ ~WidthsDefined
    /\ status' = "crashed"
    /\ UNCHANGED <<bootCount, groupSize, groupCount, resultsMaps, slices, byTest, todo, rates>>

Next ==
    \/ SplitGroups \/ SplitGroupsByZero
    \/ \E m \in ResultsMaps : LoadGroup(m)
    \/ LoadGroupFails
    \/ GroupByTest
    \/ ComputeRate \/ ComputeRateByZero
    \/ Report \/ ReportFails

Spec == Init /\ [][Next]_vars

-----------------------------------------------------------------------------
(***************************************************************************)
(* Properties                                                              *)
(***************************************************************************)

TypeOK ==
    /\ bootCount \in 1..MaxBoots
    /\ groupSize \in GroupSizes
    /\ groupCount \in 0..bootCount
    /\ resultsMaps \in Seq(ResultsMaps)
    /\ slices \in Seq(SUBSET (1..bootCount))
    /\ todo \subseteq DOMAIN byTest
    /\ DOMAIN byTest \subseteq Labels
    /\ rates \in Seq(Labels \X (Nat \X Nat))
    /\ status \in {"start", "groups", "rates", "done", "crashed"}

(***************************************************************************)
(* The groups are disjoint runs of exactly group_size consecutive boots,   *)
(* in order: group g reads boots (g - 1) * group_size + 1 to               *)
(* g * group_size, all of which exist; once they are all read they cover   *)
(* the first group_count * group_size boots, leaving fewer than           *)
(* group_size over (spec section 4.4).  About the integer division of     *)
(* line 282 and the slice bounds of line 286.                              *)
(***************************************************************************)
GroupsPartitionBoots ==
    /\ \A g \in DOMAIN slices :
         /\ slices[g] = ((g - 1) * groupSize + 1)..(g * groupSize)
         /\ g * groupSize <= bootCount
    /\ status \in {"rates", "done"} =>
         /\ UNION {slices[g] : g \in DOMAIN slices} = 1..(groupCount * groupSize)
         /\ 0 <= bootCount - groupCount * groupSize
         /\ bootCount - groupCount * groupSize < groupSize

(***************************************************************************)
(* Every reported rate is the spec's: the fraction of unordered pairs of   *)
(* the label's intervals, one per group that has the label, that do not   *)
(* intersect (spec section 4.4), and each label is rated once, in sorted   *)
(* order.  About the j < i loop and the comparisons count of lines         *)
(* 272-276 and the by_test grouping of lines 290-293.                      *)
(***************************************************************************)
SpecRate(l) ==
    LET gs == {g \in DOMAIN resultsMaps : l \in DOMAIN resultsMaps[g]}
        pairs == {P \in SUBSET gs : Cardinality(P) = 2}
        bad == {P \in pairs : \E g, h \in P :
                  g < h /\ ~IntervalsIntersect(Interval(resultsMaps[g][l]),
                                               Interval(resultsMaps[h][l]))}
    IN  <<Cardinality(bad), Cardinality(pairs)>>

RatesMatchSpec ==
    /\ \A i \in DOMAIN rates :
         /\ rates[i][2][2] # 0
         /\ rates[i][2][1] * SpecRate(rates[i][1])[2]
              = SpecRate(rates[i][1])[1] * rates[i][2][2]
    /\ \A i, j \in DOMAIN rates : i < j => rates[i][1] < rates[j][1]

(***************************************************************************)
(* Spec section 8: the MismatchRate of k identical intervals is 0.  So a   *)
(* label whose groups all produced the same Stats has rate 0.              *)
(***************************************************************************)
IdenticalIntervalsRateZero ==
    \A i \in DOMAIN rates :
        LET ivs == byTest[rates[i][1]]
        IN  (\A p, q \in DOMAIN ivs : ivs[p] = ivs[q]) => rates[i][2][1] = 0

(***************************************************************************)
(* Spec section 5: a degenerate input aborts the validation, and nothing   *)
(* else does; no default value masks it.  The run ends in "crashed" only   *)
(* if the group size is 0, a group's aggregation raised, no group produced *)
(* a test case (the mean width is Mean([]), line 303), a label was         *)
(* produced by fewer than two groups (its rate is 0/0, line 276) or some   *)
(* Stats has mean 0 (its relative width divides by it, line 87); and a     *)
(* report is written only when none of these holds.  About the order of    *)
(* the fatal divisions of lines 276, 282 and 303-306.                      *)
(***************************************************************************)
GroupsWith(l) == {g \in DOMAIN resultsMaps : l \in DOMAIN resultsMaps[g]}

Degenerate ==
    \/ groupSize = 0
    \/ Len(slices) > Len(resultsMaps)
    \/ \A g \in DOMAIN resultsMaps : DOMAIN resultsMaps[g] = {}
    \/ \E g \in DOMAIN resultsMaps : \E l \in DOMAIN resultsMaps[g] :
          Cardinality(GroupsWith(l)) < 2 \/ resultsMaps[g][l].mean = 0

FailsOnlyOnDegenerateInput ==
    /\ status = "crashed" => Degenerate
    /\ status = "done" => ~Degenerate

=============================================================================
