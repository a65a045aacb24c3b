--------------------------- MODULE ResultsFromDirs ---------------------------
(***************************************************************************)
(* The three-level aggregation of ResultsFromDirs() in                     *)
(* garnet/bin/perfcompare/perfcompare.py (lines 139-156), with the Stats   *)
(* construction it ends with (lines 55-79).                                *)
(*                                                                         *)
(* The boots are read one after the other.  Within a boot, every test-case *)
(* record {label, values} of every process-run file is reduced to the mean *)
(* of its values without the first (warm-up) one, and appended to          *)
(* results_for_boot[label].  At the end of the boot each label's list is   *)
(* reduced to its mean and appended to results_map[label].  After the last *)
(* boot every label's list becomes a Stats object.                         *)
(*                                                                         *)
(* The process-run files of a boot only group records; each record is     *)
(* reduced on its own, so a boot is modelled as the sequence of its        *)
(* records, delivered one at a time by the I/O layer (RawResultsFromDir).  *)
(* The records read so far are kept in the history variable "input", so   *)
(* that the result can be compared with the spec's definition.  Stats is   *)
(* abstracted to its exact mean and whether its standard deviation is      *)
(* positive (the t-quantile offset is positive exactly then).              *)
(***************************************************************************)
EXTENDS Integers, Sequences, FiniteSets, RatArith

CONSTANTS
    Labels,         \* test case names
    Samples,        \* the "values" lists a record may carry
    MaxBoots,       \* the most boots (directories) passed in
    MaxRecords      \* the most test-case records read in one boot

ASSUME SamplesAssumption == Samples \subseteq Seq(Int) \ {<<>>}
ASSUME BoundsAssumption == MaxBoots \in Nat /\ MaxRecords \in Nat

VARIABLES
    nBoots,         \* len(filenames)
    boot,           \* index of the boot being read; nBoots + 1 once all are
    forBoot,        \* results_for_boot: label -> means of that boot's records
    resultsMap,     \* results_map: label -> per-boot means
    results,        \* the returned map: label -> Stats
    input,          \* history: the records read, per boot
    status          \* "reading", then "done" or "crashed" (AssertionError)

vars == <<nBoots, boot, forBoot, resultsMap, results, input, status>>

Record == [label : Labels, values : Samples]

\* The abstraction of a Stats object: its mean, and whether stddev > 0.
StatsOf(s) == [mean |-> RatMean(s), spread |-> ~AllEqual(s)]

\* d.setdefault(l, []).append(x)
AppendTo(d, l, x) ==
    IF l \in DOMAIN d
      THEN [d EXCEPT ![l] = Append(@, x)]
      ELSE [m \in DOMAIN d \cup {l} |-> IF m = l THEN <<x>> ELSE d[m]]

Empty == [l \in {} |-> <<>>]

Init ==
    /\ nBoots \in 0..MaxBoots
    /\ boot = 1
    /\ forBoot = Empty
    /\ resultsMap = Empty
    /\ results = Empty
    /\ input = [b \in 1..nBoots |-> <<>>]
    /\ status = "reading"

\* Mutant: values[2:] instead of values[1:], dropping two values.
ReadTestCaseDropTwo(r) ==
    /\ status = "reading"
    /\ boot <= nBoots
    /\ Len(input[boot]) < MaxRecords
    /\ Len(r.values) >= 2
    /\ forBoot' = AppendTo(forBoot, r.label, IntMean(Tail(Tail(r.values))))
    /\ input' = [input EXCEPT ![boot] = Append(@, r)]
    /\ UNCHANGED <<nBoots, boot, resultsMap, results, status>>

(***************************************************************************)
(* Lines 144-153: one test-case record of the current boot.  Its mean      *)
(* without the warm-up value is appended to results_for_boot[label].       *)
(***************************************************************************)
ReadTestCase(r) ==
    /\ status = "reading"
    /\ boot <= nBoots
    /\ Len(input[boot]) < MaxRecords
    /\ Len(r.values) >= 2
    /\ forBoot' = AppendTo(forBoot, r.label, IntMean(Tail(r.values)))
    /\ input' = [input EXCEPT ![boot] = Append(@, r)]
    /\ UNCHANGED <<nBoots, boot, resultsMap, results, status>>

\* Line 151 with a single value: Mean([]) raises AssertionError (line 49).
ReadShortTestCase(r) ==
    /\ status = "reading"
    /\ boot <= nBoots
    /\ Len(input[boot]) < MaxRecords
    /\ Len(r.values) < 2
    /\ input' = [input EXCEPT ![boot] = Append(@, r)]
    /\ status' = "crashed"
    /\ UNCHANGED <<nBoots, boot, forBoot, resultsMap, results>>

\* Mutant: results_for_boot created once, before the loop over boots.
EndBootNoReset ==
    /\ status = "reading"
    /\ boot <= nBoots
    /\ resultsMap' =
         [l \in DOMAIN resultsMap \cup DOMAIN forBoot |->
            IF l \in DOMAIN forBoot
              THEN IF l \in DOMAIN resultsMap
                     THEN Append(resultsMap[l], RatMean(forBoot[l]))
                     ELSE <<RatMean(forBoot[l])>>
              ELSE resultsMap[l]]
    /\ boot' = boot + 1
    /\ UNCHANGED <<nBoots, forBoot, results, input, status>>

(***************************************************************************)
(* Lines 154-155: the boot's files are exhausted; each label's per-record  *)
(* means are averaged and appended to results_map, and results_for_boot    *)
(* starts empty for the next boot (line 142).                              *)
(***************************************************************************)
EndBoot ==
    /\ status = "reading"
    /\ boot <= nBoots
    /\ resultsMap' =
         [l \in DOMAIN resultsMap \cup DOMAIN forBoot |->
            IF l \in DOMAIN forBoot
              THEN IF l \in DOMAIN resultsMap
                     THEN Append(resultsMap[l], RatMean(forBoot[l]))
                     ELSE <<RatMean(forBoot[l])>>
              ELSE resultsMap[l]]
    /\ forBoot' = Empty
    /\ boot' = boot + 1
    /\ UNCHANGED <<nBoots, results, input, status>>

\* Mutant: MeanAndStddev's check written "len(values) <= 2".
MakeStatsNeedsThree ==
    /\ status = "reading"
    /\ boot = nBoots + 1
    /\ \/ /\ \A l \in DOMAIN resultsMap : Len(resultsMap[l]) >= 3
          /\ results' = [l \in DOMAIN resultsMap |-> StatsOf(resultsMap[l])]
          /\ status' = "done"
       \/ /\ \E l \in DOMAIN resultsMap : Len(resultsMap[l]) < 3
          /\ status' = "crashed"
          /\ UNCHANGED results
    /\ UNCHANGED <<nBoots, boot, forBoot, resultsMap, input>>

\* Mutant: labels with a single boot value are silently left out.
MakeStatsSkipShort ==
    /\ status = "reading"
    /\ boot = nBoots + 1
    /\ results' = [l \in {m \in DOMAIN resultsMap : Len(resultsMap[m]) >= 2} |->
                     StatsOf(resultsMap[l])]
    /\ status' = "done"
    /\ UNCHANGED <<nBoots, boot, forBoot, resultsMap, input>>

(***************************************************************************)
(* Line 156: every label's per-boot means become a Stats object.  Stats    *)
(* with a single boot value raises AssertionError in MeanAndStddev (lines  *)
(* 56-59) and the whole call fails.                                        *)
(***************************************************************************)
MakeStats ==
    /\ status = "reading"
    /\ boot = nBoots + 1
    /\ \/ /\ \A l \in DOMAIN resultsMap : Len(resultsMap[l]) >= 2
          /\ results' = [l \in DOMAIN resultsMap |-> StatsOf(resultsMap[l])]
          /\ status' = "done"
       \/ /\ \E l \in DOMAIN resultsMap : Len(resultsMap[l]) < 2
          /\ status' = "crashed"
          /\ UNCHANGED results
    /\ UNCHANGED <<nBoots, boot, forBoot, resultsMap, input>>

Next ==
    \/ \E r \in Record : ReadTestCase(r) \/ ReadShortTestCase(r)
    \/ EndBoot
    \/ MakeStats

Spec == Init /\ [][Next]_vars

-----------------------------------------------------------------------------
(***************************************************************************)
(* Properties                                                              *)
(***************************************************************************)

TypeOK ==
    /\ nBoots \in 0..MaxBoots
    /\ boot \in 1..nBoots + 1
    /\ DOMAIN forBoot \subseteq Labels
    /\ \A l \in DOMAIN forBoot : forBoot[l] \in Seq(Rat) \ {<<>>}
    /\ DOMAIN resultsMap \subseteq Labels
    /\ \A l \in DOMAIN resultsMap : resultsMap[l] \in Seq(Rat) \ {<<>>}
    /\ DOMAIN results \subseteq Labels
    /\ input \in [1..nBoots -> Seq(Record)]
    /\ status \in {"reading", "done", "crashed"}

(***************************************************************************)
(* The reference definition of the spec (section 4.2): the value of a      *)
(* boot for a label is the mean, over that boot's records of the label, of *)
(* the mean of the record's values after the first; the sample of a label  *)
(* is the sequence of those boot values over the boots that ran it.        *)
(***************************************************************************)
BootsWith(l, k) == {b \in 1..k : \E i \in DOMAIN input[b] : input[b][i].label = l}

RecordMeans(b, l) ==
    LET recs == SelectSeq(input[b], LAMBDA r : r.label = l)
    IN  [i \in DOMAIN recs |-> IntMean(Tail(recs[i].values))]

RefSample(l, k) ==
    LET f[j \in 0..k] ==
          IF j = 0 THEN <<>>
          ELSE IF j \in BootsWith(l, k) THEN Append(f[j - 1], RatMean(RecordMeans(j, l)))
          ELSE f[j - 1]
    IN  f[k]

SeqRatEq(s, t) == Len(s) = Len(t) /\ \A i \in DOMAIN s : RatEq(s[i], t[i])

(***************************************************************************)
(* results_map always holds, for every label, exactly the spec's per-boot  *)
(* values of the boots already finished, in boot order, and               *)
(* results_for_boot the per-record values of the current boot: no record  *)
(* of one boot leaks into another and none is lost or counted twice, and   *)
(* the warm-up value never enters a mean.  About lines 142-155.            *)
(***************************************************************************)
AggregationMatchesSpec ==
    /\ \A l \in Labels :
         \/ l \notin DOMAIN resultsMap /\ BootsWith(l, boot - 1) = {}
         \/ l \in DOMAIN resultsMap /\ SeqRatEq(resultsMap[l], RefSample(l, boot - 1))
    /\ status = "reading" /\ boot <= nBoots =>
         \A l \in Labels :
           \/ l \notin DOMAIN forBoot /\ RecordMeans(boot, l) = <<>>
           \/ l \in DOMAIN forBoot /\ SeqRatEq(forBoot[l], RecordMeans(boot, l))

(***************************************************************************)
(* A successful call returns Stats for exactly the labels some boot ran,   *)
(* each with the mean of its per-boot values, and a zero standard          *)
(* deviation exactly when those values are all equal.  About line 156.     *)
(***************************************************************************)
ResultsMatchSpec ==
    status = "done" =>
      /\ DOMAIN results = {l \in Labels : BootsWith(l, nBoots) # {}}
      /\ \A l \in DOMAIN results :
           /\ RatEq(results[l].mean, RatMean(RefSample(l, nBoots)))
           /\ results[l].spread = ~AllEqual(RefSample(l, nBoots))

(***************************************************************************)
(* The call fails exactly on a sample too small for its statistic: a       *)
(* record with no value after the warm-up (spec 4.2 step 1), or a label    *)
(* that only one boot ran, whose per-boot sample has a single value (spec  *)
(* section 3: Stats needs at least 2).  A label missing from some boots    *)
(* but run by two or more is not an error (spec 4.2 step 4).  About the    *)
(* reset of results_for_boot per boot (line 142) and the size check of    *)
(* MeanAndStddev reached from line 156.                                    *)
(***************************************************************************)
ShortRecordRead ==
    \E b \in 1..nBoots : \E i \in DOMAIN input[b] : Len(input[b][i].values) < 2

SingleBootLabel == \E l \in Labels : \E b \in 1..nBoots : BootsWith(l, nBoots) = {b}

FailsExactlyOnShortSample ==
    status # "reading" => ((status = "crashed") <=> (ShortRecordRead \/ SingleBootLabel))
=============================================================================
