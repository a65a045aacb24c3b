# Formal models of perfcompare

This directory holds TLA+ models of `garnet/bin/perfcompare/perfcompare.py`, the tool that compares two sets of Fuchsia performance test results, and of the Rust helpers of the developer shell (`tools/devshell/contrib/lib/rust/rust.py` and `gen-cargo.py`). It has TLC configurations that model-check the models on small instances, abstract specifications of the comparison and of gen-cargo that the detailed models are shown to implement, and TLAPS proofs, for all values of the constants, of the comparison table's correctness, of the grouping of boots in the validation, of gen-cargo's target discovery and link, of the first-"_build"-line result of `get_rust_target_from_file`, and of both refinements. `PROJECT.json` lists the components, runs, mutants, the map from definitions to source lines, the findings, the hazards and the theorems.

## 1. The system

`perfcompare.py` is a sequential Python 2 program with three sub-commands (`Main`, lines 338-381).

* **SampleStatistics**: `Mean`, `MeanAndStddev` and `Stats` (lines 47-87).
  * A `Stats` object holds a mean and a confidence-interval offset. The offset is the t-quantile times stddev/sqrt(n).
  * Its `interval` is (mean - offset, mean + offset).
  * `IntervalsIntersect` (264-266) tests two intervals as open intervals.
* **HierarchicalAggregator**: `ResultsFromDirs` (139-156).
  * For every boot directory, every test-case record `{label, values}` is reduced to the mean of `values[1:]`. The first value is a warm-up run and is dropped.
  * At the end of a boot, each label's record means are averaged into one per-boot value.
  * At the end, each label's per-boot values become a `Stats`.
  * `RawResultsFromDir` and `ResultsFromDir` do only the file I/O that delivers the records.
* **RegressionClassifier**: `ComparePerf` (190-261).
  * It loops over the sorted union of the labels of two results maps.
  * Each label is classified as added, removed, slower, faster or no_sig_diff, and gets a factor range.
  * It counts the verdicts and writes a difference table and a full table.
* **MethodologyValidator**: `ValidatePerfCompare` and `MismatchRate` (271-319).
  * It splits the boots of one build into groups of `group_size` and aggregates each group.
  * For each label in sorted order, it computes the rate of non-intersecting pairs among the groups' intervals.
  * It reports the mean rate and the mean relative CI width.
* **SizeComparator**: `TotalSize` and `CompareSizes` (322-335). These sum blob sizes from two JSON snapshots and print the difference.

ComparePerf and ValidatePerfCompare both call the aggregator and then work on its results maps. The program has no threads, callbacks or persisted state. Its hard parts are:

* numeric boundaries: zero-width intervals, touching intervals, zero divisors, empty samples, and a group size of 0 or larger than the boot count;
* ordering and bookkeeping over many loop iterations;
* one failing element aborting a whole call.

These are what the models explore.

The Rust helpers of the developer shell are outside the specified system but are code of this repository, and are modelled too:

* `rust.get_rust_target_from_file` (rust.py 94-157) asks ninja for the outputs built from a `.rs` file, then asks GN, output by output, which targets refer to each; the first line ending in `_build` becomes a `GnTarget`.
* `gen-cargo.py` `main()` (16-58) builds a `GnTarget` from its argument. For `.` or `.:name` it scans the output of `fx build -t targets` for the one `<name>_cargo` target at the current directory or above it (`_find_cargo_target`, `_walk_up_path`, rust.py 14-38). It then picks the Fuchsia Cargo.toml of the target, or the host one if that is missing (`manifest_path`, 71-92), and symlinks the output path to it. If `fx` itself fails (rust.py 25), `check_output` raises CalledProcessError, which argparse does not catch: the script ends with a traceback and exit status 1.

Both are sequential scripts whose environment (ninja, GN, the targets listing, the file system) answers or fails.

The other files under `src/` are not modelled: `build/images/*` (image packaging), `scripts/paths.py` (environment constants) and the fuzzing tests.

## 2. Modules

| Module | Models | State / actions |
|---|---|---|
| `PerfStats` | `Stats.interval` (79) and `IntervalsIntersect` | CONSTANTS `Labels`, `Means`, `Offsets`. `Stats` is the record `[mean, offset]`. `ResultsMaps` is every partial map from labels to Stats. |
| `RatArith` | `Mean` (47-50), and stddev = 0 (60-66) | Exact rationals as `<<num, den>>`. `RatSum` is a recursive *function*, not a RECURSIVE operator, so proof modules may use it. |
| `ComparePerf` | `ComparePerf` loop (190-261) | Variables `before`, `after`, `todo` (labels not yet visited), `counts`, `allRows`, `diffRows` and `status`. There is one action per branch of the loop body: `CompareAdded`, `CompareRemoved` and `CompareBoth`. `CompareBoth` includes the ZeroDivisionError of lines 224-225 as a `crashed` disjunct. `Record` is the shared tail of the loop body (235-239). `Report` stands for the output. |
| `ResultsFromDirs` | `ResultsFromDirs` (139-156) with `MeanAndStddev`'s size check | Variables `nBoots`, `boot`, `forBoot` (`results_for_boot`), `resultsMap`, `results`, the history `input`, and `status`. The actions are `ReadTestCase(r)`, `ReadShortTestCase(r)` (Mean([]) raises), `EndBoot` and `MakeStats`. `MakeStats` raises if a label has only one per-boot value. |
| `ValidatePerfCompare` | `ValidatePerfCompare` and `MismatchRate` (271-319) | The actions are `SplitGroups` and `SplitGroupsByZero`; `LoadGroup(m)` and `LoadGroupFails`, where a group's aggregation returns a results map or raises (a one-boot group returns only the empty map: with a label, every sample has one value and `MeanAndStddev` raises); `GroupByTest`; `ComputeRate` and `ComputeRateByZero`; and `Report` and `ReportFails` (Mean of nothing, or a zero mean in the relative width). |
| `ComparePerfAbstract` | What the classifier promises (spec 4.3 and 5) | Variables `before`, `after`, `verdicts` (label -> verdict) and `status`. `Decide(l)` gives any undecided label its spec verdict, `Abort(l)` stops on a label whose factor range is undefined, `Finish` ends once every label is decided. No order is imposed. |
| `CompareSizes` | `TotalSize` and `CompareSizes` (322-335) | Variables `before`, `after` (blob -> size), `out` (the printed lines as caption/value records) and `status`. `ReadFails` (a snapshot cannot be read) and `Report` (both sums, the three lines and the guarded factor). The code is a sum and a guarded division; the one thing checked is that the division is defined. |
| `RustTarget` | `get_rust_target_from_file` (rust.py 94-157) | Variables `pc`, `isRust`, `pending` (outputs not yet asked about), `lines` (GN's answer still to scan), the history `seen`, `result` and `target`. Actions `NotRustFile`, `NinjaFails`, `NinjaAnswers(n)`, `GnRefsFails`, `GnRefs(ls)`, `ScanLine`, `ScanEnd`, `NotFound`. `seen` is the flat history of every GN line read, in order; `GnRefs(ls)` appends the answer to it. A GN name is a sequence of characters so that `RStrip` is `str.rstrip`. The module uses only `Integers` and `Sequences`, so its properties can be proved. `RustNamesAssumption` says that names are strings and that no GN directory is `"none"`, the path of the `NoTarget` marker. |
| `GenCargo` | gen-cargo `main()` with `GnTarget`, `_find_cargo_target`, `_walk_up_path`, `manifest_path` | Variables for the argument, the current directory, the targets listing and the scan index, the targets found, the `GnTarget`, the chosen manifest, whether each Cargo.toml exists, what the output path holds, and the exit status. Actions `ParseLabel`, `ListingFails` (fx fails before any line is read), `DiscoverLine`, `DiscoverEnd`, `ManifestPath`, `Link`, `NoManifest`. Paths are sequences of directory names so that walking up and `basename` are exact. |
| `GenCargoAbstract` | What gen-cargo promises (its help text; rust.py comments at 75-80 and 85-86) | Inputs `arg`, `cwd`, `listing`, `targetBuilt`, `hostBuilt`, `output`, and `outcome` and `link`. One action `Finish` goes from `running` to the outcome the inputs call for: for `.`, possibly fx's failure; a ValueError when `.` names no single cargo target, the internal error when neither Cargo.toml exists, an OSError on a directory, or a link to the resolved target's Fuchsia Cargo.toml, else the host one. |
| `MC_*` | TLC instances | Small label, mean, offset, sample, blob, path and name sets. |
| `ComparePerf_proofs`, `ValidatePerfCompare_proofs`, `GenCargo_proofs`, `RustTarget_proofs` | TLAPS proofs | See section 5. |

Data abstraction:

* A Stats offset comes from `scipy.stats.t.ppf` in the code. In `PerfStats` it is a small integer. In `ResultsFromDirs` it is abstracted to whether it is positive, i.e. whether the sample's values differ.
* Means are exact rationals, so the properties compare exact values. Float rounding is not modelled (see the hazard at line 74).
* The inputs a model enumerates are all states the program can be in:
  * any results map over the labels, for the comparison;
  * any sequence of records with 1 to 3 values, for the aggregator;
  * any boot count and any `group_size` in 0..3, for the validator, with any results map for a group of two or more boots.

## 3. Runs

| Run | Config | Result |
|---|---|---|
| compare_perf | `MC_ComparePerf.cfg`: labels {1,2}, means {0,1,3}, offsets {0,1,2} | Passes. 34,742 distinct states. |
| compare_factor_range | `MC_ComparePerf_FactorRangeOrdered.cfg` | Violated. See the findings. |
| compare_identical_stats | `MC_ComparePerf_IdenticalStatsNoSigDiff.cfg` | Violated. |
| aggregate_boots | `MC_ResultsFromDirs.cfg`: labels {1,2}, value lists <<9>>, <<9,1>> and <<9,1,3>>, up to 3 boots of up to 2 records | Passes. About 34,500 states. |
| validate | `MC_ValidatePerfCompare.cfg`: labels {1,2}, means {0,2}, offsets {0,1}, up to 4 boots, group sizes 0..3 | Passes. 2,968 distinct states. |
| validate_identical_intervals | `MC_ValidatePerfCompare_IdenticalIntervalsRateZero.cfg` (4 boots) | Violated: two groups of two boots with the same zero-width interval. |
| compare_sizes | `MC_CompareSizes.cfg`: blobs {x,y}, sizes {0,2,3} | Passes. 768 distinct states. |
| rust_target | `MC_RustTarget.cfg`: paths {a,b}, names `x_build`, `lib_build`, `x_copy`, up to 2 outputs of up to 2 GN lines | Passes. 780 distinct states. |
| rust_build_suffix | `MC_RustTarget_TargetIsBuildRuleBase.cfg` | Violated. |
| gen_cargo | `MC_GenCargo.cfg`: paths a, a/b, c; names {a,t}; up to 2 listing lines | Passes. About 1.39 million distinct states, 20 s. |
| gen_cargo_exit_status | `MC_GenCargo_ErrorExitsNonZero.cfg` | Violated. |

Properties checked by the passing runs:

* **RowsSortedAndComplete**: the rows and the labels still to visit partition the union of both maps' labels, and the rows are strictly ascending and come before every label still to visit.
* **VerdictSound**:
  * added/removed hold exactly when the label is on one side only;
  * slower implies a0 >= b1, faster implies a1 <= b0 and not slower, and no_sig_diff implies the intervals intersect;
  * the factor range is built from the label's own intervals.
* **CountsMatchRows**:
  * each count equals the number of rows with that verdict;
  * `diffRows` is `allRows` without its no_sig_diff rows, in the same order;
  * once done, the counts sum to the number of labels.
* **AggregationMatchesSpec**:
  * `resultsMap` always equals, per label, the specification's reference sample over the finished boots;
  * `forBoot` equals the per-record means of the current boot.

  The reference is `RefSample`, a recursive function over the boots, built from the history.
* **ResultsMatchSpec**: a successful call returns Stats for exactly the labels that some boot ran, with the reference mean and spread.
* **FailsExactlyOnShortSample**: once the call ends, it has failed exactly when a record had no value after the warm-up, or a label was run by only one boot. A single per-boot value is too small a sample for Stats (spec section 3). A label missing from some boots but run by two or more is not an error (spec 4.2 step 4). Violating it takes several boots: `results_for_boot` not reset, or a wrong size check in `MeanAndStddev`.
* **GroupsPartitionBoots**: group `g` reads exactly the boots `(g-1)*group_size+1 .. g*group_size`, all of which exist, so the groups are disjoint, ordered runs of `group_size` boots. Once all are read they cover the first `group_count*group_size` boots with fewer than `group_size` left over. The slices are stated as intervals rather than through their cardinality, so that the statement can be proved (section 5).
* **RatesMatchSpec**: each rate equals the specification's rate over unordered pairs of groups having the label, and labels are rated in ascending order.
* **FailsOnlyOnDegenerateInput**: the validation aborts exactly when its input is degenerate (spec section 5): group size 0, a group whose aggregation raised, no test case at all, a label in fewer than two groups (0/0 at line 276), or a Stats with mean 0 (the relative width at line 87). A report is written only when none of these holds.
* **ImplementsAbstract**: `ComparePerf` implements `ComparePerfAbstract`. The refinement mapping `TableVerdicts` reads each visited label's verdict off its row in `allRows`; the maps and the status map to themselves. Every concrete step must be an abstract `Decide`, `Abort` or `Finish` or leave the abstract state unchanged. So each row carries the spec verdict of a label not decided before, a crash happens only on a label whose factor range is undefined, and the report comes only when every label has its verdict.
* **TypeOK** of `CompareSizes`: the printed lines are well typed, and a factor is printed only as a fraction with a non-zero divisor. So the division of line 334 is only evaluated when it is defined, including for a snapshot with no blobs or only empty ones.
* **FirstBuildRefReturned**: a returned target comes from the first `_build` line over all GN answers, in the order of the outputs and of the lines; None is returned only if no line read ends with `_build`.
* **DiscoveryMatchesSpec**: once fx has listed the targets, `.`/`.:name` resolves to the target when exactly one `_cargo` target sits at the current directory or above it (and has the requested name), with `_cargo` cut off; otherwise the program ends with ValueError. The reference `Candidates` is written independently of the scan. "Exactly one" is stated as `Candidates = {k}`, with no cardinality, so that it can be proved.
* **LinkMatchesManifests**: the link points to the Fuchsia Cargo.toml if it exists and else to the host one, at `gen/<path>/<name or last directory>/Cargo.toml`; "Internal error" happens exactly when neither exists.
* **OutputOnlyLinkedToBuiltManifest** (an action property): a step that changes the output path is the last step. It makes the path a link, sets exit status 0, and points the link at the resolved target's Cargo.toml that exists: the Fuchsia one if it exists, else the host one. The manifest was chosen two steps earlier, so this relates the write to the state left by `manifest_path` and the discovery.
* **GenCargoImplementsAbstract**: `GenCargo` implements `GenCargoAbstract`. The mapping `Outcome` is `running` until `pc` is final and then `pc`; `LinkedManifest` is the chosen manifest once done. So the scan, the resolution and the choice of manifest are stutters, and the last step is `Finish`. That includes fx's failure, which ends the run before anything is resolved or written.

Each property has a mutant in `PROJECT.json`: a plausible bug in the mapped code, which TLC catches under the run's own configuration. The mutants are:

* a `>` for `>=`;
* descending iteration;
* only faster and slower rows copied to the difference table;
* `values[2:]`;
* `results_for_boot` not reset between boots;
* short labels silently skipped;
* `MeanAndStddev`'s check written `len(values) <= 2`;
* the group count rounded up;
* a slice one past its end;
* `j <= i` in MismatchRate;
* a label with one pair of intervals taken for one with none;
* the `elif` for removed labels without its test of the after map (caught by the refinement);
* the factor guard testing the after size;
* ninja's header line taken for an output, GN's first line skipped;
* the `_cargo` suffix kept, the name filter dropped, `and` for `or` in `manifest_path`;
* the `os.path.exists` check before the link left out;
* `and` for `or` in `manifest_path` again, caught by the gen-cargo refinement.

**Bounds.** Why these bounds are enough:

* Two labels give every relation between the two maps' key sets: shared, before-only, after-only, and the ordering of two rows.
* Means {0,1,3} with offsets {0,1,2} give intervals that are disjoint, touching, overlapping, nested and identical. They also give both zero-width intervals and negative and zero end points.
* Three boots with two records each show a label repeated within a boot and across boots, a label missing from a boot, and a label in a single boot.
* Four boots with group sizes 0..3 cover:
  * zero groups, one group and two groups;
  * groups with leftover boots;
  * the division by zero;
  * one-boot groups, which only an empty boot lets through.

  Two groups of two boots need four boots: only then can a label have two intervals and a rate.

**Deadlock** is not checked (`CHECK_DEADLOCK FALSE`): every call of the program ends, either with its report (`done`) or with an exception (`crashed`), and then the process returns.

**Fairness and liveness.** No model assumes fairness, and no property is a liveness property. Every loop of the code is a `for` loop over a finite list or dict: the boots, the records, the labels, the GN answers and lines, the listing. The subprocesses and the file system answer in one step each. So every run ends whatever the code does in its loop bodies, and a termination property would check nothing about the code. The final states are reached in every run, and the invariants are checked there.

**Refinement.** `ComparePerfAbstract` is what the spec promises, without the order: any undecided label may be decided next. `ComparePerf` instantiates it with `Abs == INSTANCE ComparePerfAbstract WITH verdicts <- TableVerdicts`. The run compare_perf also checks `ImplementsAbstract == Abs!AbsSpec` as a temporal property, and `ComparePerf_proofs` proves it (section 5). In the same way `GenCargo` instantiates `GenCargoAbstract` with `outcome <- Outcome, link <- LinkedManifest`; the run gen_cargo checks `GenCargoImplementsAbstract`, and `GenCargo_proofs` proves it.

## 4. Findings

Each violation run reproduces a disagreement between the code and `spec.md`.

1. **Inverted factor range** (line 225).
   * With two or three boots, the t-quantile is large (about 63.7 for two boots), so the before interval's lower end is often negative.
   * `factor_max = a1/b0` is then below `factor_min`.
   * TLC's counterexample: before `[mean 0, offset 1]` and after `[mean 1, offset 0]` give the range `1.000--1.000`.
2. **Identical constant results are called slower** (line 226). Two identical zero-width intervals satisfy `a0 >= b1`. The spec's symmetry rule (section 8) requires no_sig_diff.
3. **Mismatch rate of identical intervals is 1** (line 265). `IntervalsIntersect` is false for identical zero-width intervals. Spec section 8 says the rate is 0.
4. **`rstrip("_build")` strips characters, not the suffix** (rust.py 154). The GN label `//a:lib_build` becomes the target `a:`, with an empty name. The comment at lines 129-130 says the base target name is returned.
5. **"Internal error" exits with status 0** (gen-cargo.py 55). `main()` returns None after printing the error, so `sys.exit(main())` reports success.

## 5. Proofs

`ComparePerf_proofs` proves these theorems for every finite set of natural-number labels and all mean and offset sets (assumptions `LabelsAssumption`, `MeansAssumption`, `OffsetsAssumption` and `DashAssumption`):

* `TypeCorrect`: `Spec => []TypeOK`.
* `TableCorrect`: `Spec => [](RowsSortedAndComplete /\ VerdictSound)`, with the corollaries `SortedComplete` and `VerdictsSound`.
* `Refinement`: `Spec => ImplementsAbstract`. The loop implements the abstract classifier.

The invariants are not inductive on their own. `RowsSortedAndComplete` needs the type invariant to know that `todo` is a finite set of naturals, so that `NextLabel` (the CHOOSE of the minimum) exists and is below every other label still to do. `VerdictSound` needs `before` and `after` to be unchanged and well typed. The inductive invariant is therefore `IInv == TypeOK /\ RowsSortedAndComplete /\ VerdictSound`.

The proof has one case per action. `Record` is handled once:

* `RecordEffect` describes what `Record` does to the row sequence.
* `RecordSorted` shows that appending the minimum of `todo` keeps the rows sorted and the partition intact.
* `RecordSound` shows that a row built from the label's own intervals satisfies `RowOK`.
* `RecordKeepsOldRows` shows that the old rows keep satisfying it.

The refinement proof takes `[]IInv` from the two theorems above:

* `Init` maps to `AbsInit`, since no row has been written yet.
* `RefinementStep` then shows `IInv /\ [Next]_vars => [AbsNext]_absVars`, with one case per action:
  * `CompareAdded`, `CompareRemoved` and the non-crashing `CompareBoth` are abstract `Decide` steps, through `DecideStep`;
  * the crashing `CompareBoth` is `Abort`;
  * `Report` is `Finish`, because `todo = {}` and the partition give `RowLabels = AllLabels`.

`DecideStep` rests on `TableVerdictsStep`: appending a row for the least label extends `TableVerdicts` by exactly that label, with the row's verdict. That needs the rows' labels to be unique (`LabelsUnique`, from the strict ascending order), so that the CHOOSE in `RowIndex` picks the same row before and after the step (`ChooseUnique`).

The minimum's existence (`MinExists`) comes from the well-foundedness of `<` on `Nat` (`WellFoundedInduction`). This avoids the induction theorems that take an operator parameter.

`ValidatePerfCompare_proofs` proves, under `BootsAssumption` and `GroupSizesAssumption`:

* `GroupsPartitionCorrect`: `Spec => []GroupsPartitionBoots`.

`GroupsPartitionBoots` is not inductive on its own. `LoadGroup` appends the slice of group `Len(results_maps)`. Only these facts show that this slice is a whole group of existing boots:

* the number of groups read equals the number of slices;
* `group_count = boot_count \div group_size`, so `group_count*group_size <= boot_count`;
* at most `group_count` slices are recorded.

`GroupInv` states them, together with the interval of every recorded slice. TLC checked it as an invariant of the validate instance before the proof. The proof of the step has one case per action. `GroupSliceInterval` turns the code's slice (the boots between `i*group_size` and `(i+1)*group_size`) into an interval once the group ends inside the boots. The cover and the remainder bound follow from `DivBounds`, with `g = (b-1) \div group_size + 1` as the group of boot `b`.

`GenCargo_proofs` proves, under `GenCargoAssumption`:

* `TypeCorrect`: `Spec => []TypeOK`.
* `DiscoveryCorrect`: `Spec => []DiscoveryMatchesSpec`.
* `LinkCorrect`: `Spec => []LinkMatchesManifests`.
* `OutputWriteCorrect`: `Spec => OutputOnlyLinkedToBuiltManifest`, the action property.
* `Refinement`: `Spec => GenCargoImplementsAbstract`.

The inductive invariant `IInv` has four parts:

* `TInv`: `TypeOK` plus the types of the listing, the directory and the file system.
* `ScanInv` relates the targets found so far to the listing lines before the scan index that are `Candidates` (`Hits(i-1)`): if none was found, no line hit; if one was found, exactly one line hit and the target is that line's; if two or more were found, two lines hit. This is needed because `DiscoverEnd` only sees `Len(found)`, and the property speaks of the whole listing.
* `ResolveInv`: after the scan (unless fx failed), the index is past the listing; a ValueError means `Len(found) # 1`; a resolved target is `found[1]`.
* `LinkInv`: from `linking` on, the manifest is the one `manifest_path` picks for the file system, and each final state agrees with what exists.

`MatchesCandidate` shows that the code's `Matches` (through `_walk_up_path`) is the reference's prefix test (`WalkUpPrefix`). `OutputStep` shows that only `Link`, in its linking branch, changes the output path; with `LinkInv` this gives the action property.

The refinement proof uses `[](IInv /\ ExplicitTarget)`. `ExplicitTarget` says that an explicit argument is the target, split at its colon. `RefinementStep` has one case per action:

* `ParseLabel`, `DiscoverLine`, `ManifestPath` and a successful `DiscoverEnd` keep the run `running` and the output untouched, so they are stutters.
* A failing `DiscoverEnd` is `Finish` with a ValueError. `ScanNotUnique` shows, from `ScanInv`, that no target is then the only candidate.
* `Link` and `NoManifest` are `Finish` with the link, an OSError or the internal error. `TargetResolved` shows that the resolved target is the one the promise names: the only candidate's, through `DiscoveryMatchesSpec`, or the explicit argument. `ManifestRelOf` shows that the manifest is `gen/<path>/<name>`.

`RustTarget_proofs` proves, under `RustBoundsAssumption` and `RustNamesAssumption`:

* `TypeCorrect`: `Spec => []TypeOK`.
* `FirstBuildCorrect`: `Spec => []FirstBuildRefReturned`.

`FirstBuildRefReturned` speaks of the whole history `seen`. The scan only looks at the head of `lines`. The inductive invariant `IInv == TypeOK /\ ScanInv` relates the two:

* while scanning, `lines` is the tail of `seen` (`LinesAreTail`), and no line before it ends with `"_build"`;
* between two GN answers, and when None is returned, no line read ends with `"_build"`;
* a returned target is `ToGnTarget` of a `FirstHit`: a line ending with `"_build"` with no such line before it;
* `result` is `"pending"` exactly while the function runs, and `target` is the marker until a target is returned.

TLC checked `IInv` as an invariant of the rust_target instance before the proof. The step proof has one lemma per action. `ScanFront` locates the head of `lines` in the history at index `Len(seen) - Len(lines) + 1`. `IInvGnRefs` uses the facts about `\o` (`ConcatFacts`) to show that the new answer is the tail of the new history. `FirstHitIsLeast` shows that the first hit is the least element of `BuildHits`, so the CHOOSE of the property picks it. The type of a returned target (`ToGnTargetType`) rests on `RStripPrefix`: `rstrip` returns a prefix, whose length is the greatest kept index (`GreatestExists`, from the well-foundedness of `<`).

**Only model-checked, and why:**

* Properties stated through `Cardinality`: `CountsMatchRows`, the `ValidatePerfCompare` `TypeOK` (a rate's count is a cardinality), `RatesMatchSpec` and `FailsOnlyOnDegenerateInput`. The provers know nothing of `Cardinality`, and the library's `FiniteSetTheorems` reaches a RECURSIVE operator through `Functions`/`Folds`, which takes away the SMT backend, so it cannot be used in a proof module. Where "exactly one" or "exactly `group_size`" could be said without a cardinality, the property was stated that way and proved.
* The `ResultsFromDirs` properties. They compare the state with the recursive functions `RatSum` and `RefSample`. What those compute for every input needs induction over data, which the installed provers cannot do.
* The `CompareSizes` type invariant. The model sums over functions with the community module `Functions`, which reaches RECURSIVE operators.
* `TargetIsBuildRuleBase` is violated (finding 5), so there is nothing to prove about it.
* Liveness and ENABLED are outside TLAPS; the project states no liveness property (see the fairness paragraph).

## 6. Not modelled

* Output formatting (`FormatTable`, `FormatCount` and the `%` formats): these are layout only.
* JSON and tar file reading: this is I/O. A boot is the sequence of records it delivers.
* The docstring of `get_rust_target_from_file` (lines 95-96) promises ValueError for a file that cannot be converted. The code returns a pair or None, or raises TypeError through `raise None` (lines 114, 145). `RustTarget` models these outcomes, but no run checks them against the docstring.
* `Main` and argparse: these only dispatch to the entry points. In gen-cargo, argparse's conversion of a ValueError into a usage error (exit status 2) is modelled.
* The text ninja and GN print: only the number of ninja's lines and GN's lines as path/name pairs are kept.
* `rust.py` lines 9-12 and `scripts/paths.py`: environment constants.
* The t-quantile's numeric value.
* Float rounding.
* Negative `--group_size` values. argparse accepts them (`type=int`). Then `boot_count / group_size` is not positive, no group is read, and `Mean([])` divides by zero (line 303). That is the same outcome as a `group_size` larger than the boot count, which the model includes. (`group_size` 0 fails earlier, at line 282.) The models take `group_size` in 0..3.

## 7. Plan for further work

1. A composition module. It would feed `ResultsFromDirs` results into `ComparePerf` and check that a label missing from all the boots of one side is reported as added or removed.
2. A `CountsMatchRows` proof, with the cardinality lemmas proved locally over `Nat` ranges.
3. A proof that `ValidatePerfCompare` aborts only on degenerate input (`FailsOnlyOnDegenerateInput`), with the cardinality facts proved locally.
4. The I/O layer's control, modelled by what it does: `IsResultsFilename`, the sorted listing in `RawResultsFromDir`, and the `by_boot` ordering in `ResultsFromDir`. Then a model of `Main`'s dispatch.
5. The ELF variant lookup of `build/images/variant.py` (`find_variant`, `deduce_aux_variant`). It has real branching over sanitizer runtimes and `.build-id` paths.
