------------------------------ MODULE PerfStats ------------------------------
(***************************************************************************)
(* The Stats objects of garnet/bin/perfcompare/perfcompare.py (lines       *)
(* 69-87) as the comparison and the validation read them, and the          *)
(* interval test IntervalsIntersect (lines 264-266).                       *)
(*                                                                         *)
(* A Stats object is its mean and its CI offset, the half-width            *)
(* -t.ppf(ALPHA / 2, n - 1) * stddev / sqrt(n) of line 74, which is >= 0   *)
(* and is 0 exactly when the sample's standard deviation is.  Both are     *)
(* integers from small sets: the relations between interval end points,    *)
(* all that the callers read, are kept exactly.                            *)
(***************************************************************************)
EXTENDS Integers, FiniteSets

CONSTANTS
    Labels,     \* test case names; ordered, as sorted() orders them
    Means,      \* values a Stats mean may take
    Offsets     \* values a Stats CI offset may take

ASSUME LabelsAssumption == Labels \subseteq Nat /\ IsFiniteSet(Labels)
ASSUME MeansAssumption == Means \subseteq Int
ASSUME OffsetsAssumption == Offsets \subseteq Nat

Stats == [mean : Means, offset : Offsets]

\* self.interval = (mean - offset, mean + offset)   (line 79)
Interval(s) == <<s.mean - s.offset, s.mean + s.offset>>

\* A dict mapping some test names to Stats objects (ResultsFromDirs, line 156).
ResultsMaps == UNION {[S -> Stats] : S \in SUBSET Labels}

\* IntervalsIntersect (lines 264-266).
IntervalsIntersect(i1, i2) == ~(i2[1] >= i1[2] \/ i2[2] <= i1[1])
=============================================================================
