--------------------------- MODULE MC_ComparePerf ---------------------------
(* Instance of ComparePerf for TLC: two labels, and means and offsets that  *)
(* produce touching, nested, disjoint, zero-width, zero-ended and           *)
(* negative-ended confidence intervals.                                     *)
EXTENDS ComparePerf

MCLabels == {1, 2}
MCMeans == {0, 1, 3}
MCOffsets == {0, 1, 2}
=============================================================================
