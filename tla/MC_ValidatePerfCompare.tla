----------------------- MODULE MC_ValidatePerfCompare -----------------------
(* Instance of ValidatePerfCompare for TLC: two labels, up to three boots, *)
(* group sizes 0 to 3 (0 divides by zero, 3 may exceed the boot count),    *)
(* and Stats whose intervals may be zero-width, touching or disjoint and   *)
(* whose mean may be 0.                                                    *)
EXTENDS ValidatePerfCompare

MCLabels == {1, 2}
MCMeans == {0, 2}
MCOffsets == {0, 1}
=============================================================================
