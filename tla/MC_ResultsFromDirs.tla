------------------------- MODULE MC_ResultsFromDirs -------------------------
(* Instance of ResultsFromDirs for TLC: two labels, up to three boots of up *)
(* to two records.  The first value of every sample is the warm-up 9; the  *)
(* rest give record means 1 and 2, so that boots can agree or differ.     *)
EXTENDS ResultsFromDirs

MCLabels == {1, 2}
MCSamples == {<<9>>, <<9, 1>>, <<9, 1, 3>>}
=============================================================================
