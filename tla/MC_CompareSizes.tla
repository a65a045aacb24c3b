---------------------------- MODULE MC_CompareSizes ----------------------------
(* Instance of CompareSizes for TLC: two blobs whose sizes may be 0 or     *)
(* equal, so that empty and all-zero snapshots and duplicate sizes occur.  *)
EXTENDS CompareSizes

MCBlobs == {"x", "y"}
MCSizes == {0, 2, 3}
=============================================================================
