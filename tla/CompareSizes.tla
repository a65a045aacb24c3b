------------------------------ MODULE CompareSizes ------------------------------
(***************************************************************************)
(* TotalSize() and CompareSizes() of garnet/bin/perfcompare/perfcompare.py *)
(* (lines 322-335): the "compare_sizes" subcommand.                        *)
(*                                                                         *)
(* Each snapshot file holds a "blobs" mapping, blob -> {"size": n}; here   *)
(* it is a function from some blob names to sizes.  Reading a file may     *)
(* fail (open or json.load raise, or a key is missing), which aborts the   *)
(* command before anything is printed.  Otherwise the four lines are       *)
(* printed; a printed line is a record of its caption and its value, the  *)
(* factor being the exact fraction <<after, before>>.                      *)
(***************************************************************************)
EXTENDS Integers, Sequences, Functions

CONSTANTS
    Blobs,      \* blob names of a system.snapshot file
    Sizes       \* the sizes a blob may have

VARIABLES
    before,     \* the blobs of args.snapshot_before
    after,      \* the blobs of args.snapshot_after
    out,        \* the lines printed, in order
    status      \* "start", then "done" or "crashed"

vars == <<before, after, out, status>>

Snapshots == UNION {[S -> Sizes] : S \in SUBSET Blobs}

\* Line 325: sum(info['size'] for info in data['blobs'].itervalues())
TotalSize(blobs) == SumFunction(blobs)

Init ==
    /\ before \in Snapshots
    /\ after \in Snapshots
    /\ out = <<>>
    /\ status = "start"

\* Lines 322-324, 330: open() or json.load() of a snapshot raises.
ReadFails ==
    /\ status = "start"
    /\ status' = "crashed"
    /\ UNCHANGED <<before, after, out>>

Report ==
    LET sizes == <<TotalSize(before), TotalSize(after)>>
    IN  /\ status = "start"
        /\ out' = <<[caption |-> "before", value |-> sizes[1]],
                    [caption |-> "after", value |-> sizes[2]],
                    [caption |-> "diff", value |-> sizes[2] - sizes[1]]>>
                  \o (IF sizes[1] # 0
                        THEN <<[caption |-> "factor", value |-> <<sizes[2], sizes[1]>>]>>
                        ELSE <<>>)
        /\ status' = "done"
        /\ UNCHANGED <<before, after>>

Next == ReadFails \/ Report

Spec == Init /\ [][Next]_vars

-----------------------------------------------------------------------------
(***************************************************************************)
(* Properties                                                              *)
(***************************************************************************)

\* A printed line: a byte count, or the factor as a fraction.
PrintedLines ==
    [caption : {"before", "after", "diff"}, value : Int]
      \cup [caption : {"factor"}, value : Int \X (Int \ {0})]

(***************************************************************************)
(* The command prints well-typed lines, and a factor only as a fraction    *)
(* with a non-zero divisor: float(sizes[1]) / sizes[0] (line 334) is       *)
(* evaluated only when the before total is not 0, also for a snapshot      *)
(* with no blobs or only empty ones.                                        *)
(***************************************************************************)
TypeOK ==
    /\ before \in Snapshots
    /\ after \in Snapshots
    /\ out \in Seq(PrintedLines)
    /\ status \in {"start", "done", "crashed"}
=============================================================================
