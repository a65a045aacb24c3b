------------------------------ MODULE RustTarget ------------------------------
(***************************************************************************)
(* get_rust_target_from_file() of                                          *)
(* tools/devshell/contrib/lib/rust/rust.py (lines 94-157).                 *)
(*                                                                         *)
(* Given a source file, ninja is asked for the outputs built from it; for  *)
(* each output in turn GN is asked which targets refer to it, and the      *)
(* first line of GN's answer that ends with "_build" becomes a GnTarget    *)
(* after line.rstrip("_build").                                            *)
(*                                                                         *)
(* The two subprocesses are the environment: each query either fails      *)
(* (non-zero return code) or answers with some lines.  ninja's answer is   *)
(* abstracted to its number of output lines, since the output names are    *)
(* only passed on to GN, whose answer is chosen freely anyway.  A line of  *)
(* GN's answer is "//path:name": the path is a model value, and the name   *)
(* is a sequence of characters, because rstrip works character by          *)
(* character.  "raise None" raises TypeError in Python 2.                  *)
(***************************************************************************)
EXTENDS Integers, Sequences

CONSTANTS
    Paths,          \* directories of GN targets (never ".")
    Names,          \* target names, as sequences of one-character strings
    MaxOutputs,     \* the most outputs ninja lists for one file
    MaxLines        \* the most lines of one GN refs answer

ASSUME RustBoundsAssumption == MaxOutputs \in Nat /\ MaxLines \in Nat

\* A name is a string, a sequence of characters; "none" marks the target
\* not yet returned and is no GN directory (those start with "//").
ASSUME RustNamesAssumption == Names \subseteq Seq(STRING) /\ "none" \notin Paths

VARIABLES
    pc,             \* "start", "outputs", "scan", then "returned" or "raised"
    isRust,         \* file.endswith(".rs")
    pending,        \* output_files not yet passed to GN
    lines,          \* lines of the current GN answer not yet scanned
    seen,           \* history: the lines of GN's answers read so far, in order
    result,         \* what is returned or raised: "target" for a GnTarget
    target          \* the GnTarget returned, once result = "target"

vars == <<pc, isRust, pending, lines, seen, result, target>>

\* A line "//path:name" of the output of "gn refs".
RefLine == [path : Paths, name : Names]

\* The prefixes of a sequence, the empty one included.
PrefixesOf(s) == {SubSeq(s, 1, k) : k \in 0..Len(s)}

\* A GnTarget: its parts, the path and the name after the colon.
GnTargets == [path : Paths, name : UNION {PrefixesOf(n) : n \in Names}]

Build == <<"_", "b", "u", "i", "l", "d">>

\* line.endswith("_build")
EndsWithBuild(l) ==
    /\ Len(Build) <= Len(l.name)
    /\ SubSeq(l.name, Len(l.name) - Len(Build) + 1, Len(l.name)) = Build

\* The characters of "_build", the set rstrip removes.
BuildChars == {Build[k] : k \in DOMAIN Build}

\* s.rstrip(cs): drop the longest suffix made only of characters in cs.
RStrip(s, cs) ==
    LET keep == {i \in DOMAIN s : s[i] \notin cs}
    IN  IF keep = {} THEN <<>>
        ELSE SubSeq(s, 1, CHOOSE i \in keep : \A j \in keep : j <= i)

(***************************************************************************)
(* GnTarget(line.rstrip("_build")) (lines 154, 41-62).  The line starts    *)
(* with "//", so lstrip("/") leaves "path:name", whose first part is not  *)
(* "." and the constructor only splits it.  The colon is not in the       *)
(* stripped set, so rstrip only ever eats into the name.                  *)
(***************************************************************************)
ToGnTarget(l) == [path |-> l.path, name |-> RStrip(l.name, BuildChars)]

\* The value of target before a GnTarget is built.
NoTarget == [path |-> "none", name |-> <<>>]

Init ==
    /\ pc = "start"
    /\ isRust \in BOOLEAN
    /\ pending = 0
    /\ lines = <<>>
    /\ seen = <<>>
    /\ result = "pending"
    /\ target = NoTarget

\* Lines 97-98: not a Rust file; the function returns a (None, message) pair.
NotRustFile ==
    /\ pc = "start"
    /\ ~isRust
    /\ result' = "not_rust_pair"
    /\ pc' = "returned"
    /\ UNCHANGED <<isRust, pending, lines, seen, target>>

\* Lines 109-114: ninja fails; "raise None" raises TypeError.
NinjaFails ==
    /\ pc = "start"
    /\ isRust
    /\ result' = "TypeError"
    /\ pc' = "raised"
    /\ UNCHANGED <<isRust, pending, lines, seen, target>>

\* Mutant: lines[1:] for the outputs, taking the "outputs:" header for one.
NinjaAnswersOffByOne(n) ==
    /\ pc = "start"
    /\ isRust
    /\ IF n < 3
         THEN /\ result' = "none"
              /\ pc' = "returned"
              /\ UNCHANGED pending
         ELSE /\ pending' = n - 1
              /\ pc' = "outputs"
              /\ UNCHANGED result
    /\ UNCHANGED <<isRust, lines, seen, target>>

(***************************************************************************)
(* Lines 120-127: ninja answers with n lines.  Fewer than 3 lines return   *)
(* None; otherwise lines[2:] are the n - 2 output files.                   *)
(***************************************************************************)
NinjaAnswers(n) ==
    /\ pc = "start"
    /\ isRust
    /\ IF n < 3
         THEN /\ result' = "none"
              /\ pc' = "returned"
              /\ UNCHANGED pending
         ELSE /\ pending' = n - 2
              /\ pc' = "outputs"
              /\ UNCHANGED result
    /\ UNCHANGED <<isRust, lines, seen, target>>

\* Lines 140-145: GN fails for the next output; "raise None" again.
GnRefsFails ==
    /\ pc = "outputs"
    /\ pending > 0
    /\ result' = "TypeError"
    /\ pc' = "raised"
    /\ UNCHANGED <<isRust, pending, lines, seen, target>>

\* Mutant: "for line in lines[1:]", skipping GN's first line.
GnRefsSkipFirst(ls) ==
    /\ pc = "outputs"
    /\ pending > 0
    /\ pending' = pending - 1
    /\ lines' = IF ls = <<>> THEN <<>> ELSE Tail(ls)
    /\ seen' = seen \o ls
    /\ pc' = "scan"
    /\ UNCHANGED <<isRust, result, target>>

\* A GN answer of at most MaxLines lines.
GnAnswers == UNION {[1..n -> RefLine] : n \in 0..MaxLines}

\* Lines 131-150: GN answers for the next output with the lines ls.
GnRefs(ls) ==
    /\ pc = "outputs"
    /\ pending > 0
    /\ pending' = pending - 1
    /\ lines' = ls
    /\ seen' = seen \o ls
    /\ pc' = "scan"
    /\ UNCHANGED <<isRust, result, target>>

\* Lines 151-154: the next line; the first one ending with "_build" is returned.
ScanLine ==
    /\ pc = "scan"
    /\ lines # <<>>
    /\ IF EndsWithBuild(Head(lines))
         THEN /\ result' = "target"
              /\ target' = ToGnTarget(Head(lines))
              /\ pc' = "returned"
              /\ UNCHANGED lines
         ELSE /\ lines' = Tail(lines)
              /\ UNCHANGED <<result, pc, target>>
    /\ UNCHANGED <<isRust, pending, seen>>

\* The inner loop is over; on to the next output (line 131).
ScanEnd ==
    /\ pc = "scan"
    /\ lines = <<>>
    /\ pc' = "outputs"
    /\ UNCHANGED <<isRust, pending, lines, seen, result, target>>

\* Lines 156-157: no output has a "_build" target; None is returned.
NotFound ==
    /\ pc = "outputs"
    /\ pending = 0
    /\ result' = "none"
    /\ pc' = "returned"
    /\ UNCHANGED <<isRust, pending, lines, seen, target>>

Next ==
    \/ NotRustFile \/ NinjaFails
    \/ \E n \in 0..MaxOutputs + 2 : NinjaAnswers(n)
    \/ GnRefsFails
    \/ \E ls \in GnAnswers : GnRefs(ls)
    \/ ScanLine \/ ScanEnd \/ NotFound

Spec == Init /\ [][Next]_vars

-----------------------------------------------------------------------------
(***************************************************************************)
(* Properties                                                              *)
(***************************************************************************)

TypeOK ==
    /\ pc \in {"start", "outputs", "scan", "returned", "raised"}
    /\ isRust \in BOOLEAN
    /\ pending \in 0..MaxOutputs
    /\ lines \in Seq(RefLine)
    /\ seen \in Seq(RefLine)
    /\ result \in {"pending", "none", "not_rust_pair", "TypeError", "target"}
    /\ target \in GnTargets \cup {NoTarget}
    /\ (result = "target") <=> (target # NoTarget)

\* All GN lines read so far, in the order GN gave them.
SeenLines == seen

\* The positions of those lines that end with "_build".
BuildHits == {i \in DOMAIN SeenLines : EndsWithBuild(SeenLines[i])}

(***************************************************************************)
(* The answer is decided by the first "_build" line over all of GN's       *)
(* answers, taken in the order ninja listed the outputs and GN listed the  *)
(* lines.  If a target is returned, it comes from that line.  If None is   *)
(* returned, no line read ends with "_build".  About the nested loops of   *)
(* lines 131-157 and the early return inside the inner one.               *)
(***************************************************************************)
FirstBuildRefReturned ==
    /\ result = "target" =>
         /\ BuildHits # {}
         /\ target = ToGnTarget(SeenLines[CHOOSE i \in BuildHits :
                                            \A j \in BuildHits : i <= j])
    /\ result = "none" => BuildHits = {}

(***************************************************************************)
(* The comment of lines 129-130 says the base target name is returned,     *)
(* i.e. the GN label with its "_build" suffix removed: name ++ "_build" is *)
(* the label found.  rstrip("_build") strips characters, not a suffix.     *)
(***************************************************************************)
TargetIsBuildRuleBase ==
    result = "target" =>
        \E i \in BuildHits : /\ SeenLines[i].path = target.path
                             /\ SeenLines[i].name = target.name \o Build
=============================================================================
