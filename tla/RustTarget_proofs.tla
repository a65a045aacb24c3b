------------------------- MODULE RustTarget_proofs -------------------------
(***************************************************************************)
(* Proofs about get_rust_target_from_file()                                *)
(* (tools/devshell/contrib/lib/rust/rust.py, lines 94-157).                *)
(*                                                                         *)
(* FirstBuildRefReturned speaks of the whole history of GN's lines; the    *)
(* scan only looks at the line in front of it.  The inductive invariant   *)
(* relates the two: the lines still to scan are the tail of the history,  *)
(* and no line before them ends with "_build".                             *)
(***************************************************************************)
EXTENDS RustTarget, WellFoundedInduction, TLAPS

\* No line among the first n of the history ends with "_build".
NoHitsBefore(n) == \A j \in 1..n : ~EndsWithBuild(seen[j])

\* Line k of the history is the first one that ends with "_build".
FirstHit(k) ==
    /\ k \in 1..Len(seen)
    /\ EndsWithBuild(seen[k])
    /\ NoHitsBefore(k - 1)

\* The scan's remaining lines are the last Len(lines) lines of the history.
LinesAreTail ==
    /\ Len(lines) <= Len(seen)
    /\ \A j \in 1..Len(lines) : lines[j] = seen[Len(seen) - Len(lines) + j]

(***************************************************************************)
(* The inductive invariant: the type invariant; the function is running    *)
(* exactly while nothing is returned or raised; before ninja answers no    *)
(* GN line is read; between two answers, and while scanning before the     *)
(* remaining lines, no line read ends with "_build"; None is returned only *)
(* when no line read does; a target is returned from the first one that    *)
(* does.                                                                   *)
(***************************************************************************)
ScanInv ==
    /\ (result = "pending") <=> (pc \in {"start", "outputs", "scan"})
    /\ result # "target" => target = NoTarget
    /\ pc = "start" => seen = <<>> /\ lines = <<>>
    /\ pc = "outputs" => NoHitsBefore(Len(seen))
    /\ pc = "scan" => LinesAreTail /\ NoHitsBefore(Len(seen) - Len(lines))
    /\ result = "none" => NoHitsBefore(Len(seen))
    /\ result = "target" => \E k \in 1..Len(seen) : FirstHit(k) /\ target = ToGnTarget(seen[k])

IInv == TypeOK /\ ScanInv


-----------------------------------------------------------------------------
(***************************************************************************)
(* Lemmas about the operators of the model.                                *)
(***************************************************************************)

\* Every non-empty set of naturals has a least element (well-foundedness of <).
LEMMA LeastExists ==
  ASSUME NEW T \in SUBSET Nat, T # {}
  PROVE  \E x \in T : \A y \in T : x <= y
  <1>1. \E x \in T : \A y \in T : ~(<<y, x>> \in OpToRel(<, Nat))
    BY NatLessThanWellFounded, WFMin
  <1>2. \A x, y \in Nat : ~(<<y, x>> \in OpToRel(<, Nat)) => x <= y
    BY DEF OpToRel
  <1>3. QED
    BY <1>1, <1>2

\* A non-empty set of naturals bounded by n has a greatest element.
LEMMA GreatestExists ==
  ASSUME NEW n \in Nat, NEW T \in SUBSET (0..n), T # {}
  PROVE  \E x \in T : \A y \in T : y <= x
  <1> DEFINE D == {n - t : t \in T}
  <1>1. D \in SUBSET Nat /\ D # {}
    <2>1. \A t \in T : n - t \in Nat
      OBVIOUS
    <2>2. QED
      BY <2>1
  <1>2. PICK d \in D : \A e \in D : d <= e
    BY <1>1, LeastExists
  <1>3. PICK x \in T : d = n - x
    BY <1>2
  <1>4. \A y \in T : n - y \in D
    OBVIOUS
  <1>5. QED
    BY <1>2, <1>3, <1>4

\* s.rstrip(cs) is a prefix of s.
LEMMA RStripPrefix ==
  ASSUME NEW s \in Seq(STRING), NEW cs
  PROVE  RStrip(s, cs) \in PrefixesOf(s)
  <1> DEFINE keep == {i \in DOMAIN s : s[i] \notin cs}
  <1>1. CASE keep = {}
    <2>1. RStrip(s, cs) = SubSeq(s, 1, 0)
      BY <1>1 DEF RStrip
    <2>2. QED
      BY <2>1 DEF PrefixesOf
  <1>2. CASE keep # {}
    <2>1. keep \in SUBSET (0..Len(s))
      OBVIOUS
    <2>2. \E x \in keep : \A y \in keep : y <= x
      <3>1. Len(s) \in Nat
        OBVIOUS
      <3>2. QED
        BY <1>2, <2>1, <3>1, GreatestExists
    <2> DEFINE m == CHOOSE i \in keep : \A j \in keep : j <= i
    <2>3. m \in 0..Len(s)
      BY <2>1, <2>2
    <2>4. RStrip(s, cs) = SubSeq(s, 1, m)
      BY <1>2 DEF RStrip
    <2>5. QED
      BY <2>3, <2>4 DEF PrefixesOf
  <1>3. QED
    BY <1>1, <1>2

\* The GnTarget built from a GN line is a GnTarget, and not the marker.
LEMMA ToGnTargetType ==
  ASSUME NEW l \in RefLine
  PROVE  ToGnTarget(l) \in GnTargets /\ ToGnTarget(l) # NoTarget
  <1>1. l.path \in Paths /\ l.name \in Names /\ l.name \in Seq(STRING)
    BY RustNamesAssumption DEF RefLine
  <1>2. RStrip(l.name, BuildChars) \in PrefixesOf(l.name)
    BY <1>1, RStripPrefix
  <1>3. ToGnTarget(l) \in GnTargets
    BY <1>1, <1>2 DEF ToGnTarget, GnTargets
  <1>4. ToGnTarget(l).path # "none"
    BY <1>1, RustNamesAssumption DEF ToGnTarget
  <1>5. QED
    BY <1>3, <1>4 DEF NoTarget

\* A GN answer is a sequence of GN lines.
LEMMA GnAnswerSeq ==
  ASSUME NEW ls \in GnAnswers
  PROVE  ls \in Seq(RefLine)
  BY DEF GnAnswers

\* Concatenation, as the proofs read it.
LEMMA ConcatFacts ==
  ASSUME NEW S, NEW u \in Seq(S), NEW v \in Seq(S)
  PROVE  /\ u \o v \in Seq(S)
         /\ Len(u \o v) = Len(u) + Len(v)
         /\ \A j \in 1..Len(u) : (u \o v)[j] = u[j]
         /\ \A j \in 1..Len(v) : (u \o v)[Len(u) + j] = v[j]
  OBVIOUS

\* Tail, as the proofs read it.
LEMMA TailFacts ==
  ASSUME NEW S, NEW u \in Seq(S), u # <<>>
  PROVE  /\ Tail(u) \in Seq(S)
         /\ Len(Tail(u)) = Len(u) - 1
         /\ \A j \in 1..Len(u) - 1 : Tail(u)[j] = u[j + 1]
         /\ Head(u) = u[1]
  OBVIOUS

-----------------------------------------------------------------------------
(***************************************************************************)
(* The inductive invariant holds initially and is kept by every step.      *)
(***************************************************************************)

LEMMA IInvInit == Init => IInv
  BY RustBoundsAssumption DEF Init, IInv, TypeOK, ScanInv

\* The steps that return or raise without reading a GN line.
LEMMA IInvEarlyExit ==
  ASSUME IInv, NotRustFile \/ NinjaFails \/ GnRefsFails
  PROVE  IInv'
  BY DEF IInv, TypeOK, ScanInv, NotRustFile, NinjaFails, GnRefsFails

\* ninja's answer: None for fewer than 3 lines, else the output files.
LEMMA IInvNinjaAnswers ==
  ASSUME IInv, NEW n \in 0..MaxOutputs + 2, NinjaAnswers(n)
  PROVE  IInv'
  <1>1. pc = "start" /\ seen = <<>> /\ lines = <<>> /\ result = "pending"
    BY DEF NinjaAnswers, IInv, ScanInv
  <1>2. NoHitsBefore(Len(seen))'
    BY <1>1 DEF NinjaAnswers, NoHitsBefore
  <1>3. CASE n < 3
    BY <1>1, <1>2, <1>3 DEF NinjaAnswers, IInv, TypeOK, ScanInv
  <1>4. CASE ~(n < 3)
    <2>1. pending' \in 0..MaxOutputs
      BY <1>4, RustBoundsAssumption DEF NinjaAnswers
    <2>2. QED
      BY <1>1, <1>2, <1>4, <2>1 DEF NinjaAnswers, IInv, TypeOK, ScanInv
  <1>5. QED
    BY <1>3, <1>4

\* GN answers with the lines ls: they become both the lines to scan and the
\* end of the history.
LEMMA IInvGnRefs ==
  ASSUME IInv, NEW ls \in GnAnswers, GnRefs(ls)
  PROVE  IInv'
  <1>1. ls \in Seq(RefLine) /\ seen \in Seq(RefLine)
    BY GnAnswerSeq DEF IInv, TypeOK
  <1>2. /\ seen' \in Seq(RefLine)
        /\ Len(seen') = Len(seen) + Len(ls)
        /\ \A j \in 1..Len(seen) : seen'[j] = seen[j]
        /\ \A j \in 1..Len(ls) : seen'[Len(seen) + j] = ls[j]
    BY <1>1, ConcatFacts DEF GnRefs
  <1>3. NoHitsBefore(Len(seen))
    BY DEF GnRefs, IInv, ScanInv
  <1>4. LinesAreTail'
    BY <1>1, <1>2 DEF GnRefs, LinesAreTail
  <1>5. NoHitsBefore(Len(seen) - Len(lines))'
    BY <1>1, <1>2, <1>3 DEF GnRefs, NoHitsBefore
  <1>6. pending' \in 0..MaxOutputs
    BY RustBoundsAssumption DEF GnRefs, IInv, TypeOK
  <1>7. QED
    BY <1>1, <1>2, <1>4, <1>5, <1>6 DEF GnRefs, IInv, TypeOK, ScanInv

\* The facts about the line in front of the scan.
LEMMA ScanFront ==
  ASSUME IInv, pc = "scan", lines # <<>>
  PROVE  LET k == Len(seen) - Len(lines) + 1
         IN  /\ k \in 1..Len(seen)
             /\ seen[k] = Head(lines)
             /\ NoHitsBefore(k - 1)
             /\ Head(lines) \in RefLine
  <1>1. lines \in Seq(RefLine) /\ seen \in Seq(RefLine) /\ Len(lines) > 0
    BY DEF IInv, TypeOK
  <1>2. LinesAreTail /\ NoHitsBefore(Len(seen) - Len(lines))
    BY DEF IInv, ScanInv
  <1>3. QED
    BY <1>1, <1>2 DEF LinesAreTail

\* The scan returns the line in front if it ends with "_build", else drops it.
LEMMA IInvScanLine ==
  ASSUME IInv, ScanLine
  PROVE  IInv'
  <1>1. pc = "scan" /\ lines # <<>> /\ result = "pending" /\ target = NoTarget
    BY DEF ScanLine, IInv, ScanInv
  <1> DEFINE k == Len(seen) - Len(lines) + 1
  <1>2. /\ k \in 1..Len(seen)
        /\ seen[k] = Head(lines)
        /\ NoHitsBefore(k - 1)
        /\ Head(lines) \in RefLine
    BY <1>1, ScanFront
  <1>3. lines \in Seq(RefLine) /\ seen \in Seq(RefLine)
    BY DEF IInv, TypeOK
  <1>4. CASE EndsWithBuild(Head(lines))
    <2>1. ToGnTarget(Head(lines)) \in GnTargets /\ ToGnTarget(Head(lines)) # NoTarget
      BY <1>2, ToGnTargetType
    <2>2. FirstHit(k)'
      BY <1>2, <1>4 DEF ScanLine, FirstHit, NoHitsBefore
    <2>3. (\E i \in 1..Len(seen) : FirstHit(i) /\ target = ToGnTarget(seen[i]))'
      BY <1>2, <1>4, <2>2 DEF ScanLine
    <2>4. QED
      BY <1>4, <2>1, <2>3 DEF ScanLine, IInv, TypeOK, ScanInv
  <1>5. CASE ~EndsWithBuild(Head(lines))
    <2>1. /\ Tail(lines) \in Seq(RefLine)
          /\ Len(Tail(lines)) = Len(lines) - 1
          /\ \A j \in 1..Len(lines) - 1 : Tail(lines)[j] = lines[j + 1]
      BY <1>1, <1>3, TailFacts
    <2>2. LinesAreTail'
      <3>1. LinesAreTail
        BY <1>1 DEF IInv, ScanInv
      <3>2. lines' = Tail(lines) /\ seen' = seen
        BY <1>5 DEF ScanLine
      <3>3. Len(lines) \in Nat \ {0} /\ Len(seen) \in Nat
        BY <1>1, <1>3
      <3>4. Len(lines') <= Len(seen')
        BY <2>1, <3>1, <3>2, <3>3 DEF LinesAreTail
      <3>5. \A j \in 1..Len(lines') : lines'[j] = seen'[Len(seen') - Len(lines') + j]
        <4> TAKE j \in 1..Len(lines')
        <4>1. j + 1 \in 1..Len(lines) /\ lines'[j] = lines[j + 1]
          BY <2>1, <3>2, <3>3
        <4>2. lines[j + 1] = seen[Len(seen) - Len(lines) + (j + 1)]
          BY <3>1, <4>1 DEF LinesAreTail
        <4>3. Len(seen) - Len(lines) + (j + 1) = Len(seen') - Len(lines') + j
          BY <2>1, <3>2, <3>3
        <4>4. QED
          BY <3>2, <4>1, <4>2, <4>3
      <3>6. QED
        BY <3>4, <3>5 DEF LinesAreTail
    <2>3. NoHitsBefore(Len(seen) - Len(lines))'
      BY <1>2, <1>3, <1>5, <2>1 DEF ScanLine, NoHitsBefore
    <2>4. QED
      BY <1>1, <1>5, <2>1, <2>2, <2>3 DEF ScanLine, IInv, TypeOK, ScanInv
  <1>6. QED
    BY <1>4, <1>5

\* The inner loop ends: every line of the history was scanned without a hit.
LEMMA IInvScanEnd ==
  ASSUME IInv, ScanEnd
  PROVE  IInv'
  <1>1. NoHitsBefore(Len(seen) - Len(lines)) /\ lines = <<>>
    BY DEF ScanEnd, IInv, ScanInv
  <1>2. NoHitsBefore(Len(seen))'
    BY <1>1 DEF ScanEnd, NoHitsBefore, IInv, TypeOK
  <1>3. QED
    BY <1>2 DEF ScanEnd, IInv, TypeOK, ScanInv

\* No output is left: None, and no line read ends with "_build".
LEMMA IInvNotFound ==
  ASSUME IInv, NotFound
  PROVE  IInv'
  <1>1. NoHitsBefore(Len(seen))
    BY DEF NotFound, IInv, ScanInv
  <1>2. NoHitsBefore(Len(seen))'
    BY <1>1 DEF NotFound, NoHitsBefore
  <1>3. QED
    BY <1>2 DEF NotFound, IInv, TypeOK, ScanInv

LEMMA IInvStep == IInv /\ [Next]_vars => IInv'
  <1> SUFFICES ASSUME IInv, [Next]_vars PROVE IInv'
    OBVIOUS
  <1>1. CASE NotRustFile \/ NinjaFails \/ GnRefsFails
    BY <1>1, IInvEarlyExit
  <1>2. CASE \E n \in 0..MaxOutputs + 2 : NinjaAnswers(n)
    BY <1>2, IInvNinjaAnswers
  <1>3. CASE \E ls \in GnAnswers : GnRefs(ls)
    BY <1>3, IInvGnRefs
  <1>4. CASE ScanLine
    BY <1>4, IInvScanLine
  <1>5. CASE ScanEnd
    BY <1>5, IInvScanEnd
  <1>6. CASE NotFound
    BY <1>6, IInvNotFound
  <1>7. CASE UNCHANGED vars
    BY <1>7 DEF vars, IInv, TypeOK, ScanInv, NoHitsBefore, FirstHit, LinesAreTail
  <1>8. QED
    BY <1>1, <1>2, <1>3, <1>4, <1>5, <1>6, <1>7 DEF Next

-----------------------------------------------------------------------------
(***************************************************************************)
(* From the inductive invariant to FirstBuildRefReturned: the first hit    *)
(* of ScanInv is the least element of BuildHits, the one the property      *)
(* chooses.                                                                *)
(***************************************************************************)

\* The first hit is the least position of the history ending with "_build".
LEMMA FirstHitIsLeast ==
  ASSUME seen \in Seq(RefLine), NEW k, FirstHit(k)
  PROVE  /\ k \in BuildHits
         /\ \A j \in BuildHits : k <= j
  <1>1. k \in BuildHits
    BY DEF FirstHit, BuildHits, SeenLines
  <1>2. \A j \in BuildHits : k <= j
    <2> TAKE j \in BuildHits
    <2>1. j \in 1..Len(seen) /\ EndsWithBuild(seen[j])
      BY DEF BuildHits, SeenLines
    <2>2. ~(j \in 1..(k - 1))
      BY <2>1 DEF FirstHit, NoHitsBefore
    <2>3. QED
      BY <2>1, <2>2 DEF FirstHit
  <1>3. QED
    BY <1>1, <1>2

LEMMA IInvFirstBuild == IInv => FirstBuildRefReturned
  <1> SUFFICES ASSUME IInv PROVE FirstBuildRefReturned
    OBVIOUS
  <1>1. seen \in Seq(RefLine)
    BY DEF IInv, TypeOK
  <1>2. ASSUME result = "target"
        PROVE  /\ BuildHits # {}
               /\ target = ToGnTarget(SeenLines[CHOOSE i \in BuildHits :
                                                  \A j \in BuildHits : i <= j])
    <2>1. PICK k \in 1..Len(seen) : FirstHit(k) /\ target = ToGnTarget(seen[k])
      BY <1>2 DEF IInv, ScanInv
    <2>2. k \in BuildHits /\ \A j \in BuildHits : k <= j
      BY <1>1, <2>1, FirstHitIsLeast
    <2> DEFINE c == CHOOSE i \in BuildHits : \A j \in BuildHits : i <= j
    <2>3. c \in BuildHits /\ \A j \in BuildHits : c <= j
      BY <2>2
    <2>4. c = k
      BY <2>2, <2>3 DEF BuildHits
    <2>5. QED
      BY <2>1, <2>2, <2>4 DEF SeenLines
  <1>3. ASSUME result = "none" PROVE BuildHits = {}
    <2>1. NoHitsBefore(Len(seen))
      BY <1>3 DEF IInv, ScanInv
    <2>2. QED
      BY <1>1, <2>1 DEF NoHitsBefore, BuildHits, SeenLines
  <1>4. QED
    BY <1>2, <1>3 DEF FirstBuildRefReturned

-----------------------------------------------------------------------------
(***************************************************************************)
(* Theorems.                                                               *)
(***************************************************************************)

\* Every state of get_rust_target_from_file() is well typed: in particular
\* a GnTarget is returned exactly when the result is a target.
THEOREM TypeCorrect == Spec => []TypeOK
  <1>1. Init => IInv
    BY IInvInit
  <1>2. IInv /\ [Next]_vars => IInv'
    BY IInvStep
  <1>3. IInv => TypeOK
    BY DEF IInv
  <1>4. QED
    BY <1>1, <1>2, <1>3, PTL DEF Spec

(***************************************************************************)
(* For every bound and every answer of ninja and GN, the nested loops of   *)
(* lines 131-157 return the target of the first "_build" line of all GN's *)
(* answers in order, and return None only when there is no such line.     *)
(***************************************************************************)
THEOREM FirstBuildCorrect == Spec => []FirstBuildRefReturned
  <1>1. Init => IInv
    BY IInvInit
  <1>2. IInv /\ [Next]_vars => IInv'
    BY IInvStep
  <1>3. IInv => FirstBuildRefReturned
    BY IInvFirstBuild
  <1>4. QED
    BY <1>1, <1>2, <1>3, PTL DEF Spec

=============================================================================
