-------------------------- MODULE ComparePerf_proofs --------------------------
(***************************************************************************)
(* Proofs about the ComparePerf classification loop, for all label sets,   *)
(* means and offsets: the type invariant, the sorted and complete table,   *)
(* and the soundness of every verdict.                                     *)
(***************************************************************************)
EXTENDS ComparePerf, WellFoundedInduction, TLAPS

(***************************************************************************)
(* Lemmas about the operators of the model                                 *)
(***************************************************************************)

\* Every non-empty set of naturals has a least element (well-foundedness of <).
LEMMA MinExists ==
    ASSUME NEW T \in SUBSET Nat, T # {}
    PROVE  \E x \in T : \A y \in T : x <= y
<1>1. \E x \in T : \A y \in T : ~(<<y, x>> \in OpToRel(<, Nat))
    BY NatLessThanWellFounded, WFMin
<1>2. \A x, y \in Nat : ~(<<y, x>> \in OpToRel(<, Nat)) => x <= y
    BY DEF OpToRel
<1>. QED  BY <1>1, <1>2

\* What Append does to the domain and the elements of a sequence.
LEMMA AppendFacts ==
    ASSUME NEW S, NEW s \in Seq(S), NEW x
    PROVE  /\ DOMAIN Append(s, x) = DOMAIN s \cup {Len(s) + 1}
           /\ Len(s) + 1 \notin DOMAIN s
           /\ \A i \in DOMAIN s : Append(s, x)[i] = s[i]
           /\ Append(s, x)[Len(s) + 1] = x
OBVIOUS

\* A results map is a function from some labels to Stats.
LEMMA ResultsMapFacts ==
    ASSUME NEW m \in ResultsMaps
    PROVE  /\ DOMAIN m \subseteq Labels
           /\ \A l \in DOMAIN m : m[l] \in Stats
BY DEF ResultsMaps

\* The end points of a Stats interval are integers, the low one not above the high one.
LEMMA IntervalFacts ==
    ASSUME NEW s \in Stats
    PROVE  /\ Interval(s)[1] \in Int
           /\ Interval(s)[2] \in Int
           /\ Interval(s)[1] <= Interval(s)[2]
<1>1. s.mean \in Int /\ s.offset \in Nat
    BY MeansAssumption, OffsetsAssumption DEF Stats
<1>. QED  BY <1>1 DEF Interval

\* The label the loop visits next is the least label still to do.
LEMMA NextLabelFacts ==
    ASSUME TypeOK, todo # {}
    PROVE  /\ NextLabel \in todo
           /\ \A m \in todo : NextLabel <= m
<1>1. todo \subseteq Nat
    BY ResultsMapFacts, LabelsAssumption DEF TypeOK, AllLabels
<1>2. \E x \in todo : \A y \in todo : x <= y
    BY <1>1, MinExists
<1>. QED  BY <1>2 DEF NextLabel

(***************************************************************************)
(* The type invariant                                                      *)
(***************************************************************************)

\* A step of the loop body that records a row of the right type keeps TypeOK.
LEMMA RecordTypeOK ==
    ASSUME TypeOK, NEW l \in todo, NEW r \in Verdicts,
           NEW f \in {Dash} \cup (Factor \X Factor),
           NEW bs \in Stats \cup {Dash}, NEW as \in Stats \cup {Dash},
           Record(l, r, f, bs, as)
    PROVE  TypeOK'
<1>1. l \in Labels
    BY ResultsMapFacts DEF TypeOK, AllLabels
<1>2. [label |-> l, result |-> r, factor |-> f, before |-> bs, after |-> as] \in Rows
    BY <1>1 DEF Rows
<1>. QED  BY <1>2 DEF Record, TypeOK, AllLabels

\* Every step of the loop keeps TypeOK.
LEMMA TypeStep == TypeOK /\ [Next]_vars => TypeOK'
  <2> SUFFICES ASSUME TypeOK, [Next]_vars PROVE TypeOK'
      OBVIOUS
  <2>1. CASE CompareAdded
    <3>1. NextLabel \in todo /\ NextLabel \in DOMAIN after
        BY <2>1, NextLabelFacts DEF CompareAdded, TypeOK, AllLabels
    <3>. QED  BY <2>1, <3>1, RecordTypeOK, ResultsMapFacts DEF CompareAdded, Verdicts, TypeOK
  <2>2. CASE CompareRemoved
    <3>1. NextLabel \in todo
        BY <2>2, NextLabelFacts DEF CompareRemoved
    <3>. QED  BY <2>2, <3>1, RecordTypeOK, ResultsMapFacts DEF CompareRemoved, Verdicts, TypeOK
  <2>3. CASE CompareBoth
    <3>0. PICK l \in todo : l = NextLabel
        BY <2>3, NextLabelFacts DEF CompareBoth
    <3> DEFINE b == Interval(before[l])
               a == Interval(after[l])
    <3>1. l \in todo /\ before[l] \in Stats /\ after[l] \in Stats
        BY <2>3, <3>0, ResultsMapFacts DEF CompareBoth, TypeOK
    <3>2. a[1] \in Int /\ a[2] \in Int /\ b[1] \in Int /\ b[2] \in Int
        BY <3>1, IntervalFacts
    <3>3. <<<<a[1], b[2]>>, <<a[2], b[1]>>>> \in Factor \X Factor
        BY <3>2 DEF Factor
    <3>4. Classify(b, a) \in Verdicts
        BY DEF Classify, Verdicts
    <3>5. CASE b[1] = 0 \/ b[2] = 0
      <4>1. ~(b[1] # 0 /\ b[2] # 0)
          BY <3>5
      <4>2. status' = "crashed"
            /\ UNCHANGED <<before, after, todo, counts, allRows, diffRows>>
          BY <2>3, <3>0, <4>1 DEF CompareBoth
      <4>. QED  BY <4>2 DEF TypeOK, AllLabels
    <3>6. CASE b[1] # 0 /\ b[2] # 0
      <4>1. Record(l, Classify(b, a), <<<<a[1], b[2]>>, <<a[2], b[1]>>>>, before[l], after[l])
          BY <2>3, <3>0, <3>6 DEF CompareBoth
      <4>. QED  BY <3>1, <3>3, <3>4, <4>1, RecordTypeOK
    <3>. QED  BY <3>5, <3>6
  <2>4. CASE Report
    BY <2>4 DEF Report, TypeOK
  <2>5. CASE UNCHANGED vars
    BY <2>5 DEF vars, TypeOK, AllLabels
  <2>. QED  BY <2>1, <2>2, <2>3, <2>4, <2>5 DEF Next

(***************************************************************************)
(* Every state of ComparePerf has the types of TypeOK: for all label sets, *)
(* means and offsets (the CI end points stay integers, rows stay rows).    *)
(***************************************************************************)
THEOREM TypeCorrect == Spec => []TypeOK
<1>1. Init => TypeOK
    BY DEF Init, TypeOK
<1>. QED  BY <1>1, TypeStep, PTL DEF Spec

(***************************************************************************)
(* The table is sorted and complete, and every verdict is sound            *)
(***************************************************************************)

\* The inductive invariant: the two properties hold together with TypeOK.
IInv == TypeOK /\ RowsSortedAndComplete /\ VerdictSound

\* The row Record(l, ...) appends.
RowOf(l, r, f, bs, as) == [label |-> l, result |-> r, factor |-> f, before |-> bs, after |-> as]

\* What one step of the loop body does to the table.
LEMMA RecordEffect ==
    ASSUME TypeOK, NEW l, NEW r, NEW f, NEW bs, NEW as, Record(l, r, f, bs, as)
    PROVE  /\ allRows' = Append(allRows, RowOf(l, r, f, bs, as))
           /\ DOMAIN allRows' = DOMAIN allRows \cup {Len(allRows) + 1}
           /\ Len(allRows) + 1 \notin DOMAIN allRows
           /\ \A i \in DOMAIN allRows : allRows'[i] = allRows[i]
           /\ allRows'[Len(allRows) + 1] = RowOf(l, r, f, bs, as)
           /\ todo' = todo \ {l}
           /\ before' = before /\ after' = after
<1>1. /\ allRows' = Append(allRows, RowOf(l, r, f, bs, as))
      /\ todo' = todo \ {l}
      /\ before' = before /\ after' = after
    BY DEF Record, RowOf
<1>2. allRows \in Seq(Rows)
    BY DEF TypeOK
<1>3. LET t == Append(allRows, RowOf(l, r, f, bs, as))
      IN  /\ DOMAIN t = DOMAIN allRows \cup {Len(allRows) + 1}
          /\ Len(allRows) + 1 \notin DOMAIN allRows
          /\ \A i \in DOMAIN allRows : t[i] = allRows[i]
          /\ t[Len(allRows) + 1] = RowOf(l, r, f, bs, as)
    BY <1>2, AppendFacts
<1>. QED  BY <1>1, <1>3

\* Visiting the least label keeps the table sorted and complete.
LEMMA RecordSorted ==
    ASSUME TypeOK, RowsSortedAndComplete, todo # {},
           NEW r, NEW f, NEW bs, NEW as, Record(NextLabel, r, f, bs, as)
    PROVE  RowsSortedAndComplete'
<1> DEFINE l == NextLabel
           n == Len(allRows) + 1
<1>1. l \in todo /\ \A m \in todo : l <= m
    BY NextLabelFacts
<1>2. /\ allRows' = Append(allRows, RowOf(l, r, f, bs, as))
      /\ DOMAIN allRows' = DOMAIN allRows \cup {n}
      /\ n \notin DOMAIN allRows
      /\ \A i \in DOMAIN allRows : allRows'[i] = allRows[i]
      /\ allRows'[n] = RowOf(l, r, f, bs, as)
      /\ todo' = todo \ {l}
      /\ before' = before /\ after' = after
    BY RecordEffect
<1>3. allRows'[n].label = l
    BY <1>2 DEF RowOf
<1>4. todo \subseteq Nat /\ \A i \in DOMAIN allRows : allRows[i].label \in Nat
  <2>1. todo \subseteq Nat
      BY ResultsMapFacts, LabelsAssumption DEF TypeOK, AllLabels
  <2>2. \A i \in DOMAIN allRows : allRows[i] \in Rows
      BY DEF TypeOK
  <2>3. \A i \in DOMAIN allRows : allRows[i].label \in Labels
      BY <2>2 DEF Rows
  <2>. QED  BY <2>1, <2>3, LabelsAssumption
<1>5. \A i \in DOMAIN allRows : i < n
  <2>1. allRows \in Seq(Rows)
      BY DEF TypeOK
  <2>. QED  BY <2>1
<1>6. RowLabels' = RowLabels \cup {l}
  <2>1. RowLabels' = {allRows'[i].label : i \in DOMAIN allRows \cup {n}}
      BY <1>2 DEF RowLabels
  <2>2. {allRows'[i].label : i \in DOMAIN allRows} = RowLabels
      BY <1>2 DEF RowLabels
  <2>. QED  BY <2>1, <2>2, <1>3
<1>7. (RowLabels \cap todo = {} /\ RowLabels \cup todo = AllLabels)'
    BY <1>1, <1>2, <1>6 DEF RowsSortedAndComplete, AllLabels
<1>8. (\A i, j \in DOMAIN allRows : i < j => allRows[i].label < allRows[j].label)'
  <2> SUFFICES ASSUME NEW i \in DOMAIN allRows', NEW j \in DOMAIN allRows', i < j
               PROVE  allRows'[i].label < allRows'[j].label
      OBVIOUS
  <2>1. i \in DOMAIN allRows
      BY <1>2, <1>5
  <2>2. CASE j = n
      BY <1>1, <1>2, <1>3, <2>1, <2>2 DEF RowsSortedAndComplete
  <2>3. CASE j \in DOMAIN allRows
      BY <1>2, <2>1, <2>3 DEF RowsSortedAndComplete
  <2>. QED  BY <1>2, <2>2, <2>3
<1>9. (\A i \in DOMAIN allRows : \A m \in todo : allRows[i].label < m)'
  <2> SUFFICES ASSUME NEW i \in DOMAIN allRows', NEW m \in todo' PROVE allRows'[i].label < m
      OBVIOUS
  <2>1. l <= m /\ l # m /\ m \in Nat /\ l \in Nat
      BY <1>1, <1>2, <1>4
  <2>2. CASE i = n
      BY <1>3, <2>1, <2>2
  <2>3. CASE i \in DOMAIN allRows
      BY <1>1, <1>2, <2>3 DEF RowsSortedAndComplete
  <2>. QED  BY <1>2, <2>2, <2>3
<1>. QED  BY <1>7, <1>8, <1>9 DEF RowsSortedAndComplete

\* Rows already written stay sound: the two maps never change.
LEMMA RecordKeepsOldRows ==
    ASSUME TypeOK, VerdictSound, NEW l, NEW r, NEW f, NEW bs, NEW as, Record(l, r, f, bs, as)
    PROVE  \A i \in DOMAIN allRows : RowOK(allRows[i])'
<1> SUFFICES ASSUME NEW i \in DOMAIN allRows PROVE RowOK(allRows[i])'
    OBVIOUS
<1>1. allRows'[i] = allRows[i] /\ before' = before /\ after' = after
    BY RecordEffect
<1>2. RowOK(allRows[i])
    BY DEF VerdictSound
<1>. QED  BY <1>1, <1>2 DEF RowOK, Interval, IntervalsIntersect

\* A step that appends a sound row keeps every verdict sound.
LEMMA RecordSound ==
    ASSUME TypeOK, VerdictSound, NEW l, NEW r, NEW f, NEW bs, NEW as,
           Record(l, r, f, bs, as), RowOK(RowOf(l, r, f, bs, as))
    PROVE  VerdictSound'
<1>0. RowOK(RowOf(l, r, f, bs, as))'
    BY RecordEffect DEF RowOK, RowOf, Interval, IntervalsIntersect
<1>1. \A i \in DOMAIN allRows : RowOK(allRows[i])'
    BY RecordKeepsOldRows
<1>2. /\ DOMAIN allRows' = DOMAIN allRows \cup {Len(allRows) + 1}
      /\ allRows'[Len(allRows) + 1] = RowOf(l, r, f, bs, as)
    BY RecordEffect
<1>. QED  BY <1>0, <1>1, <1>2 DEF VerdictSound

\* A step that changes none of todo, allRows and the two maps keeps IInv.
LEMMA FrameIInv ==
    ASSUME IInv, TypeOK',
           UNCHANGED <<before, after, todo, allRows>>
    PROVE  IInv'
BY DEF IInv, RowsSortedAndComplete, RowLabels, AllLabels, VerdictSound, RowOK, Interval, IntervalsIntersect

(***************************************************************************)
(* The table written by ComparePerf lists every label of the two maps once *)
(* in ascending order, and every verdict is the one the spec prescribes:   *)
(* for all label sets, means and offsets.                                  *)
(***************************************************************************)
THEOREM TableCorrect == Spec => [](RowsSortedAndComplete /\ VerdictSound)
<1>1. Init => IInv
  <2> SUFFICES ASSUME Init PROVE IInv
      OBVIOUS
  <2>1. TypeOK
      BY DEF Init, TypeOK
  <2>2. RowLabels = {}
      BY DEF Init, RowLabels
  <2>. QED  BY <2>1, <2>2 DEF Init, IInv, RowsSortedAndComplete, VerdictSound
<1>2. IInv /\ [Next]_vars => IInv'
  <2> SUFFICES ASSUME IInv, [Next]_vars PROVE IInv'
      OBVIOUS
  <2>0. TypeOK /\ TypeOK'
      BY TypeStep DEF IInv
  <2>1. CASE CompareAdded
    <3>0. PICK l \in todo : l = NextLabel
        BY <2>1, NextLabelFacts DEF CompareAdded, IInv
    <3> DEFINE row == RowOf(l, "added", Dash, Dash, after[l])
    <3>1. l \notin DOMAIN before /\ l \in DOMAIN after
        BY <2>1, <3>0 DEF CompareAdded, IInv, TypeOK, AllLabels
    <3>2. Record(l, "added", Dash, Dash, after[l])
        BY <2>1, <3>0 DEF CompareAdded
    <3>3. before' = before /\ after' = after
        BY <3>2 DEF Record
    <3>4. RowOK(row)
        BY <3>1 DEF RowOK, RowOf
    <3>5. RowsSortedAndComplete'
        BY <2>1, <3>0, <3>2, RecordSorted DEF IInv, CompareAdded
    <3>6. VerdictSound'
        BY <3>2, <3>4, RecordSound DEF IInv
    <3>. QED  BY <2>0, <3>5, <3>6 DEF IInv
  <2>2. CASE CompareRemoved
    <3>0. PICK l \in todo : l = NextLabel
        BY <2>2, NextLabelFacts DEF CompareRemoved, IInv
    <3> DEFINE row == RowOf(l, "removed", Dash, before[l], Dash)
    <3>1. l \in DOMAIN before /\ l \notin DOMAIN after
        BY <2>2, <3>0 DEF CompareRemoved
    <3>2. Record(l, "removed", Dash, before[l], Dash)
        BY <2>2, <3>0 DEF CompareRemoved
    <3>3. before' = before /\ after' = after
        BY <3>2 DEF Record
    <3>4. RowOK(row)
        BY <3>1 DEF RowOK, RowOf
    <3>5. RowsSortedAndComplete'
        BY <2>2, <3>0, <3>2, RecordSorted DEF IInv, CompareRemoved
    <3>6. VerdictSound'
        BY <3>2, <3>4, RecordSound DEF IInv
    <3>. QED  BY <2>0, <3>5, <3>6 DEF IInv
  <2>3. CASE CompareBoth
    <3>0. PICK l \in todo : l = NextLabel
        BY <2>3, NextLabelFacts DEF CompareBoth, IInv
    <3> DEFINE b == Interval(before[l])
               a == Interval(after[l])
               fr == <<<<a[1], b[2]>>, <<a[2], b[1]>>>>
               row == RowOf(l, Classify(b, a), fr, before[l], after[l])
    <3>1. l \in DOMAIN before /\ l \in DOMAIN after
        BY <2>3, <3>0 DEF CompareBoth
    <3>2. CASE b[1] = 0 \/ b[2] = 0
      <4>1. ~(b[1] # 0 /\ b[2] # 0)
          BY <3>2
      <4>2. UNCHANGED <<before, after, todo, allRows>>
          BY <2>3, <3>0, <4>1 DEF CompareBoth
      <4>. QED  BY <2>0, <4>2, FrameIInv
    <3>3. CASE b[1] # 0 /\ b[2] # 0
      <4>1. Record(l, Classify(b, a), fr, before[l], after[l])
          BY <2>3, <3>0, <3>3 DEF CompareBoth
      <4>2. before' = before /\ after' = after
          BY <4>1 DEF Record
      <4>3. a[1] \in Int /\ a[2] \in Int /\ b[1] \in Int /\ b[2] \in Int
          BY <3>1, ResultsMapFacts, IntervalFacts DEF IInv, TypeOK
      <4>4. /\ Classify(b, a) \notin {"added", "removed"}
            /\ Classify(b, a) = "slower" => a[1] >= b[2]
            /\ Classify(b, a) = "faster" => a[2] <= b[1] /\ a[1] < b[2]
            /\ Classify(b, a) = "no_sig_diff" => IntervalsIntersect(b, a)
          BY <4>3 DEF Classify, IntervalsIntersect
      <4>5. RowOK(row)
          BY <3>1, <4>4 DEF RowOK, RowOf
      <4>6. RowsSortedAndComplete'
          BY <2>3, <3>0, <4>1, RecordSorted DEF IInv, CompareBoth
      <4>7. VerdictSound'
          BY <4>1, <4>5, RecordSound DEF IInv
      <4>. QED  BY <2>0, <4>6, <4>7 DEF IInv
    <3>. QED  BY <3>2, <3>3
  <2>4. CASE Report
    BY <2>0, <2>4, FrameIInv DEF Report
  <2>5. CASE UNCHANGED vars
    BY <2>0, <2>5, FrameIInv DEF vars
  <2>. QED  BY <2>1, <2>2, <2>3, <2>4, <2>5 DEF Next
<1>3. IInv => RowsSortedAndComplete /\ VerdictSound
    BY DEF IInv
<1>. QED  BY <1>1, <1>2, <1>3, PTL DEF Spec

(***************************************************************************)
(* ComparePerf's table lists each label of the two maps exactly once, in   *)
(* ascending order (the sorted() loop of line 209).                        *)
(***************************************************************************)
THEOREM SortedComplete == Spec => []RowsSortedAndComplete
BY TableCorrect, PTL

(***************************************************************************)
(* Every verdict ComparePerf writes is the one spec section 4.3 prescribes *)
(* for the label's two intervals (the branches of lines 210-234).          *)
(***************************************************************************)
THEOREM VerdictsSound == Spec => []VerdictSound
BY TableCorrect, PTL

(***************************************************************************)
(* The loop implements the order-free abstract classifier                  *)
(***************************************************************************)

\* CHOOSE picks the only element that has the property.
LEMMA ChooseUnique ==
    ASSUME NEW S, NEW P(_), NEW k \in S, P(k), \A i \in S : P(i) => i = k
    PROVE  (CHOOSE i \in S : P(i)) = k
OBVIOUS

\* In a sorted table no label has two rows.
LEMMA LabelsUnique ==
    ASSUME TypeOK, RowsSortedAndComplete,
           NEW i \in DOMAIN allRows, NEW j \in DOMAIN allRows,
           allRows[i].label = allRows[j].label
    PROVE  i = j
<1>1. allRows[i].label \in Nat /\ i \in Nat /\ j \in Nat
  <2>1. allRows[i] \in Rows /\ allRows \in Seq(Rows)
      BY DEF TypeOK
  <2>2. allRows[i].label \in Labels
      BY <2>1 DEF Rows
  <2>3. DOMAIN allRows \subseteq Nat
      BY <2>1
  <2>4. allRows[i].label \in Nat
      BY <2>2, LabelsAssumption
  <2>. QED  BY <2>3, <2>4
<1>2. ~(i < j) /\ ~(j < i)
    BY <1>1 DEF RowsSortedAndComplete
<1>. QED  BY <1>1, <1>2

\* A step of the loop body adds the label it visits, with its verdict.
LEMMA TableVerdictsStep ==
    ASSUME TypeOK, RowsSortedAndComplete, todo # {},
           NEW r, NEW f, NEW bs, NEW as, Record(NextLabel, r, f, bs, as)
    PROVE  TableVerdicts' = [m \in RowLabels \cup {NextLabel} |->
                               IF m = NextLabel THEN r ELSE TableVerdicts[m]]
<1>0. PICK nl \in todo : nl = NextLabel
    BY NextLabelFacts
<1> DEFINE n == Len(allRows) + 1
<1>1. nl \notin RowLabels
    BY <1>0 DEF RowsSortedAndComplete
<1>2. /\ DOMAIN allRows' = DOMAIN allRows \cup {n}
      /\ n \notin DOMAIN allRows
      /\ \A i \in DOMAIN allRows : allRows'[i] = allRows[i]
      /\ allRows'[n] = RowOf(nl, r, f, bs, as)
  <2>1. Record(nl, r, f, bs, as)
      BY <1>0
  <2>. QED  BY <2>1, RecordEffect, ZenonT(60)
<1>3. allRows'[n].label = nl /\ allRows'[n].result = r
    BY <1>2 DEF RowOf
<1>4. RowLabels' = RowLabels \cup {nl}
  <2>1. {allRows'[i].label : i \in DOMAIN allRows} = RowLabels
      BY <1>2 DEF RowLabels
  <2>2. RowLabels' = {allRows'[i].label : i \in DOMAIN allRows \cup {n}}
      BY <1>2 DEF RowLabels
  <2>. QED  BY <1>3, <2>1, <2>2
<1>5. RowIndex(nl)' = n
  <2>1. \A i \in DOMAIN allRows' : allRows'[i].label = nl => i = n
      BY <1>1, <1>2 DEF RowLabels
  <2>2. n \in DOMAIN allRows'
      BY <1>2
  <2>. QED  BY <1>3, <2>1, <2>2, ChooseUnique DEF RowIndex
<1>6. ASSUME NEW m \in RowLabels PROVE RowIndex(m)' = RowIndex(m)
  <2>1. PICK k \in DOMAIN allRows : allRows[k].label = m
      BY DEF RowLabels
  <2>2. RowIndex(m) = k
    <3>1. \A i \in DOMAIN allRows : allRows[i].label = m => i = k
        BY <2>1, LabelsUnique
    <3>. QED  BY <2>1, <3>1, ChooseUnique DEF RowIndex
  <2>3. RowIndex(m)' = k
    <3>1. m # nl
        BY <1>1
    <3>2. \A i \in DOMAIN allRows' : allRows'[i].label = m => i = k
      <4> SUFFICES ASSUME NEW i \in DOMAIN allRows', allRows'[i].label = m
                   PROVE  i = k
          OBVIOUS
      <4>1. i # n
          BY <1>3, <3>1
      <4>2. i \in DOMAIN allRows
          BY <1>2, <4>1
      <4>3. allRows[i].label = allRows[k].label
          BY <1>2, <2>1, <4>2
      <4>. QED  BY <2>1, <4>2, <4>3, LabelsUnique
    <3>3. k \in DOMAIN allRows' /\ allRows'[k].label = m
        BY <1>2, <2>1
    <3>. QED  BY <3>2, <3>3, ChooseUnique DEF RowIndex
  <2>. QED  BY <2>2, <2>3
<1>7. ASSUME NEW m \in RowLabels PROVE TableVerdicts'[m] = TableVerdicts[m]
  <2>1. RowIndex(m) \in DOMAIN allRows
    <3>1. \E i \in DOMAIN allRows : allRows[i].label = m
        BY DEF RowLabels
    <3>. QED  BY <3>1 DEF RowIndex
  <2>2. allRows'[RowIndex(m)'] = allRows[RowIndex(m)]
      BY <1>2, <1>6, <2>1
  <2>. QED  BY <1>4, <2>2 DEF TableVerdicts
<1>8. TableVerdicts'[nl] = r
    BY <1>3, <1>4, <1>5 DEF TableVerdicts
<1>9. TableVerdicts' = [m \in RowLabels \cup {nl} |-> TableVerdicts'[m]]
    BY <1>4 DEF TableVerdicts
<1>. QED  BY <1>0, <1>1, <1>7, <1>8, <1>9

\* A step of the loop body that writes the spec's verdict is an abstract Decide.
LEMMA DecideStep ==
    ASSUME IInv, status = "loop", todo # {},
           NEW r, NEW f, NEW bs, NEW as, Record(NextLabel, r, f, bs, as),
           ~Abs!FactorUndefined(NextLabel), r = Abs!SpecVerdict(NextLabel)
    PROVE  Abs!AbsNext
<1>0. PICK l \in todo : l = NextLabel
    BY NextLabelFacts DEF IInv
<1>1. TableVerdicts' = [m \in RowLabels \cup {l} |->
                          IF m = l THEN r ELSE TableVerdicts[m]]
  <2>1. TypeOK /\ RowsSortedAndComplete
      BY DEF IInv
  <2>2. TableVerdicts' = [m \in RowLabels \cup {NextLabel} |->
                            IF m = NextLabel THEN r ELSE TableVerdicts[m]]
      BY <2>1, TableVerdictsStep, ZenonT(60)
  <2>. QED  BY <1>0, <2>2
<1>2. DOMAIN TableVerdicts = RowLabels
    BY DEF TableVerdicts
<1>3. l \in Abs!TestCases \ RowLabels
    BY <1>0 DEF IInv, TypeOK, RowsSortedAndComplete, Abs!TestCases, AllLabels
<1>4. UNCHANGED <<before, after, status>>
    BY DEF Record
<1>5. Abs!Decide(l)
    BY <1>0, <1>1, <1>2, <1>3, <1>4 DEF Abs!Decide
<1>. QED  BY <1>3, <1>5 DEF Abs!AbsNext

\* Every step of the loop is a step of the abstract classifier or leaves it unchanged.
LEMMA RefinementStep == IInv /\ [Next]_vars => [Abs!AbsNext]_Abs!absVars
<1> SUFFICES ASSUME IInv, [Next]_vars PROVE [Abs!AbsNext]_Abs!absVars
    OBVIOUS
<1>1. CASE CompareAdded
  <2>1. NextLabel \notin DOMAIN before
      BY <1>1 DEF CompareAdded
  <2>2. ~Abs!FactorUndefined(NextLabel) /\ "added" = Abs!SpecVerdict(NextLabel)
      BY <2>1 DEF Abs!FactorUndefined, Abs!SpecVerdict
  <2>. QED  BY <1>1, <2>2, DecideStep DEF CompareAdded
<1>2. CASE CompareRemoved
  <2>1. NextLabel \in DOMAIN before /\ NextLabel \notin DOMAIN after
      BY <1>2 DEF CompareRemoved
  <2>2. ~Abs!FactorUndefined(NextLabel) /\ "removed" = Abs!SpecVerdict(NextLabel)
      BY <2>1 DEF Abs!FactorUndefined, Abs!SpecVerdict
  <2>. QED  BY <1>2, <2>2, DecideStep DEF CompareRemoved
<1>3. CASE CompareBoth
  <2>0. PICK l \in todo : l = NextLabel
      BY <1>3, NextLabelFacts DEF CompareBoth, IInv
  <2> DEFINE b == Interval(before[l])
             a == Interval(after[l])
  <2>1. l \in DOMAIN before /\ l \in DOMAIN after /\ status = "loop"
      BY <1>3, <2>0 DEF CompareBoth
  <2>2. Abs!FactorUndefined(l) <=> (b[1] = 0 \/ b[2] = 0)
      BY <2>1 DEF Abs!FactorUndefined, Abs!Interval, Interval
  <2>3. CASE b[1] = 0 \/ b[2] = 0
    <3>1. status' = "crashed" /\ UNCHANGED <<before, after, todo, allRows>>
        BY <1>3, <2>0, <2>3 DEF CompareBoth
    <3>2. UNCHANGED TableVerdicts
        BY <3>1 DEF TableVerdicts, RowLabels, RowIndex
    <3>3. l \in Abs!TestCases \ DOMAIN TableVerdicts
        BY <2>0 DEF IInv, TypeOK, RowsSortedAndComplete, Abs!TestCases,
                    AllLabels, TableVerdicts
    <3>4. Abs!Abort(l)
        BY <2>1, <2>2, <2>3, <3>1, <3>2, <3>3 DEF Abs!Abort
    <3>. QED  BY <3>3, <3>4 DEF Abs!AbsNext
  <2>4. CASE b[1] # 0 /\ b[2] # 0
    <3>1. Record(NextLabel, Classify(b, a), <<<<a[1], b[2]>>, <<a[2], b[1]>>>>,
                 before[l], after[l])
        BY <1>3, <2>0, <2>4 DEF CompareBoth
    <3>2. Classify(b, a) = Abs!SpecVerdict(l)
        BY <2>1 DEF Classify, Abs!SpecVerdict, Abs!Interval, Interval
    <3>. QED  BY <2>0, <2>1, <2>2, <2>4, <3>1, <3>2, DecideStep
  <2>. QED  BY <2>3, <2>4
<1>4. CASE Report
  <2>1. RowLabels = AllLabels
      BY <1>4 DEF Report, IInv, RowsSortedAndComplete
  <2>2. UNCHANGED <<before, after, TableVerdicts>>
      BY <1>4 DEF Report, TableVerdicts, RowLabels, RowIndex
  <2>3. Abs!Finish
      BY <1>4, <2>1, <2>2 DEF Report, Abs!Finish, Abs!TestCases, AllLabels, TableVerdicts
  <2>. QED  BY <2>3 DEF Abs!AbsNext
<1>5. CASE UNCHANGED vars
    BY <1>5 DEF vars, Abs!absVars, TableVerdicts, RowLabels, RowIndex
<1>. QED  BY <1>1, <1>2, <1>3, <1>4, <1>5 DEF Next

(***************************************************************************)
(* The sorted, one-row-per-label loop of ComparePerf (lines 209-261)       *)
(* implements the order-free classifier of spec sections 4.3 and 5: under *)
(* the refinement mapping that reads each label's verdict off its row,     *)
(* every behaviour of the loop is a behaviour of ComparePerfAbstract, for  *)
(* all label sets, means and offsets.                                      *)
(***************************************************************************)
THEOREM Refinement == Spec => ImplementsAbstract
<1>1. Init => Abs!AbsInit
  <2> SUFFICES ASSUME Init PROVE Abs!AbsInit
      OBVIOUS
  <2>1. RowLabels = {}
      BY DEF Init, RowLabels
  <2>2. TableVerdicts = [l \in {} |-> "added"]
      BY <2>1 DEF TableVerdicts
  <2>3. Abs!ResultsMaps = ResultsMaps
      BY DEF Abs!ResultsMaps, ResultsMaps, Abs!Stats, Stats
  <2>. QED  BY <2>2, <2>3 DEF Init, Abs!AbsInit
<1>2. Spec => []IInv
    BY TypeCorrect, TableCorrect, PTL DEF IInv
<1>. QED  BY <1>1, <1>2, RefinementStep, PTL DEF Spec, ImplementsAbstract, Abs!AbsSpec

=============================================================================
