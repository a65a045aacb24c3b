--------------------- MODULE ValidatePerfCompare_proofs ---------------------
(***************************************************************************)
(* Proofs about the grouping of boots in ValidatePerfCompare()             *)
(* (garnet/bin/perfcompare/perfcompare.py, lines 278-287).                 *)
(*                                                                         *)
(* GroupsPartitionBoots is not inductive by itself: a step of LoadGroup    *)
(* appends the slice of group Len(results_maps), and only the link between *)
(* the number of groups read, the number of slices and group_count =       *)
(* boot_count / group_size shows that this slice is a whole group of       *)
(* existing boots.  GroupInv states that link.                             *)
(***************************************************************************)
EXTENDS ValidatePerfCompare, TLAPS

\* The shape of the state the proof relies on.
GroupTypes ==
    /\ bootCount \in 1..MaxBoots
    /\ groupSize \in Nat
    /\ groupCount \in Nat
    /\ resultsMaps \in Seq(ResultsMaps)
    /\ slices \in Seq(SUBSET Int)
    /\ status \in {"start", "groups", "rates", "done", "crashed"}

(***************************************************************************)
(* The inductive invariant: nothing is read before the split; after it     *)
(* group_count is boot_count / group_size, so that group_count whole       *)
(* groups fit in the boots; a slice is recorded for every group read (and  *)
(* one more for the group whose aggregation raised), never more than       *)
(* group_count; and each recorded slice is its group's interval.           *)
(***************************************************************************)
GroupInv ==
    /\ GroupTypes
    /\ status = "start" => groupCount = 0 /\ slices = <<>> /\ resultsMaps = <<>>
    /\ groupCount * groupSize <= bootCount
    /\ status \in {"groups", "rates", "done"} =>
         /\ groupSize # 0
         /\ groupCount = bootCount \div groupSize
         /\ Len(slices) = Len(resultsMaps)
    /\ status \in {"rates", "done"} => Len(resultsMaps) = groupCount
    /\ Len(slices) <= groupCount
    /\ \A g \in 1..Len(slices) : slices[g] = ((g - 1) * groupSize + 1)..(g * groupSize)


-----------------------------------------------------------------------------
(***************************************************************************)
(* Lemmas about the arithmetic of the split.                               *)
(***************************************************************************)

\* Multiplying by a natural number keeps the order of naturals.
LEMMA MulMono ==
  ASSUME NEW a \in Nat, NEW b \in Nat, NEW c \in Nat, a <= b
  PROVE  a * c <= b * c
  OBVIOUS

\* group_count = boot_count / group_size whole groups fit in the boots,
\* with fewer than group_size boots left over.
LEMMA DivBounds ==
  ASSUME NEW n \in Nat, NEW d \in Nat \ {0}
  PROVE  /\ n \div d \in Nat
         /\ (n \div d) * d <= n
         /\ n - (n \div d) * d < d
  OBVIOUS

(***************************************************************************)
(* The slice args.results_dirs[i * group_size : (i + 1) * group_size] of a *)
(* group that ends inside the boots is that group's whole interval.        *)
(***************************************************************************)
LEMMA GroupSliceInterval ==
  ASSUME GroupTypes, NEW n \in Nat, (n + 1) * groupSize <= bootCount
  PROVE  GroupSlice(n) = (n * groupSize + 1)..((n + 1) * groupSize)
  <1>1. n * groupSize \in Nat
    BY DEF GroupTypes
  <1>2. QED
    BY <1>1 DEF GroupSlice, GroupTypes

\* Append, as the proofs read it.
LEMMA AppendFacts ==
  ASSUME NEW S, NEW f \in Seq(S), NEW x \in S
  PROVE  /\ Append(f, x) \in Seq(S)
         /\ Len(Append(f, x)) = Len(f) + 1
         /\ Append(f, x)[Len(f) + 1] = x
         /\ \A j \in 1..Len(f) : Append(f, x)[j] = f[j]
  OBVIOUS

-----------------------------------------------------------------------------
(***************************************************************************)
(* GroupInv is an inductive invariant of Spec.                             *)
(***************************************************************************)

LEMMA GroupInvInit == Init => GroupInv
  <1> SUFFICES ASSUME Init PROVE GroupInv
    OBVIOUS
  <1>1. GroupTypes
    BY GroupSizesAssumption DEF Init, GroupTypes
  <1>2. QED
    BY <1>1 DEF Init, GroupInv, GroupTypes

LEMMA GroupInvStep == GroupInv /\ [Next]_vars => GroupInv'
  <1> SUFFICES ASSUME GroupInv, [Next]_vars PROVE GroupInv'
    OBVIOUS
  <1>0. GroupTypes
    BY DEF GroupInv
  <1>1. CASE SplitGroups
    <2>1. groupSize \in Nat \ {0} /\ bootCount \in Nat
      BY <1>0, <1>1 DEF SplitGroups, GroupTypes
    <2>2. /\ groupCount' \in Nat
          /\ groupCount' * groupSize' <= bootCount'
      BY <1>1, <2>1, DivBounds DEF SplitGroups
    <2>3. slices = <<>> /\ resultsMaps = <<>>
      BY <1>1 DEF SplitGroups, GroupInv
    <2>4. QED
      BY <1>0, <1>1, <2>1, <2>2, <2>3 DEF SplitGroups, GroupInv, GroupTypes
  <1>2. CASE SplitGroupsByZero
    BY <1>0, <1>2 DEF SplitGroupsByZero, GroupInv, GroupTypes
  <1>3. ASSUME NEW m \in ResultsMaps, LoadGroup(m)
        PROVE  GroupInv'
    <2> DEFINE L == Len(slices)
    <2>1. /\ status = "groups"
          /\ L = Len(resultsMaps)
          /\ L + 1 <= groupCount
          /\ groupSize \in Nat \ {0}
      BY <1>0, <1>3 DEF LoadGroup, GroupInv, GroupTypes
    <2>2. (L + 1) * groupSize <= bootCount
      <3>1. L + 1 \in Nat /\ groupCount \in Nat /\ groupSize \in Nat
        BY <1>0, <2>1 DEF GroupTypes
      <3>2. (L + 1) * groupSize <= groupCount * groupSize
        BY <3>1, <2>1, MulMono
      <3>3. groupCount * groupSize <= bootCount
        BY DEF GroupInv
      <3>4. QED
        BY <3>1, <3>2, <3>3, <1>0 DEF GroupTypes
    <2>3. GroupSlice(L) = (L * groupSize + 1)..((L + 1) * groupSize)
      BY <1>0, <2>2, GroupSliceInterval
    <2>4. /\ slices' \in Seq(SUBSET Int)
          /\ Len(slices') = L + 1
          /\ slices'[L + 1] = (L * groupSize + 1)..((L + 1) * groupSize)
          /\ \A j \in 1..L : slices'[j] = slices[j]
      BY <1>0, <1>3, <2>1, <2>3, AppendFacts DEF LoadGroup, GroupTypes
    <2>5. /\ resultsMaps' \in Seq(ResultsMaps)
          /\ Len(resultsMaps') = Len(resultsMaps) + 1
      BY <1>0, <1>3, AppendFacts DEF LoadGroup, GroupTypes
    <2>6. \A g \in 1..Len(slices') :
            slices'[g] = ((g - 1) * groupSize' + 1)..(g * groupSize')
      BY <1>3, <2>4 DEF LoadGroup, GroupInv
    <2>7. QED
      BY <1>0, <1>3, <2>1, <2>4, <2>5, <2>6 DEF LoadGroup, GroupInv, GroupTypes
  <1>4. CASE LoadGroupFails
    <2> DEFINE L == Len(slices)
    <2>1. /\ status = "groups"
          /\ L = Len(resultsMaps)
          /\ L + 1 <= groupCount
          /\ groupSize \in Nat \ {0}
      BY <1>0, <1>4 DEF LoadGroupFails, GroupInv, GroupTypes
    <2>2. (L + 1) * groupSize <= bootCount
      <3>1. L + 1 \in Nat /\ groupCount \in Nat /\ groupSize \in Nat
        BY <1>0, <2>1 DEF GroupTypes
      <3>2. (L + 1) * groupSize <= groupCount * groupSize
        BY <3>1, <2>1, MulMono
      <3>3. groupCount * groupSize <= bootCount
        BY DEF GroupInv
      <3>4. QED
        BY <3>1, <3>2, <3>3, <1>0 DEF GroupTypes
    <2>3. GroupSlice(L) = (L * groupSize + 1)..((L + 1) * groupSize)
      BY <1>0, <2>2, GroupSliceInterval
    <2>4. /\ slices' \in Seq(SUBSET Int)
          /\ Len(slices') = L + 1
          /\ slices'[L + 1] = (L * groupSize + 1)..((L + 1) * groupSize)
          /\ \A j \in 1..L : slices'[j] = slices[j]
      BY <1>0, <1>4, <2>1, <2>3, AppendFacts DEF LoadGroupFails, GroupTypes
    <2>5. \A g \in 1..Len(slices') :
            slices'[g] = ((g - 1) * groupSize' + 1)..(g * groupSize')
      BY <1>4, <2>4 DEF LoadGroupFails, GroupInv
    <2>6. QED
      BY <1>0, <1>4, <2>1, <2>4, <2>5 DEF LoadGroupFails, GroupInv, GroupTypes
  <1>5. CASE GroupByTest
    BY <1>0, <1>5 DEF GroupByTest, GroupInv, GroupTypes
  <1>6. CASE ComputeRate
    BY <1>0, <1>6 DEF ComputeRate, GroupInv, GroupTypes
  <1>7. CASE ComputeRateByZero
    BY <1>0, <1>7 DEF ComputeRateByZero, GroupInv, GroupTypes
  <1>8. CASE Report
    BY <1>0, <1>8 DEF Report, GroupInv, GroupTypes
  <1>9. CASE ReportFails
    BY <1>0, <1>9 DEF ReportFails, GroupInv, GroupTypes
  <1>10. CASE UNCHANGED vars
    BY <1>0, <1>10 DEF vars, GroupInv, GroupTypes
  <1>11. QED
    BY <1>1, <1>2, <1>3, <1>4, <1>5, <1>6, <1>7, <1>8, <1>9, <1>10 DEF Next


-----------------------------------------------------------------------------
(***************************************************************************)
(* GroupInv implies GroupsPartitionBoots.                                  *)
(***************************************************************************)

\* The arithmetic content of GroupInv, without the types of the results maps.
LEMMA GroupFacts ==
  ASSUME GroupInv
  PROVE  /\ bootCount \in Nat
         /\ groupSize \in Nat
         /\ groupCount \in Nat
         /\ Len(slices) \in Nat
         /\ DOMAIN slices = 1..Len(slices)
         /\ groupCount * groupSize <= bootCount
         /\ Len(slices) <= groupCount
         /\ \A g \in 1..Len(slices) :
              slices[g] = ((g - 1) * groupSize + 1)..(g * groupSize)
         /\ status \in {"rates", "done"} =>
              /\ groupSize # 0
              /\ groupCount = bootCount \div groupSize
              /\ Len(slices) = groupCount
  <1>1. slices \in Seq(SUBSET Int)
    BY DEF GroupInv, GroupTypes
  <1>2. Len(slices) \in Nat /\ DOMAIN slices = 1..Len(slices)
    BY <1>1
  <1>3. bootCount \in Nat
    BY BootsAssumption DEF GroupInv, GroupTypes
  <1>4. QED
    BY <1>2, <1>3 DEF GroupInv, GroupTypes

\* A recorded group lies inside the boots.
LEMMA GroupInBoots ==
  ASSUME GroupInv, NEW g \in 1..Len(slices)
  PROVE  g * groupSize <= bootCount
  <1>1. /\ g \in Nat /\ groupCount \in Nat /\ groupSize \in Nat /\ g <= groupCount
        /\ bootCount \in Nat /\ groupCount * groupSize <= bootCount
    BY GroupFacts
  <1>2. g * groupSize <= groupCount * groupSize
    BY <1>1, MulMono
  <1>3. QED
    BY <1>1, <1>2

\* Once every group is read, the groups cover 1..group_count * group_size.
LEMMA GroupsCover ==
  ASSUME GroupInv, status \in {"rates", "done"}
  PROVE  UNION {slices[g] : g \in DOMAIN slices} = 1..(groupCount * groupSize)
  <1>1. /\ groupSize \in Nat \ {0}
        /\ groupCount \in Nat
        /\ DOMAIN slices = 1..groupCount
        /\ \A g \in 1..groupCount : slices[g] = ((g - 1) * groupSize + 1)..(g * groupSize)
    BY GroupFacts
  <1>2. ASSUME NEW g \in 1..groupCount, NEW b \in slices[g]
        PROVE  b \in 1..(groupCount * groupSize)
    <2>1. /\ (g - 1) * groupSize \in Nat
          /\ b \in Int
          /\ (g - 1) * groupSize + 1 <= b
          /\ b <= g * groupSize
      BY <1>1, <1>2
    <2>2. g * groupSize <= groupCount * groupSize
      BY <1>1, MulMono
    <2>3. groupCount * groupSize \in Nat /\ g * groupSize \in Nat
      BY <1>1
    <2>4. QED
      BY <2>1, <2>2, <2>3
  <1>3. ASSUME NEW b \in 1..(groupCount * groupSize)
        PROVE  \E g \in 1..groupCount : b \in slices[g]
    <2> DEFINE q == (b - 1) \div groupSize
    <2>0. b - 1 \in Nat /\ b <= groupCount * groupSize
      BY <1>1
    <2>1. /\ q \in Nat
          /\ q * groupSize <= b - 1
          /\ (b - 1) - q * groupSize < groupSize
      BY <1>1, <2>0, DivBounds
    <2>2. q < groupCount
      <3>1. SUFFICES ASSUME groupCount <= q PROVE FALSE
        BY <1>1, <2>1
      <3>2. groupCount * groupSize <= q * groupSize
        BY <1>1, <2>1, <3>1, MulMono
      <3>3. QED
        BY <1>1, <2>0, <2>1, <3>2
    <2>3. b \in (q * groupSize + 1)..((q + 1) * groupSize)
      BY <1>1, <2>0, <2>1
    <2>4. q + 1 \in 1..groupCount /\ slices[q + 1] = (q * groupSize + 1)..((q + 1) * groupSize)
      BY <1>1, <2>1, <2>2
    <2>5. QED
      BY <2>3, <2>4
  <1>4. QED
    BY <1>1, <1>2, <1>3

\* With group_count = boot_count / group_size, fewer than group_size boots
\* are left over.
LEMMA RemainderBound ==
  ASSUME GroupInv, status \in {"rates", "done"}
  PROVE  /\ 0 <= bootCount - groupCount * groupSize
         /\ bootCount - groupCount * groupSize < groupSize
  <1>1. /\ groupSize \in Nat \ {0}
        /\ bootCount \in Nat
        /\ groupCount = bootCount \div groupSize
    BY GroupFacts
  <1>2. QED
    BY <1>1, DivBounds

LEMMA GroupInvPartition == GroupInv => GroupsPartitionBoots
  <1> SUFFICES ASSUME GroupInv PROVE GroupsPartitionBoots
    OBVIOUS
  <1>1. /\ DOMAIN slices = 1..Len(slices)
        /\ \A g \in 1..Len(slices) :
             slices[g] = ((g - 1) * groupSize + 1)..(g * groupSize)
    BY GroupFacts
  <1>2. \A g \in DOMAIN slices :
          /\ slices[g] = ((g - 1) * groupSize + 1)..(g * groupSize)
          /\ g * groupSize <= bootCount
    BY <1>1, GroupInBoots
  <1>3. QED
    BY <1>2, GroupsCover, RemainderBound DEF GroupsPartitionBoots

(***************************************************************************)
(* For every boot count, every group size and every outcome of the         *)
(* aggregations, the groups ValidatePerfCompare reads (lines 282-287) are  *)
(* consecutive whole runs of group_size boots that exist, and once all are *)
(* read they cover the first group_count * group_size boots, leaving fewer *)
(* than group_size over.                                                   *)
(***************************************************************************)
THEOREM GroupsPartitionCorrect == Spec => []GroupsPartitionBoots
  <1>1. Init => GroupInv
    BY GroupInvInit
  <1>2. GroupInv /\ [Next]_vars => GroupInv'
    BY GroupInvStep
  <1>3. GroupInv => GroupsPartitionBoots
    BY GroupInvPartition
  <1>4. QED
    BY <1>1, <1>2, <1>3, PTL DEF Spec

=============================================================================
