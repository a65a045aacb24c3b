--------------------------- MODULE GenCargo_proofs ---------------------------
(***************************************************************************)
(* Proofs about GenCargo, for every set of paths and names and every bound  *)
(* on the targets listing: the state stays well typed, the discovery of    *)
(* "." finds the one cargo target at the directory or above it or fails,   *)
(* and the link points at the Cargo.toml that manifest_path chose.         *)
(***************************************************************************)
EXTENDS GenCargo, TLAPS

\* The constants and variables TypeOK leaves untyped but the steps read.
Frame ==
    /\ listing \in Seq(ListingLines)
    /\ cwd \in Paths
    /\ targetBuilt \in BOOLEAN
    /\ hostBuilt \in BOOLEAN

TInv == TypeOK /\ Frame

\* The target a matching line of the listing is yielded as (line 32).
LineTarget(k) == [path |-> listing[k].path, name |-> listing[k].base]

\* Line k of the listing is a candidate.
IsCandidate(k) == k \in Candidates

\* The candidates among the first n lines of the listing.
Hits(n) == {k \in 1..n : k \in Candidates}

(***************************************************************************)
(* The inductive invariant.  The list "found" has no element, exactly one  *)
(* (the target of the only candidate scanned so far) or at least two,      *)
(* according to the candidates among the lines already scanned; once the  *)
(* discovery is over the whole listing has been scanned; and from          *)
(* "linking" on, the manifest is the one manifest_path gives, and the     *)
(* outcome agrees with which of the two Cargo.toml files exist.            *)
(***************************************************************************)
ScanInv ==
    /\ Len(found) = 0 => Hits(i - 1) = {}
    /\ Len(found) = 1 =>
         \E k \in Hits(i - 1) : Hits(i - 1) = {k} /\ found[1] = LineTarget(k)
    /\ Len(found) >= 2 => \E k1, k2 \in Hits(i - 1) : k1 # k2
    /\ ~arg.dot => found = <<>>

ResolveInv ==
    /\ arg.dot /\ pc \notin {"discover", "fx_error"} => i = Len(listing) + 1
    /\ pc = "value_error" => arg.dot /\ Len(found) # 1
    /\ arg.dot /\ pc \notin {"discover", "fx_error", "value_error"} =>
         Len(found) = 1 /\ gnTarget = found[1]
    /\ pc \notin {"discover", "fx_error", "value_error"} => gnTarget \in Targets

LinkInv ==
    /\ pc \in {"linking", "done", "os_error", "internal_error"} =>
         manifest = [variant |-> IF targetBuilt THEN "target" ELSE "host",
                     rel |-> ManifestRel(gnTarget)]
    /\ pc = "done" => output = "link" /\ (targetBuilt \/ hostBuilt)
    /\ pc = "os_error" => targetBuilt \/ hostBuilt
    /\ pc = "internal_error" => ~targetBuilt /\ ~hostBuilt

IInv == TInv /\ ScanInv /\ ResolveInv /\ LinkInv

-----------------------------------------------------------------------------
(***************************************************************************)
(* Type correctness.                                                       *)
(***************************************************************************)

\* The only element of a sequence of length one is of its type.
LEMMA SeqHead == ASSUME NEW S, NEW f \in Seq(S), Len(f) = 1 PROVE f[1] \in S
  OBVIOUS

\* A sequence is empty, a singleton, or longer.
LEMMA LenCases ==
  ASSUME NEW S, NEW f \in Seq(S)
  PROVE  Len(f) = 0 \/ Len(f) = 1 \/ Len(f) >= 2
  <1>1. Len(f) \in Nat
    OBVIOUS
  <1>2. \A x \in Nat : x = 0 \/ x = 1 \/ x >= 2
    OBVIOUS
  <1>3. QED
    BY <1>1, <1>2, Zenon

\* What Append does to a sequence.
LEMMA AppendFacts ==
  ASSUME NEW S, NEW f \in Seq(S), NEW x \in S
  PROVE  /\ Append(f, x) \in Seq(S)
         /\ Len(Append(f, x)) = Len(f) + 1
         /\ Append(f, x)[Len(f) + 1] = x
         /\ \A j \in 1..Len(f) : Append(f, x)[j] = f[j]
  OBVIOUS

\* Append is concatenation with a one-element sequence.
LEMMA AppendConcat ==
  ASSUME NEW S, NEW f \in Seq(S), NEW x
  PROVE  Append(f, x) = f \o <<x>>
  OBVIOUS

\* The listing is any sequence of at most MaxTargets lines.
LEMMA TypeInit == Init => TInv
  <1> SUFFICES ASSUME Init PROVE TInv
    OBVIOUS
  <1>1. PICK n \in 0..MaxTargets : listing \in [1..n -> ListingLines]
    BY DEF Init
  <1>2. listing \in Seq(ListingLines) /\ Len(listing) = n
    BY <1>1, GenCargoAssumption
  <1>3. QED
    BY <1>2, GenCargoAssumption
       DEF Init, TInv, TypeOK, Frame, Targets, OutputStates

\* Every action keeps TInv; the listing, the directory and the files never change.
LEMMA TypeStep == TInv /\ [Next]_vars => TInv'
  <1> USE DEF TInv, TypeOK, Frame
  <1> SUFFICES ASSUME TInv, [Next]_vars PROVE TInv'
    OBVIOUS
  <1>1. CASE ParseLabel
    <2>1. [path |-> arg.path, name |-> arg.name] \in Targets
      BY <1>1, Zenon DEF ParseLabel, Args, Targets
    <2>2. QED
      BY <1>1, <2>1 DEF ParseLabel
  <1>9. CASE ListingFails
    BY <1>9 DEF ListingFails
  <1>2. CASE DiscoverLine
    <2>1. [path |-> listing[i].path, name |-> listing[i].base] \in Targets
      <3>1. i \in 1..Len(listing)
        BY <1>2 DEF DiscoverLine
      <3>2. listing[i] \in ListingLines
        BY <3>1
      <3>3. QED
        BY <3>2 DEF ListingLines, Targets
    <2>2. found' \in Seq(Targets)
      BY <1>2, <2>1 DEF DiscoverLine
    <2>3. QED
      BY <1>2, <2>2 DEF DiscoverLine
  <1>3. CASE DiscoverEnd
    <2>1. Len(found) = 1 => found[1] \in Targets
      BY SeqHead
    <2>2. QED
      BY <1>3, <2>1 DEF DiscoverEnd
  <1>4. CASE ManifestPath
    BY <1>4 DEF ManifestPath
  <1>5. CASE Link
    BY <1>5 DEF Link, OutputStates
  <1>6. CASE NoManifest
    BY <1>6 DEF NoManifest
  <1>7. CASE UNCHANGED vars
    BY <1>7 DEF vars
  <1>8. QED
    BY <1>1, <1>9, <1>2, <1>3, <1>4, <1>5, <1>6, <1>7 DEF Next

(***************************************************************************)
(* Every state the script reaches is well typed, whatever the paths, the   *)
(* names, the listing, and the files present (the type invariant of the    *)
(* gen_cargo run).                                                         *)
(***************************************************************************)
THEOREM TypeCorrect == Spec => []TypeOK
  <1>1. TInv => TypeOK
    BY DEF TInv
  <1>2. QED
    BY TypeInit, TypeStep, <1>1, PTL DEF Spec


-----------------------------------------------------------------------------
(***************************************************************************)
(* Lemmas about the discovery.                                             *)
(***************************************************************************)

(***************************************************************************)
(* _walk_up_path yields exactly the non-empty prefixes of a path: a path   *)
(* is in WalkUp(p) iff it is no longer than p and agrees with p on its     *)
(* length.                                                                 *)
(***************************************************************************)
LEMMA WalkUpPrefix ==
  ASSUME NEW p \in Seq(STRING), NEW q \in Seq(STRING), q # <<>>
  PROVE  q \in WalkUp(p) <=> Len(q) <= Len(p) /\ \A d \in 1..Len(q) : q[d] = p[d]
  <1>1. ASSUME q \in WalkUp(p)
        PROVE  Len(q) <= Len(p) /\ \A d \in 1..Len(q) : q[d] = p[d]
    <2>1. PICK k \in 1..Len(p) : q = SubSeq(p, 1, k)
      BY <1>1 DEF WalkUp
    <2>2. QED
      BY <2>1
  <1>2. ASSUME Len(q) <= Len(p), \A d \in 1..Len(q) : q[d] = p[d]
        PROVE  q \in WalkUp(p)
    <2>1. Len(q) \in 1..Len(p)
      BY <1>2
    <2>2. q = SubSeq(p, 1, Len(q))
      BY <1>2
    <2>3. QED
      BY <2>1, <2>2 DEF WalkUp
  <1>3. QED
    BY <1>1, <1>2

\* A line of the listing passes the filter of lines 27-34 iff it is a candidate.
LEMMA MatchesCandidate ==
  ASSUME TInv, NEW k \in 1..Len(listing)
  PROVE  Matches(listing[k]) <=> k \in Candidates
  <1>1. listing[k] \in ListingLines /\ cwd \in Paths
    BY DEF TInv, Frame
  <1>2. listing[k].path \in Seq(STRING) /\ listing[k].path # <<>>
        /\ cwd \in Seq(STRING)
    BY <1>1, GenCargoAssumption DEF ListingLines
  <1>3. listing[k].path \in WalkUp(cwd) <=>
          /\ Len(listing[k].path) <= Len(cwd)
          /\ \A d \in 1..Len(listing[k].path) : listing[k].path[d] = cwd[d]
    BY <1>2, WalkUpPrefix
  <1>4. k \in DOMAIN listing
    BY DEF TInv, Frame
  <1>5. QED
    BY <1>3, <1>4 DEF Matches, Candidates

\* Scanning one more line adds it to the hits iff it is a candidate.
LEMMA HitsStep ==
  ASSUME NEW n \in Nat
  PROVE  Hits(n + 1) = Hits(n) \cup {k \in {n + 1} : k \in Candidates}
  BY DEF Hits

\* Before any line is scanned there is no hit; after all, the hits are the candidates.
LEMMA HitsBounds ==
  ASSUME TInv
  PROVE  /\ Hits(0) = {}
         /\ Hits(Len(listing)) = Candidates
  BY DEF Hits, Candidates, TInv, Frame


-----------------------------------------------------------------------------
(***************************************************************************)
(* The inductive invariant.                                                *)
(***************************************************************************)

LEMMA IInvInit == Init => IInv
  <1> SUFFICES ASSUME Init PROVE IInv
    OBVIOUS
  <1>1. TInv
    BY TypeInit
  <1>2. Hits(0) = {}
    BY <1>1, HitsBounds
  <1>3. QED
    BY <1>1, <1>2 DEF Init, IInv, ScanInv, ResolveInv, LinkInv

(***************************************************************************)
(* rust.py lines 26-38, one line scanned: the hits grow by the line iff it *)
(* is a candidate, and "found" by its target iff it matches, so the two    *)
(* stay in step.                                                           *)
(***************************************************************************)
LEMMA ScanStep ==
  ASSUME TInv, ScanInv, DiscoverLine
  PROVE  ScanInv'
  <1>1. i \in 1..Len(listing) /\ i' = i + 1 /\ arg.dot
        /\ UNCHANGED <<arg, cwd, listing>>
    BY DEF DiscoverLine, TInv, TypeOK
  <1>2. /\ Candidates' = Candidates
        /\ \A k \in Nat : LineTarget(k)' = LineTarget(k)
    BY <1>1 DEF Candidates, LineTarget
  <1>3. Hits(i - 1)' = Hits(i - 1) \cup {k \in {i} : k \in Candidates}
    <2>1. Hits(i - 1)' = Hits((i - 1) + 1)
      BY <1>1, <1>2 DEF Hits
    <2>2. i - 1 \in Nat
      BY <1>1
    <2>3. Hits((i - 1) + 1) = Hits(i - 1) \cup {k \in {(i - 1) + 1} : k \in Candidates}
      BY <2>2, HitsStep
    <2>4. (i - 1) + 1 = i
      BY <1>1
    <2>5. QED
      BY <2>1, <2>3, <2>4
  <1>4. \A k \in Hits(i - 1) : k < i /\ k \in Nat
    BY <1>1 DEF Hits
  <1>5. found \in Seq(Targets) /\ LineTarget(i) \in Targets
    <2>1. listing[i] \in ListingLines
      BY <1>1 DEF TInv, Frame
    <2>2. LineTarget(i) \in Targets
      BY <2>1 DEF LineTarget, ListingLines, Targets
    <2>3. QED
      BY <2>2 DEF TInv, TypeOK
  <1>6. CASE IsCandidate(i)
    <2>1. Matches(listing[i])
      BY <1>1, <1>6, MatchesCandidate DEF IsCandidate
    <2>2. found' = Append(found, LineTarget(i))
      BY <2>1 DEF DiscoverLine, LineTarget
    <2>3. Hits(i - 1)' = Hits(i - 1) \cup {i}
      BY <1>3, <1>6 DEF IsCandidate
    <2>9. /\ Len(found') = Len(found) + 1
          /\ found'[Len(found) + 1] = LineTarget(i)
      <3>1. /\ Len(Append(found, LineTarget(i))) = Len(found) + 1
            /\ Append(found, LineTarget(i))[Len(found) + 1] = LineTarget(i)
        BY <1>5, AppendFacts
      <3>2. QED
        BY <3>1, <2>2, Zenon
    <2>4. CASE Len(found) = 0
      <3>1. Hits(i - 1) = {}
        BY <2>4 DEF ScanInv
      <3>2. Hits(i - 1)' = {i} /\ i \in Nat
        BY <3>1, <2>3, <1>1
      <3>3. Len(found') = 1 /\ found'[1] = LineTarget(i)
        BY <2>9, <2>4
      <3>4. QED
        BY <3>2, <3>3, <1>1, <1>2 DEF ScanInv
    <2>5. CASE Len(found) = 1
      <3>1. PICK k \in Hits(i - 1) : Hits(i - 1) = {k}
        BY <2>5 DEF ScanInv
      <3>2. k # i /\ k \in Hits(i - 1)' /\ i \in Hits(i - 1)'
        BY <3>1, <1>4, <2>3
      <3>3. Len(found') = 2
        BY <2>9, <2>5
      <3>4. QED
        BY <3>2, <3>3, <1>1 DEF ScanInv
    <2>6. CASE Len(found) >= 2
      <3>1. PICK k1, k2 \in Hits(i - 1) : k1 # k2
        BY <2>6 DEF ScanInv
      <3>2. k1 \in Hits(i - 1)' /\ k2 \in Hits(i - 1)'
        BY <3>1, <2>3
      <3>3. Len(found') >= 2 /\ Len(found') \in Nat
        BY <2>9, <2>6, <1>5
      <3>4. QED
        BY <3>1, <3>2, <3>3, <1>1 DEF ScanInv
    <2>7. Len(found) = 0 \/ Len(found) = 1 \/ Len(found) >= 2
      BY <1>5, LenCases
    <2>8. QED
      BY <2>4, <2>5, <2>6, <2>7
  <1>7. CASE ~IsCandidate(i)
    <2>1. ~Matches(listing[i])
      BY <1>1, <1>7, MatchesCandidate DEF IsCandidate
    <2>2. found' = found
      BY <2>1 DEF DiscoverLine
    <2>3. Hits(i - 1)' = Hits(i - 1)
      BY <1>3, <1>7 DEF IsCandidate
    <2>4. QED
      BY <2>2, <2>3, <1>1, <1>2, <1>4 DEF ScanInv
  <1>8. QED
    BY <1>6, <1>7


\* A step that leaves the scan's variables alone keeps ScanInv.
LEMMA ScanFrame ==
  ASSUME ScanInv, UNCHANGED <<found, i, arg, cwd, listing>>
  PROVE  ScanInv'
  <1>1. Hits(i - 1)' = Hits(i - 1)
    BY DEF Hits, Candidates
  <1>2. \A k \in Nat : LineTarget(k)' = LineTarget(k)
    BY DEF LineTarget
  <1>3. \A k \in Hits(i - 1) : k \in Nat
    BY DEF Hits
  <1>4. QED
    BY <1>1, <1>2, <1>3 DEF ScanInv

\* Every action keeps the inductive invariant.
LEMMA IInvStep == IInv /\ [Next]_vars => IInv'
  <1> SUFFICES ASSUME IInv, [Next]_vars PROVE IInv'
    OBVIOUS
  <1>1. TInv /\ TInv'
    BY TypeStep DEF IInv
  <1>2. CASE ParseLabel
    <2>1. ScanInv'
      BY <1>2, ScanFrame DEF ParseLabel, IInv
    <2>2. gnTarget' \in Targets /\ ~arg.dot /\ pc' = "resolved" /\ arg' = arg
      <3>1. [path |-> arg.path, name |-> arg.name] \in Targets
        BY <1>1, <1>2, Zenon DEF ParseLabel, Args, Targets, TInv, TypeOK
      <3>2. QED
        BY <3>1, <1>2 DEF ParseLabel
    <2>3. QED
      BY <2>1, <2>2, <1>1 DEF IInv, ResolveInv, LinkInv
  <1>3. CASE DiscoverLine
    <2>1. ScanInv'
      BY <1>1, <1>3, ScanStep DEF IInv
    <2>2. pc' = "discover"
      BY <1>3 DEF DiscoverLine
    <2>3. QED
      BY <2>1, <2>2, <1>1 DEF IInv, ResolveInv, LinkInv
  <1>4. CASE DiscoverEnd
    <2>1. ScanInv'
      BY <1>4, ScanFrame DEF DiscoverEnd, IInv
    <2>2. arg.dot /\ i = Len(listing) + 1 /\ UNCHANGED <<arg, i, listing, found>>
      BY <1>1, <1>4 DEF DiscoverEnd, TInv, TypeOK
    <2>3. found \in Seq(Targets)
      BY <1>1 DEF TInv, TypeOK
    <2>4. CASE Len(found) = 1
      <3>1. pc' = "resolved" /\ gnTarget' = found[1]
        BY <2>4, <1>4 DEF DiscoverEnd
      <3>2. found[1] \in Targets
        BY <2>3, <2>4, SeqHead
      <3>3. QED
        BY <2>1, <2>2, <2>4, <3>1, <3>2, <1>1 DEF IInv, ResolveInv, LinkInv
    <2>5. CASE Len(found) # 1
      <3>1. pc' = "value_error"
        BY <2>5, <1>4 DEF DiscoverEnd
      <3>2. QED
        BY <2>1, <2>2, <2>5, <3>1, <1>1 DEF IInv, ResolveInv, LinkInv
    <2>6. QED
      BY <2>4, <2>5
  <1>5. CASE ManifestPath
    <2>1. ScanInv'
      BY <1>5, ScanFrame DEF ManifestPath, IInv
    <2>2. ResolveInv'
      BY <1>5 DEF ManifestPath, IInv, ResolveInv
    <2>3. manifest' = [variant |-> IF targetBuilt THEN "target" ELSE "host",
                       rel |-> ManifestRel(gnTarget)]
      BY <1>5 DEF ManifestPath
    <2>4. QED
      BY <2>1, <2>2, <2>3, <1>1, <1>5 DEF ManifestPath, IInv, LinkInv
  <1>6. CASE Link
    <2>1. ScanInv'
      BY <1>6, ScanFrame DEF Link, IInv
    <2>2. pc = "linking" /\ pc' \in {"done", "os_error"}
          /\ UNCHANGED <<arg, i, listing, found, gnTarget, manifest, targetBuilt, hostBuilt>>
      BY <1>6 DEF Link
    <2>3. ResolveInv'
      BY <2>2 DEF IInv, ResolveInv
    <2>4. targetBuilt \/ hostBuilt
      BY <1>6, <1>1, <2>2 DEF Link, IInv, LinkInv, TInv, Frame
    <2>5. pc' = "done" => output' = "link"
      BY <1>6 DEF Link
    <2>6. QED
      BY <2>1, <2>2, <2>3, <2>4, <2>5, <1>1 DEF IInv, LinkInv
  <1>7. CASE NoManifest
    <2>1. ScanInv'
      BY <1>7, ScanFrame DEF NoManifest, IInv
    <2>2. pc = "linking" /\ pc' = "internal_error"
          /\ UNCHANGED <<arg, i, listing, found, gnTarget, manifest, targetBuilt, hostBuilt>>
      BY <1>7 DEF NoManifest
    <2>3. ResolveInv'
      BY <2>2 DEF IInv, ResolveInv
    <2>4. ~targetBuilt /\ ~hostBuilt
      BY <1>7, <1>1, <2>2 DEF NoManifest, IInv, LinkInv, TInv, Frame
    <2>5. QED
      BY <2>1, <2>2, <2>3, <2>4, <1>1 DEF IInv, LinkInv
  <1>8. CASE UNCHANGED vars
    <2>1. ScanInv'
      BY <1>8, ScanFrame DEF vars, IInv
    <2>2. QED
      BY <2>1, <1>1, <1>8 DEF vars, IInv, ResolveInv, LinkInv
  <1>10. CASE ListingFails
    <2>1. ScanInv'
      BY <1>10, ScanFrame DEF ListingFails, IInv
    <2>2. QED
      BY <2>1, <1>1, <1>10 DEF ListingFails, IInv, ResolveInv, LinkInv
  <1>9. QED
    BY <1>2, <1>10, <1>3, <1>4, <1>5, <1>6, <1>7, <1>8 DEF Next


-----------------------------------------------------------------------------
(***************************************************************************)
(* The properties.                                                         *)
(***************************************************************************)

LEMMA IInvDiscovery == IInv => DiscoveryMatchesSpec
  <1> SUFFICES ASSUME IInv, arg.dot, pc \notin {"discover", "fx_error"}
               PROVE  DiscoveryMatchesSpec
    BY DEF DiscoveryMatchesSpec
  <1>1. TInv /\ ScanInv /\ ResolveInv
    BY DEF IInv
  <1>2. Hits(i - 1) = Candidates
    <2>1. i - 1 = Len(listing)
      BY <1>1 DEF ResolveInv, TInv, TypeOK
    <2>2. QED
      BY <1>1, <2>1, HitsBounds
  <1>3. found \in Seq(Targets) /\ Candidates \subseteq DOMAIN listing
    BY <1>1 DEF TInv, TypeOK, Candidates
  <1>4. CASE pc # "value_error"
    <2>1. Len(found) = 1 /\ gnTarget = found[1]
      BY <1>1, <1>4 DEF ResolveInv
    <2>2. PICK k \in Hits(i - 1) : Hits(i - 1) = {k} /\ found[1] = LineTarget(k)
      BY <1>1, <2>1 DEF ScanInv
    <2>3. k \in DOMAIN listing /\ Candidates = {k}
      BY <1>2, <1>3, <2>2
    <2>4. gnTarget = [path |-> listing[k].path, name |-> listing[k].base]
      BY <2>1, <2>2 DEF LineTarget
    <2>5. QED
      BY <1>4, <2>3, <2>4 DEF DiscoveryMatchesSpec
  <1>5. CASE pc = "value_error"
    <2>1. Len(found) # 1
      BY <1>1, <1>5 DEF ResolveInv
    <2>2. ~\E k \in DOMAIN listing : Candidates = {k}
      <3>1. SUFFICES ASSUME NEW k \in DOMAIN listing, Candidates = {k}
                     PROVE  FALSE
        OBVIOUS
      <3>2. Hits(i - 1) = {k}
        BY <1>2, <3>1
      <3>3. Len(found) = 0 \/ Len(found) >= 2
        BY <1>3, <2>1, LenCases
      <3>4. CASE Len(found) = 0
        BY <1>1, <3>2, <3>4 DEF ScanInv
      <3>5. CASE Len(found) >= 2
        BY <1>1, <3>2, <3>5 DEF ScanInv
      <3>6. QED
        BY <3>3, <3>4, <3>5
    <2>3. QED
      BY <1>5, <2>2 DEF DiscoveryMatchesSpec
  <1>6. QED
    BY <1>4, <1>5

LEMMA IInvLink == IInv => LinkMatchesManifests
  <1> SUFFICES ASSUME IInv, pc \in {"done", "internal_error", "os_error"}
               PROVE  LinkMatchesManifests
    BY DEF LinkMatchesManifests
  <1>1. TInv /\ ResolveInv /\ LinkInv
    BY DEF IInv
  <1>2. targetBuilt \in BOOLEAN /\ hostBuilt \in BOOLEAN
    BY <1>1 DEF TInv, Frame
  <1>3. (pc = "internal_error") <=> ~targetBuilt /\ ~hostBuilt
    BY <1>1, <1>2 DEF LinkInv
  <1>4. ASSUME pc = "done"
        PROVE  manifest.rel = gnTarget.path \o
                 <<IF gnTarget.name = NoName THEN gnTarget.path[Len(gnTarget.path)]
                   ELSE gnTarget.name>>
    <2>1. gnTarget \in Targets
      BY <1>1, <1>4 DEF ResolveInv
    <2>2. gnTarget.path \in Seq(STRING)
      BY <2>1, GenCargoAssumption DEF Targets
    <2>3. manifest.rel = ManifestRel(gnTarget)
      BY <1>1, <1>4 DEF LinkInv
    <2>4. QED
      BY <2>2, <2>3, AppendConcat DEF ManifestRel
  <1>5. QED
    BY <1>1, <1>3, <1>4 DEF LinkInv, LinkMatchesManifests

(***************************************************************************)
(* gen-cargo.py with "." or ".:name" resolves exactly when one line of the *)
(* targets listing names a "_cargo" target at the current directory or     *)
(* above it (with the requested name), and then to that target with        *)
(* "_cargo" cut off; otherwise it ends with ValueError.  For every listing, *)
(* every directory tree and every name (rust.py lines 23-59).              *)
(***************************************************************************)
THEOREM DiscoveryCorrect == Spec => []DiscoveryMatchesSpec
  BY IInvInit, IInvStep, IInvDiscovery, PTL DEF Spec

(***************************************************************************)
(* The link is made exactly when one of the target's Cargo.toml files      *)
(* exists and the output path is not a directory; it points to the Fuchsia *)
(* one when that exists and else to the host one, at gen/<path>/<name>     *)
(* (manifest_path, rust.py 71-92, and gen-cargo.py 40-55).                 *)
(***************************************************************************)
THEOREM LinkCorrect == Spec => []LinkMatchesManifests
  BY IInvInit, IInvStep, IInvLink, PTL DEF Spec


-----------------------------------------------------------------------------
(***************************************************************************)
(* The step that writes the output path.                                   *)
(***************************************************************************)

\* Only Link changes the output path, and only in its branch that links.
LEMMA OutputStep ==
  ASSUME [Next]_vars, output' # output
  PROVE  /\ pc = "linking"
         /\ \/ manifest.variant = "target" /\ targetBuilt
            \/ manifest.variant = "host" /\ hostBuilt
         /\ output' = "link" /\ pc' = "done" /\ exitCode' = 0
         /\ UNCHANGED <<manifest, gnTarget, targetBuilt, hostBuilt>>
  <1>1. Link
    BY Zenon DEF Next, vars, ParseLabel, ListingFails, DiscoverLine, DiscoverEnd,
                 ManifestPath, NoManifest
  <1>2. output # "dir"
    BY <1>1 DEF Link
  <1>3. QED
    BY <1>1, <1>2 DEF Link

LEMMA IInvOutput ==
  ASSUME IInv, [Next]_vars, output' # output
  PROVE  /\ output' = "link"
         /\ pc' = "done"
         /\ exitCode' = 0
         /\ manifest.rel = ManifestRel(gnTarget)
         /\ IF targetBuilt THEN manifest.variant = "target"
                           ELSE manifest.variant = "host" /\ hostBuilt
  <1>1. /\ pc = "linking"
        /\ \/ manifest.variant = "target" /\ targetBuilt
           \/ manifest.variant = "host" /\ hostBuilt
        /\ output' = "link" /\ pc' = "done" /\ exitCode' = 0
    BY OutputStep
  <1>2. manifest = [variant |-> IF targetBuilt THEN "target" ELSE "host",
                    rel |-> ManifestRel(gnTarget)]
    BY <1>1 DEF IInv, LinkInv
  <1>3. QED
    BY <1>1, <1>2

(***************************************************************************)
(* The output path is written once, by the last step, which makes it a     *)
(* link to the Cargo.toml of the resolved target that exists, the Fuchsia  *)
(* one when it does, and exits with status 0 (gen-cargo.py 40-53 after     *)
(* manifest_path, rust.py 71-92).                                          *)
(***************************************************************************)
THEOREM OutputWriteCorrect == Spec => OutputOnlyLinkedToBuiltManifest
  <1>1. IInv /\ [Next]_vars =>
          [output' # output =>
             /\ output' = "link"
             /\ pc' = "done"
             /\ exitCode' = 0
             /\ manifest.rel = ManifestRel(gnTarget)
             /\ IF targetBuilt THEN manifest.variant = "target"
                               ELSE manifest.variant = "host" /\ hostBuilt]_vars
    BY IInvOutput
  <1>2. QED
    BY <1>1, IInvInit, IInvStep, PTL DEF Spec, OutputOnlyLinkedToBuiltManifest


-----------------------------------------------------------------------------
(***************************************************************************)
(* Refinement of GenCargoAbstract.                                         *)
(***************************************************************************)

\* An explicit argument is the target, split at its colon (rust.py 41-62).
ExplicitTarget ==
    ~arg.dot /\ pc # "discover" => gnTarget = [path |-> arg.path, name |-> arg.name]

LEMMA ExplicitInit == Init => ExplicitTarget
  BY DEF Init, ExplicitTarget

LEMMA ExplicitStep == ExplicitTarget /\ [Next]_vars => ExplicitTarget'
  <1> SUFFICES ASSUME ExplicitTarget, [Next]_vars PROVE ExplicitTarget'
    OBVIOUS
  <1>1. CASE ParseLabel
    BY <1>1 DEF ParseLabel, ExplicitTarget
  <1>2. CASE ListingFails \/ DiscoverLine \/ DiscoverEnd
    BY <1>2 DEF ListingFails, DiscoverLine, DiscoverEnd, ExplicitTarget
  <1>3. CASE ManifestPath \/ Link \/ NoManifest
    BY <1>3 DEF ManifestPath, Link, NoManifest, ExplicitTarget
  <1>4. CASE UNCHANGED vars
    BY <1>4 DEF vars, ExplicitTarget
  <1>5. QED
    BY <1>1, <1>2, <1>3, <1>4 DEF Next

\* The candidates of the code are the targets the promise speaks of.
LEMMA SameCandidates == Abs!CargoTargetsHere = Candidates
  BY DEF Abs!CargoTargetsHere, Candidates

(***************************************************************************)
(* Once the target is resolved, it is the one the promise names.           *)
(***************************************************************************)
LEMMA TargetResolved ==
  ASSUME IInv, ExplicitTarget, pc \notin {"discover", "fx_error", "value_error"}
  PROVE  Abs!Resolvable /\ Abs!ResolvedTarget = gnTarget
  <1>1. CASE arg.dot
    <2>1. PICK k \in DOMAIN listing :
                 Candidates = {k} /\ gnTarget = [path |-> listing[k].path, name |-> listing[k].base]
      BY <1>1, IInvDiscovery DEF DiscoveryMatchesSpec
    <2>2. \A j \in DOMAIN listing : Candidates = {j} => j = k
      BY <2>1
    <2>3. (CHOOSE j \in DOMAIN listing : Abs!CargoTargetsHere = {j}) = k
      BY <2>1, <2>2, SameCandidates
    <2>4. QED
      BY <1>1, <2>1, <2>3, SameCandidates DEF Abs!Resolvable, Abs!ResolvedTarget
  <1>2. CASE ~arg.dot
    BY <1>2 DEF ExplicitTarget, Abs!Resolvable, Abs!ResolvedTarget
  <1>3. QED
    BY <1>1, <1>2

\* When the listing is scanned and "found" is not a single target, no
\* target is the only candidate.
LEMMA ScanNotUnique ==
  ASSUME IInv, arg.dot, i > Len(listing), Len(found) # 1
  PROVE  ~Abs!Resolvable
  <1>1. TInv /\ ScanInv
    BY DEF IInv
  <1>2. i - 1 = Len(listing) /\ found \in Seq(Targets)
    BY <1>1 DEF TInv, TypeOK
  <1>3. Hits(i - 1) = Candidates
    BY <1>1, <1>2, HitsBounds
  <1>4. SUFFICES ASSUME NEW k \in DOMAIN listing, Candidates = {k} PROVE FALSE
    BY SameCandidates DEF Abs!Resolvable
  <1>5. Hits(i - 1) = {k}
    BY <1>3, <1>4
  <1>6. Len(found) = 0 \/ Len(found) >= 2
    BY <1>2, LenCases
  <1>7. QED
    BY <1>1, <1>5, <1>6 DEF ScanInv

\* The manifest linked is the promised gen/<path>/<name>.
LEMMA ManifestRelOf ==
  ASSUME TInv, ResolveInv, pc \notin {"discover", "fx_error", "value_error"}
  PROVE  ManifestRel(gnTarget) = Abs!ManifestOf(gnTarget)
  <1>1. gnTarget \in Targets
    BY DEF ResolveInv
  <1>2. gnTarget.path \in Seq(STRING)
    BY <1>1, GenCargoAssumption DEF Targets
  <1>3. QED
    BY <1>2, AppendConcat DEF ManifestRel, Abs!ManifestOf


(***************************************************************************)
(* Every step of main() is a step of the promise or leaves its state       *)
(* alone: the steps before the last keep the run "running" and the output *)
(* untouched; the last one is Finish with the matching outcome.            *)
(***************************************************************************)
LEMMA RefinementStep ==
  IInv /\ ExplicitTarget /\ [Next]_vars => [Abs!Finish]_Abs!absVars
  <1> SUFFICES ASSUME IInv, ExplicitTarget, [Next]_vars
               PROVE  [Abs!Finish]_Abs!absVars
    OBVIOUS
  <1>0. TInv /\ ResolveInv /\ LinkInv
    BY DEF IInv
  <1> DEFINE Running == {"discover", "resolved", "linking"}
  \* A step between two running states is an abstract stutter.
  <1>1. ASSUME pc \in Running, pc' \in Running,
               UNCHANGED <<arg, cwd, listing, targetBuilt, hostBuilt, output>>
        PROVE  UNCHANGED Abs!absVars
    <2>1. Outcome' = Outcome /\ LinkedManifest' = LinkedManifest
      BY <1>1 DEF Outcome, LinkedManifest
    <2>2. QED
      BY <1>1, <2>1 DEF Abs!absVars
  \* The two Cargo.toml of the manifest chosen by manifest_path.
  <1>2. ASSUME pc = "linking"
        PROVE  manifest = [variant |-> IF targetBuilt THEN "target" ELSE "host",
                           rel |-> ManifestRel(gnTarget)]
    BY <1>0, <1>2 DEF LinkInv
  <1>3. CASE ParseLabel
    BY <1>1, <1>3 DEF ParseLabel
  <1>4. CASE DiscoverLine
    BY <1>1, <1>4 DEF DiscoverLine
  <1>12. CASE ListingFails
    <2>1. /\ pc = "discover" /\ pc' = "fx_error" /\ arg.dot
          /\ UNCHANGED <<arg, cwd, listing, targetBuilt, hostBuilt, output, manifest>>
      BY <1>12 DEF ListingFails
    <2>2. Outcome = "running" /\ Outcome' = "fx_error"
          /\ LinkedManifest' = LinkedManifest
      BY <2>1 DEF Outcome, LinkedManifest
    <2>3. QED
      BY <2>1, <2>2 DEF Abs!Finish
  <1>5. CASE DiscoverEnd /\ Len(found) = 1
    BY <1>1, <1>5 DEF DiscoverEnd
  <1>6. CASE DiscoverEnd /\ Len(found) # 1
    <2>1. /\ pc = "discover" /\ pc' = "value_error"
          /\ arg.dot /\ i > Len(listing)
          /\ UNCHANGED <<arg, cwd, listing, targetBuilt, hostBuilt, output, manifest>>
      BY <1>6 DEF DiscoverEnd
    <2>2. ~Abs!Resolvable
      BY <1>6, <2>1, ScanNotUnique
    <2>3. Outcome = "running" /\ Outcome' = "value_error"
          /\ LinkedManifest' = LinkedManifest
      BY <2>1 DEF Outcome, LinkedManifest
    <2>4. QED
      BY <2>1, <2>2, <2>3 DEF Abs!Finish
  <1>7. CASE ManifestPath
    BY <1>1, <1>7 DEF ManifestPath
  <1>8. CASE Link
    <2>1. /\ pc = "linking"
          /\ \/ manifest.variant = "target" /\ targetBuilt
             \/ manifest.variant = "host" /\ hostBuilt
          /\ UNCHANGED <<arg, cwd, listing, targetBuilt, hostBuilt, manifest, gnTarget>>
      BY <1>8 DEF Link
    <2>2. targetBuilt \/ hostBuilt
      BY <2>1
    <2>3. Abs!Resolvable /\ Abs!ResolvedTarget = gnTarget
      BY <2>1, TargetResolved
    <2>4. ManifestRel(gnTarget) = Abs!ManifestOf(gnTarget)
      BY <1>0, <2>1, ManifestRelOf
    <2>5. Outcome = "running"
      BY <2>1 DEF Outcome
    <2>6. CASE output = "dir"
      <3>1. pc' = "os_error" /\ UNCHANGED output
        BY <1>8, <2>6 DEF Link
      <3>2. Outcome' = "os_error" /\ LinkedManifest' = LinkedManifest
        BY <2>1, <3>1 DEF Outcome, LinkedManifest
      <3>3. QED
        BY <2>1, <2>2, <2>3, <2>5, <2>6, <3>1, <3>2 DEF Abs!Finish
    <2>7. CASE output # "dir"
      <3>1. pc' = "done" /\ output' = "link"
        BY <1>8, <2>7 DEF Link
      <3>2. Outcome' = "done"
        BY <3>1 DEF Outcome
      <3>3. LinkedManifest' = [variant |-> IF targetBuilt THEN "target" ELSE "host",
                               rel |-> Abs!ManifestOf(Abs!ResolvedTarget)]
        BY <1>2, <2>1, <2>3, <2>4, <3>1 DEF LinkedManifest
      <3>4. QED
        BY <2>1, <2>2, <2>3, <2>5, <2>7, <3>1, <3>2, <3>3 DEF Abs!Finish
    <2>8. QED
      BY <2>6, <2>7
  <1>9. CASE NoManifest
    <2>1. /\ pc = "linking" /\ pc' = "internal_error"
          /\ \/ manifest.variant = "target" /\ ~targetBuilt
             \/ manifest.variant = "host" /\ ~hostBuilt
          /\ UNCHANGED <<arg, cwd, listing, targetBuilt, hostBuilt, output, manifest, gnTarget>>
      BY <1>9 DEF NoManifest
    <2>2. ~targetBuilt /\ ~hostBuilt
      BY <1>2, <2>1
    <2>3. Abs!Resolvable
      BY <2>1, TargetResolved
    <2>4. Outcome = "running" /\ Outcome' = "internal_error"
          /\ LinkedManifest' = LinkedManifest
      BY <2>1 DEF Outcome, LinkedManifest
    <2>5. QED
      BY <2>1, <2>2, <2>3, <2>4 DEF Abs!Finish
  <1>10. CASE UNCHANGED vars
    BY <1>10 DEF vars, Abs!absVars, Outcome, LinkedManifest
  <1>11. QED
    BY <1>3, <1>12, <1>4, <1>5, <1>6, <1>7, <1>8, <1>9, <1>10 DEF Next

(***************************************************************************)
(* For every set of paths and names and every listing bound, gen-cargo     *)
(* (gen-cargo.py 16-55 with rust.py 14-92) implements its one-step         *)
(* promise: "." may end with fx's failure to list the targets; otherwise  *)
(* it ends with a ValueError exactly when "." names no single              *)
(* cargo target, reports the internal error exactly when neither           *)
(* Cargo.toml exists, fails on a directory, and otherwise links the output *)
(* to the resolved target's Fuchsia Cargo.toml, else to the host one.      *)
(***************************************************************************)
THEOREM Refinement == Spec => GenCargoImplementsAbstract
  <1>1. Init => Abs!AbsInit
    BY DEF Init, Abs!AbsInit, Abs!NoLink, Outcome, LinkedManifest
  <1>2. Init => IInv /\ ExplicitTarget
    BY IInvInit, ExplicitInit
  <1>3. IInv /\ ExplicitTarget /\ [Next]_vars => IInv' /\ ExplicitTarget'
    BY IInvStep, ExplicitStep
  <1>4. QED
    BY <1>1, <1>2, <1>3, RefinementStep, PTL
       DEF Spec, GenCargoImplementsAbstract, Abs!AbsSpec

=============================================================================
