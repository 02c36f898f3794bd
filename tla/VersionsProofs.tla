--------------------------- MODULE VersionsProofs ---------------------------
(***************************************************************************)
(* Proofs about module Versions, from VersionsAssumption: types and the    *)
(* foreign key of tags, what the re-check of the bulk delete protects, and *)
(* what the filters of a listing select.                                   *)
(***************************************************************************)
EXTENDS Versions, FiniteSetTheorems, WellFoundedInduction, TLAPS

\* Removing versions with the cascade keeps types and foreign keys.
LEMMA RemoveKeepsTypes ==
  ASSUME TypeOK, NEW V, Remove(V)
  PROVE  /\ state' \in [Ids -> {"new", "live", "gone"}]
         /\ born' \in [Ids -> 0..MaxTime]
         /\ files' \in [Ids -> {"none", "whole", "incomplete"}]
         /\ UniqueCoordinates'
         /\ tags' \in Snapshots
         /\ \A a \in Artifacts, t \in Tags : tags'[a][t] # Null =>
              /\ tags'[a][t] = tags[a][t]
              /\ tags'[a][t] \in Live'
              /\ ArtifactOf[tags'[a][t]] = a
PROOF
<1>1. state' \in [Ids -> {"new", "live", "gone"}] /\ files' \in [Ids -> {"none", "whole", "incomplete"}]
  BY DEF TypeOK, Remove
<1>2. born' \in [Ids -> 0..MaxTime]
  <2>1. 0 \in 0..MaxTime
    BY VersionsAssumption
  <2>2. QED
    BY <2>1 DEF TypeOK, Remove
<1>3. \A a \in Artifacts, t \in Tags :
        /\ tags[a][t] \in Ids \cup {Null}
        /\ tags'[a][t] = IF tags[a][t] \in V THEN Null ELSE tags[a][t]
  BY DEF TypeOK, Remove, Snapshots
<1>4. tags' \in Snapshots
  <2>1. tags' = [a \in Artifacts |-> [t \in Tags |-> IF tags[a][t] \in V THEN Null ELSE tags[a][t]]]
    BY DEF Remove
  <2>2. QED
    BY <2>1, <1>3 DEF Snapshots
<1>5. ASSUME NEW a \in Artifacts, NEW t \in Tags, tags'[a][t] # Null
      PROVE  tags'[a][t] = tags[a][t] /\ tags'[a][t] \in Live' /\ ArtifactOf[tags'[a][t]] = a
  <2>1. tags'[a][t] = tags[a][t] /\ tags[a][t] \notin V
    BY <1>3, <1>5
  <2>2. tags[a][t] \in Live /\ ArtifactOf[tags[a][t]] = a
    BY <2>1, <1>5 DEF TypeOK
  <2>3. tags[a][t] \in Live'
    BY <2>1, <2>2 DEF Remove, Live
  <2>4. QED
    BY <2>1, <2>2, <2>3
<1>6. UniqueCoordinates'
  <2>1. Live' \subseteq Live
    BY DEF Remove, Live
  <2>2. QED
    BY <2>1 DEF TypeOK, UniqueCoordinates
<1>7. QED
  BY <1>1, <1>2, <1>4, <1>5, <1>6

\* Unique coordinates depend on which versions are there alone.
LEMMA SameVersionsUnique ==
  ASSUME TypeOK, Live' = Live
  PROVE  UniqueCoordinates'
PROOF
  BY DEF TypeOK, UniqueCoordinates

\* A step of the clients or of the clock keeps TypeOK.
LEMMA OthersTypes ==
  ASSUME TypeOK, Others
  PROVE  TypeOK'
PROOF
<1>0. \A i \in Ids : ArtifactOf[i] \in Artifacts
  BY DEF Artifacts
<1>1. ASSUME NEW i \in Ids, NEW T \in SUBSET Tags, CreateVersion(i, T)
      PROVE  TypeOK'
  <2>1. /\ state' = [state EXCEPT ![i] = "live"]
        /\ born' = [born EXCEPT ![i] = now]
        /\ UNCHANGED <<files, now, bulk, cand, snap>>
    BY <1>1 DEF CreateVersion, bulkvars
  <2>2. Live' = Live \cup {i}
    BY <2>1 DEF TypeOK, Live
  <2>3. \A a \in Artifacts, t \in Tags :
          tags'[a][t] = IF a = ArtifactOf[i] /\ t \in T THEN i ELSE tags[a][t]
    BY <1>0, <1>1 DEF CreateVersion, TypeOK, Snapshots
  <2>4. tags' \in Snapshots
    <3>1. tags' = [tags EXCEPT ![ArtifactOf[i]] = [t \in Tags |-> IF t \in T THEN i ELSE @[t]]]
      BY <1>1 DEF CreateVersion
    <3>2. [t \in Tags |-> IF t \in T THEN i ELSE tags[ArtifactOf[i]][t]] \in [Tags -> Ids \cup {Null}]
      BY <1>0 DEF TypeOK, Snapshots
    <3>3. QED
      BY <3>1, <3>2 DEF TypeOK, Snapshots
  <2>5. \A a \in Artifacts, t \in Tags : tags'[a][t] # Null =>
          tags'[a][t] \in Live' /\ ArtifactOf[tags'[a][t]] = a
    BY <2>2, <2>3 DEF TypeOK
  <2>6. state' \in [Ids -> {"new", "live", "gone"}] /\ born' \in [Ids -> 0..MaxTime]
    BY <2>1 DEF TypeOK
  <2>7. UniqueCoordinates'
    BY <1>1, <2>2 DEF CreateVersion, TypeOK, UniqueCoordinates
  <2>8. QED
    BY <2>1, <2>4, <2>5, <2>6, <2>7 DEF TypeOK
<1>2. ASSUME NEW i \in Ids, DeleteVersion(i)
      PROVE  TypeOK'
  <2>1. Remove({i}) /\ UNCHANGED <<now, bulk, cand, snap>>
    BY <1>2 DEF DeleteVersion, bulkvars
  <2>2. QED
    BY <2>1, RemoveKeepsTypes DEF TypeOK
<1>3. ASSUME NEW i \in Ids, NEW f \in FileStates, ChangeFiles(i, f)
      PROVE  TypeOK'
  <2>1. files' = [files EXCEPT ![i] = f] /\ UNCHANGED <<state, born, tags, now, bulk, cand, snap>>
    BY <1>3 DEF ChangeFiles, bulkvars
  <2>2. files' \in [Ids -> {"none", "whole", "incomplete"}]
    BY <2>1, VersionsAssumption DEF TypeOK
  <2>3. Live' = Live
    BY <2>1 DEF Live
  <2>4. QED
    BY <2>1, <2>2, <2>3, SameVersionsUnique DEF TypeOK
<1>4. ASSUME NEW t \in Tags, NEW i \in Ids, PutTag(t, i)
      PROVE  TypeOK'
  <2>1. /\ i \in Live
        /\ tags' = [tags EXCEPT ![ArtifactOf[i]][t] = i]
        /\ UNCHANGED <<state, born, files, now, bulk, cand, snap>>
    BY <1>4 DEF PutTag, bulkvars
  <2>2. Live' = Live
    BY <2>1 DEF Live
  <2>3. \A a \in Artifacts, u \in Tags :
          tags'[a][u] = IF a = ArtifactOf[i] /\ u = t THEN i ELSE tags[a][u]
    BY <1>0, <2>1 DEF TypeOK, Snapshots
  <2>4. tags' \in Snapshots
    BY <1>0, <2>1 DEF TypeOK, Snapshots
  <2>5. \A a \in Artifacts, u \in Tags : tags'[a][u] # Null =>
          tags'[a][u] \in Live' /\ ArtifactOf[tags'[a][u]] = a
    BY <2>1, <2>2, <2>3 DEF TypeOK
  <2>6. QED
    BY <2>1, <2>2, <2>4, <2>5, SameVersionsUnique DEF TypeOK
<1>5. ASSUME NEW a \in Artifacts, NEW t \in Tags, DeleteTag(a, t)
      PROVE  TypeOK'
  <2>1. tags' = [tags EXCEPT ![a][t] = Null] /\ UNCHANGED <<state, born, files, now, bulk, cand, snap>>
    BY <1>5 DEF DeleteTag, bulkvars
  <2>2. Live' = Live
    BY <2>1 DEF Live
  <2>3. \A b \in Artifacts, u \in Tags : tags'[b][u] \in {tags[b][u], Null}
    BY <2>1 DEF TypeOK, Snapshots
  <2>4. tags' \in Snapshots
    BY <2>1 DEF TypeOK, Snapshots
  <2>5. QED
    BY <2>1, <2>2, <2>3, <2>4, SameVersionsUnique DEF TypeOK
<1>6. ASSUME Tick
      PROVE  TypeOK'
  <2>1. Live' = Live
    BY <1>6 DEF Tick, Live
  <2>2. QED
    BY <1>6, <2>1, VersionsAssumption, SameVersionsUnique DEF Tick, bulkvars, TypeOK
<1>7. QED
  BY <1>1, <1>2, <1>3, <1>4, <1>5, <1>6 DEF Others

\* The listing keeps TypeOK.
LEMMA BulkListTypes ==
  ASSUME TypeOK, NEW q, BulkList(q)
  PROVE  TypeOK'
PROOF
<1>1. UNCHANGED <<state, born, files, tags, now, snap>> /\ bulk = "idle" /\ bulk' = "listed"
  BY DEF BulkList, table
<1>2. cand' \in SUBSET Ids
  BY DEF BulkList, ListVersionsFiltered, Live
<1>3. Live' = Live
  BY <1>1 DEF Live
<1>4. QED
  BY <1>1, <1>2, <1>3, SameVersionsUnique DEF TypeOK

\* The DELETE of the bulk delete keeps TypeOK.
LEMMA BulkDeleteTypes ==
  ASSUME TypeOK, BulkDeleteStart \/ BulkDeleteApply \/ BulkAbort
  PROVE  TypeOK'
PROOF
<1>1. CASE BulkDeleteStart
  <2>1. Live' = Live
    BY <1>1 DEF BulkDeleteStart, table, Live
  <2>2. QED
    BY <1>1, <2>1, SameVersionsUnique DEF BulkDeleteStart, table, TypeOK
<1>2. CASE BulkDeleteApply
  <2>1. Remove(unprotected(snap, cand))
    BY <1>2 DEF BulkDeleteApply
  <2>2. bulk' = "idle" /\ cand' = {} /\ snap' = Null /\ now' = now
    BY <1>2 DEF BulkDeleteApply
  <2>3. QED
    BY <2>1, <2>2, RemoveKeepsTypes DEF TypeOK
<1>3. CASE BulkAbort
  <2>1. Live' = Live
    BY <1>3 DEF BulkAbort, table, Live
  <2>2. QED
    BY <1>3, <2>1, SameVersionsUnique DEF BulkAbort, table, TypeOK
<1>4. QED
  BY <1>1, <1>2, <1>3

\* An empty registry has the types.
LEMMA InitTypes ==
  ASSUME Init
  PROVE  TypeOK
PROOF
<1>1. tags \in Snapshots /\ \A a \in Artifacts, t \in Tags : tags[a][t] = Null
  BY DEF Init, Snapshots
<1>2. 0 \in 0..MaxTime
  BY VersionsAssumption
<1>3. UniqueCoordinates
  BY DEF Init, UniqueCoordinates, Live
<1>4. QED
  BY <1>1, <1>2, <1>3 DEF Init, TypeOK

\* A step that leaves the versions alone keeps the types.
LEMMA TypesStutter ==
  ASSUME TypeOK, UNCHANGED vars
  PROVE  TypeOK'
PROOF
<1>1. Live' = Live
  BY DEF vars, Live
<1>2. QED
  BY <1>1, SameVersionsUnique DEF vars, TypeOK

\* Every variable keeps its type, and a tag always points at a version of its own
\* artifact that is there.
THEOREM VersionsTypeCorrect == Spec => []TypeOK
PROOF
<1>1. Init => TypeOK
  BY InitTypes
<1>2. TypeOK /\ [Next]_vars => TypeOK'
  <2>1. SUFFICES ASSUME TypeOK, [Next]_vars PROVE TypeOK'
    OBVIOUS
  <2>2. CASE Others
    BY <2>1, <2>2, OthersTypes
  <2>3. CASE \E q \in Filters : BulkRequest(q)
    BY <2>1, <2>3, BulkListTypes DEF BulkRequest
  <2>4. CASE BulkDeleteStart \/ BulkDeleteApply \/ BulkAbort
    BY <2>1, <2>4, BulkDeleteTypes
  <2>5. CASE UNCHANGED vars
    BY <2>1, <2>5, TypesStutter
  <2>6. QED
    BY <2>1, <2>2, <2>3, <2>4, <2>5 DEF Next
<1>3. QED
  BY <1>1, <1>2, PTL DEF Spec

\* Only its last step ends a bulk delete, or giving up.
LEMMA BulkEndsBy ==
  ASSUME [Next]_vars, BulkEnds
  PROVE  BulkDeleteApply \/ BulkAbort
PROOF
<1>1. bulk # bulk'
  BY DEF BulkEnds
<1>2. ~UNCHANGED vars
  BY <1>1 DEF vars
<1>3. ~Others
  BY <1>1 DEF Others, CreateVersion, DeleteVersion, ChangeFiles, PutTag, DeleteTag, Tick, bulkvars
<1>4. ~\E q \in Filters : BulkRequest(q)
  BY DEF BulkEnds, BulkRequest, BulkList
<1>5. ~BulkDeleteStart
  BY DEF BulkEnds, BulkDeleteStart
<1>6. QED
  BY <1>2, <1>3, <1>4, <1>5 DEF Next

\* A tag that stands when the DELETE of a bulk delete begins keeps its version and
\* itself, and the protection tag every version of its artifact.
THEOREM ProtectedSurvive == Spec => BulkSparesProtected
PROOF
<1> DEFINE A == BulkEnds =>
       /\ \A a \in Artifacts, t \in Tags :
            snap[a][t] # Null /\ snap[a][t] = tags[a][t] => tags'[a][t] = tags[a][t]
       /\ \A i \in Live : snap[ArtifactOf[i]][ProtectedTag] # Null => state'[i] = "live"
<1>1. TypeOK /\ [Next]_vars => [A]_vars
  <2>1. SUFFICES ASSUME TypeOK, [Next]_vars, BulkEnds PROVE A
    OBVIOUS
  <2>2. CASE BulkDeleteApply
    <3>1. Remove(unprotected(snap, cand))
      BY <2>2 DEF BulkDeleteApply
    <3>2. ASSUME NEW a \in Artifacts, NEW t \in Tags, snap[a][t] # Null, snap[a][t] = tags[a][t]
          PROVE  tags'[a][t] = tags[a][t]
      <4>1. ArtifactOf[tags[a][t]] = a
        BY <2>1, <3>2 DEF TypeOK
      <4>2. protected(snap, tags[a][t])
        BY <3>2, <4>1 DEF protected
      <4>3. tags[a][t] \notin unprotected(snap, cand)
        BY <4>2 DEF unprotected
      <4>4. QED
        BY <3>1, <4>3 DEF Remove
    <3>3. ASSUME NEW i \in Live, snap[ArtifactOf[i]][ProtectedTag] # Null
          PROVE  state'[i] = "live"
      <4>1. i \notin unprotected(snap, cand)
        BY <3>3 DEF unprotected, protected
      <4>2. QED
        BY <3>1, <4>1 DEF Remove, Live
    <3>4. QED
      BY <3>2, <3>3
  <2>3. CASE BulkAbort
    BY <2>3 DEF BulkAbort, table, Live
  <2>4. QED
    BY <2>1, <2>2, <2>3, BulkEndsBy
<1>2. QED
  BY <1>1, VersionsTypeCorrect, PTL DEF Spec, BulkSparesProtected

-----------------------------------------------------------------------------
(* Ranks                                                                    *)

\* A set of naturals that is not empty has a least element.
LEMMA LeastNatural ==
  ASSUME NEW S, S \subseteq Nat, S # {}
  PROVE  \E x \in S : \A y \in S : x <= y
PROOF
<1>1. PICK x \in S : \A y \in S : ~(<<y, x>> \in OpToRel(<, Nat))
  BY NatLessThanWellFounded, WFMin
<1>2. \A y \in S : ~(y < x)
  BY <1>1 DEF OpToRel
<1>3. QED
  BY <1>2

\* A bounded one has a greatest element, too.
LEMMA GreatestNatural ==
  ASSUME NEW S, S \subseteq Nat, S # {}, NEW n \in Nat, \A x \in S : x <= n
  PROVE  \E x \in S : \A y \in S : y <= x
PROOF
<1> DEFINE D == {n - x : x \in S}
<1>0. \A x \in S : n - x \in Nat
  OBVIOUS
<1>1. D \subseteq Nat /\ D # {}
  BY <1>0
<1>2. PICK d \in D : \A e \in D : d <= e
  BY <1>1, LeastNatural
<1>3. PICK x \in S : d = n - x
  BY <1>2
<1>4. ASSUME NEW y \in S
      PROVE  y <= x
  <2>1. n - y \in D
    OBVIOUS
  <2>2. n - x <= n - y /\ x \in Nat /\ y \in Nat
    BY <2>1, <1>2, <1>3
  <2>3. QED
    BY <2>2
<1>5. QED
  BY <1>3, <1>4

\* Coordinates are ordered: Below is irreflexive, transitive and total.
LEMMA BelowOrder ==
  ASSUME NEW i \in Ids, NEW j \in Ids
  PROVE  /\ ~Below(SemverOf[i], SemverOf[i])
         /\ Below(SemverOf[i], SemverOf[j]) => ~Below(SemverOf[j], SemverOf[i])
         /\ Below(SemverOf[i], SemverOf[j]) \/ Below(SemverOf[j], SemverOf[i])
              \/ SemverOf[i] = SemverOf[j]
         /\ \A k \in Ids : Below(SemverOf[i], SemverOf[j]) /\ Below(SemverOf[j], SemverOf[k])
              => Below(SemverOf[i], SemverOf[k])
PROOF
<1>1. \A k \in Ids : /\ SemverOf[k] \in Nat \X Nat \X Nat
                     /\ SemverOf[k] = <<SemverOf[k][1], SemverOf[k][2], SemverOf[k][3]>>
  BY VersionsAssumption
<1>2. \A k \in Ids : SemverOf[k][1] \in Nat /\ SemverOf[k][2] \in Nat /\ SemverOf[k][3] \in Nat
  BY <1>1
<1>3. (\A n \in 1..3 : SemverOf[i][n] = SemverOf[j][n]) => SemverOf[i] = SemverOf[j]
  BY <1>1
<1>4. QED
  BY <1>2, <1>3 DEF Below

\* Sets of versions are finite, and are counted.
LEMMA Counted ==
  ASSUME NEW V \in SUBSET Ids
  PROVE  IsFiniteSet(V) /\ Cardinality(V) \in Nat
PROOF
  BY VersionsAssumption, FS_Subset, FS_CardinalityType

\* A version above another of its artifact has strictly fewer above it.
LEMMA NewerShrinks ==
  ASSUME TypeOK, NEW i \in Live, NEW j \in Newer(i)
  PROVE  /\ Newer(j) \subseteq Newer(i)
         /\ Cardinality(Newer(j)) < Cardinality(Newer(i))
PROOF
<1>1. Newer(i) \in SUBSET Ids /\ Newer(j) \in SUBSET Ids /\ i \in Ids /\ j \in Ids
  BY DEF Newer, Live
<1>2. Newer(j) \subseteq Newer(i)
  BY <1>1, BelowOrder DEF Newer
<1>3. j \notin Newer(j)
  BY <1>1, BelowOrder DEF Newer
<1>4. Cardinality(Newer(j)) <= Cardinality(Newer(i)) /\ Cardinality(Newer(j)) # Cardinality(Newer(i))
  BY <1>1, <1>2, <1>3, Counted, FS_Subset
<1>5. Cardinality(Newer(j)) \in Nat /\ Cardinality(Newer(i)) \in Nat
  BY <1>1, Counted
<1>6. QED
  BY <1>2, <1>4, <1>5

\* Of two versions of an artifact one is above the other.
LEMMA NewerTotal ==
  ASSUME TypeOK, NEW a, NEW i \in Of(a), NEW j \in Of(a), i # j
  PROVE  i \in Newer(j) \/ j \in Newer(i)
PROOF
<1>1. SemverOf[i] # SemverOf[j] /\ i \in Ids /\ j \in Ids
  BY DEF TypeOK, UniqueCoordinates, Of, Live
<1>2. QED
  BY <1>1, BelowOrder DEF Newer, Of

\* Those of an artifact with fewer than n above them.
TopOf(a, n) == {i \in Of(a) : Cardinality(Newer(i)) < n}

\* They are n at most, exactly n when others are left, and above the others.
LEMMA TopExact ==
  ASSUME TypeOK, NEW a, NEW n \in Nat
  PROVE  /\ Cardinality(TopOf(a, n)) <= n
         /\ Of(a) \ TopOf(a, n) # {} => Cardinality(TopOf(a, n)) = n
         /\ \A i \in Of(a) \ TopOf(a, n), j \in TopOf(a, n) : Below(SemverOf[i], SemverOf[j])
PROOF
<1> DEFINE Above(i) == Cardinality(Newer(i))
<1>0. Of(a) \subseteq Ids /\ Of(a) \subseteq Live /\ TopOf(a, n) \in SUBSET Ids
  BY DEF Of, TopOf, Live
<1>1. \A i \in Of(a) : Newer(i) \in SUBSET Ids /\ Newer(i) \subseteq Of(a) /\ Above(i) \in Nat
  <2>1. \A i \in Of(a) : Newer(i) \in SUBSET Ids /\ Newer(i) \subseteq Of(a)
    BY DEF Newer, Of, Live
  <2>2. QED
    BY <2>1, Counted
<1>2. Cardinality(TopOf(a, n)) \in Nat /\ IsFiniteSet(TopOf(a, n))
  BY <1>0, Counted
<1>3. Cardinality(TopOf(a, n)) <= n
  <2>1. CASE TopOf(a, n) = {}
    BY <2>1, FS_EmptySet
  <2>2. CASE TopOf(a, n) # {}
    <3> DEFINE S == {Above(i) : i \in TopOf(a, n)}
    <3>1. S \subseteq Nat /\ S # {} /\ \A x \in S : x <= n
      BY <2>2, <1>1 DEF TopOf
    <3>2. PICK x \in S : \A y \in S : y <= x
      BY <3>1, GreatestNatural
    <3>3. PICK m \in TopOf(a, n) : Above(m) = x
      BY <3>2
    <3>4. \A i \in TopOf(a, n) : Above(i) <= Above(m)
      BY <3>2, <3>3
    <3>5. TopOf(a, n) \subseteq Newer(m) \cup {m}
      <4>1. ASSUME NEW i \in TopOf(a, n), i # m, i \notin Newer(m)
            PROVE  FALSE
        <5>1. i \in Of(a) /\ m \in Of(a) /\ i \in Live /\ m \in Live
          BY <3>3, <1>0 DEF TopOf
        <5>2. m \in Newer(i)
          BY <4>1, <5>1, NewerTotal
        <5>3. Above(m) < Above(i)
          BY <5>1, <5>2, NewerShrinks
        <5>4. QED
          BY <5>1, <5>3, <3>4, <1>1
      <4>2. QED
        BY <4>1
    <3>6. m \in Of(a) /\ Above(m) \in Nat /\ Above(m) < n /\ IsFiniteSet(Newer(m))
      BY <3>3, <1>1, Counted DEF TopOf
    <3>7. IsFiniteSet(Newer(m) \cup {m}) /\ Cardinality(Newer(m) \cup {m}) <= Above(m) + 1
      <4>1. IsFiniteSet(Newer(m) \cup {m})
        BY <3>6, FS_AddElement
      <4>2. Cardinality(Newer(m) \cup {m}) \in {Above(m), Above(m) + 1}
        BY <3>6, FS_AddElement
      <4>3. QED
        BY <4>1, <4>2, <3>6
    <3>8. Cardinality(TopOf(a, n)) <= Cardinality(Newer(m) \cup {m})
      BY <3>5, <3>7, FS_Subset
    <3>9. Cardinality(Newer(m) \cup {m}) \in Nat
      BY <3>7, FS_CardinalityType
    <3>10. QED
      BY <1>2, <3>6, <3>7, <3>8, <3>9
  <2>3. QED
    BY <2>1, <2>2
<1>4. ASSUME Of(a) \ TopOf(a, n) # {}
      PROVE  Cardinality(TopOf(a, n)) = n
  <2> DEFINE S == {Above(i) : i \in Of(a) \ TopOf(a, n)}
  <2>1. S \subseteq Nat /\ S # {}
    BY <1>1, <1>4
  <2>2. PICK x \in S : \A y \in S : x <= y
    BY <2>1, LeastNatural
  <2>3. PICK m \in Of(a) \ TopOf(a, n) : Above(m) = x
    BY <2>2
  <2>4. Newer(m) \subseteq TopOf(a, n)
    <3>1. ASSUME NEW i \in Newer(m), i \notin TopOf(a, n)
          PROVE  FALSE
      <4>1. i \in Of(a) /\ m \in Live
        BY <3>1, <2>3, <1>0, <1>1
      <4>2. Above(i) < Above(m)
        BY <3>1, <4>1, NewerShrinks
      <4>3. Above(m) <= Above(i)
        BY <3>1, <4>1, <2>2, <2>3
      <4>4. QED
        BY <4>1, <4>2, <4>3, <2>3, <1>1
    <3>2. QED
      BY <3>1
  <2>5. Above(m) <= Cardinality(TopOf(a, n))
    BY <2>4, <1>2, FS_Subset
  <2>6. Above(m) \in Nat /\ Above(m) >= n
    BY <2>3, <1>1 DEF TopOf
  <2>7. QED
    BY <2>5, <2>6, <1>2, <1>3
<1>5. ASSUME NEW i \in Of(a) \ TopOf(a, n), NEW j \in TopOf(a, n)
      PROVE  Below(SemverOf[i], SemverOf[j])
  <2>1. i \in Of(a) /\ j \in Of(a) /\ i # j /\ i \in Live /\ j \in Live
    BY <1>5, <1>0 DEF TopOf
  <2>2. Above(j) < n /\ ~(Above(i) < n)
    BY <1>5, <2>1 DEF TopOf
  <2>3. i \notin Newer(j)
    <3>1. ASSUME i \in Newer(j)
          PROVE  FALSE
      <4>1. Above(i) < Above(j)
        BY <2>1, <3>1, NewerShrinks
      <4>2. QED
        BY <4>1, <2>1, <2>2, <1>1
    <3>2. QED
      BY <3>1
  <2>4. j \in Newer(i)
    BY <2>1, <2>3, NewerTotal
  <2>5. QED
    BY <2>4 DEF Newer
<1>6. QED
  BY <1>3, <1>4, <1>5

\* A listing by keepLast alone leaves out the top of each artifact.
LEMMA KeepLastSelects ==
  ASSUME TypeOK, NEW a, NEW n \in Nat
  PROVE  {i \in Of(a) : matches(i, [NoFilter EXCEPT !.keepLast = n])} = Of(a) \ TopOf(a, n)
PROOF
<1>1. n # Null
  BY VersionsAssumption
<1>2. ASSUME NEW i \in Of(a)
      PROVE  matches(i, [NoFilter EXCEPT !.keepLast = n]) <=> rank(i) > n
  BY <1>1 DEF matches, Given, inRange, NoFilter
<1>3. ASSUME NEW i \in Of(a)
      PROVE  rank(i) > n <=> ~(Cardinality(Newer(i)) < n)
  <2>1. Newer(i) \in SUBSET Ids
    BY DEF Newer, Live
  <2>2. Cardinality(Newer(i)) \in Nat
    BY <2>1, Counted
  <2>3. QED
    BY <2>2 DEF rank
<1>4. QED
  BY <1>2, <1>3 DEF TopOf, Of

\* Ranks are right for any versions: a keepLast listing leaves out exactly the n
\* greatest versions of an artifact, or all when there are fewer.
THEOREM KeepLastIsExact == Spec => []KeepLastExact
PROOF
<1>1. TypeOK => KeepLastExact
  <2>1. SUFFICES ASSUME TypeOK, NEW a \in Artifacts, NEW n \in 1..Cardinality(Ids)
                 PROVE  LET Selected == {i \in Of(a) : matches(i, [NoFilter EXCEPT !.keepLast = n])}
                            Kept     == Of(a) \ Selected
                        IN  /\ Cardinality(Kept) <= n
                            /\ Selected # {} => Cardinality(Kept) = n
                            /\ \A i \in Selected, j \in Kept : Below(SemverOf[i], SemverOf[j])
    BY DEF KeepLastExact
  <2> DEFINE Selected == {i \in Of(a) : matches(i, [NoFilter EXCEPT !.keepLast = n])}
             Kept     == Of(a) \ Selected
  <2>2. n \in Nat
    BY <2>1
  <2>3. Selected = Of(a) \ TopOf(a, n)
    BY <2>1, <2>2, KeepLastSelects
  <2>4. Kept = TopOf(a, n)
    BY <2>3 DEF TopOf
  <2> HIDE DEF Selected, Kept
  <2>5. /\ Cardinality(Kept) <= n
        /\ Selected # {} => Cardinality(Kept) = n
        /\ \A i \in Selected, j \in Kept : Below(SemverOf[i], SemverOf[j])
    BY <2>1, <2>2, <2>3, <2>4, TopExact
  <2>6. QED
    BY <2>5 DEF Selected, Kept
<1>2. QED
  BY <1>1, VersionsTypeCorrect, PTL

\* Each of the filters that a cleanup can be split by splits the versions.
THEOREM FiltersSplit == Spec => []FiltersPartition
PROOF
<1>1. TypeOK => FiltersPartition
  <2>1. SUFFICES ASSUME TypeOK, NEW i \in Live
                 PROVE  LET In(q)       == matches(i, q)
                            Split(p, q) == In(p) # In(q)
                        IN  /\ \A j \in Ids : Split([NoFilter EXCEPT !.from = SemverOf[j]],
                                                    [NoFilter EXCEPT !.below = SemverOf[j]])
                            /\ Split([NoFilter EXCEPT !.hasFiles = TRUE], [NoFilter EXCEPT !.hasFiles = FALSE])
                            /\ Split([NoFilter EXCEPT !.minBytes = 1], [NoFilter EXCEPT !.maxBytes = 0])
                            /\ In([NoFilter EXCEPT !.hasIncompleteFiles = TRUE])
                                 => In([NoFilter EXCEPT !.hasFiles = TRUE])
    BY DEF FiltersPartition
  <2>2. i \in Ids /\ files[i] \in {"none", "whole", "incomplete"} /\ totalBytes(i) \in {0, 1}
    BY <2>1 DEF Live, TypeOK, totalBytes
  <2>3. 1 # Null /\ 0 # Null /\ TRUE # Null /\ FALSE # Null
    <3>1. 1 # Null /\ 0 # Null
      BY VersionsAssumption
    <3>2. Null \notin BOOLEAN
      BY VersionsAssumption
    <3>3. TRUE # Null /\ FALSE # Null
      BY <3>2, Zenon
    <3>4. QED
      BY <3>1, <3>3
  <2>4. ASSUME NEW j \in Ids
        PROVE  /\ matches(i, [NoFilter EXCEPT !.from = SemverOf[j]]) <=> ~Below(SemverOf[i], SemverOf[j])
               /\ matches(i, [NoFilter EXCEPT !.below = SemverOf[j]]) <=> Below(SemverOf[i], SemverOf[j])
    <3>1. SemverOf[j] # Null
      BY VersionsAssumption
    <3>2. QED
      BY <3>1 DEF matches, Given, inRange, NoFilter
  <2>5. /\ matches(i, [NoFilter EXCEPT !.hasFiles = TRUE]) <=> files[i] # "none"
        /\ matches(i, [NoFilter EXCEPT !.hasFiles = FALSE]) <=> files[i] = "none"
        /\ matches(i, [NoFilter EXCEPT !.hasIncompleteFiles = TRUE]) <=> files[i] = "incomplete"
    BY <2>3 DEF matches, Given, inRange, NoFilter
  <2>6. /\ matches(i, [NoFilter EXCEPT !.minBytes = 1]) <=> totalBytes(i) = 1
        /\ matches(i, [NoFilter EXCEPT !.maxBytes = 0]) <=> totalBytes(i) = 0
    BY <2>2, <2>3 DEF matches, Given, inRange, NoFilter
  <2>7. QED
    BY <2>2, <2>4, <2>5, <2>6
<1>2. QED
  BY <1>1, VersionsTypeCorrect, PTL

\* A keepLast up to the largest int32 stays what it is.
LEMMA ToInt32Same ==
  ASSUME NEW n \in 1..(HalfInt32 - 1)
  PROVE  toInt32(n) = n
PROOF
<1>1. n % (2 * HalfInt32) = n
  BY VersionsAssumption
<1>2. QED
  BY <1>1, VersionsAssumption DEF toInt32

\* The conversion to 32 bits is all that stands against NewestKept: while every keepLast
\* fits, at least that many versions of an artifact stay out of the list, if any
\* is in it, whatever else the request asks for.
THEOREM NewestAreKept ==
  ASSUME KeepLastFits
  PROVE  Spec => NewestKept
PROOF
<1> DEFINE A == \A q \in Filters : BulkRequest(q) /\ q.keepLast # Null =>
       \A a \in Artifacts :
         \/ Of(a) \cap cand' = {}
         \/ Cardinality(Of(a) \ cand') >= q.keepLast
<1>1. TypeOK => A
  <2>1. SUFFICES ASSUME TypeOK, NEW q \in Filters, BulkRequest(q), q.keepLast # Null,
                        NEW a \in Artifacts, Of(a) \cap cand' # {}
                 PROVE  Cardinality(Of(a) \ cand') >= q.keepLast
    OBVIOUS
  <2> DEFINE n == q.keepLast
  <2>2. n \in Nat /\ n # Null /\ toInt32(n) = n
    <3>1. n >= 1 /\ n < HalfInt32
      BY <2>1, KeepLastFits DEF KeepLastFits, BulkRequest, acceptable, Given
    <3>2. n \in 1..(HalfInt32 - 1)
      BY <3>1, FiltersAssumption, <2>1, VersionsAssumption
    <3>3. QED
      BY <3>2, VersionsAssumption, ToInt32Same
  <2>3. parsed(q).keepLast = n
    <3>1. DOMAIN q = DOMAIN NoFilter
      BY <2>1, FiltersAssumption
    <3>2. "keepLast" \in DOMAIN q
      BY <3>1 DEF NoFilter
    <3>3. QED
      BY <3>2, <2>2 DEF parsed
  <2>4. cand' \subseteq {i \in Live : ~(Cardinality(Newer(i)) < n)}
    <3>1. ASSUME NEW i \in cand'
          PROVE  i \in Live /\ ~(Cardinality(Newer(i)) < n)
      <4>1. i \in Live /\ matches(i, parsed(q))
        BY <2>1, <3>1 DEF BulkRequest, BulkList, ListVersionsFiltered
      <4>2. rank(i) > n
        BY <4>1, <2>2, <2>3 DEF matches, Given
      <4>3. Newer(i) \in SUBSET Ids
        BY DEF Newer, Live
      <4>4. Cardinality(Newer(i)) \in Nat
        BY <4>3, Counted
      <4>5. QED
        BY <4>1, <4>2, <4>4, <2>2 DEF rank
    <3>2. QED
      BY <3>1
  <2>5. TopOf(a, n) \subseteq Of(a) \ cand' /\ Of(a) \ TopOf(a, n) # {}
    BY <2>1, <2>4 DEF TopOf, Of
  <2>6. Cardinality(TopOf(a, n)) = n
    BY <2>1, <2>2, <2>5, TopExact
  <2>7. Of(a) \ cand' \in SUBSET Ids
    BY DEF Of, Live
  <2>8. IsFiniteSet(Of(a) \ cand') /\ Cardinality(Of(a) \ cand') \in Nat
    BY <2>7, Counted
  <2>9. Cardinality(TopOf(a, n)) <= Cardinality(Of(a) \ cand')
    BY <2>5, <2>8, FS_Subset
  <2>10. QED
    BY <2>2, <2>6, <2>8, <2>9
<1>2. QED
  BY <1>1, VersionsTypeCorrect, PTL DEF NewestKept
=============================================================================
