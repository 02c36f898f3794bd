-------------------------- MODULE RetentionProofs --------------------------
(***************************************************************************)
(* Proofs about module Retention, from VersionsAssumption and              *)
(* RetentionAssumption.  The main result is that a merged rule lets go     *)
(* only what each of the policies behind it lets go.                       *)
(***************************************************************************)
EXTENDS Retention, VersionsProofs, FiniteSetTheorems, WellFoundedInduction

-----------------------------------------------------------------------------
(* Merging                                                                  *)

\* A non-empty bounded set of naturals has a greatest element, which Greatest is.
LEMMA GreatestIsBound ==
  ASSUME NEW B \in Nat, NEW S \in SUBSET (1..B), S # {}
  PROVE  Greatest(S) \in S /\ \A y \in S : y <= Greatest(S)
PROOF
<1> DEFINE D == {B - x : x \in S}
<1>1. D \subseteq Nat /\ D # {}
  OBVIOUS
<1>2. PICK d \in D : \A e \in D : ~(<<e, d>> \in OpToRel(<, Nat))
  BY <1>1, NatLessThanWellFounded, WFMin
<1>3. \A e \in D : ~(e < d)
  BY <1>1, <1>2 DEF OpToRel
<1>4. PICK g \in S : d = B - g
  BY <1>2
<1>5. ASSUME NEW y \in S
      PROVE  y <= g
  <2>1. B - y \in D
    OBVIOUS
  <2>2. ~(B - y < B - g)
    BY <2>1, <1>3, <1>4
  <2>3. y \in Int /\ g \in Int
    OBVIOUS
  <2>4. QED
    BY <2>2, <2>3
<1>6. Greatest(S) = CHOOSE x \in S : \A y \in S : y <= x
  BY DEF Greatest
<1>7. QED
  BY <1>4, <1>5, <1>6

\* Every field of a merged rule is unset when no policy sets it, and otherwise in
\* range and at least what each policy says.
LEMMA MergeBounds ==
  ASSUME NEW P \in SUBSET Policies, NEW f \in {"keepLast", "maxAgeDays"}
  PROVE  /\ mergeRetention(P)[f] \in 1..(HalfInt32 - 1) \cup {Null}
         /\ \A p \in P : p[f] # Null =>
              /\ p[f] \in 1..(HalfInt32 - 1)
              /\ mergeRetention(P)[f] # Null
              /\ p[f] <= mergeRetention(P)[f]
PROOF
<1>1. mergeRetention(P)[f] = Greatest(Field(P, f))
  BY DEF mergeRetention
<1>2. Field(P, f) \in SUBSET (1..(HalfInt32 - 1))
  BY RetentionAssumption DEF Field
<1>3. HalfInt32 - 1 \in Nat /\ Null \notin Int
  BY VersionsAssumption
<1>4. \A p \in P : p[f] # Null => p[f] \in Field(P, f)
  BY DEF Field
<1>5. CASE Field(P, f) = {}
  BY <1>1, <1>4, <1>5 DEF Greatest
<1>6. CASE Field(P, f) # {}
  <2>1. Greatest(Field(P, f)) \in Field(P, f) /\ \A y \in Field(P, f) : y <= Greatest(Field(P, f))
    BY <1>2, <1>3, <1>6, GreatestIsBound
  <2>2. QED
    BY <1>1, <1>2, <1>3, <1>4, <2>1
<1>7. QED
  BY <1>5, <1>6

\* Truncation to a second goes down.
LEMMA TruncatedBelow ==
  ASSUME NEW t \in Int
  PROVE  truncated(t) \in Int /\ truncated(t) <= t
PROOF
  BY RetentionAssumption DEF truncated

\* A filter rendered from a merged rule has a parameter and only these two, so only its
\* olderThan can make the bulk delete refuse it.
LEMMA FilterShape ==
  ASSUME NEW P \in SUBSET Policies, P # {}, NEW t \in Int,
         NEW q, q = versionFilter(mergeRetention(P), t)
  PROVE  Usable(q)
PROOF
<1>1. q = [NoFilter EXCEPT !.keepLast = mergeRetention(P)["keepLast"], !.olderThan = q.olderThan]
  BY DEF versionFilter, NoFilter
<1>2. mergeRetention(P)["keepLast"] # Null => mergeRetention(P)["keepLast"] >= 1
  BY MergeBounds, VersionsAssumption
<1>3. q.olderThan = IF mergeRetention(P)["maxAgeDays"] = Null THEN Null
                    ELSE truncated(t - mergeRetention(P)["maxAgeDays"] * DayTicks)
  BY DEF versionFilter, NoFilter
<1>4. PICK p \in P : TRUE
  OBVIOUS
<1>5. mergeRetention(P)["keepLast"] # Null \/ mergeRetention(P)["maxAgeDays"] # Null
  <2>1. p["keepLast"] # Null \/ p["maxAgeDays"] # Null
    BY <1>4, RetentionAssumption
  <2>2. QED
    BY <1>4, <2>1, MergeBounds
<1>6. q.keepLast # Null \/ q.olderThan # Null
  <2>1. ASSUME mergeRetention(P)["maxAgeDays"] # Null
        PROVE  q.olderThan \in Int
    <3>1. mergeRetention(P)["maxAgeDays"] \in Int
      BY <2>1, MergeBounds
    <3>2. t - mergeRetention(P)["maxAgeDays"] * DayTicks \in Int
      BY <3>1, RetentionAssumption
    <3>3. QED
      BY <1>3, <2>1, <3>2, TruncatedBelow
  <2>2. QED
    BY <1>1, <1>5, <2>1, VersionsAssumption DEF NoFilter
<1>7. QED
  BY <1>1, <1>2, <1>6 DEF Usable, acceptable, Given, NoFilter

-----------------------------------------------------------------------------
(* Invariants                                                               *)

\* A filter that was sent was rendered from the policies recorded with it, at a
\* time that has come.
FilterRight ==
  report = "sent" => \E t \in 0..now : filter = versionFilter(mergeRetention(basis), t)

\* Requests about policies and types keep the types.
LEMMA PolicyTypes ==
  ASSUME RetentionTypeOK, PolicyRequest
  PROVE  RetentionTypeOK'
PROOF
<1>0. UNCHANGED reportVars
  BY DEF PolicyRequest, PutForArtifact, DeleteForArtifact, PutForType, DeleteForType, CreateType,
         DeleteType, Assign, Unassign
<1>1. (report = "sent" => basis # {} /\ Usable(filter))'
  BY <1>0 DEF RetentionTypeOK, reportVars, Usable, acceptable, Given
<1>2. ASSUME NEW a \in Artifacts, DeleteForArtifact(a) \/ \E p \in Policies : PutForArtifact(a, p)
      PROVE  RetentionTypeOK'
  BY <1>0, <1>1, <1>2 DEF RetentionTypeOK, reportVars, DeleteForArtifact, PutForArtifact
<1>3. ASSUME NEW t \in Types, DeleteForType(t) \/ \E p \in Policies : PutForType(t, p)
      PROVE  RetentionTypeOK'
  BY <1>0, <1>1, <1>3 DEF RetentionTypeOK, reportVars, DeleteForType, PutForType
<1>4. ASSUME NEW t \in Types, CreateType(t)
      PROVE  RetentionTypeOK'
  BY <1>0, <1>1, <1>4 DEF RetentionTypeOK, reportVars, CreateType
<1>5. ASSUME NEW t \in Types, DeleteType(t)
      PROVE  RetentionTypeOK'
  BY <1>0, <1>1, <1>5 DEF RetentionTypeOK, reportVars, DeleteType
<1>6. ASSUME NEW t \in Types, NEW a \in Artifacts, Assign(a, t) \/ Unassign(a, t)
      PROVE  RetentionTypeOK'
  BY <1>0, <1>1, <1>6 DEF RetentionTypeOK, reportVars, Assign, Unassign
<1>7. QED
  BY <1>2, <1>3, <1>4, <1>5, <1>6 DEF PolicyRequest

\* The policies read for an artifact are stored policies.
LEMMA TypePoliciesStored ==
  ASSUME RetentionTypeOK, NEW a \in Artifacts
  PROVE  typePolicies(a) \in SUBSET Policies
PROOF
  BY DEF RetentionTypeOK, typePolicies

\* The report and the runner keep the types and FilterRight.
LEMMA ReportTypes ==
  ASSUME TypeOK, RetentionTypeOK, FilterRight,
         (\E a \in Artifacts : GetOwn(a)) \/ GetTypes \/ RunnerDelete \/ RunnerEnds
  PROVE  RetentionTypeOK' /\ FilterRight'
PROOF
<1>0. now \in Nat
  BY VersionsAssumption DEF TypeOK
<1>1. ASSUME NEW a \in Artifacts, GetOwn(a)
      PROVE  RetentionTypeOK' /\ FilterRight'
  <2>1. report' = "own" /\ subject' = a /\ ownSeen' = own[a] /\ UNCHANGED <<basis, filter, policyVars>>
    BY <1>1 DEF GetOwn
  <2>2. subject' # Null
    BY <2>1, RetentionAssumption
  <2>3. QED
    BY <2>1, <2>2 DEF RetentionTypeOK, FilterRight, policyVars
<1>2. ASSUME GetTypes
      PROVE  RetentionTypeOK' /\ FilterRight'
  <2>1. /\ report = "own" /\ report' \in {"idle", "sent"}
        /\ ownSeen' = Null
        /\ UNCHANGED <<subject, policyVars, vars>>
    BY <1>2 DEF GetTypes
  <2>2. subject \in Artifacts
    BY <2>1 DEF RetentionTypeOK
  <2>3. basis' \in SUBSET Policies
    BY <1>2, <2>2, TypePoliciesStored DEF GetTypes, RetentionTypeOK
  <2>4. report' = "sent" => basis' # {} /\ filter' = versionFilter(mergeRetention(basis'), now)
    BY <1>2 DEF GetTypes
  <2>5. report' = "sent" => basis' # {} /\ Usable(filter')
    <3>1. SUFFICES ASSUME report' = "sent" PROVE basis' # {} /\ Usable(filter')
      OBVIOUS
    <3>2. PICK P \in SUBSET Policies : P = basis'
      BY <2>3
    <3>3. P # {} /\ filter' = versionFilter(mergeRetention(P), now) /\ now \in Int
      BY <1>0, <2>4, <3>1, <3>2
    <3>4. Usable(filter')
      BY <3>2, <3>3, FilterShape
    <3>5. QED
      BY <3>2, <3>3, <3>4
  <2>6. FilterRight'
    <3>1. now' = now
      BY <2>1 DEF vars
    <3>2. now \in 0..now
      BY <1>0
    <3>3. QED
      BY <2>4, <3>1, <3>2 DEF FilterRight
  <2>7. (report = "sent" => basis # {} /\ Usable(filter))'
    BY <2>5 DEF Usable, acceptable, Given
  <2>8. QED
    BY <2>1, <2>3, <2>6, <2>7 DEF RetentionTypeOK, policyVars
<1>3. ASSUME RunnerDelete \/ RunnerEnds
      PROVE  RetentionTypeOK' /\ FilterRight'
  <2>1. report' = "idle" /\ basis' = {} /\ UNCHANGED <<subject, ownSeen, policyVars>>
    BY <1>3 DEF RunnerDelete, RunnerEnds, Forget
  <2>2. QED
    BY <2>1 DEF RetentionTypeOK, FilterRight, policyVars
<1>4. QED
  BY <1>1, <1>2, <1>3

\* The steps of the versions leave policies and report alone, and the clock only
\* moves on.
LEMMA VersionStepTypes ==
  ASSUME TypeOK, RetentionTypeOK, FilterRight, VersionStep
  PROVE  TypeOK' /\ RetentionTypeOK' /\ FilterRight'
PROOF
<1>1. TypeOK'
  BY OthersTypes, BulkListTypes, BulkDeleteTypes DEF VersionStep, Next, BulkRequest
<1>2. UNCHANGED <<known, own, byType, assigned, report, subject, ownSeen, basis, filter>>
  BY DEF VersionStep, policyVars, reportVars
<1>3. RetentionTypeOK'
  <2>1. (report = "sent" => basis # {} /\ Usable(filter))'
    BY <1>2 DEF RetentionTypeOK, Usable, acceptable, Given
  <2>2. QED
    BY <1>2, <2>1 DEF RetentionTypeOK
<1>4. now' = now \/ now' = now + 1
  BY DEF VersionStep, Next, Others, CreateVersion, DeleteVersion, ChangeFiles, PutTag, DeleteTag, Tick,
         BulkRequest, BulkList, BulkDeleteStart, BulkDeleteApply, BulkAbort, table
<1>5. FilterRight'
  <2>1. SUFFICES ASSUME report' = "sent"
                 PROVE  \E t \in 0..now' : filter' = versionFilter(mergeRetention(basis'), t)
    BY DEF FilterRight
  <2>2. PICK t \in 0..now : filter = versionFilter(mergeRetention(basis), t)
    BY <1>2, <2>1 DEF FilterRight
  <2>3. t \in 0..now'
    BY <1>4, <2>2, VersionsAssumption DEF TypeOK
  <2>4. QED
    BY <1>2, <2>2, <2>3
<1>6. QED
  BY <1>1, <1>3, <1>5

RetentionInv == TypeOK /\ RetentionTypeOK /\ FilterRight

\* The invariant behind the results below: types, and the filter of a report is
\* the rendering of the rule merged from its policies.
THEOREM RetentionInvariance == RetentionSpec => []RetentionInv
PROOF
<1>1. RetentionInit => RetentionInv
  <2>1. SUFFICES ASSUME RetentionInit PROVE RetentionInv
    OBVIOUS
  <2>2. TypeOK
    BY <2>1, InitTypes DEF RetentionInit
  <2>3. QED
    BY <2>1, <2>2 DEF RetentionInit, RetentionInv, RetentionTypeOK, FilterRight
<1>2. RetentionInv /\ [RetentionNext]_rvars => RetentionInv'
  <2>1. SUFFICES ASSUME TypeOK, RetentionTypeOK, FilterRight, [RetentionNext]_rvars
                 PROVE  RetentionInv'
    BY DEF RetentionInv
  <2>2. CASE VersionStep
    BY <2>1, <2>2, VersionStepTypes DEF RetentionInv
  <2>3. CASE PolicyRequest
    <3>1. UNCHANGED <<vars, reportVars>>
      BY <2>3 DEF PolicyRequest, PutForArtifact, DeleteForArtifact, PutForType, DeleteForType,
                  CreateType, DeleteType, Assign, Unassign
    <3>2. TypeOK'
      BY <2>1, <3>1, TypesStutter
    <3>3. FilterRight'
      BY <2>1, <3>1 DEF vars, reportVars, FilterRight
    <3>4. QED
      BY <2>1, <2>3, <3>2, <3>3, PolicyTypes DEF RetentionInv
  <2>4. CASE (\E a \in Artifacts : GetOwn(a)) \/ GetTypes \/ RunnerDelete \/ RunnerEnds
    <3>1. TypeOK'
      <4>1. CASE RunnerDelete
        BY <2>1, <4>1, BulkListTypes DEF RunnerDelete, BulkRequest
      <4>2. CASE ~RunnerDelete
        <5>1. UNCHANGED vars
          BY <2>4, <4>2 DEF GetOwn, GetTypes, RunnerEnds
        <5>2. QED
          BY <2>1, <5>1, TypesStutter
      <4>3. QED
        BY <4>1, <4>2
    <3>2. QED
      BY <2>1, <2>4, <3>1, ReportTypes DEF RetentionInv
  <2>5. CASE UNCHANGED rvars
    <3>1. UNCHANGED vars /\ UNCHANGED <<known, own, byType, assigned, report, subject, ownSeen, basis, filter>>
      BY <2>5 DEF rvars, policyVars, reportVars
    <3>2. TypeOK' /\ now' = now
      BY <2>1, <3>1, TypesStutter DEF vars
    <3>3. (report = "sent" => basis # {} /\ Usable(filter))'
      BY <2>1, <3>1 DEF RetentionTypeOK, Usable, acceptable, Given
    <3>4. RetentionTypeOK' /\ FilterRight'
      BY <2>1, <3>1, <3>2, <3>3 DEF RetentionTypeOK, FilterRight
    <3>5. QED
      BY <3>2, <3>4 DEF RetentionInv
  <2>6. QED
    BY <2>1, <2>2, <2>3, <2>4, <2>5 DEF RetentionNext
<1>3. QED
  BY <1>1, <1>2, PTL DEF RetentionSpec

\* Policies, types and reports keep their types and foreign keys, and of the filters
\* that were reported the bulk delete refuses only those from before the year 0.
THEOREM RetentionTypeCorrect == RetentionSpec => []RetentionTypeOK
PROOF
<1>1. RetentionInv => RetentionTypeOK
  BY DEF RetentionInv
<1>2. QED
  BY <1>1, RetentionInvariance, PTL

-----------------------------------------------------------------------------
(* The merged rule is conservative                                          *)

\* The newer versions of a version can be counted.
LEMMA NewerCounted ==
  ASSUME NEW i
  PROVE  Cardinality(Newer(i)) \in Nat
PROOF
<1>1. Newer(i) \subseteq Ids
  BY DEF Newer, Live
<1>2. QED
  BY <1>1, VersionsAssumption, FS_Subset, FS_CardinalityType

\* A version selected by the rendering of a merged rule is expendable under each
\* of the policies.
LEMMA SelectedIsExpendable ==
  ASSUME TypeOK, NEW P \in SUBSET Policies, NEW t \in 0..now, NEW i \in Ids, NEW a, NEW q,
         q = parsed([versionFilter(mergeRetention(P), t) EXCEPT !.artifact = a]),
         matches(i, q), a # Null
  PROVE  ArtifactOf[i] = a /\ \A p \in P : Expendable(p, i)
PROOF
<1> DEFINE K == mergeRetention(P)["keepLast"]
           G == mergeRetention(P)["maxAgeDays"]
<1>1. /\ q.artifact = a
      /\ q.keepLast = IF K = Null THEN Null ELSE toInt32(K)
      /\ q.olderThan = IF G = Null THEN Null ELSE truncated(t - G * DayTicks)
  BY DEF parsed, versionFilter, NoFilter
<1>2. ArtifactOf[i] = a
  BY <1>1 DEF matches, Given
<1>3. ASSUME NEW p \in P, p["keepLast"] # Null
      PROVE  Cardinality(Newer(i)) >= p["keepLast"]
  <2>1. K \in 1..(HalfInt32 - 1) /\ K # Null /\ p["keepLast"] \in 1..(HalfInt32 - 1) /\ p["keepLast"] <= K
    BY <1>3, MergeBounds
  <2>2. q.keepLast = K
    BY <1>1, <2>1, ToInt32Same
  <2>3. rank(i) > K
    BY <2>1, <2>2 DEF matches, Given
  <2>4. QED
    BY <2>1, <2>3, NewerCounted DEF rank
<1>4. ASSUME NEW p \in P, p["maxAgeDays"] # Null
      PROVE  born[i] + p["maxAgeDays"] * DayTicks < now
  <2>1. G \in 1..(HalfInt32 - 1) /\ G # Null /\ p["maxAgeDays"] \in 1..(HalfInt32 - 1) /\ p["maxAgeDays"] <= G
    BY <1>4, MergeBounds
  <2>2. G \in Nat /\ p["maxAgeDays"] \in Nat /\ DayTicks \in Nat /\ t \in Int /\ now \in Int /\ t <= now
    BY <2>1, RetentionAssumption, VersionsAssumption DEF TypeOK
  <2>3. G * DayTicks \in Int /\ p["maxAgeDays"] * DayTicks \in Int
    BY <2>2
  <2>4. p["maxAgeDays"] * DayTicks <= G * DayTicks
    BY <2>1, <2>2
  <2>5. truncated(t - G * DayTicks) \in Int /\ truncated(t - G * DayTicks) <= t - G * DayTicks
    BY <2>2, <2>3, TruncatedBelow
  <2>6. q.olderThan = truncated(t - G * DayTicks) /\ q.olderThan # Null
    BY <1>1, <2>1, <2>5, VersionsAssumption
  <2>7. born[i] < truncated(t - G * DayTicks)
    BY <2>6 DEF matches, Given
  <2>8. born[i] \in Int
    BY VersionsAssumption DEF TypeOK
  <2>9. QED
    BY <2>2, <2>3, <2>4, <2>5, <2>7, <2>8
<1>5. QED
  BY <1>2, <1>3, <1>4 DEF Expendable, Given

\* The versions a runner's bulk delete lists belong to the artifact it asked about,
\* and every policy merged into the rule lets each of them go on its own, at the
\* time of the listing.
THEOREM MergedRulesAreConservative == RetentionSpec => RuleConservative
PROOF
<1> DEFINE A == RunnerDelete =>
       \A i \in cand' : ArtifactOf[i] = subject /\ \A p \in basis : Expendable(p, i)
<1>1. RetentionInv /\ [RetentionNext]_rvars => [A]_rvars
  <2>1. SUFFICES ASSUME TypeOK, RetentionTypeOK, FilterRight, RunnerDelete, NEW i \in cand'
                 PROVE  ArtifactOf[i] = subject /\ \A p \in basis : Expendable(p, i)
    BY DEF RetentionInv
  <2>2. report = "sent" /\ subject # Null /\ basis \in SUBSET Policies
    BY <2>1 DEF RunnerDelete, RetentionTypeOK
  <2>3. i \in Ids /\ matches(i, parsed([filter EXCEPT !.artifact = subject]))
    BY <2>1 DEF RunnerDelete, BulkRequest, BulkList, ListVersionsFiltered, Live
  <2>4. PICK t \in 0..now : filter = versionFilter(mergeRetention(basis), t)
    BY <2>1, <2>2 DEF FilterRight
  <2>5. QED
    BY <2>1, <2>2, <2>3, <2>4, SelectedIsExpendable
<1>2. QED
  BY <1>1, RetentionInvariance, PTL DEF RetentionSpec, RuleConservative
=============================================================================
