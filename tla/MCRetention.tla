---------------------------- MODULE MCRetention ----------------------------
(* An instance of Retention, and of Versions within it, for TLC: two        *)
(* versions of one artifact that may have two types, and one of another.    *)
EXTENDS Retention, TLC

CONSTANTS i1, i2, i3, a1, a2, t1, t2

\* i1 < i2 < i3 in semver order, each with another coordinate deciding.
Semvers      == (i1 :> <<0, 2, 1>>) @@ (i2 :> <<1, 0, 1>>) @@ (i3 :> <<1, 1, 0>>)
TwoArtifacts == (i1 :> a1) @@ (i2 :> a1) @@ (i3 :> a2)

\* A request of each shape: registry-wide and per artifact, by rank, age, range
\* and explicit list; and one that is refused.
SomeFilters ==
  { [NoFilter EXCEPT !.keepLast = 1], [NoFilter EXCEPT !.keepLast = HalfInt32 - 1],
    [NoFilter EXCEPT !.olderThan = 1], [NoFilter EXCEPT !.olderThan = YearZero - 1],
    [NoFilter EXCEPT !.artifact = a1, !.below = <<1, 1, 0>>],
    [NoFilter EXCEPT !.artifact = a1, !.versions = {<<0, 2, 1>>, <<1, 1, 0>>}] }

\* Policies that set different fields and differ where they agree on one.  The clock
\* starts with the year 0, so that some cutoffs lie before it.
SomePolicies == {[keepLast |-> 1, maxAgeDays |-> 1], [keepLast |-> 2, maxAgeDays |-> Null]}

\* What does not read each other is kept apart.  There are policies: then there are
\* no tags, and versions of the first artifact only, which a report does not read and
\* which change once it is sent; and at most one type beside an own policy, which
\* alone counts then.  Or there are none: then tags and clients' bulk
\* deletes come and go; the second artifact has no tag but the protection tag.  Files,
\* for which no filter of the instance asks, change while there is none of these.
WithPolicies == known # {} \/ report # "idle" \/ \E a \in Artifacts : own[a] # Null

Tagged == \E a \in Artifacts, t \in Tags : tags[a][t] # Null

Bounds ==
  /\ tags[a2]["latest"] = Null
  /\ bulk # "idle" \/ Tagged \/ WithPolicies => \A i \in Ids : files[i] = "none"
  /\ IF WithPolicies
     THEN /\ state[i3] = "new" /\ own[a2] = Null /\ assigned[a2] = {} /\ subject # a2 /\ ~Tagged
          /\ own[a1] # Null => Cardinality(known) <= 1
          /\ report = "sent" \/ bulk # "idle" \/ \A i \in Ids : born[i] <= 1
     ELSE now <= 1

\* A bulk delete that has its list reads neither policies nor the clock any more, and a
\* report that is sent no policies.
WithinBounds ==
  /\ Bounds'
  /\ WithPolicies' /\ bulk # bulk' => RunnerDelete \/ bulk # "idle"
  /\ bulk # "idle" => UNCHANGED <<policyVars, reportVars, now>>
  /\ report = "own" => UNCHANGED now
  /\ report = "sent" => UNCHANGED policyVars
  /\ WithPolicies /\ report # "sent" /\ bulk = "idle" => UNCHANGED state

Symmetry == Permutations(Types)
=============================================================================
