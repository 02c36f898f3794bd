----------------------------- MODULE Retention -----------------------------
(***************************************************************************)
(* Retention policies of artifacts and of types, the effective rule the    *)
(* API reports, and the external runner that feeds its versionFilter to    *)
(* the bulk delete of module Versions.  A report reads the artifact's own  *)
(* policy and the policies of its types in two statements.                 *)
(*                                                                         *)
(* Operators named X_something are seeded bugs of X.                       *)
(***************************************************************************)
EXTENDS Versions

CONSTANTS
  Types,       \* type ids; a type created again stands for one with a new id
  Policies,    \* the policies clients put: [keepLast, maxAgeDays], Null when unset
  DayTicks,    \* ticks of the clock in a day
  SecondTicks  \* ticks in a second

ASSUME RetentionAssumption ==
  /\ Policies \subseteq [keepLast : 1..(HalfInt32 - 1) \cup {Null},
                        maxAgeDays : 1..(HalfInt32 - 1) \cup {Null}]
  /\ \A p \in Policies : p.keepLast # Null \/ p.maxAgeDays # Null
  /\ Null \notin Policies /\ Null \notin Artifacts
  /\ DayTicks \in Nat \ {0}
  /\ SecondTicks \in Nat \ {0}

VARIABLES
  known,     \* types that exist
  own,       \* artifact -> its policy, or Null
  byType,    \* type -> its policy, or Null
  assigned,  \* artifact -> its types
  report,    \* the report: "idle", "own" (own policy read), "sent" (to the runner)
  subject,   \* the artifact it is about
  ownSeen,   \* the own policy it read
  basis,     \* the policies its rule was merged from
  filter     \* its versionFilter

policyVars == <<known, own, byType, assigned>>
reportVars == <<report, subject, ownSeen, basis, filter>>
rvars == <<vars, policyVars, reportVars>>

-----------------------------------------------------------------------------
(* Merging and rendering                                                    *)

Field(P, f) == {p[f] : p \in P} \ {Null}

Greatest(S) == IF S = {} THEN Null ELSE CHOOSE x \in S : \A y \in S : y <= x

mergeRetention_least(P) ==
  LET Least(S) == IF S = {} THEN Null ELSE CHOOSE x \in S : \A y \in S : x <= y
  IN  [keepLast |-> Least(Field(P, "keepLast")), maxAgeDays |-> Least(Field(P, "maxAgeDays"))]

\* The maximum of each field over the policies that set it.
mergeRetention(P) ==
  [keepLast |-> Greatest(Field(P, "keepLast")), maxAgeDays |-> Greatest(Field(P, "maxAgeDays"))]

\* Truncate(time.Second)
truncated(t) == (t \div SecondTicks) * SecondTicks

\* keepLast, and olderThan as a whole second: the query string brings both back, but for
\* an olderThan before the year 0, which it spells with a sign.
versionFilter(rule, t) ==
  [NoFilter EXCEPT
     !.keepLast = rule.keepLast,
     !.olderThan = IF rule.maxAgeDays = Null THEN Null
                   ELSE truncated(t - rule.maxAgeDays * DayTicks)]

\* ListTypeRetentionPoliciesForArtifact
typePolicies(a) == {byType[t] : t \in assigned[a]} \ {Null}

\* The policies the effective rule comes from: its own, else those of its types.
inForce(a) == IF own[a] # Null THEN {own[a]} ELSE typePolicies(a)

-----------------------------------------------------------------------------
(* Policies and types                                                       *)

PutForArtifact(a, p) ==
  /\ own' = [own EXCEPT ![a] = p]
  /\ UNCHANGED <<known, byType, assigned, vars, reportVars>>

DeleteForArtifact(a) ==
  /\ own[a] # Null
  /\ own' = [own EXCEPT ![a] = Null]
  /\ UNCHANGED <<known, byType, assigned, vars, reportVars>>

PutForType(t, p) ==
  /\ t \in known
  /\ byType' = [byType EXCEPT ![t] = p]
  /\ UNCHANGED <<known, own, assigned, vars, reportVars>>

DeleteForType(t) ==
  /\ byType[t] # Null
  /\ byType' = [byType EXCEPT ![t] = Null]
  /\ UNCHANGED <<known, own, assigned, vars, reportVars>>

CreateType(t) ==
  /\ t \notin known
  /\ known' = known \cup {t}
  /\ UNCHANGED <<own, byType, assigned, vars, reportVars>>

DeleteType_noCascade(t) ==
  /\ t \in known
  /\ known' = known \ {t}
  /\ byType' = [byType EXCEPT ![t] = Null]
  /\ UNCHANGED <<own, assigned, vars, reportVars>>

\* The type delete, or the cleanup of unused types for a type that had no artifact
\* when its DELETE began.  ON DELETE CASCADE takes its policy and its assignments.
DeleteType(t) ==
  /\ t \in known
  /\ known' = known \ {t}
  /\ byType' = [byType EXCEPT ![t] = Null]
  /\ assigned' = [a \in Artifacts |-> assigned[a] \ {t}]
  /\ UNCHANGED <<own, vars, reportVars>>

Assign(a, t) ==
  /\ t \in known
  /\ assigned' = [assigned EXCEPT ![a] = @ \cup {t}]
  /\ UNCHANGED <<known, own, byType, vars, reportVars>>

Unassign(a, t) ==
  /\ t \in assigned[a]
  /\ assigned' = [assigned EXCEPT ![a] = @ \ {t}]
  /\ UNCHANGED <<known, own, byType, vars, reportVars>>

PolicyRequest ==
  \/ \E a \in Artifacts : DeleteForArtifact(a) \/ \E p \in Policies : PutForArtifact(a, p)
  \/ \E t \in Types :
       \/ DeleteForType(t) \/ CreateType(t) \/ DeleteType(t)
       \/ \E p \in Policies : PutForType(t, p)
       \/ \E a \in Artifacts : Assign(a, t) \/ Unassign(a, t)

-----------------------------------------------------------------------------
(* The report and the runner                                                *)

\* GetForArtifact reads the own policy...
GetOwn(a) ==
  /\ report = "idle"
  /\ report' = "own"
  /\ subject' = a
  /\ ownSeen' = own[a]
  /\ UNCHANGED <<basis, filter, vars, policyVars>>

\* ... and then the policies of the types, merges and renders.  No policy, no rule.
GetTypes ==
  /\ report = "own"
  /\ basis' = IF ownSeen # Null THEN {ownSeen} ELSE typePolicies(subject)
  /\ IF basis' = {}
     THEN report' = "idle" /\ filter' = Null
     ELSE report' = "sent" /\ filter' = versionFilter(mergeRetention(basis'), now)
  /\ ownSeen' = Null
  /\ UNCHANGED <<subject, vars, policyVars>>

Forget ==
  /\ report' = "idle"
  /\ basis' = {}
  /\ filter' = Null
  /\ UNCHANGED <<subject, ownSeen>>

\* The runner calls the bulk delete of the artifact with the filter, at any later
\* time.
RunnerDelete ==
  /\ report = "sent"
  /\ BulkRequest([filter EXCEPT !.artifact = subject])
  /\ Forget
  /\ UNCHANGED policyVars

\* It calls a dry run, is refused, finds nothing to delete, or never calls.
RunnerEnds ==
  /\ report = "sent"
  /\ Forget
  /\ UNCHANGED <<vars, policyVars>>

RetentionInit ==
  /\ Init
  /\ known = {}
  /\ own = [a \in Artifacts |-> Null]
  /\ byType = [t \in Types |-> Null]
  /\ assigned = [a \in Artifacts |-> {}]
  /\ report = "idle" /\ subject = Null /\ ownSeen = Null /\ basis = {} /\ filter = Null

VersionStep ==
  /\ Next
  /\ UNCHANGED <<policyVars, reportVars>>

RetentionNext ==
  \/ VersionStep
  \/ PolicyRequest
  \/ \E a \in Artifacts : GetOwn(a)
  \/ GetTypes
  \/ RunnerDelete
  \/ RunnerEnds

RetentionSpec == RetentionInit /\ [][RetentionNext]_rvars

-----------------------------------------------------------------------------
(* Properties                                                               *)

\* The bulk delete takes a filter whose olderThan parses.
Usable(q) == Given(q.olderThan, LAMBDA t : parses(t)) => acceptable(q)

\* Types; only types that exist are assigned or have a policy; and of the filters sent
\* to the runner the bulk delete refuses only those older than the year 0, which a
\* maxAgeDays of more than two thousand years gives.
RetentionTypeOK ==
  /\ known \in SUBSET Types
  /\ own \in [Artifacts -> Policies \cup {Null}]
  /\ byType \in [Types -> Policies \cup {Null}]
  /\ assigned \in [Artifacts -> SUBSET known]
  /\ \A t \in Types : byType[t] # Null => t \in known
  /\ report \in {"idle", "own", "sent"}
  /\ subject \in Artifacts \cup {Null}
  /\ report # "idle" => subject # Null
  /\ ownSeen \in Policies \cup {Null}
  /\ basis \in SUBSET Policies
  /\ report = "sent" => basis # {} /\ Usable(filter)

\* What a policy alone lets go: versions with keepLast newer ones, and older than
\* maxAgeDays.
Expendable(p, i) ==
  /\ Given(p.keepLast, LAMBDA n : Cardinality(Newer(i)) >= n)
  /\ Given(p.maxAgeDays, LAMBDA d : born[i] + d * DayTicks < now)

\* The versions a runner's bulk delete lists are of the artifact reported on, and
\* each of them is one that every policy merged into the rule lets go, on its own
\* and at the time of the listing (mergeRetention, versionFilter, bulkDelete).
RuleConservative ==
  [][RunnerDelete =>
       \A i \in cand' : ArtifactOf[i] = subject /\ \A p \in basis : Expendable(p, i)]_rvars
=============================================================================
