-------------------------- MODULE PrefixMigration --------------------------
(***************************************************************************)
(* `fusion-index migrate-s3-prefix`: the hook job that runs before an      *)
(* upgrade changes S3_PREFIX.  It copies the objects of the files the      *)
(* database lists from the prefix a marker ConfigMap records to the new    *)
(* one and then moves the marker, while the servers of the old release go  *)
(* on storing and deleting files under the old prefix.                     *)
(*                                                                         *)
(* Upload and delete are one step each here; RegistryFiles has their       *)
(* steps.  An object is its prefix and its file: a path contains the       *)
(* file's id, so a path means the same content under every prefix.         *)
(*                                                                         *)
(* Operators named X_something are seeded bugs of X.                       *)
(***************************************************************************)
EXTENDS Naturals, FiniteSets

CONSTANTS
  Files,         \* file ids
  Prefixes,      \* values of S3_PREFIX
  Pods,          \* pods of the hook job that may run at once
  LegacyPrefix,  \* where a release without the migration job kept its files
  MaxUpgrades,   \* bound on installs and upgrades
  MaxAttempts,   \* bound on the pods the job starts for one upgrade
  Nil

ASSUME PrefixesAssumption ==
  /\ Nil \notin Prefixes
  /\ LegacyPrefix \in Prefixes
  /\ MaxUpgrades \in Nat /\ MaxAttempts \in Nat

VARIABLES
  row,        \* file -> "new", "available" or "gone"
  objects,    \* <<prefix, file>> pairs in the bucket
  serving,    \* prefixes of the servers that run
  marker,     \* the prefix in the ConfigMap, Nil while there is none
  rv,         \* its resourceVersion
  phase,      \* of the release: "steady", "hook" or "rollout"
  target,     \* the prefix of the current install or upgrade
  upgrade,    \* its number
  attempts,   \* pods its job has started
  pod,        \* pod -> its progress
  stranded    \* files left where no job will look for them

bucket  == <<row, objects, stranded>>
release == <<phase, target, upgrade, attempts>>
vars == <<row, objects, serving, marker, rv, phase, target, upgrade, attempts, pod, stranded>>

Off == [pc |-> "off", of |-> 0, new |-> Nil, old |-> Nil, rv |-> 0, todo |-> {}]

Available == {f \in Files : row[f] = "available"}

\* Before the first install, or a release without the job with its files.
Init ==
  /\ \/ serving = {} /\ row = [f \in Files |-> "new"]
     \/ serving = {LegacyPrefix} /\ row \in [Files -> {"new", "available"}]
  /\ objects = {LegacyPrefix} \X Available
  /\ marker = Nil
  /\ rv = 0
  /\ phase = "steady"
  /\ target = LegacyPrefix
  /\ upgrade = 0
  /\ attempts = 0
  /\ pod = [j \in Pods |-> Off]
  /\ stranded = {}

-----------------------------------------------------------------------------
(* The servers                                                             *)

\* A job that has listed the paths, and may yet move the marker, will not see a
\* file stored elsewhere; a later job will not if the marker names another
\* prefix; and the servers of the new release will not see what one of the old
\* release stores after the job is done.
Missed(p) ==
  \/ marker \notin {p, Nil}
  \/ phase = "rollout" /\ target # p
  \/ \E j \in Pods : pod[j].pc = "copy" /\ pod[j].rv = rv /\ pod[j].new # p

Upload(f, p) ==
  /\ p \in serving
  /\ row[f] = "new"
  /\ row' = [row EXCEPT ![f] = "available"]
  /\ objects' = objects \cup {<<p, f>>}
  /\ stranded' = IF Missed(p) THEN stranded \cup {f} ELSE stranded
  /\ UNCHANGED <<serving, marker, rv, release, pod>>

Delete(f, p) ==
  /\ p \in serving
  /\ row[f] = "available"
  /\ row' = [row EXCEPT ![f] = "gone"]
  /\ objects' = objects \ {<<p, f>>}
  /\ UNCHANGED <<serving, marker, rv, release, pod, stranded>>

-----------------------------------------------------------------------------
(* The release                                                             *)

UpgradeStart(p) ==
  /\ phase = "steady"
  /\ upgrade < MaxUpgrades
  /\ phase' = "hook"
  /\ target' = p
  /\ upgrade' = upgrade + 1
  /\ attempts' = 0
  /\ UNCHANGED <<bucket, serving, marker, rv, pod>>

\* The job's deadline, or its last retry failed: the release stays as it was.
\* A pod on a node that lost contact may live on.
HookFails ==
  /\ phase = "hook"
  /\ phase' = "steady"
  /\ UNCHANGED <<bucket, serving, marker, rv, target, upgrade, attempts, pod>>

\* A rolling update: old and new servers run side by side for a while.
RolloutBegins ==
  /\ phase = "rollout"
  /\ target \notin serving
  /\ serving' = serving \cup {target}
  /\ UNCHANGED <<bucket, marker, rv, release, pod>>

RolloutEnds ==
  /\ phase = "rollout"
  /\ target \in serving
  /\ serving' = {target}
  /\ phase' = "steady"
  /\ UNCHANGED <<bucket, marker, rv, target, upgrade, attempts, pod>>

-----------------------------------------------------------------------------
(* The job                                                                 *)

PodStart_noPrefix(j) ==
  /\ phase = "hook"
  /\ attempts < MaxAttempts
  /\ pod[j].pc = "off"
  /\ attempts' = attempts + 1
  /\ pod' = [pod EXCEPT ![j] = [Off EXCEPT !.pc = "get", !.of = upgrade]]
  /\ UNCHANGED <<bucket, serving, marker, rv, phase, target, upgrade>>

PodStart(j) ==
  /\ phase = "hook"
  /\ attempts < MaxAttempts
  /\ pod[j].pc = "off"
  /\ attempts' = attempts + 1
  /\ pod' = [pod EXCEPT ![j] = [Off EXCEPT !.pc = "get", !.of = upgrade, !.new = target]]
  /\ UNCHANGED <<bucket, serving, marker, rv, phase, target, upgrade>>

\* Exit with 0: the hook of the pod's own upgrade has succeeded.
Succeed(j) ==
  /\ pod' = [pod EXCEPT ![j] = Off]
  /\ phase' = IF phase = "hook" /\ pod[j].of = upgrade THEN "rollout" ELSE phase
  /\ UNCHANGED <<target, upgrade, attempts>>

\* Exit with 1, at a failed call or a crash.
PodFails(j) ==
  /\ pod[j].pc # "off"
  /\ pod' = [pod EXCEPT ![j] = Off]
  /\ UNCHANGED <<bucket, serving, marker, rv, release>>

GetMarker_anyMarker(j) ==
  /\ pod[j].pc = "get"
  /\ IF marker # Nil
     THEN Succeed(j)
     ELSE /\ pod' = [pod EXCEPT ![j] = [@ EXCEPT !.pc = "create", !.rv = rv]]
          /\ UNCHANGED release
  /\ UNCHANGED <<bucket, serving, marker, rv>>

GetMarker_legacy(j) ==
  /\ pod[j].pc = "get"
  /\ IF marker = pod[j].new
     THEN Succeed(j)
     ELSE /\ pod' = [pod EXCEPT ![j] = [@ EXCEPT
                       !.pc = IF marker = Nil THEN "create" ELSE "list",
                       !.old = LegacyPrefix, !.rv = rv]]
          /\ UNCHANGED release
  /\ UNCHANGED <<bucket, serving, marker, rv>>

GetMarker(j) ==
  /\ pod[j].pc = "get"
  /\ IF marker = pod[j].new
     THEN Succeed(j)
     ELSE /\ pod' = [pod EXCEPT ![j] = [@ EXCEPT
                       !.pc = IF marker = Nil THEN "create" ELSE "list",
                       !.old = marker, !.rv = rv]]
          /\ UNCHANGED release
  /\ UNCHANGED <<bucket, serving, marker, rv>>

\* The API server answers 409 if another pod was first; the answer to a write
\* that took effect may be lost.
WriteMarker(j) ==
  /\ marker' = pod[j].new
  /\ rv' = rv + 1
  /\ \/ Succeed(j)
     \/ pod' = [pod EXCEPT ![j] = Off] /\ UNCHANGED release
  /\ UNCHANGED <<row, objects, serving>>

\* Without a marker the new prefix is recorded and nothing is copied.
CreateMarker(j) ==
  /\ pod[j].pc = "create" /\ marker = Nil
  /\ stranded' = stranded \cup {f \in Available : <<pod[j].new, f>> \notin objects}
  /\ WriteMarker(j)

ListPaths(j) ==
  /\ pod[j].pc = "list"
  /\ pod' = [pod EXCEPT ![j] = [@ EXCEPT !.pc = "copy", !.todo = Available]]
  /\ UNCHANGED <<bucket, serving, marker, rv, release>>

\* HeadObject finds the copy of an earlier attempt, or CopyObject makes one.
\* Without a source the copy fails, and the pod with it (PodFails).
CopyObject(j, f) ==
  /\ pod[j].pc = "copy" /\ f \in pod[j].todo
  /\ {<<pod[j].new, f>>, <<pod[j].old, f>>} \cap objects # {}
  /\ pod' = [pod EXCEPT ![j].todo = @ \ {f}]
  /\ objects' = objects \cup {<<pod[j].new, f>>}
  /\ UNCHANGED <<row, stranded, serving, marker, rv, release>>

UpdateMarker_anyVersion(j) ==
  /\ pod[j].pc = "copy" /\ pod[j].todo = {}
  /\ WriteMarker(j)
  /\ UNCHANGED stranded

\* The write carries the resourceVersion of the read.
UpdateMarker(j) ==
  /\ pod[j].pc = "copy" /\ pod[j].todo = {}
  /\ pod[j].rv = rv
  /\ WriteMarker(j)
  /\ UNCHANGED stranded

JobStep(j) ==
  \/ PodStart(j) \/ PodFails(j) \/ GetMarker(j) \/ CreateMarker(j)
  \/ ListPaths(j) \/ UpdateMarker(j)
  \/ \E f \in Files : CopyObject(j, f)

Next ==
  \/ \E f \in Files, p \in serving : Upload(f, p) \/ Delete(f, p)
  \/ \E p \in Prefixes : UpgradeStart(p)
  \/ HookFails \/ RolloutBegins \/ RolloutEnds
  \/ \E j \in Pods : JobStep(j)

Spec == Init /\ [][Next]_vars

-----------------------------------------------------------------------------
(* Properties                                                              *)

Pod == [pc : {"off", "get", "create", "list", "copy"}, of : Nat,
        new : Prefixes \cup {Nil}, old : Prefixes \cup {Nil}, rv : Nat,
        todo : SUBSET Files]

\* The type invariant; a pod that runs knows its prefix.
TypeOK ==
  /\ row \in [Files -> {"new", "available", "gone"}]
  /\ objects \subseteq Prefixes \X Files
  /\ serving \subseteq Prefixes
  /\ marker \in Prefixes \cup {Nil}
  /\ rv \in Nat
  /\ phase \in {"steady", "hook", "rollout"}
  /\ target \in Prefixes
  /\ upgrade \in Nat /\ attempts \in Nat
  /\ pod \in [Pods -> Pod]
  /\ \A j \in Pods : pod[j].pc # "off" => pod[j].new \in Prefixes
  /\ stranded \subseteq Files

\* The marker tells the truth: every available file has its object under the
\* prefix the marker names, unless it was stored behind a job's back or is older
\* than the marker (runMigrateS3Prefix), through retries, lost answers, deletes next
\* to the copy, and pods of an abandoned upgrade that wake up after a later one has
\* moved the marker.
MarkerHonest ==
  marker # Nil => \A f \in Available \ stranded : <<marker, f>> \in objects

\* Once an upgrade is over, every server finds every such file.
Readable ==
  phase = "steady" => \A f \in Available \ stranded, p \in serving : <<p, f>> \in objects

\* A copy of a job that may still move the marker finds no source for three reasons
\* only, however many prefixes the files have been through: a server deleted the
\* file after the job listed it, or the file was stored behind a job's back, or it
\* is older than the marker.  Otherwise its object is under the old or already
\* under the new prefix (MigratePrefix returns at the first copy that fails).
CopiesFindSource ==
  \A j \in Pods : pod[j].pc = "copy" /\ pod[j].rv = rv =>
    \A f \in pod[j].todo :
      \/ {<<pod[j].new, f>>, <<pod[j].old, f>>} \cap objects # {}
      \/ row[f] = "gone"
      \/ f \in stranded

\* Why these hold.  A pod that can still move the marker has every such file
\* under its new prefix or yet to copy, from the prefix the marker names, and a pod
\* whose upgrade is the current one has the current prefix.
PodsKnow ==
  \A j \in Pods :
    /\ pod[j].rv <= rv
    /\ pod[j].of <= upgrade
    /\ pod[j].pc # "off" /\ pod[j].of = upgrade => pod[j].new = target
    /\ pod[j].pc \in {"list", "copy"} /\ pod[j].rv = rv => pod[j].old = marker /\ marker # Nil

CopyInv ==
  \A j \in Pods : pod[j].pc = "copy" /\ pod[j].rv = rv =>
    \A f \in Available \ stranded : f \in pod[j].todo \/ <<pod[j].new, f>> \in objects

ServersRead ==
  /\ phase # "rollout" =>
       \A p \in serving : /\ serving = {p}
                          /\ \A f \in Available \ stranded : <<p, f>> \in objects
  /\ phase = "rollout" => \A f \in Available \ stranded : <<target, f>> \in objects

\* What a pod has listed has been stored, and is there or was deleted.
ListedStored == \A j \in Pods : \A f \in pod[j].todo : row[f] # "new"

MigrationInv ==
  TypeOK /\ PodsKnow /\ CopyInv /\ MarkerHonest /\ ServersRead
=============================================================================
