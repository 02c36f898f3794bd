----------------------- MODULE PrefixMigrationProofs -----------------------
(***************************************************************************)
(* The marker and the servers find every file that was not stored behind a *)
(* job's back nor is older than the marker, for any number of files,       *)
(* prefixes, pods and upgrades.  MigrationInv is the inductive invariant.  *)
(***************************************************************************)
EXTENDS PrefixMigration, TLAPS

USE PrefixesAssumption

\* Nothing is installed yet, or the servers find what they have stored.
LEMMA MigrationInit == Init => MigrationInv
<1> SUFFICES ASSUME Init PROVE MigrationInv
  OBVIOUS
<1>1. objects = {LegacyPrefix} \X Available /\ Available \subseteq Files
  BY DEF Init, Available
<1>2. Off \in Pod
  BY DEF Off, Pod
<1>3. TypeOK
  BY <1>1, <1>2 DEF Init, TypeOK, Off
<1>4. PodsKnow /\ CopyInv
  BY <1>1 DEF Init, PodsKnow, CopyInv, Off
<1>5. MarkerHonest /\ ServersRead
  BY <1>1 DEF Init, MarkerHonest, ServersRead
<1> QED
  BY <1>3, <1>4, <1>5 DEF MigrationInv

\* A server stores or deletes a file.
LEMMA ServerStep ==
  ASSUME MigrationInv, NEW f \in Files, NEW p \in serving, Upload(f, p) \/ Delete(f, p)
  PROVE  MigrationInv'
<1> USE DEF MigrationInv
<1>1. UNCHANGED <<serving, marker, rv, phase, target, upgrade, attempts, pod>>
  BY DEF Upload, Delete, release
<1>2. TypeOK'
  BY <1>1 DEF TypeOK, Upload, Delete
<1>3. PodsKnow'
  BY <1>1 DEF PodsKnow
<1>4. CASE Upload(f, p)
  <2>1. Available' = Available \cup {f} /\ f \notin Available
    BY <1>4 DEF Upload, Available, TypeOK
  <2>2. CASE Missed(p)
    <3>1. Available' \ stranded' \subseteq Available \ stranded /\ objects \subseteq objects'
      BY <1>4, <2>1, <2>2 DEF Upload
    <3> QED
      BY <1>1, <1>2, <1>3, <3>1 DEF CopyInv, MarkerHonest, ServersRead
  <2>3. CASE ~Missed(p)
    <3>1. Available' \ stranded' \subseteq (Available \ stranded) \cup {f}
            /\ objects \subseteq objects' /\ <<p, f>> \in objects'
      BY <1>4, <2>1, <2>3 DEF Upload
    <3>2. marker \in {p, Nil} /\ (phase = "rollout" => target = p)
            /\ \A j \in Pods : pod[j].pc = "copy" /\ pod[j].rv = rv => pod[j].new = p
      BY <2>3 DEF Missed
    <3>3. MarkerHonest'
      BY <1>1, <3>1, <3>2 DEF MarkerHonest, TypeOK
    <3>4. CopyInv'
      BY <1>1, <3>1, <3>2 DEF CopyInv
    <3>5. ServersRead'
      BY <1>1, <3>1, <3>2 DEF ServersRead
    <3> QED
      BY <1>2, <1>3, <3>3, <3>4, <3>5
  <2> QED
    BY <2>2, <2>3
<1>5. CASE Delete(f, p)
  <2>1. Available' = Available \ {f} /\ stranded' = stranded
          /\ \A q, g : g # f /\ <<q, g>> \in objects => <<q, g>> \in objects'
    BY <1>5 DEF Delete, Available, TypeOK
  <2> QED
    BY <1>1, <1>2, <1>3, <2>1 DEF CopyInv, MarkerHonest, ServersRead
<1> QED
  BY <1>4, <1>5

\* The release moves on: files, objects and pods stay.
LEMMA ReleaseStep ==
  ASSUME MigrationInv,
         \/ \E p \in Prefixes : UpgradeStart(p)
         \/ HookFails \/ RolloutBegins \/ RolloutEnds
  PROVE  MigrationInv'
<1> USE DEF MigrationInv
<1>1. UNCHANGED <<row, objects, stranded, marker, rv, pod>> /\ Available' = Available
  BY DEF UpgradeStart, HookFails, RolloutBegins, RolloutEnds, bucket, Available
<1>2. CopyInv' /\ MarkerHonest'
  BY <1>1 DEF CopyInv, MarkerHonest
<1>3. TypeOK' /\ PodsKnow' /\ ServersRead'
  <2>1. ASSUME NEW p \in Prefixes, UpgradeStart(p)
        PROVE  TypeOK' /\ PodsKnow' /\ ServersRead'
    <3>1. TypeOK'
      BY <1>1, <2>1 DEF UpgradeStart, TypeOK
    <3>2. \A j \in Pods : pod[j].of \in Nat
      BY DEF TypeOK, Pod
    <3>3. PodsKnow'
      BY <1>1, <2>1, <3>2 DEF UpgradeStart, PodsKnow, TypeOK
    <3>4. ServersRead'
      BY <1>1, <2>1 DEF UpgradeStart, ServersRead
    <3> QED
      BY <3>1, <3>3, <3>4
  <2>2. CASE HookFails
    BY <1>1, <2>2 DEF HookFails, TypeOK, PodsKnow, ServersRead
  <2>3. CASE RolloutBegins
    BY <1>1, <2>3 DEF RolloutBegins, release, TypeOK, PodsKnow, ServersRead
  <2>4. CASE RolloutEnds
    BY <1>1, <2>4 DEF RolloutEnds, TypeOK, PodsKnow, ServersRead
  <2> QED
    BY <2>1, <2>2, <2>3, <2>4
<1> QED
  BY <1>2, <1>3

\* Records of one pod after its step.
LEMMA PodRecord ==
  ASSUME TypeOK, NEW j \in Pods, NEW r \in Pod, pod' = [pod EXCEPT ![j] = r]
  PROVE  /\ pod' \in [Pods -> Pod]
         /\ \A k \in Pods : pod'[k] = IF k = j THEN r ELSE pod[k]
  BY DEF TypeOK

\* A pod that stops leaves everything the invariant says of the others.
LEMMA PodStops ==
  ASSUME MigrationInv, NEW j \in Pods, pod' = [pod EXCEPT ![j] = Off],
         UNCHANGED <<row, objects, stranded, serving, marker, rv, phase, target, upgrade, attempts>>
  PROVE  MigrationInv'
<1>1. Off \in Pod /\ Off.pc = "off" /\ Off.rv = 0 /\ Off.of = 0
  BY DEF Off, Pod
<1>2. TypeOK /\ Available' = Available
  BY DEF MigrationInv, Available
<1>3. pod' \in [Pods -> Pod] /\ \A k \in Pods : pod'[k] = IF k = j THEN Off ELSE pod[k]
  BY <1>1, <1>2, PodRecord
<1>4. TypeOK'
  BY <1>1, <1>2, <1>3 DEF TypeOK
<1>5. PodsKnow'
  BY <1>1, <1>2, <1>3 DEF MigrationInv, PodsKnow, TypeOK
<1>6. CopyInv' /\ MarkerHonest' /\ ServersRead'
  BY <1>1, <1>2, <1>3 DEF MigrationInv, CopyInv, MarkerHonest, ServersRead
<1> QED
  BY <1>4, <1>5, <1>6 DEF MigrationInv

\* When the marker names the prefix of a pod that succeeds, the rollout may
\* begin: the servers of the new release will find the files.
LEMMA SucceedStep ==
  ASSUME MigrationInv, NEW j \in Pods, pod[j].pc # "off", marker = pod[j].new, Succeed(j),
         UNCHANGED <<row, objects, stranded, serving, marker, rv>>
  PROVE  MigrationInv'
<1>1. Off \in Pod /\ Off.pc = "off" /\ Off.rv = 0 /\ Off.of = 0
  BY DEF Off, Pod
<1>2. TypeOK /\ Available' = Available /\ marker # Nil
  BY DEF MigrationInv, Available, TypeOK
<1>3. pod' \in [Pods -> Pod] /\ \A k \in Pods : pod'[k] = IF k = j THEN Off ELSE pod[k]
  BY <1>1, <1>2, PodRecord DEF Succeed
<1>4. TypeOK'
  BY <1>1, <1>2, <1>3 DEF TypeOK, Succeed
<1>5. PodsKnow'
  BY <1>1, <1>2, <1>3 DEF MigrationInv, PodsKnow, TypeOK, Succeed
<1>6. CopyInv' /\ MarkerHonest'
  BY <1>1, <1>2, <1>3 DEF MigrationInv, CopyInv, MarkerHonest
<1>7. ServersRead'
  <2>1. CASE phase = "hook" /\ pod[j].of = upgrade
    BY <1>2, <2>1 DEF MigrationInv, PodsKnow, MarkerHonest, ServersRead, Succeed
  <2>2. CASE ~(phase = "hook" /\ pod[j].of = upgrade)
    BY <1>2, <2>2 DEF MigrationInv, ServersRead, Succeed
  <2> QED
    BY <2>1, <2>2
<1> QED
  BY <1>4, <1>5, <1>6, <1>7 DEF MigrationInv

\* Moving the marker to a prefix that has every file keeps it honest, and no
\* other pod can still move it: their version is an older one.
LEMMA WriteMarkerStep ==
  ASSUME MigrationInv, NEW j \in Pods, pod[j].pc # "off", WriteMarker(j),
         stranded \subseteq stranded', stranded' \subseteq Files,
         \A f \in Available \ stranded' : <<pod[j].new, f>> \in objects
  PROVE  MigrationInv'
<1>1. Off \in Pod /\ Off.pc = "off" /\ Off.rv = 0 /\ Off.of = 0
  BY DEF Off, Pod
<1>2. TypeOK /\ Available' = Available /\ pod[j].new # Nil /\ pod[j].new \in Prefixes
        /\ UNCHANGED <<row, objects, serving, target, upgrade, attempts>>
        /\ marker' = pod[j].new /\ rv' = rv + 1
  BY DEF MigrationInv, Available, TypeOK, WriteMarker, Succeed, bucket, release
<1>3. pod' \in [Pods -> Pod] /\ \A k \in Pods : pod'[k] = IF k = j THEN Off ELSE pod[k]
  BY <1>1, <1>2, PodRecord DEF WriteMarker, Succeed
<1>4. phase' = phase \/ (phase = "hook" /\ pod[j].of = upgrade /\ phase' = "rollout")
  BY DEF WriteMarker, Succeed, release
<1>5. TypeOK'
  BY <1>1, <1>2, <1>3, <1>4 DEF TypeOK
<1>6. \A k \in Pods : pod[k].rv \in Nat
  BY <1>2 DEF TypeOK, Pod
<1>7. PodsKnow'
  BY <1>1, <1>2, <1>3, <1>6 DEF MigrationInv, PodsKnow, TypeOK
<1>8. CopyInv'
  BY <1>1, <1>2, <1>3, <1>6 DEF MigrationInv, CopyInv, PodsKnow, TypeOK
<1>9. MarkerHonest'
  BY <1>2 DEF MarkerHonest
<1>10. ServersRead'
  BY <1>2, <1>4 DEF MigrationInv, ServersRead, PodsKnow
<1> QED
  BY <1>5, <1>7, <1>8, <1>9, <1>10 DEF MigrationInv

\* A pod starts, reads the marker or lists the paths.
LEMMA ReadingStep ==
  ASSUME MigrationInv, NEW j \in Pods,
         PodStart(j) \/ PodFails(j) \/ GetMarker(j) \/ ListPaths(j)
  PROVE  MigrationInv'
<1>1. TypeOK /\ pod[j] \in Pod
  BY DEF MigrationInv, TypeOK
<1>2. CASE PodFails(j)
  BY <1>2, PodStops DEF PodFails, bucket, release
<1>3. CASE GetMarker(j) /\ marker = pod[j].new
  BY <1>3, SucceedStep DEF GetMarker, bucket
<1>4. CASE PodStart(j) \/ (GetMarker(j) /\ marker # pod[j].new) \/ ListPaths(j)
  <2>1. Available' = Available
          /\ UNCHANGED <<row, objects, stranded, serving, marker, rv, phase, target, upgrade>>
    BY <1>4 DEF PodStart, GetMarker, ListPaths, bucket, release, Available
  <2>2. PICK r \in Pod :
          /\ pod' = [pod EXCEPT ![j] = r]
          /\ r.rv <= rv /\ r.of <= upgrade /\ r.pc # "off" /\ r.new \in Prefixes
          /\ r.of = upgrade => r.new = target
          /\ r.pc = "copy" => r.todo = Available
          /\ r.pc \in {"list", "copy"} /\ r.rv = rv => r.old = marker /\ marker # Nil
    <3>1. CASE PodStart(j)
      <4> DEFINE r == [Off EXCEPT !.pc = "get", !.of = upgrade, !.new = target]
      <4>1. r \in Pod /\ r.pc = "get" /\ r.rv = 0 /\ r.of = upgrade /\ r.new = target
        BY <1>1 DEF Off, Pod, TypeOK
      <4>2. pod' = [pod EXCEPT ![j] = r]
        BY <3>1 DEF PodStart
      <4>3. 0 <= rv /\ upgrade <= upgrade /\ target \in Prefixes
        BY <1>1 DEF TypeOK
      <4> HIDE DEF r
      <4> QED
        BY <4>1, <4>2, <4>3
    <3>2. CASE GetMarker(j) /\ marker # pod[j].new
      <4> DEFINE r == [pod[j] EXCEPT !.pc = IF marker = Nil THEN "create" ELSE "list",
                                     !.old = marker, !.rv = rv]
      <4>1. r \in Pod /\ r.pc \in {"create", "list"} /\ r.rv = rv /\ r.of = pod[j].of
              /\ r.new = pod[j].new /\ r.old = marker /\ (r.pc = "list" => marker # Nil)
        BY <1>1 DEF Pod, TypeOK
      <4>2. pod' = [pod EXCEPT ![j] = r] /\ pod[j].pc = "get"
        BY <3>2 DEF GetMarker
      <4>3. pod[j].of <= upgrade /\ pod[j].new \in Prefixes
              /\ (pod[j].of = upgrade => pod[j].new = target)
        BY <4>2 DEF MigrationInv, PodsKnow, TypeOK
      <4>4. rv <= rv
        BY <1>1 DEF TypeOK
      <4> HIDE DEF r
      <4> QED
        BY <4>1, <4>2, <4>3, <4>4
    <3>3. CASE ListPaths(j)
      <4> DEFINE r == [pod[j] EXCEPT !.pc = "copy", !.todo = Available]
      <4>1. r \in Pod /\ r.pc = "copy" /\ r.rv = pod[j].rv /\ r.of = pod[j].of
              /\ r.new = pod[j].new /\ r.old = pod[j].old /\ r.todo = Available
        BY <1>1 DEF Pod, Available
      <4>2. pod' = [pod EXCEPT ![j] = r] /\ pod[j].pc = "list"
        BY <3>3 DEF ListPaths
      <4>3. pod[j].rv <= rv /\ pod[j].of <= upgrade /\ pod[j].new \in Prefixes
              /\ (pod[j].of = upgrade => pod[j].new = target)
              /\ (pod[j].rv = rv => pod[j].old = marker /\ marker # Nil)
        BY <4>2 DEF MigrationInv, PodsKnow, TypeOK
      <4> HIDE DEF r
      <4> QED
        BY <4>1, <4>2, <4>3
    <3> QED
      BY <1>4, <3>1, <3>2, <3>3
  <2>3. pod' \in [Pods -> Pod] /\ \A k \in Pods : pod'[k] = IF k = j THEN r ELSE pod[k]
    BY <1>1, <2>2, PodRecord
  <2>4. attempts' \in Nat
    BY <1>1, <1>4 DEF PodStart, GetMarker, ListPaths, release, TypeOK
  <2>5. TypeOK'
    BY <1>1, <2>1, <2>2, <2>3, <2>4 DEF TypeOK
  <2>6. PodsKnow'
    BY <2>1, <2>2, <2>3 DEF MigrationInv, PodsKnow
  <2>7. CopyInv'
    BY <2>1, <2>2, <2>3 DEF MigrationInv, CopyInv
  <2>8. MarkerHonest' /\ ServersRead'
    BY <2>1 DEF MigrationInv, MarkerHonest, ServersRead
  <2> QED
    BY <2>5, <2>6, <2>7, <2>8 DEF MigrationInv
<1> QED
  BY <1>2, <1>3, <1>4

\* A pod copies one object.
LEMMA CopyStep ==
  ASSUME MigrationInv, NEW j \in Pods, NEW f \in Files, CopyObject(j, f)
  PROVE  MigrationInv'
<1>1. TypeOK /\ pod[j] \in Pod /\ pod[j].new \in Prefixes /\ Available' = Available
        /\ UNCHANGED <<row, stranded, serving, marker, rv, phase, target, upgrade, attempts>>
        /\ objects' = objects \cup {<<pod[j].new, f>>}
  BY DEF MigrationInv, TypeOK, CopyObject, release, Available
<1> DEFINE r == [pod[j] EXCEPT !.todo = @ \ {f}]
<1>2. r \in Pod /\ r.pc = pod[j].pc /\ r.rv = pod[j].rv /\ r.of = pod[j].of
        /\ r.new = pod[j].new /\ r.old = pod[j].old /\ r.todo = pod[j].todo \ {f}
  BY <1>1 DEF Pod
<1>3. pod' = [pod EXCEPT ![j] = r]
  BY <1>1 DEF CopyObject, TypeOK
<1> HIDE DEF r
<1>4. pod' \in [Pods -> Pod] /\ \A k \in Pods : pod'[k] = IF k = j THEN r ELSE pod[k]
  BY <1>1, <1>2, <1>3, PodRecord
<1>5. TypeOK'
  BY <1>1, <1>2, <1>4 DEF TypeOK
<1>6. PodsKnow'
  BY <1>1, <1>2, <1>4 DEF MigrationInv, PodsKnow
<1>7. CopyInv'
  BY <1>1, <1>2, <1>4 DEF MigrationInv, CopyInv
<1>8. MarkerHonest' /\ ServersRead'
  BY <1>1 DEF MigrationInv, MarkerHonest, ServersRead
<1> QED
  BY <1>5, <1>6, <1>7, <1>8 DEF MigrationInv

\* MigrationInv holds throughout every history of installs, upgrades, jobs that
\* fail and are retried, uploads and deletes.
THEOREM MigrationInvariance == Spec => []MigrationInv
<1>1. MigrationInv /\ [Next]_vars => MigrationInv'
  <2> SUFFICES ASSUME MigrationInv, [Next]_vars PROVE MigrationInv'
    OBVIOUS
  <2>1. ASSUME NEW j \in Pods, CreateMarker(j) PROVE MigrationInv'
    <3>1. stranded \subseteq stranded' /\ stranded' \subseteq Files
            /\ \A f \in Available \ stranded' : <<pod[j].new, f>> \in objects
      BY <2>1 DEF CreateMarker, MigrationInv, TypeOK, Available
    <3> QED
      BY <2>1, <3>1, WriteMarkerStep DEF CreateMarker
  <2>2. ASSUME NEW j \in Pods, UpdateMarker(j) PROVE MigrationInv'
    <3>1. stranded' = stranded /\ stranded \subseteq Files
            /\ \A f \in Available \ stranded : <<pod[j].new, f>> \in objects
      BY <2>2 DEF UpdateMarker, MigrationInv, TypeOK, CopyInv
    <3> QED
      BY <2>2, <3>1, WriteMarkerStep DEF UpdateMarker
  <2>3. CASE Next
    BY <2>1, <2>2, <2>3, ServerStep, ReleaseStep, ReadingStep, CopyStep DEF Next, JobStep
  <2>4. CASE UNCHANGED vars
    <3>1. Available' = Available
      BY <2>4 DEF vars, Available
    <3> QED
      BY <2>4, <3>1 DEF vars, MigrationInv, TypeOK, PodsKnow, CopyInv,
                        MarkerHonest, ServersRead
  <2> QED
    BY <2>3, <2>4
<1> QED
  BY MigrationInit, <1>1, PTL DEF Spec

\* The marker always names a prefix under which every file has its object,
\* unless it was stored behind a job's back or is older than the marker.
THEOREM MarkerStaysHonest == Spec => []MarkerHonest
<1>1. MigrationInv => MarkerHonest
  BY DEF MigrationInv
<1> QED
  BY <1>1, MigrationInvariance, PTL

\* Between upgrades every server finds those files.
THEOREM FilesStayReadable == Spec => []Readable
<1>1. MigrationInv => Readable
  BY DEF MigrationInv, ServersRead, Readable
<1> QED
  BY <1>1, MigrationInvariance, PTL

\* Rows are never new again, and a pod lists available files and crosses them off.
LEMMA ListedStep ==
  ASSUME TypeOK, ListedStored, [Next]_vars
  PROVE  ListedStored'
<1>1. \A f \in Files : row[f] # "new" => row'[f] # "new"
  BY DEF Next, JobStep, Upload, Delete, UpgradeStart, HookFails, RolloutBegins, RolloutEnds, PodStart,
         PodFails, GetMarker, CreateMarker, WriteMarker, ListPaths, CopyObject, UpdateMarker, bucket,
         vars, TypeOK
<1>2. \A j \in Pods : pod'[j].todo \subseteq pod[j].todo \cup Available
  <2>0. pod \in [Pods -> Pod] /\ \A k \in Pods : pod[k] \in Pod
    BY DEF TypeOK
  <2>1. ASSUME NEW j \in Pods, JobStep(j)
        PROVE  \A k \in Pods : pod'[k].todo \subseteq pod[k].todo \cup Available
    <3>1. CASE PodStart(j)
      <4> DEFINE r == [Off EXCEPT !.pc = "get", !.of = upgrade, !.new = target]
      <4>1. r.todo = {}
        BY DEF Off
      <4>2. pod' = [pod EXCEPT ![j] = r]
        BY <3>1 DEF PodStart
      <4> HIDE DEF r
      <4> QED
        BY <2>0, <4>1, <4>2
    <3>2. CASE PodFails(j)
      BY <2>0, <3>2 DEF PodFails, Off, Pod
    <3>3. CASE GetMarker(j)
      <4> DEFINE r == [pod[j] EXCEPT !.pc = IF marker = Nil THEN "create" ELSE "list",
                                     !.old = marker, !.rv = rv]
      <4>1. r.todo = pod[j].todo /\ Off.todo = {}
        BY <2>0 DEF Off, Pod
      <4>2. pod' \in {[pod EXCEPT ![j] = r], [pod EXCEPT ![j] = Off]}
        BY <3>3 DEF GetMarker, Succeed
      <4> HIDE DEF r
      <4> QED
        BY <2>0, <4>1, <4>2
    <3>4. CASE CreateMarker(j) \/ UpdateMarker(j)
      BY <2>0, <3>4 DEF CreateMarker, UpdateMarker, WriteMarker, Succeed, Off, Pod
    <3>5. CASE ListPaths(j)
      BY <2>0, <3>5 DEF ListPaths, Pod
    <3>6. CASE \E f \in Files : CopyObject(j, f)
      BY <2>0, <3>6 DEF CopyObject, Pod
    <3> QED
      BY <2>1, <3>1, <3>2, <3>3, <3>4, <3>5, <3>6 DEF JobStep
  <2>2. CASE ~\E j \in Pods : JobStep(j)
    BY <2>2 DEF Next, Upload, Delete, UpgradeStart, HookFails, RolloutBegins, RolloutEnds, vars
  <2> QED
    BY <2>1, <2>2
<1>3. \A j \in Pods : pod[j].todo \subseteq Files
  BY DEF TypeOK, Pod
<1> QED
  BY <1>1, <1>2, <1>3 DEF ListedStored, Available

\* A copy of a job that may still move the marker finds its source, unless a server
\* deleted the file since the job listed it, or the file was stored behind a job's
\* back or is older than the marker.
THEOREM CopiesHaveSource == Spec => []CopiesFindSource
<1>1. Init => ListedStored
  BY DEF Init, ListedStored, Off
<1>2. MigrationInv /\ ListedStored /\ [Next]_vars => ListedStored'
  BY ListedStep DEF MigrationInv
<1>3. MigrationInv /\ ListedStored => CopiesFindSource
  <2>1. ASSUME MigrationInv, ListedStored, NEW j \in Pods, pod[j].pc = "copy", pod[j].rv = rv,
               NEW f \in pod[j].todo, row[f] # "gone", f \notin stranded
        PROVE  <<pod[j].old, f>> \in objects
    <3>1. f \in Available
      BY <2>1 DEF MigrationInv, TypeOK, Pod, ListedStored, Available
    <3> QED
      BY <2>1, <3>1 DEF MigrationInv, PodsKnow, MarkerHonest
  <2> QED
    BY <2>1 DEF CopiesFindSource
<1> QED
  BY <1>1, <1>2, <1>3, MigrationInvariance, PTL DEF Spec

\* Types, for any number of everything.
THEOREM MigrationTypes == Spec => []TypeOK
<1>1. MigrationInv => TypeOK
  BY DEF MigrationInv
<1> QED
  BY <1>1, MigrationInvariance, PTL
=============================================================================
