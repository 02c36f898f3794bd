------------------------ MODULE RegistryFilesProofs ------------------------
(***************************************************************************)
(* Proofs about RegistryFiles, for every number of requests, files,        *)
(* versions, artifacts and faults.                                         *)
(***************************************************************************)
EXTENDS RegistryFiles, TLAPS

-----------------------------------------------------------------------------
(* Type correctness                                                         *)

\* A listing of rows has the type of a todo list.
LEMMA ListingType ==
  ASSUME TypeOK, NEW F, F \subseteq Rows
  PROVE  Listing(F) \in SUBSET Listed
BY DEF TypeOK, Listing, Listed, fileObjectPath, fileStoragePath, Paths, Rows

\* Moving to another label and returning keep the request variables typed.
LEMMA GotoType ==
  ASSUME TypeOK, NEW p \in Procs, NEW l \in Labels, Goto(p, l)
  PROVE  pc' \in [Procs -> Labels]
BY DEF TypeOK, Goto

LEMMA ReturnType ==
  ASSUME TypeOK, NEW p \in Procs, Return(p)
  PROVE  /\ pc' \in [Procs -> Labels]
         /\ target' \in [Procs -> SUBSET (Versions \cup Artifacts)]
         /\ fid' \in [Procs -> FileIds \cup {Nil}]
         /\ todo' \in [Procs -> SUBSET Listed]
         /\ hit' \in [Procs -> SUBSET FileIds]
BY DEF TypeOK, Return, Goto, Labels

LEMMA FaultType ==
  ASSUME TypeOK, Fault
  PROVE  faults' \in 0 .. MaxFaults
BY ConstantsAssumption DEF TypeOK, Fault

\* Deleting rows keeps the tables typed.
LEMMA DeleteFileRowsType ==
  ASSUME TypeOK, NEW F, DeleteFileRows(F)
  PROVE  /\ status' \in [FileIds -> RowStatus \cup {"NEW", "GONE"}]
         /\ path' \in [FileIds -> Paths]
         /\ verOf' \in [FileIds -> Versions \cup {Nil}]
         /\ nameOf' \in [FileIds -> Names \cup {Nil}]
         /\ \A f \in Rows' : verOf'[f] # Nil
BY DEF TypeOK, DeleteFileRows, Paths, Rows, RowStatus

LEMMA DeleteRowsType ==
  ASSUME TypeOK, NEW T, DeleteRows(T)
  PROVE  /\ astate' \in [Artifacts -> {"new", "live", "gone"}]
         /\ vstate' \in [Versions -> {"new", "live", "gone"}]
         /\ saved' \subseteq Versions
         /\ status' \in [FileIds -> RowStatus \cup {"NEW", "GONE"}]
         /\ path' \in [FileIds -> Paths]
         /\ verOf' \in [FileIds -> Versions \cup {Nil}]
         /\ nameOf' \in [FileIds -> Names \cup {Nil}]
         /\ \A f \in Rows' : verOf'[f] # Nil
<1>1. DeleteFileRows(FilesOf(Cascade(T))) BY DEF DeleteRows
<1>2. /\ astate' \in [Artifacts -> {"new", "live", "gone"}]
      /\ vstate' \in [Versions -> {"new", "live", "gone"}]
      /\ saved' \subseteq Versions
  BY DEF DeleteRows, TypeOK
<1>3. QED BY <1>1, <1>2, DeleteFileRowsType

LEMMA RemoveObjectType ==
  ASSUME TypeOK, NEW p \in Procs, NEW ahead, RemoveObject(p, ahead)
  PROVE  TypeOK'
<1>1. PICK r \in todo[p] : todo' = [todo EXCEPT ![p] = @ \ {r}] BY DEF RemoveObject
<1>2. r \in Listed /\ r.id \in FileIds BY DEF TypeOK, Listed
<1>3. todo' \in [Procs -> SUBSET Listed] BY <1>1 DEF TypeOK
<1>4. object' \in [FileIds -> {"none", "partial", "whole"}]
  BY DEF RemoveObject, TypeOK
<1>5. /\ hit' \in [Procs -> SUBSET FileIds]
      /\ leaked' \subseteq FileIds
  BY DEF RemoveObject, TypeOK, Listed
<1>6. faults' \in 0 .. MaxFaults BY FaultType DEF RemoveObject, TypeOK
<1>7. UNCHANGED <<astate, vstate, saved, status, path, verOf, nameOf, pc, target, fid, damaged>>
  BY DEF RemoveObject, db
<1>8. QED BY <1>3, <1>4, <1>5, <1>6, <1>7 DEF TypeOK, Rows

LEMMA PurgeType ==
  ASSUME TypeOK, NEW p \in Procs, Purge(p)
  PROVE  TypeOK'
<1>1. CASE RemoveObject(p, FALSE) BY <1>1, RemoveObjectType
<1>2. CASE Return(p) /\ UNCHANGED <<db, object, ghosts>>
  BY <1>2, ReturnType DEF TypeOK, Rows, db, ghosts
<1>3. QED BY <1>1, <1>2 DEF Purge

LEMMA ResolveType ==
  ASSUME TypeOK, NEW p \in Procs, NEW op, NEW l \in Labels,
         NEW T \in SUBSET (Versions \cup Artifacts), Resolve(p, op, l, T)
  PROVE  TypeOK'
BY GotoType DEF TypeOK, Resolve, Rows, db, ghosts

LEMMA ReadRowType ==
  ASSUME TypeOK, NEW p \in Procs, NEW op, NEW l \in Labels, NEW f \in Rows,
         ReadRow(p, op, l, f)
  PROVE  TypeOK'
<1>1. Listing({f}) \in SUBSET Listed BY ListingType
<1>2. QED BY <1>1, GotoType DEF TypeOK, ReadRow, Rows, db, ghosts

LEMMA ListInTxType ==
  ASSUME TypeOK, NEW p \in Procs, NEW l \in Labels, NEW F, F \subseteq Rows,
         ListInTx(p, l, F)
  PROVE  TypeOK'
<1>1. Listing(F) \in SUBSET Listed BY ListingType
<1>2. UNCHANGED <<db, object, leaked, damaged>> BY DEF ListInTx
<1>3. CASE /\ Goto(p, l)
           /\ todo' = [todo EXCEPT ![p] = Listing(F)]
           /\ UNCHANGED <<target, fid, hit, faults>>
  BY <1>1, <1>2, <1>3, GotoType DEF TypeOK, Rows, db
<1>4. CASE Fault /\ Return(p)
  BY <1>2, <1>4, FaultType, ReturnType DEF TypeOK, Rows, db
<1>5. QED BY <1>3, <1>4 DEF ListInTx

LEMMA CommitTxType ==
  ASSUME TypeOK, NEW p \in Procs, NEW l \in Labels, NEW T, NEW L \in SUBSET Listed,
         CommitTx(p, l, T, L)
  PROVE  TypeOK'
<1>1. UNCHANGED <<object, damaged>> BY DEF CommitTx
<1>2. leaked' \subseteq FileIds BY DEF CommitTx, TypeOK, Forgotten, FilesOf, Rows
<1>3. CASE /\ DeleteRows(T)
           /\ Goto(p, l)
           /\ todo' = [todo EXCEPT ![p] = L]
           /\ UNCHANGED <<target, fid, hit, faults>>
  BY <1>1, <1>2, <1>3, GotoType, DeleteRowsType DEF TypeOK
<1>4. CASE Fault /\ DeleteRows(T) /\ Return(p)
  BY <1>1, <1>2, <1>4, FaultType, ReturnType, DeleteRowsType DEF TypeOK
<1>5. CASE Fault /\ Return(p) /\ UNCHANGED <<db, leaked>>
  BY <1>1, <1>5, FaultType, ReturnType DEF TypeOK, Rows, db
<1>6. QED BY <1>3, <1>4, <1>5 DEF CommitTx

\* One step of any kind keeps the types.
LEMMA TypeStep == TypeOK /\ [Next]_vars => TypeOK'
<1> SUFFICES ASSUME TypeOK, [Next]_vars PROVE TypeOK'
  OBVIOUS
<1> USE DEF Labels, UploadPcs, StorageFirst, DbFirst
<1>1. CASE UNCHANGED vars BY <1>1 DEF TypeOK, vars, Rows
<1>2. ASSUME NEW a \in Artifacts, CreateArtifact(a) PROVE TypeOK'
  BY <1>2 DEF TypeOK, CreateArtifact, reqs, ghosts, Rows
<1>3. ASSUME NEW v \in Versions, CreateVersion(v) PROVE TypeOK'
  BY <1>3 DEF TypeOK, CreateVersion, reqs, ghosts, Rows
<1>4. ASSUME NEW v \in Versions, PutTag(v) \/ DeleteTag(v) PROVE TypeOK'
  BY <1>4 DEF TypeOK, PutTag, DeleteTag, reqs, ghosts, Rows
<1>5. ASSUME NEW p \in Procs, Start(p) PROVE TypeOK'
  <2>1. ASSUME NEW v \in Versions, UploadStart(p, v) PROVE TypeOK'
    BY <2>1, ResolveType DEF UploadStart
  <2>2. ASSUME NEW v \in Versions, DeleteVersionStart(p, v) PROVE TypeOK'
    BY <2>2, ResolveType DEF DeleteVersionStart
  <2>3. ASSUME NEW f \in FileIds, DownloadStart(p, f) PROVE TypeOK'
    BY <2>3, ReadRowType DEF DownloadStart, Rows, RowStatus
  <2>4. ASSUME NEW f \in FileIds, DeleteFileStart(p, f) PROVE TypeOK'
    BY <2>4, ReadRowType DEF DeleteFileStart
  <2>5. ASSUME NEW C \in SUBSET Versions, BulkDeleteStart(p, C) PROVE TypeOK'
    BY <2>5, ResolveType DEF BulkDeleteStart
  <2>6. ASSUME NEW C \in SUBSET Versions, DeleteVersionsWithoutFiles(p, C) PROVE TypeOK'
    BY <2>6, ResolveType DEF DeleteVersionsWithoutFiles
  <2>7. ASSUME NEW a \in Artifacts, DeleteArtifactStart(p, a) PROVE TypeOK'
    BY <2>7, ResolveType DEF DeleteArtifactStart
  <2>8. ASSUME NEW A \in SUBSET Artifacts,
               DeleteEmptyArtifacts(p, A) \/ DeleteArtifactsWithoutFiles(p, A)
        PROVE  TypeOK'
    BY <2>8, ResolveType DEF DeleteEmptyArtifacts, DeleteArtifactsWithoutFiles
  <2>9. ASSUME NEW F \in SUBSET FileIds, DeleteIncompleteFiles(p, F) PROVE TypeOK'
    <3>1. DeleteFileRows(F) /\ F \subseteq Rows
      BY <2>9 DEF DeleteIncompleteFiles, Incomplete
    <3>2. {[id |-> f, path |-> fileStoragePath(f), ver |-> verOf[f]] : f \in F} \in SUBSET Listed
      BY <3>1 DEF TypeOK, Listed, fileStoragePath, Paths, Rows
    <3>3. UNCHANGED <<astate, vstate, saved, object, damaged>>
      BY <2>9 DEF DeleteIncompleteFiles
    <3>4. /\ pc' \in [Procs -> Labels]
          /\ target' \in [Procs -> SUBSET (Versions \cup Artifacts)]
          /\ fid' \in [Procs -> FileIds \cup {Nil}]
          /\ todo' \in [Procs -> SUBSET Listed]
          /\ hit' \in [Procs -> SUBSET FileIds]
      BY <2>9, <3>2, GotoType, ReturnType DEF DeleteIncompleteFiles, TypeOK
    <3>5. leaked' \subseteq FileIds /\ faults' \in 0 .. MaxFaults
      BY <2>9, FaultType DEF DeleteIncompleteFiles, TypeOK, Forgotten
    <3>6. QED BY <3>1, <3>3, <3>4, <3>5, DeleteFileRowsType DEF TypeOK
  <2>10. QED BY <1>5, <2>1, <2>2, <2>3, <2>4, <2>5, <2>6, <2>7, <2>8, <2>9 DEF Start
<1>6. ASSUME NEW p \in Procs, Step(p) PROVE TypeOK'
  <2>1. CASE UploadInsert(p)
    <3>1. PICK v \in Versions, n \in Names :
            (\E f \in FileIds : InsertRow(p, f, v, n)) \/ InsertRefused(p, v, n)
      BY <2>1 DEF UploadInsert
    <3>2. UNCHANGED <<object, leaked, damaged>> BY <2>1 DEF UploadInsert
    <3>3. ASSUME NEW f \in FileIds, InsertRow(p, f, v, n) PROVE TypeOK'
      <4>1. /\ pc' \in [Procs -> Labels]
            /\ target' \in [Procs -> SUBSET (Versions \cup Artifacts)]
            /\ fid' \in [Procs -> FileIds \cup {Nil}]
            /\ todo' \in [Procs -> SUBSET Listed]
            /\ hit' \in [Procs -> SUBSET FileIds]
            /\ faults' \in 0 .. MaxFaults
        BY <3>3, ReturnType, FaultType, GotoType DEF TypeOK, InsertRow
      <4>2. QED BY <3>2, <3>3, <4>1, ConstantsAssumption
                DEF TypeOK, InsertRow, Rows, RowStatus, Paths
    <3>4. CASE InsertRefused(p, v, n)
      BY <3>2, <3>4, ReturnType, FaultType DEF TypeOK, InsertRefused, Rows, db
    <3>5. QED BY <3>1, <3>3, <3>4
  <2>2. CASE UploadStoreBegin(p)
    BY <2>2, GotoType DEF TypeOK, UploadStoreBegin, Put, Rows, db
  <2>3. CASE UploadStoreEnd(p)
    BY <2>3, GotoType DEF TypeOK, UploadStoreEnd, Put, Rows, db
  <2>4. CASE UploadStoreFail(p)
    BY <2>4, GotoType, FaultType DEF TypeOK, UploadStoreFail, Put, Abandoned, Rows, db
  <2>5. CASE UploadMarkError(p)
    BY <2>5, ReturnType, FaultType DEF TypeOK, UploadMarkError, SetStatus, Rows, RowStatus, db
  <2>6. CASE UploadFinalize(p)
    <3>1. UNCHANGED <<object, leaked>> BY <2>6 DEF UploadFinalize
    <3>2. CASE FinalizeRow(fid[p]) /\ Return(p) /\ UNCHANGED <<damaged, faults>>
      BY <3>1, <3>2, ReturnType DEF TypeOK, FinalizeRow, fileStoragePath, Rows, RowStatus, Paths
    <3>3. CASE /\ Fault
               /\ FinalizeRow(fid[p])
               /\ damaged' = damaged \cup {fid[p]}
               /\ Goto(p, "up_mark_undo")
               /\ UNCHANGED <<target, fid, todo, hit>>
      BY <3>1, <3>3, GotoType, FaultType DEF TypeOK, FinalizeRow, fileStoragePath, Rows, RowStatus, Paths
    <3>4. CASE /\ Fault \/ (fid[p] \notin Rows /\ UNCHANGED faults)
               /\ Goto(p, "up_mark_undo")
               /\ UNCHANGED <<db, target, fid, todo, hit, damaged>>
      BY <3>1, <3>4, GotoType, FaultType DEF TypeOK, Rows, db
    <3>5. QED BY <2>6, <3>2, <3>3, <3>4 DEF UploadFinalize
  <2>7. CASE UploadMarkUndo(p)
    BY <2>7, GotoType, FaultType DEF TypeOK, UploadMarkUndo, SetStatus, Rows, RowStatus, db
  <2>8. CASE UploadUndo(p)
    BY <2>8, ReturnType, FaultType DEF TypeOK, UploadUndo, Abandoned, Rows, db
  <2>9. CASE DownloadRetrieve(p)
    BY <2>9, ReturnType DEF TypeOK, DownloadRetrieve, Rows, db, ghosts
  <2>10. CASE DeleteFileObject(p) \/ DeleteVersionObject(p)
    BY <2>10, RemoveObjectType DEF DeleteFileObject, DeleteVersionObject
  <2>11. CASE DeleteFileRow(p)
    <3>1. Return(p) /\ UNCHANGED object BY <2>11 DEF DeleteFileRow
    <3>2. /\ damaged' \subseteq FileIds
          /\ leaked' \subseteq FileIds
          /\ faults' \in 0 .. MaxFaults
      BY <2>11, FaultType DEF DeleteFileRow, TypeOK, Forgotten, Rows
    <3>3. CASE DeleteFileRows({fid[p]} \cap Rows) /\ UNCHANGED <<astate, vstate, saved>>
      BY <3>1, <3>2, <3>3, ReturnType, DeleteFileRowsType DEF TypeOK
    <3>4. CASE UNCHANGED db
      BY <3>1, <3>2, <3>4, ReturnType DEF TypeOK, Rows, db
    <3>5. QED BY <2>11, <3>3, <3>4 DEF DeleteFileRow
  <2>12. CASE DeleteVersionList(p)
    <3>1. Listing(FilesOf(target[p])) \in SUBSET Listed BY ListingType DEF FilesOf
    <3>2. QED BY <2>12, <3>1, GotoType, FaultType DEF TypeOK, DeleteVersionList, Rows, db
  <2>13. CASE DeleteVersionRow(p)
    <3>1. Return(p) /\ UNCHANGED object BY <2>13 DEF DeleteVersionRow
    <3>2. /\ damaged' \subseteq FileIds
          /\ leaked' \subseteq FileIds
          /\ faults' \in 0 .. MaxFaults
      BY <2>13, FaultType DEF DeleteVersionRow, TypeOK, Forgotten, FilesOf, Rows
    <3>3. CASE DeleteRows(target[p])
      BY <3>1, <3>2, <3>3, ReturnType, DeleteRowsType DEF TypeOK
    <3>4. CASE UNCHANGED db
      BY <3>1, <3>2, <3>4, ReturnType DEF TypeOK, Rows, db
    <3>5. QED BY <2>13, <3>3, <3>4 DEF DeleteVersionRow
  <2>14. CASE BulkDeleteList(p) \/ DeleteArtifactList(p)
    BY <2>14, ListInTxType DEF BulkDeleteList, DeleteArtifactList, FilesOf
  <2>15. CASE BulkDeleteCommit(p)
    <3>1. Purgeable(todo[p], Unprotected(target[p])) \in SUBSET Listed
      BY DEF TypeOK, Purgeable
    <3>2. QED BY <2>15, <3>1, CommitTxType DEF BulkDeleteCommit
  <2>16. CASE DeleteArtifactCommit(p)
    <3>1. todo[p] \in SUBSET Listed BY DEF TypeOK
    <3>2. QED BY <2>16, <3>1, CommitTxType DEF DeleteArtifactCommit
  <2>17. CASE BulkDeletePurge(p) \/ DeleteArtifactPurge(p) \/ DeleteIncompletePurge(p)
    BY <2>17, PurgeType DEF BulkDeletePurge, DeleteArtifactPurge, DeleteIncompletePurge
  <2>18. CASE SweepCommit(p)
    <3>1. Return(p) /\ UNCHANGED <<object, damaged>> BY <2>18 DEF SweepCommit
    <3>2. leaked' \subseteq FileIds /\ faults' \in 0 .. MaxFaults
      BY <2>18, FaultType DEF SweepCommit, TypeOK, Forgotten, FilesOf, Rows
    <3>3. CASE DeleteRows(target[p])
      BY <3>1, <3>2, <3>3, ReturnType, DeleteRowsType DEF TypeOK
    <3>4. CASE UNCHANGED db
      BY <3>1, <3>2, <3>4, ReturnType DEF TypeOK, Rows, db
    <3>5. QED BY <2>18, <3>3, <3>4 DEF SweepCommit
  <2>19. QED
    BY <1>6, <2>1, <2>2, <2>3, <2>4, <2>5, <2>6, <2>7, <2>8, <2>9, <2>10, <2>11,
       <2>12, <2>13, <2>14, <2>15, <2>16, <2>17, <2>18 DEF Step
<1>7. ASSUME NEW p \in Procs, Crash(p) PROVE TypeOK'
  BY <1>7, ReturnType, FaultType DEF TypeOK, Crash, Abandoned, Rows, db
<1>8. CASE Quiet BY <1>1, <1>8 DEF Quiet
<1>9. QED BY <1>1, <1>2, <1>3, <1>4, <1>5, <1>6, <1>7, <1>8 DEF Next

LEMMA TypeInit == Init => TypeOK
BY ConstantsAssumption DEF Init, TypeOK, Labels, Paths, Rows, RowStatus

\* Every variable keeps its type, and every row its version.
THEOREM TypeCorrect == Spec => []TypeOK
BY TypeInit, TypeStep, PTL DEF Spec

-----------------------------------------------------------------------------
(* The inductive invariant: what the requests rely on between their calls,  *)
(* and the four safety properties, which need each other as well.           *)

Inv ==
  /\ TypeOK
  /\ RequestsConsistent
  /\ AvailableIsBacked
  /\ PurgeSparesRows
  /\ DownloadsWhole
  /\ ObjectsAccounted

\* The step deletes the rows F and changes no other file row.
Drops(F) ==
  /\ F \subseteq Rows
  /\ Rows' = Rows \ F
  /\ \A f \in FileIds : status'[f] = IF f \in F THEN "GONE" ELSE status[f]
  /\ \A f \in FileIds \ F : path'[f] = path[f] /\ verOf'[f] = verOf[f]

LEMMA DropFiles ==
  ASSUME TypeOK, NEW F \in SUBSET Rows, DeleteFileRows(F)
  PROVE  Drops(F)
BY DEF TypeOK, DeleteFileRows, Drops, Rows, RowStatus

LEMMA DropKeepsRowsRight ==
  ASSUME RowsRight, NEW F, Drops(F), UNCHANGED vstate
  PROVE  RowsRight'
BY DEF RowsRight, Drops, LiveVersions, Rows

\* A delete of versions or artifacts takes the files of the versions that go,
\* and the versions of the remaining files stay.
LEMMA DropRows ==
  ASSUME TypeOK, RowsRight, NEW T, DeleteRows(T), NEW F, F = FilesOf(Cascade(T))
  PROVE  Drops(F) /\ RowsRight'
<1>1. F \in SUBSET Rows /\ DeleteFileRows(F) BY DEF DeleteRows, FilesOf
<1>2. Drops(F) BY <1>1, DropFiles
<1>3. LiveVersions' = LiveVersions \ Cascade(T)
  BY DEF TypeOK, DeleteRows, LiveVersions, Cascade
<1>4. \A f \in Rows' : f \in Rows /\ verOf'[f] \in LiveVersions'
  BY <1>2, <1>3 DEF RowsRight, Drops, FilesOf, Rows
<1>5. QED BY <1>2, <1>4 DEF RowsRight, Drops, Rows

USE DEF Rows, RowStatus, Ids, PathsIn, Uploading, Excused, Claims, Writing, LiveVersions,
        UploadPcs, StorageFirst, DbFirst

\* A new artifact.
LEMMA CreateArtifactInv ==
  ASSUME Inv, TypeOK', NEW a \in Artifacts, CreateArtifact(a)
  PROVE  Inv'
<1> USE DEF Inv, RequestsConsistent, TypeOK, CreateArtifact, reqs, ghosts
<1>1. FreshIds' BY DEF FreshIds
<1>2. RowsRight' BY DEF RowsRight
<1>3. ListsRight' BY DEF ListsRight, RowsRight, FreshIds
<1>4. UploadsRight' BY DEF UploadsRight, FreshIds
<1>5. StoresRight' BY DEF StoresRight, UploadsRight, HitsRight, FreshIds
<1>6. HitsRight' BY DEF HitsRight, ListsRight, FreshIds
<1>7. PartialsRight' BY DEF PartialsRight, StoresRight, UploadsRight, FreshIds
<1>8. AvailableIsBacked' BY DEF AvailableIsBacked, StoresRight, UploadsRight, HitsRight,
      PurgeSparesRows, ListsRight, RowsRight
<1>9. PurgeSparesRows' BY DEF PurgeSparesRows, ListsRight, FreshIds, RowsRight
<1>10. DownloadsWhole' BY DEF DownloadsWhole, PartialsRight, ListsRight, RowsRight
<1>11. ObjectsAccounted' BY DEF ObjectsAccounted, HitsRight, ListsRight, FreshIds, UploadsRight
<1>12. QED BY <1>1, <1>2, <1>3, <1>4, <1>5, <1>6, <1>7, <1>8, <1>9, <1>10, <1>11

\* A new version.
LEMMA CreateVersionInv ==
  ASSUME Inv, TypeOK', NEW v \in Versions, CreateVersion(v)
  PROVE  Inv'
<1> USE DEF Inv, RequestsConsistent, TypeOK, CreateVersion, reqs, ghosts
<1>1. FreshIds' BY DEF FreshIds
<1>2. RowsRight' BY DEF RowsRight
<1>3. ListsRight' BY DEF ListsRight, RowsRight, FreshIds
<1>4. UploadsRight' BY DEF UploadsRight, FreshIds
<1>5. StoresRight' BY DEF StoresRight, UploadsRight, HitsRight, FreshIds
<1>6. HitsRight' BY DEF HitsRight, ListsRight, FreshIds
<1>7. PartialsRight' BY DEF PartialsRight, StoresRight, UploadsRight, FreshIds
<1>8. AvailableIsBacked' BY DEF AvailableIsBacked, StoresRight, UploadsRight, HitsRight,
      PurgeSparesRows, ListsRight, RowsRight
<1>9. PurgeSparesRows' BY DEF PurgeSparesRows, ListsRight, FreshIds, RowsRight
<1>10. DownloadsWhole' BY DEF DownloadsWhole, PartialsRight, ListsRight, RowsRight
<1>11. ObjectsAccounted' BY DEF ObjectsAccounted, HitsRight, ListsRight, FreshIds, UploadsRight
<1>12. QED BY <1>1, <1>2, <1>3, <1>4, <1>5, <1>6, <1>7, <1>8, <1>9, <1>10, <1>11

\* Tags.
LEMMA TagInv ==
  ASSUME Inv, TypeOK', NEW v \in Versions, PutTag(v) \/ DeleteTag(v)
  PROVE  Inv'
<1> USE DEF Inv, RequestsConsistent, TypeOK, PutTag, DeleteTag, reqs, ghosts
<1>1. FreshIds' BY DEF FreshIds
<1>2. RowsRight' BY DEF RowsRight
<1>3. ListsRight' BY DEF ListsRight, RowsRight, FreshIds
<1>4. UploadsRight' BY DEF UploadsRight, FreshIds
<1>5. StoresRight' BY DEF StoresRight, UploadsRight, HitsRight, FreshIds
<1>6. HitsRight' BY DEF HitsRight, ListsRight, FreshIds
<1>7. PartialsRight' BY DEF PartialsRight, StoresRight, UploadsRight, FreshIds
<1>8. AvailableIsBacked' BY DEF AvailableIsBacked, StoresRight, UploadsRight, HitsRight,
      PurgeSparesRows, ListsRight, RowsRight
<1>9. PurgeSparesRows' BY DEF PurgeSparesRows, ListsRight, FreshIds, RowsRight
<1>10. DownloadsWhole' BY DEF DownloadsWhole, PartialsRight, ListsRight, RowsRight
<1>11. ObjectsAccounted' BY DEF ObjectsAccounted, HitsRight, ListsRight, FreshIds, UploadsRight
<1>12. QED BY <1>1, <1>2, <1>3, <1>4, <1>5, <1>6, <1>7, <1>8, <1>9, <1>10, <1>11

\* A request is resolved: only its label and target change.
LEMMA ResolveInv ==
  ASSUME Inv, TypeOK', NEW p \in Procs, NEW op, NEW T,
         NEW l \in {"up_insert", "vd_list", "bd_list", "ad_list", "sw_delete"},
         Resolve(p, op, l, T)
  PROVE  Inv'
<1> USE DEF Inv, RequestsConsistent, TypeOK, Resolve, Goto, db, ghosts
<1>1. FreshIds' BY DEF FreshIds
<1>2. RowsRight' BY DEF RowsRight
<1>3. ListsRight' BY DEF ListsRight, RowsRight, FreshIds
<1>4. UploadsRight' BY DEF UploadsRight, FreshIds
<1>5. StoresRight' BY DEF StoresRight, UploadsRight, HitsRight, FreshIds
<1>6. HitsRight' BY DEF HitsRight, ListsRight, FreshIds
<1>7. PartialsRight' BY DEF PartialsRight, StoresRight, UploadsRight, FreshIds
<1>8. AvailableIsBacked' BY DEF AvailableIsBacked, StoresRight, UploadsRight, HitsRight,
      PurgeSparesRows, ListsRight, RowsRight
<1>9. PurgeSparesRows' BY DEF PurgeSparesRows, ListsRight, FreshIds, RowsRight
<1>10. DownloadsWhole' BY DEF DownloadsWhole, PartialsRight, ListsRight, RowsRight
<1>11. ObjectsAccounted' BY DEF ObjectsAccounted, HitsRight, ListsRight, FreshIds, UploadsRight
<1>12. QED BY <1>1, <1>2, <1>3, <1>4, <1>5, <1>6, <1>7, <1>8, <1>9, <1>10, <1>11

\* A download reads an AVAILABLE row.
LEMMA DownloadStartInv ==
  ASSUME Inv, TypeOK', NEW p \in Procs, NEW f \in FileIds, DownloadStart(p, f)
  PROVE  Inv'
<1> USE DEF Inv, RequestsConsistent, TypeOK, DownloadStart, ReadRow, Listing, fileObjectPath,
            fileStoragePath, Goto, db, ghosts
<1>1. FreshIds' BY DEF FreshIds
<1>2. RowsRight' BY DEF RowsRight
<1>3. ListsRight' BY DEF ListsRight, RowsRight, FreshIds
<1>4. UploadsRight' BY DEF UploadsRight, FreshIds
<1>5. StoresRight' BY DEF StoresRight, UploadsRight, HitsRight, FreshIds
<1>6. HitsRight'
  <2>1. \A q \in Procs \ {p} : pc'[q] = pc[q] /\ fid'[q] = fid[q] /\ todo'[q] = todo[q]
    OBVIOUS
  <2>2. pc[p] = "idle" /\ pc'[p] = "dl_retrieve" /\ hit'[p] = hit[p] OBVIOUS
  <2>3. UNCHANGED <<hit, object, status, verOf, target>> OBVIOUS
  <2>4. \A q \in Procs : \A g \in hit'[q] : object'[g] = "none" BY <2>3 DEF HitsRight
  <2>5. \A q \in Procs : pc'[q] \notin StorageFirst => hit'[q] = {}
    BY <2>1, <2>2, <2>3 DEF HitsRight
  <2>6. ASSUME NEW q \in Procs, pc'[q] = "fd_purge"
        PROVE  fid'[q] \in FileIds /\ hit'[q] \cup Ids(todo'[q]) \subseteq {fid'[q]}
    <3>1. q # p BY <2>2, <2>6
    <3>2. pc[q] = "fd_purge" BY <2>1, <2>6, <3>1
    <3>3. fid[q] \in FileIds /\ hit[q] \cup Ids(todo[q]) \subseteq {fid[q]}
      BY <3>2 DEF HitsRight
    <3>4. QED BY <2>1, <2>3, <3>1, <3>3
  <2>7. ASSUME NEW q \in Procs, pc'[q] = "vd_purge",
               NEW g \in (hit'[q] \cup Ids(todo'[q])) \cap Rows'
        PROVE  verOf'[g] \in target'[q]
    <3>1. q # p BY <2>2, <2>7
    <3>2. QED BY <2>1, <2>3, <2>7, <3>1 DEF HitsRight
  <2>8. QED BY <2>4, <2>5, <2>6, <2>7 DEF HitsRight
<1>7. PartialsRight' BY DEF PartialsRight, StoresRight, UploadsRight, FreshIds
<1>8. AvailableIsBacked' BY DEF AvailableIsBacked, StoresRight, UploadsRight, HitsRight,
      PurgeSparesRows, ListsRight, RowsRight
<1>9. PurgeSparesRows' BY DEF PurgeSparesRows, ListsRight, FreshIds, RowsRight
<1>10. DownloadsWhole' BY DEF DownloadsWhole, PartialsRight, ListsRight, RowsRight
<1>11. ObjectsAccounted' BY DEF ObjectsAccounted, HitsRight, ListsRight, FreshIds, UploadsRight
<1>12. QED BY <1>1, <1>2, <1>3, <1>4, <1>5, <1>6, <1>7, <1>8, <1>9, <1>10, <1>11

\* A file delete reads its row.
LEMMA DeleteFileStartInv ==
  ASSUME Inv, TypeOK', NEW p \in Procs, NEW f \in FileIds, DeleteFileStart(p, f)
  PROVE  Inv'
<1> USE DEF Inv, RequestsConsistent, TypeOK, DeleteFileStart, ReadRow, Listing, fileObjectPath,
            fileStoragePath, Goto, db, ghosts
<1>1. FreshIds' BY DEF FreshIds
<1>2. RowsRight' BY DEF RowsRight
<1>3. ListsRight' BY DEF ListsRight, RowsRight, FreshIds
<1>4. UploadsRight' BY DEF UploadsRight, FreshIds
<1>5. StoresRight' BY DEF StoresRight, UploadsRight, HitsRight, FreshIds
<1>6. HitsRight' BY DEF HitsRight, ListsRight, FreshIds
<1>7. PartialsRight' BY DEF PartialsRight, StoresRight, UploadsRight, FreshIds
<1>8. AvailableIsBacked' BY DEF AvailableIsBacked, StoresRight, UploadsRight, HitsRight,
      PurgeSparesRows, ListsRight, RowsRight
<1>9. PurgeSparesRows' BY DEF PurgeSparesRows, ListsRight, FreshIds, RowsRight
<1>10. DownloadsWhole' BY DEF DownloadsWhole, PartialsRight, ListsRight, RowsRight
<1>11. ObjectsAccounted' BY DEF ObjectsAccounted, HitsRight, ListsRight, FreshIds, UploadsRight
<1>12. QED BY <1>1, <1>2, <1>3, <1>4, <1>5, <1>6, <1>7, <1>8, <1>9, <1>10, <1>11

\* An upload inserts its row, under an id nobody holds.
LEMMA UploadInsertInv ==
  ASSUME Inv, TypeOK', NEW p \in Procs, NEW v \in Versions, NEW n \in Names,
         pc[p] = "up_insert", NEW f \in FileIds, InsertRow(p, f, v, n),
         UNCHANGED <<object, leaked, damaged>>
  PROVE  Inv'
<1> USE DEF Inv, RequestsConsistent, TypeOK, InsertRow, Fault, Return, Goto
<1>1. FreshIds' BY ConstantsAssumption DEF FreshIds
<1>2. RowsRight' BY DEF RowsRight
<1>3. ListsRight' BY DEF ListsRight, RowsRight, FreshIds
<1>4. UploadsRight' BY DEF UploadsRight, FreshIds
<1>5. StoresRight' BY DEF StoresRight, UploadsRight, HitsRight, FreshIds
<1>6. HitsRight'
  <2>1. \A q \in Procs : f \notin hit[q] /\ f \notin Ids(todo[q]) BY DEF FreshIds
  <2>2. \A g \in FileIds \ {f} : (g \in Rows' => g \in Rows) /\ verOf'[g] = verOf[g]
    OBVIOUS
  <2>3. \A q \in Procs \ {p} : /\ pc'[q] = pc[q] /\ target'[q] = target[q] /\ fid'[q] = fid[q]
                              /\ todo'[q] = todo[q] /\ hit'[q] = hit[q]
    OBVIOUS
  <2>4. pc'[p] \notin StorageFirst /\ hit'[p] = {} BY DEF HitsRight
  <2>5. \A q \in Procs : \A g \in hit'[q] : object'[g] = "none" BY <2>3, <2>4 DEF HitsRight
  <2>6. \A q \in Procs : pc'[q] \notin StorageFirst => hit'[q] = {} BY <2>3, <2>4 DEF HitsRight
  <2>7. ASSUME NEW q \in Procs, pc'[q] = "fd_purge"
        PROVE  fid'[q] \in FileIds /\ hit'[q] \cup Ids(todo'[q]) \subseteq {fid'[q]}
    BY <2>3, <2>4, <2>7 DEF HitsRight
  <2>8. ASSUME NEW q \in Procs, pc'[q] = "vd_purge",
               NEW g \in (hit'[q] \cup Ids(todo'[q])) \cap Rows'
        PROVE  verOf'[g] \in target'[q]
    BY <2>1, <2>2, <2>3, <2>4, <2>8 DEF HitsRight
  <2>9. QED BY <2>5, <2>6, <2>7, <2>8 DEF HitsRight
<1>7. PartialsRight' BY DEF PartialsRight, StoresRight, UploadsRight, FreshIds
<1>8. AvailableIsBacked' BY DEF AvailableIsBacked, StoresRight, UploadsRight, HitsRight,
      PurgeSparesRows, ListsRight, RowsRight
<1>9. PurgeSparesRows' BY DEF PurgeSparesRows, ListsRight, FreshIds, RowsRight
<1>10. DownloadsWhole' BY DEF DownloadsWhole, PartialsRight, ListsRight, RowsRight
<1>11. ObjectsAccounted' BY DEF ObjectsAccounted, HitsRight, ListsRight, FreshIds, UploadsRight
<1>12. QED BY <1>1, <1>2, <1>3, <1>4, <1>5, <1>6, <1>7, <1>8, <1>9, <1>10, <1>11

\* An upload starts to store its object.
LEMMA UploadStoreBeginInv ==
  ASSUME Inv, TypeOK', NEW p \in Procs, UploadStoreBegin(p)
  PROVE  Inv'
<1> USE DEF Inv, RequestsConsistent, TypeOK, UploadStoreBegin, Put, Goto, db
<1>1. FreshIds' BY DEF FreshIds
<1>2. RowsRight' BY DEF RowsRight
<1>3. ListsRight' BY DEF ListsRight, RowsRight, FreshIds
<1>4. UploadsRight' BY DEF UploadsRight, FreshIds
<1>5. StoresRight' BY DEF StoresRight, UploadsRight, HitsRight, FreshIds
<1>6. HitsRight' BY DEF HitsRight, ListsRight, FreshIds
<1>7. PartialsRight' BY DEF PartialsRight, StoresRight, UploadsRight, FreshIds
<1>8. AvailableIsBacked' BY DEF AvailableIsBacked, StoresRight, UploadsRight, HitsRight,
      PurgeSparesRows, ListsRight, RowsRight
<1>9. PurgeSparesRows' BY DEF PurgeSparesRows, ListsRight, FreshIds, RowsRight
<1>10. DownloadsWhole' BY DEF DownloadsWhole, PartialsRight, ListsRight, RowsRight
<1>11. ObjectsAccounted' BY DEF ObjectsAccounted, HitsRight, ListsRight, FreshIds, UploadsRight
<1>12. QED BY <1>1, <1>2, <1>3, <1>4, <1>5, <1>6, <1>7, <1>8, <1>9, <1>10, <1>11

\* Store returns.
LEMMA UploadStoreEndInv ==
  ASSUME Inv, TypeOK', NEW p \in Procs, UploadStoreEnd(p)
  PROVE  Inv'
<1> USE DEF Inv, RequestsConsistent, TypeOK, UploadStoreEnd, Put, Goto, db
<1>1. FreshIds' BY DEF FreshIds
<1>2. RowsRight' BY DEF RowsRight
<1>3. ListsRight' BY DEF ListsRight, RowsRight, FreshIds
<1>4. UploadsRight' BY DEF UploadsRight, FreshIds
<1>5. StoresRight' BY DEF StoresRight, UploadsRight, HitsRight, FreshIds
<1>6. HitsRight' BY DEF HitsRight, ListsRight, FreshIds
<1>7. PartialsRight' BY DEF PartialsRight, StoresRight, UploadsRight, FreshIds
<1>8. AvailableIsBacked' BY DEF AvailableIsBacked, StoresRight, UploadsRight, HitsRight,
      PurgeSparesRows, ListsRight, RowsRight
<1>9. PurgeSparesRows' BY DEF PurgeSparesRows, ListsRight, FreshIds, RowsRight
<1>10. DownloadsWhole' BY DEF DownloadsWhole, PartialsRight, ListsRight, RowsRight
<1>11. ObjectsAccounted' BY DEF ObjectsAccounted, HitsRight, ListsRight, FreshIds, UploadsRight
<1>12. QED BY <1>1, <1>2, <1>3, <1>4, <1>5, <1>6, <1>7, <1>8, <1>9, <1>10, <1>11

\* Store fails.
LEMMA UploadStoreFailInv ==
  ASSUME Inv, TypeOK', NEW p \in Procs, UploadStoreFail(p)
  PROVE  Inv'
<1> USE DEF Inv, RequestsConsistent, TypeOK, UploadStoreFail, Put, Goto, Abandoned, db
<1>1. FreshIds' BY DEF FreshIds
<1>2. RowsRight' BY DEF RowsRight
<1>3. ListsRight' BY DEF ListsRight, RowsRight, FreshIds
<1>4. UploadsRight' BY DEF UploadsRight, FreshIds
<1>5. StoresRight' BY DEF StoresRight, UploadsRight, HitsRight, FreshIds
<1>6. HitsRight' BY DEF HitsRight, ListsRight, FreshIds
<1>7. PartialsRight' BY DEF PartialsRight, StoresRight, UploadsRight, FreshIds
<1>8. AvailableIsBacked' BY DEF AvailableIsBacked, StoresRight, UploadsRight, HitsRight,
      PurgeSparesRows, ListsRight, RowsRight
<1>9. PurgeSparesRows' BY DEF PurgeSparesRows, ListsRight, FreshIds, RowsRight
<1>10. DownloadsWhole' BY DEF DownloadsWhole, PartialsRight, ListsRight, RowsRight
<1>11. ObjectsAccounted' BY DEF ObjectsAccounted, HitsRight, ListsRight, FreshIds, UploadsRight
<1>12. QED BY <1>1, <1>2, <1>3, <1>4, <1>5, <1>6, <1>7, <1>8, <1>9, <1>10, <1>11

\* The upload marks its row ERROR.
LEMMA UploadMarkErrorInv ==
  ASSUME Inv, TypeOK', NEW p \in Procs, UploadMarkError(p)
  PROVE  Inv'
<1> USE DEF Inv, RequestsConsistent, TypeOK, UploadMarkError, SetStatus, Return, Goto, db
<1>1. FreshIds' BY ConstantsAssumption DEF FreshIds
<1>2. RowsRight' BY DEF RowsRight
<1>3. ListsRight' BY DEF ListsRight, RowsRight, FreshIds
<1>4. UploadsRight' BY DEF UploadsRight, FreshIds
<1>5. StoresRight' BY DEF StoresRight, UploadsRight, HitsRight, FreshIds
<1>6. HitsRight' BY DEF HitsRight, ListsRight, FreshIds
<1>7. PartialsRight' BY DEF PartialsRight, StoresRight, UploadsRight, FreshIds
<1>8. AvailableIsBacked' BY DEF AvailableIsBacked, StoresRight, UploadsRight, HitsRight,
      PurgeSparesRows, ListsRight, RowsRight
<1>9. PurgeSparesRows' BY DEF PurgeSparesRows, ListsRight, FreshIds, RowsRight
<1>10. DownloadsWhole' BY DEF DownloadsWhole, PartialsRight, ListsRight, RowsRight
<1>11. ObjectsAccounted' BY DEF ObjectsAccounted, HitsRight, ListsRight, FreshIds, UploadsRight
<1>12. QED BY <1>1, <1>2, <1>3, <1>4, <1>5, <1>6, <1>7, <1>8, <1>9, <1>10, <1>11

\* The upload finalizes its row, if it is still there.
LEMMA UploadFinalizeInv ==
  ASSUME Inv, TypeOK', NEW p \in Procs, UploadFinalize(p)
  PROVE  Inv'
<1> USE DEF Inv, RequestsConsistent, TypeOK, UploadFinalize, FinalizeRow, fileStoragePath,
            Return, Goto, db
<1>1. FreshIds' BY ConstantsAssumption DEF FreshIds
<1>2. RowsRight' BY DEF RowsRight
<1>3. ListsRight' BY DEF ListsRight, RowsRight, FreshIds
<1>4. UploadsRight' BY DEF UploadsRight, FreshIds
<1>5. StoresRight' BY DEF StoresRight, UploadsRight, HitsRight, FreshIds
<1>6. HitsRight' BY DEF HitsRight, ListsRight, FreshIds
<1>7. PartialsRight'
  <2>1. \A f \in FileIds : object'[f] = "partial" => status'[f] # "AVAILABLE"
    BY DEF PartialsRight, StoresRight
  <2>2. \A q, s \in Procs :
          pc'[q] = "dl_retrieve" /\ pc'[s] \in Writing => fid'[s] \notin Ids(todo'[q])
    BY DEF PartialsRight
  <2>3. QED BY <2>1, <2>2 DEF PartialsRight
<1>8. AvailableIsBacked'
  <2>1. object' = object /\ damaged \subseteq damaged'
    OBVIOUS
  <2>2. hit[p] = {} BY DEF HitsRight
  <2>3. hit' = hit \/ hit' = [hit EXCEPT ![p] = {}] OBVIOUS
  <2>4. hit \in [Procs -> SUBSET FileIds] OBVIOUS
  <2> HIDE DEF Inv, RequestsConsistent, TypeOK, UploadFinalize, FinalizeRow, Return, Goto
  <2>5. \A q \in Procs : hit'[q] = hit[q] BY <2>2, <2>3, <2>4
  <2> USE DEF Inv, RequestsConsistent, TypeOK, UploadFinalize, FinalizeRow, Return, Goto
  <2>6. \A f \in FileIds \ {fid[p]} : status'[f] = status[f] OBVIOUS
  <2>7. fid[p] \in FileIds /\ (fid[p] \in Rows => object[fid[p]] = "whole" \/ Excused(fid[p]))
    BY DEF UploadsRight, StoresRight
  <2>8. QED BY <2>1, <2>5, <2>6, <2>7 DEF AvailableIsBacked
<1>9. PurgeSparesRows' BY DEF PurgeSparesRows, ListsRight, FreshIds, RowsRight
<1>10. DownloadsWhole' BY DEF DownloadsWhole, PartialsRight, ListsRight, RowsRight
<1>11. ObjectsAccounted'
  <2> SUFFICES ASSUME NEW f \in FileIds, object'[f] # "none", f \notin Rows'
               PROVE  f \in leaked' \/ \E q \in Procs : Claims(q, f)'
    BY DEF ObjectsAccounted
  <2>1. ASSUME NEW q \in Procs, q # p PROVE Claims(q, f)' <=> Claims(q, f)
    BY <2>1
  <2>2. CASE pc'[p] = "up_mark_undo" /\ fid' = fid /\ Rows' = Rows
    BY <2>1, <2>2 DEF ObjectsAccounted
  <2>3. CASE fid[p] \in Rows'
    BY <2>1, <2>3 DEF ObjectsAccounted
  <2>4. QED BY <2>2, <2>3
<1>12. QED BY <1>1, <1>2, <1>3, <1>4, <1>5, <1>6, <1>7, <1>8, <1>9, <1>10, <1>11

\* Finalizing failed: mark ERROR.
LEMMA UploadMarkUndoInv ==
  ASSUME Inv, TypeOK', NEW p \in Procs, UploadMarkUndo(p)
  PROVE  Inv'
<1> USE DEF Inv, RequestsConsistent, TypeOK, UploadMarkUndo, SetStatus, Goto, db
<1>1. FreshIds' BY DEF FreshIds
<1>2. RowsRight' BY DEF RowsRight
<1>3. ListsRight' BY DEF ListsRight, RowsRight, FreshIds
<1>4. UploadsRight' BY DEF UploadsRight, FreshIds
<1>5. StoresRight' BY DEF StoresRight, UploadsRight, HitsRight, FreshIds
<1>6. HitsRight' BY DEF HitsRight, ListsRight, FreshIds
<1>7. PartialsRight' BY DEF PartialsRight, StoresRight, UploadsRight, FreshIds
<1>8. AvailableIsBacked' BY DEF AvailableIsBacked, StoresRight, UploadsRight, HitsRight,
      PurgeSparesRows, ListsRight, RowsRight
<1>9. PurgeSparesRows' BY DEF PurgeSparesRows, ListsRight, FreshIds, RowsRight
<1>10. DownloadsWhole' BY DEF DownloadsWhole, PartialsRight, ListsRight, RowsRight
<1>11. ObjectsAccounted' BY DEF ObjectsAccounted, HitsRight, ListsRight, FreshIds, UploadsRight
<1>12. QED BY <1>1, <1>2, <1>3, <1>4, <1>5, <1>6, <1>7, <1>8, <1>9, <1>10, <1>11

\* Finalizing failed: remove the object.
LEMMA UploadUndoInv ==
  ASSUME Inv, TypeOK', NEW p \in Procs, UploadUndo(p)
  PROVE  Inv'
<1> USE DEF Inv, RequestsConsistent, TypeOK, UploadUndo, Return, Goto, Abandoned, db
<1>1. FreshIds' BY ConstantsAssumption DEF FreshIds
<1>2. RowsRight' BY DEF RowsRight
<1>3. ListsRight' BY DEF ListsRight, RowsRight, FreshIds
<1>4. UploadsRight' BY DEF UploadsRight, FreshIds
<1>5. StoresRight' BY DEF StoresRight, UploadsRight, HitsRight, FreshIds
<1>6. HitsRight' BY DEF HitsRight, ListsRight, FreshIds
<1>7. PartialsRight' BY DEF PartialsRight, StoresRight, UploadsRight, FreshIds
<1>8. AvailableIsBacked' BY DEF AvailableIsBacked, StoresRight, UploadsRight, HitsRight,
      PurgeSparesRows, ListsRight, RowsRight
<1>9. PurgeSparesRows' BY DEF PurgeSparesRows, ListsRight, FreshIds, RowsRight
<1>10. DownloadsWhole' BY DEF DownloadsWhole, PartialsRight, ListsRight, RowsRight
<1>11. ObjectsAccounted' BY DEF ObjectsAccounted, HitsRight, ListsRight, FreshIds, UploadsRight
<1>12. QED BY <1>1, <1>2, <1>3, <1>4, <1>5, <1>6, <1>7, <1>8, <1>9, <1>10, <1>11

\* A storage-first delete removes an object and notes it in hit.
LEMMA RemoveAheadInv ==
  ASSUME Inv, TypeOK', NEW p \in Procs, pc[p] \in StorageFirst, RemoveObject(p, TRUE)
  PROVE  Inv'
<1> USE DEF Inv, RequestsConsistent, TypeOK, RemoveObject, db
<1>1. FreshIds' BY DEF FreshIds
<1>2. RowsRight' BY DEF RowsRight
<1>3. ListsRight' BY DEF ListsRight, RowsRight, FreshIds
<1>4. UploadsRight' BY DEF UploadsRight, FreshIds
<1>5. StoresRight' BY DEF StoresRight, UploadsRight, HitsRight, ListsRight
<1>6. HitsRight' BY DEF HitsRight, ListsRight, FreshIds
<1>7. PartialsRight' BY DEF PartialsRight, StoresRight, UploadsRight, FreshIds
<1>8. AvailableIsBacked'
  <2>1. PICK r \in todo[p] :
          \/ /\ object' = [f \in FileIds |-> IF f = r.path THEN "none" ELSE object[f]]
             /\ hit' = [hit EXCEPT ![p] = @ \cup {r.id}]
          \/ UNCHANGED <<object, hit>>
    OBVIOUS
  <2>2. r.path = r.id BY DEF ListsRight
  <2>3. QED BY <2>1, <2>2 DEF AvailableIsBacked
<1>9. PurgeSparesRows' BY DEF PurgeSparesRows, ListsRight, FreshIds, RowsRight
<1>10. DownloadsWhole' BY DEF DownloadsWhole, PartialsRight, ListsRight, RowsRight
<1>11. ObjectsAccounted' BY DEF ObjectsAccounted, HitsRight, ListsRight, FreshIds, UploadsRight
<1>12. QED BY <1>1, <1>2, <1>3, <1>4, <1>5, <1>6, <1>7, <1>8, <1>9, <1>10, <1>11

\* A database-first delete removes an object that has no row.
LEMMA RemoveAfterInv ==
  ASSUME Inv, TypeOK', NEW p \in Procs, pc[p] \in DbFirst, RemoveObject(p, FALSE)
  PROVE  Inv'
<1> USE DEF Inv, RequestsConsistent, TypeOK, RemoveObject, db
<1>1. FreshIds' BY DEF FreshIds
<1>2. RowsRight' BY DEF RowsRight
<1>3. ListsRight' BY DEF ListsRight, RowsRight, FreshIds
<1>4. UploadsRight' BY DEF UploadsRight, FreshIds
<1>5. StoresRight' BY DEF StoresRight, PurgeSparesRows, ListsRight, UploadsRight
<1>6. HitsRight' BY DEF HitsRight, ListsRight, FreshIds
<1>7. PartialsRight' BY DEF PartialsRight, StoresRight, UploadsRight, FreshIds
<1>8. AvailableIsBacked' BY DEF AvailableIsBacked, StoresRight, UploadsRight, HitsRight,
      PurgeSparesRows, ListsRight, RowsRight
<1>9. PurgeSparesRows' BY DEF PurgeSparesRows, ListsRight, FreshIds, RowsRight
<1>10. DownloadsWhole' BY DEF DownloadsWhole, PartialsRight, ListsRight, RowsRight
<1>11. ObjectsAccounted' BY DEF ObjectsAccounted, HitsRight, ListsRight, FreshIds, UploadsRight
<1>12. QED BY <1>1, <1>2, <1>3, <1>4, <1>5, <1>6, <1>7, <1>8, <1>9, <1>10, <1>11

\* A version delete lists the files.
LEMMA DeleteVersionListInv ==
  ASSUME Inv, TypeOK', NEW p \in Procs, DeleteVersionList(p)
  PROVE  Inv'
<1> USE DEF Inv, RequestsConsistent, TypeOK, DeleteVersionList, Listing, FilesOf,
            fileObjectPath, fileStoragePath, Goto, db
<1>1. FreshIds' BY DEF FreshIds
<1>2. RowsRight' BY DEF RowsRight
<1>3. ListsRight' BY DEF ListsRight, RowsRight, FreshIds
<1>4. UploadsRight' BY DEF UploadsRight, FreshIds
<1>5. StoresRight' BY DEF StoresRight, UploadsRight, HitsRight, FreshIds
<1>6. HitsRight' BY DEF HitsRight, ListsRight, FreshIds
<1>7. PartialsRight' BY DEF PartialsRight, StoresRight, UploadsRight, FreshIds
<1>8. AvailableIsBacked' BY DEF AvailableIsBacked, StoresRight, UploadsRight, HitsRight,
      PurgeSparesRows, ListsRight, RowsRight
<1>9. PurgeSparesRows' BY DEF PurgeSparesRows, ListsRight, FreshIds, RowsRight
<1>10. DownloadsWhole' BY DEF DownloadsWhole, PartialsRight, ListsRight, RowsRight
<1>11. ObjectsAccounted' BY DEF ObjectsAccounted, HitsRight, ListsRight, FreshIds, UploadsRight
<1>12. QED BY <1>1, <1>2, <1>3, <1>4, <1>5, <1>6, <1>7, <1>8, <1>9, <1>10, <1>11

\* A bulk or artifact delete lists the files.
LEMMA ListInv ==
  ASSUME Inv, TypeOK', NEW p \in Procs, NEW F, F \subseteq Rows, NEW l \in {"bd_delete", "ad_delete"},
         l = "ad_delete" =>
           \A f \in F : verOf[f] \in target[p] \/ ArtifactOf[verOf[f]] \in target[p],
         pc[p] \in {"bd_list", "ad_list"},
         ListInTx(p, l, F)
  PROVE  Inv'
<1> USE DEF Inv, RequestsConsistent, TypeOK, ListInTx, Listing, fileObjectPath, fileStoragePath,
            Return, Goto, db
<1>1. FreshIds' BY ConstantsAssumption DEF FreshIds
<1>2. RowsRight' BY DEF RowsRight
<1>3. ListsRight' BY DEF ListsRight, RowsRight, FreshIds
<1>4. UploadsRight' BY DEF UploadsRight, FreshIds
<1>5. StoresRight' BY DEF StoresRight, UploadsRight, HitsRight, FreshIds
<1>6. HitsRight' BY DEF HitsRight, ListsRight, FreshIds
<1>7. PartialsRight' BY DEF PartialsRight, StoresRight, UploadsRight, FreshIds
<1>8. AvailableIsBacked' BY DEF AvailableIsBacked, StoresRight, UploadsRight, HitsRight,
      PurgeSparesRows, ListsRight, RowsRight
<1>9. PurgeSparesRows' BY DEF PurgeSparesRows, ListsRight, FreshIds, RowsRight
<1>10. DownloadsWhole' BY DEF DownloadsWhole, PartialsRight, ListsRight, RowsRight
<1>11. ObjectsAccounted'
  <2> SUFFICES ASSUME NEW f \in FileIds, object'[f] # "none", f \notin Rows'
               PROVE  f \in leaked' \/ \E q \in Procs : Claims(q, f)'
    BY DEF ObjectsAccounted
  <2>1. ASSUME NEW q \in Procs, q # p PROVE Claims(q, f)' <=> Claims(q, f)
    BY <2>1
  <2>2. ~Claims(p, f) OBVIOUS
  <2>3. QED BY <2>1, <2>2 DEF ObjectsAccounted
<1>12. QED BY <1>1, <1>2, <1>3, <1>4, <1>5, <1>6, <1>7, <1>8, <1>9, <1>10, <1>11

\* A request ends, or dies, and leaves what it abandons on record.
LEMMA StopInv ==
  ASSUME Inv, TypeOK', NEW p \in Procs, Return(p), UNCHANGED <<db, object>>,
         leaked \cup Abandoned(p) \subseteq leaked', damaged \cup hit[p] \subseteq damaged'
  PROVE  Inv'
<1> USE DEF Inv, RequestsConsistent, TypeOK, Return, Goto, Abandoned, db
<1>1. FreshIds' BY ConstantsAssumption DEF FreshIds
<1>2. RowsRight' BY DEF RowsRight
<1>3. ListsRight' BY DEF ListsRight, RowsRight, FreshIds
<1>4. UploadsRight' BY DEF UploadsRight, FreshIds
<1>5. StoresRight' BY DEF StoresRight, UploadsRight, HitsRight, FreshIds
<1>6. HitsRight' BY DEF HitsRight, ListsRight, FreshIds
<1>7. PartialsRight' BY DEF PartialsRight, StoresRight, UploadsRight, FreshIds
<1>8. AvailableIsBacked' BY DEF AvailableIsBacked, StoresRight, UploadsRight, HitsRight,
      PurgeSparesRows, ListsRight, RowsRight
<1>9. PurgeSparesRows' BY DEF PurgeSparesRows, ListsRight, FreshIds, RowsRight
<1>10. DownloadsWhole' BY DEF DownloadsWhole, PartialsRight, ListsRight, RowsRight
<1>11. ObjectsAccounted'
  <2> SUFFICES ASSUME NEW f \in FileIds, object'[f] # "none", f \notin Rows'
               PROVE  f \in leaked' \/ \E q \in Procs : Claims(q, f)'
    BY DEF ObjectsAccounted
  <2>1. ASSUME NEW q \in Procs, q # p PROVE Claims(q, f)' <=> Claims(q, f)
    BY <2>1
  <2>2. CASE Claims(p, f) /\ f \notin Rows
    <3>1. f \in Abandoned(p) BY <2>2 DEF ListsRight
    <3>2. QED BY <3>1
  <2>3. CASE ~Claims(p, f)
    BY <2>1, <2>3 DEF ObjectsAccounted
  <2>4. QED BY <2>2, <2>3
<1>12. QED BY <1>1, <1>2, <1>3, <1>4, <1>5, <1>6, <1>7, <1>8, <1>9, <1>10, <1>11

\* Rows go and the request ends.
LEMMA DropAndStopInv ==
  ASSUME Inv, TypeOK', NEW p \in Procs, NEW F, Drops(F), RowsRight',
         pc[p] \notin UploadPcs, pc[p] \in StorageFirst \cup DbFirst => todo[p] = {},
         hit[p] \cap Rows \subseteq F,
         leaked \cup Forgotten(F, hit[p]) \subseteq leaked',
         Return(p), UNCHANGED <<object, damaged>>
  PROVE  Inv'
<1> USE DEF Inv, RequestsConsistent, TypeOK, Drops, Forgotten, Return, Goto
<1>1. FreshIds' BY ConstantsAssumption DEF FreshIds
<1>2. RowsRight' OBVIOUS
<1>3. ListsRight' BY DEF ListsRight, RowsRight, FreshIds
<1>4. UploadsRight' BY DEF UploadsRight, FreshIds
<1>5. StoresRight' BY DEF StoresRight, UploadsRight, HitsRight, FreshIds
<1>6. HitsRight' BY DEF HitsRight, ListsRight, FreshIds
<1>7. PartialsRight' BY DEF PartialsRight, StoresRight, UploadsRight, FreshIds
<1>8. AvailableIsBacked' BY DEF AvailableIsBacked, StoresRight, UploadsRight, HitsRight,
      PurgeSparesRows, ListsRight, RowsRight
<1>9. PurgeSparesRows' BY DEF PurgeSparesRows, ListsRight, FreshIds, RowsRight
<1>10. DownloadsWhole' BY DEF DownloadsWhole, PartialsRight, ListsRight, RowsRight
<1>11. ObjectsAccounted'
  <2> SUFFICES ASSUME NEW f \in FileIds, object'[f] # "none", f \notin Rows'
               PROVE  f \in leaked' \/ \E q \in Procs : Claims(q, f)'
    BY DEF ObjectsAccounted
  <2>1. ASSUME NEW q \in Procs, q # p PROVE Claims(q, f)' <=> Claims(q, f)
    BY <2>1
  <2>2. ~Claims(p, f) OBVIOUS
  <2>3. CASE f \in F
    <3>1. f \notin hit[p] BY DEF HitsRight
    <3>2. CASE Uploading(f) BY <2>1, <2>2, <3>2
    <3>3. QED BY <2>3, <3>1, <3>2
  <2>4. CASE f \notin F
    BY <2>1, <2>2, <2>4 DEF ObjectsAccounted
  <2>5. QED BY <2>3, <2>4
<1>12. QED BY <1>1, <1>2, <1>3, <1>4, <1>5, <1>6, <1>7, <1>8, <1>9, <1>10, <1>11

\* Rows go and the request turns to their objects.
LEMMA DropAndPurgeInv ==
  ASSUME Inv, TypeOK', NEW p \in Procs, NEW F, Drops(F), RowsRight',
         NEW l \in DbFirst, pc[p] \in {"bd_delete", "ad_delete", "idle"}, NEW L,
         \A r \in L : r.path = r.id /\ r.id \in FileIds \ Rows' /\ status[r.id] # "NEW",
         leaked \cup Forgotten(F, Ids(L)) \subseteq leaked',
         Goto(p, l), todo' = [todo EXCEPT ![p] = L],
         UNCHANGED <<target, fid, hit, object, damaged>>
  PROVE  Inv'
<1> USE DEF Inv, RequestsConsistent, TypeOK, Drops, Forgotten, Goto
<1>1. FreshIds' BY DEF FreshIds
<1>2. RowsRight' OBVIOUS
<1>3. ListsRight' BY DEF ListsRight, RowsRight, FreshIds
<1>4. UploadsRight' BY DEF UploadsRight, FreshIds
<1>5. StoresRight' BY DEF StoresRight, UploadsRight, HitsRight, FreshIds
<1>6. HitsRight' BY DEF HitsRight, ListsRight, FreshIds
<1>7. PartialsRight' BY DEF PartialsRight, StoresRight, UploadsRight, FreshIds
<1>8. AvailableIsBacked' BY DEF AvailableIsBacked, StoresRight, UploadsRight, HitsRight,
      PurgeSparesRows, ListsRight, RowsRight
<1>9. PurgeSparesRows' BY DEF PurgeSparesRows, ListsRight, FreshIds, RowsRight
<1>10. DownloadsWhole' BY DEF DownloadsWhole, PartialsRight, ListsRight, RowsRight
<1>11. ObjectsAccounted'
  <2> SUFFICES ASSUME NEW f \in FileIds, object'[f] # "none", f \notin Rows'
               PROVE  f \in leaked' \/ \E q \in Procs : Claims(q, f)'
    BY DEF ObjectsAccounted
  <2>1. ASSUME NEW q \in Procs, q # p PROVE Claims(q, f)' <=> Claims(q, f)
    BY <2>1
  <2>2. ~Claims(p, f) OBVIOUS
  <2>3. CASE f \in F
    <3>1. CASE f \in Ids(L)
      <4>1. f \in PathsIn(todo'[p]) BY <3>1
      <4>2. pc'[p] \in DbFirst OBVIOUS
      <4>3. QED BY <4>1, <4>2
    <3>2. CASE Uploading(f) BY <2>1, <2>2, <3>2
    <3>3. QED BY <2>3, <3>1, <3>2
  <2>4. CASE f \notin F
    BY <2>1, <2>2, <2>4 DEF ObjectsAccounted
  <2>5. QED BY <2>3, <2>4
<1>12. QED BY <1>1, <1>2, <1>3, <1>4, <1>5, <1>6, <1>7, <1>8, <1>9, <1>10, <1>11

-----------------------------------------------------------------------------
(* Every step keeps the inductive invariant                                 *)

LEMMA InvInit == Init => Inv
<1> SUFFICES ASSUME Init PROVE Inv
  OBVIOUS
<1>1. TypeOK BY TypeInit
<1>2. RequestsConsistent
  BY ConstantsAssumption
     DEF Init, RequestsConsistent, FreshIds, RowsRight, ListsRight, UploadsRight,
         StoresRight, HitsRight, PartialsRight
<1>3. AvailableIsBacked /\ PurgeSparesRows /\ DownloadsWhole /\ ObjectsAccounted
  BY DEF Init, AvailableIsBacked, PurgeSparesRows, DownloadsWhole, ObjectsAccounted
<1>4. QED BY <1>1, <1>2, <1>3 DEF Inv

LEMMA StutterInv == Inv /\ UNCHANGED vars => Inv'
<1> SUFFICES ASSUME Inv, UNCHANGED vars PROVE Inv'
  OBVIOUS
<1>1. TypeOK' BY DEF Inv, TypeOK, vars
<1>2. RequestsConsistent'
  BY DEF Inv, vars, RequestsConsistent, FreshIds, RowsRight, ListsRight, UploadsRight,
         StoresRight, HitsRight, PartialsRight
<1>3. (AvailableIsBacked /\ PurgeSparesRows /\ DownloadsWhole /\ ObjectsAccounted)'
  BY DEF Inv, vars, AvailableIsBacked, PurgeSparesRows, DownloadsWhole, ObjectsAccounted
<1>4. QED BY <1>1, <1>2, <1>3 DEF Inv

LEMMA StartInv ==
  ASSUME Inv, TypeOK', NEW p \in Procs, Start(p)
  PROVE  Inv'
<1> DEFINE Entry == {"up_insert", "vd_list", "bd_list", "ad_list", "sw_delete"}
<1>1. ASSUME NEW op, NEW T, NEW l \in Entry, Resolve(p, op, l, T) PROVE Inv'
  BY <1>1, ResolveInv
<1>2. ASSUME NEW f \in FileIds, DownloadStart(p, f) PROVE Inv'
  BY <1>2, DownloadStartInv
<1>3. ASSUME NEW f \in FileIds, DeleteFileStart(p, f) PROVE Inv'
  BY <1>3, DeleteFileStartInv
<1>4. ASSUME NEW v \in Versions, UploadStart(p, v) \/ DeleteVersionStart(p, v) PROVE Inv'
  BY <1>1, <1>4 DEF UploadStart, DeleteVersionStart
<1>5. ASSUME NEW C \in SUBSET Versions,
             BulkDeleteStart(p, C) \/ DeleteVersionsWithoutFiles(p, C)
      PROVE  Inv'
  BY <1>1, <1>5 DEF BulkDeleteStart, DeleteVersionsWithoutFiles
<1>6. ASSUME NEW a \in Artifacts, DeleteArtifactStart(p, a) PROVE Inv'
  BY <1>1, <1>6 DEF DeleteArtifactStart
<1>7. ASSUME NEW A \in SUBSET Artifacts,
             DeleteEmptyArtifacts(p, A) \/ DeleteArtifactsWithoutFiles(p, A)
      PROVE  Inv'
  BY <1>1, <1>7 DEF DeleteEmptyArtifacts, DeleteArtifactsWithoutFiles
<1>8. ASSUME NEW F \in SUBSET FileIds, DeleteIncompleteFiles(p, F) PROVE Inv'
  <2>1. /\ Drops(F) /\ F \subseteq Rows
        /\ RowsRight'
    <3>1. F \in SUBSET Rows /\ DeleteFileRows(F) /\ UNCHANGED vstate
      BY <1>8 DEF DeleteIncompleteFiles, Incomplete
    <3>2. QED BY <3>1, DropFiles, DropKeepsRowsRight DEF Inv, RequestsConsistent
  <2>2. UNCHANGED <<object, damaged>> /\ pc[p] = "idle"
    BY <1>8 DEF DeleteIncompleteFiles
  <2>3. CASE /\ Goto(p, "in_purge")
             /\ todo' = [todo EXCEPT ![p] =
                  {[id |-> f, path |-> fileStoragePath(f), ver |-> verOf[f]] : f \in F}]
             /\ UNCHANGED <<target, fid, hit, leaked, faults>>
    <3> DEFINE L == {[id |-> f, path |-> f, ver |-> verOf[f]] : f \in F}
    <3>1. todo' = [todo EXCEPT ![p] = L] BY <2>3 DEF fileStoragePath
    <3>2. \A r \in L : r.path = r.id /\ r.id \in F OBVIOUS
    <3>3. \A r \in L : r.path = r.id /\ r.id \in FileIds \ Rows' /\ status[r.id] # "NEW"
      BY <2>1, <3>2 DEF Drops
    <3>4. Forgotten(F, Ids(L)) = {}
      <4>1. \A f \in F : [id |-> f, path |-> f, ver |-> verOf[f]] \in L OBVIOUS
      <4>2. ASSUME NEW f \in F PROVE f \in Ids(L)
        <5>1. PICK r \in L : r = [id |-> f, path |-> f, ver |-> verOf[f]] BY <4>1
        <5>2. r.id = f BY <5>1
        <5>3. QED BY <5>2
      <4>3. QED BY <4>2 DEF Forgotten
    <3>5. QED BY <2>1, <2>2, <2>3, <3>1, <3>3, <3>4, DropAndPurgeInv
  <2>4. CASE leaked' = leaked \cup Forgotten(F, {}) /\ Return(p)
    <3>1. hit[p] = {} BY <2>2 DEF Inv, RequestsConsistent, HitsRight
    <3>2. QED BY <2>1, <2>2, <2>4, <3>1, DropAndStopInv
  <2>5. QED BY <1>8, <2>3, <2>4 DEF DeleteIncompleteFiles
<1>9. QED BY <1>2, <1>3, <1>4, <1>5, <1>6, <1>7, <1>8 DEF Start

LEMMA CommitTxInv ==
  ASSUME Inv, TypeOK', NEW p \in Procs, NEW l \in DbFirst, NEW T, NEW L \in SUBSET todo[p],
         pc[p] \in {"bd_delete", "ad_delete"},
         \A r \in L : r.ver \in LiveVersions => r.ver \in Cascade(T),
         CommitTx(p, l, T, L)
  PROVE  Inv'
<1>0. PICK F : F = FilesOf(Cascade(T)) OBVIOUS
<1>1. UNCHANGED <<object, damaged>> BY DEF CommitTx
<1>2. hit[p] = {} BY DEF Inv, RequestsConsistent, HitsRight
<1>3. ASSUME DeleteRows(T) PROVE Drops(F) /\ RowsRight'
  BY <1>0, <1>3, DropRows DEF Inv, RequestsConsistent
<1>4. CASE /\ DeleteRows(T)
           /\ leaked' = leaked \cup Forgotten(F, Ids(L))
           /\ Goto(p, l)
           /\ todo' = [todo EXCEPT ![p] = L]
           /\ UNCHANGED <<target, fid, hit, faults>>
  <2>1. ASSUME NEW r \in L
        PROVE  r.path = r.id /\ r.id \in FileIds \ Rows' /\ status[r.id] # "NEW"
    <3>1. r \in todo[p] /\ r.id \in FileIds BY DEF Inv, TypeOK, Listed
    <3>2. r.path = r.id /\ (r.id \in Rows => verOf[r.id] = r.ver)
      BY <3>1 DEF Inv, RequestsConsistent, ListsRight
    <3>3. r.id \in Rows => r.id \in F
      BY <1>0, <3>1, <3>2 DEF Inv, RequestsConsistent, RowsRight, FilesOf
    <3>4. r.id \notin Rows' BY <1>3, <1>4, <3>3 DEF Drops
    <3>5. status[r.id] # "NEW" BY <3>1 DEF Inv, RequestsConsistent, FreshIds
    <3>6. QED BY <3>1, <3>2, <3>4, <3>5
  <2>2. QED BY <1>1, <1>3, <1>4, <2>1, DropAndPurgeInv
<1>5. CASE /\ DeleteRows(T)
           /\ leaked' = leaked \cup Forgotten(F, {})
           /\ Return(p)
  BY <1>1, <1>2, <1>3, <1>5, DropAndStopInv
<1>6. CASE Return(p) /\ UNCHANGED <<db, leaked>>
  <2>1. Abandoned(p) = {} BY DEF Abandoned
  <2>2. QED BY <1>1, <1>2, <1>6, <2>1, StopInv
<1>7. QED BY <1>0, <1>4, <1>5, <1>6 DEF CommitTx

LEMMA StepInv ==
  ASSUME Inv, TypeOK', NEW p \in Procs, Step(p)
  PROVE  Inv'
<1> USE DEF Inv, RequestsConsistent
<1>1. CASE UploadInsert(p)
  <2>1. PICK v \in Versions, n \in Names :
          (\E f \in FileIds : InsertRow(p, f, v, n)) \/ InsertRefused(p, v, n)
    BY <1>1 DEF UploadInsert
  <2>2. UNCHANGED <<object, leaked, damaged>> /\ pc[p] = "up_insert"
    BY <1>1 DEF UploadInsert
  <2>3. ASSUME NEW f \in FileIds, InsertRow(p, f, v, n) PROVE Inv'
    BY <2>2, <2>3, UploadInsertInv
  <2>4. CASE InsertRefused(p, v, n)
    <3>1. Return(p) /\ UNCHANGED db BY <2>4 DEF InsertRefused
    <3>2. Abandoned(p) = {} /\ hit[p] = {} BY <2>2 DEF Abandoned, HitsRight
    <3>3. QED BY <2>2, <3>1, <3>2, StopInv
  <2>5. QED BY <2>1, <2>3, <2>4
<1>2. CASE UploadStoreBegin(p) BY <1>2, UploadStoreBeginInv
<1>3. CASE UploadStoreEnd(p)   BY <1>3, UploadStoreEndInv
<1>4. CASE UploadStoreFail(p)  BY <1>4, UploadStoreFailInv
<1>5. CASE UploadMarkError(p)  BY <1>5, UploadMarkErrorInv
<1>6. CASE UploadFinalize(p)   BY <1>6, UploadFinalizeInv
<1>7. CASE UploadMarkUndo(p)   BY <1>7, UploadMarkUndoInv
<1>8. CASE UploadUndo(p)       BY <1>8, UploadUndoInv
<1>9. CASE DownloadRetrieve(p)
  <2>1. Return(p) /\ UNCHANGED <<db, object, leaked, damaged>>
    BY <1>9 DEF DownloadRetrieve, ghosts
  <2>2. Abandoned(p) = {} /\ hit[p] = {}
    BY <1>9 DEF DownloadRetrieve, Abandoned, HitsRight
  <2>3. QED BY <2>1, <2>2, StopInv
<1>10. CASE DeleteFileObject(p) \/ DeleteVersionObject(p)
  BY <1>10, RemoveAheadInv DEF DeleteFileObject, DeleteVersionObject
<1>11. CASE DeleteFileRow(p)
  <2>1. pc[p] = "fd_purge" /\ todo[p] = {} /\ Return(p) /\ UNCHANGED object
    BY <1>11 DEF DeleteFileRow
  <2>2. CASE /\ DeleteFileRows({fid[p]} \cap Rows)
             /\ leaked' = leaked \cup Forgotten({fid[p]} \cap Rows, hit[p])
             /\ UNCHANGED <<astate, vstate, saved, damaged, faults>>
    <3>1. PICK F \in SUBSET Rows : F = {fid[p]} \cap Rows OBVIOUS
    <3>2. Drops(F) BY <2>2, <3>1, DropFiles
    <3>3. RowsRight' BY <2>2, <3>2, DropKeepsRowsRight
    <3>4. hit[p] \cap Rows \subseteq F BY <2>1, <3>1 DEF HitsRight
    <3>5. leaked \cup Forgotten(F, hit[p]) \subseteq leaked' BY <2>2, <3>1
    <3>6. QED BY <2>1, <2>2, <3>2, <3>3, <3>4, <3>5, DropAndStopInv
  <2>3. CASE damaged' = damaged \cup hit[p] /\ UNCHANGED <<db, leaked>>
    <3>1. Abandoned(p) = {} BY <2>1 DEF Abandoned
    <3>2. QED BY <2>1, <2>3, <3>1, StopInv
  <2>4. QED BY <1>11, <2>2, <2>3 DEF DeleteFileRow
<1>12. CASE DeleteVersionList(p) BY <1>12, DeleteVersionListInv
<1>13. CASE DeleteVersionRow(p)
  <2>1. pc[p] = "vd_purge" /\ todo[p] = {} /\ Return(p) /\ UNCHANGED object
    BY <1>13 DEF DeleteVersionRow
  <2>2. CASE /\ DeleteRows(target[p])
             /\ leaked' = leaked \cup Forgotten(FilesOf(Cascade(target[p])), hit[p])
             /\ UNCHANGED <<damaged, faults>>
    <3>1. PICK T, F : T = target[p] /\ DeleteRows(T) /\ F = FilesOf(Cascade(T)) BY <2>2
    <3>2. Drops(F) /\ RowsRight' BY <3>1, DropRows
    <3>3. hit[p] \cap Rows \subseteq F
      BY <2>1, <3>1 DEF HitsRight, RowsRight, FilesOf, Cascade
    <3>4. leaked \cup Forgotten(F, hit[p]) \subseteq leaked' BY <2>2, <3>1
    <3>5. QED BY <2>1, <2>2, <3>2, <3>3, <3>4, DropAndStopInv
  <2>3. CASE damaged' = damaged \cup hit[p] /\ UNCHANGED <<db, leaked>>
    <3>1. Abandoned(p) = {} BY <2>1 DEF Abandoned
    <3>2. QED BY <2>1, <2>3, <3>1, StopInv
  <2>4. QED BY <1>13, <2>2, <2>3 DEF DeleteVersionRow
<1>14. CASE BulkDeleteList(p)
  BY <1>14, ListInv DEF BulkDeleteList, FilesOf
<1>15. CASE DeleteArtifactList(p)
  <2>1. PICK F : F = FilesOf(Cascade(target[p])) OBVIOUS
  <2>2. F \subseteq Rows BY <2>1 DEF FilesOf
  <2>3. \A f \in F : verOf[f] \in target[p] \/ ArtifactOf[verOf[f]] \in target[p]
    BY <2>1 DEF FilesOf, Cascade
  <2>4. QED BY <1>15, <2>1, <2>2, <2>3, ListInv DEF DeleteArtifactList
<1>16. CASE BulkDeleteCommit(p)
  <2> DEFINE T == Unprotected(target[p])
             L == Purgeable(todo[p], T)
  <2>1. pc[p] = "bd_delete" /\ CommitTx(p, "bd_purge", T, L) BY <1>16 DEF BulkDeleteCommit
  <2>2. L \in SUBSET todo[p] BY DEF Purgeable
  <2>3. \A r \in L : r.ver \in LiveVersions => r.ver \in Cascade(T)
    BY DEF Purgeable, Cascade
  <2>4. QED BY <2>1, <2>2, <2>3, CommitTxInv
<1>17. CASE DeleteArtifactCommit(p)
  <2>1. pc[p] = "ad_delete" /\ CommitTx(p, "ad_purge", target[p], todo[p])
    BY <1>17 DEF DeleteArtifactCommit
  <2>2. \A r \in todo[p] : r.ver \in LiveVersions => r.ver \in Cascade(target[p])
    BY <2>1 DEF ListsRight, Cascade
  <2>3. QED BY <2>1, <2>2, CommitTxInv
<1>18. CASE BulkDeletePurge(p) \/ DeleteArtifactPurge(p) \/ DeleteIncompletePurge(p)
  <2>1. pc[p] \in DbFirst /\ Purge(p)
    BY <1>18 DEF BulkDeletePurge, DeleteArtifactPurge, DeleteIncompletePurge
  <2>2. CASE RemoveObject(p, FALSE) BY <2>1, <2>2, RemoveAfterInv
  <2>3. CASE todo[p] = {} /\ Return(p) /\ UNCHANGED <<db, object, ghosts>>
    <3>1. Abandoned(p) = {} /\ hit[p] = {} BY <2>1, <2>3 DEF Abandoned, HitsRight
    <3>2. QED BY <2>3, <3>1, StopInv DEF ghosts
  <2>4. QED BY <2>1, <2>2, <2>3 DEF Purge
<1>19. CASE SweepCommit(p)
  <2>1. pc[p] = "sw_delete" /\ Return(p) /\ UNCHANGED <<object, damaged>>
    BY <1>19 DEF SweepCommit
  <2>2. Abandoned(p) = {} /\ hit[p] = {} BY <2>1 DEF Abandoned, HitsRight
  <2>3. CASE /\ DeleteRows(target[p])
             /\ leaked' = leaked \cup Forgotten(FilesOf(Cascade(target[p])), {})
    <3>1. PICK T, F : T = target[p] /\ DeleteRows(T) /\ F = FilesOf(Cascade(T)) BY <2>3
    <3>2. Drops(F) /\ RowsRight' BY <3>1, DropRows
    <3>3. leaked \cup Forgotten(F, hit[p]) \subseteq leaked' BY <2>2, <2>3, <3>1
    <3>4. QED BY <2>1, <2>2, <3>2, <3>3, DropAndStopInv
  <2>4. CASE UNCHANGED <<db, leaked>> BY <2>1, <2>2, <2>4, StopInv
  <2>5. QED BY <1>19, <2>3, <2>4 DEF SweepCommit
<1>20. QED
  BY <1>1, <1>2, <1>3, <1>4, <1>5, <1>6, <1>7, <1>8, <1>9, <1>10, <1>11, <1>12,
     <1>13, <1>14, <1>15, <1>16, <1>17, <1>18, <1>19 DEF Step

LEMMA InvStep == Inv /\ [Next]_vars => Inv'
<1> SUFFICES ASSUME Inv, [Next]_vars PROVE Inv'
  OBVIOUS
<1>1. TypeOK' BY TypeStep DEF Inv
<1>2. CASE UNCHANGED vars BY <1>2, StutterInv
<1>3. ASSUME NEW a \in Artifacts, CreateArtifact(a) PROVE Inv' BY <1>1, <1>3, CreateArtifactInv
<1>4. ASSUME NEW v \in Versions, CreateVersion(v) PROVE Inv' BY <1>1, <1>4, CreateVersionInv
<1>5. ASSUME NEW v \in Versions, PutTag(v) \/ DeleteTag(v) PROVE Inv' BY <1>1, <1>5, TagInv
<1>6. ASSUME NEW p \in Procs, Start(p) PROVE Inv' BY <1>1, <1>6, StartInv
<1>7. ASSUME NEW p \in Procs, Step(p) PROVE Inv' BY <1>1, <1>7, StepInv
<1>8. ASSUME NEW p \in Procs, Crash(p) PROVE Inv' BY <1>1, <1>8, StopInv DEF Crash
<1>9. CASE Quiet BY <1>2, <1>9 DEF Quiet
<1>10. QED BY <1>2, <1>3, <1>4, <1>5, <1>6, <1>7, <1>8, <1>9 DEF Next

\* The inductive invariant holds in every reachable state, for every value of the
\* constants: the properties below are its conjuncts.
THEOREM Invariance == Spec => []Inv
BY InvInit, InvStep, PTL DEF Spec

\* Upload finalizes a row only after Store returned, and the deletes that take the
\* rows first never touch the object of a row: for any number of requests and
\* faults an AVAILABLE row lacks its object only by the causes named in the property.
THEOREM RowsAreBacked == Spec => []AvailableIsBacked
BY Invariance, PTL DEF Inv

\* The objects that bulkDelete, artifact Delete and DeleteIncompleteFiles remove
\* after their COMMIT belong to rows that are gone for good.
THEOREM PurgesAreSafe == Spec => []PurgeSparesRows
BY Invariance, PTL DEF Inv

\* An object without a row is on some request's list, or one of the causes kept in
\* leaked left it there.
THEOREM OrphansHaveCauses == Spec => []ObjectsAccounted
BY Invariance, PTL DEF Inv

\* Download never opens an object that an upload is still writing.
THEOREM DownloadsAreWhole == Spec => []DownloadsWhole
BY Invariance, PTL DEF Inv

\* What a request remembers of its rows and objects, from the answer it read to
\* the step that uses it, stays true whatever the other requests do.
THEOREM RequestsStayConsistent == Spec => []RequestsConsistent
BY Invariance, PTL DEF Inv

-----------------------------------------------------------------------------
(* The life of a file record                                                *)

\* What one step does to the status column, in the words of FileLifecycle.
StatusStep ==
  \/ status' = status
  \/ \E f \in FileIds : status[f] = "NEW" /\ status' = [status EXCEPT ![f] = "PENDING"]
  \/ \E f \in FileIds : status[f] = "PENDING" /\ status' = [status EXCEPT ![f] = "AVAILABLE"]
  \/ \E f \in FileIds : /\ status[f] \in {"PENDING", "AVAILABLE"}
                        /\ status' = [status EXCEPT ![f] = "ERROR"]
  \/ \E F \in SUBSET Rows : status' = [f \in FileIds |-> IF f \in F THEN "GONE" ELSE status[f]]

LEMMA SetErrorStep ==
  ASSUME TypeOK, NEW f \in FileIds, SetStatus(f, "ERROR")
  PROVE  StatusStep
<1>1. CASE f \in Rows /\ status[f] # "ERROR"
  BY <1>1 DEF StatusStep, SetStatus, TypeOK
<1>2. CASE ~(f \in Rows /\ status[f] # "ERROR")
  <2>1. status' = status BY <1>2 DEF SetStatus, TypeOK
  <2>2. QED BY <2>1 DEF StatusStep
<1>3. QED BY <1>1, <1>2

LEMMA DeleteRowsStep ==
  ASSUME NEW T, DeleteRows(T)
  PROVE  StatusStep
BY DEF DeleteRows, DeleteFileRows, FilesOf, StatusStep

LEMMA StepStatus ==
  ASSUME Inv, NEW p \in Procs, Step(p)
  PROVE  StatusStep
<1> USE DEF Inv, RequestsConsistent
<1>1. CASE UploadInsert(p)
  BY <1>1 DEF UploadInsert, InsertRow, InsertRefused, StatusStep, db
<1>2. CASE UploadStoreBegin(p) \/ UploadStoreEnd(p) \/ UploadStoreFail(p)
  BY <1>2 DEF UploadStoreBegin, UploadStoreEnd, UploadStoreFail, StatusStep, db
<1>3. CASE UploadMarkError(p)
  <2>1. fid[p] \in FileIds BY <1>3 DEF UploadMarkError, UploadsRight
  <2>2. CASE SetStatus(fid[p], "ERROR")
    <3>1. PICK f \in FileIds : SetStatus(f, "ERROR") BY <2>1, <2>2
    <3>2. QED BY <3>1, SetErrorStep
  <2>3. CASE UNCHANGED db BY <2>3 DEF StatusStep, db
  <2>4. QED BY <1>3, <2>2, <2>3 DEF UploadMarkError
<1>4. CASE UploadFinalize(p)
  <2>1. fid[p] \in FileIds /\ status[fid[p]] \in {"PENDING", "GONE"}
    BY <1>4 DEF UploadFinalize, UploadsRight
  <2>2. CASE FinalizeRow(fid[p])
    BY <2>1, <2>2 DEF FinalizeRow, StatusStep
  <2>3. CASE UNCHANGED db BY <2>3 DEF StatusStep, db
  <2>4. QED BY <1>4, <2>2, <2>3 DEF UploadFinalize
<1>5. CASE UploadMarkUndo(p)
  <2>1. fid[p] \in FileIds BY <1>5 DEF UploadMarkUndo, UploadsRight
  <2>2. CASE SetStatus(fid[p], "ERROR")
    <3>1. PICK f \in FileIds : SetStatus(f, "ERROR") BY <2>1, <2>2
    <3>2. QED BY <3>1, SetErrorStep
  <2>3. CASE UNCHANGED db BY <2>3 DEF StatusStep, db
  <2>4. QED BY <1>5, <2>2, <2>3 DEF UploadMarkUndo
<1>6. CASE UploadUndo(p) \/ DownloadRetrieve(p)
  BY <1>6 DEF UploadUndo, DownloadRetrieve, StatusStep, db
<1>7. CASE DeleteFileObject(p) \/ DeleteVersionObject(p) \/ DeleteVersionList(p)
  BY <1>7 DEF DeleteFileObject, DeleteVersionObject, DeleteVersionList, RemoveObject,
              StatusStep, db
<1>8. CASE DeleteFileRow(p)
  <2>1. CASE DeleteFileRows({fid[p]} \cap Rows)
    <3>1. PICK F \in SUBSET Rows : F = {fid[p]} \cap Rows OBVIOUS
    <3>2. status' = [f \in FileIds |-> IF f \in F THEN "GONE" ELSE status[f]]
      BY <2>1, <3>1 DEF DeleteFileRows
    <3>3. QED BY <3>2 DEF StatusStep
  <2>2. CASE UNCHANGED db BY <2>2 DEF StatusStep, db
  <2>3. QED BY <1>8, <2>1, <2>2 DEF DeleteFileRow
<1>9. CASE DeleteVersionRow(p) \/ SweepCommit(p)
  <2>1. CASE DeleteRows(target[p])
    <3>1. PICK T : DeleteRows(T) BY <2>1
    <3>2. QED BY <3>1, DeleteRowsStep
  <2>2. CASE UNCHANGED db BY <2>2 DEF StatusStep, db
  <2>3. QED BY <1>9, <2>1, <2>2 DEF DeleteVersionRow, SweepCommit
<1>10. CASE BulkDeleteList(p) \/ DeleteArtifactList(p)
  BY <1>10 DEF BulkDeleteList, DeleteArtifactList, ListInTx, StatusStep, db
<1>11. CASE BulkDeleteCommit(p) \/ DeleteArtifactCommit(p)
  <2>1. PICK l, T, L : CommitTx(p, l, T, L)
    BY <1>11 DEF BulkDeleteCommit, DeleteArtifactCommit
  <2>2. CASE DeleteRows(T) BY <2>2, DeleteRowsStep
  <2>3. CASE UNCHANGED db BY <2>3 DEF StatusStep, db
  <2>4. QED BY <2>1, <2>2, <2>3 DEF CommitTx
<1>12. CASE BulkDeletePurge(p) \/ DeleteArtifactPurge(p) \/ DeleteIncompletePurge(p)
  BY <1>12 DEF BulkDeletePurge, DeleteArtifactPurge, DeleteIncompletePurge, Purge,
               RemoveObject, StatusStep, db
<1>13. QED
  BY <1>1, <1>2, <1>3, <1>4, <1>5, <1>6, <1>7, <1>8, <1>9, <1>10, <1>11, <1>12 DEF Step

LEMMA NextStatus == Inv /\ [Next]_vars => StatusStep
<1> SUFFICES ASSUME Inv, [Next]_vars PROVE StatusStep
  OBVIOUS
<1>1. CASE UNCHANGED vars BY <1>1 DEF vars, StatusStep
<1>2. ASSUME NEW a \in Artifacts, CreateArtifact(a) PROVE StatusStep
  BY <1>2 DEF CreateArtifact, StatusStep
<1>3. ASSUME NEW v \in Versions, CreateVersion(v) \/ PutTag(v) \/ DeleteTag(v) PROVE StatusStep
  BY <1>3 DEF CreateVersion, PutTag, DeleteTag, StatusStep
<1>4. ASSUME NEW p \in Procs, Start(p) PROVE StatusStep
  <2>1. ASSUME NEW F \in SUBSET FileIds, DeleteIncompleteFiles(p, F) PROVE StatusStep
    BY <2>1 DEF DeleteIncompleteFiles, DeleteFileRows, Incomplete, StatusStep
  <2>2. CASE UNCHANGED db BY <2>2 DEF StatusStep, db
  <2>3. QED
    BY <1>4, <2>1, <2>2
    DEF Start, Resolve, ReadRow, UploadStart, DeleteVersionStart, DownloadStart,
        DeleteFileStart, BulkDeleteStart, DeleteVersionsWithoutFiles, DeleteArtifactStart,
        DeleteEmptyArtifacts, DeleteArtifactsWithoutFiles
<1>5. ASSUME NEW p \in Procs, Step(p) PROVE StatusStep BY <1>5, StepStatus
<1>6. ASSUME NEW p \in Procs, Crash(p) PROVE StatusStep BY <1>6 DEF Crash, StatusStep, db
<1>7. CASE Quiet BY <1>1, <1>7 DEF Quiet
<1>8. QED BY <1>1, <1>2, <1>3, <1>4, <1>5, <1>6, <1>7 DEF Next

lifeFn == [f \in FileIds |-> lifeOf[status[f]]]

LEMMA LifeStep == TypeOK /\ TypeOK' /\ StatusStep => [Life!Next]_lifeFn
<1> SUFFICES ASSUME TypeOK, TypeOK', StatusStep PROVE Life!Next \/ lifeFn' = lifeFn
  OBVIOUS
<1> USE DEF lifeFn
<1>1. CASE status' = status BY <1>1
<1>2. ASSUME NEW f \in FileIds, status[f] = "NEW", status' = [status EXCEPT ![f] = "PENDING"]
      PROVE  Life!Reserve(f)
  <2>1. \A g \in FileIds : status'[g] = IF g = f THEN status'[f] ELSE status[g]
    BY <1>2 DEF TypeOK
  <2>2. lifeOf[status'[f]] = "reserved" BY <1>2 DEF lifeOf, TypeOK
  <2>3. [g \in FileIds |-> lifeOf[status'[g]]] =
          [[g \in FileIds |-> lifeOf[status[g]]] EXCEPT ![f] = "reserved"]
    BY <2>1, <2>2
  <2>4. QED BY <1>2, <2>3 DEF Life!Reserve, lifeOf
<1>3. ASSUME NEW f \in FileIds, status[f] = "PENDING", status' = [status EXCEPT ![f] = "AVAILABLE"]
      PROVE  Life!Publish(f)
  <2>1. \A g \in FileIds : status'[g] = IF g = f THEN status'[f] ELSE status[g]
    BY <1>3 DEF TypeOK
  <2>2. lifeOf[status'[f]] = "published" BY <1>3 DEF lifeOf, TypeOK
  <2>3. [g \in FileIds |-> lifeOf[status'[g]]] =
          [[g \in FileIds |-> lifeOf[status[g]]] EXCEPT ![f] = "published"]
    BY <2>1, <2>2
  <2>4. QED BY <1>3, <2>3 DEF Life!Publish, lifeOf
<1>4. ASSUME NEW f \in FileIds, status[f] \in {"PENDING", "AVAILABLE"},
             status' = [status EXCEPT ![f] = "ERROR"]
      PROVE  Life!Fail(f)
  <2>1. \A g \in FileIds : status'[g] = IF g = f THEN status'[f] ELSE status[g]
    BY <1>4 DEF TypeOK
  <2>2. lifeOf[status'[f]] = "failed" BY <1>4 DEF lifeOf, TypeOK
  <2>3. [g \in FileIds |-> lifeOf[status'[g]]] =
          [[g \in FileIds |-> lifeOf[status[g]]] EXCEPT ![f] = "failed"]
    BY <2>1, <2>2
  <2>4. QED BY <1>4, <2>3 DEF Life!Fail, lifeOf
<1>5. ASSUME NEW F \in SUBSET Rows,
             status' = [f \in FileIds |-> IF f \in F THEN "GONE" ELSE status[f]]
      PROVE  Life!Delete(F)
  BY <1>5 DEF Life!Delete, lifeOf, TypeOK
<1>6. QED
  BY <1>1, <1>2, <1>3, <1>4, <1>5 DEF StatusStep, Life!Next

\* The registry implements FileLifecycle: a file record's status column only ever
\* moves the way that specification allows, for every number of requests, files,
\* versions and faults.
THEOREM Refinement == Spec => LifecycleKept
<1>1. Init => Life!Init BY DEF Init, Life!Init, lifeOf
<1>2. Inv /\ Inv' /\ [Next]_vars => [Life!Next]_lifeFn
  BY NextStatus, LifeStep DEF Inv
<1>3. QED BY <1>1, <1>2, Invariance, PTL DEF Spec, LifecycleKept, Life!Spec, lifeFn

=============================================================================
