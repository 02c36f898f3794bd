--------------------------- MODULE RegistryFiles ---------------------------
(***************************************************************************)
(* Files of the registry: the rows PostgreSQL keeps, the objects the       *)
(* storage backend keeps, and the requests that change both.  The two      *)
(* stores share no transaction, so every handler is a sequence of calls    *)
(* that other requests, failures and crashes can come between.             *)
(*                                                                         *)
(* One step of a request is one call: a committed SQL statement (or a      *)
(* transaction's last statement with its COMMIT), or one storage call.     *)
(* Responses are left out; what a handler does after an error is not.      *)
(*                                                                         *)
(* Operators named X_something are seeded bugs of X: variants of the code  *)
(* that the properties at the end must reject.  Nothing else uses them.    *)
(***************************************************************************)
EXTENDS Naturals, FiniteSets

CONSTANTS
  Procs,        \* concurrent requests, of any number of replicas
  FileIds,      \* the ids registry_artifact_file's sequence will ever draw
  Versions,     \* version ids
  Artifacts,    \* artifact ids
  ArtifactOf,   \* the artifact_id of each version
  Names,        \* file names
  Backend,      \* "FILESYSTEM" or "S3"
  Ops,          \* the requests clients send in this instance
  MaxFaults,    \* bound on failed calls and crashed requests
  Nil           \* no file record, no version, no name

Placeholder == "pending"   \* storage_path until the object is stored

OpNames == {"upload", "download", "deleteFile", "deleteVersion", "bulkDelete",
            "deleteArtifact", "deleteIncomplete", "sweep", "tag"}

ASSUME ConstantsAssumption ==
  /\ ArtifactOf \in [Versions -> Artifacts]
  /\ Versions \cap Artifacts = {}
  /\ Placeholder \notin FileIds
  /\ Nil \notin FileIds \cup Versions \cup Names
  /\ Backend \in {"FILESYSTEM", "S3"}
  /\ Ops \subseteq OpNames
  /\ MaxFaults \in Nat

VARIABLES
  astate,   \* artifact id -> "new" (never inserted), "live", "gone" (deleted)
  vstate,   \* the same for version ids
  saved,    \* live versions some tag protects from bulk deletes
  status,   \* file id -> "NEW", the row's status, or "GONE" (deleted)
  path,     \* file id -> storage_path of the row
  verOf,    \* file id -> version_id of the row
  nameOf,   \* file id -> name of the row
  object,   \* file id -> the object at fileStoragePath(id)
  pc,       \* request -> the call it makes next
  target,   \* request -> versions or artifacts it was resolved to
  fid,      \* request -> file record it inserted or read
  todo,     \* request -> listed files whose objects it has yet to remove
  hit,      \* request -> files it removed the object of before their row
  leaked,   \* files some named cause may leave an object of without a row
  damaged,  \* files some named cause may leave a row of without an object
  faults    \* failed calls and crashes so far

db     == <<astate, vstate, saved, status, path, verOf, nameOf>>
reqs   == <<pc, target, fid, todo, hit>>
ghosts == <<leaked, damaged, faults>>
vars   == <<astate, vstate, saved, status, path, verOf, nameOf, object,
            pc, target, fid, todo, hit, leaked, damaged, faults>>

RowStatus == {"PENDING", "AVAILABLE", "ERROR"}
Paths     == FileIds \cup {Placeholder}
Listed    == [id : FileIds, path : Paths, ver : Versions]

UploadPcs      == {"up_store", "up_storing", "up_finalize", "up_mark_undo", "up_undo"}
StorageFirst   == {"fd_purge", "vd_purge"}
DbFirst        == {"bd_purge", "ad_purge", "in_purge"}
Labels == UploadPcs \cup StorageFirst \cup DbFirst \cup
          {"idle", "up_insert", "up_mark", "dl_retrieve", "vd_list",
           "bd_list", "bd_delete", "ad_list", "ad_delete", "sw_delete"}

Init ==
  /\ astate = [a \in Artifacts |-> "new"]
  /\ vstate = [v \in Versions |-> "new"]
  /\ saved = {}
  /\ status = [f \in FileIds |-> "NEW"]
  /\ path = [f \in FileIds |-> Placeholder]
  /\ verOf = [f \in FileIds |-> Nil]
  /\ nameOf = [f \in FileIds |-> Nil]
  /\ object = [f \in FileIds |-> "none"]
  /\ pc = [p \in Procs |-> "idle"]
  /\ target = [p \in Procs |-> {}]
  /\ fid = [p \in Procs |-> Nil]
  /\ todo = [p \in Procs |-> {}]
  /\ hit = [p \in Procs |-> {}]
  /\ leaked = {}
  /\ damaged = {}
  /\ faults = 0

-----------------------------------------------------------------------------
(* The database: rows, cascades and listings                               *)

Rows         == {f \in FileIds : status[f] \in RowStatus}
FilesOf(V)   == {f \in Rows : verOf[f] \in V}
LiveVersions == {v \in Versions : vstate[v] = "live"}

fileStoragePath_noId(f) == nameOf[f]

\* {artifactID}/{major}/{minor}/{patch}/{fileID}/{filename}: the id in it is
\* never drawn twice, so the path is as unique as the id and stands for it.
fileStoragePath(f) == f

fileObjectPath_column(f) == path[f]

\* Where the object of a row lives: only AVAILABLE rows carry the real path.
fileObjectPath(f) ==
  IF status[f] = "AVAILABLE" THEN path[f] ELSE fileStoragePath(f)

\* What a file listing hands its caller.
Listing(F) == {[id |-> f, path |-> fileObjectPath(f), ver |-> verOf[f]] : f \in F}
Ids(L)     == {r.id : r \in L}
PathsIn(L) == {r.path : r \in L}

\* The versions that go when the versions and artifacts T are deleted.
Cascade(T) == {v \in LiveVersions : v \in T \/ ArtifactOf[v] \in T}

DeleteFileRows(F) ==
  /\ status' = [f \in FileIds |-> IF f \in F THEN "GONE" ELSE status[f]]
  /\ path'   = [f \in FileIds |-> IF f \in F THEN Placeholder ELSE path[f]]
  /\ verOf'  = [f \in FileIds |-> IF f \in F THEN Nil ELSE verOf[f]]
  /\ nameOf' = [f \in FileIds |-> IF f \in F THEN Nil ELSE nameOf[f]]

\* DELETE of versions or artifacts; ON DELETE CASCADE takes what hangs on them.
DeleteRows(T) ==
  /\ astate' = [a \in Artifacts |-> IF a \in T /\ astate[a] = "live" THEN "gone" ELSE astate[a]]
  /\ vstate' = [v \in Versions |-> IF v \in Cascade(T) THEN "gone" ELSE vstate[v]]
  /\ saved' = saved \ Cascade(T)
  /\ DeleteFileRows(FilesOf(Cascade(T)))

\* UPDATE ... SET status WHERE id: no row, no effect.
SetStatus(f, s) ==
  /\ status' = [status EXCEPT ![f] = IF f \in Rows THEN s ELSE @]
  /\ UNCHANGED <<astate, vstate, saved, path, verOf, nameOf>>

(* Requests and failures                                                   *)

Goto(p, l) == pc' = [pc EXCEPT ![p] = l]

\* A request arrives and is resolved to the versions or artifacts T.
Resolve(p, op, l, T) ==
  /\ op \in Ops
  /\ pc[p] = "idle"
  /\ Goto(p, l)
  /\ target' = [target EXCEPT ![p] = T]
  /\ UNCHANGED <<db, object, fid, todo, hit, ghosts>>

\* A request arrives and reads the row of file f.
ReadRow(p, op, l, f) ==
  /\ op \in Ops
  /\ pc[p] = "idle"
  /\ Goto(p, l)
  /\ fid' = [fid EXCEPT ![p] = f]
  /\ todo' = [todo EXCEPT ![p] = Listing({f})]
  /\ UNCHANGED <<db, object, target, hit, ghosts>>

\* The handler returns: nothing of the request survives it.
Return(p) ==
  /\ Goto(p, "idle")
  /\ target' = [target EXCEPT ![p] = {}]
  /\ fid' = [fid EXCEPT ![p] = Nil]
  /\ todo' = [todo EXCEPT ![p] = {}]
  /\ hit' = [hit EXCEPT ![p] = {}]

\* A call fails, or the process dies, within the bound on faults.
Fault == faults < MaxFaults /\ faults' = faults + 1

\* Some upload still holds record f and will remove the object if the row is gone.
Uploading(f) == \E p \in Procs : pc[p] \in UploadPcs /\ fid[p] = f

\* Of the files F whose rows go, those whose object nobody is going to remove:
\* the deleting request handles the files in L only.
Forgotten(F, L) == {f \in F : f \notin L /\ ~Uploading(f)}

\* The objects request p was going to remove and now will not.
Abandoned(p) ==
  {f \in FileIds \ Rows :
     \/ pc[p] \in UploadPcs /\ fid[p] = f
     \/ pc[p] \in StorageFirst \cup DbFirst /\ f \in Ids(todo[p])}

\* One storage.Delete of the loop over the listed files; its error is ignored.
\* A handler that removes objects ahead of the rows is noted in hit.
RemoveObject(p, ahead) ==
  \E r \in todo[p] :
    /\ todo' = [todo EXCEPT ![p] = @ \ {r}]
    /\ \/ /\ object' = [f \in FileIds |-> IF f = r.path THEN "none" ELSE object[f]]
          /\ hit' = [hit EXCEPT ![p] = IF ahead THEN @ \cup {r.id} ELSE @]
          /\ UNCHANGED <<leaked, faults>>
       \/ /\ Fault
          /\ leaked' = leaked \cup ({r.id} \ Rows)
          /\ UNCHANGED <<object, hit>>
    /\ UNCHANGED <<db, pc, target, fid, damaged>>

\* The loop over the listed files after the rows are gone, to the response.
Purge(p) ==
  \/ RemoveObject(p, FALSE)
  \/ /\ todo[p] = {}
     /\ Return(p)
     /\ UNCHANGED <<db, object, ghosts>>

-----------------------------------------------------------------------------
(* Artifacts, versions and the tags that protect them.  Each is one         *)
(* committed transaction here; their own races are another module's.        *)

CreateArtifact(a) ==
  /\ astate[a] = "new"
  /\ astate' = [astate EXCEPT ![a] = "live"]
  /\ UNCHANGED <<vstate, saved, status, path, verOf, nameOf, object, reqs, ghosts>>

\* The version may be created with tags.
CreateVersion(v) ==
  /\ vstate[v] = "new"
  /\ astate[ArtifactOf[v]] = "live"
  /\ vstate' = [vstate EXCEPT ![v] = "live"]
  /\ saved' \in (IF "tag" \in Ops THEN {saved, saved \cup {v}} ELSE {saved})
  /\ UNCHANGED <<astate, status, path, verOf, nameOf, object, reqs, ghosts>>

\* A tag now points at v, or v's artifact now carries the protection tag.
PutTag(v) ==
  /\ "tag" \in Ops
  /\ vstate[v] = "live"
  /\ saved' = saved \cup {v}
  /\ UNCHANGED <<astate, vstate, status, path, verOf, nameOf, object, reqs, ghosts>>

\* The last tag that protected v is deleted, or moved to another version.
DeleteTag(v) ==
  /\ "tag" \in Ops
  /\ saved' = saved \ {v}
  /\ UNCHANGED <<astate, vstate, status, path, verOf, nameOf, object, reqs, ghosts>>

-----------------------------------------------------------------------------
(* POST .../files: insert the row, store the object, finalize the row      *)

\* resolveVersion: 404 unless the version exists.
UploadStart(p, v) ==
  /\ vstate[v] = "live"
  /\ Resolve(p, "upload", "up_insert", {v})

InsertRow_noForeignKey(p, f, v, n) ==
  /\ status[f] = "NEW"
  /\ status' = [status EXCEPT ![f] = "PENDING"]
  /\ verOf' = [verOf EXCEPT ![f] = v]
  /\ nameOf' = [nameOf EXCEPT ![f] = n]
  /\ Goto(p, "up_store")
  /\ fid' = [fid EXCEPT ![p] = f]
  /\ UNCHANGED <<astate, vstate, saved, path, target, todo, hit, faults>>

\* CreateArtifactFile succeeds: a fresh id, PENDING, the placeholder as path.
\* The reply may be lost, and then the request ends here.
InsertRow(p, f, v, n) ==
  /\ status[f] = "NEW"
  /\ vstate[v] = "live"
  /\ \A g \in Rows : ~(verOf[g] = v /\ nameOf[g] = n)
  /\ status' = [status EXCEPT ![f] = "PENDING"]
  /\ path' = [path EXCEPT ![f] = Placeholder]
  /\ verOf' = [verOf EXCEPT ![f] = v]
  /\ nameOf' = [nameOf EXCEPT ![f] = n]
  /\ \/ /\ Goto(p, "up_store")
        /\ fid' = [fid EXCEPT ![p] = f]
        /\ UNCHANGED <<target, todo, hit, faults>>
     \/ Fault /\ Return(p)
  /\ UNCHANGED <<astate, vstate, saved>>

\* CreateArtifactFile fails: the version is gone (foreign key), the name is
\* taken (409), the instance's ids are used up, or the call fails.
InsertRefused(p, v, n) ==
  /\ \/ Fault
     \/ /\ \/ vstate[v] # "live"
           \/ \E g \in Rows : verOf[g] = v /\ nameOf[g] = n
           \/ \A f \in FileIds : status[f] # "NEW"
        /\ UNCHANGED faults
  /\ Return(p)
  /\ UNCHANGED db

UploadInsert(p) ==
  /\ pc[p] = "up_insert"
  /\ \E v \in Versions, n \in Names :
       /\ v \in target[p]
       /\ \/ \E f \in FileIds : InsertRow(p, f, v, n)
          \/ InsertRefused(p, v, n)
  /\ UNCHANGED <<object, leaked, damaged>>

\* storage.Store puts an object where a delete may have removed one before.
Put(f, o) ==
  /\ object' = [object EXCEPT ![f] = o]
  /\ hit' = [q \in Procs |-> hit[q] \ {f}]
  /\ damaged' = damaged \ {f}

\* storage.Store begins: os.Create makes the file, PutObject shows nothing yet.
UploadStoreBegin(p) ==
  /\ pc[p] = "up_store"
  /\ Goto(p, "up_storing")
  /\ IF Backend = "FILESYSTEM"
     THEN Put(fid[p], "partial")
     ELSE UNCHANGED <<object, hit, damaged>>
  /\ UNCHANGED <<db, target, fid, todo, leaked, faults>>

\* storage.Store returns.  On the file system a file removed meanwhile is
\* written to its end all the same, and is gone when it is closed.
UploadStoreEnd(p) ==
  /\ pc[p] = "up_storing"
  /\ Goto(p, "up_finalize")
  /\ IF Backend = "FILESYSTEM"
     THEN /\ object' = [object EXCEPT ![fid[p]] = IF @ = "none" THEN @ ELSE "whole"]
          /\ UNCHANGED <<hit, damaged>>
     ELSE Put(fid[p], "whole")
  /\ UNCHANGED <<db, target, fid, todo, leaked, faults>>

UploadStoreFail_ignored(p) ==
  /\ pc[p] = "up_storing"
  /\ Fault
  /\ Goto(p, "up_finalize")
  /\ UNCHANGED <<db, object, target, fid, todo, hit, leaked, damaged>>

\* storage.Store fails: the file system keeps what was written; S3 has nothing,
\* or the whole object when only the answer was lost.
UploadStoreFail(p) ==
  /\ pc[p] = "up_storing"
  /\ Fault
  /\ Goto(p, "up_mark")
  /\ \/ UNCHANGED <<object, hit, damaged>>
     \/ Backend = "S3" /\ Put(fid[p], "whole")
  /\ leaked' = leaked \cup Abandoned(p)
  /\ UNCHANGED <<db, target, fid, todo>>

\* After a failed Store: status ERROR, the error of the update is ignored.
UploadMarkError(p) ==
  /\ pc[p] = "up_mark"
  /\ Return(p)
  /\ \/ SetStatus(fid[p], "ERROR") /\ UNCHANGED faults
     \/ Fault /\ UNCHANGED db
  /\ UNCHANGED <<object, leaked, damaged>>

FinalizeRow_upsert(f) ==
  /\ status' = [status EXCEPT ![f] = "AVAILABLE"]
  /\ path' = [path EXCEPT ![f] = fileStoragePath(f)]
  /\ UNCHANGED <<astate, vstate, saved, verOf, nameOf>>

FinalizeRow_noStatus(f) ==
  /\ f \in Rows
  /\ path' = [path EXCEPT ![f] = fileStoragePath(f)]
  /\ UNCHANGED <<astate, vstate, saved, status, verOf, nameOf>>

\* UpdateArtifactFileStored on a row that exists: AVAILABLE with its real path.
FinalizeRow(f) ==
  /\ f \in Rows
  /\ status' = [status EXCEPT ![f] = "AVAILABLE"]
  /\ path' = [path EXCEPT ![f] = fileStoragePath(f)]
  /\ UNCHANGED <<astate, vstate, saved, verOf, nameOf>>

\* UpdateArtifactFileStored: 201, or no row was there any more, or it failed,
\* and when only the reply is lost the row is AVAILABLE all the same.
UploadFinalize(p) ==
  /\ pc[p] = "up_finalize"
  /\ \/ /\ FinalizeRow(fid[p])
        /\ Return(p)
        /\ UNCHANGED <<damaged, faults>>
     \/ /\ Fault
        /\ FinalizeRow(fid[p])
        /\ damaged' = damaged \cup {fid[p]}
        /\ Goto(p, "up_mark_undo")
        /\ UNCHANGED <<target, fid, todo, hit>>
     \/ /\ Fault \/ (fid[p] \notin Rows /\ UNCHANGED faults)
        /\ Goto(p, "up_mark_undo")
        /\ UNCHANGED <<db, target, fid, todo, hit, damaged>>
  /\ UNCHANGED <<object, leaked>>

\* "Storage write succeeded but DB update failed: mark ERROR and clean up."
UploadMarkUndo(p) ==
  /\ pc[p] = "up_mark_undo"
  /\ Goto(p, "up_undo")
  /\ \/ SetStatus(fid[p], "ERROR") /\ UNCHANGED faults
     \/ Fault /\ UNCHANGED db
  /\ UNCHANGED <<object, target, fid, todo, hit, leaked, damaged>>

UploadUndo_keep(p) ==
  /\ pc[p] = "up_undo"
  /\ Return(p)
  /\ UNCHANGED <<db, object, ghosts>>

UploadUndo(p) ==
  /\ pc[p] = "up_undo"
  /\ Return(p)
  /\ \/ /\ object' = [object EXCEPT ![fid[p]] = "none"]
        /\ UNCHANGED <<leaked, faults>>
     \/ /\ Fault
        /\ leaked' = leaked \cup Abandoned(p)
        /\ UNCHANGED object
  /\ UNCHANGED <<db, damaged>>

-----------------------------------------------------------------------------
(* GET .../files/{fileId}/download: read the row, then the object           *)

DownloadStart_anyStatus(p, f) ==
  /\ f \in Rows
  /\ ReadRow(p, "download", "dl_retrieve", f)

\* 409 unless the row is AVAILABLE.
DownloadStart(p, f) ==
  /\ status[f] = "AVAILABLE"
  /\ ReadRow(p, "download", "dl_retrieve", f)

\* storage.Retrieve: the object's bytes, or 500.
DownloadRetrieve(p) ==
  /\ pc[p] = "dl_retrieve"
  /\ Return(p)
  /\ UNCHANGED <<db, object, ghosts>>

-----------------------------------------------------------------------------
(* DELETE .../files/{fileId}: the object, then the row                      *)

DeleteFileStart(p, f) ==
  /\ f \in Rows
  /\ ReadRow(p, "deleteFile", "fd_purge", f)

DeleteFileObject(p) ==
  /\ pc[p] = "fd_purge"
  /\ RemoveObject(p, TRUE)

\* DeleteArtifactFile; when it fails the row stays, its object does not.
DeleteFileRow(p) ==
  /\ pc[p] = "fd_purge"
  /\ todo[p] = {}
  /\ \/ /\ DeleteFileRows({fid[p]} \cap Rows)
        /\ leaked' = leaked \cup Forgotten({fid[p]} \cap Rows, hit[p])
        /\ UNCHANGED <<astate, vstate, saved, damaged, faults>>
     \/ /\ Fault
        /\ damaged' = damaged \cup hit[p]
        /\ UNCHANGED <<db, leaked>>
  /\ Return(p)
  /\ UNCHANGED object

-----------------------------------------------------------------------------
(* DELETE .../versions/{version}: the listed objects, then the version      *)

DeleteVersionStart(p, v) ==
  /\ vstate[v] = "live"
  /\ Resolve(p, "deleteVersion", "vd_list", {v})

\* ListArtifactFiles; when it fails no object is removed.
DeleteVersionList(p) ==
  /\ pc[p] = "vd_list"
  /\ Goto(p, "vd_purge")
  /\ \/ /\ todo' = [todo EXCEPT ![p] = Listing(FilesOf(target[p]))]
        /\ UNCHANGED faults
     \/ Fault /\ todo' = [todo EXCEPT ![p] = {}]
  /\ UNCHANGED <<db, object, target, fid, hit, leaked, damaged>>

DeleteVersionObject(p) ==
  /\ pc[p] = "vd_purge"
  /\ RemoveObject(p, TRUE)

\* DeleteArtifactVersion: the version and whatever files it has by now.
DeleteVersionRow(p) ==
  /\ pc[p] = "vd_purge"
  /\ todo[p] = {}
  /\ \/ /\ DeleteRows(target[p])
        /\ leaked' = leaked \cup Forgotten(FilesOf(Cascade(target[p])), hit[p])
        /\ UNCHANGED <<damaged, faults>>
     \/ /\ Fault
        /\ damaged' = damaged \cup hit[p]
        /\ UNCHANGED <<db, leaked>>
  /\ Return(p)
  /\ UNCHANGED object

-----------------------------------------------------------------------------
(* The deletes that take the rows first: a transaction lists the files and  *)
(* deletes the rows, and after its COMMIT the objects are removed           *)

\* The file listing of the transaction, or an error that ends the request.
ListInTx(p, l, F) ==
  /\ \/ /\ Goto(p, l)
        /\ todo' = [todo EXCEPT ![p] = Listing(F)]
        /\ UNCHANGED <<target, fid, hit, faults>>
     \/ Fault /\ Return(p)
  /\ UNCHANGED <<db, object, leaked, damaged>>

\* The delete of T and its COMMIT: done, and the files L are purged next; done
\* with the reply lost, and none is; or rolled back.
CommitTx(p, l, T, L) ==
  /\ \/ /\ DeleteRows(T)
        /\ leaked' = leaked \cup Forgotten(FilesOf(Cascade(T)), Ids(L))
        /\ Goto(p, l)
        /\ todo' = [todo EXCEPT ![p] = L]
        /\ UNCHANGED <<target, fid, hit, faults>>
     \/ /\ Fault
        /\ DeleteRows(T)
        /\ leaked' = leaked \cup Forgotten(FilesOf(Cascade(T)), {})
        /\ Return(p)
     \/ /\ Fault
        /\ Return(p)
        /\ UNCHANGED <<db, leaked>>
  /\ UNCHANGED <<object, damaged>>

\* Bulk version delete.  ListVersionsFiltered: which filters the client gave is
\* left open; the candidates are matching versions that are not protected.
BulkDeleteStart(p, C) ==
  /\ C # {}
  /\ C \subseteq LiveVersions \ saved
  /\ Resolve(p, "bulkDelete", "bd_list", C)

BulkDeleteList(p) ==
  /\ pc[p] = "bd_list"
  /\ ListInTx(p, "bd_delete", FilesOf(target[p]))

Purgeable_all(L, V) == L

\* DeleteUnprotectedVersionsByIDs re-checks protection; what it returns decides
\* whose objects go.
Unprotected(C)  == (C \cap LiveVersions) \ saved
Purgeable(L, V) == {r \in L : r.ver \in V}

BulkDeleteCommit(p) ==
  /\ pc[p] = "bd_delete"
  /\ CommitTx(p, "bd_purge", Unprotected(target[p]),
              Purgeable(todo[p], Unprotected(target[p])))

BulkDeletePurge(p) ==
  /\ pc[p] = "bd_purge"
  /\ Purge(p)

\* DELETE /artifacts/{id}.
DeleteArtifactStart(p, a) ==
  /\ astate[a] = "live"
  /\ Resolve(p, "deleteArtifact", "ad_list", {a})

DeleteArtifactList(p) ==
  /\ pc[p] = "ad_list"
  /\ ListInTx(p, "ad_delete", FilesOf(Cascade(target[p])))

DeleteArtifactCommit(p) ==
  /\ pc[p] = "ad_delete"
  /\ CommitTx(p, "ad_purge", target[p], todo[p])

DeleteArtifactPurge(p) ==
  /\ pc[p] = "ad_purge"
  /\ Purge(p)

-----------------------------------------------------------------------------
(* Admin cleanup                                                            *)

Incomplete == {f \in Rows : status[f] \in {"PENDING", "ERROR"}}

\* DELETE ... RETURNING: of the PENDING and ERROR rows, the ones old enough and
\* of no artifact that carries the protection tag; F stands for those.
DeleteIncompleteFiles(p, F) ==
  /\ "deleteIncomplete" \in Ops
  /\ pc[p] = "idle"
  /\ F # {}
  /\ F \subseteq Incomplete
  /\ DeleteFileRows(F)
  /\ \/ /\ Goto(p, "in_purge")
        /\ todo' = [todo EXCEPT ![p] =
             {[id |-> f, path |-> fileStoragePath(f), ver |-> verOf[f]] : f \in F}]
        /\ UNCHANGED <<target, fid, hit, leaked, faults>>
     \/ /\ Fault
        /\ leaked' = leaked \cup Forgotten(F, {})
        /\ Return(p)
  /\ UNCHANGED <<astate, vstate, saved, object, damaged>>

DeleteIncompletePurge(p) ==
  /\ pc[p] = "in_purge"
  /\ Purge(p)

\* The sweeps are one DELETE each, and PostgreSQL evaluates its NOT EXISTS on the
\* snapshot the statement starts with: the rows it picks, V or A, may have
\* received files by the time it deletes them.  Age and protection narrow the
\* choice and are left open.
DeleteVersionsWithoutFiles(p, V) ==
  /\ V # {}
  /\ V \subseteq {v \in LiveVersions : FilesOf({v}) = {}}
  /\ Resolve(p, "sweep", "sw_delete", V)

DeleteEmptyArtifacts(p, A) ==
  /\ A # {}
  /\ A \subseteq {a \in Artifacts : astate[a] = "live" /\ Cascade({a}) = {}}
  /\ Resolve(p, "sweep", "sw_delete", A)

DeleteArtifactsWithoutFiles(p, A) ==
  /\ A # {}
  /\ A \subseteq {a \in Artifacts : /\ astate[a] = "live"
                                    /\ Cascade({a}) # {}
                                    /\ FilesOf(Cascade({a})) = {}}
  /\ Resolve(p, "sweep", "sw_delete", A)

\* The DELETE commits, cascading; or it fails.  No object is removed.
SweepCommit(p) ==
  /\ pc[p] = "sw_delete"
  /\ Return(p)
  /\ \/ /\ DeleteRows(target[p])
        /\ leaked' = leaked \cup Forgotten(FilesOf(Cascade(target[p])), {})
        /\ UNCHANGED faults
     \/ Fault /\ UNCHANGED <<db, leaked>>
  /\ UNCHANGED <<object, damaged>>

-----------------------------------------------------------------------------
(* The process dies: its request stops where it is, nothing is undone       *)

Crash(p) ==
  /\ pc[p] # "idle"
  /\ Fault
  /\ Return(p)
  /\ leaked' = leaked \cup Abandoned(p)
  /\ damaged' = damaged \cup hit[p]
  /\ UNCHANGED <<db, object>>

\* No request is in progress and none arrives.
Quiet ==
  /\ \A p \in Procs : pc[p] = "idle"
  /\ UNCHANGED vars

Start(p) ==
  \/ \E v \in Versions : UploadStart(p, v) \/ DeleteVersionStart(p, v)
  \/ \E f \in FileIds : DownloadStart(p, f) \/ DeleteFileStart(p, f)
  \/ \E C \in SUBSET Versions : BulkDeleteStart(p, C) \/ DeleteVersionsWithoutFiles(p, C)
  \/ \E a \in Artifacts : DeleteArtifactStart(p, a)
  \/ \E A \in SUBSET Artifacts : DeleteEmptyArtifacts(p, A) \/ DeleteArtifactsWithoutFiles(p, A)
  \/ \E F \in SUBSET FileIds : DeleteIncompleteFiles(p, F)

\* The next call of a request in progress.
Step(p) ==
  \/ UploadInsert(p) \/ UploadStoreBegin(p) \/ UploadStoreEnd(p) \/ UploadStoreFail(p)
  \/ UploadMarkError(p) \/ UploadFinalize(p) \/ UploadMarkUndo(p) \/ UploadUndo(p)
  \/ DownloadRetrieve(p)
  \/ DeleteFileObject(p) \/ DeleteFileRow(p)
  \/ DeleteVersionList(p) \/ DeleteVersionObject(p) \/ DeleteVersionRow(p)
  \/ BulkDeleteList(p) \/ BulkDeleteCommit(p) \/ BulkDeletePurge(p)
  \/ DeleteArtifactList(p) \/ DeleteArtifactCommit(p) \/ DeleteArtifactPurge(p)
  \/ DeleteIncompletePurge(p)
  \/ SweepCommit(p)

Next ==
  \/ \E a \in Artifacts : CreateArtifact(a)
  \/ \E v \in Versions : CreateVersion(v) \/ PutTag(v) \/ DeleteTag(v)
  \/ \E p \in Procs : Start(p) \/ Step(p) \/ Crash(p)
  \/ Quiet

\* A call always returns, so a request in progress makes its next one.
Fairness == \A p \in Procs : WF_vars(Step(p))

Spec     == Init /\ [][Next]_vars
FairSpec == Spec /\ Fairness

-----------------------------------------------------------------------------
TypeOK ==
  /\ astate \in [Artifacts -> {"new", "live", "gone"}]
  /\ vstate \in [Versions -> {"new", "live", "gone"}]
  /\ saved \subseteq Versions
  /\ status \in [FileIds -> RowStatus \cup {"NEW", "GONE"}]
  /\ path \in [FileIds -> Paths]
  /\ verOf \in [FileIds -> Versions \cup {Nil}]
  /\ nameOf \in [FileIds -> Names \cup {Nil}]
  /\ \A f \in Rows : verOf[f] # Nil
  /\ object \in [FileIds -> {"none", "partial", "whole"}]
  /\ pc \in [Procs -> Labels]
  /\ target \in [Procs -> SUBSET (Versions \cup Artifacts)]
  /\ fid \in [Procs -> FileIds \cup {Nil}]
  /\ todo \in [Procs -> SUBSET Listed]
  /\ hit \in [Procs -> SUBSET FileIds]
  /\ leaked \subseteq FileIds
  /\ damaged \subseteq FileIds
  /\ faults \in 0 .. MaxFaults

\* An AVAILABLE row has its whole object (Upload finalizes the row only after
\* Store returned), unless a file or version delete has removed the object and is
\* about to delete the row, or a fault stopped it in between, or a fault hid from
\* an upload that its row was finalized.
AvailableIsBacked ==
  \A f \in FileIds :
    status[f] = "AVAILABLE" /\ object[f] # "whole" =>
      f \in damaged \/ \E p \in Procs : f \in hit[p]

\* "The DB never points at a deleted object" (bulkDelete, and the artifact and
\* incomplete-file deletes that follow its order): what those requests still
\* have to remove from storage has no row any more, and never will.
PurgeSparesRows ==
  \A p \in Procs : pc[p] \in DbFirst => PathsIn(todo[p]) \cap Rows = {}

\* Request p will remove the object of f if f has no row: an upload in flight, or
\* a delete that has it on its list.
Claims(p, f) ==
  \/ pc[p] \in UploadPcs /\ fid[p] = f
  \/ pc[p] \in StorageFirst \cup DbFirst /\ f \in PathsIn(todo[p])

\* No object is left without a row and without a request that will remove it,
\* except by the causes recorded in leaked: a row deleted by a request that
\* listed the files before this one was stored, a failed call, or a crash.
ObjectsAccounted ==
  \A f \in FileIds :
    object[f] # "none" /\ f \notin Rows =>
      f \in leaked \/ \E p \in Procs : Claims(p, f)

\* A download never reads an object that is still being written: between the
\* row it read and storage.Retrieve the object is whole or has been deleted.
DownloadsWhole ==
  \A p \in Procs : pc[p] = "dl_retrieve" =>
    \A r \in todo[p] : r.path \in FileIds /\ object[r.path] # "partial"

\* Unless a call fails, an upload that has a row ends AVAILABLE, or its row is
\* deleted (FileHandler.Upload).
UploadsSettle ==
  \A f \in FileIds : status[f] = "PENDING" ~> (status[f] # "PENDING" \/ faults > 0)

\* An object whose row is gone is removed, unless its row was deleted behind the
\* back of the request that listed the files, or the call that should remove it
\* failed: the causes recorded in leaked.
OrphansRemoved ==
  \A f \in FileIds :
    (object[f] # "none" /\ f \notin Rows) ~> (object[f] = "none" \/ f \in leaked)

-----------------------------------------------------------------------------
(* The abstract life of a file record, read off the status column           *)

lifeOf == [NEW |-> "unused", PENDING |-> "reserved", AVAILABLE |-> "published",
           ERROR |-> "failed", GONE |-> "deleted"]

Life == INSTANCE FileLifecycle WITH life <- [f \in FileIds |-> lifeOf[status[f]]]

\* However requests interleave and fail, a file record lives the life that
\* FileLifecycle promises: in particular no late UpdateArtifactFileStored
\* publishes a record that failed, and none brings back a deleted one.
LifecycleKept == Life!Spec

-----------------------------------------------------------------------------
(* What the requests rely on between their calls.  Together with the        *)
(* properties above, an inductive invariant.                                *)

Writing == {"up_store", "up_storing", "up_finalize", "up_mark"}

\* An id that was never drawn is held by nobody and names no object.
FreshIds ==
  \A f \in FileIds : status[f] = "NEW" =>
    /\ object[f] = "none"
    /\ \A p \in Procs : fid[p] # f /\ f \notin hit[p] /\ f \notin Ids(todo[p])

\* A row's version exists, and an AVAILABLE row holds the path of its object.
RowsRight ==
  \A f \in Rows :
    /\ verOf[f] \in LiveVersions
    /\ status[f] = "AVAILABLE" => path[f] = f

\* A listing stays right about the rows that are still there.
ListsRight ==
  \A p \in Procs : \A r \in todo[p] :
    /\ r.path = r.id
    /\ r.id \in Rows => verOf[r.id] = r.ver
    /\ pc[p] = "ad_delete" => r.ver \in target[p] \/ ArtifactOf[r.ver] \in target[p]

\* A record is held by the one upload that inserted it; until that upload
\* finalizes it the row is PENDING, or deleted.
UploadsRight ==
  \A p \in Procs :
    /\ pc[p] \in UploadPcs \cup {"up_mark"} =>
         /\ fid[p] \in FileIds
         /\ \A q \in Procs \ {p} : pc[q] \in UploadPcs \cup {"up_mark"} => fid[q] # fid[p]
    /\ pc[p] \in Writing => status[fid[p]] \in {"PENDING", "GONE"}
    /\ pc[p] \in {"up_mark_undo", "up_undo"} /\ status[fid[p]] = "AVAILABLE" =>
         fid[p] \in damaged

Excused(f) == f \in damaged \/ \E p \in Procs : f \in hit[p]

\* What an upload stored is there until a delete removed it.
StoresRight ==
  \A p \in Procs :
    /\ pc[p] = "up_storing" /\ Backend = "FILESYSTEM" /\ fid[p] \in Rows =>
         object[fid[p]] # "none" \/ Excused(fid[p])
    /\ pc[p] = "up_finalize" =>
         /\ object[fid[p]] # "partial"
         /\ fid[p] \in Rows => object[fid[p]] = "whole" \/ Excused(fid[p])

\* Only a delete that goes storage first is ahead of the rows, and of no rows
\* but the ones it is going to delete.
HitsRight ==
  \A p \in Procs :
    /\ \A f \in hit[p] : object[f] = "none"
    /\ pc[p] \notin StorageFirst => hit[p] = {}
    /\ pc[p] = "fd_purge" => fid[p] \in FileIds /\ hit[p] \cup Ids(todo[p]) \subseteq {fid[p]}
    /\ pc[p] = "vd_purge" =>
         \A f \in (hit[p] \cup Ids(todo[p])) \cap Rows : verOf[f] \in target[p]

\* Partial objects belong to uploads that are not, and never were, AVAILABLE.
PartialsRight ==
  /\ \A f \in FileIds : object[f] = "partial" => status[f] # "AVAILABLE"
  /\ \A p, q \in Procs :
       pc[p] = "dl_retrieve" /\ pc[q] \in Writing => fid[q] \notin Ids(todo[p])

\* What a request remembers between two of its calls (the rows it listed, the id it
\* drew, how far its purge is) stays in step with the rows and objects, whatever the
\* other requests do meanwhile (Upload, the deletes and the cleanups).
RequestsConsistent ==
  /\ FreshIds /\ RowsRight /\ ListsRight /\ UploadsRight
  /\ StoresRight /\ HitsRight /\ PartialsRight

=============================================================================
