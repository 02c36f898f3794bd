# A verification development of fusion-index

fusion-index is an artifact registry: stateless HTTP replicas over one PostgreSQL
database and one object store (a file system or S3). This directory holds TLA+
modules that model its core, TLC configurations that check them on small instances,
and TLAPS proofs of the main results for instances of any size. `PROJECT.json`
lists the runs, the source lines behind every definition, the hazards and the
theorems.

## 1. Inventory

The program's own code is `cmd/server`, `internal` and `migrations`. Replicas share
nothing but the two stores, so a request of another replica is the same to a request
as one of its own replica.

| component | state | operations | interacts with |
|---|---|---|---|
| artifacts (`handlers/artifacts.go`) | `registry_artifact` | create, update, delete, list | versions (cascade), storage (delete) |
| versions (`versions.go`, `version_bulk.go`) | `registry_artifact_version` | create with tags, delete, bulk delete by filter | files (cascade), tags (protection), storage |
| files (`files.go`) | `registry_artifact_file`: PENDING, AVAILABLE, ERROR | upload, download, delete | storage, every delete above |
| storage (`internal/storage`) | objects by path | Store, Retrieve, Delete | called by files, versions, artifacts, admin |
| tags (`tags.go`) | `registry_artifact_tag` | put (upsert, moves), delete | bulk deletes and sweeps read them as protection |
| admin cleanup (`admin.go`) | none of its own | sweeps of empty artifacts, file-less versions and artifacts, incomplete files, unused types | files, storage |
| types (`types.go`), retention (`retention.go`) | three tables | CRUD, the effective rule of an artifact | an external runner feeds the rule to the bulk delete |
| size statistics (migration 000009) | sums kept by triggers | on every write of files and versions | list sorting and filters |
| metrics (`internal/metrics`) | one cached snapshot per replica | Get with singleflight and TTL | reads the database |
| backup (`cmd/server/backup.go`, `storage/backup.go`) | one object per backup | dump, compress and upload as one stream, two goroutines over a pipe | pg_dump, S3 |
| restore (`restore.go`) | none of its own | check, find the backup, feed it to psql | the bucket, the database, a server that may be up |
| prefix migration (`migrate.go`, `storage/migrate.go`, `k8sclient`) | a marker ConfigMap | copy every object to the new prefix, move the marker | Helm hook, the servers of the old release |
| authentication, router, DTOs, OpenAPI, generated queries | none | - | - |

What is hard in it:

* PostgreSQL and the object store share no transaction. Every operation on a file is a
  sequence of calls, and other requests, failed calls, lost replies and crashes come
  between them.
* Handlers list first and delete later, at READ COMMITTED: what they listed may be
  stale. Two of them remove objects before rows, the others after.
* PENDING does not tell a live upload from a dead one, so cleanup runs against uploads
  that are still storing.
* Protection by tags is checked twice, in a listing and inside the DELETE, and the second
  check reads the snapshot the statement began with.
* A retention rule is merged from several rows read in two statements, rendered as a query
  string, and used at some later time by a client.
* The jobs stream between processes that fail one at a time (pg_dump, gzip, the pipe, S3,
  psql), are killed and retried, and run next to servers that go on writing.
* The metrics cache checks freshness, loads and stores in separate steps.
* The triggers of the statistics run inside the transactions that fire them and lock rows up
  the chain file, version, artifact, while cascades lock them downwards: transactions
  deadlock, and sums could be taken from a stale snapshot.
* Lists read the stored statistics, cleanups and metrics the rows themselves, and pages are
  cut out of an order that may have ties.
* `storage_path` is a placeholder until a row is AVAILABLE, so the path of an object
  depends on when its row was read.

What makes it correct, by component: an AVAILABLE row has its whole object, a delete
never removes an object of a row it spares, an object without a row has a request that
will remove it, a download never sees a half-written object (files, storage, deletes);
a record is decided once and never comes back (files); a protected version survives
bulk deletes (tags); the effective retention rule deletes only what each policy would
(retention); sums equal what they sum at every commit, and every transaction ends
(statistics); a name has one artifact (artifacts); pages show every row once and endpoints
that answer the same question agree (lists); waiting requests get a value and
one load runs at a time (metrics); a job ends and a partial result is never taken for a
whole one (backup, migration).

## 2. Plan

In this order; each module has an MC module and configurations, and the ones marked P
get theorems.

1. `RegistryFiles`, `FileLifecycle` P - files, storage and every delete. **Done.**
2. `Versions` P - versions, tags as rows, the shared filter, its 32-bit parameters, the
   bulk delete and its re-check. **Done.**
3. `Retention` P - policies, types, the effective rule, the runner; it
   extends `Versions` and composes with its bulk delete. **Done.**
4. `Catalog` P - artifact, version and file tables as transactions with row locks,
   statement snapshots and triggers: sizes, unique names, foreign keys, deadlocks;
   `Listings` P - lists, pages, maintenance views and counts over the same tables. **Done.**
5. `MetricsCache` P - TTL and singleflight, the load's snapshot. **Done.**
6. `BackupPipe` P - dump, gzip, pipe and upload of the backup job; `Restore` P - the guard,
   the choice of the backup, the filter on the dump's preamble, psql. **Done.**
7. `PrefixMigration` P - copy, marker and retry next to running servers. **Done.**
8. A theorem for every safety property that a passing run checks. **Done.**

## 3. Modules and how they correspond to the code

### RegistryFiles

One process (`Procs`) is one request; a step is one call it makes: a committed
statement, a transaction's last statement with its COMMIT, or a storage call. What it
holds between calls is in `pc` (the call it makes next), `target` (the versions or
artifacts it resolved), `fid` (the file record), `todo` (listed files whose objects it
still has to remove) and `hit` (objects it removed ahead of their rows). The database
is `astate`, `vstate`, `saved` (versions some tag protects), and per file `status`,
`path`, `verOf`, `nameOf`; the object store is `object`: none, partial or whole.

Data are abstracted to what the properties tell apart: an id stands for a row, a file
id for its storage path (the path contains the id, which is never drawn twice), file
contents are partial or whole. Filters, ages and the protection tag of sweeps are left
open: a delete may pick any set the statement's WHERE clause could.

| code | actions |
|---|---|
| `FileHandler.Upload` | `UploadStart`, `UploadInsert`, `UploadStoreBegin/End/Fail`, `UploadMarkError`, `UploadFinalize`, `UploadMarkUndo`, `UploadUndo` |
| `FileHandler.Download` | `DownloadStart`, `DownloadRetrieve` |
| `FileHandler.Delete` | `DeleteFileStart`, `DeleteFileObject`, `DeleteFileRow` |
| `VersionHandler.Delete` | `DeleteVersionStart`, `DeleteVersionList`, `DeleteVersionObject`, `DeleteVersionRow` |
| `filteredVersions.bulkDelete` | `BulkDeleteStart`, `BulkDeleteList`, `BulkDeleteCommit`, `BulkDeletePurge` |
| `ArtifactHandler.Delete` | `DeleteArtifactStart`, `DeleteArtifactList`, `DeleteArtifactCommit`, `DeleteArtifactPurge` |
| `AdminHandler.DeleteIncompleteFiles` | `DeleteIncompleteFiles`, `DeleteIncompletePurge` |
| the other three sweeps | `DeleteVersionsWithoutFiles`, `DeleteEmptyArtifacts`, `DeleteArtifactsWithoutFiles`, `SweepCommit` |
| artifact and version create, tags | `CreateArtifact`, `CreateVersion`, `PutTag`, `DeleteTag` |
| a dying process | `Crash` |

Any call may fail. A failed statement either did nothing or committed with its reply
lost; a failed `Store` left a partial file (file system), nothing, or a whole object
(S3, answer lost). A sweep is two steps because PostgreSQL evaluates its NOT EXISTS on
the snapshot the statement starts with.

Two ghost variables make the safety properties exact. `leaked` holds the files that a
named cause may leave an object of without a row: the row was deleted by a request
that had listed the files before this one was stored, a storage delete failed, or the
request that would have removed it died. `damaged` holds the files that a named cause
may leave a row of without an object: a storage-first delete stopped between object
and row, or an upload did not learn that its row was finalized. A property that
excuses `leaked` and `damaged` says that there is no other way.

### FileLifecycle

The abstract promise about one file record: reserved once, decided once (published or
failed), a failed one is never published later, a published one may be withdrawn as
failed, a deleted one never returns. `RegistryFiles` implements it under the mapping
`lifeOf` of the status column.

### Versions

State: a version is new, live or gone; `born` is its `created_at`, `files` says whether
it has none, only AVAILABLE ones or others too, `tags` maps artifact and tag name to a
version. A filter is a record of the query parameters, `Null` when not given;
`ListVersionsFiltered` is the WHERE clause of the query that lists and bulk deletes share.
Sizes are 0 or 1. `toInt32` is the conversion `int32(n)`: `HalfInt32` is 2^31 in the code
and small in the instances, since TLC's own integers have 32 bits. `acceptable` is what the
parser and the handler refuse, an `olderThan` before `YearZero` among it: `time.Parse` reads
no year with a sign.

One bulk delete runs at a time, beside any other requests: `BulkRequest` (parse and list),
`BulkDeleteStart` (the DELETE takes its snapshot `snap` of the tags), `BulkDeleteApply` (it
removes what the snapshot does not protect, and commits), `BulkAbort` (any failure). The
storage side of the same handler is in `RegistryFiles`. Everything else
(`CreateVersion` with its tags, `DeleteVersion`, `ChangeFiles`, `PutTag`, `DeleteTag`) is
one committed transaction; `PutTag` leaves out the lookup before the upsert because the
foreign key decides. `DeleteVersion` also stands for sweeps and artifact deletes.

### Catalog

Transactions at READ COMMITTED, lock by lock. `tab` holds the committed tables: the state of
each artifact, version and file, and the columns `bytes` (`total_bytes` of a version) and
`stats` (count, largest and total of an artifact). `mine` holds what a transaction wrote
and has not committed, `View` the one over the other. `want` is the row lock it asks for,
with PostgreSQL's modes; a step that needs a lock is enabled when nobody holds a
conflicting one, and then looks at the row again, as the server does. `todo` are the rows a
statement has not reached, `queue` the versions whose AFTER trigger has not run, in any
order. A unique name is a row too, locked by whoever inserts or deletes it.

| code | actions |
|---|---|
| `ArtifactHandler.Create` | `CreateArtifact` (look-up), `InsertArtifact`, `Commit` |
| `VersionHandler.Create` | `CreateVersion`, `InsertVersion`, then the triggers |
| `CreateArtifactFile` | `InsertFile` |
| upload finalized or failed, file deleted | `ChangeFile`, `WriteFile`, then the triggers |
| `registry_file_sync_version_bytes` | `AddBytes` |
| `registry_version_sync_artifact_stats` | `LockArtifact`, `RecomputeStats` |
| the version deletes | `DeleteVersions`, `TakeVersion`, `TakeFile` (cascade), triggers |
| `ArtifactHandler.Delete` | `DeleteArtifact`, `TakeArtifact`, `TakeVersion`, `TakeFile`, triggers |
| `DeleteIncompleteFiles` | `DeleteIncompleteFiles`, `SweepFile` |
| rollback, deadlock detection | `GiveUp`, `Fail`, `BreakDeadlock` |

A delete selects any rows its WHERE clause could (which ones is the matter of
`RegistryFiles` and `Versions`), tags and objects are in those modules, and so is the
uniqueness of coordinates. The upserts of tags in `VersionHandler.Create` come after the
triggers, when the transaction already has its artifact's strongest lock, and are left out.
The cleanups of empty artifacts delete several artifacts in one statement; here each is a
`DeleteArtifact` of its own.

Foreign keys are not a guard of the model. That an insert waits for the row it refers to, and
that a delete cascades, is in the actions; that no committed version or file is ever left
without its parent (`ParentsLive`) is a consequence, and proved (section 5).

### Listings

The lists, maintenance views and counts as operators over the tables of `Catalog`. A list
is one statement and so a function of one committed state. `Orders` gives all orders an
ORDER BY allows, one of which each statement returns; `Page` cuts, with size and offset
converted to 32 bits; `WindowTotal` is the total of the registry-wide lists, which asks again
past the last page. Filters on tables that `Catalog` has not (tags, types, retention) are
the set they select. The views of `admin.go` are modelled as the set they select: they
order by `created_at` alone, so rows created in the same instant may be repeated or
missed between pages. `OffsetsFit` is the bound under which no offset wraps around in the
32 bits of the query's parameter; the instance satisfies it.

### Retention

`Retention` adds types, their assignments, the policies (`own`, `byType`) and one report:
`GetOwn` and `GetTypes` are the two reads of `GetForArtifact`; the second merges
(`mergeRetention`) and renders (`versionFilter`). Days and seconds are multiples of the
clock's ticks, so that the truncation to seconds is visible. A cutoff before the year 0,
which a large `maxAgeDays` gives, is rendered with a sign and refused when it comes back. The runner, which is external,
calls the bulk delete with the filter at any later time or never (`RunnerDelete`,
`RunnerEnds`).

### BackupPipe

One run of `backup-db`. The dump is a sequence of numbered chunks, the last one being
what gzip's Close writes. The goroutine that runs pg_dump (`wpc`) and the main goroutine
(`upc`) meet in `Transfer`, because `io.Pipe` has no buffer: a write waits for its
reader. `SendDumpErr` and `ClosePipe` follow in the code's order. The uploader is the vendored
one of the AWS SDK (`feature/s3/manager/upload.go`): it reads a first part (`FirstPart`), puts
a short stream with one call (`PutObject`) and a long one as a multipart upload, whose workers
(`SendPart`) report errors through a shared flag it looks at before each further part
(`LoopHead`). One part more than `MaxParts` (10000 in the code) ends the upload with an error
although no call failed (`NextPart`); parts become visible only in `CompleteMultipart`. Every S3 call may fail, or take effect with
its answer lost. `Kill` is the Job's deadline, an eviction or a crash.

### Restore

`restore-db` from its emptiness check (`Check`) through the choice of the backup
(`FindBackup`, `NamedBackup`) to psql, which commits statement by statement
(`PsqlLine`). The database is the set of its rows (`Entries`); the check reads one table,
those in `Artifacts`, and the dump drops all. A dump is a sequence of lines that read like
something and do something; a row in `Lookalikes` reads like the setting
`stripIncompatibleSettings` drops from the preamble, and the server is one that refuses
that setting. `PsqlStops` is a failed statement or an input that broke off: psql exits with
0 then, and the error comes from the copy to its stdin. Beside it run a server
(`ServerStarts` with its migrations, `Create`, `Delete`), overlapping backup jobs and other
instances that share the bucket. Keys are sequences of character codes, because prefix
matching and order are what matters about them; a file name is one code that grows with
its timestamp. Two ghost variables: `since` holds the artifacts created after the check,
`removed` the rows a server deleted after psql had dropped the tables.

### PrefixMigration

`pod` is the progress of the pods of the hook job: `GetMarker`, then either `CreateMarker`
or `ListPaths`, `CopyObject` for each path, and `UpdateMarker`, which carries the
resourceVersion of the read. A pod may fail anywhere, the answer to a marker write may be
lost, and a pod of an upgrade that was given up may go on later. The release goes
"hook", "rollout", "steady"; `serving` holds the prefixes of the servers that run, both
during a rollout. The history begins before the first install or with a release that had no
job, with files under `LegacyPrefix`. The ghost variable `stranded` holds the files left
where no job will look: stored after the path listing of a job that may still move the
marker, stored during the rollout under the old prefix, or older than the first marker
and elsewhere. The properties that excuse them say there is no other way to lose a file.

### MetricsCache

`Cache.Get` in the steps between which other callers run: `Check` under the read lock,
`Join` or `Lead` (singleflight), the load, `Store` under the write lock, `Finish`. The
database is the number of its commits; the load's first query fixes the snapshot and the
others read it. `highest` and `floor` are history variables: the newest state any answer
has shown, and that value when a caller's request began.

### Seeded bugs

Operators named `X_something` are variants of `X` with a plausible bug (a dropped
guard, an ignored error, the raw column for the rebuilt path). Nothing uses them; each
property of each passing run is shown to fail when `X` is replaced by one of them.

## 4. Runs

| run | instance | checks |
|---|---|---|
| `files_fs` | 2 requests, 2 files, 2 versions of one artifact, 2 names, file system, all operations, 1 fault | `TypeOK`, `RequestsConsistent`, `AvailableIsBacked`, `PurgeSparesRows`, `ObjectsAccounted`, `DownloadsWhole`, and the refinement `LifecycleKept` |
| `files_s3` | 3 requests, 1 file, 1 version, S3, uploads and the deletes of files, 2 faults, fair | `UploadsSettle`, `OrphansRemoved` |
| `versions_retention` | 2 + 1 versions of two artifacts, 2 tags, all file states, bulk requests by rank, age, range and list and a refused one, 2 types, 2 policies, 2 days | `TypeOK`, `KeepLastExact`, `FiltersPartition`, `BulkSparesProtected`, `RetentionTypeOK`, `RuleConservative` |
| `versions_tagged` | 3 versions of one artifact, keepLast=1 | `TaggedNeverTouched` is violated |
| `keep_last_wrap` | 2 + 1 versions of two artifacts, keepLast at the largest int32 and around 2^32 | `NewestKept` is violated |
| `catalog` | 2 requests at once, 3 artifacts (2 with one name), 3 versions, 2 files, every consistent content of the tables, 2 requests, 1 failure, fair | `TypeOK`, `StatsExact`, `NamesUnique`, `UploadsNeverStuck`, `PagesPartition`, `ViewsAgree`, `AllEnd` |
| `backup_pipe` | streams of 1 to 7 chunks, at most 3 parts of 2, every failure, fair | `NeverTruncated`, `SuccessIsWhole`, `JobEnds` |
| `backup_hang` | the same | `CauseArrives` is violated |
| `restore` | 1 artifact and a row of another table, 2 seconds, 2 backup jobs, 2 other instances, one with a prefix that begins with this one's | `TypeOK`, `LatestIsNewestOwn`, `SuccessLoadsAll`, `DumpAccepted`, `UnforcedSparesData` |
| `restore_sibling` | one other instance, whose prefix begins with this one's | `LatestIsMostRecent` is violated |
| `prefix_migration` | 2 files, 3 prefixes, 2 pods at once, 3 upgrades, 2 attempts each | `TypeOK`, `MarkerHonest`, `Readable`, `CopiesFindSource` |
| `metrics_cache` | 2 callers, TTL 1, 2 expiries, 2 commits, fair | `TypeOK`, `Coherent`, `MonotonicReads`, `ErrorsAreReal`, `AllAnswered` |

Bounds. Two requests reach every pairwise race; three on one file let two deletes meet
inside one upload. Two files in two versions are what `Purgeable` and the listings need
to go wrong. One fault separates a crash from the good path; two are needed for a lost
reply followed by a failed second update. The proofs below drop all of these bounds.
The safety properties are proved for both backends, so the S3 run is left to liveness.
Symmetry is used for requests and files in the safety runs only.

Fairness is weak fairness of each request's next call, `WF(Step(p))`: handlers have no
unbounded waits, and a call to either store returns. It does not assume that clients
send requests. `UploadsSettle` excuses runs in which a call failed and `OrphansRemoved` the
causes in `leaked`, because after a failed call the code itself gives up cleaning.

Versions and retention: the third version is the greatest and belongs to another artifact, so
that a rank or a tag that crossed artifacts would show; the two policies set different
fields and differ in the one they share, so that a merge that took the smaller or the
first would show; the clock starts with the year 0, so that some cutoffs lie before it. The
action constraint `WithinBounds` keeps apart what does not read each other. Tags, the second
artifact and clients' bulk deletes come and go without policies; reports and the runner's
deletes run without tags, on versions of one artifact that change once the report is sent,
and policies change until then; files change alone. Filters and ranks read no policies, a
report reads neither versions nor tags, a sent report reads no policies, a bulk delete that
has its list reads no clock, and a tag only shortens the runner's list. The
theorems of section 5 have no such bound. The two `MCVersions` instances end when every id is
used and the clock is at `MaxTime`, so they do not check deadlock; they have no waiting.

Restore: one artifact and one row the check does not see are enough to tell what it misses;
with a sibling that sorts after every own key and another instance that is not listed the
choice has something to get wrong. The action constraint `JobsOutsidePsql` lets backup jobs
and the clock pause while psql runs: the restore does not look at the bucket then, and
neither does psql, and a dump taken meanwhile is also taken after psql stopped at that line.

Catalog: the tables start with any consistent content, as migration 000009 finds it, uploads
done or under way, so two requests meet in every situation longer histories lead to but
those with an ERROR row or a row that is gone, which the first of them makes. Version 11 has
two files, artifact 1 two versions, and version 13 belongs to another artifact, so that sums
over the wrong rows would show; with two locks per chain two requests make every
deadlock of two. Fairness is that a statement which can go on does and that PostgreSQL
looks for deadlocks; nothing promises that requests come. The instance ends when the
requests are used up, so it does not check deadlock; `AllEnd` does.

Backup: with parts of two chunks the stream is shorter than a part, exactly one, and up to
three and a half, of which three are allowed. The instances of jobs end, so the `BackupPipe` and `PrefixMigration` runs
do not check deadlock; `JobEnds` does it for the backup. Its fairness is that each
goroutine, each worker and each S3 call goes on; nothing promises that pg_dump fails or
the Job is killed. Migration: three upgrades over three prefixes let a pod of the first
wake up after the third has begun, and a prefix be returned to. Metrics: two callers let one
lead while the other waits or arrives with a stale check; fairness is that a goroutine in
`Get` keeps running and a query returns or fails.

What the violations show.

* `versions_tagged`: the re-check inside `DeleteUnprotectedVersionsByIDs` closes the window
  between listing and deleting (`BulkSparesProtected`), but not the one while the DELETE
  itself runs; a tag committed then is removed with its version.
* `keep_last_wrap`: `parseOptionalInt32` compares the 64-bit value with its minimum and then
  converts. A keepLast of 2^32 becomes 0, one of 2^32-1 becomes -1, and every version, the
  newest too, is on the list of the bulk delete.
* `backup_hang`: an S3 call fails, or the part limit is reached, while pg_dump still writes.
  `UploadStream` returns without closing the pipe's reader, the writing goroutine stays blocked and never sends on
  `dumpErr`; the job hangs until its deadline and the upload's error is not logged.
* `restore_sibling`: the listing's prefix has no trailing slash, so it matches the keys of
  an instance whose prefix merely begins with this one's, and those sort last.

What the passing properties excuse. These are behaviours the models contain and the
properties name, so that nothing else can hide behind them:

* `leaked` (`ObjectsAccounted`, `OrphansRemoved`): the artifact delete, the bulk delete and
  the sweeps list files and delete rows in separate statements at READ COMMITTED. A file
  inserted and finalized in between loses its row to the cascade and is not on the list;
  its object stays although no call failed.
* `stranded` (`MarkerHonest`, `Readable`): files old servers store between the job's path
  listing and the end of the rollout; and, where no marker exists yet, all files of a
  release without the job if that upgrade changes the prefix. A later migration cannot
  repair this: it fails at the first such file, which is not where the marker says, unless
  it goes back to the prefix that has it.
* `UnforcedSparesData`: artifacts a running server creates after the restore's check
  (`since`), and all rows of the other tables (`Entries \ Artifacts`). The second is a real
  gap: `targetHasData` counts `registry_artifact` only, while the comment of `runRestoreDB`
  says it refuses "a database that already has data"; types and their policies in a
  database without artifacts are dropped unforced.
* `SuccessLoadsAll`: rows a server deletes after psql has dropped the tables.
* `LatestIsNewestOwn`: a backup of an instance whose prefix begins with this one's, which
  `restore_sibling` shows to be taken.
* `JobEnds`: an upload that gives up, because a call failed or at the part limit, where
  `backup_hang` shows that the job hangs.
* `RetentionTypeOK`: a reported filter whose `olderThan` lies before the year 0. A policy's
  `maxAgeDays` is bounded by int32 only; about two thousand years are enough, and the bulk
  delete then answers 400 to what the report offered.
* `UploadsNeverStuck` excuses circles with a version create or a delete of several rows in
  them. They exist: two version creates for one artifact (each holds the foreign key's share
  lock and asks for the exclusive one of the trigger), a finalizing upload and the delete of
  its version or artifact, a version delete and an artifact delete, two bulk deletes in
  different orders. PostgreSQL cancels one; the handlers answer 500 and do not retry.
* `NamesUnique` says nothing about the answer: the create that loses the race gets 500 for
  the unique violation, not 409.
* `CopiesFindSource` excuses `stranded`, as above, and files a server deleted between the
  job's listing and their copy: `CopyObject` fails, the pod exits with 1, and the retry, which
  lists again, gets through.
* A retention report reads the own policy and the types' policies in two statements, so its
  rule may have been in force at no time; `RuleConservative` speaks of the policies it
  was merged from.
* `Lead` of `MetricsCache` does not look at the cache again, so a caller that saw a stale
  cache may load although another has just refreshed it; it costs a query and breaks
  nothing else.

## 5. Proofs

`RegistryFilesProofs` proves, from `ConstantsAssumption` alone and so for any number of
requests, files, versions, artifacts and faults and for both backends:

* `TypeCorrect`: `Spec => []TypeOK`;
* `Invariance`: `Spec => []Inv`, and from it `RequestsStayConsistent`, `RowsAreBacked`,
  `PurgesAreSafe`, `OrphansHaveCauses`, `DownloadsAreWhole`, one for each safety property;
* `Refinement`: `Spec => LifecycleKept`, every step is a `FileLifecycle` step or a
  stutter.

None of the four properties is inductive alone. `RequestsConsistent` adds what the
requests rely on between calls: an id not yet drawn is held by nobody (`FreshIds`);
rows point at live versions and AVAILABLE rows at their own path (`RowsRight`);
listings keep the right paths and stay right about rows still there (`ListsRight`);
one upload per record, and the status it expects (`UploadsRight`); what an upload
stored is there unless a delete took it (`StoresRight`); objects removed ahead belong
to rows their request is going to delete (`HitsRight`); partial objects are never
AVAILABLE nor read (`PartialsRight`). The run `files_fs` checks the same predicate.

The argument: each way a request can end is reduced to three lemmas, `StopInv` (it
ends or dies and leaves on record what it abandons), `DropAndStopInv` (rows go and it
ends) and `DropAndPurgeInv` (rows go and it turns to their objects); the other calls
have a lemma each; `StartInv`, `CommitTxInv` and `StepInv` assemble them. For the
refinement `StatusStep` lists the five things a step can do to the status column.

`CatalogProofs` proves from `CatalogAssumption` and `BytesAssumption`, for any number of
requests, rows and failures: `CatalogInvariant`, and from it `CatalogTypes`,
`SizesStayExact` (`StatsExact`), `NamesStayUnique` (`NamesUnique`) and
`UploadsDoNotDeadlock` (`UploadsNeverStuck`). `StatsExact` is about committed rows and
holds at a commit only because of what the transaction did before, so `CatalogInv` speaks
of the tables as each transaction will leave them: what it wrote it has locked
(`WritesLocked`), ids are drawn once (`Once`, `Drawn`), the bytes of a version it has
locked are exact in its view and a file it changed changes no others (`BytesExact`), and
so are the sums of an artifact it has locked once the triggers of its versions have run
(`SumsExact`). Exclusive locks make the views of two transactions independent, so a commit
of one leaves the other's facts alone: lemmas about `View` under a foreign commit carry
that. `BytesAssumption` says what summing means, one file at a time; the instance's
`MCBytes` is checked against it. The deadlock theorem is a rank argument: uploads hold
files, then versions, then artifacts, so in a circle of them some request would wait for a
lock below one it holds (`LocksOrdered`).

`CascadeInvariant` adds the foreign keys, for the same transactions. `ParentsLive` is about
committed rows; `Cascades` says for each transaction why it will still hold when it commits.
A version it inserted refers to an artifact it holds a share lock on, which a delete's update
lock excludes, so the artifact cannot go before the insert commits. An artifact it
deleted has live versions only among the rows the statement has still to reach. A version it
deleted has files only while its cascade or its trigger is still to come. A file may still be
inserted after a delete has selected its versions; the cascade reads the files when it has
the version's lock, which keeps further ones out, and so takes it too.
TLC has checked `CascadeInv` together with `CatalogInv` on the instance of `MCCatalog`.

Over the same tables, with `ListingsAssumption`:

* `PagesStayPartitioned` (`PagesPartition`), assuming `OffsetsFit`. Every ORDER BY ends in a
  unique column, so it allows exactly one order: `OneOrder` (two orders that agree in their
  least difference are equal) and `OrderExists` (the position of a row is the number of rows
  that do not come after it). Pages cut from one list tile it (`PagesTile`: a position is on
  the page its quotient by the size says, and on no other). Without `OffsetsFit` the theorem would
  be false: the offset wraps around.
* `ViewsStayAgreed` (`ViewsAgree`) needs both invariants. That the stored count and the row
  count agree is `StatsExact`; that a view which starts from files finds the artifact a filter
  starts from is `ParentsLive`; and that the stored totals of artifacts add up to the bytes of
  all files (`StorageAgrees`) is an exchange of two sums.

The sums are those of the community modules' folds and of `BytesOf`, for sets of any size. The
library's induction theorems cannot be applied here, so the few inductions are made by a
least counterexample in the naturals (`LeastOf`): `SumRow` takes one row out of a sum, and
`RowByRow` says that a family of subsets that contains the empty set and is closed under
adding a row contains every finite set.

`VersionsProofs` proves from `VersionsAssumption`, for any versions, tags, filters and
times: `VersionsTypeCorrect` (`TypeOK`, which contains the foreign key of tags and is
inductive) and `ProtectedSurvive` (`BulkSparesProtected`, an action property that needs the
foreign key: a tag that stands protects the version it points at because that version is
one of its own artifact). On top of the types:

* `KeepLastIsExact` (`KeepLastExact`). `TypeOK` says that live versions of an artifact differ
  in their number (the unique index), and `Below` is a strict total order on numbers, so of two
  versions the greater has strictly fewer above it (`NewerShrinks`). The lowest kept version
  and those above it are all that is kept, and what is above the greatest one not kept is
  kept: that bounds their number from both sides (`TopExact`).
* `FiltersSplit` (`FiltersPartition`), from the totality of the same order and from what
  the file states mean.
* `NewestAreKept`: `Spec => NewestKept`, assuming `KeepLastFits` (every keepLast fits into an
  int32). The other conditions of a filter only make the list shorter, and `toInt32` is the
  identity below 2^31: the conversion is all that stands against the property, and
  `keep_last_wrap` shows that without the assumption it is false.

`RetentionProofs` proves from both assumptions: `RetentionInvariance`, whose part
`FilterRight` says that a filter waiting for the runner is the rendering of its rule at
some earlier time; `RetentionTypeCorrect` (`RetentionTypeOK`: of the reported filters the bulk
delete refuses only those from before the year 0); and `MergedRulesAreConservative`
(`RuleConservative`). The last rests on `MergeBounds` (each field of a merged rule is at
least that of every policy that sets it; the maximum exists because policies are bounded
by int32), `ToInt32Same`, `TruncatedBelow`, and on time only moving on.

`BackupPipeProofs` proves from `SizesAssumption`, for dumps of any length, any part size and
any part limit, `BackupInvariance` and from it `BackupTypes`, `BackupsNeverTruncated` and
`BackupSuccessIsWhole`. The invariant `BackupInv` adds to the two properties: how far the
writer is (`WriterInv`), that the pipe ends normally only after a dump that succeeded
(`PipeInv`), that the chunks which left the pipe are in the part being read, with a
worker, or stored, unless an error is set (`ChunksInv`), and what an upload without an
error published (`PublishedInv`).

`RestoreProofs` proves from `KeysAssumption` and `NilAssumption`, for any rows, prefixes,
backups and times: `RestoreInvariance`, and from it `RestoreTypes` (`TypeOK`),
`SuccessHasLoadedAll` (`SuccessLoadsAll`), `DumpIsAccepted` (`DumpAccepted`) and
`UnforcedDropsNothing` (`UnforcedSparesData`). `RestoreInv` adds what psql has left to run
(`InputInv`): no line an old server refuses, at most one that drops, before those that load,
and each row of the backup is still to be loaded or is there to stay; and what an unforced
restore found (`UnforcedInv`): no artifact, so those that are there until its drop were created
after its check. The base case of `InputInv` is about the filter: `stripIncompatibleSettings`
removes the setting from the preamble and keeps every line after it, among them the rows that
read like the setting. `LatestIsOwn` (`LatestIsNewestOwn`) assumes nothing about the other
prefixes: string order on keys is total, and among keys of one prefix it is the order of their
times, so the key that sorts last is the newest of this instance, whatever the order the jobs
finished in, or one of another instance that is listed too.

`PrefixMigrationProofs` proves from `PrefixesAssumption` `MigrationInvariance`,
`MigrationTypes`, `CopiesHaveSource`, `MarkerStaysHonest` and `FilesStayReadable`, for any
files, prefixes, pods, upgrades and attempts. `MigrationInv` adds: pods of the current
upgrade have its prefix (`PodsKnow`); a pod whose resourceVersion is still current has
copied, or has yet to copy, every file that is not stranded (`CopyInv`); servers find
theirs (`ServersRead`). `CopiesHaveSource` also needs that what a pod has listed had been
stored (`ListedStored`).

`MetricsCacheProofs` proves from `CacheAssumption`, for any callers and TTL,
`CacheInvariance`, `CacheTypes`, `AnswersNeverGoBack`, `AnswersAreCoherent` and
`ErrorsComeFromQueries`. `CacheInv` adds: one caller runs the load and whoever waits has
one to wait for (`FlightInv`); what a load has read (`LoadInv`); what is cached is not
older than any answer and not newer than what the running load has read (`OrderInv`).

Every safety property of every passing run, invariant or action property, is stated by a
theorem. Only model-checked are the liveness properties `UploadsSettle`, `OrphansRemoved`,
`JobEnds`, `AllAnswered` and `AllEnd` (fairness and ENABLED are beyond the prover), and the
properties of the four runs that show a violation, which are false; `NewestKept` is proved
under the assumption that makes it true.

## 6. Not modelled

Responses and status codes, and the handlers that fetch one row for display; authentication
(one review call per request, no state); configuration, routing, serialisation and the
in-cluster client, which have no state. The parser of semantic versions. Names of types,
which a unique index keeps apart and only filters read. Artifact updates, which write the
description under the lock of their row. The order of the maintenance lists. Of the jobs:
trimming of slashes in prefixes, helm rollback (the chart runs no hook on it), panics
inside a load.
