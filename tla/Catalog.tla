------------------------------ MODULE Catalog ------------------------------
(***************************************************************************)
(* The artifact, version and file tables under concurrent transactions:    *)
(* the size statistics the triggers of migration 000009 keep, the unique   *)
(* artifact name, and the row locks that requests wait for.                *)
(*                                                                         *)
(* A transaction runs at READ COMMITTED: its statements see the committed  *)
(* rows under its own writes, and take one row lock after the other.  A    *)
(* row another transaction has locked is waited for and then looked at     *)
(* again.  Triggers run inside the statement that fires them, foreign keys *)
(* first (their triggers sort before the ones of the migration).           *)
(*                                                                         *)
(* Operators named X_something are seeded bugs of X.                       *)
(***************************************************************************)
EXTENDS Integers, FiniteSets, FiniteSetsExt

CONSTANTS
  Procs,        \* requests of any server that run at the same time
  Arts, Vers, Files,     \* row ids, each drawn once from its sequence
  NameOf,       \* artifact id -> full_name it is created with
  ArtOf,        \* version id -> artifact id
  VerOf,        \* file id -> version id
  SizeOf,       \* file id -> size_bytes once it is stored
  Bytes(_),     \* SUM(size_bytes) of a set of files
  MaxRequests,  \* bound on the requests of a behaviour
  MaxFaults,    \* bound on the statements that fail for a reason of their own
  None          \* no version

Names == {NameOf[a] : a \in Arts}

ASSUME CatalogAssumption ==
  /\ DOMAIN NameOf = Arts
  /\ ArtOf \in [Vers -> Arts]
  /\ VerOf \in [Files -> Vers]
  /\ SizeOf \in [Files -> Nat]
  /\ MaxRequests \in Nat
  /\ MaxFaults \in Nat
  /\ None \notin Vers

\* Bytes is the sum of the sizes.
ASSUME BytesAssumption ==
  /\ Bytes({}) = 0
  /\ \A S \in SUBSET Files : Bytes(S) \in Nat
  /\ \A S \in SUBSET Files : \A f \in Files \ S : Bytes(S \cup {f}) = Bytes(S) + SizeOf[f]

VARIABLES
  tab,     \* the committed tables: art, ver and file states, the columns bytes and stats
  mine,    \* request -> the rows its transaction wrote, table by table
  locks,   \* request -> the row locks it holds
  req,     \* request -> what it does
  at,      \* request -> the statement or trigger it is in
  want,    \* request -> the row lock it asks for next
  todo,    \* request -> rows its statement has not reached yet
  queue,   \* request -> versions whose AFTER trigger has not run yet
  cur,     \* request -> the version its triggers are about
  left,    \* requests that may still come
  faults   \* failures that may still happen

txn  == <<req, at, want, todo, queue, cur>>
vars == <<tab, mine, locks, req, at, want, todo, queue, cur, left, faults>>

Idle    == [kind |-> "none"]
Empty   == [x \in {} |-> x]
NoRows  == [art |-> Empty, ver |-> Empty, file |-> Empty, bytes |-> Empty, stats |-> Empty]
Present == {"PENDING", "AVAILABLE", "ERROR"}
Changes == {"AVAILABLE", "ERROR", "gone"}

-----------------------------------------------------------------------------
(* Tables as a transaction sees them                                        *)

\* w over t: rows written hide rows read.
Over(w, t) == [x \in DOMAIN t |-> IF x \in DOMAIN w THEN w[x] ELSE t[x]]

\* The writes m and e in row or column x of a table.
Write(m, table, x, e) ==
  [m EXCEPT ![table] = [y \in DOMAIN @ \cup {x} |-> IF y = x THEN e ELSE @[y]]]

Merge(w, t) == [art   |-> Over(w.art, t.art),
                ver   |-> Over(w.ver, t.ver),
                file  |-> Over(w.file, t.file),
                bytes |-> Over(w.bytes, t.bytes),
                stats |-> Over(w.stats, t.stats)]

\* What the next statement of p reads, and what its commit makes of the tables.
View(p) == Merge(mine[p], tab)

LiveVers(T, a) == {v \in Vers : ArtOf[v] = a /\ T.ver[v] = "live"}
FilesOf(T, v)  == {f \in Files : VerOf[f] = v /\ T.file[f] \in Present}

\* What a file in status s adds to total_bytes, and the files that add something.
Counted(f, s) == IF s = "AVAILABLE" THEN SizeOf[f] ELSE 0
Avail(T, v)   == {f \in Files : VerOf[f] = v /\ Counted(f, T.file[f]) # 0}

\* COUNT(*), MAX(total_bytes) and SUM(total_bytes) over the versions in m.
Sums(m) == [count   |-> Cardinality(DOMAIN m),
            largest |-> Max({m[v] : v \in DOMAIN m} \cup {0}),
            total   |-> MapThenSumSet(LAMBDA v : m[v], DOMAIN m)]

Stats(T, a) == Sums([v \in LiveVers(T, a) |-> T.bytes[v]])

-----------------------------------------------------------------------------
(* Row locks (PostgreSQL)                                                   *)

Art(a)  == <<"art", a>>
Ver(v)  == <<"ver", v>>
File(f) == <<"file", f>>
Name(n) == <<"name", n>>

Lock(r, m) == [row |-> r, mode |-> m]
NoLock     == Lock(<<"none">>, "none")

\* FOR KEY SHARE ("share"), FOR NO KEY UPDATE ("nokey") and FOR UPDATE ("update").
Conflict(m, n) == m = "update" \/ n = "update" \/ (m = "nokey" /\ n = "nokey")

\* q holds a lock that p has to wait for.
Blocks(q, p) ==
  /\ q # p
  /\ \E l \in locks[q] : l.row = want[p].row /\ Conflict(l.mode, want[p].mode)

Granted(p) == \A q \in Procs : ~Blocks(q, p)

Take(p, L) == locks' = [locks EXCEPT ![p] = @ \cup L]

\* Requests that all wait for one another.
Stuck(S) == S # {} /\ \A p \in S : \E q \in S : Blocks(q, p)

-----------------------------------------------------------------------------
(* Where a transaction stands                                               *)

Goto(p, s, w, t, q, v) ==
  /\ at' = [at EXCEPT ![p] = s]
  /\ want' = [want EXCEPT ![p] = w]
  /\ todo' = [todo EXCEPT ![p] = t]
  /\ queue' = [queue EXCEPT ![p] = q]
  /\ cur' = [cur EXCEPT ![p] = v]

\* The AFTER triggers of one of the versions Q: its files go by the foreign key,
\* then its artifact is brought up to date.  After the last one the transaction
\* commits.  T are the tables as they are then.
NextTrigger(p, T, Q) ==
  \/ /\ Q = {}
     /\ Goto(p, "commit", NoLock, {}, {}, None)
  \/ \E v \in Q :
       \/ /\ FilesOf(T, v) = {}
          /\ Goto(p, "lock", Lock(Art(ArtOf[v]), "update"), {}, Q, v)
       \/ \E f \in FilesOf(T, v) :
            Goto(p, "cascade", Lock(File(f), "update"), FilesOf(T, v), Q, v)

Begin(p, r, s, w, t) ==
  /\ at[p] = "idle"
  /\ left > 0
  /\ left' = left - 1
  /\ req' = [req EXCEPT ![p] = r]
  /\ Goto(p, s, w, t, {}, None)
  /\ UNCHANGED <<tab, mine, locks, faults>>

End_noRollback(p) ==
  /\ locks' = IF at[p] = "commit" THEN [locks EXCEPT ![p] = {}] ELSE locks
  /\ mine' = [mine EXCEPT ![p] = NoRows]
  /\ req' = [req EXCEPT ![p] = Idle]
  /\ Goto(p, "idle", NoLock, {}, {}, None)

\* The transaction is over and its locks are gone; so is what it did not commit.
End(p) ==
  /\ locks' = [locks EXCEPT ![p] = {}]
  /\ mine' = [mine EXCEPT ![p] = NoRows]
  /\ req' = [req EXCEPT ![p] = Idle]
  /\ Goto(p, "idle", NoLock, {}, {}, None)

\* A statement that finds no row, or a constraint that refuses one: the handler
\* answers and its transaction is rolled back.
GiveUp(p) == End(p) /\ UNCHANGED <<tab, left, faults>>

Unused(table, id) == tab[table][id] = "none" /\ \A q \in Procs : req[q] # [kind |-> table, id |-> id]

-----------------------------------------------------------------------------
(* Creating artifacts, versions and files                                   *)

\* GetRegistryArtifactByName finds no artifact of that name; else 409.
CreateArtifact(p, a) ==
  /\ Unused("art", a)
  /\ \A b \in Arts : tab.art[b] = "live" => NameOf[b] # NameOf[a]
  /\ Begin(p, [kind |-> "art", id |-> a], "name", Lock(Name(NameOf[a]), "update"), {})

InsertArtifact_noIndex(p) ==
  \E a \in Arts :
    /\ at[p] = "name" /\ req[p].id = a
    /\ mine' = [mine EXCEPT ![p] = Write(Write(@, "art", a, "live"), "stats", a, Sums(Empty))]
    /\ Take(p, {Lock(Art(a), "update")})
    /\ Goto(p, "commit", NoLock, {}, {}, None)
    /\ UNCHANGED <<tab, req, left, faults>>

\* CreateRegistryArtifact.  The unique index makes it wait for a transaction that
\* inserted or deleted a row with that name; a row that is there then is a unique
\* violation, answered 500.
InsertArtifact(p) ==
  /\ at[p] = "name"
  /\ Granted(p)
  /\ LET a == req[p].id
     IN  \/ /\ \A b \in Arts : tab.art[b] = "live" => NameOf[b] # NameOf[a]
            /\ mine' = [mine EXCEPT ![p] = Write(Write(@, "art", a, "live"), "stats", a, Sums(Empty))]
            /\ Take(p, {want[p], Lock(Art(a), "update")})
            /\ Goto(p, "commit", NoLock, {}, {}, None)
            /\ UNCHANGED <<tab, req, left, faults>>
         \/ /\ \E b \in Arts : tab.art[b] = "live" /\ NameOf[b] = NameOf[a]
            /\ GiveUp(p)

\* GetRegistryArtifact finds the artifact; else 404.
CreateVersion(p, v) ==
  /\ Unused("ver", v)
  /\ tab.art[ArtOf[v]] = "live"
  /\ Begin(p, [kind |-> "ver", id |-> v], "fkey", Lock(Art(ArtOf[v]), "share"), {})

\* CreateArtifactVersion: the foreign key locks the artifact against deletes, then
\* the trigger of the migration runs.  An artifact that is gone is an error.
InsertVersion(p) ==
  /\ at[p] = "fkey"
  /\ Granted(p)
  /\ LET v == req[p].id
         a == ArtOf[v]
     IN  \/ /\ tab.art[a] = "live"
            /\ mine' = [mine EXCEPT ![p] = Write(Write(@, "ver", v, "live"), "bytes", v, 0)]
            /\ Take(p, {want[p], Lock(Ver(v), "update")})
            /\ Goto(p, "lock", Lock(Art(a), "update"), {}, {v}, v)
            /\ UNCHANGED <<tab, req, left, faults>>
         \/ /\ tab.art[a] # "live"
            /\ GiveUp(p)

\* CreateArtifactFile, a transaction of its own that holds nothing while it waits
\* for the version its foreign key locks.  A PENDING row adds no bytes.
InsertFile(f) ==
  /\ left > 0
  /\ tab.file[f] = "none"
  /\ tab.ver[VerOf[f]] = "live"
  /\ \A p \in Procs : Lock(Ver(VerOf[f]), "update") \notin locks[p]
  /\ tab' = [tab EXCEPT !.file[f] = "PENDING"]
  /\ left' = left - 1
  /\ UNCHANGED <<mine, locks, txn, faults>>

-----------------------------------------------------------------------------
(* A file changes: the trigger chain file, version, artifact                *)

\* UpdateArtifactFileStored, UpdateArtifactFileStatus or DeleteArtifactFile.
ChangeFile(p, f, to) ==
  /\ \/ to = "AVAILABLE" /\ tab.file[f] = "PENDING"
     \/ to = "ERROR" /\ tab.file[f] \in {"PENDING", "AVAILABLE"}
     \/ to = "gone" /\ tab.file[f] \in Present
  /\ Begin(p, [kind |-> "file", id |-> f, to |-> to], "file", Lock(File(f), "update"), {})

\* What the change of its file, which p has locked, does to the bytes of the version.
Delta(p) == LET f == req[p].id IN Counted(f, req[p].to) - Counted(f, tab.file[f])

WriteFile_keyShare(p) ==
  /\ at[p] = "file"
  /\ Granted(p)
  /\ LET f == req[p].id
         v == VerOf[f]
     IN  \/ /\ tab.file[f] \in Present
            /\ \A q \in Procs : Lock(Ver(v), "update") \notin locks[q]
            /\ mine' = [mine EXCEPT ![p] = Write(@, "file", f, req[p].to)]
            /\ Take(p, {want[p], Lock(Ver(v), "share")})
            /\ IF Delta(p) # 0
               THEN Goto(p, "bytes", Lock(Ver(v), "update"), {}, {}, v)
               ELSE Goto(p, "commit", NoLock, {}, {}, None)
            /\ UNCHANGED <<tab, req, left, faults>>
         \/ /\ tab.file[f] \notin Present
            /\ GiveUp(p)

WriteFile(p) ==
  /\ at[p] = "file"
  /\ Granted(p)
  /\ LET f == req[p].id
         v == VerOf[f]
     IN  \/ /\ tab.file[f] \in Present
            /\ mine' = [mine EXCEPT ![p] = Write(@, "file", f, req[p].to)]
            /\ Take(p, {want[p]})
            /\ IF Delta(p) # 0
               THEN Goto(p, "bytes", Lock(Ver(v), "nokey"), {}, {}, v)
               ELSE Goto(p, "commit", NoLock, {}, {}, None)
            /\ UNCHANGED <<tab, req, left, faults>>
         \/ /\ tab.file[f] \notin Present
            /\ GiveUp(p)

\* registry_file_sync_version_bytes: total_bytes + delta on the latest row of the
\* version, if there still is one.
AddBytes(p) ==
  /\ at[p] = "bytes"
  /\ Granted(p)
  /\ LET v == cur[p]
     IN  \/ /\ tab.ver[v] = "live"
            /\ mine' = [mine EXCEPT ![p] = Write(@, "bytes", v, tab.bytes[v] + Delta(p))]
            /\ Take(p, {want[p]})
            /\ Goto(p, "lock", Lock(Art(ArtOf[v]), "update"), {}, {v}, v)
         \/ /\ tab.ver[v] # "live"
            /\ Goto(p, "commit", NoLock, {}, {}, None)
            /\ UNCHANGED <<mine, locks>>
  /\ UNCHANGED <<tab, req, left, faults>>

LockArtifact_none(p) ==
  /\ at[p] = "lock"
  /\ Goto(p, "stats", NoLock, {}, queue[p], cur[p])
  /\ UNCHANGED <<tab, mine, locks, req, left, faults>>

\* registry_version_sync_artifact_stats, PERFORM ... FOR UPDATE: no row, no lock,
\* when the artifact is gone or goes with this transaction.
LockArtifact(p) ==
  /\ at[p] = "lock"
  /\ Granted(p)
  /\ IF View(p).art[ArtOf[cur[p]]] = "live" THEN Take(p, {want[p]}) ELSE UNCHANGED locks
  /\ Goto(p, "stats", NoLock, {}, queue[p], cur[p])
  /\ UNCHANGED <<tab, mine, req, left, faults>>

\* Its UPDATE, on a snapshot of its own; then the triggers of the next version.
RecomputeStats(p) ==
  /\ at[p] = "stats"
  /\ LET a == ArtOf[cur[p]]
     IN  mine' = IF View(p).art[a] = "live"
                 THEN [mine EXCEPT ![p] = Write(@, "stats", a, Stats(View(p), a))]
                 ELSE mine
  /\ NextTrigger(p, View(p), queue[p] \ {cur[p]})
  /\ UNCHANGED <<tab, locks, req, left, faults>>

-----------------------------------------------------------------------------
(* Deletes                                                                  *)

\* DeleteArtifactVersion, DeleteUnprotectedVersionsByIDs or
\* DeleteVersionsWithoutFiles, whatever they select.
DeleteVersions(p, V) ==
  /\ V # {} /\ \A v \in V : tab.ver[v] = "live"
  /\ \E v \in V : Begin(p, [kind |-> "delete"], "rows", Lock(Ver(v), "update"), V)

\* The statement reaches the next row; one that is gone meanwhile is skipped.
\* The triggers run when all rows are done.
TakeVersion(p) ==
  /\ at[p] = "rows"
  /\ Granted(p)
  /\ \E v \in todo[p] :
       LET rest == todo[p] \ {v}
           Q    == IF tab.ver[v] = "live" THEN queue[p] \cup {v} ELSE queue[p]
       IN  /\ want[p].row = Ver(v)
           /\ IF tab.ver[v] = "live"
              THEN /\ mine' = [mine EXCEPT ![p] = Write(@, "ver", v, "gone")]
                   /\ Take(p, {want[p]})
              ELSE UNCHANGED <<mine, locks>>
           /\ \/ rest = {} /\ NextTrigger(p, View(p), Q)
              \/ \E w \in rest : Goto(p, "rows", Lock(Ver(w), "update"), rest, Q, None)
  /\ UNCHANGED <<tab, req, left, faults>>

\* ON DELETE CASCADE.  The bytes of a file that goes with its version are nobody's.
TakeFile(p) ==
  /\ at[p] = "cascade"
  /\ Granted(p)
  /\ \E f \in todo[p] :
       LET rest == todo[p] \ {f}
       IN  /\ want[p].row = File(f)
           /\ IF tab.file[f] \in Present
              THEN /\ mine' = [mine EXCEPT ![p] = Write(@, "file", f, "gone")]
                   /\ Take(p, {want[p]})
              ELSE UNCHANGED <<mine, locks>>
           /\ \/ rest = {} /\ Goto(p, "lock", Lock(Art(ArtOf[cur[p]]), "update"), {}, queue[p], cur[p])
              \/ \E g \in rest : Goto(p, "cascade", Lock(File(g), "update"), rest, queue[p], cur[p])
  /\ UNCHANGED <<tab, req, left, faults>>

\* DeleteRegistryArtifact
DeleteArtifact(p, a) ==
  /\ tab.art[a] = "live"
  /\ Begin(p, [kind |-> "cascade", id |-> a], "art", Lock(Art(a), "update"), {})

\* Its row; the foreign key of the versions then deletes those it has.
TakeArtifact(p) ==
  /\ at[p] = "art"
  /\ Granted(p)
  /\ LET a == req[p].id
         V == LiveVers(tab, a)
     IN  \/ /\ tab.art[a] = "live"
            /\ mine' = [mine EXCEPT ![p] = Write(@, "art", a, "gone")]
            /\ Take(p, {want[p], Lock(Name(NameOf[a]), "update")})
            /\ \/ V = {} /\ Goto(p, "commit", NoLock, {}, {}, None)
               \/ \E v \in V : Goto(p, "rows", Lock(Ver(v), "update"), V, {}, None)
            /\ UNCHANGED <<tab, req, left, faults>>
         \/ /\ tab.art[a] # "live"
            /\ GiveUp(p)

\* DeleteIncompleteFiles, whatever it selects.
DeleteIncompleteFiles(p, F) ==
  /\ F # {} /\ \A f \in F : tab.file[f] \in {"PENDING", "ERROR"}
  /\ \E f \in F : Begin(p, [kind |-> "sweep"], "sweep", Lock(File(f), "update"), F)

\* The status is looked at again once the row is locked; an AVAILABLE one stays.
SweepFile(p) ==
  /\ at[p] = "sweep"
  /\ Granted(p)
  /\ \E f \in todo[p] :
       LET rest == todo[p] \ {f}
       IN  /\ want[p].row = File(f)
           /\ IF tab.file[f] \in {"PENDING", "ERROR"}
              THEN /\ mine' = [mine EXCEPT ![p] = Write(@, "file", f, "gone")]
                   /\ Take(p, {want[p]})
              ELSE UNCHANGED <<mine, locks>>
           /\ \/ rest = {} /\ Goto(p, "commit", NoLock, {}, {}, None)
              \/ \E g \in rest : Goto(p, "sweep", Lock(File(g), "update"), rest, {}, None)
  /\ UNCHANGED <<tab, req, left, faults>>

-----------------------------------------------------------------------------
(* How transactions end                                                     *)

Commit(p) ==
  /\ at[p] = "commit"
  /\ tab' = View(p)
  /\ End(p)
  /\ UNCHANGED <<left, faults>>

\* A statement or the commit fails, or the client is gone, at any point.
Fail(p) ==
  /\ at[p] # "idle"
  /\ faults > 0
  /\ faults' = faults - 1
  /\ End(p)
  /\ UNCHANGED <<tab, left>>

\* PostgreSQL finds a cycle and cancels a transaction in it.
BreakDeadlock(p) ==
  /\ \E S \in SUBSET Procs :
       /\ p \in S /\ Stuck(S)
       /\ \A R \in SUBSET S : Stuck(R) => R = S
  /\ GiveUp(p)

Step(p) ==
  \/ InsertArtifact(p) \/ InsertVersion(p)
  \/ WriteFile(p) \/ AddBytes(p) \/ LockArtifact(p) \/ RecomputeStats(p)
  \/ TakeVersion(p) \/ TakeFile(p) \/ TakeArtifact(p) \/ SweepFile(p)
  \/ Commit(p)
  \/ BreakDeadlock(p)

Request(p) ==
  \/ \E a \in Arts : CreateArtifact(p, a) \/ DeleteArtifact(p, a)
  \/ \E v \in Vers : CreateVersion(p, v)
  \/ \E V \in SUBSET Vers : DeleteVersions(p, V)
  \/ \E f \in Files, to \in Changes : ChangeFile(p, f, to)
  \/ \E F \in SUBSET Files : DeleteIncompleteFiles(p, F)

\* Migration 000009 on the rows there are, uploads done or under way: it fills in
\* the columns.
Backfilled(A, V, s) ==
  LET bytes == [v \in Vers |-> IF v \in V THEN Bytes(Avail([file |-> s], v)) ELSE 0]
  IN  [art   |-> [a \in Arts |-> IF a \in A THEN "live" ELSE "none"],
       ver   |-> [v \in Vers |-> IF v \in V THEN "live" ELSE "none"],
       file  |-> s,
       bytes |-> bytes,
       stats |-> [a \in Arts |-> Sums([v \in {u \in V : ArtOf[u] = a} |-> bytes[v]])]]

Init ==
  /\ \E A \in SUBSET Arts, V \in SUBSET Vers, s \in [Files -> {"none", "PENDING", "AVAILABLE"}] :
       /\ \A a, b \in A : NameOf[a] = NameOf[b] => a = b
       /\ \A v \in V : ArtOf[v] \in A
       /\ \A f \in Files : s[f] # "none" => VerOf[f] \in V
       /\ tab = Backfilled(A, V, s)
  /\ mine = [p \in Procs |-> NoRows]
  /\ locks = [p \in Procs |-> {}]
  /\ req = [p \in Procs |-> Idle]
  /\ at = [p \in Procs |-> "idle"]
  /\ want = [p \in Procs |-> NoLock]
  /\ todo = [p \in Procs |-> {}]
  /\ queue = [p \in Procs |-> {}]
  /\ cur = [p \in Procs |-> None]
  /\ left = MaxRequests
  /\ faults = MaxFaults

Next ==
  \/ \E p \in Procs : Request(p) \/ Step(p) \/ Fail(p)
  \/ \E f \in Files : InsertFile(f)

\* A statement that can go on does, and PostgreSQL looks for deadlocks.
Spec == Init /\ [][Next]_vars /\ \A p \in Procs : WF_vars(Step(p))

-----------------------------------------------------------------------------
(* Properties                                                               *)

States == {"none", "live", "gone"}
Rows   == {Name(n) : n \in Names} \cup {Art(a) : a \in Arts}
          \cup {Ver(v) : v \in Vers} \cup {File(f) : f \in Files}
Modes  == {"share", "nokey", "update"}

Partial(w, S, X) == DOMAIN w \subseteq S /\ \A x \in DOMAIN w : w[x] \in X

Tables(t) == DOMAIN t = {"art", "ver", "file", "bytes", "stats"}

Requests == [kind : {"none", "delete", "sweep"}] \cup [kind : {"art", "cascade"}, id : Arts]
            \cup [kind : {"ver"}, id : Vers] \cup [kind : {"file"}, id : Files, to : Changes]

\* Types; a request that is over holds no lock and has left nothing behind; and no
\* two transactions hold locks that exclude each other.
TypeOK ==
  /\ Tables(tab)
  /\ tab.art \in [Arts -> States] /\ tab.ver \in [Vers -> States]
  /\ tab.file \in [Files -> {"none", "gone"} \cup Present]
  /\ tab.bytes \in [Vers -> Int] /\ DOMAIN tab.stats = Arts
  /\ mine = [p \in Procs |-> mine[p]]
  /\ \A p \in Procs :
       /\ Tables(mine[p])
       /\ Partial(mine[p].art, Arts, {"live", "gone"})
       /\ Partial(mine[p].ver, Vers, {"live", "gone"})
       /\ Partial(mine[p].file, Files, Changes)
       /\ Partial(mine[p].bytes, Vers, Int)
       /\ DOMAIN mine[p].stats \subseteq Arts
       /\ at[p] = "idle" => mine[p] = NoRows /\ locks[p] = {}
  /\ locks \in [Procs -> SUBSET [row : Rows, mode : Modes]]
  /\ \A p, q \in Procs : \A l \in locks[p], m \in locks[q] :
       l.row = m.row /\ Conflict(l.mode, m.mode) => p = q
  /\ req \in [Procs -> Requests]
  /\ at \in [Procs -> {"idle", "name", "fkey", "file", "bytes", "lock", "stats",
                       "art", "rows", "cascade", "sweep", "commit"}]
  /\ want \in [Procs -> [row : Rows, mode : Modes] \cup {NoLock}]
  /\ todo \in [Procs -> (SUBSET Vers) \cup (SUBSET Files)]
  /\ queue \in [Procs -> SUBSET Vers]
  /\ cur \in [Procs -> Vers \cup {None}]
  /\ left \in 0..MaxRequests /\ faults \in 0..MaxFaults

\* The stored statistics are what they sum up, at every commit: bytes of a version
\* those of its AVAILABLE files, count, largest and total of an artifact those of
\* its versions (migration 000009, "can't leave stale values behind").
StatsExact ==
  /\ \A v \in Vers : tab.ver[v] = "live" => tab.bytes[v] = Bytes(Avail(tab, v))
  /\ \A a \in Arts : tab.art[a] = "live" => tab.stats[a] = Stats(tab, a)

\* Two artifacts never have the same name, although creates look for the name
\* before they insert (Create; the index is the one that decides).
NamesUnique ==
  \A a, b \in Arts : tab.art[a] = "live" /\ tab.art[b] = "live" /\ NameOf[a] = NameOf[b] => a = b

\* Uploads, file deletes and artifact creates alone never wait for each other in a
\* circle: where requests are stuck one of them creates a version or deletes
\* several rows (the lock order file, version, artifact of the triggers).
UploadsNeverStuck ==
  \A S \in SUBSET Procs : Stuck(S) => \E p \in S : req[p].kind \in {"ver", "delete", "cascade", "sweep"}

\* Every request ends, whoever it waits for (locks are taken in different orders:
\* PostgreSQL's deadlock detection and the rollback on every return are needed).
AllEnd == \A p \in Procs : at[p] # "idle" ~> at[p] = "idle"

-----------------------------------------------------------------------------
(* Why they hold                                                            *)

HoldsU(p, r) == Lock(r, "update") \in locks[p]
HoldsX(p, r) == HoldsU(p, r) \/ Lock(r, "nokey") \in locks[p]

\* A version whose row p has written.
Touched(p) == DOMAIN mine[p].ver \cup DOMAIN mine[p].bytes

\* What p knows at each of its statements.
StageOK(p) ==
  /\ at[p] \in {"name", "fkey", "file", "art"} => mine[p] = NoRows /\ locks[p] = {}
  /\ req[p].kind = "none" <=> at[p] = "idle"
  /\ req[p].kind = "art" => at[p] \in {"name", "commit"}
  /\ req[p].kind = "file" => at[p] \in {"file", "bytes", "lock", "stats", "commit"}
  /\ at[p] = "name" => req[p].kind = "art" /\ want[p] = Lock(Name(NameOf[req[p].id]), "update")
  /\ at[p] = "fkey" => req[p].kind = "ver" /\ want[p] = Lock(Art(ArtOf[req[p].id]), "share")
  /\ at[p] = "art" => req[p].kind = "cascade" /\ want[p] = Lock(Art(req[p].id), "update")
  /\ at[p] = "file" => req[p].kind = "file" /\ want[p] = Lock(File(req[p].id), "update")
  /\ at[p] = "bytes" =>
       /\ req[p].kind = "file" /\ cur[p] = VerOf[req[p].id]
       /\ DOMAIN mine[p].file = {req[p].id} /\ mine[p].file[req[p].id] = req[p].to
       /\ mine[p].art = Empty /\ Touched(p) = {}
       /\ want[p] = Lock(Ver(cur[p]), "nokey")
  /\ at[p] \in {"rows", "cascade", "sweep"} => \E r \in Rows : want[p] = Lock(r, "update")
  /\ at[p] \in {"lock", "stats", "cascade"} => cur[p] \in queue[p]
  /\ at[p] = "lock" => want[p] = Lock(Art(ArtOf[cur[p]]), "update")
  /\ at[p] = "stats" => HoldsU(p, Art(ArtOf[cur[p]])) \/ View(p).art[ArtOf[cur[p]]] = "gone"
  /\ at[p] = "rows" => todo[p] \subseteq Vers /\ cur[p] = None
  /\ at[p] = "cascade" => View(p).ver[cur[p]] = "gone" /\ \A f \in todo[p] : f \in Files /\ VerOf[f] = cur[p]
  /\ at[p] = "sweep" => todo[p] \subseteq Files /\ \A l \in locks[p] : \E f \in Files : l.row = File(f)
  /\ at[p] \in {"commit", "sweep"} => queue[p] = {}
  /\ at[p] \in {"idle", "stats", "commit"} => want[p] = NoLock
  /\ queue[p] \subseteq Touched(p)
  /\ \A v \in queue[p] : v = cur[p] \/ (v \in DOMAIN mine[p].ver /\ mine[p].ver[v] = "gone")

\* What a transaction writes it has locked.
WritesLocked(p) ==
  /\ \A a \in DOMAIN mine[p].art \cup DOMAIN mine[p].stats : HoldsU(p, Art(a))
  /\ \A v \in Touched(p) : HoldsX(p, Ver(v))
  /\ \A f \in DOMAIN mine[p].file : HoldsU(p, File(f))

\* Ids are drawn once: a row is inserted by the one request that drew its id, is
\* there when it is deleted, and is locked only while it is there or is being
\* inserted.
Once(p) ==
  /\ req[p].kind = "art" => tab.art[req[p].id] = "none"
  /\ req[p].kind = "ver" => tab.ver[req[p].id] = "none"
  /\ \A a \in DOMAIN mine[p].art :
       IF mine[p].art[a] = "live" THEN req[p] = [kind |-> "art", id |-> a] ELSE tab.art[a] = "live"
  /\ \A v \in DOMAIN mine[p].ver :
       IF mine[p].ver[v] = "live" THEN req[p] = [kind |-> "ver", id |-> v] ELSE tab.ver[v] = "live"
  /\ \A v \in Touched(p) : tab.art[ArtOf[v]] # "none"
  /\ \A f \in DOMAIN mine[p].file : tab.file[f] \in Present
  /\ \A l \in locks[p] :
       /\ \A a \in Arts : l.row = Art(a) => tab.art[a] # "none" \/ req[p] = [kind |-> "art", id |-> a]
       /\ \A v \in Vers : l.row = Ver(v) => tab.ver[v] # "none" \/ req[p] = [kind |-> "ver", id |-> v]

Drawn == \A p, q \in Procs : req[p].kind \in {"art", "ver"} /\ req[p] = req[q] => p = q

\* A row without the row it refers to does not exist.
Referenced ==
  /\ \A v \in Vers : tab.ver[v] # "none" => tab.art[ArtOf[v]] # "none"
  /\ \A f \in Files : tab.file[f] # "none" => tab.ver[VerOf[f]] # "none"

\* In the tables as p will leave them: the bytes of a version it has locked are
\* exact, a file it has changed changes no bytes but those, ...
BytesExact(p) ==
  /\ \A v \in Vers :
       HoldsX(p, Ver(v)) /\ View(p).ver[v] = "live" => View(p).bytes[v] = Bytes(Avail(View(p), v))
  /\ \A f \in DOMAIN mine[p].file :
       \/ HoldsX(p, Ver(VerOf[f])) \/ at[p] = "bytes" \/ tab.ver[VerOf[f]] = "gone"
       \/ Counted(f, mine[p].file[f]) = Counted(f, tab.file[f])

\* ... and so are the sums of an artifact it has locked once the triggers of its
\* versions have run; artifacts it has not locked lose and gain nothing.
SumsExact(p) ==
  /\ \A a \in Arts :
       HoldsU(p, Art(a)) /\ View(p).art[a] = "live" /\ (\A v \in queue[p] : ArtOf[v] # a)
         => View(p).stats[a] = Stats(View(p), a)
  /\ \A v \in Touched(p) :
       v \in queue[p] \/ HoldsU(p, Art(ArtOf[v])) \/ View(p).art[ArtOf[v]] = "gone"

\* A name is locked by whoever inserts or deletes its artifact.
NamesLocked(p) ==
  /\ \A a \in DOMAIN mine[p].art : mine[p].art[a] = "live" =>
       /\ HoldsU(p, Name(NameOf[a]))
       /\ \A b \in Arts : tab.art[b] = "live" => NameOf[b] # NameOf[a]
  /\ \A l \in locks[p], n \in Names : l.row = Name(n) => \E a \in DOMAIN mine[p].art : NameOf[a] = n

\* Uploads take file, version and artifact in this order.
LocksOrdered(p) ==
  req[p].kind = "file" =>
    /\ at[p] \in {"lock", "stats"} => queue[p] = {cur[p]}
    /\ at[p] = "bytes" => \A l \in locks[p] : \E f \in Files : l.row = File(f)
    /\ at[p] = "lock" =>
         \A l \in locks[p] : (\E f \in Files : l.row = File(f)) \/ (\E v \in Vers : l.row = Ver(v))

CatalogInv ==
  /\ TypeOK /\ Drawn /\ Referenced /\ StatsExact /\ NamesUnique
  /\ \A p \in Procs :
       /\ StageOK(p) /\ WritesLocked(p) /\ Once(p)
       /\ BytesExact(p) /\ SumsExact(p) /\ NamesLocked(p) /\ LocksOrdered(p)

\* Foreign keys: a row that is there has the row it refers to.
ParentsLive ==
  /\ \A v \in Vers : tab.ver[v] = "live" => tab.art[ArtOf[v]] = "live"
  /\ \A f \in Files : tab.file[f] \in Present => tab.ver[VerOf[f]] = "live"

\* An insert keeps the artifact it refers to from going, and a delete has what
\* refers to its row still before it: the versions of an artifact that goes are
\* rows to take, the files of a version that goes are rows of the cascade or those
\* of a trigger to come.
Cascades(p) ==
  /\ at[p] = "rows" => req[p].kind # "ver"
  /\ \A v \in DOMAIN mine[p].ver :
       /\ HoldsU(p, Ver(v))
       /\ IF mine[p].ver[v] = "live"
          THEN Lock(Art(ArtOf[v]), "share") \in locks[p] /\ tab.art[ArtOf[v]] = "live"
          ELSE v \in queue[p] \/ FilesOf(View(p), v) = {}
  /\ \A a \in DOMAIN mine[p].art : mine[p].art[a] = "gone" =>
       \A v \in LiveVers(View(p), a) : at[p] = "rows" /\ v \in todo[p]
  /\ at[p] = "cascade" => FilesOf(View(p), cur[p]) \subseteq todo[p]
  /\ at[p] \in {"lock", "stats"} /\ cur[p] \in DOMAIN mine[p].ver /\ mine[p].ver[cur[p]] = "gone" =>
       FilesOf(View(p), cur[p]) = {}

CascadeInv == ParentsLive /\ \A p \in Procs : Cascades(p)
=============================================================================
