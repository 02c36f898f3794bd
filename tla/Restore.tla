------------------------------ MODULE Restore ------------------------------
(***************************************************************************)
(* `fusion-index restore-db` next to a server, the backup jobs of this and *)
(* of other instances, and a bucket they share.  BackupPipe shows that a   *)
(* backup appears whole or not at all; here it appears in one step.        *)
(*                                                                         *)
(* The database is the set of its rows (artifacts, types, policies and all *)
(* the rest), or NoSchema before the first migration.  A key is the        *)
(* sequence of its characters' codes, because FindLatestBackupKey compares *)
(* keys as strings.  A dump is a sequence of lines: reads is what the text *)
(* of a line looks like, runs what psql makes of it, which for a row of    *)
(* data is the row.                                                        *)
(*                                                                         *)
(* Operators named X_something are seeded bugs of X.                       *)
(***************************************************************************)
EXTENDS Naturals, Sequences, FiniteSets, SequencesExt

CONSTANTS
  Entries,     \* rows clients create in this instance
  Artifacts,   \* those of registry_artifact
  Lookalikes,  \* those whose line in a dump reads like the setting that is dropped
  Prefix,      \* S3_BACKUP_PREFIX of this instance
  Others,      \* the backup prefixes of other instances in the bucket
  Slash,       \* the code of "/"
  MaxTime,     \* bound on the clock, in seconds
  MaxJobs,     \* bound on the backup jobs that run at once
  NoSchema,    \* a database without tables
  Nil          \* no backup

ASSUME KeysAssumption ==
  /\ Prefix \in Seq(Nat)
  /\ Others \subseteq Seq(Nat) \ {Prefix}
  /\ Slash \in Nat
  /\ MaxTime \in Nat \ {0} /\ MaxJobs \in Nat
  /\ IsFiniteSet(Entries)
  /\ Entries \cap {"nothing", "timeout", "drop", NoSchema, Nil} = {}
  /\ \A S \in SUBSET Entries : S # NoSchema
  /\ Artifacts \subseteq Entries
  /\ Lookalikes \subseteq Entries

VARIABLES
  db,        \* the target database
  now,       \* the clock backup keys are stamped with
  dumping,   \* backup jobs of this instance: what each one's dump has read
  backups,   \* the objects in the bucket
  rpc,       \* the restore: the call it makes next
  force,     \* RESTORE_FORCE
  source,    \* the backup it restores
  input,     \* the lines psql has not run yet
  since,     \* artifacts the server created since the restore looked for any
  removed    \* rows the server deleted since psql dropped the tables

vars == <<db, now, dumping, backups, rpc, force, source, input, since, removed>>

Init ==
  /\ db = NoSchema
  /\ now = 1
  /\ dumping = {}
  /\ backups = {}
  /\ rpc = "idle"
  /\ force = FALSE
  /\ source = Nil
  /\ input = <<>>
  /\ since = {}
  /\ removed = {}

-----------------------------------------------------------------------------
(* Keys                                                                    *)

\* The file name of a backup: one code above all others, growing with the
\* fixed-width timestamp in it.
Name(t) == 1000 + t

\* path.Join(S3_BACKUP_PREFIX, filename)
Key(b) == b.prefix \o <<Slash, Name(b.time)>>

\* The order of strings.
Less(s, t) ==
  \/ IsStrictPrefix(s, t)
  \/ \E i \in 1 .. Len(s) : /\ i <= Len(t)
                            /\ SubSeq(s, 1, i - 1) = SubSeq(t, 1, i - 1)
                            /\ s[i] < t[i]

\* ListObjectsV2 returns the keys that start with the prefix.
Listed == {b \in backups : IsPrefix(Prefix, Key(b))}

FindLatestBackupKey_first ==
  CHOOSE b \in Listed : \A c \in Listed : c = b \/ Less(Key(b), Key(c))

\* The greatest listed key.
FindLatestBackupKey ==
  CHOOSE b \in Listed : \A c \in Listed : c = b \/ Less(Key(c), Key(b))

-----------------------------------------------------------------------------
(* The server, the backup jobs and the disaster                            *)

Rows == IF db = NoSchema THEN {} ELSE db

\* The server applies the migrations when it starts, and serves creates and deletes.
ServerStarts ==
  /\ db = NoSchema
  /\ db' = {}
  /\ UNCHANGED <<now, dumping, backups, rpc, force, source, input, since, removed>>

Create(e) ==
  /\ db # NoSchema
  /\ e \notin db
  /\ db' = db \cup {e}
  /\ since' = IF rpc \in {"find", "download", "psql"} THEN since \cup ({e} \cap Artifacts) ELSE since
  /\ UNCHANGED <<now, dumping, backups, rpc, force, source, input, removed>>

Delete(e) ==
  /\ e \in Rows
  /\ db' = db \ {e}
  /\ removed' = IF rpc = "psql" THEN removed \cup {e} ELSE removed
  /\ UNCHANGED <<now, dumping, backups, rpc, force, source, input, since>>

LoseDatabase ==
  /\ rpc = "idle"
  /\ db' = NoSchema
  /\ UNCHANGED <<now, dumping, backups, rpc, force, source, input, since, removed>>

Tick ==
  /\ now < MaxTime
  /\ now' = now + 1
  /\ UNCHANGED <<db, dumping, backups, rpc, force, source, input, since, removed>>

\* A job takes its key from the clock and its dump one snapshot.  Jobs started
\* by hand overlap with the scheduled one and may finish in any order.
BackupStart ==
  /\ Cardinality(dumping) < MaxJobs
  /\ dumping' = dumping \cup {[prefix |-> Prefix, time |-> now, rows |-> db]}
  /\ UNCHANGED <<db, now, backups, rpc, force, source, input, since, removed>>

Put_appends(b) == backups \cup {b}

\* S3 keeps one object per key: a second job of the same second overwrites.
Put(b) == {c \in backups : Key(c) # Key(b)} \cup {b}

BackupEnd(j) ==
  /\ j \in dumping
  /\ dumping' = dumping \ {j}
  /\ backups' \in {backups, Put(j)}
  /\ UNCHANGED <<db, now, rpc, force, source, input, since, removed>>

\* Another instance backs up its own database, of which this one knows nothing.
ForeignBackup(p) ==
  /\ \A b \in backups : b.prefix # p
  /\ backups' = Put([prefix |-> p, time |-> now, rows |-> {}])
  /\ UNCHANGED <<db, now, dumping, rpc, force, source, input, since, removed>>

-----------------------------------------------------------------------------
(* restore-db                                                              *)

RestoreStart(f) ==
  /\ rpc = "idle"
  /\ force' = f
  /\ rpc' = "check"
  /\ UNCHANGED <<db, now, dumping, backups, source, input, since, removed>>

\* The process ends, and what it knew with it.
Exit(code) ==
  /\ rpc' = code
  /\ force' = FALSE
  /\ source' = Nil
  /\ input' = <<>>
  /\ since' = {} /\ removed' = {}

\* A failing query, listing or download ends the process before psql runs.
Fail ==
  /\ rpc \in {"check", "find", "download"}
  /\ Exit("exit1")
  /\ UNCHANGED <<db, now, dumping, backups>>

\* CountRegistryArtifacts looks at one table; a missing table means no data.
TargetHasData == Rows \cap Artifacts # {}

Check_forceInverted ==
  /\ rpc = "check"
  /\ IF TargetHasData /\ force
     THEN Exit("exit1")
     ELSE rpc' = "find" /\ UNCHANGED <<force, source, input, since, removed>>
  /\ UNCHANGED <<db, now, dumping, backups>>

Check ==
  /\ rpc = "check"
  /\ IF TargetHasData /\ ~force
     THEN Exit("exit1")
     ELSE rpc' = "find" /\ UNCHANGED <<force, source, input, since, removed>>
  /\ UNCHANGED <<db, now, dumping, backups>>

\* RESTORE_BACKUP_KEY names a backup, or the latest one is taken.
FindBackup ==
  /\ rpc = "find"
  /\ IF Listed = {}
     THEN Exit("exit1")
     ELSE /\ rpc' = "download" /\ source' = FindLatestBackupKey
          /\ UNCHANGED <<force, input, since, removed>>
  /\ UNCHANGED <<db, now, dumping, backups>>

NamedBackup(b) ==
  /\ rpc = "find"
  /\ rpc' = "download"
  /\ source' = b
  /\ UNCHANGED <<db, now, dumping, backups, force, input, since, removed>>

Line(reads, runs) == [reads |-> reads, runs |-> runs]

\* pg_dump 17: comments and session settings, DROP ... IF EXISTS and CREATE, the
\* rows, then indexes and constraints.  Without a schema there are only settings.
Dump(rows) ==
  <<Line("--", "nothing"), Line("timeout", "timeout"), Line("SET", "nothing")>>
  \o IF rows = NoSchema
     THEN <<>>
     ELSE <<Line("DROP", "drop")>>
          \o [i \in 1..Cardinality(rows) |->
               LET a == SetToSeq(rows)[i]
               IN  Line(IF a \in Lookalikes THEN "timeout" ELSE "data", a)]
          \o <<Line("SET", "nothing"), Line("ALTER", "nothing")>>

isDumpPreamble_noComments(l) == l.reads \in {"SET", "timeout"}

isDumpPreamble(l) == l.reads \in {"--", "SET", "timeout"}

stripIncompatibleSettings_everywhere(d) == SelectSeq(d, LAMBDA l : l.reads # "timeout")

\* Among the lines before the first other statement the setting that servers
\* before 17 refuse is dropped.
stripIncompatibleSettings(d) ==
  LET n == CHOOSE n \in 0..Len(d) :
             /\ \A i \in 1..n : isDumpPreamble(d[i])
             /\ n < Len(d) => ~isDumpPreamble(d[n + 1])
  IN  FlattenSeq([i \in 1..n |-> IF d[i].reads = "timeout" THEN <<>> ELSE <<d[i]>>])
      \o SubSeq(d, n + 1, Len(d))

Download ==
  /\ rpc = "download"
  /\ rpc' = "psql"
  /\ input' = stripIncompatibleSettings(Dump(source.rows))
  /\ UNCHANGED <<db, now, dumping, backups, force, source, since, removed>>

\* psql runs the dump statement by statement, each its own transaction, on an old
\* server; ON_ERROR_STOP ends it at a statement the server refuses.
PsqlLine ==
  /\ rpc = "psql" /\ input # <<>>
  /\ LET does == Head(input).runs
     IN  /\ db' = IF does = "drop" THEN {} ELSE IF does \in Entries THEN db \cup {does} ELSE db
         /\ IF does = "timeout"
            THEN Exit("exit1")
            ELSE /\ input' = Tail(input)
                 /\ removed' = IF does = "drop" THEN {} ELSE removed
                 /\ UNCHANGED <<rpc, force, source, since>>
  /\ UNCHANGED <<now, dumping, backups>>

\* Another statement fails and ends psql; or the download or the decompression
\* breaks off: psql then sees the end of its input and exits with 0, but Run
\* returns the error of the copy to its stdin.
PsqlStops ==
  /\ rpc = "psql"
  /\ Exit("exit1")
  /\ UNCHANGED <<db, now, dumping, backups>>

RestoreDone ==
  /\ rpc = "psql" /\ input = <<>>
  /\ Exit("exit0")
  /\ UNCHANGED <<db, now, dumping, backups>>

\* The operator looks at the outcome and may try again.
Again ==
  /\ rpc \in {"exit0", "exit1"}
  /\ rpc' = "idle"
  /\ UNCHANGED <<db, now, dumping, backups, force, source, input, since, removed>>

Environment ==
  \/ ServerStarts \/ LoseDatabase \/ Tick \/ BackupStart
  \/ \E e \in Entries : Create(e) \/ Delete(e)
  \/ \E j \in dumping : BackupEnd(j)
  \/ \E p \in Others : ForeignBackup(p)

RestoreSteps ==
  \/ \E f \in BOOLEAN : RestoreStart(f)
  \/ Check \/ FindBackup \/ Download \/ PsqlLine
  \/ \E b \in backups : NamedBackup(b)
  \/ Fail \/ PsqlStops \/ RestoreDone \/ Again

Next == Environment \/ RestoreSteps

Spec == Init /\ [][Next]_vars

-----------------------------------------------------------------------------
(* Properties                                                              *)

Backup == [prefix : Others \cup {Prefix}, time : 1 .. MaxTime,
           rows : (SUBSET Entries) \cup {NoSchema}]

ASSUME NilAssumption == Nil \notin Backup

Lines == [reads : {"--", "timeout", "SET", "DROP", "data", "ALTER"},
          runs  : Entries \cup {"nothing", "timeout", "drop"}]

\* The type invariant; a key names one object.
TypeOK ==
  /\ db \in (SUBSET Entries) \cup {NoSchema}
  /\ now \in 1 .. MaxTime
  /\ dumping \subseteq Backup
  /\ backups \subseteq Backup
  /\ \A b, c \in backups : Key(b) = Key(c) => b = c
  /\ rpc \in {"idle", "check", "find", "download", "psql", "exit0", "exit1"}
  /\ force \in BOOLEAN
  /\ source \in Backup \cup {Nil}
  /\ input \in Seq(Lines)
  /\ since \subseteq Artifacts
  /\ removed \subseteq Entries

Own == {b \in backups : b.prefix = Prefix}

\* FindLatestBackupKey picks this instance's most recent backup, in whatever order
\* the jobs finished and wherever the keys of others sort, or one of another instance
\* whose keys begin with this one's prefix, when the bucket holds any.
LatestIsNewestOwn ==
  [][FindBackup /\ source' # Nil =>
       \/ source' \in Own /\ \A b \in Own : b.time <= source'.time
       \/ source' \in Listed \ Own]_vars

\* The comment of FindLatestBackupKey: lexicographic order is safe because it
\* agrees with the order in time.
LatestIsMostRecent ==
  [][FindBackup /\ source' # Nil => \A b \in Listed : b.time <= source'.time]_vars

\* A restore that reports success has loaded every row of its backup, whatever the
\* rows look like ("table data can never be altered"); a server next to it may
\* have deleted some again.
SuccessLoadsAll ==
  [][rpc' = "exit0" /\ rpc # "exit0" =>
       source # Nil /\ (source.rows # NoSchema => source.rows \subseteq Rows' \cup removed)]_vars

\* A server older than the pg_dump of the image refuses no line of the dump, so a
\* restore fails only when something else does (stripIncompatibleSettings).
DumpAccepted == [][PsqlLine => rpc' = "psql"]_vars

\* What psql takes away in a restore that was not forced was created after the
\* restore looked (runRestoreDB, targetHasData), however late psql runs, or is a
\* row of a table it did not look at: the dump drops every table.
UnforcedSparesData ==
  [][PsqlLine /\ ~force => Rows \ Rows' \subseteq since \cup (Entries \ Artifacts)]_vars

-----------------------------------------------------------------------------
(* Why they hold                                                            *)

Drops == {i \in DOMAIN input : input[i].runs = "drop"}
Loads == {i \in DOMAIN input : input[i].runs \in Entries}

\* The lines psql has left: none that an old server refuses, at most one that drops,
\* before all that load; a table to load into; and each row of the backup is still
\* to be loaded, or is there to stay unless the server deletes it.
InputInv ==
  /\ \A i \in DOMAIN input : input[i].runs # "timeout"
  /\ \A i, j \in Drops : i = j
  /\ \A i \in Drops, j \in Loads : i < j
  /\ Loads # {} => db # NoSchema \/ Drops # {}
  /\ source.rows # NoSchema =>
       \A a \in source.rows : (\E i \in Loads : input[i].runs = a) \/ (a \in Rows \cup removed /\ Drops = {})

\* A restore that is not forced found no artifact, so those that are there came later,
\* until its drop is behind it.
UnforcedInv ==
  ~force /\ rpc \in {"find", "download", "psql"} =>
    Rows \cap Artifacts \subseteq since \/ (rpc = "psql" /\ Drops = {})

RestoreInv ==
  /\ TypeOK
  /\ IsFiniteSet(backups)
  /\ rpc \in {"idle", "check", "find", "exit0", "exit1"} => source = Nil
  /\ rpc \in {"download", "psql"} => source # Nil
  /\ rpc = "psql" => InputInv
  /\ UnforcedInv
=============================================================================
