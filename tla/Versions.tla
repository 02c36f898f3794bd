------------------------------ MODULE Versions ------------------------------
(***************************************************************************)
(* Versions, the tags that protect them, and the bulk delete by filter.    *)
(* The filters are the ones the version lists and the bulk deletes share   *)
(* (ListVersionsFiltered): a parameter that was not given is Null and      *)
(* ignored, the others combine with AND.  A bulk delete lists, and deletes *)
(* what it listed later; the other requests of this module are one         *)
(* committed transaction each.                                             *)
(*                                                                         *)
(* Operators named X_something are seeded bugs of X.                       *)
(***************************************************************************)
EXTENDS Integers, FiniteSets

CONSTANTS
  Ids,          \* version ids, each drawn once
  ArtifactOf,   \* version id -> artifact
  SemverOf,     \* version id -> <<major, minor, patch>>
  Tags,         \* tag names
  ProtectedTag, \* ADMIN_PROTECTED_TAG, one of them
  FileStates,   \* of {"none", "whole", "incomplete"}: what uploads leave behind
  Filters,      \* the query parameters clients send, before they are parsed
  HalfInt32,    \* 2^31: half the values an int32 has
  YearZero,     \* an instant before it has a year below 0
  MaxTime,      \* bound on the clock
  Null          \* not given; no version

Artifacts == {ArtifactOf[i] : i \in Ids}

ASSUME VersionsAssumption ==
  /\ IsFiniteSet(Ids)
  /\ DOMAIN ArtifactOf = Ids
  /\ SemverOf \in [Ids -> Nat \X Nat \X Nat]
  /\ ProtectedTag \in Tags
  /\ FileStates \subseteq {"none", "whole", "incomplete"}
  /\ HalfInt32 \in Nat \ {0}
  /\ YearZero \in Int
  /\ MaxTime \in Nat
  /\ Null \notin Ids /\ Null \notin Int /\ Null \notin BOOLEAN
  /\ Null \notin Nat \X Nat \X Nat

VARIABLES
  state,    \* version id -> "new", "live", "gone"
  born,     \* version id -> created_at
  files,    \* version id -> its files: none, AVAILABLE ones only, or others too
  tags,     \* artifact -> tag name -> version id, or Null when it has no such tag
  now,      \* the clock
  bulk,     \* the bulk delete: "idle", "listed", "deleting"
  cand,     \* the ids it listed
  snap      \* the tags its DELETE sees: the snapshot it started with, or Null

table == <<state, born, files, tags, now>>
vars  == <<state, born, files, tags, now, bulk, cand, snap>>

Live == {i \in Ids : state[i] = "live"}

-----------------------------------------------------------------------------
(* The filters                                                              *)

\* (a.major, a.minor, a.patch) < (b.major, b.minor, b.patch)
Below(a, b) ==
  \/ a[1] < b[1]
  \/ a[1] = b[1] /\ a[2] < b[2]
  \/ a[1] = b[1] /\ a[2] = b[2] /\ a[3] < b[3]

Newer(i) == {j \in Live : ArtifactOf[j] = ArtifactOf[i] /\ Below(SemverOf[i], SemverOf[j])}

rank_zeroBased(i) == Cardinality(Newer(i))

\* row_number() OVER (PARTITION BY artifact_id ORDER BY major DESC, ...): unique
\* coordinates within an artifact leave no ties.
rank(i) == Cardinality(Newer(i)) + 1

\* Among the tag rows T one points at the version, or its artifact carries the
\* protection tag.
protected(T, i) ==
  \/ \E t \in Tags : T[ArtifactOf[i]][t] = i
  \/ T[ArtifactOf[i]][ProtectedTag] # Null

\* total_bytes counts AVAILABLE files only; a unit stands for any size.
totalBytes(i) == IF files[i] = "whole" THEN 1 ELSE 0

NoFilter == [artifact |-> Null, keepLast |-> Null, olderThan |-> Null, from |-> Null, below |-> Null,
             versions |-> Null, hasFiles |-> Null, hasIncompleteFiles |-> Null,
             minBytes |-> Null, maxBytes |-> Null]

\* A request gives or leaves out each of the parameters; keepLast is an integer.
ASSUME FiltersAssumption ==
  \A q \in Filters : DOMAIN q = DOMAIN NoFilter /\ q.keepLast \in Int \cup {Null}

Given(x, P(_)) == x # Null => P(x)

inRange_exclusive(i, q) ==
  /\ Given(q.from, LAMBDA v : Below(v, SemverOf[i]))
  /\ Given(q.below, LAMBDA v : Below(SemverOf[i], v))

\* from is inclusive, below is exclusive.
inRange(i, q) ==
  /\ Given(q.from, LAMBDA v : ~Below(SemverOf[i], v))
  /\ Given(q.below, LAMBDA v : Below(SemverOf[i], v))

\* The WHERE clause of matched.
matches(i, q) ==
  /\ Given(q.artifact, LAMBDA a : ArtifactOf[i] = a)
  /\ Given(q.keepLast, LAMBDA n : rank(i) > n)
  /\ Given(q.olderThan, LAMBDA t : born[i] < t)
  /\ inRange(i, q)
  /\ Given(q.versions, LAMBDA V : SemverOf[i] \in V)
  /\ Given(q.hasFiles, LAMBDA b : (files[i] # "none") = b)
  /\ Given(q.hasIncompleteFiles, LAMBDA b : (files[i] = "incomplete") = b)
  /\ Given(q.minBytes, LAMBDA n : totalBytes(i) >= n)
  /\ Given(q.maxBytes, LAMBDA n : totalBytes(i) <= n)

ListVersionsFiltered(q) == {i \in Live : matches(i, q)}

\* int32(n) of Go: the low bits, as two's complement.
toInt32(n) ==
  LET m == n % (2 * HalfInt32)
  IN  IF m >= HalfInt32 THEN m - 2 * HalfInt32 ELSE m

\* time.Parse reads years of four digits and no sign.
parses(t) == t >= YearZero

\* bulkDelete refuses a request without a filter, parseVersionFilter an olderThan that
\* does not parse, a keepLast below 1 and, registry-wide, an explicit list of versions.
acceptable(q) ==
  /\ [q EXCEPT !.artifact = Null] # NoFilter
  /\ Given(q.olderThan, LAMBDA t : parses(t))
  /\ Given(q.keepLast, LAMBDA n : n >= 1)
  /\ q.versions # Null => q.artifact # Null

\* keepLast is compared with its minimum as a 64-bit int and then converted.
parsed(q) == [q EXCEPT !.keepLast = IF @ = Null THEN Null ELSE toInt32(@)]
-----------------------------------------------------------------------------
(* The bulk delete                                                          *)

\* The listing; rows that are protected are left out.  dryRun ends here, and so
\* does a list that is empty.
BulkList(q) ==
  /\ bulk = "idle"
  /\ bulk' = "listed"
  /\ LET C == {i \in ListVersionsFiltered(q) : ~protected(tags, i)}
     IN  /\ C # {}
         /\ cand' = C
  /\ UNCHANGED <<table, snap>>

\* The transaction may begin much later.  DeleteUnprotectedVersionsByIDs takes its
\* snapshot, which its NOT EXISTS read.
BulkDeleteStart ==
  /\ bulk = "listed"
  /\ snap' = tags
  /\ bulk' = "deleting"
  /\ UNCHANGED <<table, cand>>

unprotected_noRecheck(T, C) == C \cap Live

unprotected(T, C) == {i \in C \cap Live : ~protected(T, i)}

\* The rows V go; ON DELETE CASCADE takes their files and the tags on them.
Remove(V) ==
  /\ state' = [i \in Ids |-> IF i \in V THEN "gone" ELSE state[i]]
  /\ born' = [i \in Ids |-> IF i \in V THEN 0 ELSE born[i]]
  /\ files' = [i \in Ids |-> IF i \in V THEN "none" ELSE files[i]]
  /\ tags' = [a \in Artifacts |-> [t \in Tags |-> IF tags[a][t] \in V THEN Null ELSE tags[a][t]]]

\* It locks and deletes the rows that are still there.  A tag put on one of them
\* meanwhile did not change the row, and even a row that changed is checked again
\* with the same snapshot of the tags.
BulkDeleteApply ==
  /\ bulk = "deleting"
  /\ Remove(unprotected(snap, cand))
  /\ bulk' = "idle"
  /\ cand' = {}
  /\ snap' = Null
  /\ UNCHANGED now

\* A call fails, the process dies or the commit is refused: nothing was deleted.
BulkAbort ==
  /\ bulk # "idle"
  /\ bulk' = "idle"
  /\ cand' = {}
  /\ snap' = Null
  /\ UNCHANGED table

-----------------------------------------------------------------------------
(* The other requests and the clock                                         *)

bulkvars == <<bulk, cand, snap>>

\* CreateArtifactVersion and the upserts of the tags T it is created with.
CreateVersion(i, T) ==
  /\ state[i] = "new"
  /\ \A j \in Live : ~(ArtifactOf[j] = ArtifactOf[i] /\ SemverOf[j] = SemverOf[i])
  /\ state' = [state EXCEPT ![i] = "live"]
  /\ born' = [born EXCEPT ![i] = now]
  /\ tags' = [tags EXCEPT ![ArtifactOf[i]] = [t \in Tags |-> IF t \in T THEN i ELSE @[t]]]
  /\ UNCHANGED <<files, now, bulkvars>>

\* The version delete, or an artifact delete or a sweep that takes the version.
DeleteVersion(i) ==
  /\ i \in Live
  /\ Remove({i})
  /\ UNCHANGED <<now, bulkvars>>

\* Uploads and deletes of files.
ChangeFiles(i, f) ==
  /\ i \in Live
  /\ f # files[i]
  /\ files' = [files EXCEPT ![i] = f]
  /\ UNCHANGED <<state, born, tags, now, bulkvars>>

PutTag_noForeignKey(t, i) ==
  /\ state[i] # "new"
  /\ tags' = [tags EXCEPT ![ArtifactOf[i]][t] = i]
  /\ UNCHANGED <<state, born, files, now, bulkvars>>

\* UpsertArtifactTag: the tag is put on i, or moves there.  The foreign key
\* refuses a version that went since Put looked it up.
PutTag(t, i) ==
  /\ i \in Live
  /\ tags' = [tags EXCEPT ![ArtifactOf[i]][t] = i]
  /\ UNCHANGED <<state, born, files, now, bulkvars>>

DeleteTag(a, t) ==
  /\ tags[a][t] # Null
  /\ tags' = [tags EXCEPT ![a][t] = Null]
  /\ UNCHANGED <<state, born, files, now, bulkvars>>

Tick ==
  /\ now < MaxTime
  /\ now' = now + 1
  /\ UNCHANGED <<state, born, files, tags, bulkvars>>

Others ==
  \/ \E i \in Ids, T \in SUBSET Tags : CreateVersion(i, T)
  \/ \E i \in Ids : DeleteVersion(i)
  \/ \E i \in Ids, f \in FileStates : ChangeFiles(i, f)
  \/ \E t \in Tags, i \in Ids : PutTag(t, i)
  \/ \E a \in Artifacts, t \in Tags : DeleteTag(a, t)
  \/ Tick

\* DELETE .../versions and /admin/versions of a client.
BulkRequest(q) ==
  /\ acceptable(q)
  /\ BulkList(parsed(q))

Init ==
  /\ state = [i \in Ids |-> "new"]
  /\ born = [i \in Ids |-> 0]
  /\ files = [i \in Ids |-> "none"]
  /\ tags = [a \in Artifacts |-> [t \in Tags |-> Null]]
  /\ now = 0
  /\ bulk = "idle" /\ cand = {} /\ snap = Null

Next ==
  \/ Others
  \/ \E q \in Filters : BulkRequest(q)
  \/ BulkDeleteStart
  \/ BulkDeleteApply
  \/ BulkAbort

Spec == Init /\ [][Next]_vars

-----------------------------------------------------------------------------
(* Properties                                                               *)

Snapshots == [Artifacts -> [Tags -> Ids \cup {Null}]]

\* No two versions of an artifact have the same coordinates, so that ranks have no
\* ties (the unique index behind CreateArtifactVersion).
UniqueCoordinates ==
  \A i, j \in Live : ArtifactOf[i] = ArtifactOf[j] /\ SemverOf[i] = SemverOf[j] => i = j

\* Types; coordinates are unique; and a tag always points at a version of its own
\* artifact that is there, so that protection never hangs on a row that is gone.
TypeOK ==
  /\ state \in [Ids -> {"new", "live", "gone"}]
  /\ born \in [Ids -> 0..MaxTime]
  /\ files \in [Ids -> {"none", "whole", "incomplete"}]
  /\ UniqueCoordinates
  /\ tags \in Snapshots
  /\ \A a \in Artifacts, t \in Tags : tags[a][t] # Null =>
       tags[a][t] \in Live /\ ArtifactOf[tags[a][t]] = a
  /\ now \in 0..MaxTime
  /\ bulk \in {"idle", "listed", "deleting"}
  /\ cand \in SUBSET Ids
  /\ snap \in IF bulk = "deleting" THEN Snapshots ELSE {Null}

Of(a) == {i \in Live : ArtifactOf[i] = a}

\* What a keepLast listing of an artifact leaves out are its n greatest versions,
\* all of them when there are fewer (ListVersionsFiltered, keep_last).  The table
\* decides, so the states without a bulk delete under way are enough.
KeepLastExact ==
  bulk = "idle" => \A a \in Artifacts, n \in 1..Cardinality(Ids) :
    LET Selected == {i \in Of(a) : matches(i, [NoFilter EXCEPT !.keepLast = n])}
        Kept     == Of(a) \ Selected
    IN  /\ Cardinality(Kept) <= n
        /\ Selected # {} => Cardinality(Kept) = n
        /\ \A i \in Selected, j \in Kept : Below(SemverOf[i], SemverOf[j])

\* Complementary filters split the versions: every version is in exactly one of
\* from=x and below=x, of hasFiles=true and false, of the two halves of a size
\* limit (ListVersionsFiltered).  A cleanup done in two halves misses none and
\* hits none twice.
FiltersPartition ==
  bulk = "idle" => \A i \in Live :
    LET In(q)       == matches(i, q)
        Split(p, q) == In(p) # In(q)
    IN  /\ \A j \in Ids : Split([NoFilter EXCEPT !.from = SemverOf[j]],
                                [NoFilter EXCEPT !.below = SemverOf[j]])
        /\ Split([NoFilter EXCEPT !.hasFiles = TRUE], [NoFilter EXCEPT !.hasFiles = FALSE])
        /\ Split([NoFilter EXCEPT !.minBytes = 1], [NoFilter EXCEPT !.maxBytes = 0])
        /\ In([NoFilter EXCEPT !.hasIncompleteFiles = TRUE])
             => In([NoFilter EXCEPT !.hasFiles = TRUE])

BulkEnds == bulk = "deleting" /\ bulk' = "idle"

\* A bulk delete takes no tag that stood on its version when the DELETE began, and
\* no version of an artifact that carried the protection tag then, however long
\* ago it listed them (bulkDelete, DeleteUnprotectedVersionsByIDs).
BulkSparesProtected ==
  [][BulkEnds =>
       /\ \A a \in Artifacts, t \in Tags :
            snap[a][t] # Null /\ snap[a][t] = tags[a][t] => tags'[a][t] = tags[a][t]
       /\ \A i \in Live : snap[ArtifactOf[i]][ProtectedTag] # Null => state'[i] = "live"]_vars

\* A bulk delete never touches a tagged version (bulkDelete).
TaggedNeverTouched ==
  [][BulkEnds => \A a \in Artifacts, t \in Tags : tags'[a][t] = tags[a][t]]_vars

\* "Skip the newest N versions of each artifact (by semver)": the list of a bulk delete
\* leaves out keepLast versions of every artifact it takes any from.
NewestKept ==
  [][\A q \in Filters : BulkRequest(q) /\ q.keepLast # Null =>
       \A a \in Artifacts :
         \/ Of(a) \cap cand' = {}
         \/ Cardinality(Of(a) \ cand') >= q.keepLast]_vars

-----------------------------------------------------------------------------
\* No request has a keepLast that does not fit into an int32.
KeepLastFits == \A q \in Filters : Given(q.keepLast, LAMBDA n : n < HalfInt32)
=============================================================================
