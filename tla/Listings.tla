------------------------------ MODULE Listings ------------------------------
(***************************************************************************)
(* The lists of artifacts, versions and tags, the maintenance views and    *)
(* the counts of the metrics, over tables T as module Catalog keeps them.  *)
(* A list is one statement and reads one committed state.  born is         *)
(* created_at; ids, names and times are numbers in their order.  Filters   *)
(* on tags, types and retention, whose tables this module has not, are the *)
(* set of artifacts they select (among).                                   *)
(*                                                                         *)
(* Operators named X_something are seeded bugs of X.                       *)
(***************************************************************************)
EXTENDS Catalog, SequencesExt

CONSTANTS
  Null,       \* parameter not given
  HalfInt32   \* 2^31

ASSUME ListingsAssumption ==
  /\ Arts \subseteq Nat /\ Vers \subseteq Nat /\ Names \subseteq Nat
  /\ IsFiniteSet(Arts) /\ IsFiniteSet(Vers) /\ IsFiniteSet(Files)
  /\ HalfInt32 \in Nat /\ HalfInt32 > 2
  /\ Null \notin Nat /\ Null \notin BOOLEAN

-----------------------------------------------------------------------------
(* Pages                                                                    *)

parsePagination(page, size) ==
  [page |-> IF page < 0 THEN 0 ELSE page, size |-> IF size < 1 THEN 1 ELSE size]

\* Go's int32(n); PostgreSQL refuses a LIMIT or an OFFSET below zero.
toInt32(n) == ((n + HalfInt32) % (2 * HalfInt32)) - HalfInt32

rowOffset(page, size) == toInt32(page * size)

\* LIMIT and OFFSET of the rows s, for the parameters of a request.
Page(s, page, size) ==
  LET asked == parsePagination(page, size)
      off   == rowOffset(asked.page, asked.size)
      limit == toInt32(asked.size)
  IN  SubSeq(s, off + 1, Min({off + limit, Len(s)}))

\* What ORDER BY may return for the rows S: rows it does not tell apart come in any
\* order, and in another one for the next statement.
Orders(S, Before(_, _)) ==
  {s \in SetToSeqs(S) : \A i, j \in 1..Len(s) : i < j => ~Before(s[j], s[i])}

WindowTotal_page(s, page, size) ==
  IF Page(s, page, size) # <<>> THEN Len(s) ELSE 0

\* The total of ListAll rides on the rows of the page; when there are none it asks
\* again for the first row.
WindowTotal(s, page, size) ==
  IF Page(s, page, size) # <<>> THEN Len(s)
  ELSE IF page > 0 /\ Page(s, 0, 1) # <<>> THEN Len(s) ELSE 0

-----------------------------------------------------------------------------
(* Artifacts                                                                *)

NoFilter == [names |-> Null, among |-> Null, olderThan |-> Null, minVersions |-> Null,
             maxVersions |-> Null, hasFiles |-> Null, hasIncompleteFiles |-> Null,
             minTotalBytes |-> Null, sort |-> "createdAt", desc |-> TRUE]

\* artifactSorts: the values of sort, with their default direction.
artifactSorts == [createdAt |-> TRUE, name |-> FALSE, versionCount |-> TRUE,
                  largestVersion |-> TRUE, totalSize |-> TRUE]

Given(x, P(_)) == x # Null => P(x)

LiveArts(T)      == {a \in Arts : T.art[a] = "live"}
AllVers(T)       == UNION {LiveVers(T, a) : a \in LiveArts(T)}
FilesIn(T, a)    == UNION {FilesOf(T, v) : v \in LiveVers(T, a)}
Incomplete(T, F) == {f \in F : T.file[f] \in {"PENDING", "ERROR"}}

\* The WHERE clause of the list and of the count.
matches(T, born, q, a) ==
  /\ Given(q.names, LAMBDA N : NameOf[a] \in N)
  /\ Given(q.among, LAMBDA A : a \in A)
  /\ Given(q.olderThan, LAMBDA t : born[a] < t)
  /\ Given(q.minVersions, LAMBDA n : T.stats[a].count >= n)
  /\ Given(q.maxVersions, LAMBDA n : T.stats[a].count <= n)
  /\ Given(q.hasFiles, LAMBDA b : (FilesIn(T, a) # {}) = b)
  /\ Given(q.hasIncompleteFiles, LAMBDA b : (Incomplete(T, FilesIn(T, a)) # {}) = b)
  /\ Given(q.minTotalBytes, LAMBDA n : T.stats[a].total >= n)

Selected(T, born, q) == {a \in LiveArts(T) : matches(T, born, q, a)}

sortKey(T, q, a) ==
  CASE q.sort = "createdAt"      -> 0
    [] q.sort = "name"           -> NameOf[a]
    [] q.sort = "versionCount"   -> T.stats[a].count
    [] q.sort = "largestVersion" -> T.stats[a].largest
    [] q.sort = "totalSize"      -> T.stats[a].total

orderBy_noId(T, born, q, a, b) ==
  LET x == <<sortKey(T, q, a), born[a]>>
      y == <<sortKey(T, q, b), born[b]>>
      less(i) == IF q.desc THEN x[i] > y[i] ELSE x[i] < y[i]
  IN  less(1) \/ (x[1] = y[1] /\ less(2))

\* The key asked for, then created_at in the same direction, then the id.
orderBy(T, born, q, a, b) ==
  LET x == <<sortKey(T, q, a), born[a]>>
      y == <<sortKey(T, q, b), born[b]>>
      less(i) == IF q.desc THEN x[i] > y[i] ELSE x[i] < y[i]
  IN  \/ less(1)
      \/ x[1] = y[1] /\ less(2)
      \/ x = y /\ a < b

ListRegistryArtifactsFiltered(T, born, q) ==
  Orders(Selected(T, born, q), LAMBDA a, b : orderBy(T, born, q, a, b))

CountRegistryArtifactsFiltered(T, born, q) == Cardinality(Selected(T, born, q))

-----------------------------------------------------------------------------
(* Versions, tags, maintenance views and counts                             *)

\* ListVersionsFiltered by hasFiles: by artifact, newest first.
ListVersions(T, hasFiles) ==
  Orders({v \in AllVers(T) : Given(hasFiles, LAMBDA b : (FilesOf(T, v) # {}) = b)},
         LAMBDA v, w : ArtOf[v] < ArtOf[w] \/ (ArtOf[v] = ArtOf[w] /\ v > w))

\* Tags are the versions they point at.
ListTagsFiltered(T, tags, broken) ==
  {v \in tags : (\A f \in FilesOf(T, v) : T.file[f] # "AVAILABLE") = broken}

ListEmptyArtifacts(T, born, t) == {a \in LiveArts(T) : born[a] < t /\ LiveVers(T, a) = {}}

ListArtifactsWithoutFiles(T, born, t) ==
  {a \in LiveArts(T) : born[a] < t /\ LiveVers(T, a) # {} /\ FilesIn(T, a) = {}}

ListVersionsWithoutFiles(T) == {v \in AllVers(T) : FilesOf(T, v) = {}}

ListIncompleteFiles(T) == Incomplete(T, {f \in Files : T.file[f] \in Present})

CountArtifactsWithVersionsButNoFiles(T) ==
  Cardinality({a \in LiveArts(T) : T.stats[a].count > 0 /\ FilesIn(T, a) = {}})

CountBrokenTags(T, tags) ==
  Cardinality({v \in tags : ~\E f \in Files : VerOf[f] = v /\ T.file[f] = "AVAILABLE"})

SumRegistryStorageBytes(T) == Bytes({f \in Files : T.file[f] = "AVAILABLE"})

-----------------------------------------------------------------------------
(* Properties                                                               *)

\* The tables decide, so the states in which nothing runs are enough.
AtRest == \A p \in Procs : at[p] = "idle"

SomeBirths   == {[a \in Arts |-> 1], [a \in Arts |-> a]}
SortBy(s, d) == [NoFilter EXCEPT !.sort = s, !.desc = d]
Sorted       == {SortBy(s, d) : s \in DOMAIN artifactSorts, d \in BOOLEAN}

\* The pages 0 to n of size k, each from an order of its own, are together the rows
\* S, each once.
Tiles(O, S, k) ==
  LET n == Cardinality(S) + 1
  IN  \A pick \in [0..n -> O] :
        LET shown == [i \in 0..n |-> Page(pick[i], i, k)]
        IN  /\ UNION {Range(shown[i]) : i \in 0..n} = S
            /\ \A i, h \in 0..n : \A x \in DOMAIN shown[i], y \in DOMAIN shown[h] :
                 shown[i][x] = shown[h][y] => i = h /\ x = y

\* Paging through a list that does not change shows every row that matches exactly
\* once, whatever the sort and however many rows tie, and every page, the ones past
\* the end included, reports the right total (ArtifactHandler.List, ListAll).
PagesPartition ==
  AtRest => \A k \in 0..2 :
    /\ \A born \in SomeBirths, q \in Sorted :
         LET O == ListRegistryArtifactsFiltered(tab, born, q)
         IN  /\ Tiles(O, LiveArts(tab), k)
             /\ \A s \in O : Len(s) = CountRegistryArtifactsFiltered(tab, born, q)
    /\ \A s \in ListVersions(tab, Null) : \A page \in 0..Len(s) + 1 :
         WindowTotal(s, page, k) = Cardinality(AllVers(tab))

\* No offset of those pages wraps around.
OffsetsFit == 2 * (Cardinality(Arts) + 2) < HalfInt32

\* The same question asked of different endpoints gets the same answer: the filters
\* maxVersions=0, minVersions=1&hasFiles=false and hasIncompleteFiles=true, which
\* read stored columns, find what the maintenance views and the metrics count from
\* the rows, and the stored sizes add up to the bytes of the files
\* (parseArtifactListFilter, AdminHandler, registry_metrics.sql).
ViewsAgree ==
  AtRest => LET born == [a \in Arts |-> a] IN \A t \in {2, 4} :
    LET Q == [NoFilter EXCEPT !.olderThan = t]
        empty  == Selected(tab, born, [Q EXCEPT !.maxVersions = 0])
        bare   == Selected(tab, born, [Q EXCEPT !.minVersions = 1, !.hasFiles = FALSE])
        broken == Selected(tab, born, [NoFilter EXCEPT !.hasIncompleteFiles = TRUE])
    IN  /\ empty = ListEmptyArtifacts(tab, born, t)
        /\ bare = ListArtifactsWithoutFiles(tab, born, t)
        /\ broken = {ArtOf[VerOf[f]] : f \in ListIncompleteFiles(tab)}
        /\ \A s \in ListVersions(tab, FALSE) : Range(s) = ListVersionsWithoutFiles(tab)
        /\ (\A a \in Arts : born[a] < t) =>
             CountArtifactsWithVersionsButNoFiles(tab)
               = Cardinality(ListArtifactsWithoutFiles(tab, born, t))
        /\ \A tags \in SUBSET AllVers(tab) :
             CountBrokenTags(tab, tags) = Cardinality(ListTagsFiltered(tab, tags, TRUE))
        /\ SumRegistryStorageBytes(tab) = MapThenSumSet(LAMBDA a : tab.stats[a].total, LiveArts(tab))
=============================================================================
