--------------------------- MODULE CatalogProofs ---------------------------
(***************************************************************************)
(* The size statistics and the names stay exact, foreign keys hold, and    *)
(* the lists page through and agree, for any number of requests,           *)
(* artifacts, versions, files, failures and deadlocks.  CatalogInv is the  *)
(* inductive invariant, CascadeInv one on top of it for the foreign keys.  *)
(***************************************************************************)
EXTENDS Listings, FiniteSetTheorems, SequenceTheorems, WellFoundedInduction, TLAPS

USE CatalogAssumption

-----------------------------------------------------------------------------
(* Rows, locks and tables                                                   *)

LEMMA LockFacts ==
  /\ \A r, m : Lock(r, m).row = r /\ Lock(r, m).mode = m
  /\ \A r, m, x, n : Lock(r, m) = Lock(x, n) => r = x /\ m = n
  /\ \A l \in [row : Rows, mode : Modes] : l = Lock(l.row, l.mode)
BY DEF Lock

LEMMA RowFacts ==
  /\ \A a, b : /\ (Art(a) = Art(b) => a = b) /\ (Ver(a) = Ver(b) => a = b)
               /\ (File(a) = File(b) => a = b) /\ (Name(a) = Name(b) => a = b)
               /\ Art(a) # Ver(b) /\ Art(a) # File(b) /\ Art(a) # Name(b)
               /\ Ver(a) # File(b) /\ Ver(a) # Name(b) /\ File(a) # Name(b)
  /\ \A a : Art(a) # <<"none">> /\ Ver(a) # <<"none">> /\ File(a) # <<"none">> /\ Name(a) # <<"none">>
BY DEF Art, Ver, File, Name

LEMMA RowTypes ==
  /\ \A a \in Arts : Art(a) \in Rows /\ Name(NameOf[a]) \in Rows
  /\ \A v \in Vers : Ver(v) \in Rows
  /\ \A f \in Files : File(f) \in Rows
  /\ \A r \in Rows, m \in Modes : Lock(r, m) \in [row : Rows, mode : Modes]
BY DEF Rows, Names, Lock

LEMMA OverFacts ==
  ASSUME NEW w, NEW t
  PROVE  /\ DOMAIN Over(w, t) = DOMAIN t
         /\ \A x \in DOMAIN t : Over(w, t)[x] = IF x \in DOMAIN w THEN w[x] ELSE t[x]
BY DEF Over

\* Table w with e in row x.
Wrote(v, w, x, e) ==
  /\ DOMAIN v = DOMAIN w \cup {x}
  /\ v[x] = e
  /\ \A y \in DOMAIN w : y # x => v[y] = w[y]

LEMMA WroteArt ==
  ASSUME NEW m, Tables(m), NEW x, NEW e
  PROVE  /\ Tables(Write(m, "art", x, e))
         /\ Wrote(Write(m, "art", x, e).art, m.art, x, e)
         /\ Write(m, "art", x, e).ver = m.ver
         /\ Write(m, "art", x, e).file = m.file
         /\ Write(m, "art", x, e).bytes = m.bytes
         /\ Write(m, "art", x, e).stats = m.stats
BY DEF Write, Tables, Wrote

LEMMA WroteVer ==
  ASSUME NEW m, Tables(m), NEW x, NEW e
  PROVE  /\ Tables(Write(m, "ver", x, e))
         /\ Wrote(Write(m, "ver", x, e).ver, m.ver, x, e)
         /\ Write(m, "ver", x, e).art = m.art
         /\ Write(m, "ver", x, e).file = m.file
         /\ Write(m, "ver", x, e).bytes = m.bytes
         /\ Write(m, "ver", x, e).stats = m.stats
BY DEF Write, Tables, Wrote

LEMMA WroteFile ==
  ASSUME NEW m, Tables(m), NEW x, NEW e
  PROVE  /\ Tables(Write(m, "file", x, e))
         /\ Wrote(Write(m, "file", x, e).file, m.file, x, e)
         /\ Write(m, "file", x, e).art = m.art
         /\ Write(m, "file", x, e).ver = m.ver
         /\ Write(m, "file", x, e).bytes = m.bytes
         /\ Write(m, "file", x, e).stats = m.stats
BY DEF Write, Tables, Wrote

LEMMA WroteBytes ==
  ASSUME NEW m, Tables(m), NEW x, NEW e
  PROVE  /\ Tables(Write(m, "bytes", x, e))
         /\ Wrote(Write(m, "bytes", x, e).bytes, m.bytes, x, e)
         /\ Write(m, "bytes", x, e).art = m.art
         /\ Write(m, "bytes", x, e).ver = m.ver
         /\ Write(m, "bytes", x, e).file = m.file
         /\ Write(m, "bytes", x, e).stats = m.stats
BY DEF Write, Tables, Wrote

LEMMA WroteStats ==
  ASSUME NEW m, Tables(m), NEW x, NEW e
  PROVE  /\ Tables(Write(m, "stats", x, e))
         /\ Wrote(Write(m, "stats", x, e).stats, m.stats, x, e)
         /\ Write(m, "stats", x, e).art = m.art
         /\ Write(m, "stats", x, e).ver = m.ver
         /\ Write(m, "stats", x, e).file = m.file
         /\ Write(m, "stats", x, e).bytes = m.bytes
BY DEF Write, Tables, Wrote

LEMMA MergeFacts ==
  ASSUME NEW w, NEW t
  PROVE  /\ Merge(w, t).art = Over(w.art, t.art) /\ Merge(w, t).ver = Over(w.ver, t.ver)
         /\ Merge(w, t).file = Over(w.file, t.file) /\ Merge(w, t).bytes = Over(w.bytes, t.bytes)
         /\ Merge(w, t).stats = Over(w.stats, t.stats)
BY DEF Merge

LEMMA NoRowsFacts ==
  /\ Tables(NoRows)
  /\ DOMAIN NoRows.art = {} /\ DOMAIN NoRows.ver = {} /\ DOMAIN NoRows.file = {}
  /\ DOMAIN NoRows.bytes = {} /\ DOMAIN NoRows.stats = {} /\ NoRows.art = Empty
BY DEF NoRows, Tables, Empty

\* Tables that agree on the files that count, or on the live versions.
LEMMA AvailSame ==
  ASSUME NEW T, NEW U, NEW v,
         \A f \in Files : VerOf[f] = v => (Counted(f, T.file[f]) # 0 <=> Counted(f, U.file[f]) # 0)
  PROVE  Avail(T, v) = Avail(U, v)
BY DEF Avail

LEMMA StatsSame ==
  ASSUME NEW T, NEW U, NEW a,
         \A v \in Vers : ArtOf[v] = a => /\ T.ver[v] = "live" <=> U.ver[v] = "live"
                                         /\ T.ver[v] = "live" => T.bytes[v] = U.bytes[v]
  PROVE  Stats(T, a) = Stats(U, a)
<1>1. LiveVers(T, a) = LiveVers(U, a)
  BY DEF LiveVers
<1>2. \A v \in LiveVers(T, a) : T.bytes[v] = U.bytes[v]
  BY DEF LiveVers
<1>3. [v \in LiveVers(T, a) |-> T.bytes[v]] = [v \in LiveVers(U, a) |-> U.bytes[v]]
  BY <1>1, <1>2
<1> QED
  BY <1>3 DEF Stats

LEMMA StatsNone ==
  ASSUME NEW T, NEW a, \A v \in Vers : ArtOf[v] = a => T.ver[v] # "live"
  PROVE  Stats(T, a) = Sums(Empty)
<1>1. LiveVers(T, a) = {}
  BY DEF LiveVers
<1>2. [v \in LiveVers(T, a) |-> T.bytes[v]] = Empty
  BY <1>1 DEF Empty
<1> QED
  BY <1>2 DEF Stats

\* A change of one file moves the sum by what it counts.
LEMMA BytesMove ==
  ASSUME NEW T, NEW U, NEW v, NEW f \in Files, VerOf[f] = v,
         \A g \in Files : g # f => T.file[g] = U.file[g]
  PROVE  Bytes(Avail(U, v)) = Bytes(Avail(T, v)) + (Counted(f, U.file[f]) - Counted(f, T.file[f]))
<1> DEFINE S == Avail(T, v) \ {f}
<1>1. S \in SUBSET Files /\ f \notin S
  BY DEF Avail
<1>2. Bytes(S) \in Int /\ Bytes(S \cup {f}) = Bytes(S) + SizeOf[f] /\ SizeOf[f] \in Nat
  <2> HIDE DEF S
  <2>1. f \in Files \ S
    BY <1>1
  <2>2. Bytes(S) \in Nat /\ Bytes(S \cup {f}) = Bytes(S) + SizeOf[f]
    BY <1>1, <2>1, BytesAssumption, Zenon
  <2> QED
    BY <2>2
<1>3. ASSUME NEW X, X \in {T, U}
      PROVE  Bytes(Avail(X, v)) = Bytes(S) + Counted(f, X.file[f])
  <2>1. CASE Counted(f, X.file[f]) = 0
    <3>1. Avail(X, v) = S
      BY <1>3, <2>1 DEF Avail
    <3> QED
      BY <1>2, <2>1, <3>1
  <2>2. CASE Counted(f, X.file[f]) # 0
    <3>1. Avail(X, v) = S \cup {f} /\ Counted(f, X.file[f]) = SizeOf[f]
      BY <1>3, <2>2 DEF Avail, Counted
    <3> QED
      BY <1>2, <3>1
  <2> QED
    BY <2>1, <2>2
<1>4. Counted(f, U.file[f]) \in Int /\ Counted(f, T.file[f]) \in Int
  BY <1>2 DEF Counted
<1> HIDE DEF S
<1> QED
  BY <1>2, <1>3, <1>4

-----------------------------------------------------------------------------
(* Steps of one request, on committed tables that stay                      *)

PerProc(p) ==
  /\ StageOK(p) /\ WritesLocked(p) /\ Once(p)
  /\ BytesExact(p) /\ SumsExact(p) /\ NamesLocked(p) /\ LocksOrdered(p)

Stages == {"idle", "name", "fkey", "file", "bytes", "lock", "stats",
           "art", "rows", "cascade", "sweep", "commit"}

\* The step takes p to the writes M, the locks L and so on.
Moved(p, M, L, R, s, w, t, Q, v) ==
  /\ tab' = tab
  /\ mine' = [mine EXCEPT ![p] = M]
  /\ locks' = [locks EXCEPT ![p] = L]
  /\ req' = [req EXCEPT ![p] = R]
  /\ Goto(p, s, w, t, Q, v)
  /\ left' \in 0..MaxRequests /\ faults' \in 0..MaxFaults

Rowed(M) ==
  /\ Tables(M)
  /\ Partial(M.art, Arts, {"live", "gone"})
  /\ Partial(M.ver, Vers, {"live", "gone"})
  /\ Partial(M.file, Files, Changes)
  /\ Partial(M.bytes, Vers, Int)
  /\ DOMAIN M.stats \subseteq Arts

Typed(M, L, R, s, w, t, Q, v) ==
  /\ Rowed(M)
  /\ s = "idle" => M = NoRows /\ L = {}
  /\ L \subseteq [row : Rows, mode : Modes]
  /\ R \in Requests
  /\ s \in Stages
  /\ w \in [row : Rows, mode : Modes] \cup {NoLock}
  /\ t \in (SUBSET Vers) \cup (SUBSET Files)
  /\ Q \in SUBSET Vers
  /\ v \in Vers \cup {None}

\* No other request has a lock that excludes one of L.
Apart(p, L) ==
  \A q \in Procs : q # p => \A l \in L, m \in locks[q] : l.row = m.row => ~Conflict(l.mode, m.mode)

LEMMA MineDomain == TypeOK => DOMAIN mine = Procs
  BY DEF TypeOK

LEMMA Moves ==
  ASSUME TypeOK, NEW p \in Procs, NEW M, NEW L, NEW R, NEW s, NEW w, NEW t, NEW Q, NEW v,
         Moved(p, M, L, R, s, w, t, Q, v)
  PROVE  /\ tab' = tab /\ mine' = [q \in Procs |-> mine'[q]]
         /\ mine'[p] = M /\ locks'[p] = L /\ req'[p] = R /\ at'[p] = s
         /\ want'[p] = w /\ todo'[p] = t /\ queue'[p] = Q /\ cur'[p] = v
         /\ \A q \in Procs : q # p =>
              /\ mine'[q] = mine[q] /\ locks'[q] = locks[q] /\ req'[q] = req[q] /\ at'[q] = at[q]
              /\ want'[q] = want[q] /\ todo'[q] = todo[q] /\ queue'[q] = queue[q] /\ cur'[q] = cur[q]
BY MineDomain DEF TypeOK, Moved, Goto

LEMMA MovedTypes ==
  ASSUME TypeOK, NEW p \in Procs, NEW M, NEW L, NEW R, NEW s, NEW w, NEW t, NEW Q, NEW v,
         Moved(p, M, L, R, s, w, t, Q, v), Typed(M, L, R, s, w, t, Q, v), Apart(p, L)
  PROVE  TypeOK'
<1>1. /\ Tables(tab)
      /\ tab.art \in [Arts -> States] /\ tab.ver \in [Vers -> States]
      /\ tab.file \in [Files -> {"none", "gone"} \cup Present]
      /\ tab.bytes \in [Vers -> Int] /\ DOMAIN tab.stats = Arts
      /\ tab' = tab /\ mine' = [q \in Procs |-> mine'[q]]
  BY Moves, Zenon DEF TypeOK
<1>2. \A q \in Procs : /\ Rowed(mine'[q])
                       /\ at'[q] = "idle" => mine'[q] = NoRows /\ locks'[q] = {}
  <2>1. \A q \in Procs : Rowed(mine[q]) /\ (at[q] = "idle" => mine[q] = NoRows /\ locks[q] = {})
    BY Zenon DEF TypeOK, Rowed
  <2>2. Rowed(M) /\ (s = "idle" => M = NoRows /\ L = {})
    BY DEF Typed
  <2>3. \A q \in Procs : /\ mine'[q] = IF q = p THEN M ELSE mine[q]
                         /\ locks'[q] = IF q = p THEN L ELSE locks[q]
                         /\ at'[q] = IF q = p THEN s ELSE at[q]
    BY Moves
  <2> QED
    BY <2>1, <2>2, <2>3
<1>3. \A q, r \in Procs : \A l \in locks'[q], m \in locks'[r] :
        l.row = m.row /\ Conflict(l.mode, m.mode) => q = r
  <2>1. \A q, r \in Procs : \A l \in locks[q], m \in locks[r] :
          l.row = m.row /\ Conflict(l.mode, m.mode) => q = r
    BY Zenon DEF TypeOK
  <2>2. \A m, n : Conflict(m, n) <=> Conflict(n, m)
    BY DEF Conflict
  <2>3. \A q \in Procs : locks'[q] = IF q = p THEN L ELSE locks[q]
    BY Moves
  <2> QED
    BY <2>1, <2>2, <2>3 DEF Apart
<1>4. /\ locks' \in [Procs -> SUBSET [row : Rows, mode : Modes]]
      /\ req' \in [Procs -> Requests] /\ at' \in [Procs -> Stages]
      /\ want' \in [Procs -> [row : Rows, mode : Modes] \cup {NoLock}]
      /\ todo' \in [Procs -> (SUBSET Vers) \cup (SUBSET Files)]
      /\ queue' \in [Procs -> SUBSET Vers] /\ cur' \in [Procs -> Vers \cup {None}]
  BY DEF TypeOK, Moved, Goto, Typed, Stages
<1>5. left' \in 0..MaxRequests /\ faults' \in 0..MaxFaults
  BY DEF Moved
<1> QED
  BY <1>1, <1>2, <1>3, <1>4, <1>5 DEF TypeOK, Rowed, Stages

\* What holds of a request that the step does not touch stays.
LEMMA OthersKeep ==
  ASSUME NEW q \in Procs, PerProc(q), tab' = tab,
         mine'[q] = mine[q], locks'[q] = locks[q], req'[q] = req[q], at'[q] = at[q],
         want'[q] = want[q], todo'[q] = todo[q], queue'[q] = queue[q], cur'[q] = cur[q]
  PROVE  PerProc(q)'
<1> USE DEF View, Touched, HoldsU, HoldsX
<1>2. StageOK(q)'
  BY DEF PerProc, StageOK
<1>3. WritesLocked(q)' /\ Once(q)'
  BY DEF PerProc, WritesLocked, Once
<1>4. BytesExact(q)' /\ SumsExact(q)'
  BY DEF PerProc, BytesExact, SumsExact
<1>5. NamesLocked(q)' /\ LocksOrdered(q)'
  BY DEF PerProc, NamesLocked, LocksOrdered
<1> QED
  BY <1>2, <1>3, <1>4, <1>5 DEF PerProc

LEMMA LocalStep ==
  ASSUME CatalogInv, NEW p \in Procs,
         NEW M, NEW L, NEW R, NEW s, NEW w, NEW t, NEW Q, NEW v,
         Moved(p, M, L, R, s, w, t, Q, v), Typed(M, L, R, s, w, t, Q, v), Apart(p, L),
         Drawn', PerProc(p)'
  PROVE  CatalogInv'
<1>1. TypeOK /\ TypeOK'
  BY MovedTypes DEF CatalogInv
<1>2. tab' = tab
  BY DEF Moved
<1>3. Referenced' /\ StatsExact' /\ NamesUnique'
  BY <1>2 DEF CatalogInv, Referenced, StatsExact, NamesUnique
<1>4. ASSUME NEW q \in Procs PROVE PerProc(q)'
  <2>1. CASE q = p
    BY <2>1
  <2>2. CASE q # p
    <3>1. PerProc(q)
      BY DEF CatalogInv, PerProc
    <3> QED
      BY <1>1, <2>2, <3>1, Moves, OthersKeep
  <2> QED
    BY <2>1, <2>2
<1> QED
  BY <1>1, <1>3, <1>4 DEF CatalogInv, PerProc

-----------------------------------------------------------------------------
(* Transactions begin and end                                               *)

\* A request that has written and locked nothing has little to keep.
LEMMA CleanStep ==
  ASSUME NEW p \in Procs, mine'[p] = NoRows, locks'[p] = {}, queue'[p] = {},
         at'[p] \in {"idle", "name", "fkey", "file", "art", "rows", "sweep"},
         StageOK(p)',
         req'[p].kind = "art" => tab'.art[req'[p].id] = "none",
         req'[p].kind = "ver" => tab'.ver[req'[p].id] = "none"
  PROVE  PerProc(p)'
<1> USE NoRowsFacts DEF Touched, HoldsU, HoldsX
<1>1. WritesLocked(p)' /\ Once(p)'
  BY DEF WritesLocked, Once
<1>2. BytesExact(p)' /\ SumsExact(p)'
  BY DEF BytesExact, SumsExact
<1>3. NamesLocked(p)' /\ LocksOrdered(p)'
  BY DEF NamesLocked, LocksOrdered
<1> QED
  BY <1>1, <1>2, <1>3 DEF PerProc

LEMMA EndStep ==
  ASSUME CatalogInv, NEW p \in Procs, End(p), tab' = tab,
         left' = left, faults' \in 0..MaxFaults
  PROVE  CatalogInv'
<1>1. TypeOK /\ Drawn
  BY DEF CatalogInv
<1>2. Moved(p, NoRows, {}, Idle, "idle", NoLock, {}, {}, None)
  BY <1>1 DEF End, Moved, TypeOK
<1>3. Rowed(NoRows)
  BY NoRowsFacts DEF Rowed, Partial
<1>4. Idle \in Requests /\ Idle.kind = "none"
  BY DEF Idle, Requests
<1>5. Typed(NoRows, {}, Idle, "idle", NoLock, {}, {}, None)
  BY <1>3, <1>4 DEF Typed, Stages
<1>6. Apart(p, {})
  BY DEF Apart
<1> HIDE DEF Idle
<1>7. /\ tab' = tab /\ mine'[p] = NoRows /\ locks'[p] = {} /\ req'[p] = Idle /\ at'[p] = "idle"
      /\ want'[p] = NoLock /\ queue'[p] = {} /\ \A q \in Procs : q # p => req'[q] = req[q]
  BY <1>1, <1>2, Moves
<1>8. Drawn'
  BY <1>1, <1>4, <1>7 DEF Drawn
<1>9. StageOK(p)'
  BY <1>4, <1>7 DEF StageOK
<1>10. PerProc(p)'
  BY <1>4, <1>7, <1>9, CleanStep
<1> QED
  BY <1>2, <1>5, <1>6, <1>8, <1>10, LocalStep

LEMMA BeginStep ==
  ASSUME CatalogInv, NEW p \in Procs, NEW r \in Requests, NEW s, NEW w, NEW t, Begin(p, r, s, w, t),
         s \in {"name", "fkey", "file", "art", "rows", "sweep"},
         w \in [row : Rows, mode : Modes],
         t \in (SUBSET Vers) \cup (SUBSET Files),
         r.kind # "none",
         r.kind = "art" <=> s = "name", r.kind = "ver" <=> s = "fkey",
         r.kind = "file" <=> s = "file", s = "art" => r.kind = "cascade",
         s = "name" => w = Lock(Name(NameOf[r.id]), "update"),
         s = "fkey" => w = Lock(Art(ArtOf[r.id]), "share"),
         s = "art" => w = Lock(Art(r.id), "update"),
         s = "file" => w = Lock(File(r.id), "update"),
         s \in {"rows", "sweep"} => \E x \in Rows : w = Lock(x, "update"),
         s = "rows" => t \subseteq Vers, s = "sweep" => t \subseteq Files,
         r.kind = "art" => tab.art[r.id] = "none", r.kind = "ver" => tab.ver[r.id] = "none",
         r.kind \in {"art", "ver"} => \A q \in Procs : req[q] # r
  PROVE  CatalogInv'
<1>1. TypeOK /\ Drawn /\ at[p] = "idle" /\ mine[p] = NoRows /\ locks[p] = {}
  BY DEF CatalogInv, TypeOK, Begin
<1>2. Moved(p, NoRows, {}, r, s, w, t, {}, None)
  <2>1. mine' = [mine EXCEPT ![p] = NoRows] /\ locks' = [locks EXCEPT ![p] = {}]
    BY <1>1 DEF Begin, TypeOK
  <2>2. left' \in 0..MaxRequests /\ faults' \in 0..MaxFaults
    BY <1>1 DEF Begin, TypeOK
  <2> QED
    BY <2>1, <2>2 DEF Begin, Moved
<1>3. Rowed(NoRows)
  BY NoRowsFacts DEF Rowed, Partial
<1>4. Typed(NoRows, {}, r, s, w, t, {}, None)
  BY <1>3 DEF Typed, Stages
<1>5. Apart(p, {})
  BY DEF Apart
<1>6. /\ tab' = tab /\ mine'[p] = NoRows /\ locks'[p] = {} /\ req'[p] = r /\ at'[p] = s
      /\ want'[p] = w /\ todo'[p] = t /\ queue'[p] = {} /\ cur'[p] = None
      /\ \A q \in Procs : q # p => req'[q] = req[q]
  BY <1>1, <1>2, Moves
<1>7. Drawn'
  BY <1>1, <1>6 DEF Drawn
<1>8. StageOK(p)'
  BY <1>6 DEF StageOK
<1>9. PerProc(p)'
  BY <1>6, <1>8, CleanStep
<1> QED
  BY <1>2, <1>4, <1>5, <1>7, <1>9, LocalStep

\* Every request begins like that.
LEMMA RequestStep ==
  ASSUME CatalogInv, NEW p \in Procs, Request(p)
  PROVE  CatalogInv'
<1> USE RowTypes
<1>1. ASSUME NEW a \in Arts, CreateArtifact(p, a) PROVE CatalogInv'
  <2> DEFINE r == [kind |-> "art", id |-> a]
  <2>1. r \in Requests /\ r.kind = "art" /\ r.id = a
    BY DEF Requests
  <2>2. Lock(Name(NameOf[a]), "update") \in [row : Rows, mode : Modes]
    BY DEF Modes
  <2>3. tab.art[a] = "none" /\ \A q \in Procs : req[q] # r
    BY <1>1 DEF CreateArtifact, Unused
  <2>4. Begin(p, r, "name", Lock(Name(NameOf[a]), "update"), {})
    BY <1>1 DEF CreateArtifact
  <2> HIDE DEF r
  <2> QED
    BY <2>1, <2>2, <2>3, <2>4, BeginStep
<1>2. ASSUME NEW a \in Arts, DeleteArtifact(p, a) PROVE CatalogInv'
  <2> DEFINE r == [kind |-> "cascade", id |-> a]
  <2>1. r \in Requests /\ r.kind = "cascade" /\ r.id = a
    BY DEF Requests
  <2>2. Lock(Art(a), "update") \in [row : Rows, mode : Modes]
    BY DEF Modes
  <2>3. Begin(p, r, "art", Lock(Art(a), "update"), {})
    BY <1>2 DEF DeleteArtifact
  <2> HIDE DEF r
  <2> QED
    BY <2>1, <2>2, <2>3, BeginStep
<1>3. ASSUME NEW v \in Vers, CreateVersion(p, v) PROVE CatalogInv'
  <2> DEFINE r == [kind |-> "ver", id |-> v]
  <2>1. r \in Requests /\ r.kind = "ver" /\ r.id = v
    BY DEF Requests
  <2>2. Lock(Art(ArtOf[v]), "share") \in [row : Rows, mode : Modes]
    BY DEF Modes
  <2>3. tab.ver[v] = "none" /\ \A q \in Procs : req[q] # r
    BY <1>3 DEF CreateVersion, Unused
  <2>4. Begin(p, r, "fkey", Lock(Art(ArtOf[v]), "share"), {})
    BY <1>3 DEF CreateVersion
  <2> HIDE DEF r
  <2> QED
    BY <2>1, <2>2, <2>3, <2>4, BeginStep
<1>4. ASSUME NEW V \in SUBSET Vers, DeleteVersions(p, V) PROVE CatalogInv'
  <2> DEFINE r == [kind |-> "delete"]
  <2>1. r \in Requests /\ r.kind = "delete"
    BY DEF Requests
  <2>2. PICK v \in V : Begin(p, r, "rows", Lock(Ver(v), "update"), V)
    BY <1>4 DEF DeleteVersions
  <2>3. Ver(v) \in Rows /\ Lock(Ver(v), "update") \in [row : Rows, mode : Modes]
    BY DEF Modes
  <2> HIDE DEF r
  <2> QED
    BY <2>1, <2>2, <2>3, BeginStep
<1>5. ASSUME NEW f \in Files, NEW to \in Changes, ChangeFile(p, f, to) PROVE CatalogInv'
  <2> DEFINE r == [kind |-> "file", id |-> f, to |-> to]
  <2>1. r \in Requests /\ r.kind = "file" /\ r.id = f
    BY DEF Requests
  <2>2. Lock(File(f), "update") \in [row : Rows, mode : Modes]
    BY DEF Modes
  <2>3. Begin(p, r, "file", Lock(File(f), "update"), {})
    BY <1>5 DEF ChangeFile
  <2> HIDE DEF r
  <2> QED
    BY <2>1, <2>2, <2>3, BeginStep
<1>6. ASSUME NEW F \in SUBSET Files, DeleteIncompleteFiles(p, F) PROVE CatalogInv'
  <2> DEFINE r == [kind |-> "sweep"]
  <2>1. r \in Requests /\ r.kind = "sweep"
    BY DEF Requests
  <2>2. PICK f \in F : Begin(p, r, "sweep", Lock(File(f), "update"), F)
    BY <1>6 DEF DeleteIncompleteFiles
  <2>3. File(f) \in Rows /\ Lock(File(f), "update") \in [row : Rows, mode : Modes]
    BY DEF Modes
  <2>4. F \in (SUBSET Vers) \cup (SUBSET Files) /\ F \subseteq Files
    OBVIOUS
  <2> HIDE DEF r
  <2> QED
    BY <2>1, <2>2, <2>3, <2>4, BeginStep
<1> QED
  BY <1>1, <1>2, <1>3, <1>4, <1>5, <1>6 DEF Request

-----------------------------------------------------------------------------
(* Statements and triggers                                                  *)

LEMMA InvOf ==
  ASSUME CatalogInv, NEW p \in Procs
  PROVE  /\ TypeOK /\ Drawn /\ Referenced /\ StatsExact /\ NamesUnique
         /\ PerProc(p) /\ Rowed(mine[p]) /\ Apart(p, locks[p])
         /\ locks[p] \subseteq [row : Rows, mode : Modes]
         /\ left \in 0..MaxRequests /\ faults \in 0..MaxFaults
<1>1. TypeOK
  BY DEF CatalogInv
<1>2. Rowed(mine[p]) /\ Apart(p, locks[p]) /\ locks[p] \subseteq [row : Rows, mode : Modes]
  BY <1>1 DEF TypeOK, Rowed, Apart
<1> QED
  BY <1>1, <1>2 DEF CatalogInv, PerProc, TypeOK

\* A lock that is granted excludes no other.
LEMMA GrantedApart ==
  ASSUME CatalogInv, NEW p \in Procs, Granted(p)
  PROVE  Apart(p, locks[p] \cup {want[p]})
<1>1. Apart(p, locks[p])
  BY InvOf
<1>2. \A m, n : Conflict(m, n) <=> Conflict(n, m)
  BY DEF Conflict
<1> QED
  BY <1>1, <1>2 DEF Granted, Blocks, Apart

\* What p reads.
LEMMA ViewFacts ==
  ASSUME TypeOK, NEW p \in Procs
  PROVE  /\ \A a \in Arts : /\ View(p).art[a] = IF a \in DOMAIN mine[p].art THEN mine[p].art[a] ELSE tab.art[a]
                            /\ View(p).stats[a] = IF a \in DOMAIN mine[p].stats THEN mine[p].stats[a] ELSE tab.stats[a]
         /\ \A v \in Vers : /\ View(p).ver[v] = IF v \in DOMAIN mine[p].ver THEN mine[p].ver[v] ELSE tab.ver[v]
                            /\ View(p).bytes[v] = IF v \in DOMAIN mine[p].bytes THEN mine[p].bytes[v] ELSE tab.bytes[v]
         /\ \A f \in Files : View(p).file[f] = IF f \in DOMAIN mine[p].file THEN mine[p].file[f] ELSE tab.file[f]
<1>1. DOMAIN tab.art = Arts /\ DOMAIN tab.ver = Vers /\ DOMAIN tab.file = Files
        /\ DOMAIN tab.bytes = Vers /\ DOMAIN tab.stats = Arts
  BY DEF TypeOK
<1> QED
  BY <1>1, MergeFacts, OverFacts DEF View

\* The same after a step that leaves the committed tables alone.
LEMMA ViewAfter ==
  ASSUME TypeOK, NEW p \in Procs, tab' = tab
  PROVE  /\ \A a \in Arts : /\ View(p)'.art[a] = IF a \in DOMAIN mine'[p].art THEN mine'[p].art[a] ELSE tab.art[a]
                            /\ View(p)'.stats[a] = IF a \in DOMAIN mine'[p].stats THEN mine'[p].stats[a] ELSE tab.stats[a]
         /\ \A v \in Vers : /\ View(p)'.ver[v] = IF v \in DOMAIN mine'[p].ver THEN mine'[p].ver[v] ELSE tab.ver[v]
                            /\ View(p)'.bytes[v] = IF v \in DOMAIN mine'[p].bytes THEN mine'[p].bytes[v] ELSE tab.bytes[v]
         /\ \A f \in Files : View(p)'.file[f] = IF f \in DOMAIN mine'[p].file THEN mine'[p].file[f] ELSE tab.file[f]
<1>1. DOMAIN tab.art = Arts /\ DOMAIN tab.ver = Vers /\ DOMAIN tab.file = Files
        /\ DOMAIN tab.bytes = Vers /\ DOMAIN tab.stats = Arts
  BY DEF TypeOK
<1> QED
  BY <1>1, MergeFacts, OverFacts DEF View

LEMMA ReqOf ==
  ASSUME TypeOK, NEW p \in Procs
  PROVE  /\ req[p].kind = "art" => req[p].id \in Arts /\ req[p] = [kind |-> "art", id |-> req[p].id]
         /\ req[p].kind = "ver" => req[p].id \in Vers /\ req[p] = [kind |-> "ver", id |-> req[p].id]
         /\ req[p].kind = "cascade" => req[p].id \in Arts
         /\ req[p].kind = "file" => req[p].id \in Files /\ req[p].to \in Changes
<1>1. req[p] \in Requests
  BY DEF TypeOK
<1> QED
  BY <1>1 DEF Requests

LEMMA InsertArtifactStep ==
  ASSUME CatalogInv, NEW p \in Procs, InsertArtifact(p)
  PROVE  CatalogInv'
<1> DEFINE a == req[p].id
           M == Write(Write(mine[p], "art", a, "live"), "stats", a, Sums(Empty))
           L == locks[p] \cup {want[p], Lock(Art(a), "update")}
<1>1. CASE GiveUp(p)
  BY <1>1, InvOf, EndStep DEF GiveUp
<1>2. CASE /\ \A b \in Arts : tab.art[b] = "live" => NameOf[b] # NameOf[a]
           /\ mine' = [mine EXCEPT ![p] = M]
           /\ Take(p, {want[p], Lock(Art(a), "update")})
           /\ Goto(p, "commit", NoLock, {}, {}, None)
           /\ UNCHANGED <<tab, req, left, faults>>
  <2>1. TypeOK /\ Drawn /\ Referenced /\ PerProc(p) /\ Rowed(mine[p])
    BY InvOf
  <2>2. /\ mine[p] = NoRows /\ locks[p] = {} /\ req[p].kind = "art" /\ a \in Arts
        /\ req[p] = [kind |-> "art", id |-> a]
        /\ want[p] = Lock(Name(NameOf[a]), "update") /\ tab.art[a] = "none" /\ Granted(p)
    BY <2>1, ReqOf DEF PerProc, StageOK, Once, InsertArtifact
  <2> HIDE DEF M
  <2>4. Moved(p, M, L, req[p], "commit", NoLock, {}, {}, None)
    <3>1. req' = [req EXCEPT ![p] = req[p]]
      BY <1>2, <2>1 DEF TypeOK
    <3> QED
      BY <1>2, <2>1, <3>1 DEF Moved, Take, TypeOK
  <2>5. /\ DOMAIN M.art = {a} /\ M.art[a] = "live" /\ DOMAIN M.ver = {} /\ DOMAIN M.file = {}
        /\ DOMAIN M.bytes = {} /\ DOMAIN M.stats = {a} /\ M.stats[a] = Sums(Empty) /\ Tables(M)
    <3> DEFINE N == Write(NoRows, "art", a, "live")
    <3>1. M = Write(N, "stats", a, Sums(Empty))
      BY <2>2 DEF M
    <3>2. /\ Tables(N) /\ Wrote(N.art, NoRows.art, a, "live") /\ N.ver = NoRows.ver
          /\ N.file = NoRows.file /\ N.bytes = NoRows.bytes /\ N.stats = NoRows.stats
      BY NoRowsFacts, WroteArt
    <3> HIDE DEF N, a
    <3>3. /\ Tables(M) /\ Wrote(M.stats, N.stats, a, Sums(Empty)) /\ M.art = N.art
          /\ M.ver = N.ver /\ M.file = N.file /\ M.bytes = N.bytes
      BY <3>1, <3>2, WroteStats
    <3> QED
      BY <3>2, <3>3, NoRowsFacts DEF Wrote
  <2>6. L = {Lock(Name(NameOf[a]), "update"), Lock(Art(a), "update")}
    BY <2>2
  <2> HIDE DEF L
  <2>7. Typed(M, L, req[p], "commit", NoLock, {}, {}, None)
    <3>1. Rowed(M)
      BY <2>2, <2>5 DEF Rowed, Partial
    <3>2. L \subseteq [row : Rows, mode : Modes]
      BY <2>2, <2>6, RowTypes DEF Modes
    <3>3. req[p] \in Requests
      BY <2>1 DEF TypeOK
    <3> QED
      BY <3>1, <3>2, <3>3 DEF Typed, Stages
  <2>8. Apart(p, L)
    <3>1. Apart(p, {Lock(Name(NameOf[a]), "update")})
      BY <2>2, GrantedApart DEF Apart
    <3>2. ASSUME NEW q \in Procs, q # p, NEW m \in locks[q] PROVE m.row # Art(a)
      <4>1. Once(q)
        BY <3>2, InvOf DEF PerProc
      <4> QED
        BY <2>1, <2>2, <3>2, <4>1 DEF Once, Drawn
    <3>3. Apart(p, {Lock(Art(a), "update")})
      BY <3>2, LockFacts DEF Apart
    <3> QED
      BY <2>6, <3>1, <3>3 DEF Apart
  <2>9. /\ tab' = tab /\ mine'[p] = M /\ locks'[p] = L /\ req'[p] = req[p] /\ at'[p] = "commit"
        /\ want'[p] = NoLock /\ queue'[p] = {} /\ cur'[p] = None
    BY <2>1, <2>4, Moves
  <2> HIDE DEF a
  <2>10. Drawn'
    BY <1>2, <2>1 DEF Drawn
  <2>11. StageOK(p)'
    BY <2>2, <2>9 DEF StageOK
  <2>12. WritesLocked(p)'
    BY <2>5, <2>6, <2>9 DEF WritesLocked, HoldsU, HoldsX, Touched
  <2>13. Once(p)'
    BY <2>2, <2>5, <2>6, <2>9, LockFacts, RowFacts DEF Once, Touched
  <2>14. /\ \A v : ~HoldsX(p, Ver(v))' /\ \A b : HoldsU(p, Art(b))' => b = a
    BY <2>6, <2>9, LockFacts, RowFacts DEF HoldsX, HoldsU
  <2>15. BytesExact(p)'
    BY <2>5, <2>9, <2>14 DEF BytesExact
  <2>16. SumsExact(p)'
    <3>1. View(p)'.stats[a] = Sums(Empty)
      BY <2>1, <2>2, <2>5, <2>9, ViewAfter
    <3>2. \A v \in Vers : ArtOf[v] = a => View(p)'.ver[v] # "live"
      BY <2>1, <2>2, <2>5, <2>9, ViewAfter DEF Referenced
    <3>3. Stats(View(p)', a) = Sums(Empty)
      BY <3>2, StatsNone
    <3> QED
      BY <2>5, <2>9, <2>14, <3>1, <3>3 DEF SumsExact, Touched
  <2>17. NamesLocked(p)' /\ LocksOrdered(p)'
    BY <1>2, <2>2, <2>5, <2>6, <2>9, LockFacts, RowFacts DEF NamesLocked, LocksOrdered, HoldsU, a
  <2> QED
    BY <2>4, <2>7, <2>8, <2>10, <2>11, <2>12, <2>13, <2>15, <2>16, <2>17, LocalStep DEF PerProc
<1> QED
  BY <1>1, <1>2 DEF InsertArtifact

LEMMA InsertVersionStep ==
  ASSUME CatalogInv, NEW p \in Procs, InsertVersion(p)
  PROVE  CatalogInv'
<1> DEFINE v == req[p].id
           a == ArtOf[v]
           M == Write(Write(mine[p], "ver", v, "live"), "bytes", v, 0)
           L == locks[p] \cup {want[p], Lock(Ver(v), "update")}
           w == Lock(Art(a), "update")
<1>1. CASE GiveUp(p)
  BY <1>1, InvOf, EndStep DEF GiveUp
<1>2. CASE /\ tab.art[a] = "live"
           /\ mine' = [mine EXCEPT ![p] = M]
           /\ Take(p, {want[p], Lock(Ver(v), "update")})
           /\ Goto(p, "lock", w, {}, {v}, v)
           /\ UNCHANGED <<tab, req, left, faults>>
  <2>1. TypeOK /\ Drawn /\ Referenced /\ PerProc(p) /\ Rowed(mine[p])
    BY InvOf
  <2>2. /\ mine[p] = NoRows /\ locks[p] = {} /\ req[p].kind = "ver" /\ v \in Vers
        /\ req[p] = [kind |-> "ver", id |-> v]
        /\ want[p] = Lock(Art(a), "share") /\ tab.ver[v] = "none" /\ Granted(p)
    BY <2>1, ReqOf DEF PerProc, StageOK, Once, InsertVersion
  <2>3. a \in Arts
    BY <2>2
  <2> HIDE DEF M
  <2>4. Moved(p, M, L, req[p], "lock", w, {}, {v}, v)
    <3>1. req' = [req EXCEPT ![p] = req[p]]
      BY <1>2, <2>1 DEF TypeOK
    <3> QED
      BY <1>2, <2>1, <3>1 DEF Moved, Take, TypeOK
  <2>5. /\ DOMAIN M.ver = {v} /\ M.ver[v] = "live" /\ DOMAIN M.art = {} /\ DOMAIN M.file = {}
        /\ DOMAIN M.bytes = {v} /\ M.bytes[v] = 0 /\ DOMAIN M.stats = {} /\ Tables(M)
    <3> DEFINE N == Write(NoRows, "ver", v, "live")
    <3>1. M = Write(N, "bytes", v, 0)
      BY <2>2 DEF M
    <3>2. /\ Tables(N) /\ Wrote(N.ver, NoRows.ver, v, "live") /\ N.art = NoRows.art
          /\ N.file = NoRows.file /\ N.bytes = NoRows.bytes /\ N.stats = NoRows.stats
      BY NoRowsFacts, WroteVer
    <3> HIDE DEF N, v
    <3>3. /\ Tables(M) /\ Wrote(M.bytes, N.bytes, v, 0) /\ M.art = N.art
          /\ M.ver = N.ver /\ M.file = N.file /\ M.stats = N.stats
      BY <3>1, <3>2, WroteBytes
    <3> QED
      BY <3>2, <3>3, NoRowsFacts DEF Wrote
  <2>6. L = {Lock(Art(a), "share"), Lock(Ver(v), "update")}
    BY <2>2
  <2> HIDE DEF L
  <2>7. Typed(M, L, req[p], "lock", w, {}, {v}, v)
    <3>1. Rowed(M)
      BY <2>2, <2>5 DEF Rowed, Partial
    <3>2. L \subseteq [row : Rows, mode : Modes] /\ w \in [row : Rows, mode : Modes]
      BY <2>2, <2>3, <2>6, RowTypes DEF Modes
    <3>3. req[p] \in Requests
      BY <2>1 DEF TypeOK
    <3> HIDE DEF w
    <3> QED
      BY <2>2, <3>1, <3>2, <3>3 DEF Typed, Stages
  <2>8. Apart(p, L)
    <3>1. Apart(p, {Lock(Art(a), "share")})
      BY <2>2, GrantedApart DEF Apart
    <3>2. ASSUME NEW q \in Procs, q # p, NEW m \in locks[q] PROVE m.row # Ver(v)
      <4>1. Once(q)
        BY <3>2, InvOf DEF PerProc
      <4> QED
        BY <2>1, <2>2, <3>2, <4>1 DEF Once, Drawn
    <3>3. Apart(p, {Lock(Ver(v), "update")})
      BY <3>2, LockFacts DEF Apart
    <3> QED
      BY <2>6, <3>1, <3>3 DEF Apart
  <2>9. /\ tab' = tab /\ mine'[p] = M /\ locks'[p] = L /\ req'[p] = req[p] /\ at'[p] = "lock"
        /\ want'[p] = w /\ queue'[p] = {v} /\ cur'[p] = v
    BY <2>1, <2>4, Moves
  <2> HIDE DEF v
  <2>10. Drawn'
    BY <1>2, <2>1 DEF Drawn
  <2>11. StageOK(p)'
    BY <2>2, <2>5, <2>9 DEF StageOK, Touched
  <2>12. WritesLocked(p)'
    BY <2>5, <2>6, <2>9 DEF WritesLocked, HoldsU, HoldsX, Touched
  <2>13. Once(p)'
    BY <1>2, <2>2, <2>5, <2>6, <2>9, LockFacts, RowFacts DEF Once, Touched
  <2>14. (\A u : HoldsX(p, Ver(u))' => u = v) /\ (\A b : ~HoldsU(p, Art(b))')
    BY <2>6, <2>9, LockFacts, RowFacts DEF HoldsX, HoldsU
  <2>15. BytesExact(p)'
    <3>1. View(p)'.bytes[v] = 0
      BY <2>1, <2>2, <2>5, <2>9, ViewAfter
    <3>2. Avail(View(p)', v) = {}
      <4>1. \A f \in Files : VerOf[f] = v => View(p)'.file[f] = "none"
        BY <2>1, <2>2, <2>5, <2>9, ViewAfter DEF Referenced
      <4> QED
        BY <4>1 DEF Avail, Counted
    <3>3. Bytes(Avail(View(p)', v)) = 0
      BY <3>2, BytesAssumption
    <3> QED
      BY <2>5, <2>9, <2>14, <3>1, <3>3 DEF BytesExact
  <2>16. SumsExact(p)'
    <3>1. Touched(p)' = {v}
      BY <2>5, <2>9 DEF Touched
    <3> QED
      BY <2>9, <2>14, <3>1 DEF SumsExact
  <2>17. NamesLocked(p)' /\ LocksOrdered(p)'
    BY <2>2, <2>5, <2>6, <2>9, LockFacts, RowFacts DEF NamesLocked, LocksOrdered
  <2> QED
    BY <2>4, <2>7, <2>8, <2>10, <2>11, <2>12, <2>13, <2>15, <2>16, <2>17, LocalStep DEF PerProc
<1> QED
  BY <1>1, <1>2 DEF InsertVersion

LEMMA DeltaFacts ==
  ASSUME TypeOK, NEW p \in Procs, req[p].kind = "file"
  PROVE  /\ Delta(p) = Counted(req[p].id, req[p].to) - Counted(req[p].id, tab.file[req[p].id])
         /\ Delta(p) \in Int
         /\ Delta(p) = 0 => Counted(req[p].id, req[p].to) = Counted(req[p].id, tab.file[req[p].id])
<1>1. \A f \in Files : \A x : Counted(f, x) \in Int
  BY DEF Counted
<1>2. req[p].id \in Files
  BY ReqOf
<1> QED
  BY <1>1, <1>2 DEF Delta

LEMMA WriteFileStep ==
  ASSUME CatalogInv, NEW p \in Procs, WriteFile(p)
  PROVE  CatalogInv'
<1> DEFINE f == req[p].id
           u == VerOf[f]
           M == Write(mine[p], "file", f, req[p].to)
           L == locks[p] \cup {want[p]}
<1>1. CASE GiveUp(p)
  BY <1>1, InvOf, EndStep DEF GiveUp
<1>2. CASE /\ tab.file[f] \in Present
           /\ mine' = [mine EXCEPT ![p] = M]
           /\ Take(p, {want[p]})
           /\ IF Delta(p) # 0
              THEN Goto(p, "bytes", Lock(Ver(u), "nokey"), {}, {}, u)
              ELSE Goto(p, "commit", NoLock, {}, {}, None)
           /\ UNCHANGED <<tab, req, left, faults>>
  <2>1. TypeOK /\ Drawn /\ Referenced /\ PerProc(p) /\ Rowed(mine[p])
    BY InvOf
  <2>2. /\ mine[p] = NoRows /\ locks[p] = {} /\ req[p].kind = "file" /\ f \in Files
        /\ req[p].to \in Changes /\ want[p] = Lock(File(f), "update") /\ Granted(p)
    BY <2>1, ReqOf DEF PerProc, StageOK, WriteFile
  <2>3. u \in Vers
    BY <2>2
  <2> HIDE DEF M
  <2>4. PICK s, w, v :
          /\ Moved(p, M, L, req[p], s, w, {}, {}, v)
          /\ \/ s = "bytes" /\ w = Lock(Ver(u), "nokey") /\ v = u
             \/ s = "commit" /\ w = NoLock /\ v = None /\ Delta(p) = 0
    <3>1. req' = [req EXCEPT ![p] = req[p]]
      BY <1>2, <2>1 DEF TypeOK
    <3> QED
      BY <1>2, <2>1, <3>1 DEF Moved, Take, TypeOK
  <2>5. /\ DOMAIN M.file = {f} /\ M.file[f] = req[p].to /\ DOMAIN M.art = {} /\ DOMAIN M.ver = {}
        /\ DOMAIN M.bytes = {} /\ DOMAIN M.stats = {} /\ Tables(M) /\ M.art = Empty
    <3> HIDE DEF f
    <3>1. /\ Tables(M) /\ Wrote(M.file, NoRows.file, f, req[p].to) /\ M.art = NoRows.art
          /\ M.ver = NoRows.ver /\ M.bytes = NoRows.bytes /\ M.stats = NoRows.stats
      BY <2>2, NoRowsFacts, WroteFile DEF M
    <3> QED
      BY <3>1, NoRowsFacts DEF Wrote
  <2>6. L = {Lock(File(f), "update")}
    BY <2>2
  <2> HIDE DEF L
  <2>7. Typed(M, L, req[p], s, w, {}, {}, v)
    <3>1. Rowed(M)
      BY <2>2, <2>5 DEF Rowed, Partial
    <3>2. L \subseteq [row : Rows, mode : Modes] /\ w \in [row : Rows, mode : Modes] \cup {NoLock}
      BY <2>2, <2>3, <2>4, <2>6, RowTypes DEF Modes
    <3>3. req[p] \in Requests
      BY <2>1 DEF TypeOK
    <3> QED
      BY <2>3, <2>4, <3>1, <3>2, <3>3 DEF Typed, Stages
  <2>8. Apart(p, L)
    BY <2>2, <2>6, GrantedApart DEF Apart
  <2>9. /\ tab' = tab /\ mine'[p] = M /\ locks'[p] = L /\ req'[p] = req[p] /\ at'[p] = s
        /\ want'[p] = w /\ queue'[p] = {} /\ cur'[p] = v
    BY <2>1, <2>4, Moves
  <2> HIDE DEF f
  <2>10. Drawn'
    BY <1>2, <2>1 DEF Drawn
  <2>11. StageOK(p)'
    BY <2>2, <2>4, <2>5, <2>9 DEF StageOK, Touched, f
  <2>12. WritesLocked(p)'
    BY <2>5, <2>6, <2>9 DEF WritesLocked, HoldsU, HoldsX, Touched
  <2>13. Once(p)'
    BY <1>2, <2>2, <2>5, <2>6, <2>9, LockFacts, RowFacts DEF Once, Touched
  <2>14. /\ \A x : ~HoldsX(p, Ver(x))' /\ \A b : ~HoldsU(p, Art(b))'
    BY <2>6, <2>9, LockFacts, RowFacts DEF HoldsX, HoldsU
  <2>15. BytesExact(p)'
    BY <2>1, <2>2, <2>4, <2>5, <2>9, <2>14, DeltaFacts DEF BytesExact, f
  <2>16. SumsExact(p)'
    BY <2>5, <2>9, <2>14 DEF SumsExact, Touched
  <2>17. NamesLocked(p)' /\ LocksOrdered(p)'
    BY <2>2, <2>4, <2>5, <2>6, <2>9, LockFacts, RowFacts DEF NamesLocked, LocksOrdered
  <2> QED
    BY <2>4, <2>7, <2>8, <2>10, <2>11, <2>12, <2>13, <2>15, <2>16, <2>17, LocalStep DEF PerProc
<1> QED
  BY <1>1, <1>2 DEF WriteFile

LEMMA FileLocks ==
  ASSUME NEW S, \A l \in S : \E g \in Files : l.row = File(g)
  PROVE  \A x, m : Lock(Art(x), m) \notin S /\ Lock(Ver(x), m) \notin S /\ Lock(Name(x), m) \notin S
BY LockFacts, RowFacts

LEMMA AddBytesStep ==
  ASSUME CatalogInv, NEW p \in Procs, AddBytes(p)
  PROVE  CatalogInv'
<1>0. PICK f, v : f = req[p].id /\ v = cur[p]
  OBVIOUS
<1> DEFINE M == Write(mine[p], "bytes", v, tab.bytes[v] + Delta(p))
           L == locks[p] \cup {want[p]}
           w == Lock(Art(ArtOf[v]), "update")
<1>1. TypeOK /\ Drawn /\ Referenced /\ StatsExact /\ PerProc(p) /\ Rowed(mine[p]) /\ Apart(p, locks[p])
        /\ locks[p] \subseteq [row : Rows, mode : Modes]
  BY InvOf
<1>2. /\ at[p] = "bytes" /\ Granted(p) /\ req[p].kind = "file" /\ f \in Files /\ v = VerOf[f] /\ v \in Vers
      /\ DOMAIN mine[p].file = {f} /\ mine[p].file[f] = req[p].to /\ mine[p].art = Empty
      /\ DOMAIN mine[p].ver = {} /\ DOMAIN mine[p].bytes = {} /\ want[p] = Lock(Ver(v), "nokey")
  BY <1>0, <1>1, ReqOf DEF PerProc, StageOK, AddBytes, Touched
<1>3. \A l \in locks[p] : \E g \in Files : l.row = File(g)
  BY <1>1, <1>2 DEF PerProc, LocksOrdered
<1>4. DOMAIN mine[p].art = {} /\ DOMAIN mine[p].stats = {}
  <2>1. \A a \in DOMAIN mine[p].stats : HoldsU(p, Art(a))
    BY <1>1 DEF PerProc, WritesLocked
  <2> QED
    BY <1>2, <1>3, <2>1, FileLocks DEF HoldsU, Empty
<1>5. req' = [req EXCEPT ![p] = req[p]] /\ Drawn' /\ left' \in 0..MaxRequests /\ faults' \in 0..MaxFaults
  BY <1>1 DEF AddBytes, TypeOK, Drawn
<1>6. tab.file[f] \in Present /\ tab.ver[v] \in {"live", "gone"}
  <2>1. tab.file[f] \in Present
    BY <1>1, <1>2 DEF PerProc, Once
  <2> QED
    BY <1>1, <1>2, <2>1 DEF Referenced, TypeOK, States, Present
<1>7. CASE /\ tab.ver[v] # "live"
           /\ Goto(p, "commit", NoLock, {}, {}, None)
           /\ UNCHANGED <<mine, locks>>
  <2>1. Moved(p, mine[p], locks[p], req[p], "commit", NoLock, {}, {}, None)
    BY <1>1, <1>5, <1>7 DEF AddBytes, Moved, TypeOK
  <2>2. Typed(mine[p], locks[p], req[p], "commit", NoLock, {}, {}, None)
    BY <1>1 DEF Typed, Stages, TypeOK
  <2>3. /\ tab' = tab /\ mine'[p] = mine[p] /\ locks'[p] = locks[p] /\ req'[p] = req[p]
        /\ at'[p] = "commit" /\ want'[p] = NoLock /\ queue'[p] = {} /\ cur'[p] = None
    BY <1>1, <2>1, Moves
  <2>4. \A b : ~HoldsX(p, Ver(b))' /\ ~HoldsU(p, Art(b))'
    BY <1>3, <2>3, FileLocks DEF HoldsX, HoldsU
  <2>5. StageOK(p)'
    BY <1>0, <1>2, <2>3 DEF StageOK
  <2>6. WritesLocked(p)' /\ Once(p)'
    BY <1>1, <2>3 DEF PerProc, WritesLocked, Once, HoldsU, HoldsX, Touched
  <2>7. BytesExact(p)'
    BY <1>2, <1>6, <1>7, <2>3, <2>4 DEF BytesExact
  <2>8. SumsExact(p)'
    BY <1>2, <2>3, <2>4 DEF SumsExact, Touched
  <2>9. NamesLocked(p)' /\ LocksOrdered(p)'
    BY <1>1, <2>3 DEF PerProc, NamesLocked, LocksOrdered, HoldsU
  <2> QED
    BY <1>1, <1>5, <2>1, <2>2, <2>5, <2>6, <2>7, <2>8, <2>9, LocalStep DEF PerProc
<1>8. CASE /\ tab.ver[v] = "live"
           /\ mine' = [mine EXCEPT ![p] = M]
           /\ Take(p, {want[p]})
           /\ Goto(p, "lock", w, {}, {v}, v)
  <2> HIDE DEF M
  <2>1. Moved(p, M, L, req[p], "lock", w, {}, {v}, v)
    BY <1>1, <1>5, <1>8 DEF AddBytes, Moved, Take
  <2>2. /\ Tables(M) /\ M.art = mine[p].art /\ M.ver = mine[p].ver /\ M.file = mine[p].file
        /\ M.stats = mine[p].stats /\ DOMAIN M.bytes = {v} /\ M.bytes[v] = tab.bytes[v] + Delta(p)
    <3>1. Tables(mine[p])
      BY <1>1 DEF Rowed
    <3>2. /\ Tables(M) /\ M.art = mine[p].art /\ M.ver = mine[p].ver /\ M.file = mine[p].file
          /\ M.stats = mine[p].stats /\ Wrote(M.bytes, mine[p].bytes, v, tab.bytes[v] + Delta(p))
      BY <3>1, WroteBytes DEF M
    <3> QED
      BY <1>2, <3>2 DEF Wrote
  <2>3. ArtOf[v] \in Arts /\ tab.bytes[v] \in Int /\ Delta(p) \in Int
    BY <1>1, <1>2, DeltaFacts DEF TypeOK
  <2>4. Typed(M, L, req[p], "lock", w, {}, {v}, v)
    <3>1. Rowed(M)
      BY <1>1, <1>2, <2>2, <2>3 DEF Rowed, Partial
    <3>2. L \subseteq [row : Rows, mode : Modes] /\ w \in [row : Rows, mode : Modes]
      BY <1>1, <1>2, <2>3, RowTypes DEF Modes
    <3>3. req[p] \in Requests
      BY <1>1 DEF TypeOK
    <3> HIDE DEF w
    <3> QED
      BY <1>2, <3>1, <3>2, <3>3 DEF Typed, Stages
  <2>5. Apart(p, L)
    BY <1>2, GrantedApart
  <2>6. /\ tab' = tab /\ mine'[p] = M /\ locks'[p] = L /\ req'[p] = req[p] /\ at'[p] = "lock"
        /\ want'[p] = w /\ queue'[p] = {v} /\ cur'[p] = v
    BY <1>1, <2>1, Moves
  <2>7. L = locks[p] \cup {Lock(Ver(v), "nokey")}
    BY <1>2
  <2> HIDE DEF L
  <2>8. Touched(p)' = {v}
    BY <1>2, <2>2, <2>6 DEF Touched
  <2>9. /\ \A u : HoldsX(p, Ver(u))' => u = v
        /\ \A b : ~HoldsU(p, Art(b))'
        /\ HoldsX(p, Ver(v))'
    BY <1>3, <2>6, <2>7, FileLocks, LockFacts, RowFacts DEF HoldsX, HoldsU
  <2>10. StageOK(p)'
    BY <1>2, <2>6, <2>8 DEF StageOK
  <2>11. WritesLocked(p)'
    BY <1>1, <1>4, <2>2, <2>6, <2>7, <2>8, <2>9 DEF PerProc, WritesLocked, HoldsU
  <2>12. Once(p)'
    <3>1. tab.art[ArtOf[v]] # "none"
      BY <1>1, <1>2, <1>8 DEF Referenced
    <3>2. \A l \in L : \A a \in Arts : l.row # Art(a)
      BY <1>3, <2>7, LockFacts, RowFacts
    <3>3. \A l \in L : \A u \in Vers : l.row = Ver(u) => tab.ver[u] # "none"
      BY <1>3, <1>8, <2>7, LockFacts, RowFacts
    <3> QED
      BY <1>2, <1>4, <1>6, <2>2, <2>6, <2>8, <3>1, <3>2, <3>3 DEF Once
  <2>13. BytesExact(p)'
    <3>1. /\ View(p)'.bytes[v] = tab.bytes[v] + Delta(p)
          /\ View(p)'.file[f] = req[p].to
          /\ \A g \in Files : g # f => tab.file[g] = View(p)'.file[g]
      BY <1>1, <1>2, <2>2, <2>6, ViewAfter
    <3>2. tab.bytes[v] = Bytes(Avail(tab, v))
      BY <1>1, <1>2, <1>8 DEF StatsExact
    <3>3. Delta(p) = Counted(f, req[p].to) - Counted(f, tab.file[f])
      BY <1>0, <1>1, <1>2, DeltaFacts
    <3>4. Bytes(Avail(View(p)', v)) = Bytes(Avail(tab, v)) + (Counted(f, View(p)'.file[f]) - Counted(f, tab.file[f]))
      <4> DEFINE U == View(p)'
      <4> HIDE DEF U
      <4>1. \A g \in Files : g # f => tab.file[g] = U.file[g]
        BY <3>1 DEF U
      <4> QED
        BY <1>2, <4>1, BytesMove DEF U
    <3>5. View(p)'.bytes[v] = Bytes(Avail(View(p)', v))
      BY <3>1, <3>2, <3>3, <3>4
    <3> QED
      BY <1>2, <2>2, <2>6, <2>9, <3>5 DEF BytesExact
  <2>14. SumsExact(p)'
    BY <2>6, <2>8, <2>9 DEF SumsExact
  <2>15. NamesLocked(p)' /\ LocksOrdered(p)'
    <3>1. \A l \in L : (\E g \in Files : l.row = File(g)) \/ l.row = Ver(v)
      BY <1>3, <2>7, LockFacts
    <3>2. \A l \in L : \A n : l.row # Name(n)
      BY <3>1, RowFacts
    <3> QED
      BY <1>2, <1>4, <2>2, <2>6, <3>1, <3>2 DEF NamesLocked, LocksOrdered
  <2> QED
    BY <1>5, <2>1, <2>4, <2>5, <2>10, <2>11, <2>12, <2>13, <2>14, <2>15, LocalStep DEF PerProc
<1> QED
  BY <1>0, <1>7, <1>8 DEF AddBytes

LEMMA LockArtifactStep ==
  ASSUME CatalogInv, NEW p \in Procs, LockArtifact(p)
  PROVE  CatalogInv'
<1>0. PICK a : a = ArtOf[cur[p]]
  OBVIOUS
<1> DEFINE L == IF View(p).art[a] = "live" THEN locks[p] \cup {want[p]} ELSE locks[p]
<1>1. TypeOK /\ Drawn /\ PerProc(p) /\ Rowed(mine[p]) /\ Apart(p, locks[p])
        /\ locks[p] \subseteq [row : Rows, mode : Modes] /\ left \in 0..MaxRequests /\ faults \in 0..MaxFaults
  BY InvOf
<1>2. /\ at[p] = "lock" /\ Granted(p) /\ cur[p] \in queue[p] /\ want[p] = Lock(Art(a), "update")
      /\ queue[p] \subseteq Touched(p) /\ req[p].kind \notin {"none", "art"}
  BY <1>0, <1>1 DEF PerProc, StageOK, LockArtifact
<1>3. queue[p] \in SUBSET Vers /\ cur[p] \in Vers /\ a \in Arts /\ tab.art[a] \in {"live", "gone"}
  <2>1. queue[p] \in SUBSET Vers
    BY <1>1 DEF TypeOK
  <2>2. tab.art[a] # "none"
    BY <1>0, <1>1, <1>2 DEF PerProc, Once
  <2> QED
    BY <1>0, <1>1, <1>2, <2>1, <2>2 DEF TypeOK, States
<1>4. View(p).art[a] \in {"live", "gone"}
  BY <1>1, <1>3, ViewFacts DEF Rowed, Partial
<1>5. /\ locks[p] \subseteq L
      /\ \A l \in L : l \in locks[p] \/ l = Lock(Art(a), "update")
      /\ Lock(Art(a), "update") \in L \/ View(p).art[a] = "gone"
  BY <1>2, <1>4
<1>6. Moved(p, mine[p], L, req[p], "stats", NoLock, {}, queue[p], cur[p])
  <2>1. locks' = [locks EXCEPT ![p] = L]
    BY <1>0, <1>1 DEF LockArtifact, Take, TypeOK
  <2>2. mine' = [mine EXCEPT ![p] = mine[p]] /\ req' = [req EXCEPT ![p] = req[p]]
    BY <1>1 DEF LockArtifact, TypeOK
  <2> QED
    BY <1>1, <2>1, <2>2 DEF LockArtifact, Moved
<1> HIDE DEF L
<1>7. Typed(mine[p], L, req[p], "stats", NoLock, {}, queue[p], cur[p])
  <2>1. L \subseteq [row : Rows, mode : Modes]
    BY <1>1, <1>3, <1>5, RowTypes DEF Modes
  <2> QED
    BY <1>1, <2>1 DEF Typed, Stages, TypeOK
<1>8. Apart(p, L)
  BY <1>2, <1>5, GrantedApart DEF Apart
<1>9. /\ tab' = tab /\ mine'[p] = mine[p] /\ locks'[p] = L /\ req'[p] = req[p] /\ at'[p] = "stats"
      /\ want'[p] = NoLock /\ queue'[p] = queue[p] /\ cur'[p] = cur[p]
  BY <1>1, <1>6, Moves
<1>10. Drawn' /\ View(p)' = View(p) /\ Touched(p)' = Touched(p)
  BY <1>1, <1>9 DEF Drawn, LockArtifact, View, Touched
<1>11. /\ \A r : HoldsU(p, r) => HoldsU(p, r)'
       /\ \A r : HoldsX(p, r) => HoldsX(p, r)'
       /\ \A r : r # Art(a) /\ HoldsU(p, r)' => HoldsU(p, r)
       /\ \A r : r # Art(a) /\ HoldsX(p, r)' => HoldsX(p, r)
  BY <1>5, <1>9, LockFacts DEF HoldsU, HoldsX
<1>12. StageOK(p)'
  <2>1. HoldsU(p, Art(a))' \/ View(p)'.art[a] = "gone"
    BY <1>5, <1>9, <1>10 DEF HoldsU
  <2> QED
    BY <1>0, <1>1, <1>2, <1>9, <1>10, <2>1 DEF PerProc, StageOK
<1>13. WritesLocked(p)'
  BY <1>1, <1>9, <1>10, <1>11 DEF PerProc, WritesLocked
<1>14. Once(p)'
  <2>1. \A l \in L : /\ \A b \in Arts : l.row = Art(b) => tab.art[b] # "none" \/ req[p] = [kind |-> "art", id |-> b]
                     /\ \A v \in Vers : l.row = Ver(v) => tab.ver[v] # "none" \/ req[p] = [kind |-> "ver", id |-> v]
    BY <1>1, <1>3, <1>5, LockFacts, RowFacts DEF PerProc, Once
  <2> QED
    BY <1>1, <1>9, <1>10, <2>1 DEF PerProc, Once
<1>15. BytesExact(p)'
  BY <1>1, <1>2, <1>9, <1>10, <1>11, RowFacts DEF PerProc, BytesExact
<1>16. SumsExact(p)'
  <2>1. \A b \in Arts : HoldsU(p, Art(b))' => HoldsU(p, Art(b)) \/ b = a
    BY <1>11, RowFacts
  <2> QED
    BY <1>0, <1>1, <1>2, <1>9, <1>10, <1>11, <2>1 DEF PerProc, SumsExact
<1>17. NamesLocked(p)' /\ LocksOrdered(p)'
  BY <1>1, <1>2, <1>5, <1>9, <1>11, LockFacts, RowFacts DEF PerProc, NamesLocked, LocksOrdered
<1> QED
  BY <1>6, <1>7, <1>8, <1>10, <1>12, <1>13, <1>14, <1>15, <1>16, <1>17, LocalStep DEF PerProc

\* Where NextTrigger leads.
Triggered(Q, s, w, t, v) ==
  \/ s = "commit" /\ w = NoLock /\ t = {} /\ Q = {} /\ v = None
  \/ s = "lock" /\ v \in Q /\ w = Lock(Art(ArtOf[v]), "update") /\ t = {}
  \/ /\ s = "cascade" /\ v \in Q /\ t \subseteq Files /\ \A f \in t : VerOf[f] = v
     /\ \E r \in Rows : w = Lock(r, "update")

LEMMA NextTriggerFacts ==
  ASSUME NEW p \in Procs, NEW T, NEW Q, NextTrigger(p, T, Q)
  PROVE  \E s, w, t, v : Goto(p, s, w, t, Q, v) /\ Triggered(Q, s, w, t, v)
<1>1. CASE Q = {} /\ Goto(p, "commit", NoLock, {}, {}, None)
  <2>1. Triggered(Q, "commit", NoLock, {}, None)
    BY <1>1 DEF Triggered
  <2> QED
    BY <1>1, <2>1
<1>2. ASSUME NEW v \in Q, Goto(p, "lock", Lock(Art(ArtOf[v]), "update"), {}, Q, v)
      PROVE  \E s, w, t, x : Goto(p, s, w, t, Q, x) /\ Triggered(Q, s, w, t, x)
  <2>1. Triggered(Q, "lock", Lock(Art(ArtOf[v]), "update"), {}, v)
    BY DEF Triggered
  <2> QED
    BY <1>2, <2>1
<1>3. ASSUME NEW v \in Q, NEW f \in FilesOf(T, v),
             Goto(p, "cascade", Lock(File(f), "update"), FilesOf(T, v), Q, v)
      PROVE  \E s, w, t, x : Goto(p, s, w, t, Q, x) /\ Triggered(Q, s, w, t, x)
  <2>1. FilesOf(T, v) \subseteq Files /\ \A g \in FilesOf(T, v) : VerOf[g] = v
    BY DEF FilesOf
  <2>2. \E r \in Rows : Lock(File(f), "update") = Lock(r, "update")
    BY <2>1, RowTypes
  <2>3. Triggered(Q, "cascade", Lock(File(f), "update"), FilesOf(T, v), v)
    BY <2>1, <2>2 DEF Triggered
  <2> QED
    BY <1>3, <2>3
<1> QED
  BY <1>1, <1>2, <1>3 DEF NextTrigger

LEMMA TriggeredTypes ==
  ASSUME NEW Q \in SUBSET Vers, NEW s, NEW w, NEW t, NEW v, Triggered(Q, s, w, t, v)
  PROVE  /\ s \in Stages /\ w \in [row : Rows, mode : Modes] \cup {NoLock}
         /\ t \in (SUBSET Vers) \cup (SUBSET Files) /\ v \in Vers \cup {None}
<1>1. \A u \in Q : Lock(Art(ArtOf[u]), "update") \in [row : Rows, mode : Modes]
  BY RowTypes DEF Modes
<1>2. \A r \in Rows : Lock(r, "update") \in [row : Rows, mode : Modes]
  BY RowTypes DEF Modes
<1> QED
  BY <1>1, <1>2 DEF Triggered, Stages

LEMMA TriggerStage ==
  ASSUME NEW p \in Procs, NEW Q, NEW s, NEW w, NEW t, NEW v, Triggered(Q, s, w, t, v),
         at'[p] = s, want'[p] = w, todo'[p] = t, queue'[p] = Q, cur'[p] = v,
         Q \subseteq Touched(p)',
         \A u \in Q : u \in DOMAIN mine'[p].ver /\ mine'[p].ver[u] = "gone" /\ View(p)'.ver[u] = "gone",
         req'[p].kind \notin {"none", "art"}, req'[p].kind = "file" => Q = {}
  PROVE  StageOK(p)'
<1>1. CASE s = "commit" /\ w = NoLock /\ t = {} /\ Q = {} /\ v = None
  BY <1>1 DEF StageOK
<1>2. CASE s = "lock" /\ v \in Q /\ w = Lock(Art(ArtOf[v]), "update") /\ t = {}
  BY <1>2 DEF StageOK
<1>3. CASE /\ s = "cascade" /\ v \in Q /\ t \subseteq Files /\ \A f \in t : VerOf[f] = v
           /\ \E r \in Rows : w = Lock(r, "update")
  <2>1. at'[p] = "cascade" /\ v \in Q /\ t \subseteq Files /\ req'[p].kind # "file"
    BY <1>3
  <2>2. \E r \in Rows : w = Lock(r, "update")
    BY <1>3
  <2>3. \A f \in t : f \in Files /\ VerOf[f] = v
    BY <1>3
  <2> QED
    BY <2>1, <2>2, <2>3 DEF StageOK
<1> QED
  BY <1>1, <1>2, <1>3 DEF Triggered

LEMMA RecomputeStatsStep ==
  ASSUME CatalogInv, NEW p \in Procs, RecomputeStats(p)
  PROVE  CatalogInv'
<1>0. PICK a : a = ArtOf[cur[p]]
  OBVIOUS
<1> DEFINE Q == queue[p] \ {cur[p]}
           M == IF View(p).art[a] = "live" THEN Write(mine[p], "stats", a, Stats(View(p), a)) ELSE mine[p]
<1>1. TypeOK /\ Drawn /\ PerProc(p) /\ Rowed(mine[p]) /\ Apart(p, locks[p])
        /\ locks[p] \subseteq [row : Rows, mode : Modes] /\ left \in 0..MaxRequests /\ faults \in 0..MaxFaults
  BY InvOf
<1>2. /\ at[p] = "stats" /\ cur[p] \in queue[p] /\ queue[p] \subseteq Touched(p)
      /\ req[p].kind \notin {"none", "art"} /\ (req[p].kind = "file" => queue[p] = {cur[p]})
      /\ HoldsU(p, Art(a)) \/ View(p).art[a] = "gone"
      /\ \A v \in Q : v \in DOMAIN mine[p].ver /\ mine[p].ver[v] = "gone"
  <2>1. at[p] = "stats"
    BY DEF RecomputeStats
  <2> QED
    BY <1>0, <1>1, <2>1 DEF PerProc, StageOK, LocksOrdered
<1>3. queue[p] \in SUBSET Vers /\ cur[p] \in Vers /\ a \in Arts
  <2>1. queue[p] \in SUBSET Vers
    BY <1>1 DEF TypeOK
  <2> QED
    BY <1>0, <1>2, <2>1
<1>4. /\ Tables(M) /\ M.art = mine[p].art /\ M.ver = mine[p].ver /\ M.file = mine[p].file /\ M.bytes = mine[p].bytes
      /\ DOMAIN M.stats \subseteq DOMAIN mine[p].stats \cup {a}
      /\ View(p).art[a] # "live" => M = mine[p]
      /\ View(p).art[a] = "live" => Wrote(M.stats, mine[p].stats, a, Stats(View(p), a))
  <2>1. Tables(mine[p])
    BY <1>1 DEF Rowed
  <2> DEFINE e == Stats(View(p), a)
  <2> HIDE DEF e
  <2>2. /\ Tables(Write(mine[p], "stats", a, e))
        /\ Wrote(Write(mine[p], "stats", a, e).stats, mine[p].stats, a, e)
        /\ Write(mine[p], "stats", a, e).art = mine[p].art
        /\ Write(mine[p], "stats", a, e).ver = mine[p].ver
        /\ Write(mine[p], "stats", a, e).file = mine[p].file
        /\ Write(mine[p], "stats", a, e).bytes = mine[p].bytes
    BY <2>1, WroteStats
  <2>3. M = IF View(p).art[a] = "live" THEN Write(mine[p], "stats", a, e) ELSE mine[p]
    BY DEF e
  <2> HIDE DEF M
  <2>4. CASE View(p).art[a] = "live"
    <3>1. M = Write(mine[p], "stats", a, e)
      BY <2>3, <2>4
    <3> QED
      BY <2>2, <2>4, <3>1 DEF Wrote, e
  <2>5. CASE View(p).art[a] # "live"
    BY <2>1, <2>3, <2>5
  <2> QED
    BY <2>4, <2>5
<1>5. PICK s, w, t, v : Moved(p, M, locks[p], req[p], s, w, t, Q, v) /\ Triggered(Q, s, w, t, v)
  <2>1. mine' = [mine EXCEPT ![p] = M]
    BY <1>0, <1>1, MineDomain DEF RecomputeStats, TypeOK
  <2>2. locks' = [locks EXCEPT ![p] = locks[p]] /\ req' = [req EXCEPT ![p] = req[p]]
    BY <1>1 DEF RecomputeStats, TypeOK
  <2>3. PICK s, w, t, v : Goto(p, s, w, t, Q, v) /\ Triggered(Q, s, w, t, v)
    BY NextTriggerFacts DEF RecomputeStats
  <2> HIDE DEF M
  <2>4. Moved(p, M, locks[p], req[p], s, w, t, Q, v)
    BY <1>1, <2>1, <2>2, <2>3 DEF RecomputeStats, Moved
  <2> QED
    BY <2>3, <2>4
<1> HIDE DEF M
<1>6. Typed(M, locks[p], req[p], s, w, t, Q, v)
  <2>1. Rowed(M)
    BY <1>1, <1>3, <1>4 DEF Rowed
  <2>2. req[p] \in Requests
    BY <1>1 DEF TypeOK
  <2>3. Q \in SUBSET Vers
    BY <1>3
  <2>4. s # "idle"
    BY <1>5 DEF Triggered
  <2> HIDE DEF Q
  <2> QED
    BY <1>1, <1>5, <2>1, <2>2, <2>3, <2>4, TriggeredTypes DEF Typed
<1>7. /\ tab' = tab /\ mine'[p] = M /\ locks'[p] = locks[p] /\ req'[p] = req[p] /\ at'[p] = s
      /\ want'[p] = w /\ todo'[p] = t /\ queue'[p] = Q /\ cur'[p] = v
  BY <1>1, <1>5, Moves
<1>8. Drawn' /\ Touched(p)' = Touched(p) /\ (\A r : HoldsU(p, r)' = HoldsU(p, r)) /\ (\A r : HoldsX(p, r)' = HoldsX(p, r))
  BY <1>1, <1>4, <1>7 DEF Drawn, RecomputeStats, Touched, HoldsU, HoldsX
<1>9. /\ View(p)'.art = View(p).art /\ View(p)'.ver = View(p).ver
      /\ View(p)'.file = View(p).file /\ View(p)'.bytes = View(p).bytes
  BY <1>4, <1>7, MergeFacts DEF View
<1>10. \A b \in Arts : View(p)'.art[b] = "live" =>
         View(p)'.stats[b] = IF b = a THEN Stats(View(p), a) ELSE View(p).stats[b]
  <2> SUFFICES ASSUME NEW b \in Arts, View(p).art[b] = "live"
               PROVE  View(p)'.stats[b] = IF b = a THEN Stats(View(p), a) ELSE View(p).stats[b]
    BY <1>9
  <2>1. /\ View(p)'.stats[b] = IF b \in DOMAIN M.stats THEN M.stats[b] ELSE tab.stats[b]
        /\ View(p).stats[b] = IF b \in DOMAIN mine[p].stats THEN mine[p].stats[b] ELSE tab.stats[b]
    BY <1>1, <1>7, ViewFacts, ViewAfter
  <2> QED
    BY <1>4, <2>1 DEF Wrote
<1>11. \A b : Stats(View(p)', b) = Stats(View(p), b)
  BY <1>9, StatsSame
<1>12. StageOK(p)'
  <2>1. /\ Q \subseteq Touched(p)'
        /\ \A u \in Q : u \in DOMAIN mine'[p].ver /\ mine'[p].ver[u] = "gone"
    BY <1>2, <1>4, <1>7, <1>8
  <2>2. \A u \in Q : View(p)'.ver[u] = "gone"
    BY <1>1, <1>2, <1>3, <1>9, ViewFacts
  <2>3. req[p].kind = "file" => Q = {}
    BY <1>2
  <2> HIDE DEF Q
  <2>4. \A u \in Q : u \in DOMAIN mine'[p].ver /\ mine'[p].ver[u] = "gone" /\ View(p)'.ver[u] = "gone"
    BY <2>1, <2>2
  <2>5. req'[p].kind \notin {"none", "art"} /\ (req'[p].kind = "file" => Q = {})
    BY <1>2, <1>7, <2>3
  <2>6. at'[p] = s /\ want'[p] = w /\ todo'[p] = t /\ queue'[p] = Q /\ cur'[p] = v
    BY <1>7
  <2> QED
    BY <1>5, <2>1, <2>4, <2>5, <2>6, TriggerStage
<1>13. WritesLocked(p)'
  BY <1>1, <1>2, <1>4, <1>7, <1>8 DEF PerProc, WritesLocked
<1>14. Once(p)'
  BY <1>1, <1>4, <1>7, <1>8 DEF PerProc, Once
<1>15. BytesExact(p)'
  <2>1. \A u : Avail(View(p)', u) = Avail(View(p), u)
    BY <1>9 DEF Avail
  <2> QED
    BY <1>1, <1>2, <1>4, <1>7, <1>8, <1>9, <2>1 DEF PerProc, BytesExact
<1>16. SumsExact(p)'
  <2>1. ASSUME NEW b \in Arts, HoldsU(p, Art(b)), View(p).art[b] = "live", \A u \in Q : ArtOf[u] # b
        PROVE  View(p)'.stats[b] = Stats(View(p), b)
    <3>1. CASE b = a
      BY <1>9, <1>10, <2>1, <3>1
    <3>2. CASE b # a
      <4>1. \A u \in queue[p] : ArtOf[u] # b
        BY <1>0, <2>1, <3>2
      <4>2. View(p).stats[b] = Stats(View(p), b)
        BY <1>1, <2>1, <4>1 DEF PerProc, SumsExact
      <4> QED
        BY <1>9, <1>10, <2>1, <3>2, <4>2
    <3> QED
      BY <3>1, <3>2
  <2>2. \A u \in Touched(p) : u \in Q \/ HoldsU(p, Art(ArtOf[u])) \/ View(p).art[ArtOf[u]] = "gone"
    BY <1>0, <1>1, <1>2 DEF PerProc, SumsExact
  <2> HIDE DEF Q
  <2> QED
    BY <1>7, <1>8, <1>9, <1>11, <2>1, <2>2 DEF SumsExact
<1>17. NamesLocked(p)' /\ LocksOrdered(p)'
  <2>1. s = "commit" \/ req[p].kind # "file"
    BY <1>2, <1>5 DEF Triggered
  <2> QED
    BY <1>1, <1>4, <1>7, <1>8, <2>1 DEF PerProc, NamesLocked, LocksOrdered
<1> QED
  BY <1>1, <1>5, <1>6, <1>8, <1>12, <1>13, <1>14, <1>15, <1>16, <1>17, LocalStep DEF PerProc

LEMMA TakeVersionStep ==
  ASSUME CatalogInv, NEW p \in Procs, TakeVersion(p)
  PROVE  CatalogInv'
<1>0. PICK x \in todo[p] :
        LET rest == todo[p] \ {x}
            Q    == IF tab.ver[x] = "live" THEN queue[p] \cup {x} ELSE queue[p]
        IN  /\ want[p].row = Ver(x)
            /\ IF tab.ver[x] = "live"
               THEN /\ mine' = [mine EXCEPT ![p] = Write(@, "ver", x, "gone")]
                    /\ Take(p, {want[p]})
               ELSE UNCHANGED <<mine, locks>>
            /\ \/ rest = {} /\ NextTrigger(p, View(p), Q)
               \/ \E w \in rest : Goto(p, "rows", Lock(Ver(w), "update"), rest, Q, None)
  BY Zenon DEF TakeVersion
<1> DEFINE Q == IF tab.ver[x] = "live" THEN queue[p] \cup {x} ELSE queue[p]
           M == IF tab.ver[x] = "live" THEN Write(mine[p], "ver", x, "gone") ELSE mine[p]
           L == IF tab.ver[x] = "live" THEN locks[p] \cup {want[p]} ELSE locks[p]
<1>1. TypeOK /\ Drawn /\ Referenced /\ PerProc(p) /\ Rowed(mine[p]) /\ Apart(p, locks[p])
        /\ locks[p] \subseteq [row : Rows, mode : Modes] /\ left \in 0..MaxRequests /\ faults \in 0..MaxFaults
  BY InvOf
<1>2. /\ at[p] = "rows" /\ Granted(p) /\ req[p].kind \notin {"none", "art", "file"}
      /\ todo[p] \subseteq Vers /\ x \in Vers /\ cur[p] = None /\ queue[p] \subseteq Touched(p)
      /\ queue[p] \in SUBSET Vers
      /\ \A u \in queue[p] : u \in DOMAIN mine[p].ver /\ mine[p].ver[u] = "gone"
      /\ want[p] = Lock(Ver(x), "update")
  <2>1. at[p] = "rows" /\ Granted(p)
    BY DEF TakeVersion
  <2>2. queue[p] \in SUBSET Vers
    BY <1>1 DEF TypeOK
  <2>3. /\ req[p].kind \notin {"none", "art", "file"} /\ todo[p] \subseteq Vers /\ cur[p] = None
        /\ queue[p] \subseteq Touched(p) /\ (\E r \in Rows : want[p] = Lock(r, "update"))
        /\ \A u \in queue[p] : u = cur[p] \/ (u \in DOMAIN mine[p].ver /\ mine[p].ver[u] = "gone")
    BY <1>1, <2>1 DEF PerProc, StageOK
  <2>4. want[p] = Lock(Ver(x), "update")
    BY <1>0, <2>3, LockFacts
  <2> QED
    BY <2>1, <2>2, <2>3, <2>4
<1>3. /\ Tables(M) /\ M.art = mine[p].art /\ M.file = mine[p].file /\ M.bytes = mine[p].bytes
      /\ M.stats = mine[p].stats
      /\ tab.ver[x] # "live" => M.ver = mine[p].ver
      /\ tab.ver[x] = "live" => Wrote(M.ver, mine[p].ver, x, "gone")
  <2>1. Tables(mine[p])
    BY <1>1 DEF Rowed
  <2> DEFINE N == Write(mine[p], "ver", x, "gone")
  <2>2. /\ Tables(N) /\ N.art = mine[p].art /\ N.file = mine[p].file /\ N.bytes = mine[p].bytes
        /\ N.stats = mine[p].stats /\ Wrote(N.ver, mine[p].ver, x, "gone")
    BY <2>1, WroteVer
  <2>3. M = IF tab.ver[x] = "live" THEN N ELSE mine[p]
    OBVIOUS
  <2> HIDE DEF M, N
  <2>4. CASE tab.ver[x] = "live"
    <3>1. M = N
      BY <2>3, <2>4
    <3> QED
      BY <2>2, <2>4, <3>1
  <2>5. CASE tab.ver[x] # "live"
    BY <2>1, <2>3, <2>5
  <2> QED
    BY <2>4, <2>5
<1>4. /\ locks[p] \subseteq L
      /\ \A l \in L : l \in locks[p] \/ (tab.ver[x] = "live" /\ l = Lock(Ver(x), "update"))
      /\ tab.ver[x] = "live" => Lock(Ver(x), "update") \in L
  BY <1>2
<1>5. /\ Q \in SUBSET Vers /\ queue[p] \subseteq Q
      /\ \A u \in Q : u \in queue[p] \/ (tab.ver[x] = "live" /\ u = x)
      /\ tab.ver[x] = "live" => x \in Q
  BY <1>2
<1>6. PICK s, w, t, v :
        /\ Moved(p, M, L, req[p], s, w, t, Q, v)
        /\ \/ Triggered(Q, s, w, t, v)
           \/ /\ s = "rows" /\ t \subseteq Vers /\ v = None
              /\ \E r \in Rows : w = Lock(r, "update")
  <2>1. mine' = [mine EXCEPT ![p] = M]
    <3>1. CASE tab.ver[x] = "live"
      <4>1. mine' = [mine EXCEPT ![p] = Write(@, "ver", x, "gone")]
        BY <1>0, <3>1, Zenon
      <4>2. mine' = [mine EXCEPT ![p] = Write(mine[p], "ver", x, "gone")]
        BY <4>1
      <4>3. M = Write(mine[p], "ver", x, "gone")
        BY <3>1
      <4> HIDE DEF M
      <4> QED
        BY <4>2, <4>3
    <3>2. CASE tab.ver[x] # "live"
      <4>1. mine' = mine
        BY <1>0, <3>2
      <4> QED
        BY <1>1, <3>2, <4>1, MineDomain DEF TypeOK
    <3> QED
      BY <3>1, <3>2
  <2>2. locks' = [locks EXCEPT ![p] = L]
    BY <1>0, <1>1 DEF Take, TypeOK
  <2>3. req' = [req EXCEPT ![p] = req[p]] /\ tab' = tab /\ left' = left /\ faults' = faults
    BY <1>1 DEF TakeVersion, TypeOK
  <2>4. \A s, w, t, v : Goto(p, s, w, t, Q, v) => Moved(p, M, L, req[p], s, w, t, Q, v)
    <3> HIDE DEF M, L, Q
    <3> QED
      BY <1>1, <2>1, <2>2, <2>3 DEF Moved
  <2> HIDE DEF M, L
  <2>5. CASE NextTrigger(p, View(p), Q)
    <3> HIDE DEF Q
    <3> QED
      BY <2>4, <2>5, NextTriggerFacts
  <2>6. CASE \E y \in todo[p] \ {x} : Goto(p, "rows", Lock(Ver(y), "update"), todo[p] \ {x}, Q, None)
    <3> HIDE DEF Q
    <3>1. PICK y \in todo[p] \ {x} : Goto(p, "rows", Lock(Ver(y), "update"), todo[p] \ {x}, Q, None)
      BY <2>6
    <3>2. Ver(y) \in Rows /\ todo[p] \ {x} \subseteq Vers
      BY <1>2, RowTypes
    <3> QED
      BY <2>4, <3>1, <3>2
  <2> QED
    BY <1>0, <2>5, <2>6
<1> HIDE DEF M, L, Q
<1>7. Typed(M, L, req[p], s, w, t, Q, v)
  <2>1. Rowed(M)
    BY <1>1, <1>2, <1>3 DEF Rowed, Partial, Wrote
  <2>2. req[p] \in Requests
    BY <1>1 DEF TypeOK
  <2>3. L \subseteq [row : Rows, mode : Modes]
    BY <1>1, <1>2, <1>4, RowTypes DEF Modes
  <2>4. /\ s \in Stages /\ s # "idle" /\ w \in [row : Rows, mode : Modes] \cup {NoLock}
        /\ t \in (SUBSET Vers) \cup (SUBSET Files) /\ v \in Vers \cup {None}
    <3>1. CASE Triggered(Q, s, w, t, v)
      <4>1. s # "idle"
        BY <3>1 DEF Triggered
      <4> QED
        BY <1>5, <3>1, <4>1, TriggeredTypes
    <3>2. CASE s = "rows" /\ t \subseteq Vers /\ v = None /\ \E r \in Rows : w = Lock(r, "update")
      BY <3>2, RowTypes DEF Stages, Modes
    <3> QED
      BY <1>6, <3>1, <3>2
  <2> QED
    BY <1>5, <2>1, <2>2, <2>3, <2>4 DEF Typed
<1>8. Apart(p, L)
  BY <1>2, <1>4, GrantedApart DEF Apart
<1>9. /\ tab' = tab /\ mine'[p] = M /\ locks'[p] = L /\ req'[p] = req[p] /\ at'[p] = s
      /\ want'[p] = w /\ todo'[p] = t /\ queue'[p] = Q /\ cur'[p] = v
  BY <1>1, <1>6, Moves
<1>10. Drawn'
  BY <1>1 DEF Drawn, TakeVersion
<1>11. /\ \A u \in Touched(p) : u \in Touched(p)'
       /\ \A u \in Touched(p)' : u \in Touched(p) \/ (tab.ver[x] = "live" /\ u = x)
       /\ \A u \in Q : u \in DOMAIN M.ver /\ M.ver[u] = "gone" /\ u \in Touched(p)'
       /\ \A u \in DOMAIN M.ver : u # x => u \in DOMAIN mine[p].ver /\ M.ver[u] = mine[p].ver[u]
       /\ x \in DOMAIN M.ver => \/ M.ver[x] = "gone" /\ tab.ver[x] = "live"
                                \/ x \in DOMAIN mine[p].ver /\ M.ver[x] = mine[p].ver[x]
  BY <1>2, <1>3, <1>5, <1>9 DEF Touched, Wrote
<1>12. /\ View(p)'.art = View(p).art /\ View(p)'.file = View(p).file
       /\ View(p)'.bytes = View(p).bytes /\ View(p)'.stats = View(p).stats
  BY <1>3, <1>9, MergeFacts DEF View
<1>13. /\ \A u \in Vers : u # x => View(p)'.ver[u] = View(p).ver[u]
       /\ \A u \in Q : View(p)'.ver[u] = "gone"
       /\ View(p)'.ver[x] = View(p).ver[x] \/ (View(p)'.ver[x] = "gone" /\ x \in Q)
  <2>1. \A u \in Vers :
          /\ View(p)'.ver[u] = IF u \in DOMAIN M.ver THEN M.ver[u] ELSE tab.ver[u]
          /\ View(p).ver[u] = IF u \in DOMAIN mine[p].ver THEN mine[p].ver[u] ELSE tab.ver[u]
    BY <1>1, <1>9, ViewFacts, ViewAfter
  <2> QED
    BY <1>2, <1>3, <1>5, <1>11, <2>1 DEF Wrote
<1>14. /\ \A r : HoldsU(p, r) => HoldsU(p, r)'
       /\ \A r : HoldsX(p, r) => HoldsX(p, r)'
       /\ \A r : r # Ver(x) /\ HoldsU(p, r)' => HoldsU(p, r)
       /\ \A r : r # Ver(x) /\ HoldsX(p, r)' => HoldsX(p, r)
       /\ tab.ver[x] = "live" => HoldsX(p, Ver(x))'
       /\ tab.ver[x] # "live" /\ HoldsX(p, Ver(x))' => HoldsX(p, Ver(x))
  BY <1>4, <1>9, LockFacts DEF HoldsU, HoldsX
<1>15. StageOK(p)'
  <2>1. CASE Triggered(Q, s, w, t, v)
    <3>1. \A u \in Q : u \in DOMAIN mine'[p].ver /\ mine'[p].ver[u] = "gone" /\ View(p)'.ver[u] = "gone"
      BY <1>9, <1>11, <1>13
    <3>2. Q \subseteq Touched(p)' /\ req'[p].kind \notin {"none", "art"} /\ (req'[p].kind = "file" => Q = {})
      BY <1>2, <1>9, <1>11
    <3>3. at'[p] = s /\ want'[p] = w /\ todo'[p] = t /\ queue'[p] = Q /\ cur'[p] = v
      BY <1>9
    <3> QED
      BY <2>1, <3>1, <3>2, <3>3, TriggerStage
  <2>2. CASE s = "rows" /\ t \subseteq Vers /\ v = None /\ \E r \in Rows : w = Lock(r, "update")
    BY <1>2, <1>9, <1>11, <2>2 DEF StageOK
  <2> QED
    BY <1>6, <2>1, <2>2
<1>16. WritesLocked(p)'
  <2>1. \A u \in Touched(p)' : HoldsX(p, Ver(u))'
    BY <1>1, <1>11, <1>14 DEF PerProc, WritesLocked
  <2> QED
    BY <1>1, <1>3, <1>9, <1>14, <2>1 DEF PerProc, WritesLocked
<1>17. Once(p)'
  <2>1. \A u \in DOMAIN M.ver : IF M.ver[u] = "live" THEN req[p] = [kind |-> "ver", id |-> u] ELSE tab.ver[u] = "live"
    <3> DEFINE Mine(u) == req[p] = [kind |-> "ver", id |-> u]
    <3>1. \A u \in DOMAIN mine[p].ver : IF mine[p].ver[u] = "live" THEN Mine(u) ELSE tab.ver[u] = "live"
      BY <1>1 DEF PerProc, Once
    <3> HIDE DEF Mine
    <3>2. ASSUME NEW u \in DOMAIN M.ver PROVE IF M.ver[u] = "live" THEN Mine(u) ELSE tab.ver[u] = "live"
      <4>1. CASE u = x
        BY <1>11, <3>1, <4>1
      <4>2. CASE u # x
        BY <1>11, <3>1, <4>2
      <4> QED
        BY <4>1, <4>2
    <3> QED
      BY <3>2 DEF Mine
  <2>2. \A u \in Touched(p)' : tab.art[ArtOf[u]] # "none"
    BY <1>1, <1>2, <1>11 DEF PerProc, Once, Referenced
  <2>3. \A l \in L : /\ \A b \in Arts : l.row = Art(b) => tab.art[b] # "none" \/ req[p] = [kind |-> "art", id |-> b]
                     /\ \A u \in Vers : l.row = Ver(u) => tab.ver[u] # "none" \/ req[p] = [kind |-> "ver", id |-> u]
    BY <1>1, <1>4, LockFacts, RowFacts DEF PerProc, Once
  <2> QED
    BY <1>1, <1>3, <1>9, <2>1, <2>2, <2>3 DEF PerProc, Once
<1>18. BytesExact(p)'
  <2>1. \A u : Avail(View(p)', u) = Avail(View(p), u)
    BY <1>12 DEF Avail
  <2>2. ASSUME NEW u \in Vers, HoldsX(p, Ver(u))', View(p)'.ver[u] = "live"
        PROVE  View(p)'.bytes[u] = Bytes(Avail(View(p)', u))
    <3>1. HoldsX(p, Ver(u)) /\ View(p).ver[u] = "live"
      BY <1>5, <1>13, <1>14, <2>2, RowFacts
    <3>2. View(p).bytes[u] = Bytes(Avail(View(p), u))
      BY <1>1, <3>1 DEF PerProc, BytesExact
    <3> QED
      BY <1>12, <2>1, <3>2
  <2>3. \A f \in DOMAIN mine'[p].file :
          \/ HoldsX(p, Ver(VerOf[f]))' \/ tab'.ver[VerOf[f]] = "gone"
          \/ Counted(f, mine'[p].file[f]) = Counted(f, tab'.file[f])
    BY <1>1, <1>2, <1>3, <1>9, <1>14 DEF PerProc, BytesExact
  <2> QED
    BY <2>2, <2>3 DEF BytesExact
<1>19. SumsExact(p)'
  <2>1. ASSUME NEW b \in Arts, HoldsU(p, Art(b))', View(p)'.art[b] = "live", \A u \in Q : ArtOf[u] # b
        PROVE  View(p)'.stats[b] = Stats(View(p)', b)
    <3>1. HoldsU(p, Art(b)) /\ View(p).art[b] = "live" /\ \A u \in queue[p] : ArtOf[u] # b
      BY <1>5, <1>12, <1>14, <2>1, RowFacts
    <3>2. View(p).stats[b] = Stats(View(p), b)
      BY <1>1, <3>1 DEF PerProc, SumsExact
    <3>3. \A u \in Vers : ArtOf[u] = b => View(p)'.ver[u] = View(p).ver[u]
      BY <1>13, <2>1
    <3>4. Stats(View(p)', b) = Stats(View(p), b)
      BY <1>12, <3>3, StatsSame
    <3> QED
      BY <1>12, <3>2, <3>4
  <2>2. \A u \in Touched(p)' : u \in Q \/ HoldsU(p, Art(ArtOf[u]))' \/ View(p)'.art[ArtOf[u]] = "gone"
    <3>1. \A u \in Touched(p) : u \in queue[p] \/ HoldsU(p, Art(ArtOf[u])) \/ View(p).art[ArtOf[u]] = "gone"
      BY <1>1 DEF PerProc, SumsExact
    <3> QED
      BY <1>5, <1>11, <1>12, <1>14, <3>1
  <2> QED
    BY <1>9, <2>1, <2>2 DEF SumsExact
<1>20. NamesLocked(p)' /\ LocksOrdered(p)'
  BY <1>1, <1>2, <1>3, <1>4, <1>9, <1>14, LockFacts, RowFacts DEF PerProc, NamesLocked, LocksOrdered
<1> QED
  BY <1>6, <1>7, <1>8, <1>10, <1>15, <1>16, <1>17, <1>18, <1>19, <1>20, LocalStep DEF PerProc

\* What a step that deletes file x, or finds it gone, does for p.
FileTaken(p, x, ok, M, L) ==
  /\ Tables(M) /\ M.art = mine[p].art /\ M.ver = mine[p].ver /\ M.bytes = mine[p].bytes
  /\ M.stats = mine[p].stats
  /\ ok => Wrote(M.file, mine[p].file, x, "gone")
  /\ ~ok => M.file = mine[p].file
  /\ mine' = [mine EXCEPT ![p] = M]
  /\ locks' = [locks EXCEPT ![p] = L]
  /\ locks[p] \subseteq L
  /\ \A l \in L : l \in locks[p] \/ (ok /\ l = Lock(File(x), "update"))
  /\ ok => Lock(File(x), "update") \in L

LEMMA FileTakes ==
  ASSUME TypeOK, NEW p \in Procs, NEW x, NEW ok \in BOOLEAN, want[p] = Lock(File(x), "update"),
         IF ok
         THEN /\ mine' = [mine EXCEPT ![p] = Write(@, "file", x, "gone")]
              /\ Take(p, {want[p]})
         ELSE UNCHANGED <<mine, locks>>
  PROVE  \E M, L : FileTaken(p, x, ok, M, L)
<1>1. Tables(mine[p]) /\ DOMAIN mine = Procs /\ locks = [locks EXCEPT ![p] = locks[p]]
        /\ mine = [mine EXCEPT ![p] = mine[p]]
  BY MineDomain DEF TypeOK
<1>2. CASE ok
  <2> DEFINE M == Write(mine[p], "file", x, "gone")
             L == locks[p] \cup {want[p]}
  <2>1. /\ Tables(M) /\ M.art = mine[p].art /\ M.ver = mine[p].ver /\ M.bytes = mine[p].bytes
        /\ M.stats = mine[p].stats /\ Wrote(M.file, mine[p].file, x, "gone")
    BY <1>1, WroteFile
  <2>2. mine' = [mine EXCEPT ![p] = M] /\ locks' = [locks EXCEPT ![p] = L]
    BY <1>2 DEF Take
  <2> HIDE DEF M
  <2>3. FileTaken(p, x, ok, M, L)
    BY <1>2, <2>1, <2>2 DEF FileTaken
  <2> QED
    BY <2>3
<1>3. CASE ~ok
  <2>1. mine' = mine /\ locks' = locks
    BY <1>3
  <2>2. FileTaken(p, x, ok, mine[p], locks[p])
    BY <1>1, <1>3, <2>1 DEF FileTaken
  <2> QED
    BY <2>2
<1> QED
  BY <1>2, <1>3

LEMMA TakeFileStep ==
  ASSUME CatalogInv, NEW p \in Procs, TakeFile(p)
  PROVE  CatalogInv'
<1>0. PICK x \in todo[p] :
        LET rest == todo[p] \ {x}
        IN  /\ want[p].row = File(x)
            /\ IF tab.file[x] \in Present
               THEN /\ mine' = [mine EXCEPT ![p] = Write(@, "file", x, "gone")]
                    /\ Take(p, {want[p]})
               ELSE UNCHANGED <<mine, locks>>
            /\ \/ rest = {} /\ Goto(p, "lock", Lock(Art(ArtOf[cur[p]]), "update"), {}, queue[p], cur[p])
               \/ \E g \in rest : Goto(p, "cascade", Lock(File(g), "update"), rest, queue[p], cur[p])
  BY Zenon DEF TakeFile
<1>1. TypeOK /\ Drawn /\ PerProc(p) /\ Rowed(mine[p])
        /\ locks[p] \subseteq [row : Rows, mode : Modes] /\ left \in 0..MaxRequests /\ faults \in 0..MaxFaults
  BY InvOf
<1>2. /\ at[p] = "cascade" /\ Granted(p) /\ req[p].kind \notin {"none", "art", "file"}
      /\ cur[p] \in queue[p] /\ View(p).ver[cur[p]] = "gone"
      /\ \A f \in todo[p] : f \in Files /\ VerOf[f] = cur[p]
      /\ queue[p] \subseteq Touched(p)
      /\ \A u \in queue[p] : u = cur[p] \/ (u \in DOMAIN mine[p].ver /\ mine[p].ver[u] = "gone")
      /\ want[p] = Lock(File(x), "update")
  <2>1. at[p] = "cascade" /\ Granted(p)
    BY DEF TakeFile
  <2>2. \E r \in Rows : want[p] = Lock(r, "update")
    BY <1>1, <2>1 DEF PerProc, StageOK
  <2>3. want[p] = Lock(File(x), "update")
    BY <1>0, <2>2, LockFacts
  <2> QED
    BY <1>1, <2>1, <2>3 DEF PerProc, StageOK
<1>3. queue[p] \in SUBSET Vers /\ cur[p] \in Vers /\ x \in Files /\ VerOf[x] = cur[p] /\ ArtOf[cur[p]] \in Arts
  <2>1. queue[p] \in SUBSET Vers
    BY <1>1 DEF TypeOK
  <2> QED
    BY <1>0, <1>2, <2>1
<1>4. PICK ok \in BOOLEAN : ok <=> tab.file[x] \in Present
  OBVIOUS
<1>5. PICK M, L : FileTaken(p, x, ok, M, L)
  <2>1. IF ok
        THEN /\ mine' = [mine EXCEPT ![p] = Write(@, "file", x, "gone")]
             /\ Take(p, {want[p]})
        ELSE UNCHANGED <<mine, locks>>
    BY <1>0, <1>4, Zenon
  <2> QED
    BY <1>1, <1>2, <2>1, FileTakes
<1>6. PICK s, w, t :
        /\ Moved(p, M, L, req[p], s, w, t, queue[p], cur[p])
        /\ \/ s = "lock" /\ w = Lock(Art(ArtOf[cur[p]]), "update") /\ t = {}
           \/ s = "cascade" /\ t \subseteq todo[p] /\ \E r \in Rows : w = Lock(r, "update")
  <2>1. \A s, w, t : Goto(p, s, w, t, queue[p], cur[p]) => Moved(p, M, L, req[p], s, w, t, queue[p], cur[p])
    <3>1. req' = [req EXCEPT ![p] = req[p]] /\ tab' = tab /\ left' = left /\ faults' = faults
      BY <1>1 DEF TakeFile, TypeOK
    <3> QED
      BY <1>1, <1>5, <3>1 DEF Moved, FileTaken
  <2>2. CASE Goto(p, "lock", Lock(Art(ArtOf[cur[p]]), "update"), {}, queue[p], cur[p])
    BY <2>1, <2>2
  <2>3. CASE \E g \in todo[p] \ {x} : Goto(p, "cascade", Lock(File(g), "update"), todo[p] \ {x}, queue[p], cur[p])
    <3>1. PICK g \in todo[p] \ {x} : Goto(p, "cascade", Lock(File(g), "update"), todo[p] \ {x}, queue[p], cur[p])
      BY <2>3
    <3>2. File(g) \in Rows /\ todo[p] \ {x} \subseteq todo[p]
      BY <1>2, RowTypes
    <3> QED
      BY <2>1, <3>1, <3>2
  <2> QED
    BY <1>0, <2>2, <2>3
<1>7. Typed(M, L, req[p], s, w, t, queue[p], cur[p])
  <2>1. Rowed(M)
    BY <1>1, <1>3, <1>5 DEF Rowed, Partial, Wrote, FileTaken, Changes
  <2>2. req[p] \in Requests
    BY <1>1 DEF TypeOK
  <2>3. L \subseteq [row : Rows, mode : Modes]
    BY <1>1, <1>3, <1>5, RowTypes DEF Modes, FileTaken
  <2>4. s \in Stages /\ s # "idle" /\ w \in [row : Rows, mode : Modes]
    <3>1. Lock(Art(ArtOf[cur[p]]), "update") \in [row : Rows, mode : Modes]
      BY <1>3, RowTypes DEF Modes
    <3> QED
      BY <1>6, <3>1, RowTypes DEF Stages, Modes
  <2>5. t \in SUBSET Files
    BY <1>2, <1>6
  <2> QED
    BY <1>3, <2>1, <2>2, <2>3, <2>4, <2>5 DEF Typed
<1>8. Apart(p, L)
  BY <1>2, <1>5, GrantedApart DEF Apart, FileTaken
<1>9. /\ tab' = tab /\ mine'[p] = M /\ locks'[p] = L /\ req'[p] = req[p] /\ at'[p] = s
      /\ want'[p] = w /\ todo'[p] = t /\ queue'[p] = queue[p] /\ cur'[p] = cur[p]
  BY <1>1, <1>6, Moves
<1>10. Drawn' /\ Touched(p)' = Touched(p)
  BY <1>1, <1>5, <1>9 DEF Drawn, TakeFile, Touched, FileTaken
<1>12. /\ View(p)'.art = View(p).art /\ View(p)'.ver = View(p).ver
       /\ View(p)'.bytes = View(p).bytes /\ View(p)'.stats = View(p).stats
  BY <1>5, <1>9, MergeFacts DEF View, FileTaken
<1>13. \A f \in Files : f # x => View(p)'.file[f] = View(p).file[f]
  <2>1. \A f \in Files :
          /\ View(p)'.file[f] = IF f \in DOMAIN M.file THEN M.file[f] ELSE tab.file[f]
          /\ View(p).file[f] = IF f \in DOMAIN mine[p].file THEN mine[p].file[f] ELSE tab.file[f]
    BY <1>1, <1>9, ViewFacts, ViewAfter
  <2> QED
    BY <1>5, <2>1 DEF Wrote, FileTaken
<1>14. /\ \A r : HoldsU(p, r) => HoldsU(p, r)'
       /\ \A r : HoldsX(p, r) => HoldsX(p, r)'
       /\ \A r : r # File(x) /\ HoldsU(p, r)' => HoldsU(p, r)
       /\ \A r : r # File(x) /\ HoldsX(p, r)' => HoldsX(p, r)
       /\ ok => HoldsU(p, File(x))'
  BY <1>5, <1>9, LockFacts DEF HoldsU, HoldsX, FileTaken
<1>15. StageOK(p)'
  <2>1. /\ \A f \in t : f \in Files /\ VerOf[f] = cur'[p]
        /\ queue'[p] \subseteq Touched(p)' /\ cur'[p] \in queue'[p] /\ View(p)'.ver[cur'[p]] = "gone"
        /\ \A u \in queue'[p] : u = cur'[p] \/ (u \in DOMAIN mine'[p].ver /\ mine'[p].ver[u] = "gone")
    BY <1>2, <1>5, <1>6, <1>9, <1>10, <1>12 DEF FileTaken
  <2>2. CASE s = "lock" /\ w = Lock(Art(ArtOf[cur[p]]), "update") /\ t = {}
    BY <1>2, <1>9, <2>1, <2>2 DEF StageOK
  <2>3. CASE s = "cascade" /\ t \subseteq todo[p] /\ \E r \in Rows : w = Lock(r, "update")
    BY <1>2, <1>9, <2>1, <2>3 DEF StageOK
  <2> QED
    BY <1>6, <2>2, <2>3
<1>16. WritesLocked(p)'
  BY <1>1, <1>5, <1>9, <1>10, <1>14 DEF PerProc, WritesLocked, FileTaken, Wrote
<1>17. Once(p)'
  <2>1. \A l \in L : /\ \A b \in Arts : l.row = Art(b) => tab.art[b] # "none" \/ req[p] = [kind |-> "art", id |-> b]
                     /\ \A u \in Vers : l.row = Ver(u) => tab.ver[u] # "none" \/ req[p] = [kind |-> "ver", id |-> u]
    BY <1>1, <1>5, LockFacts, RowFacts DEF PerProc, Once, FileTaken
  <2>2. \A f \in DOMAIN M.file : tab.file[f] \in Present
    BY <1>1, <1>4, <1>5 DEF PerProc, Once, FileTaken, Wrote
  <2> QED
    BY <1>1, <1>5, <1>9, <1>10, <2>1, <2>2 DEF PerProc, Once, FileTaken
<1>18. BytesExact(p)'
  <2>1. ASSUME NEW u \in Vers, HoldsX(p, Ver(u))', View(p)'.ver[u] = "live"
        PROVE  View(p)'.bytes[u] = Bytes(Avail(View(p)', u))
    <3>1. HoldsX(p, Ver(u)) /\ View(p).ver[u] = "live" /\ u # VerOf[x]
      BY <1>2, <1>3, <1>12, <1>14, <2>1, RowFacts
    <3>2. View(p).bytes[u] = Bytes(Avail(View(p), u))
      BY <1>1, <3>1 DEF PerProc, BytesExact
    <3>3. Avail(View(p)', u) = Avail(View(p), u)
      BY <1>13, <3>1 DEF Avail
    <3> QED
      BY <1>12, <3>2, <3>3
  <2>2. HoldsX(p, Ver(VerOf[x]))'
    BY <1>1, <1>2, <1>3, <1>14 DEF PerProc, WritesLocked
  <2>3. \A f \in DOMAIN mine'[p].file : f # x =>
          \/ HoldsX(p, Ver(VerOf[f]))' \/ tab'.ver[VerOf[f]] = "gone"
          \/ Counted(f, mine'[p].file[f]) = Counted(f, tab'.file[f])
    BY <1>1, <1>2, <1>5, <1>9, <1>14 DEF PerProc, BytesExact, FileTaken, Wrote
  <2> QED
    BY <2>1, <2>2, <2>3 DEF BytesExact
<1>19. SumsExact(p)'
  <2>1. \A b : Stats(View(p)', b) = Stats(View(p), b)
    BY <1>12, StatsSame
  <2>2. \A b : HoldsU(p, Art(b))' <=> HoldsU(p, Art(b))
    BY <1>14, RowFacts
  <2> QED
    BY <1>1, <1>9, <1>10, <1>12, <2>1, <2>2 DEF PerProc, SumsExact
<1>20. NamesLocked(p)' /\ LocksOrdered(p)'
  <2>1. \A l \in L, n \in Names : l.row = Name(n) => l \in locks[p]
    BY <1>5, LockFacts, RowFacts DEF FileTaken
  <2> QED
    BY <1>1, <1>2, <1>5, <1>9, <1>14, <2>1 DEF PerProc, NamesLocked, LocksOrdered, FileTaken
<1> QED
  BY <1>6, <1>7, <1>8, <1>10, <1>15, <1>16, <1>17, <1>18, <1>19, <1>20, LocalStep DEF PerProc

LEMMA SweepFileStep ==
  ASSUME CatalogInv, NEW p \in Procs, SweepFile(p)
  PROVE  CatalogInv'
<1>0. PICK x \in todo[p] :
        LET rest == todo[p] \ {x}
        IN  /\ want[p].row = File(x)
            /\ IF tab.file[x] \in {"PENDING", "ERROR"}
               THEN /\ mine' = [mine EXCEPT ![p] = Write(@, "file", x, "gone")]
                    /\ Take(p, {want[p]})
               ELSE UNCHANGED <<mine, locks>>
            /\ \/ rest = {} /\ Goto(p, "commit", NoLock, {}, {}, None)
               \/ \E g \in rest : Goto(p, "sweep", Lock(File(g), "update"), rest, {}, None)
  BY Zenon DEF SweepFile
<1>1. TypeOK /\ Drawn /\ PerProc(p) /\ Rowed(mine[p])
        /\ locks[p] \subseteq [row : Rows, mode : Modes] /\ left \in 0..MaxRequests /\ faults \in 0..MaxFaults
  BY InvOf
<1>2. /\ at[p] = "sweep" /\ Granted(p) /\ req[p].kind \notin {"none", "art", "file"}
      /\ todo[p] \subseteq Files /\ x \in Files
      /\ \A l \in locks[p] : \E f \in Files : l.row = File(f)
      /\ want[p] = Lock(File(x), "update")
  <2>1. at[p] = "sweep" /\ Granted(p)
    BY DEF SweepFile
  <2>2. /\ (\E r \in Rows : want[p] = Lock(r, "update")) /\ todo[p] \subseteq Files
        /\ req[p].kind \notin {"none", "art", "file"}
        /\ \A l \in locks[p] : \E f \in Files : l.row = File(f)
    BY <1>1, <2>1 DEF PerProc, StageOK
  <2>3. want[p] = Lock(File(x), "update")
    BY <1>0, <2>2, LockFacts
  <2> QED
    BY <2>1, <2>2, <2>3
<1>3. DOMAIN mine[p].art = {} /\ DOMAIN mine[p].stats = {} /\ Touched(p) = {}
  BY <1>1, <1>2, FileLocks DEF PerProc, WritesLocked, HoldsU, HoldsX
<1>4. PICK ok \in BOOLEAN : ok <=> tab.file[x] \in {"PENDING", "ERROR"}
  OBVIOUS
<1>5. PICK M, L : FileTaken(p, x, ok, M, L)
  <2>1. IF ok
        THEN /\ mine' = [mine EXCEPT ![p] = Write(@, "file", x, "gone")]
             /\ Take(p, {want[p]})
        ELSE UNCHANGED <<mine, locks>>
    BY <1>0, <1>4, Zenon
  <2>2. TypeOK /\ want[p] = Lock(File(x), "update")
    BY <1>1, <1>2
  <2> QED
    BY <2>1, <2>2, FileTakes
<1>6. PICK s, w, t :
        /\ Moved(p, M, L, req[p], s, w, t, {}, None)
        /\ \/ s = "commit" /\ w = NoLock /\ t = {}
           \/ s = "sweep" /\ t \subseteq Files /\ \E r \in Rows : w = Lock(r, "update")
  <2>1. \A s, w, t : Goto(p, s, w, t, {}, None) => Moved(p, M, L, req[p], s, w, t, {}, None)
    <3>1. req' = [req EXCEPT ![p] = req[p]] /\ tab' = tab /\ left' = left /\ faults' = faults
      BY <1>1 DEF SweepFile, TypeOK
    <3> QED
      BY <1>1, <1>5, <3>1 DEF Moved, FileTaken
  <2>2. CASE Goto(p, "commit", NoLock, {}, {}, None)
    BY <2>1, <2>2
  <2>3. CASE \E g \in todo[p] \ {x} : Goto(p, "sweep", Lock(File(g), "update"), todo[p] \ {x}, {}, None)
    <3>1. PICK g \in todo[p] \ {x} : Goto(p, "sweep", Lock(File(g), "update"), todo[p] \ {x}, {}, None)
      BY <2>3
    <3>2. File(g) \in Rows /\ todo[p] \ {x} \subseteq Files
      BY <1>2, RowTypes
    <3> QED
      BY <2>1, <3>1, <3>2
  <2> QED
    BY <1>0, <2>2, <2>3
<1>7. Typed(M, L, req[p], s, w, t, {}, None)
  <2>1. Rowed(M)
    BY <1>1, <1>2, <1>5 DEF Rowed, Partial, Wrote, FileTaken, Changes
  <2>2. req[p] \in Requests
    BY <1>1 DEF TypeOK
  <2>3. L \subseteq [row : Rows, mode : Modes]
    BY <1>1, <1>2, <1>5, RowTypes DEF Modes, FileTaken
  <2>4. /\ s \in Stages /\ s # "idle" /\ w \in [row : Rows, mode : Modes] \cup {NoLock}
        /\ t \in SUBSET Files
    BY <1>6, RowTypes DEF Stages, Modes
  <2> QED
    BY <2>1, <2>2, <2>3, <2>4 DEF Typed
<1>8. Apart(p, L)
  BY <1>2, <1>5, GrantedApart DEF Apart, FileTaken
<1>9. /\ tab' = tab /\ mine'[p] = M /\ locks'[p] = L /\ req'[p] = req[p] /\ at'[p] = s
      /\ want'[p] = w /\ todo'[p] = t /\ queue'[p] = {} /\ cur'[p] = None
  BY <1>1, <1>6, Moves
<1>10. Drawn' /\ Touched(p)' = {} /\ DOMAIN mine'[p].art = {} /\ DOMAIN mine'[p].stats = {}
  BY <1>1, <1>3, <1>5, <1>9 DEF Drawn, SweepFile, Touched, FileTaken
<1>11. \A l \in L : \E f \in Files : l.row = File(f)
  BY <1>2, <1>5, LockFacts DEF FileTaken
<1>12. \A b : ~HoldsX(p, Ver(b))' /\ ~HoldsU(p, Art(b))'
  BY <1>9, <1>11, FileLocks DEF HoldsX, HoldsU
<1>15. StageOK(p)'
  <2>1. CASE s = "commit" /\ w = NoLock /\ t = {}
    BY <1>2, <1>9, <2>1 DEF StageOK
  <2>2. CASE s = "sweep" /\ t \subseteq Files /\ \E r \in Rows : w = Lock(r, "update")
    BY <1>2, <1>9, <1>11, <2>2 DEF StageOK
  <2> QED
    BY <1>6, <2>1, <2>2
<1>16. WritesLocked(p)'
  BY <1>1, <1>5, <1>9, <1>10 DEF PerProc, WritesLocked, FileTaken, Wrote, HoldsU
<1>17. Once(p)'
  <2>1. \A l \in L : (\A b : l.row # Art(b)) /\ (\A u : l.row # Ver(u))
    BY <1>11, RowFacts
  <2>2. \A f \in DOMAIN M.file : tab.file[f] \in Present
    BY <1>1, <1>4, <1>5 DEF PerProc, Once, FileTaken, Wrote, Present
  <2>3. DOMAIN M.ver = {}
    BY <1>3, <1>5 DEF FileTaken, Touched
  <2> QED
    BY <1>1, <1>2, <1>9, <1>10, <2>1, <2>2, <2>3 DEF PerProc, Once
<1>18. BytesExact(p)'
  <2>1. \A f \in DOMAIN mine'[p].file :
          tab'.ver[VerOf[f]] = "gone" \/ Counted(f, mine'[p].file[f]) = Counted(f, tab'.file[f])
    <3>1. \A f \in DOMAIN mine[p].file :
            tab.ver[VerOf[f]] = "gone" \/ Counted(f, mine[p].file[f]) = Counted(f, tab.file[f])
      BY <1>1, <1>2, FileLocks DEF PerProc, BytesExact, HoldsX, HoldsU
    <3>2. ok => Counted(x, "gone") = Counted(x, tab.file[x])
      BY <1>4 DEF Counted
    <3> QED
      BY <1>5, <1>9, <3>1, <3>2 DEF FileTaken, Wrote
  <2> QED
    BY <1>12, <2>1 DEF BytesExact
<1>19. SumsExact(p)'
  BY <1>10, <1>12 DEF SumsExact
<1>20. NamesLocked(p)' /\ LocksOrdered(p)'
  BY <1>2, <1>9, <1>10, <1>11, RowFacts DEF NamesLocked, LocksOrdered
<1> QED
  BY <1>6, <1>7, <1>8, <1>10, <1>15, <1>16, <1>17, <1>18, <1>19, <1>20, LocalStep DEF PerProc

LEMMA TakeArtifactStep ==
  ASSUME CatalogInv, NEW p \in Procs, TakeArtifact(p)
  PROVE  CatalogInv'
<1>0. PICK a : a = req[p].id
  OBVIOUS
<1> DEFINE M == Write(mine[p], "art", a, "gone")
           L == locks[p] \cup {want[p], Lock(Name(NameOf[a]), "update")}
           V == LiveVers(tab, a)
<1>1. CASE GiveUp(p)
  BY <1>1, InvOf, EndStep DEF GiveUp
<1>2. CASE /\ tab.art[a] = "live"
           /\ mine' = [mine EXCEPT ![p] = M]
           /\ Take(p, {want[p], Lock(Name(NameOf[a]), "update")})
           /\ \/ V = {} /\ Goto(p, "commit", NoLock, {}, {}, None)
              \/ \E v \in V : Goto(p, "rows", Lock(Ver(v), "update"), V, {}, None)
           /\ UNCHANGED <<tab, req, left, faults>>
  <2>1. TypeOK /\ Drawn /\ NamesUnique /\ PerProc(p) /\ Rowed(mine[p])
          /\ left \in 0..MaxRequests /\ faults \in 0..MaxFaults
    BY InvOf
  <2>2. /\ mine[p] = NoRows /\ locks[p] = {} /\ req[p].kind = "cascade" /\ a \in Arts
        /\ want[p] = Lock(Art(a), "update") /\ Granted(p)
    BY <1>0, <2>1, ReqOf DEF PerProc, StageOK, TakeArtifact
  <2>3. V \subseteq Vers
    BY DEF LiveVers
  <2> HIDE DEF M, V
  <2>4. PICK s, w, t :
          /\ Moved(p, M, L, req[p], s, w, t, {}, None)
          /\ \/ s = "commit" /\ w = NoLock /\ t = {}
             \/ s = "rows" /\ t \subseteq Vers /\ \E r \in Rows : w = Lock(r, "update")
    <3>1. \A s, w, t : Goto(p, s, w, t, {}, None) => Moved(p, M, L, req[p], s, w, t, {}, None)
      <4>1. req' = [req EXCEPT ![p] = req[p]]
        BY <1>2, <2>1 DEF TypeOK
      <4> QED
        BY <1>2, <2>1, <4>1 DEF Moved, Take
    <3>2. CASE Goto(p, "commit", NoLock, {}, {}, None)
      BY <3>1, <3>2
    <3>3. CASE \E v \in V : Goto(p, "rows", Lock(Ver(v), "update"), V, {}, None)
      <4>1. PICK v \in V : Goto(p, "rows", Lock(Ver(v), "update"), V, {}, None)
        BY <3>3
      <4>2. Ver(v) \in Rows
        BY <2>3, RowTypes
      <4> QED
        BY <2>3, <3>1, <4>1, <4>2
    <3> QED
      BY <1>2, <3>2, <3>3
  <2>5. /\ DOMAIN M.art = {a} /\ M.art[a] = "gone" /\ DOMAIN M.ver = {} /\ DOMAIN M.file = {}
        /\ DOMAIN M.bytes = {} /\ DOMAIN M.stats = {} /\ Tables(M)
    <3>1. /\ Tables(M) /\ Wrote(M.art, NoRows.art, a, "gone") /\ M.ver = NoRows.ver
          /\ M.file = NoRows.file /\ M.bytes = NoRows.bytes /\ M.stats = NoRows.stats
      BY <2>2, NoRowsFacts, WroteArt DEF M
    <3> QED
      BY <3>1, NoRowsFacts DEF Wrote
  <2>6. L = {Lock(Art(a), "update"), Lock(Name(NameOf[a]), "update")}
    BY <2>2
  <2> HIDE DEF L
  <2>7. Typed(M, L, req[p], s, w, t, {}, None)
    <3>1. Rowed(M)
      BY <2>2, <2>5 DEF Rowed, Partial
    <3>2. L \subseteq [row : Rows, mode : Modes]
      BY <2>2, <2>6, RowTypes DEF Modes
    <3>3. req[p] \in Requests
      BY <2>1 DEF TypeOK
    <3>4. /\ s \in Stages /\ s # "idle" /\ w \in [row : Rows, mode : Modes] \cup {NoLock}
          /\ t \in SUBSET Vers
      BY <2>4, RowTypes DEF Stages, Modes
    <3> QED
      BY <3>1, <3>2, <3>3, <3>4 DEF Typed
  <2>8. Apart(p, L)
    <3>1. Apart(p, {Lock(Art(a), "update")})
      BY <2>2, GrantedApart DEF Apart
    <3>2. ASSUME NEW q \in Procs, q # p, NEW m \in locks[q] PROVE m.row # Name(NameOf[a])
      <4> SUFFICES ASSUME m.row = Name(NameOf[a]) PROVE FALSE
        OBVIOUS
      <4>1. NamesLocked(q) /\ Once(q) /\ WritesLocked(q) /\ Rowed(mine[q])
        BY <3>2, InvOf DEF PerProc
      <4>2. PICK b \in DOMAIN mine[q].art : NameOf[b] = NameOf[a]
        BY <2>2, <3>2, <4>1 DEF NamesLocked, Names
      <4>3. b \in Arts /\ mine[q].art[b] # "live"
        BY <1>2, <2>2, <4>1, <4>2 DEF NamesLocked, Rowed, Partial
      <4>4. b = a
        BY <1>2, <2>1, <2>2, <4>1, <4>2, <4>3 DEF Once, NamesUnique
      <4>5. Lock(Art(a), "update") \in locks[q]
        BY <4>1, <4>2, <4>4 DEF WritesLocked, HoldsU
      <4> QED
        BY <3>1, <3>2, <4>5, LockFacts DEF Apart, Conflict
    <3>3. Apart(p, {Lock(Name(NameOf[a]), "update")})
      BY <3>2, LockFacts DEF Apart
    <3> QED
      BY <2>6, <3>1, <3>3 DEF Apart
  <2>9. /\ tab' = tab /\ mine'[p] = M /\ locks'[p] = L /\ req'[p] = req[p] /\ at'[p] = s
        /\ want'[p] = w /\ todo'[p] = t /\ queue'[p] = {} /\ cur'[p] = None
    BY <2>1, <2>4, Moves
  <2>10. Drawn' /\ Touched(p)' = {}
    BY <1>2, <2>1, <2>5, <2>9 DEF Drawn, Touched
  <2>11. StageOK(p)'
    <3>1. CASE s = "commit" /\ w = NoLock /\ t = {}
      BY <2>2, <2>9, <3>1 DEF StageOK
    <3>2. CASE s = "rows" /\ t \subseteq Vers /\ \E r \in Rows : w = Lock(r, "update")
      BY <2>2, <2>9, <3>2 DEF StageOK
    <3> QED
      BY <2>4, <3>1, <3>2
  <2>12. WritesLocked(p)'
    BY <2>5, <2>6, <2>9, <2>10 DEF WritesLocked, HoldsU
  <2>13. Once(p)'
    <3>1. \A l \in L : (\A b : l.row = Art(b) => b = a) /\ (\A u : l.row # Ver(u))
      BY <2>6, LockFacts, RowFacts
    <3> QED
      BY <1>2, <2>2, <2>5, <2>9, <2>10, <3>1 DEF Once
  <2>14. /\ \A v : ~HoldsX(p, Ver(v))'
         /\ \A b : HoldsU(p, Art(b))' => b = a
    BY <2>6, <2>9, LockFacts, RowFacts DEF HoldsX, HoldsU
  <2>15. BytesExact(p)'
    BY <2>5, <2>9, <2>14 DEF BytesExact
  <2>16. SumsExact(p)'
    <3>1. View(p)'.art[a] = "gone"
      BY <2>1, <2>2, <2>5, <2>9, ViewAfter
    <3> QED
      BY <2>10, <2>14, <3>1 DEF SumsExact
  <2>17. NamesLocked(p)' /\ LocksOrdered(p)'
    <3>1. \A l \in L : \A n : l.row = Name(n) => n = NameOf[a]
      BY <2>6, LockFacts, RowFacts
    <3> QED
      BY <2>2, <2>5, <2>9, <3>1 DEF NamesLocked, LocksOrdered
  <2> QED
    BY <2>4, <2>7, <2>8, <2>10, <2>11, <2>12, <2>13, <2>15, <2>16, <2>17, LocalStep DEF PerProc
<1> QED
  BY <1>0, <1>1, <1>2 DEF TakeArtifact

-----------------------------------------------------------------------------
(* Steps that change the committed tables                                   *)

Columned(t) ==
  /\ DOMAIN t.art = Arts /\ DOMAIN t.ver = Vers /\ DOMAIN t.file = Files
  /\ DOMAIN t.bytes = Vers /\ DOMAIN t.stats = Arts

LEMMA MergeRows ==
  ASSUME NEW w, NEW t, Columned(t)
  PROVE  /\ \A a \in Arts : /\ Merge(w, t).art[a] = IF a \in DOMAIN w.art THEN w.art[a] ELSE t.art[a]
                            /\ Merge(w, t).stats[a] = IF a \in DOMAIN w.stats THEN w.stats[a] ELSE t.stats[a]
         /\ \A v \in Vers : /\ Merge(w, t).ver[v] = IF v \in DOMAIN w.ver THEN w.ver[v] ELSE t.ver[v]
                            /\ Merge(w, t).bytes[v] = IF v \in DOMAIN w.bytes THEN w.bytes[v] ELSE t.bytes[v]
         /\ \A f \in Files : Merge(w, t).file[f] = IF f \in DOMAIN w.file THEN w.file[f] ELSE t.file[f]
BY MergeFacts, OverFacts DEF Columned

\* Two requests never both hold a row exclusively.
LEMMA LocksApart ==
  ASSUME TypeOK, NEW p \in Procs, NEW q \in Procs, p # q, NEW r, HoldsX(p, r)
  PROVE  ~HoldsX(q, r)
<1>1. \A l \in locks[p], m \in locks[q] : l.row = m.row => ~Conflict(l.mode, m.mode)
  BY DEF TypeOK
<1> QED
  BY <1>1, LockFacts DEF HoldsX, HoldsU, Conflict

\* What p leaves when it commits.
Leaves(p) ==
  /\ \A a \in Arts :
       \/ a \notin DOMAIN mine[p].art /\ tab'.art[a] = tab.art[a]
       \/ /\ a \in DOMAIN mine[p].art /\ mine[p].art[a] = "live" /\ tab.art[a] = "none" /\ tab'.art[a] = "live"
          /\ req[p] = [kind |-> "art", id |-> a]
       \/ a \in DOMAIN mine[p].art /\ tab.art[a] = "live" /\ tab'.art[a] = "gone"
  /\ \A v \in Vers :
       \/ v \notin DOMAIN mine[p].ver /\ tab'.ver[v] = tab.ver[v]
       \/ /\ v \in DOMAIN mine[p].ver /\ tab.ver[v] = "none" /\ tab'.ver[v] = "live"
          /\ req[p] = [kind |-> "ver", id |-> v]
       \/ v \in DOMAIN mine[p].ver /\ tab.ver[v] = "live" /\ tab'.ver[v] = "gone"
  /\ \A f \in Files :
       \/ f \notin DOMAIN mine[p].file /\ tab'.file[f] = tab.file[f]
       \/ /\ f \in DOMAIN mine[p].file /\ tab.file[f] \in Present /\ tab'.file[f] \in Changes
          /\ tab'.file[f] = mine[p].file[f]
  /\ \A v \in Vers : v \in DOMAIN mine[p].bytes \/ tab'.bytes[v] = tab.bytes[v]
  /\ \A a \in Arts : a \in DOMAIN mine[p].stats \/ tab'.stats[a] = tab.stats[a]

LEMMA CommitLeaves ==
  ASSUME CatalogInv, NEW p \in Procs, Commit(p)
  PROVE  Leaves(p) /\ Columned(tab) /\ Columned(tab') /\ Tables(tab') /\ tab'.bytes \in [Vers -> Int]
<1>1. TypeOK /\ PerProc(p) /\ Rowed(mine[p])
  BY InvOf
<1>2. tab' = Merge(mine[p], tab)
  BY DEF Commit, View
<1>3. Columned(tab)
  BY <1>1 DEF TypeOK, Columned
<1>4. Columned(tab') /\ Tables(tab')
  <2>1. Tables(Merge(mine[p], tab))
    BY DEF Tables, Merge
  <2>2. /\ tab'.art = Over(mine[p].art, tab.art) /\ tab'.ver = Over(mine[p].ver, tab.ver)
        /\ tab'.file = Over(mine[p].file, tab.file) /\ tab'.bytes = Over(mine[p].bytes, tab.bytes)
        /\ tab'.stats = Over(mine[p].stats, tab.stats)
    BY <1>2, MergeFacts
  <2> QED
    BY <1>2, <1>3, <2>1, <2>2, OverFacts DEF Columned
<1>5. /\ \A a \in Arts : /\ tab'.art[a] = IF a \in DOMAIN mine[p].art THEN mine[p].art[a] ELSE tab.art[a]
                         /\ tab'.stats[a] = IF a \in DOMAIN mine[p].stats THEN mine[p].stats[a] ELSE tab.stats[a]
      /\ \A v \in Vers : /\ tab'.ver[v] = IF v \in DOMAIN mine[p].ver THEN mine[p].ver[v] ELSE tab.ver[v]
                         /\ tab'.bytes[v] = IF v \in DOMAIN mine[p].bytes THEN mine[p].bytes[v] ELSE tab.bytes[v]
      /\ \A f \in Files : tab'.file[f] = IF f \in DOMAIN mine[p].file THEN mine[p].file[f] ELSE tab.file[f]
  BY <1>2, <1>3, MergeRows
<1>6. tab'.bytes \in [Vers -> Int]
  <2>1. \A v \in Vers : tab'.bytes[v] \in Int
    BY <1>1, <1>5 DEF TypeOK, Rowed, Partial
  <2>2. tab'.bytes = [v \in Vers |-> tab'.bytes[v]]
    <3>1. tab'.bytes = Over(mine[p].bytes, tab.bytes)
      BY <1>2, MergeFacts
    <3> QED
      BY <1>3, <3>1 DEF Over, Columned
  <2> QED
    BY <2>1, <2>2
<1>7. ASSUME NEW a \in Arts
      PROVE  \/ a \notin DOMAIN mine[p].art /\ tab'.art[a] = tab.art[a]
             \/ /\ a \in DOMAIN mine[p].art /\ mine[p].art[a] = "live" /\ tab.art[a] = "none" /\ tab'.art[a] = "live"
                /\ req[p] = [kind |-> "art", id |-> a]
             \/ a \in DOMAIN mine[p].art /\ tab.art[a] = "live" /\ tab'.art[a] = "gone"
  <2>1. CASE a \in DOMAIN mine[p].art /\ mine[p].art[a] = "live"
    <3>1. req[p] = [kind |-> "art", id |-> a]
      BY <1>1, <2>1 DEF PerProc, Once
    <3>2. tab.art[a] = "none"
      BY <1>1, <3>1 DEF PerProc, Once
    <3> QED
      BY <1>5, <2>1, <3>1, <3>2
  <2>2. CASE a \in DOMAIN mine[p].art /\ mine[p].art[a] # "live"
    BY <1>1, <1>5, <2>2 DEF PerProc, Once, Rowed, Partial
  <2> QED
    BY <1>5, <2>1, <2>2
<1>8. ASSUME NEW v \in Vers
      PROVE  \/ v \notin DOMAIN mine[p].ver /\ tab'.ver[v] = tab.ver[v]
             \/ /\ v \in DOMAIN mine[p].ver /\ tab.ver[v] = "none" /\ tab'.ver[v] = "live"
                /\ req[p] = [kind |-> "ver", id |-> v]
             \/ v \in DOMAIN mine[p].ver /\ tab.ver[v] = "live" /\ tab'.ver[v] = "gone"
  <2>1. CASE v \in DOMAIN mine[p].ver /\ mine[p].ver[v] = "live"
    <3>1. req[p] = [kind |-> "ver", id |-> v]
      BY <1>1, <2>1 DEF PerProc, Once
    <3>2. tab.ver[v] = "none"
      BY <1>1, <3>1 DEF PerProc, Once
    <3> QED
      BY <1>5, <2>1, <3>1, <3>2
  <2>2. CASE v \in DOMAIN mine[p].ver /\ mine[p].ver[v] # "live"
    BY <1>1, <1>5, <2>2 DEF PerProc, Once, Rowed, Partial
  <2> QED
    BY <1>5, <2>1, <2>2
<1>9. \A f \in Files :
        \/ f \notin DOMAIN mine[p].file /\ tab'.file[f] = tab.file[f]
        \/ /\ f \in DOMAIN mine[p].file /\ tab.file[f] \in Present /\ tab'.file[f] \in Changes
           /\ tab'.file[f] = mine[p].file[f]
  BY <1>1, <1>5 DEF PerProc, Once, Rowed, Partial
<1>10. /\ \A v \in Vers : v \in DOMAIN mine[p].bytes \/ tab'.bytes[v] = tab.bytes[v]
       /\ \A a \in Arts : a \in DOMAIN mine[p].stats \/ tab'.stats[a] = tab.stats[a]
  BY <1>5
<1> QED
  BY <1>3, <1>4, <1>6, <1>7, <1>8, <1>9, <1>10 DEF Leaves

\* Rows that are gone stay so, and rows that are there do not become unused.
LEMMA Monotone ==
  ASSUME NEW p \in Procs, Leaves(p)
  PROVE  /\ \A a \in Arts : /\ tab.art[a] = "gone" => tab'.art[a] = "gone"
                            /\ tab.art[a] # "none" => tab'.art[a] # "none"
         /\ \A v \in Vers : /\ tab.ver[v] = "gone" => tab'.ver[v] = "gone"
                            /\ tab.ver[v] # "none" => tab'.ver[v] # "none"
<1>1. \A a \in Arts : /\ tab.art[a] = "gone" => tab'.art[a] = "gone"
                      /\ tab.art[a] # "none" => tab'.art[a] # "none"
  <2> TAKE a \in Arts
  <2>1. tab'.art[a] = tab.art[a] \/ (tab.art[a] = "none" /\ tab'.art[a] = "live")
          \/ (tab.art[a] = "live" /\ tab'.art[a] = "gone")
    BY DEF Leaves
  <2> QED
    BY <2>1
<1>2. \A v \in Vers : /\ tab.ver[v] = "gone" => tab'.ver[v] = "gone"
                      /\ tab.ver[v] # "none" => tab'.ver[v] # "none"
  <2> TAKE v \in Vers
  <2>1. tab'.ver[v] = tab.ver[v] \/ (tab.ver[v] = "none" /\ tab'.ver[v] = "live")
          \/ (tab.ver[v] = "live" /\ tab'.ver[v] = "gone")
    BY DEF Leaves
  <2> QED
    BY <2>1
<1> QED
  BY <1>1, <1>2

LEMMA LeavesSame ==
  ASSUME NEW p \in Procs, Leaves(p)
  PROVE  /\ \A a \in Arts : a \notin DOMAIN mine[p].art => tab'.art[a] = tab.art[a]
         /\ \A a \in Arts : a \notin DOMAIN mine[p].stats => tab'.stats[a] = tab.stats[a]
         /\ \A v \in Vers : v \notin Touched(p) => tab'.ver[v] = tab.ver[v] /\ tab'.bytes[v] = tab.bytes[v]
         /\ \A v \in Vers : v \notin DOMAIN mine[p].ver => tab'.ver[v] = tab.ver[v]
         /\ \A f \in Files : f \notin DOMAIN mine[p].file => tab'.file[f] = tab.file[f]
<1>1. \A a \in Arts : a \notin DOMAIN mine[p].art => tab'.art[a] = tab.art[a]
  BY DEF Leaves
<1>2. \A a \in Arts : a \notin DOMAIN mine[p].stats => tab'.stats[a] = tab.stats[a]
  BY DEF Leaves
<1>3. \A v \in Vers : v \notin DOMAIN mine[p].ver => tab'.ver[v] = tab.ver[v]
  BY DEF Leaves
<1>4. \A v \in Vers : v \notin DOMAIN mine[p].bytes => tab'.bytes[v] = tab.bytes[v]
  BY DEF Leaves
<1>5. \A f \in Files : f \notin DOMAIN mine[p].file => tab'.file[f] = tab.file[f]
  BY DEF Leaves
<1> QED
  BY <1>1, <1>2, <1>3, <1>4, <1>5 DEF Touched

\* The rows a request holds do not change under it.
LEMMA CommitOthers ==
  ASSUME CatalogInv, NEW p \in Procs, Commit(p), NEW q \in Procs, q # p
  PROVE  PerProc(q)'
<1>1. /\ TypeOK /\ Drawn /\ PerProc(p) /\ PerProc(q) /\ Rowed(mine[p]) /\ Rowed(mine[q])
      /\ Leaves(p) /\ Columned(tab) /\ Columned(tab') /\ at[p] = "commit"
  BY InvOf, CommitLeaves DEF Commit
<1>2. /\ mine'[q] = mine[q] /\ locks'[q] = locks[q] /\ req'[q] = req[q] /\ at'[q] = at[q]
      /\ want'[q] = want[q] /\ todo'[q] = todo[q] /\ queue'[q] = queue[q] /\ cur'[q] = cur[q]
  BY <1>1, MineDomain DEF TypeOK, Commit, End, Goto
<1>3. /\ Touched(q)' = Touched(q) /\ (\A r : HoldsU(q, r)' = HoldsU(q, r)) /\ (\A r : HoldsX(q, r)' = HoldsX(q, r))
  BY <1>2 DEF Touched, HoldsU, HoldsX
<1>4. /\ \A a \in Arts : /\ View(q).art[a] = IF a \in DOMAIN mine[q].art THEN mine[q].art[a] ELSE tab.art[a]
                         /\ View(q)'.art[a] = IF a \in DOMAIN mine[q].art THEN mine[q].art[a] ELSE tab'.art[a]
                         /\ View(q).stats[a] = IF a \in DOMAIN mine[q].stats THEN mine[q].stats[a] ELSE tab.stats[a]
                         /\ View(q)'.stats[a] = IF a \in DOMAIN mine[q].stats THEN mine[q].stats[a] ELSE tab'.stats[a]
      /\ \A v \in Vers : /\ View(q).ver[v] = IF v \in DOMAIN mine[q].ver THEN mine[q].ver[v] ELSE tab.ver[v]
                         /\ View(q)'.ver[v] = IF v \in DOMAIN mine[q].ver THEN mine[q].ver[v] ELSE tab'.ver[v]
                         /\ View(q).bytes[v] = IF v \in DOMAIN mine[q].bytes THEN mine[q].bytes[v] ELSE tab.bytes[v]
                         /\ View(q)'.bytes[v] = IF v \in DOMAIN mine[q].bytes THEN mine[q].bytes[v] ELSE tab'.bytes[v]
      /\ \A f \in Files : /\ View(q).file[f] = IF f \in DOMAIN mine[q].file THEN mine[q].file[f] ELSE tab.file[f]
                          /\ View(q)'.file[f] = IF f \in DOMAIN mine[q].file THEN mine[q].file[f] ELSE tab'.file[f]
  BY <1>1, <1>2, MergeRows DEF View
<1>5. /\ \A r : HoldsU(p, r) \/ HoldsX(p, r) => ~HoldsU(q, r) /\ ~HoldsX(q, r)
      /\ \A a \in DOMAIN mine[p].art \cup DOMAIN mine[p].stats : ~HoldsU(q, Art(a))
      /\ \A v \in Touched(p) : ~HoldsX(q, Ver(v))
      /\ \A f \in DOMAIN mine[p].file : ~HoldsU(q, File(f))
  <2>1. \A r : HoldsU(p, r) \/ HoldsX(p, r) => ~HoldsU(q, r) /\ ~HoldsX(q, r)
    BY <1>1, LocksApart DEF HoldsX
  <2> QED
    BY <1>1, <2>1 DEF PerProc, WritesLocked
<1>6. /\ \A a \in Arts : View(q).art[a] = "gone" => View(q)'.art[a] = "gone"
      /\ \A v \in Vers : View(q).ver[v] = "gone" => View(q)'.ver[v] = "gone"
  BY <1>1, <1>4, Monotone
\* A live row of q is not gone in the tables.
<1>7. /\ \A a \in Arts : View(q)'.art[a] = "live" /\ a \notin DOMAIN mine[p].art => tab.art[a] # "gone"
      /\ \A v \in Vers : View(q)'.ver[v] = "live" /\ v \notin DOMAIN mine[p].ver => tab.ver[v] # "gone"
  <2>1. ASSUME NEW a \in Arts, a \in DOMAIN mine[q].art PROVE tab.art[a] # "gone"
    <3>1. CASE mine[q].art[a] = "live"
      <4>1. req[q] = [kind |-> "art", id |-> a]
        BY <1>1, <2>1, <3>1 DEF PerProc, Once
      <4>2. tab.art[a] = "none"
        BY <1>1, <4>1 DEF PerProc, Once
      <4> QED
        BY <4>2
    <3>2. CASE mine[q].art[a] # "live"
      BY <1>1, <2>1, <3>2 DEF PerProc, Once
    <3> QED
      BY <3>1, <3>2
  <2>2. ASSUME NEW v \in Vers, v \in DOMAIN mine[q].ver PROVE tab.ver[v] # "gone"
    <3>1. CASE mine[q].ver[v] = "live"
      <4>1. req[q] = [kind |-> "ver", id |-> v]
        BY <1>1, <2>2, <3>1 DEF PerProc, Once
      <4>2. tab.ver[v] = "none"
        BY <1>1, <4>1 DEF PerProc, Once
      <4> QED
        BY <4>2
    <3>2. CASE mine[q].ver[v] # "live"
      BY <1>1, <2>2, <3>2 DEF PerProc, Once
    <3> QED
      BY <3>1, <3>2
  <2> QED
    BY <1>1, <1>4, <2>1, <2>2, LeavesSame
<1>8. StageOK(q)'
  <2>1. at[q] \in {"lock", "stats", "cascade"} => cur[q] \in Vers /\ ArtOf[cur[q]] \in Arts
    <3>1. queue[q] \in SUBSET Vers
      BY <1>1 DEF TypeOK
    <3> QED
      BY <1>1, <3>1 DEF PerProc, StageOK
  <2>2. at[q] = "stats" => HoldsU(q, Art(ArtOf[cur[q]])) \/ View(q)'.art[ArtOf[cur[q]]] = "gone"
    BY <1>1, <1>6, <2>1 DEF PerProc, StageOK
  <2>3. at[q] = "cascade" => View(q)'.ver[cur[q]] = "gone"
    BY <1>1, <1>6, <2>1 DEF PerProc, StageOK
  <2> QED
    BY <1>1, <1>2, <1>3, <2>2, <2>3 DEF PerProc, StageOK
<1>9. WritesLocked(q)'
  BY <1>1, <1>2, <1>3 DEF PerProc, WritesLocked
<1>10. Once(q)'
  <2>1. /\ req[q].kind = "art" => tab'.art[req[q].id] = "none"
        /\ req[q].kind = "ver" => tab'.ver[req[q].id] = "none"
    <3>1. req[q].kind \in {"art", "ver"} => req[q] # req[p]
      BY <1>1 DEF Drawn
    <3>2. CASE req[q].kind = "art"
      <4>1. PICK a \in Arts : a = req[q].id /\ req[q] = [kind |-> "art", id |-> a] /\ tab.art[a] = "none"
        BY <1>1, <3>2, ReqOf DEF PerProc, Once
      <4>2. req[p] # [kind |-> "art", id |-> a]
        BY <3>1, <3>2, <4>1
      <4> QED
        BY <1>1, <3>2, <4>1, <4>2 DEF Leaves
    <3>3. CASE req[q].kind = "ver"
      <4>1. PICK v \in Vers : v = req[q].id /\ req[q] = [kind |-> "ver", id |-> v] /\ tab.ver[v] = "none"
        BY <1>1, <3>3, ReqOf DEF PerProc, Once
      <4>2. req[p] # [kind |-> "ver", id |-> v]
        BY <3>1, <3>3, <4>1
      <4> QED
        BY <1>1, <3>3, <4>1, <4>2 DEF Leaves
    <3> QED
      BY <3>2, <3>3
  <2>2. \A a \in DOMAIN mine[q].art :
          IF mine[q].art[a] = "live" THEN req[q] = [kind |-> "art", id |-> a] ELSE tab'.art[a] = "live"
    <3> TAKE a \in DOMAIN mine[q].art
    <3>1. a \in Arts /\ HoldsU(q, Art(a))
      BY <1>1 DEF PerProc, WritesLocked, Rowed, Partial
    <3>2. tab'.art[a] = tab.art[a]
      BY <1>1, <1>5, <3>1 DEF Leaves
    <3> QED
      BY <1>1, <3>2 DEF PerProc, Once
  <2>3. \A v \in DOMAIN mine[q].ver :
          IF mine[q].ver[v] = "live" THEN req[q] = [kind |-> "ver", id |-> v] ELSE tab'.ver[v] = "live"
    <3> TAKE v \in DOMAIN mine[q].ver
    <3>1. v \in Vers /\ HoldsX(q, Ver(v))
      BY <1>1 DEF PerProc, WritesLocked, Rowed, Partial, Touched
    <3>2. tab'.ver[v] = tab.ver[v]
      BY <1>1, <1>5, <3>1 DEF Leaves, Touched
    <3> QED
      BY <1>1, <3>2 DEF PerProc, Once
  <2>4. \A v \in Touched(q) : tab'.art[ArtOf[v]] # "none"
    <3> TAKE v \in Touched(q)
    <3>1. v \in Vers /\ tab.art[ArtOf[v]] # "none"
      BY <1>1 DEF PerProc, Once, Touched, Rowed, Partial
    <3> QED
      BY <1>1, <3>1, Monotone
  <2>5. \A f \in DOMAIN mine[q].file : tab'.file[f] \in Present
    <3> TAKE f \in DOMAIN mine[q].file
    <3>1. f \in Files /\ HoldsU(q, File(f)) /\ tab.file[f] \in Present
      BY <1>1 DEF PerProc, WritesLocked, Once, Rowed, Partial
    <3> QED
      BY <1>1, <1>5, <3>1 DEF Leaves
  <2>6. \A l \in locks[q] :
          /\ \A a \in Arts : l.row = Art(a) => tab'.art[a] # "none" \/ req[q] = [kind |-> "art", id |-> a]
          /\ \A v \in Vers : l.row = Ver(v) => tab'.ver[v] # "none" \/ req[q] = [kind |-> "ver", id |-> v]
    BY <1>1, Monotone DEF PerProc, Once
  <2> QED
    BY <1>2, <1>3, <2>1, <2>2, <2>3, <2>4, <2>5, <2>6 DEF Once
<1>11. BytesExact(q)'
  <2>1. ASSUME NEW v \in Vers, HoldsX(q, Ver(v)), View(q)'.ver[v] = "live"
        PROVE  View(q)'.bytes[v] = Bytes(Avail(View(q)', v))
    <3>1. v \notin Touched(p) /\ ~HoldsX(p, Ver(v))
      BY <1>5, <2>1
    <3>2. View(q)'.ver[v] = View(q).ver[v] /\ View(q)'.bytes[v] = View(q).bytes[v] /\ tab.ver[v] # "gone"
      BY <1>1, <1>4, <1>7, <2>1, <3>1, LeavesSame DEF Touched
    <3>3. \A f \in Files : VerOf[f] = v => Counted(f, View(q)'.file[f]) = Counted(f, View(q).file[f])
      <4> SUFFICES ASSUME NEW f \in Files, VerOf[f] = v, f \in DOMAIN mine[p].file
                   PROVE  Counted(f, tab'.file[f]) = Counted(f, tab.file[f])
        BY <1>1, <1>4 DEF Leaves
      <4>1. tab'.file[f] = mine[p].file[f]
        BY <1>1 DEF Leaves
      <4> QED
        BY <1>1, <3>1, <3>2, <4>1 DEF PerProc, BytesExact
    <3>4. Avail(View(q)', v) = Avail(View(q), v)
      BY <3>3 DEF Avail
    <3>5. View(q).bytes[v] = Bytes(Avail(View(q), v))
      BY <1>1, <2>1, <3>2 DEF PerProc, BytesExact
    <3> QED
      BY <3>2, <3>4, <3>5
  <2>2. \A f \in DOMAIN mine[q].file :
          \/ HoldsX(q, Ver(VerOf[f])) \/ at[q] = "bytes" \/ tab'.ver[VerOf[f]] = "gone"
          \/ Counted(f, mine[q].file[f]) = Counted(f, tab'.file[f])
    <3> TAKE f \in DOMAIN mine[q].file
    <3>1. f \in Files /\ HoldsU(q, File(f)) /\ VerOf[f] \in Vers
      BY <1>1 DEF PerProc, WritesLocked, Rowed, Partial
    <3>2. tab'.file[f] = tab.file[f]
      BY <1>1, <1>5, <3>1 DEF Leaves
    <3>3. tab.ver[VerOf[f]] = "gone" => tab'.ver[VerOf[f]] = "gone"
      BY <1>1, <3>1, Monotone
    <3> QED
      BY <1>1, <3>2, <3>3 DEF PerProc, BytesExact
  <2> QED
    BY <1>2, <1>3, <2>1, <2>2 DEF BytesExact
<1>12. SumsExact(q)'
  <2>1. ASSUME NEW a \in Arts, HoldsU(q, Art(a)), View(q)'.art[a] = "live", \A v \in queue[q] : ArtOf[v] # a
        PROVE  View(q)'.stats[a] = Stats(View(q)', a)
    <3>1. a \notin DOMAIN mine[p].art /\ a \notin DOMAIN mine[p].stats /\ ~HoldsU(p, Art(a))
      BY <1>5, <2>1
    <3>2. View(q)'.art[a] = View(q).art[a] /\ View(q)'.stats[a] = View(q).stats[a] /\ tab.art[a] # "gone"
      BY <1>1, <1>4, <1>7, <2>1, <3>1, LeavesSame
    <3>3. View(p).art[a] # "gone"
      BY <1>1, <3>1, <3>2, ViewFacts
    <3>4. \A v \in Vers : ArtOf[v] = a => v \notin Touched(p)
      <4>1. queue[p] = {}
        BY <1>1 DEF PerProc, StageOK
      <4> QED
        BY <1>1, <3>1, <3>3, <4>1 DEF PerProc, SumsExact
    <3>5. \A v \in Vers : ArtOf[v] = a =>
            View(q)'.ver[v] = View(q).ver[v] /\ View(q)'.bytes[v] = View(q).bytes[v]
      BY <1>1, <1>4, <3>4, LeavesSame
    <3>6. Stats(View(q)', a) = Stats(View(q), a)
      BY <3>5, StatsSame
    <3>7. View(q).stats[a] = Stats(View(q), a)
      BY <1>1, <2>1, <3>2 DEF PerProc, SumsExact
    <3> QED
      BY <3>2, <3>6, <3>7
  <2>2. \A v \in Touched(q) : v \in queue[q] \/ HoldsU(q, Art(ArtOf[v])) \/ View(q)'.art[ArtOf[v]] = "gone"
    <3> TAKE v \in Touched(q)
    <3>1. ArtOf[v] \in Arts
      BY <1>1 DEF Touched, Rowed, Partial
    <3> QED
      BY <1>1, <1>6, <3>1 DEF PerProc, SumsExact
  <2> QED
    BY <1>2, <1>3, <2>1, <2>2 DEF SumsExact
<1>13. NamesLocked(q)'
  <2>1. ASSUME NEW a \in DOMAIN mine[q].art, mine[q].art[a] = "live", NEW b \in Arts, tab'.art[b] = "live"
        PROVE  NameOf[b] # NameOf[a]
    <3>1. HoldsU(q, Name(NameOf[a])) /\ (tab.art[b] = "live" => NameOf[b] # NameOf[a])
      BY <1>1, <2>1 DEF PerProc, NamesLocked
    <3>2. CASE b \in DOMAIN mine[p].art
      <4>1. mine[p].art[b] = "live"
        BY <1>1, <2>1, <3>2 DEF Leaves
      <4>2. HoldsU(p, Name(NameOf[b]))
        BY <1>1, <3>2, <4>1 DEF PerProc, NamesLocked
      <4> QED
        BY <1>5, <3>1, <4>2
    <3>3. CASE b \notin DOMAIN mine[p].art
      BY <1>1, <2>1, <3>1, <3>3 DEF Leaves
    <3> QED
      BY <3>2, <3>3
  <2> QED
    BY <1>1, <1>2, <1>3, <2>1 DEF PerProc, NamesLocked
<1>14. LocksOrdered(q)'
  BY <1>1, <1>2 DEF PerProc, LocksOrdered
<1> QED
  BY <1>8, <1>9, <1>10, <1>11, <1>12, <1>13, <1>14 DEF PerProc

LEMMA CommitTypes ==
  ASSUME CatalogInv, NEW p \in Procs, Commit(p)
  PROVE  TypeOK'
<1>1. TypeOK /\ PerProc(p) /\ Rowed(mine[p]) /\ Leaves(p) /\ Columned(tab') /\ Tables(tab')
        /\ tab'.bytes \in [Vers -> Int] /\ End(p) /\ UNCHANGED <<left, faults>> /\ tab' = Merge(mine[p], tab)
        /\ Columned(tab)
  BY InvOf, CommitLeaves DEF Commit, View
<1>2. /\ tab'.art \in [Arts -> States] /\ tab'.ver \in [Vers -> States]
      /\ tab'.file \in [Files -> {"none", "gone"} \cup Present]
  <2>1. /\ tab'.art = Over(mine[p].art, tab.art) /\ tab'.ver = Over(mine[p].ver, tab.ver)
        /\ tab'.file = Over(mine[p].file, tab.file)
    BY <1>1, MergeFacts
  <2>2. \A a \in Arts : tab'.art[a] \in States
    BY <1>1 DEF Leaves, TypeOK, States
  <2>3. \A v \in Vers : tab'.ver[v] \in States
    BY <1>1 DEF Leaves, TypeOK, States
  <2>4. \A f \in Files : tab'.file[f] \in {"none", "gone"} \cup Present
    BY <1>1 DEF Leaves, TypeOK, Changes, Present
  <2>5. tab'.art = [a \in Arts |-> tab'.art[a]] /\ tab'.ver = [v \in Vers |-> tab'.ver[v]]
          /\ tab'.file = [f \in Files |-> tab'.file[f]]
    BY <1>1, <2>1 DEF Over, Columned
  <2> QED
    BY <2>2, <2>3, <2>4, <2>5
<1>3. /\ \A q \in Procs : /\ mine'[q] = IF q = p THEN NoRows ELSE mine[q]
                          /\ locks'[q] = IF q = p THEN {} ELSE locks[q]
                          /\ at'[q] = IF q = p THEN "idle" ELSE at[q]
      /\ mine' = [q \in Procs |-> mine'[q]]
  BY <1>1, MineDomain DEF TypeOK, End, Goto
<1>4. \A q \in Procs : /\ Rowed(mine'[q])
                       /\ at'[q] = "idle" => mine'[q] = NoRows /\ locks'[q] = {}
  <2>1. \A q \in Procs : Rowed(mine[q]) /\ (at[q] = "idle" => mine[q] = NoRows /\ locks[q] = {})
    BY <1>1, Zenon DEF TypeOK, Rowed
  <2>2. Rowed(NoRows)
    BY NoRowsFacts DEF Rowed, Partial
  <2> QED
    BY <1>3, <2>1, <2>2
<1>5. \A q, r \in Procs : \A l \in locks'[q], m \in locks'[r] :
        l.row = m.row /\ Conflict(l.mode, m.mode) => q = r
  <2>1. \A q, r \in Procs : \A l \in locks[q], m \in locks[r] :
          l.row = m.row /\ Conflict(l.mode, m.mode) => q = r
    BY <1>1, Zenon DEF TypeOK
  <2> QED
    BY <1>3, <2>1
<1>6. /\ locks' \in [Procs -> SUBSET [row : Rows, mode : Modes]]
      /\ req' \in [Procs -> Requests] /\ at' \in [Procs -> Stages]
      /\ want' \in [Procs -> [row : Rows, mode : Modes] \cup {NoLock}]
      /\ todo' \in [Procs -> (SUBSET Vers) \cup (SUBSET Files)]
      /\ queue' \in [Procs -> SUBSET Vers] /\ cur' \in [Procs -> Vers \cup {None}]
  <2>1. Idle \in Requests
    BY DEF Idle, Requests
  <2> QED
    BY <1>1, <2>1 DEF TypeOK, End, Goto, Stages
<1>7. left' \in 0..MaxRequests /\ faults' \in 0..MaxFaults /\ DOMAIN tab'.stats = Arts
  BY <1>1 DEF TypeOK, Columned
<1> QED
  BY <1>1, <1>2, <1>3, <1>4, <1>5, <1>6, <1>7 DEF TypeOK, Rowed, Stages

LEMMA CommitStep ==
  ASSUME CatalogInv, NEW p \in Procs, Commit(p)
  PROVE  CatalogInv'
<1>1. /\ TypeOK /\ Drawn /\ Referenced /\ StatsExact /\ NamesUnique /\ PerProc(p) /\ Rowed(mine[p])
      /\ Leaves(p) /\ at[p] = "commit" /\ queue[p] = {} /\ tab' = View(p)
  BY InvOf, CommitLeaves DEF Commit, PerProc, StageOK
<1>2. /\ mine'[p] = NoRows /\ locks'[p] = {} /\ req'[p] = Idle /\ at'[p] = "idle" /\ want'[p] = NoLock
      /\ todo'[p] = {} /\ queue'[p] = {} /\ cur'[p] = None /\ Idle.kind = "none"
      /\ \A q \in Procs : q # p => req'[q] = req[q]
  BY <1>1, MineDomain DEF TypeOK, Commit, End, Goto, Idle
<1>3. Drawn'
  BY <1>1, <1>2 DEF Drawn
<1>4. Referenced'
  <2>1. \A v \in Vers : tab'.ver[v] # "none" => tab'.art[ArtOf[v]] # "none"
    <3> SUFFICES ASSUME NEW v \in Vers, tab'.ver[v] # "none" PROVE tab.art[ArtOf[v]] # "none"
      BY <1>1, Monotone
    <3>1. CASE v \in DOMAIN mine[p].ver
      BY <1>1, <3>1 DEF PerProc, Once, Touched
    <3>2. CASE v \notin DOMAIN mine[p].ver
      BY <1>1, <3>2, LeavesSame DEF Referenced
    <3> QED
      BY <3>1, <3>2
  <2>2. \A f \in Files : tab'.file[f] # "none" => tab'.ver[VerOf[f]] # "none"
    <3> TAKE f \in Files
    <3>1. tab'.file[f] # "none" => tab.file[f] # "none"
      BY <1>1 DEF Leaves, Present
    <3> QED
      BY <1>1, <3>1, Monotone DEF Referenced
  <2> QED
    BY <2>1, <2>2 DEF Referenced
<1>5. StatsExact'
  <2>1. ASSUME NEW v \in Vers, tab'.ver[v] = "live" PROVE tab'.bytes[v] = Bytes(Avail(tab', v))
    <3>1. CASE HoldsX(p, Ver(v))
      BY <1>1, <2>1, <3>1 DEF PerProc, BytesExact
    <3>2. CASE ~HoldsX(p, Ver(v))
      <4>1. v \notin Touched(p)
        BY <1>1, <3>2 DEF PerProc, WritesLocked
      <4>2. tab.ver[v] = "live" /\ tab'.bytes[v] = tab.bytes[v]
        BY <1>1, <2>1, <4>1, LeavesSame
      <4>3. \A f \in Files : VerOf[f] = v => Counted(f, tab'.file[f]) = Counted(f, tab.file[f])
        <5> SUFFICES ASSUME NEW f \in Files, VerOf[f] = v, f \in DOMAIN mine[p].file
                     PROVE  Counted(f, tab'.file[f]) = Counted(f, tab.file[f])
          BY <1>1, LeavesSame
        <5>1. tab'.file[f] = mine[p].file[f]
          BY <1>1 DEF Leaves
        <5> QED
          BY <1>1, <3>2, <4>2, <5>1 DEF PerProc, BytesExact
      <4>4. Avail(tab', v) = Avail(tab, v)
        BY <4>3 DEF Avail
      <4> QED
        BY <1>1, <4>2, <4>4 DEF StatsExact
    <3> QED
      BY <3>1, <3>2
  <2>2. ASSUME NEW a \in Arts, tab'.art[a] = "live" PROVE tab'.stats[a] = Stats(tab', a)
    <3>1. CASE HoldsU(p, Art(a))
      BY <1>1, <2>2, <3>1 DEF PerProc, SumsExact
    <3>2. CASE ~HoldsU(p, Art(a))
      <4>1. a \notin DOMAIN mine[p].art /\ a \notin DOMAIN mine[p].stats
        BY <1>1, <3>2 DEF PerProc, WritesLocked
      <4>2. tab.art[a] = "live" /\ tab'.stats[a] = tab.stats[a]
        BY <1>1, <2>2, <4>1, LeavesSame
      <4>3. \A v \in Vers : ArtOf[v] = a => v \notin Touched(p)
        BY <1>1, <2>2, <3>2 DEF PerProc, SumsExact
      <4>4. \A v \in Vers : ArtOf[v] = a => tab'.ver[v] = tab.ver[v] /\ tab'.bytes[v] = tab.bytes[v]
        BY <1>1, <4>3, LeavesSame
      <4>5. Stats(tab', a) = Stats(tab, a)
        BY <4>4, StatsSame
      <4> QED
        BY <1>1, <4>2, <4>5 DEF StatsExact
    <3> QED
      BY <3>1, <3>2
  <2> QED
    BY <2>1, <2>2 DEF StatsExact
<1>6. NamesUnique'
  <2> SUFFICES ASSUME NEW a \in Arts, NEW b \in Arts, tab'.art[a] = "live", tab'.art[b] = "live",
                      NameOf[a] = NameOf[b]
               PROVE  a = b
    BY DEF NamesUnique
  <2>1. \A c \in Arts : tab'.art[c] = "live" =>
          tab.art[c] = "live" \/ (c \in DOMAIN mine[p].art /\ mine[p].art[c] = "live")
    BY <1>1 DEF Leaves
  <2>2. \A c \in Arts : c \in DOMAIN mine[p].art /\ mine[p].art[c] = "live" =>
          /\ req[p] = [kind |-> "art", id |-> c]
          /\ \A d \in Arts : tab.art[d] = "live" => NameOf[d] # NameOf[c]
    BY <1>1 DEF PerProc, NamesLocked, Once
  <2>3. CASE tab.art[a] = "live" /\ tab.art[b] = "live"
    BY <1>1, <2>3 DEF NamesUnique
  <2>4. CASE tab.art[a] # "live" /\ tab.art[b] # "live"
    <3>1. req[p] = [kind |-> "art", id |-> a] /\ req[p] = [kind |-> "art", id |-> b]
      BY <2>1, <2>2, <2>4
    <3>2. [kind |-> "art", id |-> a].id = a /\ [kind |-> "art", id |-> b].id = b
      OBVIOUS
    <3> QED
      BY <3>1, <3>2
  <2> QED
    BY <2>1, <2>2, <2>3, <2>4
<1>7. ASSUME NEW q \in Procs PROVE PerProc(q)'
  <2>1. StageOK(p)'
    BY <1>2, NoRowsFacts DEF StageOK
  <2>2. PerProc(p)'
    BY <1>2, <2>1, CleanStep
  <2> QED
    BY <2>2, CommitOthers
<1> QED
  BY <1>3, <1>4, <1>5, <1>6, <1>7, CommitTypes DEF CatalogInv, PerProc

\* A PENDING row counts nothing, and nobody has written it.
LEMMA InsertFileStep ==
  ASSUME CatalogInv, NEW x \in Files, InsertFile(x)
  PROVE  CatalogInv'
<1>1. TypeOK /\ Drawn /\ Referenced /\ StatsExact /\ NamesUnique
  BY DEF CatalogInv
<1>2. /\ tab.file[x] = "none" /\ tab.ver[VerOf[x]] = "live" /\ UNCHANGED <<mine, locks, txn, faults>>
      /\ tab' = [tab EXCEPT !.file[x] = "PENDING"] /\ left' \in 0..MaxRequests
  BY <1>1 DEF InsertFile, TypeOK
<1>3. /\ Tables(tab') /\ tab'.art = tab.art /\ tab'.ver = tab.ver /\ tab'.bytes = tab.bytes /\ tab'.stats = tab.stats
      /\ tab'.file = [tab.file EXCEPT ![x] = "PENDING"]
  BY <1>1, <1>2 DEF TypeOK, Tables
<1>4. /\ tab'.file \in [Files -> {"none", "gone"} \cup Present] /\ tab'.file[x] = "PENDING"
      /\ \A f \in Files : f # x => tab'.file[f] = tab.file[f]
  BY <1>1, <1>3 DEF TypeOK, Present
<1>5. \A f \in Files : Counted(f, tab'.file[f]) = Counted(f, tab.file[f])
  BY <1>2, <1>4 DEF Counted
<1>6. TypeOK'
  BY <1>1, <1>2, <1>3, <1>4, Zenon DEF TypeOK, txn, Blocks
<1>7. Drawn' /\ NamesUnique' /\ Referenced'
  <2>1. Drawn'
    BY <1>1, <1>2 DEF Drawn, txn
  <2>2. NamesUnique'
    BY <1>1, <1>3 DEF NamesUnique
  <2>3. Referenced'
    BY <1>1, <1>2, <1>3, <1>4 DEF Referenced
  <2> QED
    BY <2>1, <2>2, <2>3
<1>8. StatsExact'
  <2>1. \A v : Avail(tab', v) = Avail(tab, v)
    BY <1>5 DEF Avail
  <2>2. \A a : Stats(tab', a) = Stats(tab, a)
    BY <1>3, StatsSame
  <2> QED
    BY <1>1, <1>3, <2>1, <2>2 DEF StatsExact
<1>9. ASSUME NEW q \in Procs PROVE PerProc(q)'
  <2>1. PerProc(q) /\ Rowed(mine[q])
    BY InvOf
  <2>2. /\ mine'[q] = mine[q] /\ locks'[q] = locks[q] /\ req'[q] = req[q] /\ at'[q] = at[q]
        /\ want'[q] = want[q] /\ todo'[q] = todo[q] /\ queue'[q] = queue[q] /\ cur'[q] = cur[q]
    BY <1>2 DEF txn
  <2>3. /\ Touched(q)' = Touched(q) /\ (\A r : HoldsU(q, r)' = HoldsU(q, r)) /\ (\A r : HoldsX(q, r)' = HoldsX(q, r))
    BY <2>2 DEF Touched, HoldsU, HoldsX
  <2>4. x \notin DOMAIN mine[q].file
    BY <1>2, <2>1 DEF PerProc, Once, Present
  <2>5. /\ View(q)'.art = View(q).art /\ View(q)'.ver = View(q).ver
        /\ View(q)'.bytes = View(q).bytes /\ View(q)'.stats = View(q).stats
    BY <1>3, <2>2, MergeFacts DEF View
  <2>6. \A f \in Files : Counted(f, View(q)'.file[f]) = Counted(f, View(q).file[f])
    <3>1. Columned(tab) /\ Columned(tab')
      BY <1>1, <1>3 DEF TypeOK, Columned
    <3>2. \A f \in Files :
            /\ View(q).file[f] = IF f \in DOMAIN mine[q].file THEN mine[q].file[f] ELSE tab.file[f]
            /\ View(q)'.file[f] = IF f \in DOMAIN mine[q].file THEN mine[q].file[f] ELSE tab'.file[f]
      BY <2>2, <3>1, MergeRows DEF View
    <3> QED
      BY <1>5, <3>2
  <2>7. StageOK(q)'
    BY <2>1, <2>2, <2>3, <2>5 DEF PerProc, StageOK
  <2>8. WritesLocked(q)'
    BY <2>1, <2>2, <2>3 DEF PerProc, WritesLocked
  <2>9. Once(q)'
    <3>1. \A f \in DOMAIN mine[q].file : tab'.file[f] \in Present
      BY <1>4, <2>1, <2>4 DEF PerProc, Once, Rowed, Partial
    <3> QED
      BY <1>3, <2>1, <2>2, <2>3, <3>1 DEF PerProc, Once
  <2>10. BytesExact(q)'
    <3>1. \A v : Avail(View(q)', v) = Avail(View(q), v)
      BY <2>6 DEF Avail
    <3>2. \A f \in DOMAIN mine[q].file : tab'.file[f] = tab.file[f]
      BY <1>4, <2>1, <2>4 DEF Rowed, Partial
    <3> QED
      BY <1>3, <2>1, <2>2, <2>3, <2>5, <3>1, <3>2 DEF PerProc, BytesExact
  <2>11. SumsExact(q)'
    <3>1. \A a : Stats(View(q)', a) = Stats(View(q), a)
      BY <2>5, StatsSame
    <3> QED
      BY <2>1, <2>2, <2>3, <2>5, <3>1 DEF PerProc, SumsExact
  <2>12. NamesLocked(q)' /\ LocksOrdered(q)'
    BY <1>3, <2>1, <2>2, <2>3 DEF PerProc, NamesLocked, LocksOrdered
  <2> QED
    BY <2>7, <2>8, <2>9, <2>10, <2>11, <2>12 DEF PerProc
<1> QED
  BY <1>6, <1>7, <1>8, <1>9 DEF CatalogInv, PerProc

-----------------------------------------------------------------------------
(* Initially, and at every step                                             *)

LEMMA InitInv == Init => CatalogInv
<1> SUFFICES ASSUME Init PROVE CatalogInv
  OBVIOUS
<1>1. PICK A \in SUBSET Arts, V \in SUBSET Vers, s \in [Files -> {"none", "PENDING", "AVAILABLE"}] :
        /\ \A a, b \in A : NameOf[a] = NameOf[b] => a = b
        /\ \A v \in V : ArtOf[v] \in A
        /\ \A f \in Files : s[f] # "none" => VerOf[f] \in V
        /\ tab = Backfilled(A, V, s)
  BY DEF Init
<1> DEFINE B == [v \in Vers |-> IF v \in V THEN Bytes(Avail([file |-> s], v)) ELSE 0]
<1>2. /\ Tables(tab) /\ tab.file = s /\ tab.bytes = B
      /\ tab.art = [a \in Arts |-> IF a \in A THEN "live" ELSE "none"]
      /\ tab.ver = [v \in Vers |-> IF v \in V THEN "live" ELSE "none"]
      /\ tab.stats = [a \in Arts |-> Sums([v \in {u \in V : ArtOf[u] = a} |-> B[v]])]
  BY <1>1 DEF Backfilled, Tables
<1>3. \A v : Avail([file |-> s], v) = Avail(tab, v) /\ Bytes(Avail(tab, v)) \in Int
  <2> TAKE v
  <2>1. Avail([file |-> s], v) = Avail(tab, v) /\ Avail(tab, v) \in SUBSET Files
    BY <1>2 DEF Avail
  <2> QED
    BY <2>1, BytesAssumption
<1>4. tab.bytes \in [Vers -> Int]
  BY <1>2, <1>3
<1> HIDE DEF B
<1>5. /\ mine = [p \in Procs |-> NoRows] /\ locks = [p \in Procs |-> {}]
      /\ req = [p \in Procs |-> Idle] /\ at = [p \in Procs |-> "idle"]
      /\ want = [p \in Procs |-> NoLock] /\ todo = [p \in Procs |-> {}]
      /\ queue = [p \in Procs |-> {}] /\ cur = [p \in Procs |-> None]
      /\ left = MaxRequests /\ faults = MaxFaults
  BY DEF Init
<1>6. TypeOK
  <2>1. /\ tab.art \in [Arts -> States] /\ tab.ver \in [Vers -> States]
        /\ tab.file \in [Files -> {"none", "gone"} \cup Present] /\ DOMAIN tab.stats = Arts
    BY <1>2 DEF States, Present
  <2>2. Rowed(NoRows)
    BY NoRowsFacts DEF Rowed, Partial
  <2>3. Idle \in Requests
    BY DEF Idle, Requests
  <2>4. \A p \in Procs : mine[p] = NoRows /\ locks[p] = {}
    BY <1>5
  <2>5. mine = [p \in Procs |-> mine[p]]
    BY <1>5
  <2> HIDE DEF NoRows, Idle
  <2>6. /\ locks \in [Procs -> SUBSET [row : Rows, mode : Modes]]
        /\ req \in [Procs -> Requests] /\ at \in [Procs -> Stages]
        /\ want \in [Procs -> [row : Rows, mode : Modes] \cup {NoLock}]
        /\ todo \in [Procs -> (SUBSET Vers) \cup (SUBSET Files)]
        /\ queue \in [Procs -> SUBSET Vers] /\ cur \in [Procs -> Vers \cup {None}]
        /\ left \in 0..MaxRequests /\ faults \in 0..MaxFaults
    BY <1>5, <2>3 DEF Stages
  <2> QED
    BY <1>2, <1>4, <2>1, <2>2, <2>4, <2>5, <2>6 DEF TypeOK, Rowed, Stages
<1>7. Drawn
  BY <1>5 DEF Drawn, Idle
<1>8. Referenced
  <2>1. \A v \in Vers : tab.ver[v] # "none" => v \in V
    BY <1>2
  <2>2. \A a \in A : tab.art[a] # "none"
    BY <1>2
  <2>3. \A v \in V : tab.ver[v] # "none"
    BY <1>2
  <2> QED
    BY <1>1, <1>2, <2>1, <2>2, <2>3 DEF Referenced
<1>9. StatsExact
  <2>1. \A v \in Vers : tab.ver[v] = "live" => tab.bytes[v] = Bytes(Avail(tab, v))
    BY <1>2, <1>3 DEF B
  <2>2. ASSUME NEW a \in Arts PROVE tab.stats[a] = Stats(tab, a)
    <3>1. LiveVers(tab, a) = {u \in V : ArtOf[u] = a}
      BY <1>2 DEF LiveVers
    <3>2. [v \in LiveVers(tab, a) |-> tab.bytes[v]] = [v \in {u \in V : ArtOf[u] = a} |-> B[v]]
      BY <1>2, <3>1
    <3> QED
      BY <1>2, <3>2 DEF Stats
  <2> QED
    BY <2>1, <2>2 DEF StatsExact
<1>10. NamesUnique
  BY <1>1, <1>2 DEF NamesUnique
<1>11. ASSUME NEW p \in Procs PROVE PerProc(p)
  <2>1. /\ mine[p] = NoRows /\ locks[p] = {} /\ queue[p] = {} /\ at[p] = "idle" /\ want[p] = NoLock
        /\ req[p].kind = "none"
    BY <1>5 DEF Idle
  <2> USE NoRowsFacts DEF Touched, HoldsU, HoldsX
  <2>2. StageOK(p)
    BY <2>1 DEF StageOK
  <2>3. WritesLocked(p) /\ Once(p)
    BY <2>1 DEF WritesLocked, Once
  <2>4. BytesExact(p) /\ SumsExact(p)
    BY <2>1 DEF BytesExact, SumsExact
  <2>5. NamesLocked(p) /\ LocksOrdered(p)
    BY <2>1 DEF NamesLocked, LocksOrdered
  <2> QED
    BY <2>2, <2>3, <2>4, <2>5 DEF PerProc
<1> QED
  BY <1>6, <1>7, <1>8, <1>9, <1>10, <1>11 DEF CatalogInv, PerProc

LEMMA NextInv == CatalogInv /\ [Next]_vars => CatalogInv'
<1> SUFFICES ASSUME CatalogInv, [Next]_vars PROVE CatalogInv'
  OBVIOUS
<1>1. ASSUME NEW p \in Procs, Step(p) PROVE CatalogInv'
  <2>1. CASE BreakDeadlock(p)
    BY <2>1, InvOf, EndStep DEF BreakDeadlock, GiveUp
  <2> QED
    BY <1>1, <2>1, InsertArtifactStep, InsertVersionStep, WriteFileStep, AddBytesStep, LockArtifactStep,
       RecomputeStatsStep, TakeVersionStep, TakeFileStep, TakeArtifactStep, SweepFileStep, CommitStep
       DEF Step
<1>2. ASSUME NEW p \in Procs, Fail(p) PROVE CatalogInv'
  <2>1. faults' \in 0..MaxFaults
    BY <1>2, InvOf DEF Fail
  <2> QED
    BY <1>2, <2>1, EndStep DEF Fail
<1>3. CASE UNCHANGED vars
  <2>1. TypeOK' /\ Drawn' /\ Referenced' /\ StatsExact' /\ NamesUnique'
    <3>1. TypeOK'
      BY <1>3, Zenon DEF CatalogInv, TypeOK, vars
    <3>2. Drawn' /\ Referenced' /\ StatsExact' /\ NamesUnique'
      BY <1>3 DEF CatalogInv, Drawn, Referenced, StatsExact, NamesUnique, vars
    <3> QED
      BY <3>1, <3>2
  <2>2. ASSUME NEW q \in Procs PROVE PerProc(q)'
    <3>1. PerProc(q)
      BY InvOf
    <3>2. /\ tab' = tab /\ mine'[q] = mine[q] /\ locks'[q] = locks[q] /\ req'[q] = req[q] /\ at'[q] = at[q]
          /\ want'[q] = want[q] /\ todo'[q] = todo[q] /\ queue'[q] = queue[q] /\ cur'[q] = cur[q]
      BY <1>3 DEF vars
    <3> QED
      BY <3>1, <3>2, OthersKeep
  <2> QED
    BY <2>1, <2>2 DEF CatalogInv, PerProc
<1> QED
  BY <1>1, <1>2, <1>3, RequestStep, InsertFileStep DEF Next

\* The invariant the theorems below follow from.
THEOREM CatalogInvariant == Spec => []CatalogInv
<1> QED
  BY InitInv, NextInv, PTL DEF Spec

\* A request that is over has left no lock and no row behind, and no two
\* transactions hold locks that exclude each other, wherever they fail or are
\* cancelled (the rollback on every return).
THEOREM CatalogTypes == Spec => []TypeOK
<1>1. CatalogInv => TypeOK
  BY DEF CatalogInv
<1> QED
  BY <1>1, CatalogInvariant, PTL

\* The statistics of migration 000009 are exact at every commit, whatever requests
\* run at the same time.
THEOREM SizesStayExact == Spec => []StatsExact
<1>1. CatalogInv => StatsExact
  BY DEF CatalogInv
<1> QED
  BY <1>1, CatalogInvariant, PTL

\* No two artifacts ever have the same name (Create).
THEOREM NamesStayUnique == Spec => []NamesUnique
<1>1. CatalogInv => NamesUnique
  BY DEF CatalogInv
<1> QED
  BY <1>1, CatalogInvariant, PTL

\* Whoever an upload waits for waits for nobody in turn, or holds only files.
LEMMA NoCircle == CatalogInv => UploadsNeverStuck
<1> SUFFICES ASSUME CatalogInv, NEW S \in SUBSET Procs, Stuck(S),
                    \A p \in S : req[p].kind \notin {"ver", "delete", "cascade", "sweep"}
             PROVE  FALSE
  BY DEF UploadsNeverStuck
<1>1. \A p \in S : p \in Procs /\ TypeOK /\ PerProc(p)
  BY InvOf
<1>2. \A p \in S : \E q \in S : \E l \in locks[q] : l.row = want[p].row
  BY DEF Stuck, Blocks
\* One that holds a lock another waits for, and waits itself, is at bytes or lock.
<1>3. ASSUME NEW p \in S, NEW l \in locks[p] PROVE at[p] \in {"bytes", "lock"} /\ req[p].kind = "file"
  <2>1. want[p] # NoLock
    <3>1. PICK q \in S : \E m \in locks[q] : m.row = want[p].row
      BY <1>2
    <3>2. PICK m \in locks[q] : m.row = want[p].row
      BY <3>1
    <3>3. m.row \in Rows
      BY <1>1, <3>2 DEF TypeOK
    <3>4. <<"none">> \notin Rows
      BY RowFacts DEF Rows
    <3> QED
      BY <3>2, <3>3, <3>4, LockFacts DEF NoLock
  <2>2. req[p] \in Requests /\ req[p].kind \in {"none", "art", "file"}
    BY <1>1 DEF TypeOK, Requests
  <2>3. at[p] \notin {"idle", "name", "file", "stats", "commit"}
    <3>1. at[p] = "idle" => locks[p] = {}
      BY <1>1 DEF TypeOK
    <3> QED
      BY <1>1, <1>3, <2>1, <3>1 DEF PerProc, StageOK
  <2> QED
    BY <1>1, <2>2, <2>3 DEF PerProc, StageOK
<1>4. \A p \in S : \A l \in locks[p], a \in Arts : l.row # Art(a)
  <2> TAKE p \in S
  <2> TAKE l \in locks[p], a \in Arts
  <2>1. at[p] \in {"bytes", "lock"} /\ req[p].kind = "file"
    BY <1>3
  <2>2. (\E f \in Files : l.row = File(f)) \/ (\E v \in Vers : l.row = Ver(v))
    BY <1>1, <2>1 DEF PerProc, LocksOrdered
  <2> QED
    BY <2>2, RowFacts
<1>5. \A p \in S : at[p] # "lock"
  <2> SUFFICES ASSUME NEW p \in S, at[p] = "lock" PROVE FALSE
    OBVIOUS
  <2>1. cur[p] \in Vers /\ want[p] = Lock(Art(ArtOf[cur[p]]), "update")
    <3>1. queue[p] \in SUBSET Vers
      BY <1>1 DEF TypeOK
    <3> QED
      BY <1>1, <3>1 DEF PerProc, StageOK
  <2>2. ArtOf[cur[p]] \in Arts /\ want[p].row = Art(ArtOf[cur[p]])
    BY <2>1, LockFacts
  <2> QED
    BY <1>2, <1>4, <2>2
<1>6. \A p \in S : \A l \in locks[p], v \in Vers : l.row # Ver(v)
  <2> TAKE p \in S
  <2> TAKE l \in locks[p], v \in Vers
  <2>1. at[p] = "bytes" /\ req[p].kind = "file"
    BY <1>3, <1>5
  <2>2. \E f \in Files : l.row = File(f)
    BY <1>1, <2>1 DEF PerProc, LocksOrdered
  <2> QED
    BY <2>2, RowFacts
<1>7. \A p \in S : locks[p] = {}
  <2> SUFFICES ASSUME NEW p \in S, NEW l \in locks[p] PROVE FALSE
    OBVIOUS
  <2>1. at[p] = "bytes"
    BY <1>3, <1>5
  <2>2. want[p].row = Ver(cur[p]) /\ cur[p] \in Vers
    <3>1. want[p] = Lock(Ver(cur[p]), "nokey") /\ cur[p] = VerOf[req[p].id] /\ req[p].kind = "file"
      BY <1>1, <2>1 DEF PerProc, StageOK
    <3>2. req[p].id \in Files
      BY <1>1, <3>1, ReqOf
    <3> QED
      BY <3>1, <3>2, LockFacts
  <2> QED
    BY <1>2, <1>6, <2>2
<1> QED
  BY <1>2, <1>7 DEF Stuck

\* Uploads, file deletes and artifact creates never deadlock among themselves: the
\* triggers take file, version and artifact in this order.
THEOREM UploadsDoNotDeadlock == Spec => []UploadsNeverStuck
<1> QED
  BY NoCircle, CatalogInvariant, PTL

-----------------------------------------------------------------------------
(* Foreign keys                                                             *)

\* A step of p that leaves the committed tables and the other requests alone.
Local(p) ==
  /\ tab' = tab
  /\ \A q \in Procs : q # p =>
       /\ mine'[q] = mine[q] /\ locks'[q] = locks[q] /\ req'[q] = req[q] /\ at'[q] = at[q]
       /\ todo'[q] = todo[q] /\ queue'[q] = queue[q] /\ cur'[q] = cur[q]

LEMMA LocalCascade ==
  ASSUME CascadeInv, NEW p \in Procs, Local(p), Cascades(p)'
  PROVE  CascadeInv'
<1>1. ParentsLive'
  BY DEF CascadeInv, ParentsLive, Local
<1>2. ASSUME NEW q \in Procs, q # p PROVE Cascades(q)'
  <2>1. Cascades(q)
    BY DEF CascadeInv
  <2>2. /\ tab' = tab /\ mine'[q] = mine[q] /\ locks'[q] = locks[q] /\ req'[q] = req[q] /\ at'[q] = at[q]
        /\ todo'[q] = todo[q] /\ queue'[q] = queue[q] /\ cur'[q] = cur[q]
    BY <1>2 DEF Local
  <2>3. View(q)' = View(q)
    BY <2>2 DEF View
  <2> QED
    BY <2>1, <2>2, <2>3 DEF Cascades, HoldsU
<1> QED
  BY <1>1, <1>2 DEF CascadeInv

LEMMA GotoOf ==
  ASSUME TypeOK, NEW p \in Procs, NEW s, NEW w, NEW t, NEW Q, NEW v, Goto(p, s, w, t, Q, v)
  PROVE  /\ at'[p] = s /\ todo'[p] = t /\ queue'[p] = Q /\ cur'[p] = v
         /\ \A q \in Procs : q # p => at'[q] = at[q] /\ todo'[q] = todo[q] /\ queue'[q] = queue[q] /\ cur'[q] = cur[q]
BY DEF TypeOK, Goto

\* What a step writes and locks for p.
LEMMA RowsOf ==
  ASSUME TypeOK, NEW p \in Procs
  PROVE  /\ \A M : mine' = [mine EXCEPT ![p] = M] =>
              mine'[p] = M /\ \A q \in Procs : q # p => mine'[q] = mine[q]
         /\ \A L : locks' = [locks EXCEPT ![p] = L] =>
              locks'[p] = L /\ \A q \in Procs : q # p => locks'[q] = locks[q]
         /\ \A r : req' = [req EXCEPT ![p] = r] =>
              req'[p] = r /\ \A q \in Procs : q # p => req'[q] = req[q]
BY MineDomain DEF TypeOK

\* A request that has written nothing owes nothing.
LEMMA CleanCascade ==
  ASSUME NEW p \in Procs, DOMAIN mine'[p].art = {} \/ (\A a \in DOMAIN mine'[p].art : mine'[p].art[a] = "live"),
         DOMAIN mine'[p].ver = {}, at'[p] # "cascade", at'[p] = "rows" => req'[p].kind # "ver"
  PROVE  Cascades(p)'
BY DEF Cascades

LEMMA EndCascade ==
  ASSUME CatalogInv, CascadeInv, NEW p \in Procs, End(p), tab' = tab
  PROVE  CascadeInv'
<1>1. TypeOK
  BY DEF CatalogInv
<1>2. /\ mine'[p] = NoRows /\ \A q \in Procs : q # p => mine'[q] = mine[q]
  BY <1>1, RowsOf DEF End
<1>3. \A q \in Procs : q # p => locks'[q] = locks[q] /\ req'[q] = req[q]
  BY <1>1, RowsOf DEF End
<1>4. /\ at'[p] = "idle"
      /\ \A q \in Procs : q # p => at'[q] = at[q] /\ todo'[q] = todo[q] /\ queue'[q] = queue[q] /\ cur'[q] = cur[q]
  BY <1>1, GotoOf DEF End
<1>5. Local(p)
  BY <1>2, <1>3, <1>4 DEF Local
<1>6. Cascades(p)'
  BY <1>2, <1>4, NoRowsFacts, CleanCascade
<1> QED
  BY <1>5, <1>6, LocalCascade

LEMMA BeginCascade ==
  ASSUME CatalogInv, CascadeInv, NEW p \in Procs, NEW r, NEW s, NEW w, NEW t, Begin(p, r, s, w, t),
         s # "cascade", s = "rows" => r.kind # "ver"
  PROVE  CascadeInv'
<1>1. TypeOK /\ at[p] = "idle" /\ mine[p] = NoRows
  BY DEF CatalogInv, TypeOK, Begin
<1>2. req'[p] = r /\ \A q \in Procs : q # p => req'[q] = req[q]
  BY <1>1, RowsOf DEF Begin
<1>3. tab' = tab /\ mine' = mine /\ locks' = locks
  BY DEF Begin
<1>4. /\ at'[p] = s
      /\ \A q \in Procs : q # p => at'[q] = at[q] /\ todo'[q] = todo[q] /\ queue'[q] = queue[q] /\ cur'[q] = cur[q]
  BY <1>1, GotoOf DEF Begin
<1>5. Local(p)
  BY <1>2, <1>3, <1>4 DEF Local
<1>6. Cascades(p)'
  BY <1>1, <1>2, <1>3, <1>4, NoRowsFacts, CleanCascade
<1> QED
  BY <1>5, <1>6, LocalCascade

LEMMA RequestCascade ==
  ASSUME CatalogInv, CascadeInv, NEW p \in Procs, Request(p)
  PROVE  CascadeInv'
<1>1. \E r, s, w, t : Begin(p, r, s, w, t) /\ s # "cascade" /\ (s = "rows" => r.kind # "ver")
  <2>1. ASSUME NEW a \in Arts, CreateArtifact(p, a) \/ DeleteArtifact(p, a)
        PROVE  \E r, s, w, t : Begin(p, r, s, w, t) /\ s \in {"name", "art"}
    BY <2>1 DEF CreateArtifact, DeleteArtifact
  <2>2. ASSUME NEW v \in Vers, CreateVersion(p, v)
        PROVE  \E r, s, w, t : Begin(p, r, s, w, t) /\ s = "fkey"
    BY <2>2 DEF CreateVersion
  <2>3. ASSUME NEW V \in SUBSET Vers, DeleteVersions(p, V)
        PROVE  \E r, s, w, t : Begin(p, r, s, w, t) /\ s = "rows" /\ r.kind = "delete"
    <3>1. PICK v \in V : Begin(p, [kind |-> "delete"], "rows", Lock(Ver(v), "update"), V)
      BY <2>3 DEF DeleteVersions
    <3>2. [kind |-> "delete"].kind = "delete"
      OBVIOUS
    <3> QED
      BY <3>1, <3>2
  <2>4. ASSUME NEW f \in Files, NEW to \in Changes, ChangeFile(p, f, to)
        PROVE  \E r, s, w, t : Begin(p, r, s, w, t) /\ s = "file"
    BY <2>4 DEF ChangeFile
  <2>5. ASSUME NEW F \in SUBSET Files, DeleteIncompleteFiles(p, F)
        PROVE  \E r, s, w, t : Begin(p, r, s, w, t) /\ s = "sweep"
    BY <2>5 DEF DeleteIncompleteFiles
  <2> QED
    BY <2>1, <2>2, <2>3, <2>4, <2>5 DEF Request
<1> QED
  BY <1>1, BeginCascade

LEMMA InsertArtifactCascade ==
  ASSUME CatalogInv, CascadeInv, NEW p \in Procs, InsertArtifact(p)
  PROVE  CascadeInv'
<1>0. PICK a : a = req[p].id
  OBVIOUS
<1>1. TypeOK /\ at[p] = "name" /\ mine[p] = NoRows
  BY InvOf DEF InsertArtifact, PerProc, StageOK
<1> DEFINE N == Write(mine[p], "art", a, "live")
           M == Write(N, "stats", a, Sums(Empty))
<1>2. Tables(N) /\ Wrote(N.art, mine[p].art, a, "live") /\ N.ver = mine[p].ver
  BY <1>1, WroteArt, NoRowsFacts
<1>3. M.art = N.art /\ M.ver = N.ver
  <2> HIDE DEF N
  <2> QED
    BY <1>2, WroteStats
<1>4. DOMAIN M.ver = {} /\ \A b \in DOMAIN M.art : M.art[b] = "live"
  <2> HIDE DEF N, M
  <2> QED
    BY <1>1, <1>2, <1>3, NoRowsFacts DEF Wrote
<1>5. CASE GiveUp(p)
  BY <1>5, EndCascade DEF GiveUp
<1>6. CASE /\ mine' = [mine EXCEPT ![p] = M]
           /\ Take(p, {want[p], Lock(Art(a), "update")})
           /\ Goto(p, "commit", NoLock, {}, {}, None)
           /\ UNCHANGED <<tab, req, left, faults>>
  <2> HIDE DEF M
  <2>1. mine'[p] = M /\ \A q \in Procs : q # p => mine'[q] = mine[q]
    BY <1>1, <1>6, RowsOf
  <2>2. \A q \in Procs : q # p => locks'[q] = locks[q]
    BY <1>1, <1>6, RowsOf DEF Take
  <2>3. /\ at'[p] = "commit"
        /\ \A q \in Procs : q # p => at'[q] = at[q] /\ todo'[q] = todo[q] /\ queue'[q] = queue[q] /\ cur'[q] = cur[q]
    BY <1>1, <1>6, GotoOf
  <2>4. Local(p)
    BY <1>6, <2>1, <2>2, <2>3 DEF Local
  <2>5. Cascades(p)'
    BY <1>4, <2>1, <2>3, CleanCascade
  <2> QED
    BY <2>4, <2>5, LocalCascade
<1> QED
  BY <1>0, <1>5, <1>6 DEF InsertArtifact

\* The new version and the artifact it refers to are locked.
LEMMA InsertVersionCascade ==
  ASSUME CatalogInv, CascadeInv, NEW p \in Procs, InsertVersion(p)
  PROVE  CascadeInv'
<1>0. PICK v : v = req[p].id
  OBVIOUS
<1>1. TypeOK /\ at[p] = "fkey" /\ mine[p] = NoRows /\ want[p] = Lock(Art(ArtOf[v]), "share")
  BY <1>0, InvOf DEF InsertVersion, PerProc, StageOK
<1> DEFINE N == Write(mine[p], "ver", v, "live")
           M == Write(N, "bytes", v, 0)
<1>2. Tables(N) /\ Wrote(N.ver, mine[p].ver, v, "live") /\ N.art = mine[p].art
  BY <1>1, WroteVer, NoRowsFacts
<1>3. M.art = N.art /\ M.ver = N.ver
  <2> HIDE DEF N
  <2> QED
    BY <1>2, WroteBytes
<1>4. DOMAIN M.art = {} /\ DOMAIN M.ver = {v} /\ M.ver[v] = "live"
  <2> HIDE DEF N, M
  <2> QED
    BY <1>1, <1>2, <1>3, NoRowsFacts DEF Wrote
<1>5. CASE GiveUp(p)
  BY <1>5, EndCascade DEF GiveUp
<1>6. CASE /\ tab.art[ArtOf[v]] = "live"
           /\ mine' = [mine EXCEPT ![p] = M]
           /\ Take(p, {want[p], Lock(Ver(v), "update")})
           /\ Goto(p, "lock", Lock(Art(ArtOf[v]), "update"), {}, {v}, v)
           /\ UNCHANGED <<tab, req, left, faults>>
  <2> HIDE DEF M
  <2>1. mine'[p] = M /\ \A q \in Procs : q # p => mine'[q] = mine[q]
    BY <1>1, <1>6, RowsOf
  <2>2. /\ locks'[p] = locks[p] \cup {want[p], Lock(Ver(v), "update")}
        /\ \A q \in Procs : q # p => locks'[q] = locks[q]
    BY <1>1, <1>6, RowsOf DEF Take
  <2>3. /\ at'[p] = "lock" /\ cur'[p] = v
        /\ \A q \in Procs : q # p => at'[q] = at[q] /\ todo'[q] = todo[q] /\ queue'[q] = queue[q] /\ cur'[q] = cur[q]
    BY <1>1, <1>6, GotoOf
  <2>4. Local(p)
    BY <1>6, <2>1, <2>2, <2>3 DEF Local
  <2>5. tab'.art[ArtOf[v]] = "live"
    BY <1>6
  <2>6. Cascades(p)'
    BY <1>1, <1>4, <2>1, <2>2, <2>3, <2>5 DEF Cascades, HoldsU
  <2> QED
    BY <2>4, <2>6, LocalCascade
<1> QED
  BY <1>0, <1>5, <1>6 DEF InsertVersion

\* A step that writes no version and no artifact only has to mind the files.
LEMMA FilesCascade ==
  ASSUME CatalogInv, CascadeInv, NEW p \in Procs, Local(p), req'[p] = req[p],
         mine'[p].art = mine[p].art, mine'[p].ver = mine[p].ver, locks[p] \subseteq locks'[p],
         \A v : FilesOf(View(p)', v) \subseteq FilesOf(View(p), v),
         \A v \in DOMAIN mine[p].ver : v \in queue[p] /\ v \notin queue'[p] /\ mine[p].ver[v] = "gone" =>
           FilesOf(View(p)', v) = {},
         at[p] # "rows", at'[p] # "rows",
         at'[p] = "cascade" => FilesOf(View(p)', cur'[p]) \subseteq todo'[p],
         at'[p] \in {"lock", "stats"} /\ cur'[p] \in DOMAIN mine[p].ver /\ mine[p].ver[cur'[p]] = "gone" =>
           FilesOf(View(p)', cur'[p]) = {}
  PROVE  CascadeInv'
<1>1. Cascades(p) /\ TypeOK /\ Rowed(mine[p])
  BY InvOf DEF CascadeInv
<1>2. tab' = tab
  BY DEF Local
<1>3. \A v \in Vers : View(p)'.ver[v] = View(p).ver[v]
  BY <1>1, <1>2, ViewFacts, ViewAfter
<1>4. \A a : LiveVers(View(p)', a) = LiveVers(View(p), a)
  BY <1>3 DEF LiveVers
<1>5. \A v \in DOMAIN mine'[p].ver :
        /\ HoldsU(p, Ver(v))'
        /\ IF mine'[p].ver[v] = "live"
           THEN Lock(Art(ArtOf[v]), "share") \in locks'[p] /\ tab'.art[ArtOf[v]] = "live"
           ELSE v \in queue'[p] \/ FilesOf(View(p)', v) = {}
  <2> SUFFICES ASSUME NEW v \in DOMAIN mine[p].ver
               PROVE  /\ HoldsU(p, Ver(v))'
                      /\ IF mine[p].ver[v] = "live"
                         THEN Lock(Art(ArtOf[v]), "share") \in locks'[p] /\ tab'.art[ArtOf[v]] = "live"
                         ELSE v \in queue'[p] \/ FilesOf(View(p)', v) = {}
    OBVIOUS
  <2>1. mine[p].ver[v] \in {"live", "gone"}
    BY <1>1 DEF Rowed, Partial
  <2>2. /\ HoldsU(p, Ver(v))
        /\ IF mine[p].ver[v] = "live"
           THEN Lock(Art(ArtOf[v]), "share") \in locks[p] /\ tab.art[ArtOf[v]] = "live"
           ELSE v \in queue[p] \/ FilesOf(View(p), v) = {}
    BY <1>1 DEF Cascades
  <2>3. FilesOf(View(p), v) = {} => FilesOf(View(p)', v) = {}
    OBVIOUS
  <2> QED
    BY <1>2, <2>1, <2>2, <2>3 DEF HoldsU
<1>6. \A a \in DOMAIN mine'[p].art : mine'[p].art[a] = "gone" => LiveVers(View(p)', a) = {}
  BY <1>1, <1>4 DEF Cascades
<1>7. Cascades(p)'
  BY <1>5, <1>6 DEF Cascades
<1> QED
  BY <1>7, LocalCascade

\* Files as p sees them when it writes none, or deletes one.
LEMMA FilesKept ==
  ASSUME TypeOK, NEW p \in Procs, tab' = tab,
         \/ mine'[p].file = mine[p].file
         \/ \E x : Wrote(mine'[p].file, mine[p].file, x, "gone")
  PROVE  \A v : FilesOf(View(p)', v) \subseteq FilesOf(View(p), v)
<1>1. \A f \in Files : /\ View(p).file[f] = IF f \in DOMAIN mine[p].file THEN mine[p].file[f] ELSE tab.file[f]
                       /\ View(p)'.file[f] = IF f \in DOMAIN mine'[p].file THEN mine'[p].file[f] ELSE tab.file[f]
  BY ViewFacts, ViewAfter
<1>2. \A f \in Files : View(p)'.file[f] \in Present => View(p).file[f] \in Present
  <2>1. CASE mine'[p].file = mine[p].file
    BY <1>1, <2>1
  <2>2. ASSUME NEW x, Wrote(mine'[p].file, mine[p].file, x, "gone"), NEW f \in Files, View(p)'.file[f] \in Present
        PROVE  View(p).file[f] \in Present
    <3>1. x \in DOMAIN mine'[p].file /\ mine'[p].file[x] = "gone"
      BY <2>2 DEF Wrote
    <3>2. f # x
      BY <1>1, <2>2, <3>1 DEF Present
    <3> QED
      BY <1>1, <2>2, <3>2 DEF Wrote
  <2> QED
    BY <2>1, <2>2
<1> QED
  BY <1>2 DEF FilesOf

LEMMA WriteFileCascade ==
  ASSUME CatalogInv, CascadeInv, NEW p \in Procs, WriteFile(p)
  PROVE  CascadeInv'
<1>1. TypeOK /\ at[p] = "file" /\ mine[p] = NoRows
  BY InvOf DEF WriteFile, PerProc, StageOK
<1> DEFINE M == Write(mine[p], "file", req[p].id, req[p].to)
<1>2. DOMAIN M.art = {} /\ DOMAIN M.ver = {}
  BY <1>1, WroteFile, NoRowsFacts
<1>3. CASE GiveUp(p)
  BY <1>3, EndCascade DEF GiveUp
<1>4. CASE ~GiveUp(p)
  <2>1. mine' = [mine EXCEPT ![p] = M] /\ Take(p, {want[p]}) /\ UNCHANGED <<tab, req, left, faults>>
    BY <1>4 DEF WriteFile
  <2>2. PICK s, w, v : Goto(p, s, w, {}, {}, v) /\ s \in {"bytes", "commit"}
    BY <1>4 DEF WriteFile
  <2> HIDE DEF M
  <2>3. mine'[p] = M /\ \A q \in Procs : q # p => mine'[q] = mine[q]
    BY <1>1, <2>1, RowsOf
  <2>4. \A q \in Procs : q # p => locks'[q] = locks[q]
    BY <1>1, <2>1, RowsOf DEF Take
  <2>5. /\ at'[p] = s
        /\ \A q \in Procs : q # p => at'[q] = at[q] /\ todo'[q] = todo[q] /\ queue'[q] = queue[q] /\ cur'[q] = cur[q]
    BY <1>1, <2>2, GotoOf
  <2>6. Local(p)
    BY <2>1, <2>3, <2>4, <2>5 DEF Local
  <2>7. Cascades(p)'
    BY <1>2, <2>2, <2>3, <2>5, CleanCascade
  <2> QED
    BY <2>6, <2>7, LocalCascade
<1> QED
  BY <1>3, <1>4

LEMMA AddBytesCascade ==
  ASSUME CatalogInv, CascadeInv, NEW p \in Procs, AddBytes(p)
  PROVE  CascadeInv'
<1>1. TypeOK /\ at[p] = "bytes" /\ mine[p].art = Empty /\ Touched(p) = {} /\ Tables(mine[p])
  BY InvOf DEF AddBytes, PerProc, StageOK, Rowed
<1>2. DOMAIN mine[p].art = {} /\ DOMAIN mine[p].ver = {}
  BY <1>1 DEF Empty, Touched
<1> DEFINE M == Write(mine[p], "bytes", cur[p], tab.bytes[cur[p]] + Delta(p))
<1>3. M.art = mine[p].art /\ M.ver = mine[p].ver
  BY <1>1, WroteBytes
<1>4. UNCHANGED <<tab, req, left, faults>>
  BY DEF AddBytes
<1>5. \E s, w, Q, v : Goto(p, s, w, {}, Q, v) /\ s \in {"lock", "commit"}
  BY DEF AddBytes
<1>6. /\ mine'[p].art = mine[p].art /\ mine'[p].ver = mine[p].ver
      /\ \A q \in Procs : q # p => mine'[q] = mine[q] /\ locks'[q] = locks[q]
  <2>1. CASE mine' = [mine EXCEPT ![p] = M] /\ Take(p, {want[p]})
    <3> HIDE DEF M
    <3>1. mine'[p] = M /\ \A q \in Procs : q # p => mine'[q] = mine[q]
      BY <1>1, <2>1, RowsOf
    <3>2. \A q \in Procs : q # p => locks'[q] = locks[q]
      BY <1>1, <2>1, RowsOf DEF Take
    <3> QED
      BY <1>3, <3>1, <3>2
  <2>2. CASE mine' = mine /\ locks' = locks
    BY <2>2
  <2> QED
    BY <2>1, <2>2 DEF AddBytes
<1>7. PICK s, w, Q, v : Goto(p, s, w, {}, Q, v) /\ s \in {"lock", "commit"}
  BY <1>5
<1>8. /\ at'[p] = s
      /\ \A q \in Procs : q # p => at'[q] = at[q] /\ todo'[q] = todo[q] /\ queue'[q] = queue[q] /\ cur'[q] = cur[q]
  BY <1>1, <1>7, GotoOf
<1>9. Local(p)
  BY <1>4, <1>6, <1>8 DEF Local
<1>10. Cascades(p)'
  BY <1>2, <1>6, <1>7, <1>8, CleanCascade
<1> QED
  BY <1>9, <1>10, LocalCascade

LEMMA LockArtifactCascade ==
  ASSUME CatalogInv, CascadeInv, NEW p \in Procs, LockArtifact(p)
  PROVE  CascadeInv'
<1>1. TypeOK /\ Cascades(p) /\ at[p] = "lock"
  BY InvOf DEF LockArtifact, CascadeInv
<1>2. UNCHANGED <<tab, mine, req, left, faults>> /\ Goto(p, "stats", NoLock, {}, queue[p], cur[p])
  BY DEF LockArtifact
<1>3. locks[p] \subseteq locks'[p] /\ \A q \in Procs : q # p => locks'[q] = locks[q]
  <2>1. CASE Take(p, {want[p]})
    BY <1>1, <2>1, RowsOf DEF Take
  <2>2. CASE locks' = locks
    BY <2>2
  <2> QED
    BY <2>1, <2>2 DEF LockArtifact
<1>4. /\ at'[p] = "stats" /\ queue'[p] = queue[p] /\ cur'[p] = cur[p]
      /\ \A q \in Procs : q # p => at'[q] = at[q] /\ todo'[q] = todo[q] /\ queue'[q] = queue[q] /\ cur'[q] = cur[q]
  BY <1>1, <1>2, GotoOf
<1>5. Local(p)
  BY <1>2, <1>3, <1>4 DEF Local
<1>6. \A v : FilesOf(View(p)', v) \subseteq FilesOf(View(p), v)
  BY <1>1, <1>2, FilesKept
<1>7. cur'[p] \in DOMAIN mine[p].ver /\ mine[p].ver[cur'[p]] = "gone" => FilesOf(View(p)', cur'[p]) = {}
  <2>1. cur[p] \in DOMAIN mine[p].ver /\ mine[p].ver[cur[p]] = "gone" => FilesOf(View(p), cur[p]) = {}
    BY <1>1 DEF Cascades
  <2> QED
    BY <1>4, <1>6, <2>1
<1> QED
  BY <1>1, <1>2, <1>3, <1>4, <1>5, <1>6, <1>7, FilesCascade

\* The files of the version whose triggers run next are all before the cascade.
LEMMA TriggerFiles ==
  ASSUME TypeOK, NEW p \in Procs, NEW T, NEW Q, NextTrigger(p, T, Q)
  PROVE  /\ queue'[p] = Q /\ at'[p] \in {"commit", "lock", "cascade"}
         /\ at'[p] = "cascade" => todo'[p] = FilesOf(T, cur'[p])
         /\ at'[p] = "lock" => FilesOf(T, cur'[p]) = {}
         /\ \A q \in Procs : q # p => at'[q] = at[q] /\ todo'[q] = todo[q] /\ queue'[q] = queue[q] /\ cur'[q] = cur[q]
<1>1. CASE Q = {} /\ Goto(p, "commit", NoLock, {}, {}, None)
  BY <1>1, GotoOf
<1>2. ASSUME NEW v \in Q, FilesOf(T, v) = {}, Goto(p, "lock", Lock(Art(ArtOf[v]), "update"), {}, Q, v)
      PROVE  /\ queue'[p] = Q /\ at'[p] = "lock" /\ FilesOf(T, cur'[p]) = {}
             /\ \A q \in Procs : q # p => at'[q] = at[q] /\ todo'[q] = todo[q] /\ queue'[q] = queue[q] /\ cur'[q] = cur[q]
  BY <1>2, GotoOf
<1>3. ASSUME NEW v \in Q, NEW f, Goto(p, "cascade", Lock(File(f), "update"), FilesOf(T, v), Q, v)
      PROVE  /\ queue'[p] = Q /\ at'[p] = "cascade" /\ todo'[p] = FilesOf(T, cur'[p])
             /\ \A q \in Procs : q # p => at'[q] = at[q] /\ todo'[q] = todo[q] /\ queue'[q] = queue[q] /\ cur'[q] = cur[q]
  BY <1>3, GotoOf
<1> QED
  BY <1>1, <1>2, <1>3 DEF NextTrigger

LEMMA RecomputeStatsCascade ==
  ASSUME CatalogInv, CascadeInv, NEW p \in Procs, RecomputeStats(p)
  PROVE  CascadeInv'
<1>0. PICK a : a = ArtOf[cur[p]]
  OBVIOUS
<1>1. TypeOK /\ Cascades(p) /\ at[p] = "stats" /\ Tables(mine[p])
  BY InvOf DEF RecomputeStats, CascadeInv, Rowed
<1>2. tab' = tab /\ locks' = locks /\ req' = req
  BY DEF RecomputeStats
<1>3. /\ mine'[p].art = mine[p].art /\ mine'[p].ver = mine[p].ver /\ mine'[p].file = mine[p].file
      /\ \A q \in Procs : q # p => mine'[q] = mine[q]
  <2> DEFINE M == Write(mine[p], "stats", a, Stats(View(p), a))
  <2>1. M.art = mine[p].art /\ M.ver = mine[p].ver /\ M.file = mine[p].file
    BY <1>1, WroteStats
  <2>2. CASE mine' = [mine EXCEPT ![p] = M]
    <3> HIDE DEF M
    <3>1. mine'[p] = M /\ \A q \in Procs : q # p => mine'[q] = mine[q]
      BY <1>1, <2>2, RowsOf
    <3> QED
      BY <2>1, <3>1
  <2>3. CASE mine' = mine
    BY <2>3
  <2> QED
    BY <1>0, <2>2, <2>3 DEF RecomputeStats
<1>4. NextTrigger(p, View(p), queue[p] \ {cur[p]})
  BY DEF RecomputeStats
<1>5. /\ queue'[p] = queue[p] \ {cur[p]} /\ at'[p] \in {"commit", "lock", "cascade"}
      /\ at'[p] = "cascade" => todo'[p] = FilesOf(View(p), cur'[p])
      /\ at'[p] = "lock" => FilesOf(View(p), cur'[p]) = {}
      /\ \A q \in Procs : q # p => at'[q] = at[q] /\ todo'[q] = todo[q] /\ queue'[q] = queue[q] /\ cur'[q] = cur[q]
  BY <1>1, <1>4, TriggerFiles
<1>6. Local(p)
  BY <1>2, <1>3, <1>5 DEF Local
<1>7. \A v : FilesOf(View(p)', v) \subseteq FilesOf(View(p), v)
  BY <1>1, <1>2, <1>3, FilesKept
<1>8. \A v \in DOMAIN mine[p].ver : v \in queue[p] /\ v \notin queue'[p] /\ mine[p].ver[v] = "gone" =>
        FilesOf(View(p)', v) = {}
  <2>1. cur[p] \in DOMAIN mine[p].ver /\ mine[p].ver[cur[p]] = "gone" => FilesOf(View(p), cur[p]) = {}
    BY <1>1 DEF Cascades
  <2> QED
    BY <1>5, <1>7, <2>1
<1>9. /\ at'[p] = "cascade" => FilesOf(View(p)', cur'[p]) \subseteq todo'[p]
      /\ at'[p] = "lock" => FilesOf(View(p)', cur'[p]) = {}
  BY <1>5, <1>7
<1>10. at[p] # "rows" /\ at'[p] # "rows" /\ at'[p] # "stats" /\ req'[p] = req[p] /\ locks[p] \subseteq locks'[p]
  BY <1>1, <1>2, <1>5
<1> QED
  BY <1>3, <1>6, <1>7, <1>8, <1>9, <1>10, FilesCascade

\* A file that p takes, or finds gone, is there no more for p.
LEMMA TakenGone ==
  ASSUME CatalogInv, NEW p \in Procs, NEW x \in Files, NEW ok, NEW M, NEW L, FileTaken(p, x, ok, M, L),
         tab' = tab, ~ok => tab.file[x] \notin Present
  PROVE  /\ mine'[p] = M /\ locks'[p] = L
         /\ \A q \in Procs : q # p => mine'[q] = mine[q] /\ locks'[q] = locks[q]
         /\ \A v : FilesOf(View(p)', v) \subseteq FilesOf(View(p), v) \ {x}
<1>1. TypeOK /\ PerProc(p) /\ Rowed(mine[p])
  BY InvOf
<1>2. mine'[p] = M /\ \A q \in Procs : q # p => mine'[q] = mine[q]
  BY <1>1, RowsOf DEF FileTaken
<1>3. locks'[p] = L /\ \A q \in Procs : q # p => locks'[q] = locks[q]
  BY <1>1, RowsOf DEF FileTaken
<1>4. \A v : FilesOf(View(p)', v) \subseteq FilesOf(View(p), v)
  <2>1. M.file = mine[p].file \/ \E y : Wrote(M.file, mine[p].file, y, "gone")
    BY DEF FileTaken
  <2> QED
    BY <1>1, <1>2, <2>1, FilesKept
<1>5. View(p)'.file[x] \notin Present
  <2>1. View(p)'.file[x] = IF x \in DOMAIN mine'[p].file THEN mine'[p].file[x] ELSE tab.file[x]
    BY <1>1, ViewAfter
  <2>2. CASE ok
    <3>1. x \in DOMAIN M.file /\ M.file[x] = "gone"
      BY <2>2 DEF FileTaken, Wrote
    <3> QED
      BY <1>2, <2>1, <3>1 DEF Present
  <2>3. CASE ~ok
    <3>1. M.file = mine[p].file
      BY <2>3 DEF FileTaken
    <3>2. x \notin DOMAIN mine[p].file
      BY <1>1, <2>3 DEF PerProc, Once
    <3> QED
      BY <1>2, <2>1, <2>3, <3>1, <3>2
  <2> QED
    BY <2>2, <2>3
<1>6. \A v : x \notin FilesOf(View(p)', v)
  BY <1>5 DEF FilesOf
<1> QED
  BY <1>2, <1>3, <1>4, <1>6

LEMMA TakeFileCascade ==
  ASSUME CatalogInv, CascadeInv, NEW p \in Procs, TakeFile(p)
  PROVE  CascadeInv'
<1>0. PICK x \in todo[p] :
        LET rest == todo[p] \ {x}
        IN  /\ want[p].row = File(x)
            /\ IF tab.file[x] \in Present
               THEN /\ mine' = [mine EXCEPT ![p] = Write(@, "file", x, "gone")]
                    /\ Take(p, {want[p]})
               ELSE UNCHANGED <<mine, locks>>
            /\ \/ rest = {} /\ Goto(p, "lock", Lock(Art(ArtOf[cur[p]]), "update"), {}, queue[p], cur[p])
               \/ \E g \in rest : Goto(p, "cascade", Lock(File(g), "update"), rest, queue[p], cur[p])
  BY Zenon DEF TakeFile
<1>1. TypeOK /\ PerProc(p) /\ Cascades(p) /\ at[p] = "cascade"
  BY InvOf DEF TakeFile, CascadeInv
<1>2. x \in Files /\ want[p] = Lock(File(x), "update")
  <2>1. \E r \in Rows : want[p] = Lock(r, "update")
    BY <1>1 DEF PerProc, StageOK
  <2>2. want[p] = Lock(File(x), "update")
    BY <1>0, <2>1, LockFacts
  <2> QED
    BY <1>1, <2>2 DEF PerProc, StageOK
<1>3. PICK ok \in BOOLEAN : ok <=> tab.file[x] \in Present
  OBVIOUS
<1>4. PICK M, L : FileTaken(p, x, ok, M, L)
  <2>1. IF ok
        THEN /\ mine' = [mine EXCEPT ![p] = Write(@, "file", x, "gone")]
             /\ Take(p, {want[p]})
        ELSE UNCHANGED <<mine, locks>>
    BY <1>0, <1>3, Zenon
  <2> QED
    BY <1>1, <1>2, <2>1, FileTakes
<1>5. tab' = tab /\ req' = req
  BY DEF TakeFile
<1>6. /\ mine'[p] = M /\ locks'[p] = L
      /\ \A q \in Procs : q # p => mine'[q] = mine[q] /\ locks'[q] = locks[q]
      /\ \A v : FilesOf(View(p)', v) \subseteq FilesOf(View(p), v) \ {x}
  BY <1>2, <1>3, <1>4, <1>5, TakenGone
<1>7. /\ queue'[p] = queue[p] /\ cur'[p] = cur[p]
      /\ \/ at'[p] = "lock" /\ todo[p] \ {x} = {}
         \/ at'[p] = "cascade" /\ todo'[p] = todo[p] \ {x}
      /\ \A q \in Procs : q # p => at'[q] = at[q] /\ todo'[q] = todo[q] /\ queue'[q] = queue[q] /\ cur'[q] = cur[q]
  <2>1. CASE todo[p] \ {x} = {} /\ Goto(p, "lock", Lock(Art(ArtOf[cur[p]]), "update"), {}, queue[p], cur[p])
    BY <1>1, <2>1, GotoOf
  <2>2. ASSUME NEW g, Goto(p, "cascade", Lock(File(g), "update"), todo[p] \ {x}, queue[p], cur[p])
        PROVE  /\ queue'[p] = queue[p] /\ cur'[p] = cur[p] /\ at'[p] = "cascade" /\ todo'[p] = todo[p] \ {x}
               /\ \A q \in Procs : q # p => at'[q] = at[q] /\ todo'[q] = todo[q] /\ queue'[q] = queue[q] /\ cur'[q] = cur[q]
    BY <1>1, <2>2, GotoOf
  <2> QED
    BY <1>0, <2>1, <2>2
<1>8. Local(p)
  BY <1>5, <1>6, <1>7 DEF Local
<1>9. FilesOf(View(p)', cur'[p]) \subseteq todo[p] \ {x}
  <2>1. FilesOf(View(p), cur[p]) \subseteq todo[p]
    BY <1>1 DEF Cascades
  <2> QED
    BY <1>6, <1>7, <2>1
<1>10. M.art = mine[p].art /\ M.ver = mine[p].ver /\ locks[p] \subseteq L
  BY <1>4 DEF FileTaken
<1>11. \A v : FilesOf(View(p)', v) \subseteq FilesOf(View(p), v)
  BY <1>6
<1> QED
  BY <1>1, <1>5, <1>6, <1>7, <1>8, <1>9, <1>10, <1>11, FilesCascade

LEMMA SweepFileCascade ==
  ASSUME CatalogInv, CascadeInv, NEW p \in Procs, SweepFile(p)
  PROVE  CascadeInv'
<1>0. PICK x \in todo[p] :
        LET rest == todo[p] \ {x}
        IN  /\ want[p].row = File(x)
            /\ IF tab.file[x] \in {"PENDING", "ERROR"}
               THEN /\ mine' = [mine EXCEPT ![p] = Write(@, "file", x, "gone")]
                    /\ Take(p, {want[p]})
               ELSE UNCHANGED <<mine, locks>>
            /\ \/ rest = {} /\ Goto(p, "commit", NoLock, {}, {}, None)
               \/ \E g \in rest : Goto(p, "sweep", Lock(File(g), "update"), rest, {}, None)
  BY Zenon DEF SweepFile
<1>1. TypeOK /\ PerProc(p) /\ Tables(mine[p]) /\ at[p] = "sweep" /\ queue[p] = {}
  BY InvOf DEF SweepFile, PerProc, StageOK, Rowed
<1>2. tab' = tab /\ req' = req
  BY DEF SweepFile
<1>3. /\ mine'[p].art = mine[p].art /\ mine'[p].ver = mine[p].ver /\ locks[p] \subseteq locks'[p]
      /\ mine'[p].file = mine[p].file \/ Wrote(mine'[p].file, mine[p].file, x, "gone")
      /\ \A q \in Procs : q # p => mine'[q] = mine[q] /\ locks'[q] = locks[q]
  <2>1. CASE mine' = [mine EXCEPT ![p] = Write(mine[p], "file", x, "gone")] /\ Take(p, {want[p]})
    <3> DEFINE M == Write(mine[p], "file", x, "gone")
    <3>1. M.art = mine[p].art /\ M.ver = mine[p].ver /\ Wrote(M.file, mine[p].file, x, "gone")
      BY <1>1, WroteFile
    <3>2. mine' = [mine EXCEPT ![p] = M]
      BY <2>1
    <3> HIDE DEF M
    <3>3. mine'[p] = M /\ \A q \in Procs : q # p => mine'[q] = mine[q]
      BY <1>1, <3>2, RowsOf
    <3>4. locks[p] \subseteq locks'[p] /\ \A q \in Procs : q # p => locks'[q] = locks[q]
      BY <1>1, <2>1, RowsOf DEF Take
    <3> QED
      BY <3>1, <3>3, <3>4
  <2>2. CASE mine' = mine /\ locks' = locks
    BY <2>2
  <2> QED
    BY <1>0, <2>1, <2>2
<1>4. /\ at'[p] \in {"commit", "sweep"}
      /\ \A q \in Procs : q # p => at'[q] = at[q] /\ todo'[q] = todo[q] /\ queue'[q] = queue[q] /\ cur'[q] = cur[q]
  <2>1. CASE Goto(p, "commit", NoLock, {}, {}, None)
    BY <1>1, <2>1, GotoOf
  <2>2. ASSUME NEW g, Goto(p, "sweep", Lock(File(g), "update"), todo[p] \ {x}, {}, None)
        PROVE  /\ at'[p] = "sweep"
               /\ \A q \in Procs : q # p => at'[q] = at[q] /\ todo'[q] = todo[q] /\ queue'[q] = queue[q] /\ cur'[q] = cur[q]
    BY <1>1, <2>2, GotoOf
  <2> QED
    BY <1>0, <2>1, <2>2
<1>5. Local(p)
  BY <1>2, <1>3, <1>4 DEF Local
<1>6. \A v : FilesOf(View(p)', v) \subseteq FilesOf(View(p), v)
  BY <1>1, <1>2, <1>3, FilesKept
<1> QED
  BY <1>1, <1>2, <1>3, <1>4, <1>5, <1>6, FilesCascade

LEMMA TakeArtifactCascade ==
  ASSUME CatalogInv, CascadeInv, NEW p \in Procs, TakeArtifact(p)
  PROVE  CascadeInv'
<1>0. PICK a : a = req[p].id
  OBVIOUS
<1>1. TypeOK /\ at[p] = "art" /\ mine[p] = NoRows /\ req[p].kind = "cascade"
  BY InvOf DEF TakeArtifact, PerProc, StageOK
<1> DEFINE M == Write(mine[p], "art", a, "gone")
           V == LiveVers(tab, a)
<1>2. DOMAIN M.art = {a} /\ DOMAIN M.ver = {}
  BY <1>1, WroteArt, NoRowsFacts DEF Wrote
<1>3. CASE GiveUp(p)
  BY <1>3, EndCascade DEF GiveUp
<1>4. CASE /\ mine' = [mine EXCEPT ![p] = M]
           /\ Take(p, {want[p], Lock(Name(NameOf[a]), "update")})
           /\ \/ V = {} /\ Goto(p, "commit", NoLock, {}, {}, None)
              \/ \E v \in V : Goto(p, "rows", Lock(Ver(v), "update"), V, {}, None)
           /\ UNCHANGED <<tab, req, left, faults>>
  <2> HIDE DEF M
  <2>1. mine'[p] = M /\ \A q \in Procs : q # p => mine'[q] = mine[q]
    BY <1>1, <1>4, RowsOf
  <2>2. \A q \in Procs : q # p => locks'[q] = locks[q]
    BY <1>1, <1>4, RowsOf DEF Take
  <2>3. /\ \/ at'[p] = "commit" /\ V = {}
           \/ at'[p] = "rows" /\ todo'[p] = V
        /\ \A q \in Procs : q # p => at'[q] = at[q] /\ todo'[q] = todo[q] /\ queue'[q] = queue[q] /\ cur'[q] = cur[q]
    <3> HIDE DEF V
    <3>1. CASE V = {} /\ Goto(p, "commit", NoLock, {}, {}, None)
      BY <1>1, <3>1, GotoOf
    <3>2. ASSUME NEW v, Goto(p, "rows", Lock(Ver(v), "update"), V, {}, None)
          PROVE  /\ at'[p] = "rows" /\ todo'[p] = V
                 /\ \A q \in Procs : q # p => at'[q] = at[q] /\ todo'[q] = todo[q] /\ queue'[q] = queue[q] /\ cur'[q] = cur[q]
      BY <1>1, <3>2, GotoOf
    <3> QED
      BY <1>4, <3>1, <3>2
  <2>4. tab' = tab /\ req' = req
    BY <1>4
  <2>5. Local(p)
    BY <2>1, <2>2, <2>3, <2>4 DEF Local
  <2>6. LiveVers(View(p)', a) = V
    <3>1. \A v \in Vers : View(p)'.ver[v] = tab.ver[v]
      BY <1>1, <1>2, <2>1, <2>4, ViewAfter
    <3> QED
      BY <3>1 DEF LiveVers
  <2> HIDE DEF V
  <2>7. Cascades(p)'
    BY <1>1, <1>2, <2>1, <2>3, <2>4, <2>6 DEF Cascades
  <2> QED
    BY <2>5, <2>7, LocalCascade
<1> QED
  BY <1>0, <1>3, <1>4 DEF TakeArtifact

LEMMA TakeVersionCascade ==
  ASSUME CatalogInv, CascadeInv, NEW p \in Procs, TakeVersion(p)
  PROVE  CascadeInv'
<1>0. PICK x \in todo[p] :
        LET rest == todo[p] \ {x}
            Q    == IF tab.ver[x] = "live" THEN queue[p] \cup {x} ELSE queue[p]
        IN  /\ want[p].row = Ver(x)
            /\ IF tab.ver[x] = "live"
               THEN /\ mine' = [mine EXCEPT ![p] = Write(@, "ver", x, "gone")]
                    /\ Take(p, {want[p]})
               ELSE UNCHANGED <<mine, locks>>
            /\ \/ rest = {} /\ NextTrigger(p, View(p), Q)
               \/ \E w \in rest : Goto(p, "rows", Lock(Ver(w), "update"), rest, Q, None)
  BY Zenon DEF TakeVersion
<1> DEFINE Q == IF tab.ver[x] = "live" THEN queue[p] \cup {x} ELSE queue[p]
<1>1. TypeOK /\ PerProc(p) /\ Cascades(p) /\ Rowed(mine[p]) /\ at[p] = "rows"
  BY InvOf DEF TakeVersion, CascadeInv
<1>2. x \in Vers /\ want[p] = Lock(Ver(x), "update")
  <2>1. \E r \in Rows : want[p] = Lock(r, "update")
    BY <1>1 DEF PerProc, StageOK
  <2>2. want[p] = Lock(Ver(x), "update")
    BY <1>0, <2>1, LockFacts
  <2> QED
    BY <1>1, <2>2 DEF PerProc, StageOK
<1>3. tab' = tab /\ req' = req
  BY DEF TakeVersion
<1>4. /\ mine'[p].art = mine[p].art /\ mine'[p].file = mine[p].file
      /\ locks[p] \subseteq locks'[p]
      /\ \A q \in Procs : q # p => mine'[q] = mine[q] /\ locks'[q] = locks[q]
      /\ tab.ver[x] = "live" =>
           Wrote(mine'[p].ver, mine[p].ver, x, "gone") /\ Lock(Ver(x), "update") \in locks'[p]
      /\ tab.ver[x] # "live" => mine'[p].ver = mine[p].ver
  <2>1. CASE tab.ver[x] = "live"
    <3> DEFINE M == Write(mine[p], "ver", x, "gone")
    <3>1. M.art = mine[p].art /\ M.file = mine[p].file /\ Wrote(M.ver, mine[p].ver, x, "gone")
      BY <1>1, WroteVer DEF Rowed
    <3>2. mine' = [mine EXCEPT ![p] = M] /\ Take(p, {want[p]})
      BY <1>0, <2>1
    <3> HIDE DEF M
    <3>3. mine'[p] = M /\ \A q \in Procs : q # p => mine'[q] = mine[q]
      BY <1>1, <3>2, RowsOf
    <3>4. locks'[p] = locks[p] \cup {want[p]} /\ \A q \in Procs : q # p => locks'[q] = locks[q]
      BY <1>1, <3>2, RowsOf DEF Take
    <3> QED
      BY <1>2, <2>1, <3>1, <3>3, <3>4
  <2>2. CASE tab.ver[x] # "live"
    <3>1. mine' = mine /\ locks' = locks
      BY <1>0, <2>2
    <3> QED
      BY <2>2, <3>1
  <2> QED
    BY <2>1, <2>2
<1> HIDE DEF Q
<1>5. /\ queue'[p] = Q
      /\ \/ at'[p] = "rows" /\ todo'[p] = todo[p] \ {x}
         \/ /\ todo[p] \ {x} = {} /\ at'[p] \in {"commit", "lock", "cascade"}
            /\ at'[p] = "cascade" => todo'[p] = FilesOf(View(p), cur'[p])
            /\ at'[p] = "lock" => FilesOf(View(p), cur'[p]) = {}
      /\ \A q \in Procs : q # p => at'[q] = at[q] /\ todo'[q] = todo[q] /\ queue'[q] = queue[q] /\ cur'[q] = cur[q]
  <2>1. CASE todo[p] \ {x} = {} /\ NextTrigger(p, View(p), Q)
    BY <1>1, <2>1, TriggerFiles
  <2>2. ASSUME NEW w, Goto(p, "rows", Lock(Ver(w), "update"), todo[p] \ {x}, Q, None)
        PROVE  /\ queue'[p] = Q /\ at'[p] = "rows" /\ todo'[p] = todo[p] \ {x}
               /\ \A q \in Procs : q # p => at'[q] = at[q] /\ todo'[q] = todo[q] /\ queue'[q] = queue[q] /\ cur'[q] = cur[q]
    BY <1>1, <2>2, GotoOf
  <2>3. \/ todo[p] \ {x} = {} /\ NextTrigger(p, View(p), Q)
        \/ \E w \in todo[p] \ {x} : Goto(p, "rows", Lock(Ver(w), "update"), todo[p] \ {x}, Q, None)
    BY <1>0 DEF Q
  <2> QED
    BY <2>1, <2>2, <2>3
<1>6. Local(p)
  BY <1>3, <1>4, <1>5 DEF Local
<1>7. \A v : FilesOf(View(p)', v) \subseteq FilesOf(View(p), v)
  BY <1>1, <1>3, <1>4, FilesKept
<1>8. queue[p] \subseteq Q /\ (tab.ver[x] = "live" => x \in Q)
  BY DEF Q
<1>9. ASSUME NEW v \in DOMAIN mine'[p].ver
      PROVE  /\ HoldsU(p, Ver(v))'
             /\ IF mine'[p].ver[v] = "live"
                THEN Lock(Art(ArtOf[v]), "share") \in locks'[p] /\ tab'.art[ArtOf[v]] = "live"
                ELSE v \in queue'[p] \/ FilesOf(View(p)', v) = {}
  <2>1. CASE tab.ver[x] = "live" /\ v = x
    BY <1>4, <1>5, <1>8, <2>1 DEF Wrote, HoldsU
  <2>2. CASE ~(tab.ver[x] = "live" /\ v = x)
    <3>1. v \in DOMAIN mine[p].ver /\ mine'[p].ver[v] = mine[p].ver[v]
      BY <1>4, <1>9, <2>2 DEF Wrote
    <3>2. /\ Lock(Ver(v), "update") \in locks[p]
          /\ IF mine[p].ver[v] = "live"
             THEN Lock(Art(ArtOf[v]), "share") \in locks[p] /\ tab.art[ArtOf[v]] = "live"
             ELSE v \in queue[p] \/ FilesOf(View(p), v) = {}
      BY <1>1, <3>1 DEF Cascades, HoldsU
    <3>3. FilesOf(View(p), v) = {} => FilesOf(View(p)', v) = {}
      BY <1>7
    <3> QED
      BY <1>3, <1>4, <1>5, <1>8, <3>1, <3>2, <3>3 DEF HoldsU
  <2> QED
    BY <2>1, <2>2
<1>10. ASSUME NEW a \in DOMAIN mine'[p].art, mine'[p].art[a] = "gone", NEW v \in LiveVers(View(p)', a)
       PROVE  at'[p] = "rows" /\ v \in todo'[p]
  <2>1. v \in Vers /\ ArtOf[v] = a /\ View(p)'.ver[v] = "live"
    BY <1>10 DEF LiveVers
  <2>2. /\ View(p)'.ver[v] = IF v \in DOMAIN mine'[p].ver THEN mine'[p].ver[v] ELSE tab.ver[v]
        /\ View(p).ver[v] = IF v \in DOMAIN mine[p].ver THEN mine[p].ver[v] ELSE tab.ver[v]
    BY <1>1, <1>3, <2>1, ViewFacts, ViewAfter
  <2>3. v # x /\ View(p).ver[v] = "live"
    <3>1. CASE tab.ver[x] = "live"
      <4>1. Wrote(mine'[p].ver, mine[p].ver, x, "gone")
        BY <1>4, <3>1
      <4>2. v # x
        BY <2>1, <2>2, <4>1 DEF Wrote
      <4> QED
        BY <2>1, <2>2, <4>1, <4>2 DEF Wrote
    <3>2. CASE tab.ver[x] # "live"
      <4>1. View(p).ver[v] = "live"
        BY <1>4, <2>1, <2>2, <3>2
      <4>2. ASSUME v = x PROVE FALSE
        <5>1. v \in DOMAIN mine[p].ver /\ mine[p].ver[v] = "live"
          BY <2>2, <3>2, <4>1, <4>2
        <5>2. req[p] = [kind |-> "ver", id |-> v]
          BY <1>1, <5>1 DEF PerProc, Once
        <5>3. req[p].kind = "ver"
          BY <5>2
        <5> QED
          BY <1>1, <5>3 DEF Cascades
      <4> QED
        BY <4>1, <4>2
    <3> QED
      BY <3>1, <3>2
  <2>4. v \in LiveVers(View(p), a)
    BY <2>1, <2>3 DEF LiveVers
  <2>5. v \in todo[p]
    BY <1>1, <1>4, <1>10, <2>4 DEF Cascades
  <2> QED
    BY <1>5, <2>3, <2>5
<1>11. /\ at'[p] = "cascade" => FilesOf(View(p)', cur'[p]) \subseteq todo'[p]
       /\ at'[p] = "lock" => FilesOf(View(p)', cur'[p]) = {}
       /\ at'[p] # "stats"
  BY <1>5, <1>7
<1>12. req'[p].kind # "ver"
  BY <1>1, <1>3 DEF Cascades
<1>13. Cascades(p)'
  BY <1>9, <1>10, <1>11, <1>12 DEF Cascades
<1> QED
  BY <1>6, <1>13, LocalCascade

\* The rows p leaves when it commits have the rows they refer to.
LEMMA CommitParents ==
  ASSUME CatalogInv, CascadeInv, NEW p \in Procs, Commit(p)
  PROVE  ParentsLive'
<1>1. TypeOK /\ PerProc(p) /\ Cascades(p) /\ Rowed(mine[p]) /\ ParentsLive
  BY InvOf DEF CascadeInv
<1>2. tab' = View(p) /\ at[p] = "commit" /\ queue[p] = {}
  BY <1>1 DEF Commit, PerProc, StageOK
<1>3. /\ \A a \in Arts : tab'.art[a] = IF a \in DOMAIN mine[p].art THEN mine[p].art[a] ELSE tab.art[a]
      /\ \A v \in Vers : tab'.ver[v] = IF v \in DOMAIN mine[p].ver THEN mine[p].ver[v] ELSE tab.ver[v]
      /\ \A f \in Files : tab'.file[f] = IF f \in DOMAIN mine[p].file THEN mine[p].file[f] ELSE tab.file[f]
  BY <1>1, <1>2, ViewFacts
<1>4. ASSUME NEW v \in Vers, tab'.ver[v] = "live" PROVE tab'.art[ArtOf[v]] = "live"
  <2>1. ArtOf[v] \in Arts /\ tab.art[ArtOf[v]] = "live"
    BY <1>1, <1>3, <1>4 DEF Cascades, ParentsLive
  <2>2. v \in LiveVers(View(p), ArtOf[v])
    BY <1>2, <1>4 DEF LiveVers
  <2>3. ArtOf[v] \in DOMAIN mine[p].art => mine[p].art[ArtOf[v]] = "live"
    <3>1. ArtOf[v] \in DOMAIN mine[p].art => mine[p].art[ArtOf[v]] \in {"live", "gone"}
      BY <1>1 DEF Rowed, Partial
    <3> QED
      BY <1>1, <1>2, <2>2, <3>1 DEF Cascades
  <2> QED
    BY <1>3, <2>1, <2>3
<1>5. ASSUME NEW f \in Files, tab'.file[f] \in Present PROVE tab'.ver[VerOf[f]] = "live"
  <2> DEFINE v == VerOf[f]
  <2>1. v \in Vers /\ f \in FilesOf(View(p), v)
    BY <1>2, <1>5 DEF FilesOf
  <2>2. tab.file[f] \in Present
    BY <1>1, <1>3, <1>5 DEF PerProc, Once
  <2>3. tab.ver[v] = "live"
    BY <1>1, <2>2 DEF ParentsLive
  <2>4. v \in DOMAIN mine[p].ver => mine[p].ver[v] = "live"
    <3> HIDE DEF v
    <3>1. v \in DOMAIN mine[p].ver /\ mine[p].ver[v] # "live" => v \in queue[p] \/ FilesOf(View(p), v) = {}
      BY <1>1 DEF Cascades
    <3> QED
      BY <1>2, <2>1, <3>1
  <2> QED
    BY <1>3, <2>1, <2>3, <2>4
<1> QED
  BY <1>4, <1>5 DEF ParentsLive

LEMMA LocksExclude ==
  ASSUME TypeOK, NEW p \in Procs, NEW q \in Procs, p # q, NEW r, NEW m, HoldsU(p, r)
  PROVE  Lock(r, m) \notin locks[q]
<1>1. \A l \in locks[p], k \in locks[q] : l.row = k.row => ~Conflict(l.mode, k.mode)
  BY DEF TypeOK
<1> QED
  BY <1>1, LockFacts DEF HoldsU, Conflict

\* Nobody commits a row that a delete has to take and has not seen.
LEMMA CommitCascades ==
  ASSUME CatalogInv, CascadeInv, NEW p \in Procs, Commit(p), NEW q \in Procs, q # p
  PROVE  Cascades(q)'
<1>1. /\ TypeOK /\ PerProc(p) /\ PerProc(q) /\ Cascades(p) /\ Cascades(q) /\ Rowed(mine[p]) /\ Rowed(mine[q])
  BY InvOf DEF CascadeInv
<1>2. /\ mine'[q] = mine[q] /\ locks'[q] = locks[q] /\ req'[q] = req[q] /\ at'[q] = at[q]
      /\ todo'[q] = todo[q] /\ queue'[q] = queue[q] /\ cur'[q] = cur[q]
  <2>1. End(p)
    BY DEF Commit
  <2>2. mine'[q] = mine[q] /\ locks'[q] = locks[q] /\ req'[q] = req[q]
    BY <1>1, <2>1, RowsOf DEF End
  <2>3. at'[q] = at[q] /\ todo'[q] = todo[q] /\ queue'[q] = queue[q] /\ cur'[q] = cur[q]
    BY <1>1, <2>1, GotoOf DEF End
  <2> QED
    BY <2>2, <2>3
<1>3. Leaves(p) /\ Columned(tab')
  BY CommitLeaves
<1>4. \A v \in Vers : tab'.ver[v] = IF v \in DOMAIN mine[p].ver THEN mine[p].ver[v] ELSE tab.ver[v]
  BY <1>1, ViewFacts DEF Commit
<1>5. /\ \A v \in Vers : View(q)'.ver[v] = IF v \in DOMAIN mine[q].ver THEN mine[q].ver[v] ELSE tab'.ver[v]
      /\ \A f \in Files : View(q)'.file[f] = IF f \in DOMAIN mine[q].file THEN mine[q].file[f] ELSE tab'.file[f]
  BY <1>2, <1>3, MergeRows DEF View
<1>6. /\ \A v \in Vers : View(q).ver[v] = IF v \in DOMAIN mine[q].ver THEN mine[q].ver[v] ELSE tab.ver[v]
      /\ \A f \in Files : View(q).file[f] = IF f \in DOMAIN mine[q].file THEN mine[q].file[f] ELSE tab.file[f]
  BY <1>1, ViewFacts
<1>7. \A v : FilesOf(View(q)', v) \subseteq FilesOf(View(q), v)
  <2>1. \A f \in Files : tab'.file[f] \in Present => tab.file[f] \in Present
    BY <1>3 DEF Leaves
  <2> QED
    BY <1>5, <1>6, <2>1 DEF FilesOf
<1>8. ASSUME NEW v \in DOMAIN mine'[q].ver
      PROVE  /\ HoldsU(q, Ver(v))'
             /\ IF mine'[q].ver[v] = "live"
                THEN Lock(Art(ArtOf[v]), "share") \in locks'[q] /\ tab'.art[ArtOf[v]] = "live"
                ELSE v \in queue'[q] \/ FilesOf(View(q)', v) = {}
  <2>1. v \in DOMAIN mine[q].ver /\ v \in Vers
    BY <1>1, <1>2, <1>8 DEF Rowed, Partial
  <2>2. /\ Lock(Ver(v), "update") \in locks[q]
        /\ IF mine[q].ver[v] = "live"
           THEN Lock(Art(ArtOf[v]), "share") \in locks[q] /\ tab.art[ArtOf[v]] = "live"
           ELSE v \in queue[q] \/ FilesOf(View(q), v) = {}
    BY <1>1, <2>1 DEF Cascades, HoldsU
  <2>3. Lock(Art(ArtOf[v]), "share") \in locks[q] => tab'.art[ArtOf[v]] = tab.art[ArtOf[v]]
    <3>1. ArtOf[v] \in DOMAIN mine[p].art => HoldsU(p, Art(ArtOf[v]))
      BY <1>1 DEF PerProc, WritesLocked
    <3>2. Lock(Art(ArtOf[v]), "share") \in locks[q] => ArtOf[v] \notin DOMAIN mine[p].art
      BY <1>1, <3>1, LocksExclude
    <3>3. ArtOf[v] \in Arts
      BY <2>1
    <3> QED
      BY <1>3, <3>2, <3>3, LeavesSame
  <2>4. FilesOf(View(q), v) = {} => FilesOf(View(q)', v) = {}
    BY <1>7
  <2> QED
    BY <1>2, <2>2, <2>3, <2>4 DEF HoldsU
<1>9. ASSUME NEW a \in DOMAIN mine'[q].art, mine'[q].art[a] = "gone", NEW v \in LiveVers(View(q)', a)
      PROVE  at'[q] = "rows" /\ v \in todo'[q]
  <2>1. v \in Vers /\ ArtOf[v] = a /\ View(q)'.ver[v] = "live" /\ a \in DOMAIN mine[q].art /\ mine[q].art[a] = "gone"
    BY <1>2, <1>9 DEF LiveVers
  <2>2. HoldsU(q, Art(a))
    BY <1>1, <2>1 DEF PerProc, WritesLocked
  <2>3. v \in DOMAIN mine[p].ver => mine[p].ver[v] # "live"
    <3>1. v \in DOMAIN mine[p].ver /\ mine[p].ver[v] = "live" => Lock(Art(a), "share") \in locks[p]
      BY <1>1, <2>1 DEF Cascades
    <3> QED
      BY <1>1, <2>2, <3>1, LocksExclude
  <2>4. View(q).ver[v] = "live"
    BY <1>4, <1>5, <1>6, <2>1, <2>3
  <2>5. v \in LiveVers(View(q), a)
    BY <2>1, <2>4 DEF LiveVers
  <2> QED
    BY <1>1, <1>2, <2>1, <2>5 DEF Cascades
<1>10. at'[q] = "cascade" => FilesOf(View(q)', cur'[q]) \subseteq todo'[q]
  <2>1. at[q] = "cascade" => FilesOf(View(q), cur[q]) \subseteq todo[q]
    BY <1>1 DEF Cascades
  <2> QED
    BY <1>2, <1>7, <2>1
<1>11. at'[q] \in {"lock", "stats"} /\ cur'[q] \in DOMAIN mine'[q].ver /\ mine'[q].ver[cur'[q]] = "gone" =>
         FilesOf(View(q)', cur'[q]) = {}
  <2>1. at[q] \in {"lock", "stats"} /\ cur[q] \in DOMAIN mine[q].ver /\ mine[q].ver[cur[q]] = "gone" =>
          FilesOf(View(q), cur[q]) = {}
    BY <1>1 DEF Cascades
  <2> QED
    BY <1>2, <1>7, <2>1
<1>12. at'[q] = "rows" => req'[q].kind # "ver"
  BY <1>1, <1>2 DEF Cascades
<1> QED
  BY <1>8, <1>9, <1>10, <1>11, <1>12 DEF Cascades

LEMMA CommitCascade ==
  ASSUME CatalogInv, CascadeInv, NEW p \in Procs, Commit(p)
  PROVE  CascadeInv'
<1>1. TypeOK /\ End(p)
  BY DEF CatalogInv, Commit
<1>2. mine'[p] = NoRows /\ at'[p] = "idle"
  <2>1. mine' = [mine EXCEPT ![p] = NoRows] /\ Goto(p, "idle", NoLock, {}, {}, None)
    BY <1>1 DEF End
  <2>2. mine'[p] = NoRows
    BY <1>1, <2>1, RowsOf
  <2>3. at'[p] = "idle"
    BY <1>1, <2>1, GotoOf
  <2> QED
    BY <2>2, <2>3
<1>3. Cascades(p)'
  BY <1>2, NoRowsFacts, CleanCascade
<1>4. ASSUME NEW q \in Procs PROVE Cascades(q)'
  BY <1>3, CommitCascades
<1> QED
  BY <1>4, CommitParents DEF CascadeInv

\* A file does not come to a version that somebody is about to delete.
LEMMA InsertFileCascade ==
  ASSUME CatalogInv, CascadeInv, NEW x \in Files, InsertFile(x)
  PROVE  CascadeInv'
<1>1. TypeOK /\ ParentsLive
  BY DEF CatalogInv, CascadeInv
<1>2. /\ tab.file[x] = "none" /\ tab.ver[VerOf[x]] = "live" /\ UNCHANGED <<mine, locks, txn, faults>>
      /\ tab' = [tab EXCEPT !.file[x] = "PENDING"]
      /\ \A p \in Procs : Lock(Ver(VerOf[x]), "update") \notin locks[p]
  BY DEF InsertFile
<1>3. /\ tab'.art = tab.art /\ tab'.ver = tab.ver /\ tab'.bytes = tab.bytes /\ tab'.stats = tab.stats
      /\ tab'.file = [tab.file EXCEPT ![x] = "PENDING"]
  BY <1>1, <1>2 DEF TypeOK, Tables
<1>4. \A f \in Files : f # x => tab'.file[f] = tab.file[f]
  BY <1>1, <1>3 DEF TypeOK
<1>5. Columned(tab')
  BY <1>1, <1>3 DEF TypeOK, Columned
<1>6. ParentsLive'
  BY <1>1, <1>2, <1>3, <1>4 DEF ParentsLive
<1>7. ASSUME NEW q \in Procs PROVE Cascades(q)'
  <2>1. PerProc(q) /\ Rowed(mine[q]) /\ Cascades(q)
    BY InvOf DEF CascadeInv
  <2>2. /\ mine'[q] = mine[q] /\ locks'[q] = locks[q] /\ req'[q] = req[q] /\ at'[q] = at[q]
        /\ todo'[q] = todo[q] /\ queue'[q] = queue[q] /\ cur'[q] = cur[q]
    BY <1>2 DEF txn
  <2>3. View(q)'.ver = View(q).ver
    BY <1>3, <2>2, MergeFacts DEF View
  <2>4. \A f \in Files : f # x => View(q)'.file[f] = View(q).file[f]
    <3>1. \A f \in Files : View(q)'.file[f] = IF f \in DOMAIN mine[q].file THEN mine[q].file[f] ELSE tab'.file[f]
      BY <1>5, <2>2, MergeRows DEF View
    <3>2. \A f \in Files : View(q).file[f] = IF f \in DOMAIN mine[q].file THEN mine[q].file[f] ELSE tab.file[f]
      BY <1>1, ViewFacts
    <3> QED
      BY <1>4, <3>1, <3>2
  <2>5. \A v : v # VerOf[x] => FilesOf(View(q)', v) = FilesOf(View(q), v)
    BY <2>4 DEF FilesOf
  <2>6. \A v \in DOMAIN mine[q].ver : v # VerOf[x]
    BY <1>2, <2>1 DEF Cascades, HoldsU
  <2>7. \A a : LiveVers(View(q)', a) = LiveVers(View(q), a)
    BY <2>3 DEF LiveVers
  <2>8. at[q] = "cascade" => cur[q] # VerOf[x]
    <3> SUFFICES ASSUME at[q] = "cascade", cur[q] = VerOf[x] PROVE FALSE
      OBVIOUS
    <3>1. View(q).ver[VerOf[x]] = "gone" /\ VerOf[x] \in Vers
      BY <2>1 DEF PerProc, StageOK
    <3>2. View(q).ver[VerOf[x]] = tab.ver[VerOf[x]]
      BY <1>1, <2>6, <3>1, ViewFacts
    <3> QED
      BY <1>2, <3>1, <3>2
  <2>9. \A v \in DOMAIN mine'[q].ver :
          /\ HoldsU(q, Ver(v))'
          /\ IF mine'[q].ver[v] = "live"
             THEN Lock(Art(ArtOf[v]), "share") \in locks'[q] /\ tab'.art[ArtOf[v]] = "live"
             ELSE v \in queue'[q] \/ FilesOf(View(q)', v) = {}
    BY <1>3, <2>1, <2>2, <2>5, <2>6 DEF Cascades, HoldsU
  <2>10. \A a \in DOMAIN mine'[q].art : mine'[q].art[a] = "gone" =>
           \A v \in LiveVers(View(q)', a) : at'[q] = "rows" /\ v \in todo'[q]
    BY <2>1, <2>2, <2>7 DEF Cascades
  <2>11. at'[q] = "cascade" => FilesOf(View(q)', cur'[q]) \subseteq todo'[q]
    BY <2>1, <2>2, <2>5, <2>8 DEF Cascades
  <2>12. at'[q] \in {"lock", "stats"} /\ cur'[q] \in DOMAIN mine'[q].ver /\ mine'[q].ver[cur'[q]] = "gone" =>
           FilesOf(View(q)', cur'[q]) = {}
    BY <2>1, <2>2, <2>5, <2>6 DEF Cascades
  <2>13. at'[q] = "rows" => req'[q].kind # "ver"
    BY <2>1, <2>2 DEF Cascades
  <2> QED
    BY <2>9, <2>10, <2>11, <2>12, <2>13 DEF Cascades
<1> QED
  BY <1>6, <1>7 DEF CascadeInv

LEMMA InitCascade == Init => CascadeInv
<1> SUFFICES ASSUME Init PROVE CascadeInv
  OBVIOUS
<1>1. PICK A \in SUBSET Arts, V \in SUBSET Vers, s \in [Files -> {"none", "PENDING", "AVAILABLE"}] :
        /\ \A v \in V : ArtOf[v] \in A
        /\ \A f \in Files : s[f] # "none" => VerOf[f] \in V
        /\ tab = Backfilled(A, V, s)
  BY DEF Init
<1>2. /\ tab.file = s
      /\ tab.art = [a \in Arts |-> IF a \in A THEN "live" ELSE "none"]
      /\ tab.ver = [v \in Vers |-> IF v \in V THEN "live" ELSE "none"]
  BY <1>1 DEF Backfilled
<1>3. ParentsLive
  BY <1>1, <1>2 DEF ParentsLive, Present
<1>4. ASSUME NEW p \in Procs PROVE Cascades(p)
  <2>1. mine[p] = NoRows /\ at[p] = "idle"
    BY DEF Init
  <2> QED
    BY <2>1, NoRowsFacts DEF Cascades
<1> QED
  BY <1>3, <1>4 DEF CascadeInv

LEMMA NextCascade == CatalogInv /\ CascadeInv /\ [Next]_vars => CascadeInv'
<1> SUFFICES ASSUME CatalogInv, CascadeInv, [Next]_vars PROVE CascadeInv'
  OBVIOUS
<1>1. ASSUME NEW p \in Procs, Step(p) PROVE CascadeInv'
  <2>1. CASE BreakDeadlock(p)
    BY <2>1, EndCascade DEF BreakDeadlock, GiveUp
  <2> QED
    BY <1>1, <2>1, InsertArtifactCascade, InsertVersionCascade, WriteFileCascade, AddBytesCascade,
       LockArtifactCascade, RecomputeStatsCascade, TakeVersionCascade, TakeFileCascade,
       TakeArtifactCascade, SweepFileCascade, CommitCascade
       DEF Step
<1>2. ASSUME NEW p \in Procs, Fail(p) PROVE CascadeInv'
  BY <1>2, EndCascade DEF Fail
<1>3. CASE UNCHANGED vars
  <2>1. ParentsLive'
    BY <1>3 DEF CascadeInv, ParentsLive, vars
  <2>2. ASSUME NEW q \in Procs PROVE Cascades(q)'
    <3>1. Cascades(q)
      BY DEF CascadeInv
    <3>2. View(q)' = View(q)
      BY <1>3 DEF vars, View
    <3> QED
      BY <1>3, <3>1, <3>2 DEF Cascades, HoldsU, vars
  <2> QED
    BY <2>1, <2>2 DEF CascadeInv
<1> QED
  BY <1>1, <1>2, <1>3, RequestCascade, InsertFileCascade DEF Next

\* Foreign keys hold at every commit: no version without its artifact and no file
\* without its version, whichever inserts and deletes run at the same time
\* (ON DELETE CASCADE, the key-share locks of the inserts).
THEOREM CascadeInvariant == Spec => []CascadeInv
<1>1. Init => CatalogInv /\ CascadeInv
  BY InitInv, InitCascade
<1>2. CatalogInv /\ CascadeInv /\ [Next]_vars => (CatalogInv /\ CascadeInv)'
  BY NextInv, NextCascade
<1> QED
  BY <1>1, <1>2, PTL DEF Spec

HIDE CatalogAssumption

-----------------------------------------------------------------------------
(* Sums over finite sets                                                    *)

LEMMA LeastOf ==
  ASSUME NEW S, S \subseteq Nat, S # {}
  PROVE  \E x \in S : \A y \in S : x <= y
<1>1. PICK x \in S : \A y \in S : ~(<<y, x>> \in OpToRel(<, Nat))
  BY NatLessThanWellFounded, WFMin
<1>2. \A y \in S : ~(y < x)
  BY <1>1 DEF OpToRel
<1> QED
  BY <1>2

\* SUM of the column m over the rows S, and the function its definition recurs on.
SumOf(m, S) == MapThenSumSet(LAMBDA v : m[v], S)

Some(s) == CHOOSE x \in s : TRUE

Recurs(m, S, g) ==
  g = [s \in SUBSET S |-> IF s = {} THEN 0 ELSE m[Some(s)] + g[s \ {Some(s)}]]

LEMMA SumIsRecursive ==
  ASSUME NEW m, NEW S
  PROVE  SumOf(m, S) = (CHOOSE g : Recurs(m, S, g))[S]
BY Zenon DEF SumOf, MapThenSumSet, MapThenFoldSet, Recurs, Some

LEMMA OneLess ==
  ASSUME NEW s, IsFiniteSet(s), s # {}
  PROVE  /\ Some(s) \in s
         /\ IsFiniteSet(s \ {Some(s)})
         /\ Cardinality(s) \in Nat /\ Cardinality(s \ {Some(s)}) \in Nat
         /\ Cardinality(s \ {Some(s)}) = Cardinality(s) - 1
<1>1. Some(s) \in s
  BY DEF Some
<1> QED
  BY <1>1, FS_RemoveElement, FS_CardinalityType

\* The recursion goes through sets with fewer and fewer elements.
LEMMA RecursionExists ==
  ASSUME NEW S, IsFiniteSet(S), NEW m
  PROVE  \E g : Recurs(m, S, g)
<1> DEFINE Small(n) == {s \in SUBSET S : Cardinality(s) <= n}
           Upto(n, g) == \A s \in Small(n) : g[s] = IF s = {} THEN 0 ELSE m[Some(s)] + g[s \ {Some(s)}]
           Bad == {n \in Nat : ~\E g : Upto(n, g)}
<1>0. \A s \in SUBSET S : IsFiniteSet(s) /\ Cardinality(s) \in Nat /\ Cardinality(s) <= Cardinality(S)
  BY FS_Subset, FS_CardinalityType
<1>1. ASSUME Bad # {} PROVE FALSE
  <2>1. PICK n \in Bad : \A k \in Bad : n <= k
    BY <1>1, LeastOf
  <2>2. CASE n = 0
    <3> DEFINE h == [s \in SUBSET S |-> 0]
    <3>1. \A s \in Small(0) : s = {}
      BY <1>0, FS_EmptySet
    <3>2. Upto(0, h)
      BY <3>1
    <3> QED
      BY <3>2, <2>1, <2>2
  <2>3. CASE n # 0
    <3>1. n - 1 \in Nat /\ n - 1 \notin Bad /\ n \in Nat
      <4>1. n \in Nat
        BY <2>1
      <4> HIDE DEF Bad
      <4>2. n - 1 \in Nat /\ ~(n <= n - 1)
        BY <4>1, <2>3
      <4> QED
        BY <4>1, <4>2, <2>1
    <3>2. PICK g : Upto(n - 1, g)
      BY <3>1
    <3> DEFINE h == [s \in SUBSET S |-> IF s = {} THEN 0 ELSE m[Some(s)] + g[s \ {Some(s)}]]
    <3>3. ASSUME NEW s \in Small(n)
          PROVE  h[s] = IF s = {} THEN 0 ELSE m[Some(s)] + h[s \ {Some(s)}]
      <4>1. CASE s = {}
        BY <4>1
      <4>2. CASE s # {}
        <5> DEFINE r == s \ {Some(s)}
        <5>1. r \in SUBSET S /\ Cardinality(r) = Cardinality(s) - 1 /\ Cardinality(s) \in Nat
          BY <4>2, <1>0, OneLess
        <5>2. r \in Small(n - 1)
          BY <5>1, <3>1
        <5> HIDE DEF r
        <5>3. g[r] = IF r = {} THEN 0 ELSE m[Some(r)] + g[r \ {Some(r)}]
          BY <5>2, <3>2
        <5>4. h[r] = g[r]
          BY <5>1, <5>3
        <5>5. h[s] = m[Some(s)] + g[r]
          BY <4>2 DEF r
        <5> QED
          BY <5>4, <5>5, <4>2 DEF r
      <4> QED
        BY <4>1, <4>2
    <3> HIDE DEF h
    <3>4. Upto(n, h)
      BY <3>3
    <3> QED
      BY <3>4, <2>1
  <2> QED
    BY <2>2, <2>3
<1>2. Cardinality(S) \in Nat /\ Small(Cardinality(S)) = SUBSET S
  BY <1>0, FS_CardinalityType
<1>3. PICK g : Upto(Cardinality(S), g)
  BY <1>1, <1>2
<1> DEFINE h == [s \in SUBSET S |-> g[s]]
<1>4. ASSUME NEW s \in SUBSET S
      PROVE  h[s] = IF s = {} THEN 0 ELSE m[Some(s)] + h[s \ {Some(s)}]
  <2>1. s \ {Some(s)} \in SUBSET S /\ s \in Small(Cardinality(S))
    BY <1>2
  <2>2. g[s] = IF s = {} THEN 0 ELSE m[Some(s)] + g[s \ {Some(s)}]
    BY <2>1, <1>3
  <2> QED
    BY <2>1, <2>2
<1>5. h = [s \in SUBSET S |-> h[s]]
  OBVIOUS
<1> HIDE DEF h
<1>6. Recurs(m, S, h)
  BY <1>4, <1>5 DEF Recurs
<1> QED
  BY <1>6

\* It has one solution, the same for every set the sum is taken in.
LEMMA RecursionUnique ==
  ASSUME NEW S, NEW T \in SUBSET S, IsFiniteSet(S), NEW m, NEW g, NEW h, Recurs(m, S, g), Recurs(m, T, h)
  PROVE  \A s \in SUBSET T : g[s] = h[s]
<1> DEFINE Bad == {n \in Nat : \E s \in SUBSET T : Cardinality(s) = n /\ g[s] # h[s]}
<1>0. \A s \in SUBSET T : IsFiniteSet(s) /\ Cardinality(s) \in Nat
  BY FS_Subset, FS_CardinalityType
<1>1. ASSUME Bad # {} PROVE FALSE
  <2>1. PICK n \in Bad : \A k \in Bad : n <= k
    BY <1>1, LeastOf
  <2>2. PICK s \in SUBSET T : Cardinality(s) = n /\ g[s] # h[s]
    BY <2>1
  <2> DEFINE r == s \ {Some(s)}
  <2>3. /\ g[s] = IF s = {} THEN 0 ELSE m[Some(s)] + g[r]
        /\ h[s] = IF s = {} THEN 0 ELSE m[Some(s)] + h[r]
    <3>1. s \in SUBSET S
      OBVIOUS
    <3> QED
      BY <3>1, Zenon DEF Recurs
  <2>4. s # {}
    BY <2>2, <2>3
  <2>5. r \in SUBSET T /\ Cardinality(r) = n - 1 /\ Cardinality(r) \in Nat /\ n \in Nat
    BY <2>2, <2>4, <1>0, OneLess
  <2> HIDE DEF r
  <2>6. g[r] = h[r]
    <3>1. ~(n <= Cardinality(r))
      BY <2>5
    <3>2. Cardinality(r) \notin Bad
      BY <3>1, <2>1
    <3> QED
      BY <3>2, <2>5
  <2> QED
    BY <2>2, <2>3, <2>6
<1> QED
  BY <1>1, <1>0

\* What a sum is: nothing over no rows, and otherwise one row and the rest.
LEMMA SumStep ==
  ASSUME NEW S, IsFiniteSet(S), NEW m
  PROVE  /\ SumOf(m, {}) = 0
         /\ S # {} => SumOf(m, S) = m[Some(S)] + SumOf(m, S \ {Some(S)})
<1>1. ASSUME NEW T, IsFiniteSet(T)
      PROVE  \E g : Recurs(m, T, g) /\ SumOf(m, T) = g[T]
  <2>1. Recurs(m, T, CHOOSE g : Recurs(m, T, g))
    BY <1>1, RecursionExists, Zenon
  <2> QED
    BY <2>1, SumIsRecursive, Zenon
<1>2. SumOf(m, {}) = 0
  <2>1. PICK g : Recurs(m, {}, g) /\ SumOf(m, {}) = g[{}]
    BY <1>1, FS_EmptySet
  <2>2. g[{}] = 0
    BY <2>1 DEF Recurs
  <2> QED
    BY <2>1, <2>2
<1>3. ASSUME S # {}
      PROVE  SumOf(m, S) = m[Some(S)] + SumOf(m, S \ {Some(S)})
  <2> DEFINE R == S \ {Some(S)}
  <2>1. R \in SUBSET S /\ IsFiniteSet(R)
    BY <1>3, OneLess
  <2>2. PICK g : Recurs(m, S, g) /\ SumOf(m, S) = g[S]
    BY <1>1
  <2>3. PICK h : Recurs(m, R, h) /\ SumOf(m, R) = h[R]
    BY <1>1, <2>1
  <2>4. g[R] = h[R]
    BY <2>1, <2>2, <2>3, RecursionUnique
  <2>5. g[S] = m[Some(S)] + g[R]
    BY <1>3, <2>2, Zenon DEF Recurs
  <2> QED
    BY <2>2, <2>3, <2>4, <2>5
<1> QED
  BY <1>2, <1>3

\* Sums of numbers are numbers, and any row may be taken out first.
LEMMA SumRow ==
  ASSUME NEW S, IsFiniteSet(S), NEW m, \A x \in S : m[x] \in Int
  PROVE  /\ SumOf(m, S) \in Int
         /\ \A x \in S : SumOf(m, S) = m[x] + SumOf(m, S \ {x})
<1> DEFINE Good(s) == /\ SumOf(m, s) \in Int
                      /\ \A x \in s : SumOf(m, s) = m[x] + SumOf(m, s \ {x})
           Bad == {n \in Nat : \E s \in SUBSET S : Cardinality(s) = n /\ ~Good(s)}
<1>0. \A s \in SUBSET S : IsFiniteSet(s) /\ Cardinality(s) \in Nat
  BY FS_Subset, FS_CardinalityType
<1>1. ASSUME Bad # {} PROVE FALSE
  <2>1. PICK n \in Bad : \A k \in Bad : n <= k
    BY <1>1, LeastOf
  <2>2. PICK s \in SUBSET S : Cardinality(s) = n /\ ~Good(s)
    BY <2>1
  <2>3. ASSUME NEW r \in SUBSET s, Cardinality(r) = n - 1 PROVE Good(r)
    <3>1. Cardinality(r) \in Nat /\ r \in SUBSET S /\ ~(n <= Cardinality(r)) /\ n \in Nat
      BY <1>0, <2>3, <2>2
    <3>2. Cardinality(r) \notin Bad
      BY <3>1, <2>1
    <3> HIDE DEF Good
    <3> QED
      BY <3>1, <3>2
  <2>4. CASE s = {}
    BY <2>2, <2>4, <1>0, SumStep
  <2>5. CASE s # {}
    <3> DEFINE c == Some(s)
               r == s \ {c}
    <3>1. c \in s /\ IsFiniteSet(s) /\ Cardinality(r) = n - 1 /\ r \in SUBSET s
      BY <2>2, <2>5, <1>0, OneLess
    <3>2. SumOf(m, s) = m[c] + SumOf(m, r)
      BY <2>5, <3>1, SumStep
    <3> HIDE DEF c
    <3>3. Good(r)
      BY <2>3, <3>1
    <3>4. SumOf(m, r) \in Int /\ m[c] \in Int
      BY <3>1, <3>3
    <3>5. SumOf(m, s) \in Int
      BY <3>2, <3>4
    <3>6. ASSUME NEW x \in s PROVE SumOf(m, s) = m[x] + SumOf(m, s \ {x})
      <4>1. CASE x = c
        BY <4>1, <3>2
      <4>2. CASE x # c
        <5> DEFINE t == s \ {x}
                   u == s \ {x, c}
        <5>1. Cardinality(t) = n - 1 /\ t \in SUBSET s
          BY <2>2, <3>1, FS_RemoveElement
        <5>2. Good(t)
          BY <2>3, <5>1
        <5>3. t \ {c} = u /\ r \ {x} = u /\ c \in t /\ x \in r
          BY <3>1, <4>2
        <5>4. SumOf(m, t) = m[c] + SumOf(m, u)
          BY <5>2, <5>3
        <5>5. SumOf(m, r) = m[x] + SumOf(m, u)
          BY <3>3, <5>3
        <5>6. SumOf(m, u) \in Int
          <6>1. u \in SUBSET S /\ Cardinality(u) = n - 2 /\ n \in Nat
            <7>1. IsFiniteSet(t) /\ u = t \ {c} /\ c \in t
              BY <1>0, <5>3
            <7>2. Cardinality(u) = Cardinality(t) - 1
              <8> HIDE DEF t, u
              <8> QED
                BY <7>1, FS_RemoveElement
            <7> QED
              BY <7>2, <5>1, <2>1
          <6>2. Cardinality(u) \in Nat /\ ~(n <= Cardinality(u))
            BY <6>1, <1>0
          <6>3. Cardinality(u) \notin Bad
            BY <6>2, <2>1
          <6> QED
            BY <6>1, <6>2, <6>3
        <5>7. m[x] \in Int /\ m[c] \in Int
          BY <3>1
        <5> HIDE DEF t, u, r
        <5>8. SumOf(m, s) = m[x] + SumOf(m, t)
          BY <3>2, <5>4, <5>5, <5>6, <5>7
        <5> QED
          BY <5>8 DEF t
      <4> QED
        BY <4>1, <4>2
    <3> QED
      BY <3>5, <3>6, <2>2
  <2> QED
    BY <2>4, <2>5
<1>2. Good(S)
  <2>1. Cardinality(S) \in Nat /\ S \in SUBSET S
    BY <1>0
  <2> HIDE DEF Good
  <2> QED
    BY <2>1, <1>1
<1> QED
  BY <1>2

\* Columns that agree on the rows have the same sum.
LEMMA SumSame ==
  ASSUME NEW S, IsFiniteSet(S), NEW m, NEW k, \A x \in S : m[x] = k[x]
  PROVE  SumOf(m, S) = SumOf(k, S)
<1> DEFINE Bad == {n \in Nat : \E s \in SUBSET S : Cardinality(s) = n /\ SumOf(m, s) # SumOf(k, s)}
<1>0. \A s \in SUBSET S : IsFiniteSet(s) /\ Cardinality(s) \in Nat
  BY FS_Subset, FS_CardinalityType
<1>1. ASSUME Bad # {} PROVE FALSE
  <2>1. PICK n \in Bad : \A j \in Bad : n <= j
    BY <1>1, LeastOf
  <2>2. PICK s \in SUBSET S : Cardinality(s) = n /\ SumOf(m, s) # SumOf(k, s)
    BY <2>1
  <2>3. s # {}
    BY <2>2, <1>0, SumStep
  <2> DEFINE c == Some(s)
             r == s \ {c}
  <2>4. c \in s /\ Cardinality(r) = n - 1 /\ r \in SUBSET S
    BY <2>2, <2>3, <1>0, OneLess
  <2>5. SumOf(m, s) = m[c] + SumOf(m, r) /\ SumOf(k, s) = k[c] + SumOf(k, r)
    BY <2>3, <1>0, SumStep
  <2> HIDE DEF r, c
  <2>6. SumOf(m, r) = SumOf(k, r)
    <3>1. Cardinality(r) \in Nat /\ ~(n <= Cardinality(r))
      BY <2>4, <1>0, <2>1
    <3>2. Cardinality(r) \notin Bad
      BY <3>1, <2>1
    <3> QED
      BY <3>1, <3>2, <2>4
  <2>7. m[c] = k[c]
    BY <2>4
  <2> QED
    BY <2>2, <2>5, <2>6, <2>7
<1> QED
  BY <1>0, <1>1

-----------------------------------------------------------------------------
(* Orders and pages                                                         *)

\* An order of S lists every row once.
LEMMA OrderLists ==
  ASSUME NEW S, IsFiniteSet(S), NEW s \in SetToSeqs(S)
  PROVE  LET n == Cardinality(S)
         IN  /\ n \in Nat /\ s \in [1..n -> S] /\ s \in Seq(S) /\ Len(s) = n
             /\ \A i, j \in 1..n : s[i] = s[j] => i = j
             /\ \A a \in S : \E i \in 1..n : s[i] = a
             /\ Range(s) = S
<1> DEFINE n == Cardinality(S)
<1>1. n \in Nat
  BY FS_CardinalityType
<1>2. s \in [1..n -> S] /\ \A i, j \in 1..n : s[i] = s[j] => i = j
  BY DEF SetToSeqs
<1> HIDE DEF n
<1>3. s \in Seq(S) /\ Len(s) = n
  BY <1>1, <1>2
<1>4. s \in Injection(1..n, S)
  BY <1>2 DEF Injection, IsInjective
<1>5. IsFiniteSet(1..n) /\ Cardinality(1..n) = n
  BY <1>1, FS_Interval
<1>6. s \in Surjection(1..n, S)
  BY <1>4, <1>5, FS_Injection DEF n
<1>7. \A a \in S : \E i \in 1..n : s[i] = a
  BY <1>6 DEF Surjection
<1>8. Range(s) = S
  BY <1>2, <1>7 DEF Range
<1> QED
  BY <1>1, <1>2, <1>3, <1>7, <1>8 DEF n

\* An ORDER BY that tells any two rows apart leaves one order.
LEMMA OneOrder ==
  ASSUME NEW S, IsFiniteSet(S), NEW R,
         \A a, b \in S : a = b \/ <<a, b>> \in R \/ <<b, a>> \in R,
         NEW s \in SetToSeqs(S), \A i, j \in 1..Len(s) : i < j => <<s[j], s[i]>> \notin R,
         NEW t \in SetToSeqs(S), \A i, j \in 1..Len(t) : i < j => <<t[j], t[i]>> \notin R
  PROVE  s = t
<1> DEFINE n == Cardinality(S)
           D == {i \in 1..n : s[i] # t[i]}
<1>1. /\ n \in Nat /\ s \in [1..n -> S] /\ s \in Seq(S) /\ Len(s) = n
      /\ \A i, j \in 1..n : s[i] = s[j] => i = j
      /\ \A a \in S : \E i \in 1..n : s[i] = a
  BY OrderLists
<1>2. /\ t \in [1..n -> S] /\ t \in Seq(S) /\ Len(t) = n
      /\ \A i, j \in 1..n : t[i] = t[j] => i = j
      /\ \A a \in S : \E i \in 1..n : t[i] = a
  BY OrderLists
<1> HIDE DEF n
<1>3. ASSUME D # {} PROVE FALSE
  <2>1. D \subseteq Nat
    BY <1>1
  <2>2. PICK i \in D : \A j \in D : i <= j
    BY <1>3, <2>1, LeastOf
  <2>3. i \in 1..n /\ i \in Nat /\ s[i] # t[i] /\ s[i] \in S /\ t[i] \in S
    BY <2>2, <1>1, <1>2
  <2>4. \A j \in 1..n : j < i => s[j] = t[j]
    <3>1. ASSUME NEW j \in 1..n, j < i PROVE s[j] = t[j]
      <4>1. j \notin D
        BY <3>1, <2>2, <2>3, <1>1
      <4> QED
        BY <4>1
    <3> QED
      BY <3>1
  <2> HIDE DEF D
  <2>5. PICK j \in 1..n : t[j] = s[i]
    BY <2>3, <1>2
  <2>6. i < j
    <3>1. j # i
      BY <2>3, <2>5
    <3>2. ~(j < i)
      <4>1. ASSUME j < i PROVE FALSE
        <5>1. s[j] = s[i]
          BY <4>1, <2>4, <2>5
        <5> QED
          BY <5>1, <3>1, <2>3, <1>1
      <4> QED
        BY <4>1
    <3> QED
      BY <3>1, <3>2, <2>3, <1>1
  <2>7. PICK k \in 1..n : s[k] = t[i]
    BY <2>3, <1>1
  <2>8. i < k
    <3>1. k # i
      BY <2>3, <2>7
    <3>2. ~(k < i)
      <4>1. ASSUME k < i PROVE FALSE
        <5>1. t[k] = t[i]
          BY <4>1, <2>4, <2>7
        <5> QED
          BY <5>1, <3>1, <2>3, <1>2
      <4> QED
        BY <4>1
    <3> QED
      BY <3>1, <3>2, <2>3, <1>1
  <2>9. <<s[k], s[i]>> \notin R /\ <<t[j], t[i]>> \notin R
    BY <2>3, <2>6, <2>8, <1>1, <1>2
  <2>10. <<t[i], s[i]>> \notin R /\ <<s[i], t[i]>> \notin R
    BY <2>5, <2>7, <2>9
  <2> QED
    BY <2>3, <2>10
<1>4. \A i \in 1..n : s[i] = t[i]
  BY <1>3
<1> QED
  BY <1>1, <1>2, <1>4, SeqEqual

LEMMA MinOf ==
  ASSUME NEW a \in Int, NEW b \in Int
  PROVE  Min({a, b}) = IF a <= b THEN a ELSE b
<1> DEFINE c == IF a <= b THEN a ELSE b
<1>1. c \in {a, b} /\ \A y \in {a, b} : c <= y
  OBVIOUS
<1>2. \A x \in {a, b} : (\A y \in {a, b} : x <= y) => x = c
  OBVIOUS
<1> HIDE DEF c
<1> QED
  BY <1>1, <1>2 DEF Min, c

\* A number that fits into 32 bits is converted to itself.
LEMMA OffsetFits ==
  ASSUME NEW x \in Nat, x < HalfInt32
  PROVE  toInt32(x) = x
<1> DEFINE H == HalfInt32
<1>0. H \in Nat /\ H > 0 /\ x < H
  BY ListingsAssumption
<1> HIDE DEF H
<1>1. x + H \in 0..(2 * H - 1) /\ 2 * H \in Nat /\ 2 * H > 0
  BY <1>0
<1>2. \A y \in Nat, m \in Nat \ {0} : y \in 0..(m - 1) => y % m = y
  OBVIOUS
<1>3. (x + H) % (2 * H) = x + H
  BY <1>0, <1>1, <1>2
<1> QED
  BY <1>0, <1>3 DEF H, toInt32

\* The size a request gets, and what its page shows.
Sized(k) == IF k < 1 THEN 1 ELSE k

LEMMA PageShows ==
  ASSUME NEW S, NEW n \in Nat, NEW s \in [1..n -> S], NEW i \in Nat, NEW k \in 0..2,
         i * Sized(k) < HalfInt32
  PROVE  /\ Page(s, i, k) \in Seq(S)
         /\ \A x : x \in DOMAIN Page(s, i, k) <=> x \in 1..Sized(k) /\ i * Sized(k) + x <= n
         /\ \A x \in DOMAIN Page(s, i, k) : Page(s, i, k)[x] = s[i * Sized(k) + x]
<1> DEFINE K == Sized(k)
           off == i * K
           e == IF off + K <= n THEN off + K ELSE n
<1>1. K \in {1, 2} /\ off \in Nat /\ off < HalfInt32
  <2>1. K \in {1, 2}
    BY DEF Sized
  <2> HIDE DEF K
  <2>2. i * K \in Nat
    BY <2>1
  <2> QED
    BY <2>1, <2>2 DEF K
<1>2. s \in Seq(S) /\ Len(s) = n
  OBVIOUS
<1>3. rowOffset(i, K) = off
  <2> HIDE DEF K
  <2> QED
    BY <1>1, OffsetFits DEF rowOffset
<1>4. parsePagination(i, k).page = i /\ parsePagination(i, k).size = K
  BY DEF parsePagination, Sized
<1>limit. toInt32(K) = K
  <2> HIDE DEF K
  <2> QED
    BY <1>1, ListingsAssumption, OffsetFits
<1>5. Page(s, i, k) = SubSeq(s, off + 1, e)
  <2>1. Page(s, i, k) = SubSeq(s, off + 1, Min({off + K, n}))
    BY <1>2, <1>3, <1>4, <1>limit DEF Page
  <2> HIDE DEF off, K
  <2>2. Min({off + K, n}) = e
    BY <1>1, MinOf
  <2> QED
    BY <2>1, <2>2
<1> HIDE DEF off, K
<1>6. /\ Page(s, i, k) \in Seq(S)
      /\ Len(Page(s, i, k)) = IF off + 1 <= e THEN e - (off + 1) + 1 ELSE 0
      /\ \A x \in 1..e - (off + 1) + 1 : Page(s, i, k)[x] = s[off + 1 + x - 1]
  <2>1. off + 1 \in Int /\ e \in Int /\ \A x \in off + 1 .. e : s[x] \in S
    BY <1>1
  <2> HIDE DEF e
  <2> QED
    BY <2>1, <1>5, SubSeqProperties
<1>7. DOMAIN Page(s, i, k) = 1..(IF off + 1 <= e THEN e - (off + 1) + 1 ELSE 0)
  BY <1>6
<1>8. \A x : x \in DOMAIN Page(s, i, k) <=> x \in 1..K /\ off + x <= n
  BY <1>1, <1>7
<1>9. ASSUME NEW x \in DOMAIN Page(s, i, k) PROVE Page(s, i, k)[x] = s[off + x]
  <2>1. x \in 1..e - (off + 1) + 1 /\ off + 1 + x - 1 = off + x
    BY <1>1, <1>7
  <2> QED
    BY <1>6, <2>1
<1> QED
  BY <1>6, <1>8, <1>9 DEF off, K

\* Such an order exists: a row comes after as many rows as come before it.
LEMMA OrderExists ==
  ASSUME NEW S, IsFiniteSet(S), NEW R,
         \A a \in S : <<a, a>> \notin R,
         \A a, b, c \in S : <<a, b>> \in R /\ <<b, c>> \in R => <<a, c>> \in R,
         \A a, b \in S : a = b \/ <<a, b>> \in R \/ <<b, a>> \in R
  PROVE  \E s \in SetToSeqs(S) : \A i, j \in 1..Cardinality(S) : i < j => <<s[j], s[i]>> \notin R
<1> DEFINE n == Cardinality(S)
           Below(a) == {b \in S : <<b, a>> \in R}
           rank == [a \in S |-> Cardinality(Below(a)) + 1]
<1>0. n \in Nat
  BY FS_CardinalityType
<1>1. \A a \in S : IsFiniteSet(Below(a)) /\ Cardinality(Below(a)) \in Nat
  <2>1. \A a \in S : Below(a) \in SUBSET S
    OBVIOUS
  <2> QED
    BY <2>1, FS_Subset, FS_CardinalityType
<1>2. ASSUME NEW a \in S, NEW b \in S, <<a, b>> \in R
      PROVE  Cardinality(Below(a)) < Cardinality(Below(b))
  <2>1. Below(a) \subseteq Below(b) /\ Below(a) # Below(b)
    BY <1>2
  <2>2. IsFiniteSet(Below(b)) /\ Cardinality(Below(a)) \in Nat /\ Cardinality(Below(b)) \in Nat
    BY <1>1
  <2> HIDE DEF Below
  <2>3. Cardinality(Below(a)) <= Cardinality(Below(b)) /\ Cardinality(Below(a)) # Cardinality(Below(b))
    BY <2>1, <2>2, FS_Subset
  <2> QED
    BY <2>2, <2>3
<1>3. ASSUME NEW a \in S PROVE Cardinality(Below(a)) < n
  <2>1. Below(a) \in SUBSET S /\ Below(a) # S
    OBVIOUS
  <2>2. Cardinality(Below(a)) \in Nat
    BY <1>1
  <2> HIDE DEF Below
  <2>3. Cardinality(Below(a)) <= n /\ Cardinality(Below(a)) # n
    BY <2>1, FS_Subset
  <2> QED
    BY <2>2, <2>3, <1>0
<1> HIDE DEF Below, n
<1>4. \A a \in S : rank[a] \in 1..n
  BY <1>0, <1>1, <1>3
<1>5. \A a, b \in S : rank[a] = rank[b] => a = b
  <2>1. ASSUME NEW a \in S, NEW b \in S, rank[a] = rank[b], a # b PROVE FALSE
    <3>1. Cardinality(Below(a)) = Cardinality(Below(b)) /\ Cardinality(Below(a)) \in Nat
      BY <2>1, <1>1
    <3>2. <<a, b>> \in R \/ <<b, a>> \in R
      BY <2>1
    <3> QED
      BY <3>1, <3>2, <1>2
  <2> QED
    BY <2>1
<1>6. \A i \in 1..n : \E a \in S : rank[a] = i
  <2>1. rank \in Injection(S, 1..n)
    BY <1>4, <1>5 DEF Injection, IsInjective
  <2>2. IsFiniteSet(1..n) /\ Cardinality(1..n) = n
    BY <1>0, FS_Interval
  <2>3. rank \in Surjection(S, 1..n)
    <3> HIDE DEF rank
    <3> QED
      BY <2>1, <2>2, FS_Injection DEF n
  <2> QED
    BY <2>3 DEF Surjection
<1>7. \A a, b \in S : <<a, b>> \in R => rank[a] < rank[b]
  BY <1>1, <1>2
<1> HIDE DEF rank
<1> DEFINE s == [i \in 1..n |-> CHOOSE a \in S : rank[a] = i]
<1>8. \A i \in 1..n : s[i] \in S /\ rank[s[i]] = i
  BY <1>6
<1>9. s \in [1..n -> S]
  BY <1>8
<1> HIDE DEF s
<1>10. s \in SetToSeqs(S)
  BY <1>8, <1>9 DEF SetToSeqs, n
<1>11. ASSUME NEW i \in 1..n, NEW j \in 1..n, i < j PROVE <<s[j], s[i]>> \notin R
  BY <1>0, <1>7, <1>8, <1>11
<1> QED
  BY <1>10, <1>11 DEF n

\* MAX of a finite set of numbers.
LEMMA MaxOf ==
  ASSUME NEW S, S \subseteq Int, IsFiniteSet(S), S # {}
  PROVE  Max(S) \in S /\ \A y \in S : y <= Max(S)
<1> DEFINE R == {z \in S \X S : z[1] < z[2]}
           n == Cardinality(S)
<1>1. PICK s \in SetToSeqs(S) : \A i, j \in 1..n : i < j => <<s[j], s[i]>> \notin R
  <2>1. \A a, b \in S : <<a, b>> \in R <=> a < b
    OBVIOUS
  <2> HIDE DEF R
  <2>2. /\ \A a \in S : <<a, a>> \notin R
        /\ \A a, b, c \in S : <<a, b>> \in R /\ <<b, c>> \in R => <<a, c>> \in R
        /\ \A a, b \in S : a = b \/ <<a, b>> \in R \/ <<b, a>> \in R
    BY <2>1
  <2> QED
    BY <2>2, OrderExists
<1>2. /\ n \in Nat /\ s \in [1..n -> S] /\ \A a \in S : \E i \in 1..n : s[i] = a
  BY OrderLists
<1>3. n # 0
  BY FS_EmptySet
<1> HIDE DEF n
<1>4. n \in 1..n /\ s[n] \in S
  BY <1>2, <1>3
<1>5. ASSUME NEW y \in S PROVE s[n] >= y
  <2>1. PICK i \in 1..n : s[i] = y
    BY <1>2
  <2>2. CASE i = n
    BY <2>1, <2>2
  <2>3. CASE i < n
    <3>1. <<s[n], s[i]>> \notin R
      BY <1>1, <1>4, <2>3
    <3>2. ~(s[n] < y)
      <4>1. ASSUME s[n] < y PROVE FALSE
        <5> DEFINE z == <<s[n], y>>
        <5>1. z \in S \X S /\ z[1] = s[n] /\ z[2] = y
          BY <1>4
        <5> HIDE DEF z
        <5>2. z \in R
          BY <5>1, <4>1
        <5> QED
          BY <5>2, <3>1, <2>1 DEF z
      <4> QED
        BY <4>1
    <3>3. s[n] \in Int /\ y \in Int
      BY <1>4
    <3> HIDE DEF R
    <3> QED
      BY <3>2, <3>3
  <2> QED
    BY <2>2, <2>3, <1>2
<1>6. \E x \in S : \A y \in S : x >= y
  BY <1>4, <1>5
<1>7. Max(S) \in S /\ \A y \in S : Max(S) >= y
  BY <1>6, Zenon DEF Max
<1> QED
  BY <1>7

\* The pages of one order show every row at one place.
LEMMA PagesTile ==
  ASSUME NEW S, IsFiniteSet(S), NEW O, NEW s \in SetToSeqs(S), \A t \in O : t = s,
         NEW k \in 0..2, 2 * (Cardinality(S) + 2) < HalfInt32
  PROVE  Tiles(O, S, k)
<1> DEFINE N == Cardinality(S)
           n == N + 1
           K == Sized(k)
<1>1. /\ N \in Nat /\ s \in [1..N -> S]
      /\ \A i, j \in 1..N : s[i] = s[j] => i = j
      /\ \A a \in S : \E i \in 1..N : s[i] = a
  BY OrderLists
<1>2. K \in {1, 2}
  BY DEF Sized
<1>3. HalfInt32 \in Nat
  BY ListingsAssumption
<1>4. SUFFICES ASSUME NEW pick \in [0..n -> O]
               PROVE  LET shown == [i \in 0..n |-> Page(pick[i], i, k)]
                      IN  /\ UNION {Range(shown[i]) : i \in 0..n} = S
                          /\ \A i, h \in 0..n : \A x \in DOMAIN shown[i], y \in DOMAIN shown[h] :
                               shown[i][x] = shown[h][y] => i = h /\ x = y
  BY DEF Tiles
<1> DEFINE shown == [i \in 0..n |-> Page(pick[i], i, k)]
<1>5. ASSUME NEW i \in 0..n
      PROVE  /\ shown[i] \in Seq(S)
             /\ \A x : x \in DOMAIN shown[i] <=> x \in 1..K /\ i * K + x <= N
             /\ \A x \in DOMAIN shown[i] : shown[i][x] = s[i * K + x]
  <2>1. pick[i] = s /\ i \in Nat
    BY <1>1
  <2>2. i * K < HalfInt32
    <3> HIDE DEF N, K
    <3>1. CASE K = 1
      BY <3>1, <1>1, <1>3 DEF N
    <3>2. CASE K = 2
      BY <3>2, <1>1, <1>3 DEF N
    <3> QED
      BY <3>1, <3>2, <1>2
  <2>3. shown[i] = Page(s, i, k)
    BY <2>1
  <2> HIDE DEF shown, N
  <2> QED
    BY <2>1, <2>2, <2>3, <1>1, PageShows
<1> HIDE DEF shown, N, K
<1>6. ASSUME NEW a \in S PROVE \E i \in 0..n : \E x \in DOMAIN shown[i] : shown[i][x] = a
  <2>1. PICK r \in 1..N : s[r] = a
    BY <1>1
  <2>2. PICK i \in 0..n, x \in 1..K : i * K + x = r
    <3>1. CASE K = 1
      <4>1. r - 1 \in 0..n /\ 1 \in 1..K /\ (r - 1) * K + 1 = r
        BY <3>1, <1>1
      <4> QED
        BY <4>1
    <3>2. CASE K = 2
      <4>1. PICK i \in Nat : r = 2 * i + 1 \/ r = 2 * i + 2
        <5> DEFINE d == (r - 1) \div 2
        <5>1. r \in Nat /\ r > 0
          BY <1>1
        <5>2. d \in Nat /\ (r = 2 * d + 1 \/ r = 2 * d + 2)
          BY <5>1
        <5> QED
          BY <5>2
      <4>2. i \in 0..n
        BY <4>1, <1>1
      <4>3. CASE r = 2 * i + 1
        <5>1. 1 \in 1..K /\ i * K + 1 = r
          BY <3>2, <4>3
        <5> QED
          BY <5>1, <4>2
      <4>4. CASE r = 2 * i + 2
        <5>1. 2 \in 1..K /\ i * K + 2 = r
          BY <3>2, <4>4
        <5> QED
          BY <5>1, <4>2
      <4> QED
        BY <4>1, <4>3, <4>4
    <3> QED
      BY <3>1, <3>2, <1>2
  <2>3. i * K + x <= N
    BY <2>2, <1>1
  <2>4. x \in DOMAIN shown[i] /\ shown[i][x] = s[i * K + x]
    BY <2>2, <2>3, <1>5
  <2> QED
    BY <2>1, <2>2, <2>4
<1>7. \A i \in 0..n : Range(shown[i]) \subseteq S
  <2>1. ASSUME NEW i \in 0..n, NEW x \in DOMAIN shown[i] PROVE shown[i][x] \in S
    <3>1. shown[i] \in Seq(S)
      BY <1>5
    <3> QED
      BY <3>1
  <2> QED
    BY <2>1 DEF Range
<1>8. UNION {Range(shown[i]) : i \in 0..n} = S
  BY <1>6, <1>7 DEF Range
<1>9. ASSUME NEW i \in 0..n, NEW h \in 0..n, NEW x \in DOMAIN shown[i], NEW y \in DOMAIN shown[h],
             shown[i][x] = shown[h][y]
      PROVE  i = h /\ x = y
  <2>1. /\ x \in 1..K /\ i * K + x <= N /\ shown[i][x] = s[i * K + x]
        /\ y \in 1..K /\ h * K + y <= N /\ shown[h][y] = s[h * K + y]
    BY <1>5
  <2>2. i * K + x \in 1..N /\ h * K + y \in 1..N
    <3>1. CASE K = 1
      BY <3>1, <2>1, <1>1
    <3>2. CASE K = 2
      BY <3>2, <2>1, <1>1
    <3> QED
      BY <3>1, <3>2, <1>2
  <2>3. i * K + x = h * K + y
    BY <2>1, <2>2, <1>1, <1>9
  <2>4. CASE K = 1
    BY <2>1, <2>3, <2>4, <1>1
  <2>5. CASE K = 2
    BY <2>1, <2>3, <2>5, <1>1
  <2> QED
    BY <2>4, <2>5, <1>2
<1> QED
  BY <1>8, <1>9 DEF shown

-----------------------------------------------------------------------------
(* The lists of artifacts                                                   *)

\* The stored statistics of an artifact are numbers.
LEMMA StatsAreNumbers ==
  ASSUME CatalogInv, NEW a \in LiveArts(tab)
  PROVE  /\ a \in Arts /\ IsFiniteSet(LiveVers(tab, a))
         /\ tab.stats[a].count = Cardinality(LiveVers(tab, a))
         /\ tab.stats[a].count \in Nat
         /\ tab.stats[a].largest \in Int
         /\ tab.stats[a].total = SumOf([v \in LiveVers(tab, a) |-> tab.bytes[v]], LiveVers(tab, a))
         /\ tab.stats[a].total \in Int
<1> DEFINE V == LiveVers(tab, a)
           m == [v \in V |-> tab.bytes[v]]
           B == {m[v] : v \in V}
<1>1. a \in Arts /\ tab.stats[a] = Sums(m)
  BY DEF LiveArts, CatalogInv, StatsExact, Stats
<1>2. V \in SUBSET Vers /\ IsFiniteSet(V) /\ Cardinality(V) \in Nat
  <2>1. V \in SUBSET Vers
    BY DEF LiveVers
  <2> HIDE DEF V
  <2> QED
    BY <2>1, ListingsAssumption, FS_Subset, FS_CardinalityType
<1>3. \A v \in V : m[v] \in Int
  BY <1>2 DEF CatalogInv, TypeOK
<1>4. DOMAIN m = V
  OBVIOUS
<1> HIDE DEF V, m
<1>5. Sums(m).count = Cardinality(V) /\ Sums(m).largest = Max(B \cup {0}) /\ Sums(m).total = SumOf(m, V)
  BY <1>4 DEF Sums, SumOf
<1>6. SumOf(m, V) \in Int
  BY <1>2, <1>3, SumRow
<1>7. Max(B \cup {0}) \in Int
  <2>1. B = {m[v] : v \in V} /\ B \subseteq Int
    BY <1>3
  <2>2. IsFiniteSet(B)
    <3>1. m \in Surjection(V, B)
      BY <1>4 DEF m, Surjection
    <3> HIDE DEF B
    <3> QED
      BY <3>1, <1>2, FS_Surjection
  <2> HIDE DEF B
  <2>3. IsFiniteSet(B \cup {0}) /\ B \cup {0} \subseteq Int /\ B \cup {0} # {}
    BY <2>1, <2>2, FS_AddElement
  <2> QED
    BY <2>3, MaxOf
<1> QED
  BY <1>1, <1>2, <1>5, <1>6, <1>7 DEF V, m

\* A request that only sorts.
LEMMA SortedFields ==
  ASSUME NEW q \in Sorted
  PROVE  /\ q.sort \in {"createdAt", "name", "versionCount", "largestVersion", "totalSize"}
         /\ q.desc \in BOOLEAN
         /\ q.names = Null /\ q.among = Null /\ q.olderThan = Null /\ q.minVersions = Null
         /\ q.maxVersions = Null /\ q.hasFiles = Null /\ q.hasIncompleteFiles = Null
         /\ q.minTotalBytes = Null
<1>1. PICK x \in DOMAIN artifactSorts, d \in BOOLEAN : q = SortBy(x, d)
  BY DEF Sorted
<1>2. x \in {"createdAt", "name", "versionCount", "largestVersion", "totalSize"}
  BY DEF artifactSorts
<1>3. q.sort = x /\ q.desc = d
  BY <1>1 DEF SortBy, NoFilter
<1>4. /\ q.names = Null /\ q.among = Null /\ q.olderThan = Null /\ q.minVersions = Null
      /\ q.maxVersions = Null /\ q.hasFiles = Null /\ q.hasIncompleteFiles = Null
      /\ q.minTotalBytes = Null
  BY <1>1 DEF SortBy, NoFilter
<1> QED
  BY <1>2, <1>3, <1>4

\* The ORDER BY of the list, on numbers.
LEMMA OrderByIs ==
  ASSUME CatalogInv, NEW q \in Sorted, NEW born \in [Arts -> Int]
  PROVE  /\ \A a \in LiveArts(tab) : sortKey(tab, q, a) \in Int
         /\ \A a \in LiveArts(tab) : ~orderBy(tab, born, q, a, a)
         /\ \A a, b, c \in LiveArts(tab) :
              orderBy(tab, born, q, a, b) /\ orderBy(tab, born, q, b, c) => orderBy(tab, born, q, a, c)
         /\ \A a, b \in LiveArts(tab) :
              a = b \/ orderBy(tab, born, q, a, b) \/ orderBy(tab, born, q, b, a)
<1> DEFINE k(a) == sortKey(tab, q, a)
           o(a, b) == orderBy(tab, born, q, a, b)
<1>1. ASSUME NEW a \in LiveArts(tab) PROVE k(a) \in Int /\ a \in Nat /\ born[a] \in Int
  <2>1. /\ a \in Arts /\ tab.stats[a].count \in Nat /\ tab.stats[a].largest \in Int
        /\ tab.stats[a].total \in Int
    BY StatsAreNumbers, Zenon
  <2>2. NameOf[a] \in Nat /\ a \in Nat
    BY <2>1, ListingsAssumption DEF Names
  <2>3. k(a) \in Int
    BY <2>1, <2>2, SortedFields DEF sortKey
  <2> QED
    BY <2>1, <2>2, <2>3
<1>2. ASSUME NEW a \in LiveArts(tab), NEW b \in LiveArts(tab)
      PROVE  o(a, b) <=>
               \/ IF q.desc THEN k(a) > k(b) ELSE k(a) < k(b)
               \/ k(a) = k(b) /\ IF q.desc THEN born[a] > born[b] ELSE born[a] < born[b]
               \/ k(a) = k(b) /\ born[a] = born[b] /\ a < b
  BY DEF orderBy
<1>3. q.desc \in BOOLEAN
  BY SortedFields
<1> HIDE DEF k, o
<1>4. \A a \in LiveArts(tab) : ~o(a, a)
  BY <1>1, <1>2
<1>5. ASSUME NEW a \in LiveArts(tab), NEW b \in LiveArts(tab)
      PROVE  a = b \/ o(a, b) \/ o(b, a)
  BY <1>1, <1>2, <1>3
<1>6. ASSUME NEW a \in LiveArts(tab), NEW b \in LiveArts(tab), NEW c \in LiveArts(tab), o(a, b), o(b, c)
      PROVE  o(a, c)
  <2>1. /\ k(a) \in Int /\ k(b) \in Int /\ k(c) \in Int /\ born[a] \in Int /\ born[b] \in Int
        /\ born[c] \in Int /\ a \in Nat /\ b \in Nat /\ c \in Nat
    BY <1>1
  <2>2. CASE q.desc
    BY <2>1, <2>2, <1>2, <1>6
  <2>3. CASE ~q.desc
    BY <2>1, <2>3, <1>2, <1>6
  <2> QED
    BY <2>2, <2>3
<1> QED
  BY <1>1, <1>4, <1>5, <1>6 DEF k, o

\* Every list of artifacts that nothing filters has exactly one order.
LEMMA OneList ==
  ASSUME CatalogInv, NEW q \in Sorted, NEW born \in [Arts -> Int]
  PROVE  /\ Selected(tab, born, q) = LiveArts(tab)
         /\ ListRegistryArtifactsFiltered(tab, born, q) \subseteq SetToSeqs(LiveArts(tab))
         /\ ListRegistryArtifactsFiltered(tab, born, q) # {}
         /\ \A s, t \in ListRegistryArtifactsFiltered(tab, born, q) : s = t
<1> DEFINE L == LiveArts(tab)
           O == ListRegistryArtifactsFiltered(tab, born, q)
           R == {z \in L \X L : orderBy(tab, born, q, z[1], z[2])}
<1>1. Selected(tab, born, q) = L
  BY SortedFields DEF Selected, matches, Given
<1>2. IsFiniteSet(L)
  BY ListingsAssumption, FS_Subset DEF LiveArts
<1>3. O = {s \in SetToSeqs(L) : \A i, j \in 1..Len(s) : i < j => ~orderBy(tab, born, q, s[j], s[i])}
  BY <1>1 DEF ListRegistryArtifactsFiltered, Orders
<1>4. \A a, b \in L : <<a, b>> \in R <=> orderBy(tab, born, q, a, b)
  OBVIOUS
<1> HIDE DEF R, L
<1>5. /\ \A a \in L : <<a, a>> \notin R
      /\ \A a, b, c \in L : <<a, b>> \in R /\ <<b, c>> \in R => <<a, c>> \in R
      /\ \A a, b \in L : a = b \/ <<a, b>> \in R \/ <<b, a>> \in R
  BY <1>4, OrderByIs DEF L
<1>6. ASSUME NEW s \in SetToSeqs(L)
      PROVE  s \in O <=> \A i, j \in 1..Len(s) : i < j => <<s[j], s[i]>> \notin R
  <2>1. Len(s) = Cardinality(L) /\ \A i \in 1..Len(s) : s[i] \in L
    BY <1>2, OrderLists
  <2> QED
    BY <2>1, <1>3, <1>4
<1>7. O # {}
  <2>1. PICK s \in SetToSeqs(L) : \A i, j \in 1..Cardinality(L) : i < j => <<s[j], s[i]>> \notin R
    BY <1>2, <1>5, OrderExists
  <2>2. Len(s) = Cardinality(L)
    BY <1>2, OrderLists
  <2>3. s \in O
    BY <2>1, <2>2, <1>6
  <2> QED
    BY <2>3
<1>8. ASSUME NEW s \in O, NEW t \in O PROVE s = t
  <2>1. s \in SetToSeqs(L) /\ t \in SetToSeqs(L)
    BY <1>3
  <2>2. /\ \A i, j \in 1..Len(s) : i < j => <<s[j], s[i]>> \notin R
        /\ \A i, j \in 1..Len(t) : i < j => <<t[j], t[i]>> \notin R
    BY <2>1, <1>6
  <2> QED
    BY <2>1, <2>2, <1>2, <1>5, OneOrder
<1>9. O \subseteq SetToSeqs(L)
  BY <1>3
<1> QED
  BY <1>1, <1>7, <1>8, <1>9 DEF L

\* A first page shows a row when there is one.
LEMMA FirstPage ==
  ASSUME NEW S, NEW n \in Nat, NEW s \in [1..n -> S], NEW k \in 0..2
  PROVE  Page(s, 0, k) # <<>> <=> n > 0
<1>1. 0 * Sized(k) = 0 /\ 1 \in 1..Sized(k) /\ HalfInt32 > 0 /\ HalfInt32 \in Nat
  BY ListingsAssumption DEF Sized
<1>2. /\ Page(s, 0, k) \in Seq(S)
      /\ \A x : x \in DOMAIN Page(s, 0, k) <=> x \in 1..Sized(k) /\ 0 + x <= n
  BY <1>1, PageShows
<1> DEFINE P == Page(s, 0, k)
<1> HIDE DEF P
<1>3. P \in Seq(S) /\ (1 \in DOMAIN P <=> n > 0)
  BY <1>1, <1>2 DEF P
<1>4. P # <<>> <=> 1 \in DOMAIN P
  BY <1>3
<1> QED
  BY <1>3, <1>4 DEF P

\* The total that rides on the rows is the number of rows, on every page.
LEMMA TotalsRight ==
  ASSUME NEW S, NEW n \in Nat, NEW s \in [1..n -> S], NEW page \in Nat, NEW k \in 0..2
  PROVE  WindowTotal(s, page, k) = n
<1>0. Len(s) = n
  OBVIOUS
<1>1. Page(s, 0, k) # <<>> <=> n > 0
  BY FirstPage
<1>2. Page(s, 0, 1) # <<>> <=> n > 0
  BY FirstPage
<1>3. CASE page = 0
  <2>1. WindowTotal(s, page, k) = IF Page(s, 0, k) # <<>> THEN n ELSE 0
    BY <1>0, <1>3 DEF WindowTotal
  <2> QED
    BY <2>1, <1>1
<1>4. CASE page # 0
  <2>1. page > 0
    BY <1>4
  <2>2. WindowTotal(s, page, k) = IF Page(s, page, k) # <<>> THEN n ELSE IF n > 0 THEN n ELSE 0
    BY <1>0, <1>2, <2>1 DEF WindowTotal
  <2> QED
    BY <2>2
<1> QED
  BY <1>3, <1>4

\* The versions of a list, and that there is an order for them.
LEMMA VersionLists ==
  ASSUME NEW b \in BOOLEAN \cup {Null}
  PROVE  LET S == {v \in AllVers(tab) : Given(b, LAMBDA x : (FilesOf(tab, v) # {}) = x)}
         IN  /\ IsFiniteSet(S) /\ IsFiniteSet(AllVers(tab))
             /\ ListVersions(tab, b) \subseteq SetToSeqs(S)
             /\ ListVersions(tab, b) # {}
<1> DEFINE S == {v \in AllVers(tab) : Given(b, LAMBDA x : (FilesOf(tab, v) # {}) = x)}
           Before(v, w) == ArtOf[v] < ArtOf[w] \/ (ArtOf[v] = ArtOf[w] /\ v > w)
           R == {z \in S \X S : Before(z[1], z[2])}
<1>1. AllVers(tab) \subseteq Vers
  BY DEF AllVers, LiveVers
<1>2. S \subseteq Vers /\ IsFiniteSet(S) /\ IsFiniteSet(AllVers(tab))
  BY <1>1, ListingsAssumption, FS_Subset
<1>3. ListVersions(tab, b) = {s \in SetToSeqs(S) : \A i, j \in 1..Len(s) : i < j => ~Before(s[j], s[i])}
  BY DEF ListVersions, Orders
<1> HIDE DEF S
<1>4. \A v \in S : v \in Nat /\ ArtOf[v] \in Nat
  BY <1>2, ListingsAssumption, CatalogAssumption
<1>5. \A v, w \in S : <<v, w>> \in R <=> Before(v, w)
  OBVIOUS
<1> HIDE DEF R
<1>6. /\ \A v \in S : <<v, v>> \notin R
      /\ \A v, w, u \in S : <<v, w>> \in R /\ <<w, u>> \in R => <<v, u>> \in R
      /\ \A v, w \in S : v = w \/ <<v, w>> \in R \/ <<w, v>> \in R
  <2>1. \A v, w \in S : <<v, w>> \in R <=> ArtOf[v] < ArtOf[w] \/ (ArtOf[v] = ArtOf[w] /\ v > w)
    BY <1>5
  <2> QED
    BY <2>1, <1>4
<1>7. PICK s \in SetToSeqs(S) : \A i, j \in 1..Cardinality(S) : i < j => <<s[j], s[i]>> \notin R
  BY <1>2, <1>6, OrderExists
<1>8. Len(s) = Cardinality(S) /\ \A i \in 1..Cardinality(S) : s[i] \in S
  BY <1>2, OrderLists
<1> HIDE DEF Before
<1>9. s \in ListVersions(tab, b)
  BY <1>3, <1>5, <1>7, <1>8
<1> QED
  BY <1>2, <1>3, <1>9 DEF S

\* Whatever is in the tables: each row on exactly one page, each total right.
LEMMA PagesOfTables ==
  ASSUME OffsetsFit, CatalogInv
  PROVE  PagesPartition
<1>1. ASSUME NEW k \in 0..2, NEW born \in SomeBirths, NEW q \in Sorted
      PROVE  LET O == ListRegistryArtifactsFiltered(tab, born, q)
             IN  /\ Tiles(O, LiveArts(tab), k)
                 /\ \A s \in O : Len(s) = CountRegistryArtifactsFiltered(tab, born, q)
  <2> DEFINE O == ListRegistryArtifactsFiltered(tab, born, q)
             L == LiveArts(tab)
  <2>1. born \in [Arts -> Int]
    <3>1. \A a \in Arts : a \in Int
      BY ListingsAssumption
    <3> QED
      BY <3>1 DEF SomeBirths
  <2>2. /\ Selected(tab, born, q) = L /\ O \subseteq SetToSeqs(L) /\ O # {}
        /\ \A s, t \in O : s = t
    BY <2>1, OneList
  <2>3. IsFiniteSet(L) /\ 2 * (Cardinality(L) + 2) < HalfInt32
    <3>1. L \in SUBSET Arts
      BY DEF LiveArts
    <3> HIDE DEF L
    <3>2. /\ IsFiniteSet(L) /\ Cardinality(L) <= Cardinality(Arts)
          /\ Cardinality(L) \in Nat /\ Cardinality(Arts) \in Nat /\ HalfInt32 \in Nat
      BY <3>1, ListingsAssumption, FS_Subset, FS_CardinalityType
    <3> QED
      BY <3>2 DEF OffsetsFit
  <2> HIDE DEF O, L
  <2>4. PICK s \in O : s \in SetToSeqs(L)
    BY <2>2
  <2>5. Tiles(O, L, k)
    BY <2>2, <2>3, <2>4, PagesTile
  <2>6. \A t \in O : Len(t) = Cardinality(L)
    BY <2>2, <2>3, OrderLists
  <2> QED
    BY <2>2, <2>5, <2>6 DEF O, L, CountRegistryArtifactsFiltered
<1>2. ASSUME NEW k \in 0..2, NEW s \in ListVersions(tab, Null), NEW page \in 0..Len(s) + 1
      PROVE  WindowTotal(s, page, k) = Cardinality(AllVers(tab))
  <2> DEFINE V == AllVers(tab)
             S == {v \in V : Given(Null, LAMBDA x : (FilesOf(tab, v) # {}) = x)}
             n == Cardinality(V)
  <2>1. S = V
    BY DEF Given
  <2>2. s \in SetToSeqs(V) /\ IsFiniteSet(V)
    BY <2>1, VersionLists
  <2> HIDE DEF V
  <2>3. n \in Nat /\ s \in [1..n -> V] /\ Len(s) = n
    BY <2>2, OrderLists
  <2>4. page \in Nat
    BY <2>3
  <2> HIDE DEF n
  <2>5. WindowTotal(s, page, k) = n
    BY <2>3, <2>4, TotalsRight
  <2> QED
    BY <2>5 DEF n, V
<1> QED
  BY <1>1, <1>2 DEF PagesPartition

-----------------------------------------------------------------------------
(* The maintenance views and the metrics                                    *)

\* What holds of no rows, and of one row more whenever it holds, holds of all: G are
\* the subsets of S of which it holds.
LEMMA RowByRow ==
  ASSUME NEW S, IsFiniteSet(S), NEW G, {} \in G,
         \A T \in SUBSET S : \A x \in S \ T : T \in G => T \cup {x} \in G
  PROVE  S \in G
<1> DEFINE Bad == {n \in Nat : \E s \in SUBSET S : Cardinality(s) = n /\ s \notin G}
<1>0. \A s \in SUBSET S : IsFiniteSet(s) /\ Cardinality(s) \in Nat
  BY FS_Subset, FS_CardinalityType
<1>1. ASSUME Bad # {} PROVE FALSE
  <2>1. PICK n \in Bad : \A k \in Bad : n <= k
    BY <1>1, LeastOf
  <2>2. PICK s \in SUBSET S : Cardinality(s) = n /\ s \notin G
    BY <2>1
  <2>3. s # {}
    BY <2>2
  <2> DEFINE c == Some(s)
             r == s \ {c}
  <2>4. c \in s /\ Cardinality(r) = n - 1 /\ r \in SUBSET S /\ Cardinality(r) \in Nat /\ n \in Nat
    BY <2>2, <2>3, <1>0, OneLess
  <2> HIDE DEF c
  <2>5. c \in S \ r /\ r \cup {c} = s
    BY <2>2, <2>4
  <2> HIDE DEF r
  <2>6. r \in G
    <3>1. ~(n <= Cardinality(r))
      BY <2>4
    <3>2. Cardinality(r) \notin Bad
      BY <2>1, <3>1
    <3> QED
      BY <2>4, <3>2
  <2> QED
    BY <2>2, <2>4, <2>5, <2>6
<1> QED
  BY <1>0, <1>1

\* The sum of the sizes goes file by file, set by set, and past empty files.
LEMMA BytesOne ==
  ASSUME NEW S \in SUBSET Files, NEW f \in Files, f \notin S
  PROVE  Bytes(S) \in Nat /\ SizeOf[f] \in Nat /\ Bytes(S \cup {f}) = Bytes(S) + SizeOf[f]
<1>1. f \in Files \ S
  OBVIOUS
<1>2. Bytes(S) \in Nat /\ Bytes(S \cup {f}) = Bytes(S) + SizeOf[f]
  BY <1>1, BytesAssumption, Zenon
<1> QED
  BY <1>2, CatalogAssumption

LEMMA BytesUnion ==
  ASSUME NEW S \in SUBSET Files, NEW T \in SUBSET Files, S \cap T = {}
  PROVE  Bytes(S \cup T) = Bytes(S) + Bytes(T)
<1> DEFINE G == {s \in SUBSET T : Bytes(S \cup s) = Bytes(S) + Bytes(s)}
<1>1. IsFiniteSet(T)
  BY ListingsAssumption, FS_Subset
<1>2. {} \in G
  <2>1. S \cup {} = S /\ Bytes({}) = 0 /\ Bytes(S) \in Nat
    BY BytesAssumption, Zenon
  <2> QED
    BY <2>1
<1>3. ASSUME NEW s \in SUBSET T, NEW x \in T \ s, s \in G PROVE s \cup {x} \in G
  <2> DEFINE U == S \cup s
  <2>1. U \in SUBSET Files /\ x \in Files /\ x \notin U /\ s \in SUBSET Files /\ x \notin s
    OBVIOUS
  <2>2. S \cup (s \cup {x}) = U \cup {x}
    OBVIOUS
  <2>3. Bytes(U) = Bytes(S) + Bytes(s)
    BY <1>3
  <2> HIDE DEF U
  <2>4. Bytes(U \cup {x}) = Bytes(U) + SizeOf[x] /\ SizeOf[x] \in Nat
    BY <2>1, BytesOne
  <2>5. Bytes(s \cup {x}) = Bytes(s) + SizeOf[x] /\ Bytes(s) \in Nat
    BY <2>1, BytesOne
  <2>6. Bytes(S) \in Nat
    BY BytesAssumption, Zenon
  <2>7. Bytes(U \cup {x}) = Bytes(S) + Bytes(s \cup {x})
    BY <2>3, <2>4, <2>5, <2>6
  <2>8. s \cup {x} \in SUBSET T
    OBVIOUS
  <2> QED
    BY <2>2, <2>7, <2>8
<1>4. T \in G
  <2> HIDE DEF G
  <2> QED
    BY <1>1, <1>2, <1>3, RowByRow
<1> QED
  BY <1>4

LEMMA BytesZero ==
  ASSUME NEW S \in SUBSET Files, \A f \in S : SizeOf[f] = 0
  PROVE  Bytes(S) = 0
<1> DEFINE G == {s \in SUBSET S : Bytes(s) = 0}
<1>1. IsFiniteSet(S)
  BY ListingsAssumption, FS_Subset
<1>2. {} \in G
  BY BytesAssumption, Zenon
<1>3. ASSUME NEW s \in SUBSET S, NEW x \in S \ s, s \in G PROVE s \cup {x} \in G
  <2>1. s \in SUBSET Files /\ x \in Files /\ x \notin s /\ Bytes(s) = 0 /\ SizeOf[x] = 0
    BY <1>3
  <2>2. Bytes(s \cup {x}) = 0
    BY <2>1, BytesOne
  <2> QED
    BY <2>2
<1>4. S \in G
  <2> HIDE DEF G
  <2> QED
    BY <1>1, <1>2, <1>3, RowByRow
<1> QED
  BY <1>4

\* Bytes counted group by group are the bytes of all groups together.
LEMMA BytesGrouped ==
  ASSUME NEW S, IsFiniteSet(S), NEW F \in [S -> SUBSET Files],
         \A x, y \in S : x # y => F[x] \cap F[y] = {},
         NEW m, \A x \in S : m[x] = Bytes(F[x])
  PROVE  SumOf(m, S) = Bytes(UNION {F[x] : x \in S})
<1> DEFINE All(s) == UNION {F[x] : x \in s}
           G == {s \in SUBSET S : SumOf(m, s) = Bytes(All(s))}
<1>1. {} \in G
  <2>1. All({}) = {} /\ IsFiniteSet({})
    BY FS_EmptySet
  <2>2. SumOf(m, {}) = 0
    BY <2>1, SumStep
  <2>3. Bytes({}) = 0
    BY BytesAssumption, Zenon
  <2> HIDE DEF All
  <2> QED
    BY <2>1, <2>2, <2>3
<1>2. ASSUME NEW s \in SUBSET S, NEW x \in S \ s, s \in G PROVE s \cup {x} \in G
  <2> DEFINE t == s \cup {x}
  <2>1. All(s) \in SUBSET Files /\ F[x] \in SUBSET Files /\ All(s) \cap F[x] = {}
    OBVIOUS
  <2>2. All(t) = All(s) \cup F[x]
    OBVIOUS
  <2>3. IsFiniteSet(t) /\ x \in t /\ t \ {x} = s /\ t \in SUBSET S
    BY FS_Subset
  <2>4. \A y \in t : m[y] \in Int
    <3>1. \A y \in S : Bytes(F[y]) \in Nat
      BY BytesAssumption, Zenon
    <3> QED
      BY <2>3, <3>1
  <2>5. SumOf(m, s) = Bytes(All(s))
    BY <1>2
  <2> HIDE DEF t, All
  <2>6. SumOf(m, t) = m[x] + SumOf(m, s)
    <3>1. SumOf(m, t) = m[x] + SumOf(m, t \ {x})
      BY <2>3, <2>4, SumRow
    <3> QED
      BY <2>3, <3>1
  <2>7. Bytes(All(t)) = Bytes(All(s)) + Bytes(F[x])
    BY <2>1, <2>2, BytesUnion
  <2>8. Bytes(F[x]) \in Nat /\ Bytes(All(s)) \in Nat
    BY <2>1, BytesAssumption, Zenon
  <2>9. m[x] = Bytes(F[x])
    OBVIOUS
  <2>10. SumOf(m, t) = Bytes(All(t))
    BY <2>5, <2>6, <2>7, <2>8, <2>9
  <2> QED
    BY <2>3, <2>10 DEF t
<1>3. S \in G
  <2> HIDE DEF G
  <2> QED
    BY <1>1, <1>2, RowByRow
<1> QED
  BY <1>3

\* The sum of the stored totals is the sum of the column of totals.
LEMMA TotalsSum ==
  ASSUME NEW S, IsFiniteSet(S), NEW m, \A a \in S : m[a] = tab.stats[a].total
  PROVE  MapThenSumSet(LAMBDA a : tab.stats[a].total, S) = SumOf(m, S)
<1> DEFINE Rec(g) == g = [s \in SUBSET S |-> IF s = {} THEN 0 ELSE tab.stats[Some(s)].total + g[s \ {Some(s)}]]
<1>1. MapThenSumSet(LAMBDA a : tab.stats[a].total, S) = (CHOOSE g : Rec(g))[S]
  BY Zenon DEF MapThenSumSet, MapThenFoldSet, Some
<1>2. \A s \in SUBSET S : s # {} => m[Some(s)] = tab.stats[Some(s)].total
  BY DEF Some
<1>3. ASSUME NEW g PROVE Rec(g) <=> Recurs(m, S, g)
  <2>1. [s \in SUBSET S |-> IF s = {} THEN 0 ELSE tab.stats[Some(s)].total + g[s \ {Some(s)}]]
          = [s \in SUBSET S |-> IF s = {} THEN 0 ELSE m[Some(s)] + g[s \ {Some(s)}]]
    BY <1>2
  <2> QED
    BY <2>1, Zenon DEF Recurs
<1>4. PICK g : Recurs(m, S, g)
  BY RecursionExists
<1> HIDE DEF Rec
<1>5. Rec(CHOOSE h : Rec(h))
  BY <1>3, <1>4, Zenon
<1>6. PICK h : h = (CHOOSE k : Rec(k)) /\ Recurs(m, S, h)
  BY <1>3, <1>5
<1>7. PICK k : k = (CHOOSE j : Recurs(m, S, j)) /\ Recurs(m, S, k)
  BY <1>4, Zenon
<1>8. h[S] = k[S]
  <2>1. S \in SUBSET S
    OBVIOUS
  <2> QED
    BY <1>6, <1>7, <2>1, RecursionUnique
<1>9. SumOf(m, S) = k[S]
  BY <1>7, SumIsRecursive
<1> QED
  BY <1>1, <1>6, <1>8, <1>9

\* The stored totals add up to the bytes of the files.
LEMMA StorageAgrees ==
  ASSUME CatalogInv, ParentsLive
  PROVE  SumRegistryStorageBytes(tab) = MapThenSumSet(LAMBDA a : tab.stats[a].total, LiveArts(tab))
<1> DEFINE A == LiveArts(tab)
           V(a) == LiveVers(tab, a)
           F == [a \in A |-> UNION {Avail(tab, v) : v \in V(a)}]
           m == [a \in A |-> tab.stats[a].total]
<1>0. TypeOK /\ StatsExact
  BY DEF CatalogInv
<1>1. IsFiniteSet(A)
  <2>1. A \in SUBSET Arts
    BY DEF LiveArts
  <2> QED
    BY <2>1, ListingsAssumption, FS_Subset
<1>2. ASSUME NEW a \in A PROVE m[a] = Bytes(F[a])
  <2> DEFINE H == [v \in V(a) |-> Avail(tab, v)]
             k == [v \in V(a) |-> tab.bytes[v]]
  <2>1. IsFiniteSet(V(a)) /\ tab.stats[a].total = SumOf(k, V(a))
    BY StatsAreNumbers
  <2>2. H \in [V(a) -> SUBSET Files]
    BY DEF Avail
  <2>3. \A v, w \in V(a) : v # w => H[v] \cap H[w] = {}
    BY DEF Avail
  <2>4. \A v \in V(a) : k[v] = Bytes(H[v])
    BY <1>0 DEF StatsExact, LiveVers
  <2>5. UNION {H[v] : v \in V(a)} = F[a]
    OBVIOUS
  <2> HIDE DEF H, k, V, F
  <2>6. SumOf(k, V(a)) = Bytes(UNION {H[v] : v \in V(a)})
    BY <2>1, <2>2, <2>3, <2>4, BytesGrouped
  <2> QED
    BY <2>1, <2>5, <2>6
<1>3. F \in [A -> SUBSET Files]
  BY DEF Avail
<1>4. \A a, b \in A : a # b => F[a] \cap F[b] = {}
  BY DEF Avail, LiveVers
<1> DEFINE U == UNION {F[a] : a \in A}
           R == {f \in Files : tab.file[f] = "AVAILABLE"} \ U
<1>5. U = {f \in Files : Counted(f, tab.file[f]) # 0}
  <2>1. ASSUME NEW f \in U PROVE f \in Files /\ Counted(f, tab.file[f]) # 0
    BY <2>1 DEF Avail
  <2>2. ASSUME NEW f \in Files, Counted(f, tab.file[f]) # 0 PROVE f \in U
    <3>1. tab.file[f] \in Present
      BY <2>2 DEF Counted, Present
    <3>2. tab.ver[VerOf[f]] = "live" /\ VerOf[f] \in Vers
      BY <3>1, CatalogAssumption DEF ParentsLive
    <3>3. tab.art[ArtOf[VerOf[f]]] = "live" /\ ArtOf[VerOf[f]] \in Arts
      BY <3>2, CatalogAssumption DEF ParentsLive
    <3>4. VerOf[f] \in V(ArtOf[VerOf[f]]) /\ ArtOf[VerOf[f]] \in A
      BY <3>2, <3>3 DEF LiveVers, LiveArts
    <3>5. f \in Avail(tab, VerOf[f])
      BY <2>2 DEF Avail
    <3>6. f \in F[ArtOf[VerOf[f]]]
      BY <3>4, <3>5
    <3> HIDE DEF F, A
    <3> QED
      BY <3>4, <3>6
  <2> HIDE DEF U
  <2> QED
    BY <2>1, <2>2
<1>6. U \in SUBSET Files /\ R \in SUBSET Files /\ U \cap R = {} /\ U \cup R = {f \in Files : tab.file[f] = "AVAILABLE"}
  <2>1. \A f \in Files : Counted(f, tab.file[f]) # 0 => tab.file[f] = "AVAILABLE"
    BY DEF Counted
  <2> HIDE DEF U
  <2> QED
    BY <1>5, <2>1
<1>7. \A f \in R : SizeOf[f] = 0
  <2> HIDE DEF U
  <2> QED
    BY <1>5 DEF Counted
<1> HIDE DEF U, R
<1>8. Bytes(R) = 0 /\ Bytes(U) \in Nat
  <2>1. Bytes(R) = 0
    BY <1>6, <1>7, BytesZero
  <2>2. Bytes(U) \in Nat
    BY <1>6, BytesAssumption, Zenon
  <2> QED
    BY <2>1, <2>2
<1>9. Bytes(U \cup R) = Bytes(U)
  <2>1. Bytes(U \cup R) = Bytes(U) + Bytes(R)
    BY <1>6, BytesUnion
  <2> QED
    BY <1>8, <2>1
<1>10. SumRegistryStorageBytes(tab) = Bytes(U)
  BY <1>6, <1>9 DEF SumRegistryStorageBytes
<1>11. \A a \in A : m[a] = tab.stats[a].total
  OBVIOUS
<1> HIDE DEF m, F, A
<1>12. SumOf(m, A) = Bytes(U)
  BY <1>1, <1>2, <1>3, <1>4, BytesGrouped DEF U
<1>13. MapThenSumSet(LAMBDA a : tab.stats[a].total, A) = SumOf(m, A)
  BY <1>1, <1>11, TotalsSum
<1> QED
  BY <1>10, <1>12, <1>13 DEF A

\* The stored count tells whether there are versions.
LEMMA CountTells ==
  ASSUME CatalogInv, NEW a \in LiveArts(tab)
  PROVE  /\ tab.stats[a].count <= 0 <=> LiveVers(tab, a) = {}
         /\ tab.stats[a].count >= 1 <=> LiveVers(tab, a) # {}
         /\ tab.stats[a].count > 0 <=> LiveVers(tab, a) # {}
<1> DEFINE V == LiveVers(tab, a)
           n == tab.stats[a].count
<1>1. IsFiniteSet(V) /\ n = Cardinality(V) /\ n \in Nat
  BY StatsAreNumbers
<1>2. Cardinality(V) = 0 <=> V = {}
  BY <1>1, FS_EmptySet
<1> HIDE DEF V, n
<1>3. /\ n <= 0 <=> V = {}
      /\ n >= 1 <=> V # {}
      /\ n > 0 <=> V # {}
  BY <1>1, <1>2
<1> QED
  BY <1>3 DEF V, n

\* A query that gives these parameters and no more.
Asks(q, t, least, most, files, partial) ==
  /\ q.names = Null /\ q.among = Null /\ q.minTotalBytes = Null
  /\ q.olderThan = t /\ q.minVersions = least /\ q.maxVersions = most
  /\ q.hasFiles = files /\ q.hasIncompleteFiles = partial

\* Values of parameters that are given.
LEMMA NotNull == Null # 0 /\ Null # 1 /\ Null # FALSE /\ Null # TRUE /\ \A n \in Nat : n # Null
<1>1. Null \notin Nat /\ Null \notin BOOLEAN
  BY ListingsAssumption
<1>2. Null # 0 /\ Null # 1
  BY <1>1
<1>3. FALSE \in BOOLEAN /\ TRUE \in BOOLEAN
  OBVIOUS
<1>4. Null # FALSE /\ Null # TRUE
  BY <1>1, <1>3, Zenon
<1> QED
  BY <1>1, <1>2, <1>4, Zenon

\* maxVersions=0 is the view of the empty artifacts.
LEMMA EmptyAgrees ==
  ASSUME CatalogInv, NEW t \in Nat, NEW born, NEW q, Asks(q, t, Null, 0, Null, Null)
  PROVE  Selected(tab, born, q) = ListEmptyArtifacts(tab, born, t)
<1>1. ASSUME NEW a \in LiveArts(tab)
      PROVE  matches(tab, born, q, a) <=> born[a] < t /\ LiveVers(tab, a) = {}
  <2>1. matches(tab, born, q, a) <=> born[a] < t /\ tab.stats[a].count <= 0
    BY NotNull, Zenon DEF Asks, matches, Given
  <2> QED
    BY <2>1, CountTells, Zenon
<1>2. LiveArts(tab) \subseteq Arts
  BY DEF LiveArts
<1> QED
  BY <1>1, <1>2, Zenon DEF Selected, ListEmptyArtifacts

\* minVersions=1&hasFiles=false is the view of the artifacts without files.
LEMMA BareAgrees ==
  ASSUME CatalogInv, NEW t \in Nat, NEW born, NEW q, Asks(q, t, 1, Null, FALSE, Null)
  PROVE  Selected(tab, born, q) = ListArtifactsWithoutFiles(tab, born, t)
<1>1. ASSUME NEW a \in LiveArts(tab)
      PROVE  matches(tab, born, q, a) <=> born[a] < t /\ LiveVers(tab, a) # {} /\ FilesIn(tab, a) = {}
  <2>1. matches(tab, born, q, a) <=> born[a] < t /\ tab.stats[a].count >= 1 /\ (FilesIn(tab, a) # {}) = FALSE
    BY NotNull, Zenon DEF Asks, matches, Given
  <2>2. (FilesIn(tab, a) # {}) = FALSE <=> FilesIn(tab, a) = {}
    BY Zenon
  <2> QED
    BY <2>1, <2>2, CountTells, Zenon
<1> QED
  BY <1>1, Zenon DEF Selected, ListArtifactsWithoutFiles

\* hasIncompleteFiles=true finds the artifacts of the incomplete files.
LEMMA BrokenAgrees ==
  ASSUME ParentsLive, NEW born, NEW q, Asks(q, Null, Null, Null, Null, TRUE)
  PROVE  Selected(tab, born, q) = {ArtOf[VerOf[f]] : f \in ListIncompleteFiles(tab)}
<1>1. ASSUME NEW a \in LiveArts(tab)
      PROVE  matches(tab, born, q, a) <=> Incomplete(tab, FilesIn(tab, a)) # {}
  <2>1. matches(tab, born, q, a) <=> (Incomplete(tab, FilesIn(tab, a)) # {}) = TRUE
    BY NotNull, Zenon DEF Asks, matches, Given
  <2> QED
    BY <2>1, Zenon
<1>2. ASSUME NEW a \in LiveArts(tab), NEW f \in Incomplete(tab, FilesIn(tab, a))
      PROVE  f \in ListIncompleteFiles(tab) /\ a = ArtOf[VerOf[f]]
  <2>1. PICK v \in LiveVers(tab, a) : f \in FilesOf(tab, v)
    BY DEF Incomplete, FilesIn
  <2>2. f \in Files /\ VerOf[f] = v /\ ArtOf[v] = a /\ tab.file[f] \in Present
    BY <2>1 DEF FilesOf, LiveVers
  <2> QED
    BY <2>2 DEF ListIncompleteFiles, Incomplete
<1>3. ASSUME NEW f \in ListIncompleteFiles(tab)
      PROVE  ArtOf[VerOf[f]] \in LiveArts(tab) /\ f \in Incomplete(tab, FilesIn(tab, ArtOf[VerOf[f]]))
  <2>1. f \in Files /\ tab.file[f] \in Present /\ tab.file[f] \in {"PENDING", "ERROR"}
    BY DEF ListIncompleteFiles, Incomplete
  <2>2. tab.ver[VerOf[f]] = "live" /\ VerOf[f] \in Vers
    BY <2>1, CatalogAssumption DEF ParentsLive
  <2>3. tab.art[ArtOf[VerOf[f]]] = "live" /\ ArtOf[VerOf[f]] \in Arts
    BY <2>2, CatalogAssumption DEF ParentsLive
  <2>4. VerOf[f] \in LiveVers(tab, ArtOf[VerOf[f]]) /\ f \in FilesOf(tab, VerOf[f])
    BY <2>1, <2>2 DEF LiveVers, FilesOf
  <2>5. f \in FilesIn(tab, ArtOf[VerOf[f]])
    BY <2>4 DEF FilesIn
  <2> QED
    BY <2>1, <2>3, <2>5 DEF LiveArts, Incomplete
<1>4. Selected(tab, born, q) = {a \in LiveArts(tab) : Incomplete(tab, FilesIn(tab, a)) # {}}
  BY <1>1, Zenon DEF Selected
<1> QED
  BY <1>2, <1>3, <1>4

LEMMA BareVersionsAgree ==
  ASSUME NEW s \in ListVersions(tab, FALSE)
  PROVE  Range(s) = ListVersionsWithoutFiles(tab)
<1> DEFINE S == {v \in AllVers(tab) : Given(FALSE, LAMBDA x : (FilesOf(tab, v) # {}) = x)}
<1>1. FALSE \in BOOLEAN \cup {Null}
  BY Zenon
<1>2. IsFiniteSet(S) /\ ListVersions(tab, FALSE) \subseteq SetToSeqs(S)
  BY <1>1, VersionLists
<1>3. S = ListVersionsWithoutFiles(tab)
  <2>1. S = {v \in AllVers(tab) : (FilesOf(tab, v) # {}) = FALSE}
    BY NotNull, Zenon DEF Given
  <2> QED
    BY <2>1, Zenon DEF ListVersionsWithoutFiles
<1> HIDE DEF S
<1>4. Range(s) = S
  BY <1>2, OrderLists
<1> QED
  BY <1>3, <1>4

LEMMA CountAgrees ==
  ASSUME CatalogInv, NEW born, NEW t, \A a \in Arts : born[a] < t
  PROVE  CountArtifactsWithVersionsButNoFiles(tab) = Cardinality(ListArtifactsWithoutFiles(tab, born, t))
<1>1. \A a \in LiveArts(tab) : a \in Arts /\ (tab.stats[a].count > 0 <=> LiveVers(tab, a) # {})
  BY CountTells DEF LiveArts
<1>2. {a \in LiveArts(tab) : tab.stats[a].count > 0 /\ FilesIn(tab, a) = {}}
        = ListArtifactsWithoutFiles(tab, born, t)
  BY <1>1, Zenon DEF ListArtifactsWithoutFiles
<1> QED
  BY <1>2 DEF CountArtifactsWithVersionsButNoFiles

LEMMA TagsAgree ==
  ASSUME NEW tags
  PROVE  CountBrokenTags(tab, tags) = Cardinality(ListTagsFiltered(tab, tags, TRUE))
<1>1. ASSUME NEW v
      PROVE  (\A f \in FilesOf(tab, v) : tab.file[f] # "AVAILABLE")
               <=> ~\E f \in Files : VerOf[f] = v /\ tab.file[f] = "AVAILABLE"
  BY DEF FilesOf, Present
<1>2. ListTagsFiltered(tab, tags, TRUE) = {v \in tags : \A f \in FilesOf(tab, v) : tab.file[f] # "AVAILABLE"}
  BY Zenon DEF ListTagsFiltered
<1>3. ListTagsFiltered(tab, tags, TRUE) = {v \in tags : ~\E f \in Files : VerOf[f] = v /\ tab.file[f] = "AVAILABLE"}
  BY <1>1, <1>2, Zenon
<1> QED
  BY <1>3 DEF CountBrokenTags

LEMMA ViewsOfTables ==
  ASSUME CatalogInv, ParentsLive
  PROVE  ViewsAgree
<1> DEFINE born == [a \in Arts |-> a]
<1> HIDE DEF born
<1>1. ASSUME NEW t \in {2, 4}
      PROVE  LET Q == [NoFilter EXCEPT !.olderThan = t]
                 empty  == Selected(tab, born, [Q EXCEPT !.maxVersions = 0])
                 bare   == Selected(tab, born, [Q EXCEPT !.minVersions = 1, !.hasFiles = FALSE])
                 broken == Selected(tab, born, [NoFilter EXCEPT !.hasIncompleteFiles = TRUE])
             IN  /\ empty = ListEmptyArtifacts(tab, born, t)
                 /\ bare = ListArtifactsWithoutFiles(tab, born, t)
                 /\ broken = {ArtOf[VerOf[f]] : f \in ListIncompleteFiles(tab)}
                 /\ \A s \in ListVersions(tab, FALSE) : Range(s) = ListVersionsWithoutFiles(tab)
                 /\ (\A a \in Arts : born[a] < t) =>
                      CountArtifactsWithVersionsButNoFiles(tab)
                        = Cardinality(ListArtifactsWithoutFiles(tab, born, t))
                 /\ \A tags \in SUBSET AllVers(tab) :
                      CountBrokenTags(tab, tags) = Cardinality(ListTagsFiltered(tab, tags, TRUE))
                 /\ SumRegistryStorageBytes(tab) = MapThenSumSet(LAMBDA a : tab.stats[a].total, LiveArts(tab))
  <2> DEFINE Q  == [NoFilter EXCEPT !.olderThan = t]
             q1 == [Q EXCEPT !.maxVersions = 0]
             q2 == [Q EXCEPT !.minVersions = 1, !.hasFiles = FALSE]
             q3 == [NoFilter EXCEPT !.hasIncompleteFiles = TRUE]
  <2>0. t \in Nat
    OBVIOUS
  <2>1. Asks(q1, t, Null, 0, Null, Null)
    BY DEF Asks, NoFilter
  <2>2. Asks(q2, t, 1, Null, FALSE, Null)
    BY DEF Asks, NoFilter
  <2>3. Asks(q3, Null, Null, Null, Null, TRUE)
    BY DEF Asks, NoFilter
  <2> HIDE DEF q1, q2, q3
  <2>4. Selected(tab, born, q1) = ListEmptyArtifacts(tab, born, t)
    BY <2>0, <2>1, EmptyAgrees
  <2>5. Selected(tab, born, q2) = ListArtifactsWithoutFiles(tab, born, t)
    BY <2>0, <2>2, BareAgrees
  <2>6. Selected(tab, born, q3) = {ArtOf[VerOf[f]] : f \in ListIncompleteFiles(tab)}
    BY <2>3, BrokenAgrees
  <2>7. \A s \in ListVersions(tab, FALSE) : Range(s) = ListVersionsWithoutFiles(tab)
    BY BareVersionsAgree
  <2>8. (\A a \in Arts : born[a] < t) =>
          CountArtifactsWithVersionsButNoFiles(tab) = Cardinality(ListArtifactsWithoutFiles(tab, born, t))
    BY CountAgrees
  <2>9. \A tags \in SUBSET AllVers(tab) :
          CountBrokenTags(tab, tags) = Cardinality(ListTagsFiltered(tab, tags, TRUE))
    BY TagsAgree
  <2>10. SumRegistryStorageBytes(tab) = MapThenSumSet(LAMBDA a : tab.stats[a].total, LiveArts(tab))
    BY StorageAgrees
  <2> QED
    BY <2>4, <2>5, <2>6, <2>7, <2>8, <2>9, <2>10, Zenon DEF q1, q2, q3, Q
<1> QED
  BY <1>1, Zenon DEF ViewsAgree, born

\* Paging through the artifacts shows every row once and the right total, for any
\* tables that requests can leave, while no offset wraps around (List, ListAll).
THEOREM PagesStayPartitioned ==
  ASSUME OffsetsFit PROVE Spec => []PagesPartition
<1>1. CatalogInv => PagesPartition
  BY PagesOfTables
<1> QED
  BY <1>1, CatalogInvariant, PTL

\* The filters on stored columns, the maintenance views and the metrics agree.
THEOREM ViewsStayAgreed == Spec => []ViewsAgree
<1>1. CatalogInv /\ CascadeInv => ViewsAgree
  BY ViewsOfTables DEF CascadeInv
<1> QED
  BY <1>1, CatalogInvariant, CascadeInvariant, PTL
=============================================================================
