------------------------- MODULE MetricsCacheProofs -------------------------
(***************************************************************************)
(* Answers are coherent, never go back and fail only with the database,    *)
(* for any number of callers and any time to live.                         *)
(***************************************************************************)
EXTENDS MetricsCache, TLAPS

USE CacheAssumption

\* The empty cache.
LEMMA CacheInit == Init => CacheInv
<1> SUFFICES ASSUME Init PROVE CacheInv
  OBVIOUS
<1> USE DEF Init
<1>1. TypeOK
  BY DEF TypeOK
<1>2. \A c \in Callers : pc[c] = "idle" /\ got[c] = Nil /\ floor[c] = 0
  OBVIOUS
<1>3. FlightInv
  BY <1>2 DEF FlightInv, Running
<1>4. LoadInv
  BY <1>2 DEF LoadInv
<1>5. OrderInv
  BY <1>2 DEF OrderInv
<1>6. \A c \in Callers : got[c] \notin Snapshot /\ got[c] # Error
  BY <1>2
<1>7. Coherent /\ MonotonicReads /\ ErrorsAreReal
  BY <1>6 DEF Coherent, MonotonicReads, ErrorsAreReal
<1> QED
  BY <1>1, <1>3, <1>4, <1>5, <1>7 DEF CacheInv

\* Time, commits and clients that go away disturb nothing.
LEMMA WorldStep ==
  ASSUME CacheInv, Tick \/ Commit \/ \E c \in Callers : Disconnect(c)
  PROVE  CacheInv'
<1> USE DEF CacheInv
<1>1. UNCHANGED <<snap, flight, pc, val, failed, got, highest, floor>> /\ commits' \in Nat
        /\ commits <= commits' /\ now' \in Nat /\ gone' \subseteq Callers
  BY DEF TypeOK, Tick, Commit, Disconnect, env
<1>2. TypeOK'
  BY <1>1 DEF TypeOK
<1>3. \A c \in Callers : pc[c] \in {"query", "store"} => val[c].first \in Nat
  BY DEF LoadInv, Snapshot
<1>4. snap # Nil => snap.first \in Nat
  BY DEF TypeOK, Snapshot
<1>5. OrderInv'
  BY <1>1, <1>3, <1>4 DEF OrderInv, TypeOK
<1> QED
  BY <1>1, <1>2, <1>5 DEF FlightInv, LoadInv, Coherent, MonotonicReads, ErrorsAreReal

\* A caller that only moves on, outside the load or into its first query.
LEMMA MoveStep ==
  ASSUME CacheInv, NEW c \in Callers,
         \/ Request(c) \/ Join(c) \/ Lead(c)
         \/ Check(c) /\ ~Fresh
  PROVE  CacheInv'
<1> USE DEF CacheInv
<1>1. UNCHANGED <<now, commits, snap, val, gone, failed, got, highest>>
  BY DEF Request, Join, Lead, Check, env, Goto
<1>2. PICK l \in {"check", "do", "wait", "load"} :
        pc' = [pc EXCEPT ![c] = l] /\ (l = "load" <=> flight' = c) /\ (l = "wait" => flight # Nil)
          /\ (l = "load" => flight = Nil) /\ (l # "load" => flight' = flight)
  BY DEF Request, Join, Lead, Check, Goto, FlightInv, Running
<1>3. pc[c] \notin Running /\ pc[c] # "wait" /\ flight' \in Callers \cup {Nil}
  BY DEF Request, Join, Lead, Check, TypeOK, Running
<1>4. \A d \in Callers : pc'[d] = IF d = c THEN l ELSE pc[d]
  BY <1>2 DEF TypeOK
<1>5. floor' = floor \/ floor' = [floor EXCEPT ![c] = highest]
  BY DEF Request, Join, Lead, Check
<1>6. \A d \in Callers : floor'[d] = floor[d] \/ (d = c /\ floor'[d] = highest)
  BY <1>5 DEF TypeOK
<1>7. TypeOK'
  BY <1>1, <1>2, <1>3, <1>5 DEF TypeOK
<1>8. FlightInv'
  BY <1>2, <1>3, <1>4 DEF FlightInv, Running, TypeOK
<1>9. LoadInv'
  BY <1>1, <1>4 DEF LoadInv
<1>10. OrderInv'
  <2>1. highest <= highest
    BY DEF TypeOK
  <2> QED
    BY <1>1, <1>4, <1>6, <2>1 DEF OrderInv
<1>11. Coherent' /\ MonotonicReads' /\ ErrorsAreReal'
  <2>1. \A d \in Callers : pc'[d] = "idle" => d # c
    BY <1>4
  <2> QED
    BY <1>1, <1>4, <1>6, <2>1 DEF Coherent, MonotonicReads, ErrorsAreReal
<1> QED
  BY <1>7, <1>8, <1>9, <1>10, <1>11

\* The steps of the load: what is read is not older than what is cached.
LEMMA LoadStep ==
  ASSUME CacheInv, NEW c \in Callers,
         QueryFirst(c) \/ QueryRest(c) \/ LoadFails(c) \/ Store(c)
  PROVE  CacheInv'
<1> USE DEF CacheInv
<1>1. UNCHANGED <<now, commits, flight, gone, got, highest, floor>> /\ pc[c] \in Running
  BY DEF QueryFirst, QueryRest, LoadFails, Store, env, Running
<1>2. PICK l \in {"query", "store", "finish"} : pc' = [pc EXCEPT ![c] = l]
  BY DEF QueryFirst, QueryRest, LoadFails, Store, Goto
<1>3. \A d \in Callers : pc'[d] = IF d = c THEN l ELSE pc[d]
  BY <1>2 DEF TypeOK
<1>4. PICK v \in Snapshot \cup {Error} : val' = [val EXCEPT ![c] = v]
  <2>1. CASE QueryFirst(c)
    BY <2>1 DEF QueryFirst, Snapshot, TypeOK
  <2>2. CASE QueryRest(c)
    BY <2>2 DEF QueryRest, LoadInv, Snapshot, TypeOK
  <2>3. CASE LoadFails(c)
    BY <2>3 DEF LoadFails
  <2>4. CASE Store(c)
    <3>1. val' = [val EXCEPT ![c] = val[c]] /\ val[c] \in Snapshot
      BY <2>4 DEF Store, LoadInv, TypeOK
    <3> QED
      BY <3>1
  <2> QED
    BY <2>1, <2>2, <2>3, <2>4
<1>5. \A d \in Callers : val'[d] = IF d = c THEN v ELSE val[d]
  BY <1>4 DEF TypeOK
<1>6. \A d \in Callers : d # c => pc[d] \notin Running
  BY <1>1 DEF FlightInv
<1>7. snap' \in Snapshot \cup {Nil} /\ failed' \in BOOLEAN /\ (failed => failed')
  BY DEF QueryFirst, QueryRest, LoadFails, Store, LoadInv, TypeOK
<1>8. TypeOK'
  BY <1>1, <1>2, <1>4, <1>7 DEF TypeOK
<1>9. FlightInv'
  BY <1>1, <1>3 DEF FlightInv, Running
<1>10. Coherent' /\ MonotonicReads' /\ ErrorsAreReal'
  BY <1>1, <1>3, <1>7 DEF Coherent, MonotonicReads, ErrorsAreReal
<1>11. commits \in Nat /\ highest \in Nat /\ (snap # Nil => snap.first \in Nat)
         /\ (val[c] \in Snapshot => val[c].first \in Nat)
  BY DEF TypeOK, Snapshot
<1>12. LoadInv' /\ OrderInv'
  <2>1. CASE QueryFirst(c)
    <3>1. UNCHANGED <<snap, failed>> /\ l = "query"
            /\ v = [first |-> commits, second |-> 0, cachedAt |-> 0]
      BY <2>1, <1>3, <1>5 DEF QueryFirst, Goto, TypeOK
    <3>2. v \in Snapshot /\ v.first = commits
      BY <1>11, <3>1 DEF Snapshot
    <3> QED
      BY <1>1, <1>3, <1>5, <1>6, <1>11, <3>1, <3>2 DEF LoadInv, OrderInv, Running
  <2>2. CASE QueryRest(c)
    <3>1. UNCHANGED <<snap, failed>> /\ l = "store" /\ pc[c] = "query"
            /\ v = [first |-> val[c].first, second |-> val[c].first, cachedAt |-> now]
      BY <2>2, <1>3, <1>5 DEF QueryRest, Goto, TypeOK
    <3>2. val[c] \in Snapshot
      BY <3>1 DEF LoadInv
    <3>3. v \in Snapshot /\ v.first = val[c].first /\ v.second = val[c].first
      BY <1>11, <3>1, <3>2 DEF Snapshot, TypeOK
    <3> QED
      BY <1>1, <1>3, <1>5, <1>6, <3>1, <3>3 DEF LoadInv, OrderInv, Running
  <2>3. CASE LoadFails(c)
    <3>1. snap' = snap /\ failed' /\ l = "finish" /\ v = Error
      BY <2>3, <1>3, <1>5 DEF LoadFails, Goto, TypeOK
    <3> QED
      BY <1>1, <1>3, <1>5, <1>6, <3>1 DEF LoadInv, OrderInv, Running
  <2>4. CASE Store(c)
    <3>1. snap' = val[c] /\ failed' = failed /\ l = "finish" /\ v = val[c] /\ pc[c] = "store"
      BY <2>4, <1>3, <1>5 DEF Store, Goto, TypeOK
    <3>2. val[c] \in Snapshot /\ val[c] # Nil /\ val[c].first = val[c].second
      BY <3>1 DEF LoadInv
    <3>3. val[c].first <= commits /\ highest <= val[c].first
      BY <1>11, <3>1, <3>2 DEF OrderInv
    <3> QED
      BY <1>1, <1>3, <1>5, <1>6, <3>1, <3>2, <3>3 DEF LoadInv, OrderInv, Running
  <2> QED
    BY <2>1, <2>2, <2>3, <2>4
<1> QED
  BY <1>8, <1>9, <1>10, <1>12

\* Callers return: what they get is the cached snapshot, or the error of a load.
LEMMA ReturnStep ==
  ASSUME CacheInv, NEW c \in Callers, Finish(c) \/ (Check(c) /\ Fresh)
  PROVE  CacheInv'
<1> USE DEF CacheInv
<1>1. PICK C \in SUBSET Callers, s \in Snapshot \cup {Error} :
        /\ Return(C, s)
        /\ (s = snap /\ snap # Nil) \/ (s = Error /\ failed)
        /\ c \in C
        /\ \A d \in C : pc[d] \in {"check", "wait", "finish"}
        /\ \A d \in Callers \ C : pc'[d] = pc[d]
        /\ \/ flight' = flight /\ C = {c} /\ pc[c] = "check"
           \/ flight = c /\ flight' = Nil /\ \A d \in Callers : pc[d] \in Running \cup {"wait"} => d \in C
  <2>1. CASE Finish(c)
    <3> DEFINE C == {c} \cup {w \in Callers : pc[w] = "wait"}
    <3>1. C \in SUBSET Callers /\ Return(C, val[c]) /\ pc[c] = "finish" /\ flight' = Nil
      BY <2>1 DEF Finish
    <3>2. (val[c] = snap /\ snap # Nil) \/ (val[c] = Error /\ failed)
      BY <3>1 DEF LoadInv
    <3>7. val[c] \in Snapshot \cup {Error}
      BY <3>2 DEF TypeOK
    <3>3. flight = c /\ \A d \in Callers : pc[d] \in Running => d = c
      BY <3>1 DEF FlightInv, Running
    <3>4. \A d \in C : pc[d] \in {"check", "wait", "finish"}
      BY <3>1
    <3>5. \A d \in Callers \ C : pc'[d] = pc[d]
      BY <3>1 DEF Return
    <3>6. \A d \in Callers : pc[d] \in Running \cup {"wait"} => d \in C
      BY <3>3
    <3> QED
      BY <3>1, <3>2, <3>3, <3>4, <3>5, <3>6, <3>7
  <2>2. CASE Check(c) /\ Fresh
    <3>1. Return({c}, snap) /\ snap # Nil /\ flight' = flight /\ pc[c] = "check"
      BY <2>2 DEF Check, Fresh
    <3>2. \A d \in Callers \ {c} : pc'[d] = pc[d]
      BY <3>1 DEF Return
    <3>3. snap \in Snapshot \cup {Error}
      BY <3>1 DEF TypeOK
    <3> QED
      BY <3>1, <3>2, <3>3
  <2> QED
    BY <2>1, <2>2
<1>2. UNCHANGED <<now, commits, snap, failed, floor>>
  BY DEF Finish, Check, env
<1>3. \A d \in Callers : pc'[d] = (IF d \in C THEN "idle" ELSE pc[d])
        /\ got'[d] = (IF d \in C THEN s ELSE got[d])
  BY <1>1 DEF Return
<1>4. snap # Nil => snap \in Snapshot /\ snap.first \in Nat
  BY DEF TypeOK, Snapshot
<1>5. highest' \in Nat /\ highest <= highest' /\ (snap # Nil => highest' <= snap.first)
        /\ (snap = Nil => highest' = highest) /\ (s = snap => highest' = snap.first)
  BY <1>1, <1>4 DEF Return, OrderInv, TypeOK
<1>6. val' = val \/ val' = [val EXCEPT ![c] = Nil]
  BY DEF Finish, Check
<1>7. \A d \in Callers : d # c => val'[d] = val[d]
  BY <1>6 DEF TypeOK
<1>8. TypeOK'
  <2>1. pc' \in [Callers -> {"idle", "check", "do", "wait", "load", "query", "store", "finish"}]
    BY <1>1 DEF Return, TypeOK
  <2>2. got' \in [Callers -> Snapshot \cup {Nil, Error}]
    BY <1>1, <1>4 DEF Return, TypeOK
  <2>3. gone' \subseteq Callers /\ flight' \in Callers \cup {Nil}
    BY <1>1 DEF Return, TypeOK
  <2>4. val' \in [Callers -> Snapshot \cup {Nil, Error}]
    BY <1>6 DEF TypeOK
  <2> QED
    BY <1>2, <1>5, <2>1, <2>2, <2>3, <2>4 DEF TypeOK
<1>9. FlightInv'
  <2>1. CASE flight' = flight /\ C = {c} /\ pc[c] = "check"
    BY <1>3, <2>1 DEF FlightInv, Running
  <2>2. CASE flight = c /\ flight' = Nil /\ \A d \in Callers : pc[d] \in Running \cup {"wait"} => d \in C
    BY <1>3, <2>2 DEF FlightInv, Running
  <2> QED
    BY <1>1, <2>1, <2>2
<1>10. LoadInv'
  BY <1>1, <1>2, <1>3, <1>7 DEF LoadInv
<1>11. OrderInv'
  <2>1. \A d \in Callers : floor[d] <= highest /\ floor[d] \in Nat
    BY DEF OrderInv, TypeOK
  <2>2. \A d \in Callers : floor'[d] <= highest'
    BY <1>2, <1>5, <2>1 DEF TypeOK
  <2> QED
    BY <1>1, <1>2, <1>3, <1>5, <1>7, <2>2 DEF OrderInv
<1>12. Coherent'
  BY <1>1, <1>2, <1>3 DEF Coherent, OrderInv
<1>13. MonotonicReads'
  <2>1. ASSUME NEW d \in C, s \in Snapshot PROVE s.first >= floor'[d]
    <3>1. s = snap /\ snap # Nil /\ floor[d] <= highest /\ highest <= snap.first /\ floor[d] \in Nat
      BY <1>1, <2>1 DEF OrderInv, TypeOK
    <3> QED
      BY <1>2, <1>4, <3>1 DEF TypeOK
  <2> QED
    BY <1>2, <1>3, <2>1 DEF MonotonicReads
<1>14. ErrorsAreReal'
  <2>1. s = Error => failed
    BY <1>1, <1>4
  <2> QED
    BY <1>2, <1>3, <2>1 DEF ErrorsAreReal
<1> QED
  BY <1>8, <1>9, <1>10, <1>11, <1>12, <1>13, <1>14

\* CacheInv is an invariant of the cache.
THEOREM CacheInvariance == Spec => []CacheInv
<1>1. CacheInv /\ [Next]_vars => CacheInv'
  <2> SUFFICES ASSUME CacheInv, [Next]_vars PROVE CacheInv'
    OBVIOUS
  <2>1. CASE Next
    BY <2>1, WorldStep, MoveStep, LoadStep, ReturnStep DEF Next, Get
  <2>2. CASE UNCHANGED vars
    BY <2>2 DEF vars, CacheInv, TypeOK, FlightInv, LoadInv, OrderInv, Coherent,
                MonotonicReads, ErrorsAreReal
  <2> QED
    BY <2>1, <2>2
<1> QED
  BY CacheInit, <1>1, PTL DEF Spec

\* A Get that begins after another has returned never shows an older state.
THEOREM AnswersNeverGoBack == Spec => []MonotonicReads
<1>1. CacheInv => MonotonicReads
  BY DEF CacheInv
<1> QED
  BY <1>1, CacheInvariance, PTL

\* All counts of an answer belong to one state of the database.
THEOREM AnswersAreCoherent == Spec => []Coherent
<1>1. CacheInv => Coherent
  BY DEF CacheInv
<1> QED
  BY <1>1, CacheInvariance, PTL

\* A caller gets an error only if a query has failed.
THEOREM ErrorsComeFromQueries == Spec => []ErrorsAreReal
<1>1. CacheInv => ErrorsAreReal
  BY DEF CacheInv
<1> QED
  BY <1>1, CacheInvariance, PTL

\* Types, for any number of callers.
THEOREM CacheTypes == Spec => []TypeOK
<1>1. CacheInv => TypeOK
  BY DEF CacheInv
<1> QED
  BY <1>1, CacheInvariance, PTL
=============================================================================
