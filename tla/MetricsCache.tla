---------------------------- MODULE MetricsCache ----------------------------
(***************************************************************************)
(* The cached metrics of one replica: Cache.Get called by concurrent       *)
(* requests, the load it collapses with singleflight, and a database that  *)
(* other requests change meanwhile.                                        *)
(*                                                                         *)
(* The database is the number of commits so far, and every count a load    *)
(* reads is that number at the count's snapshot.  The two queries of the   *)
(* model stand for the thirteen of the code.                               *)
(*                                                                         *)
(* Operators named X_something are seeded bugs of X.                       *)
(***************************************************************************)
EXTENDS Naturals

CONSTANTS
  Callers,      \* concurrent GET /metrics requests
  TTL,          \* METRICS_CACHE_TTL
  MaxTime,      \* bound on the clock
  MaxCommits,   \* bound on the commits to the database
  Nil,          \* no snapshot, no call in flight
  Error         \* what Get returns when a query failed

Snapshot == [first : Nat, second : Nat, cachedAt : Nat]

ASSUME CacheAssumption ==
  /\ Nil \notin Callers \cup Snapshot
  /\ Error \notin Snapshot \cup {Nil}
  /\ TTL \in Nat /\ MaxTime \in Nat /\ MaxCommits \in Nat

VARIABLES
  now,       \* the clock
  commits,   \* the database
  snap,      \* Cache.snap
  flight,    \* the caller that runs the load, Nil if none: Cache.group
  pc,        \* caller -> the step of Get it makes next
  val,       \* caller -> what the load it runs has read
  gone,      \* callers whose client has disconnected
  failed,    \* a query has failed
  got,       \* caller -> what its last Get returned
  highest,   \* the newest state any Get has returned
  floor      \* caller -> highest when its Get began

env  == <<now, commits>>
vars == <<now, commits, snap, flight, pc, val, gone, failed, got, highest, floor>>

Init ==
  /\ now = 0
  /\ commits = 0
  /\ snap = Nil
  /\ flight = Nil
  /\ pc = [c \in Callers |-> "idle"]
  /\ val = [c \in Callers |-> Nil]
  /\ gone = {}
  /\ failed = FALSE
  /\ got = [c \in Callers |-> Nil]
  /\ highest = 0
  /\ floor = [c \in Callers |-> 0]

Goto(c, l) == pc' = [pc EXCEPT ![c] = l]

\* The callers C return s.
Return(C, s) ==
  /\ pc' = [c \in Callers |-> IF c \in C THEN "idle" ELSE pc[c]]
  /\ got' = [c \in Callers |-> IF c \in C THEN s ELSE got[c]]
  /\ highest' = IF s # Error /\ s.first > highest THEN s.first ELSE highest
  /\ gone' = gone \ C

-----------------------------------------------------------------------------
(* The rest of the world                                                   *)

Tick ==
  /\ now < MaxTime
  /\ now' = now + 1
  /\ UNCHANGED <<commits, snap, flight, pc, val, gone, failed, got, highest, floor>>

Commit ==
  /\ commits < MaxCommits
  /\ commits' = commits + 1
  /\ UNCHANGED <<now, snap, flight, pc, val, gone, failed, got, highest, floor>>

\* The request's context is cancelled.  Get never looks at it.
Disconnect(c) ==
  /\ pc[c] # "idle"
  /\ c \notin gone
  /\ gone' = gone \cup {c}
  /\ UNCHANGED <<env, snap, flight, pc, val, failed, got, highest, floor>>

-----------------------------------------------------------------------------
(* Cache.Get                                                               *)

Request(c) ==
  /\ pc[c] = "idle"
  /\ Goto(c, "check")
  /\ floor' = [floor EXCEPT ![c] = highest]
  /\ UNCHANGED <<env, snap, flight, val, gone, failed, got, highest>>

Fresh == snap # Nil /\ now - snap.cachedAt < TTL

\* Under the read lock.
Check(c) ==
  /\ pc[c] = "check"
  /\ \/ Fresh /\ Return({c}, snap)
     \/ ~Fresh /\ Goto(c, "do") /\ UNCHANGED <<gone, got, highest>>
  /\ UNCHANGED <<env, snap, flight, val, failed, floor>>

\* group.Do: wait for the call in flight, or become it.
Join(c) ==
  /\ pc[c] = "do" /\ flight # Nil
  /\ Goto(c, "wait")
  /\ UNCHANGED <<env, snap, flight, val, gone, failed, got, highest, floor>>

Lead_direct(c) ==
  /\ pc[c] = "do"
  /\ flight' = c
  /\ Goto(c, "load")
  /\ UNCHANGED <<env, snap, val, gone, failed, got, highest, floor>>

Lead(c) ==
  /\ pc[c] = "do" /\ flight = Nil
  /\ flight' = c
  /\ Goto(c, "load")
  /\ UNCHANGED <<env, snap, val, gone, failed, got, highest, floor>>

\* load: the first query fixes the snapshot of the REPEATABLE READ
\* transaction, the rest read it too, and the clock is read last.
QueryFirst(c) ==
  /\ pc[c] = "load"
  /\ val' = [val EXCEPT ![c] = [first |-> commits, second |-> 0, cachedAt |-> 0]]
  /\ Goto(c, "query")
  /\ UNCHANGED <<env, snap, flight, gone, failed, got, highest, floor>>

QueryRest_readCommitted(c) ==
  /\ pc[c] = "query"
  /\ val' = [val EXCEPT ![c] =
                [first |-> val[c].first, second |-> commits, cachedAt |-> now]]
  /\ Goto(c, "store")
  /\ UNCHANGED <<env, snap, flight, gone, failed, got, highest, floor>>

QueryRest(c) ==
  /\ pc[c] = "query"
  /\ val' = [val EXCEPT ![c] =
                [first |-> val[c].first, second |-> val[c].first, cachedAt |-> now]]
  /\ Goto(c, "store")
  /\ UNCHANGED <<env, snap, flight, gone, failed, got, highest, floor>>

LoadFails_noReturn(c) ==
  /\ pc[c] \in {"load", "query"}
  /\ failed' = TRUE
  /\ val' = [val EXCEPT ![c] = Error]
  /\ Goto(c, "store")
  /\ UNCHANGED <<env, snap, flight, gone, got, highest, floor>>

LoadFails_requestContext(c) ==
  /\ pc[c] \in {"load", "query"}
  /\ failed' \in IF c \in gone THEN {failed, TRUE} ELSE {TRUE}
  /\ val' = [val EXCEPT ![c] = Error]
  /\ Goto(c, "finish")
  /\ UNCHANGED <<env, snap, flight, gone, got, highest, floor>>

\* A query fails.  The load runs under a context of its own, so the client of
\* the caller that runs it cannot cancel it.
LoadFails(c) ==
  /\ pc[c] \in {"load", "query"}
  /\ failed' = TRUE
  /\ val' = [val EXCEPT ![c] = Error]
  /\ Goto(c, "finish")
  /\ UNCHANGED <<env, snap, flight, gone, got, highest, floor>>

\* Under the write lock.
Store(c) ==
  /\ pc[c] = "store"
  /\ snap' = val[c]
  /\ Goto(c, "finish")
  /\ UNCHANGED <<env, flight, val, gone, failed, got, highest, floor>>

Finish_leaderOnly(c) ==
  /\ pc[c] = "finish"
  /\ flight' = Nil
  /\ Return({c} \cup {w \in Callers : pc[w] = "wait" /\ val[c] # Error}, val[c])
  /\ val' = [val EXCEPT ![c] = Nil]
  /\ UNCHANGED <<env, snap, failed, floor>>

\* The call leaves the group and everyone who waits for it gets its result.
Finish(c) ==
  /\ pc[c] = "finish"
  /\ flight' = Nil
  /\ Return({c} \cup {w \in Callers : pc[w] = "wait"}, val[c])
  /\ val' = [val EXCEPT ![c] = Nil]
  /\ UNCHANGED <<env, snap, failed, floor>>

Get(c) ==
  \/ Check(c) \/ Join(c) \/ Lead(c) \/ QueryFirst(c) \/ QueryRest(c)
  \/ LoadFails(c) \/ Store(c) \/ Finish(c)

Next ==
  \/ Tick \/ Commit
  \/ \E c \in Callers : Request(c) \/ Disconnect(c) \/ Get(c)

Spec == Init /\ [][Next]_vars

\* A goroutine in Get keeps running, and a query returns or fails.
FairSpec == Spec /\ \A c \in Callers : WF_vars(Get(c))

-----------------------------------------------------------------------------
(* Properties                                                              *)

\* The type invariant.
TypeOK ==
  /\ now \in Nat /\ commits \in Nat
  /\ snap \in Snapshot \cup {Nil}
  /\ flight \in Callers \cup {Nil}
  /\ pc \in [Callers -> {"idle", "check", "do", "wait", "load", "query", "store", "finish"}]
  /\ val \in [Callers -> Snapshot \cup {Nil, Error}]
  /\ gone \subseteq Callers
  /\ failed \in BOOLEAN
  /\ got \in [Callers -> Snapshot \cup {Nil, Error}]
  /\ highest \in Nat
  /\ floor \in [Callers -> Nat]

\* All counts of an answer belong to one state of the database.
Coherent == \A c \in Callers : got[c] \in Snapshot => got[c].first = got[c].second

\* Answers do not go back: a Get that begins after another has returned never
\* shows an older state, whether it hits, waits or loads, and although a load
\* may be started by a caller that looked at the cache long ago.
MonotonicReads ==
  \A c \in Callers :
    pc[c] = "idle" /\ got[c] \in Snapshot => got[c].first >= floor[c]

\* A client that disconnects does not fail the callers that wait for its load:
\* an error means that a query failed.
ErrorsAreReal == (\E c \in Callers : got[c] = Error) => failed

\* Why they hold: one caller runs the load, what it has read is not older than
\* what is cached, and what is cached is not older than any answer.
Running == {"load", "query", "store", "finish"}

FlightInv ==
  \A c \in Callers : /\ pc[c] \in Running <=> flight = c
                     /\ pc[c] = "wait" => flight # Nil

LoadInv ==
  \A c \in Callers :
    /\ pc[c] \in {"query", "store"} => val[c] \in Snapshot
    /\ pc[c] = "store" => val[c].first = val[c].second
    /\ pc[c] = "finish" => (val[c] = Error /\ failed) \/ (val[c] = snap /\ snap # Nil)

OrderInv ==
  /\ snap # Nil => snap.first = snap.second /\ snap.first <= commits /\ highest <= snap.first
  /\ snap = Nil => highest = 0
  /\ \A c \in Callers :
       /\ floor[c] <= highest
       /\ pc[c] \in {"query", "store"} =>
            val[c].first <= commits /\ (snap # Nil => snap.first <= val[c].first)

CacheInv ==
  /\ TypeOK /\ FlightInv /\ LoadInv /\ OrderInv
  /\ Coherent /\ MonotonicReads /\ ErrorsAreReal

\* Every Get returns, those that wait for a load that fails included.
AllAnswered == \A c \in Callers : (pc[c] # "idle") ~> (pc[c] = "idle")
=============================================================================
