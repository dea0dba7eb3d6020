--------------------------- MODULE DatabaseProofs ---------------------------
(***************************************************************************)
(* What holds of the database file for every number of threads,            *)
(* migrations, writes, backups, restores and faults: a thread that         *)
(* registers its connection while nobody applies the schema sees all of    *)
(* it, and no version is recorded before it is applied; what is called a   *)
(* backup is one, the newest is never rotated out, and what a restore      *)
(* found is never lost.                                                    *)
(***************************************************************************)
EXTENDS MCDatabase, FiniteSetTheorems, WellFoundedInduction, TLAPS

Places == {"out", "opening", "schema", "ddl", "in"}

\* The shape of the state; a thread that is on its way runs.
Shape ==
    /\ running \subseteq Procs /\ owner \in running \cup {None}
    /\ ensured \in [Procs -> BOOLEAN]
    /\ ddl \in [Procs -> AllThreads \cup {None}]
    /\ thr \in [AllThreads -> [at : Places, tries : 0..Retries, pos : Steps \cup {0}]]
    /\ slipped \subseteq AllThreads
    /\ db \in [done : SUBSET (0..Migrations), recorded : SUBSET (1..Migrations)]
    /\ \A t \in AllThreads : thr[t].at # "out" => ProcOf(t) \in running

\* One thread of a process applies the schema: the one that holds the lock.
LockHeld == \A t \in AllThreads : thr[t].at = "ddl" => ddl[ProcOf(t)] = t

\* Every other thread is before the first statement.
OthersWait == \A t \in AllThreads : thr[t].at # "ddl" => thr[t].pos = 1

\* What a thread before its statement k leaves behind: every earlier version
\* is applied, and after the last statement all of them are.
Passed(k, c) ==
    IF k = 0 THEN Complete(c)
             ELSE \A v \in 0..Migrations : k > 1 /\ 2 * v < k => v \in c.done

ScriptAdvances == \A t \in AllThreads : thr[t].at = "ddl" => Passed(thr[t].pos, db)

\* The flag of a process is up and nobody applies the schema: it is complete.
FlagIsTrue == \A p \in Procs : ensured[p] /\ ddl[p] = None => Complete(db)

SchemaInv ==
    /\ Shape /\ LockHeld /\ OthersWait /\ ScriptAdvances /\ FlagIsTrue
    /\ QueriesSeeSchema /\ RecordedIsApplied

-----------------------------------------------------------------------------
\* A set of numbers that is not empty has a least element.
LEMMA Least ==
    ASSUME NEW T \in SUBSET Nat, T # {}
    PROVE  \E j \in T : \A i \in T : j <= i
<1>1. PICK j \in T : \A i \in T : <<i, j>> \notin OpToRel(<, Nat)
  BY NatLessThanWellFounded, WFMin
<1>2. ASSUME NEW i \in T PROVE j <= i
  <2>1. ~ (i < j)
    BY <1>1 DEF OpToRel
  <2> QED
    BY <2>1
<1> QED
  BY <1>2

\* Which statement is which: the base tables come first, a version takes two.
LEMMA Numbering ==
    ASSUME ConnectionsAssumption
    PROVE  /\ \A k \in Steps : /\ Version(k) \in 0..Migrations
                               /\ IsRecord(k) => 2 * Version(k) + 1 = k /\ Version(k) > 0
                               /\ ~IsRecord(k) /\ k > 1 => 2 * Version(k) = k
           /\ \A v \in 1..Migrations : /\ 2 * v \in Steps /\ 2 * v + 1 \in Steps
                                       /\ Version(2 * v) = v /\ ~IsRecord(2 * v)
                                       /\ IsRecord(2 * v + 1)
BY DEF ConnectionsAssumption, Steps, Version, IsRecord

\* A statement applies or records a version and takes nothing away.
LEMMA AppliedGrows ==
    ASSUME ConnectionsAssumption, NEW k \in Steps,
           NEW c \in [done : SUBSET (0..Migrations), recorded : SUBSET (1..Migrations)],
           c.recorded \subseteq c.done, Passed(k, c)
    PROVE  /\ Applied(c, k) \in [done : SUBSET (0..Migrations), recorded : SUBSET (1..Migrations)]
           /\ c.done \subseteq Applied(c, k).done
           /\ Applied(c, k).recorded \subseteq Applied(c, k).done
           /\ \A v \in 0..Migrations : 2 * v <= k => v \in Applied(c, k).done
<1>0. Migrations \in Nat /\ k \in Nat /\ k > 0
  BY DEF ConnectionsAssumption, Steps
<1>1. CASE k = 1
  <2>1. Applied(c, k) = [c EXCEPT !.done = @ \cup {0}]
    BY <1>1 DEF Applied, IsRecord
  <2>2. Applied(c, k).done = c.done \cup {0} /\ Applied(c, k).recorded = c.recorded
    BY <2>1
  <2>3. \A v \in 0..Migrations : 2 * v <= k => v = 0
    BY <1>0, <1>1
  <2>4. 0 \in 0..Migrations
    BY <1>0
  <2> QED
    BY <2>1, <2>2, <2>3, <2>4
<1>2. CASE IsRecord(k)
  <2>1. Applied(c, k) = [c EXCEPT !.recorded = @ \cup {Version(k)}]
    BY <1>2 DEF Applied, IsRecord
  <2>2. Version(k) \in 1..Migrations /\ 2 * Version(k) + 1 = k
    BY <1>2, Numbering, <1>0
  <2>3. \A v \in 0..Migrations : 2 * v <= k => v \in c.done
    BY <1>0, <2>2 DEF Passed
  <2> QED
    BY <1>0, <2>1, <2>2, <2>3
<1>3. CASE k # 1 /\ ~IsRecord(k)
  <2>1. Applied(c, k) = [c EXCEPT !.done = @ \cup {Version(k)}]
    BY <1>3 DEF Applied
  <2>2. Version(k) \in 0..Migrations /\ 2 * Version(k) = k
    BY <1>0, <1>3, Numbering
  <2>3. \A v \in 0..Migrations : 2 * v < k => v \in c.done
    BY <1>0, <1>3 DEF Passed
  <2> QED
    BY <1>0, <2>1, <2>2, <2>3
<1> QED
  BY <1>1, <1>2, <1>3

\* The next statement is one of the script, and what lies before it is applied:
\* a version that is passed over was recorded.
LEMMA FollowingIsPassed ==
    ASSUME ConnectionsAssumption, NEW k \in Steps,
           NEW c \in [done : SUBSET (0..Migrations), recorded : SUBSET (1..Migrations)],
           c.recorded \subseteq c.done,
           \A v \in 0..Migrations : 2 * v <= k => v \in c.done
    PROVE  Following(c, k) \in Steps \cup {0} /\ Passed(Following(c, k), c)
<1> DEFINE later == {j \in Steps : j > k /\ IF IsRecord(j) THEN j = k + 1
                                            ELSE Version(j) \notin c.recorded}
<1>0. Migrations \in Nat /\ k \in Nat /\ k > 0 /\ Steps \subseteq Nat
  BY DEF ConnectionsAssumption, Steps
<1>1. ASSUME NEW v \in 0..Migrations, 2 * v > k, 2 * v \notin later
      PROVE  v \in c.done
  BY <1>0, <1>1, Numbering
<1>2. CASE later = {}
  <2>1. Following(c, k) = 0
    BY <1>2 DEF Following
  <2>2. \A v \in 0..Migrations : v \in c.done
    BY <1>0, <1>1, <1>2
  <2> QED
    BY <2>1, <2>2 DEF Passed, Complete
<1>3. CASE later # {}
  <2> DEFINE f == Following(c, k)
  <2>1. \E j \in later : \A i \in later : j <= i
    BY <1>0, <1>3, Least
  <2>2. f = CHOOSE j \in later : \A i \in later : j <= i
    BY <1>3 DEF Following
  <2> HIDE DEF f
  <2>3. f \in later /\ \A i \in later : f <= i
    BY <2>1, <2>2
  <2>4. f \in Steps /\ f > k
    BY <2>3
  <2>5. ASSUME NEW v \in 0..Migrations, 2 * v < f PROVE v \in c.done
    BY <1>0, <1>1, <2>3, <2>4, <2>5
  <2>6. Passed(f, c)
    BY <1>0, <2>4, <2>5 DEF Passed
  <2> QED
    BY <2>4, <2>6 DEF f
<1> QED
  BY <1>2, <1>3
-----------------------------------------------------------------------------
LEMMA InitSchema ==
    ASSUME ConnectionsAssumption, Init
    PROVE  SchemaInv
<1>0. Migrations \in Nat /\ Retries \in Nat
  BY DEF ConnectionsAssumption
<1>1. db \in [done : SUBSET (0..Migrations), recorded : SUBSET (1..Migrations)]
      /\ db.recorded \subseteq db.done
  <2>1. CASE db \in {Schema({}, {}), Schema({0}, {})}
    BY <1>0, <2>1 DEF Schema
  <2>2. CASE db \in {Schema(0..n, 1..n) : n \in 0..Migrations}
    BY <1>0, <2>2 DEF Schema
  <2> QED
    BY <2>1, <2>2 DEF Init
<1>2. Out \in [at : Places, tries : 0..Retries, pos : Steps \cup {0}] /\ Out.at = "out"
      /\ Out.pos = 1
  BY <1>0 DEF Out, Places, Steps
<1>3. \A t \in AllThreads : thr[t] = Out
  BY DEF Init
<1>4. Shape
  BY <1>1, <1>2, <1>3 DEF Init, Shape
<1>5. LockHeld /\ ScriptAdvances /\ QueriesSeeSchema
  BY <1>2, <1>3 DEF LockHeld, ScriptAdvances, QueriesSeeSchema
<1>wait. OthersWait
  BY <1>2, <1>3 DEF OthersWait
<1>6. FlagIsTrue
  BY DEF Init, FlagIsTrue
<1> QED
  BY <1>wait, <1>1, <1>4, <1>5, <1>6 DEF SchemaInv, RecordedIsApplied

\* A thread runs in a process, and none of them is called None.
LEMMA Threading ==
    ASSUME ConnectionsAssumption
    PROVE  /\ \A t \in AllThreads : ProcOf(t) \in Procs /\ t # None
           /\ None \notin Procs
           /\ \A p \in Procs, t \in AllThreads : t \in ThreadsOf(p) => ProcOf(t) = p
BY DEF ConnectionsAssumption, AllThreads, ProcOf, Procs, ThreadsOf

\* A process that goes takes its threads, its flag and its lock with it.
LEMMA GonePreserves ==
    ASSUME ConnectionsAssumption, SchemaInv, NEW p \in Procs, p \in running, Gone(p)
    PROVE  SchemaInv'
<1>0. Out \in [at : Places, tries : 0..Retries, pos : Steps \cup {0}] /\ Out.at = "out"
      /\ Out.pos = 1
  BY DEF Out, Places, Steps, ConnectionsAssumption
<1>1. \A t \in AllThreads : thr'[t] = IF ProcOf(t) = p THEN Out ELSE thr[t]
  BY DEF Gone
<1>2. Shape'
  <2>1. running' \subseteq Procs /\ owner' \in running' \cup {None}
    BY DEF SchemaInv, Shape, Gone
  <2>2. ensured' \in [Procs -> BOOLEAN] /\ ddl' \in [Procs -> AllThreads \cup {None}]
    BY DEF SchemaInv, Shape, Gone
  <2>3. thr' \in [AllThreads -> [at : Places, tries : 0..Retries, pos : Steps \cup {0}]]
    BY <1>0 DEF SchemaInv, Shape, Gone
  <2>4. \A t \in AllThreads : thr'[t].at # "out" => ProcOf(t) \in running'
    BY <1>0, <1>1 DEF SchemaInv, Shape, Gone
  <2> QED
    BY <2>1, <2>2, <2>3, <2>4 DEF SchemaInv, Shape, Gone
<1>3. LockHeld'
  BY <1>0, <1>1, Threading DEF SchemaInv, LockHeld, Shape, Gone
<1>wait. OthersWait'
  BY <1>0, <1>1 DEF SchemaInv, OthersWait
<1>4. ScriptAdvances'
  BY <1>0, <1>1 DEF SchemaInv, ScriptAdvances, Gone, Passed, Complete
<1>5. FlagIsTrue'
  BY DEF SchemaInv, FlagIsTrue, Shape, Gone, Complete
<1>6. QueriesSeeSchema'
  <2> SUFFICES ASSUME NEW t \in AllThreads, t \notin slipped', thr'[t].at = "in"
               PROVE  Complete(db)
    BY DEF QueriesSeeSchema, Gone, Complete
  <2>1. ProcOf(t) # p /\ thr'[t] = thr[t]
    BY <1>0, <1>1
  <2>2. t \notin slipped
    BY <2>1, Threading DEF Gone
  <2> QED
    BY <2>1, <2>2 DEF SchemaInv, QueriesSeeSchema
<1> QED
  BY <1>wait, <1>2, <1>3, <1>4, <1>5, <1>6 DEF SchemaInv, RecordedIsApplied, Gone

\* The places a thread passes on its way to the lock are of no consequence to
\* the schema: only the shape is at stake.
LEMMA ApproachPreserves ==
    ASSUME ConnectionsAssumption, SchemaInv, NEW t \in AllThreads,
           NEW r \in [at : {"out", "opening", "schema"}, tries : 0..Retries, pos : {1}],
           thr' = [thr EXCEPT ![t] = r], ProcOf(t) \in running,
           owner' \in {owner, ProcOf(t)},
           UNCHANGED <<running, ensured, ddl, slipped, db>>
    PROVE  SchemaInv'
<1>1. /\ r \in [at : Places, tries : 0..Retries, pos : Steps \cup {0}]
      /\ r.at # "ddl" /\ r.at # "in" /\ r.pos = 1
  BY DEF Places, Steps, ConnectionsAssumption
<1>2. \A u \in AllThreads : thr'[u] = IF u = t THEN r ELSE thr[u]
  BY DEF SchemaInv, Shape
<1>3. Shape'
  BY <1>1, <1>2 DEF SchemaInv, Shape
<1>4. LockHeld'
  BY <1>1, <1>2 DEF SchemaInv, LockHeld
<1>wait. OthersWait'
  BY <1>1, <1>2 DEF SchemaInv, OthersWait
<1>5. ScriptAdvances'
  BY <1>1, <1>2 DEF SchemaInv, ScriptAdvances, Passed, Complete
<1>6. QueriesSeeSchema'
  BY <1>1, <1>2 DEF SchemaInv, QueriesSeeSchema, Complete
<1> QED
  BY <1>wait, <1>3, <1>4, <1>5, <1>6
     DEF SchemaInv, FlagIsTrue, RecordedIsApplied, Complete

\* A connection is registered: complete, unless the thread slipped past.
LEMMA RegisterPreserves ==
    ASSUME ConnectionsAssumption, SchemaInv, NEW t \in AllThreads, Register(t),
           thr[t].at # "out", slipped' \in {slipped, slipped \cup {t}},
           t \in slipped' \/ Complete(db),
           \/ ddl' = ddl
           \/ ddl' = [ddl EXCEPT ![ProcOf(t)] = None] /\ Complete(db) /\ thr[t].at = "ddl",
           UNCHANGED <<running, owner, ensured, db>>
    PROVE  SchemaInv'
<1> DEFINE r == [Out EXCEPT !.at = "in"]
<1>1. r \in [at : Places, tries : 0..Retries, pos : Steps \cup {0}] /\ r.at = "in" /\ r.pos = 1
  BY DEF Out, Places, Steps, ConnectionsAssumption
<1> HIDE DEF r
<1>2. thr' = [thr EXCEPT ![t] = r]
  BY DEF Register, r
<1>3. \A u \in AllThreads : thr'[u] = IF u = t THEN r ELSE thr[u]
  BY <1>2 DEF SchemaInv, Shape
<1>4. Shape'
  <2>1. ddl' \in [Procs -> AllThreads \cup {None}]
    BY DEF SchemaInv, Shape
  <2>2. \A u \in AllThreads : thr'[u].at # "out" => ProcOf(u) \in running'
    BY <1>1, <1>3 DEF SchemaInv, Shape
  <2> QED
    BY <1>1, <1>2, <2>1, <2>2 DEF SchemaInv, Shape
<1>5. LockHeld'
  <2> SUFFICES ASSUME NEW u \in AllThreads, thr'[u].at = "ddl"
               PROVE  ddl'[ProcOf(u)] = u
    BY DEF LockHeld
  <2>1. u # t /\ thr[u].at = "ddl" /\ ddl[ProcOf(u)] = u
    BY <1>1, <1>3 DEF SchemaInv, LockHeld
  <2>2. CASE ddl' = ddl
    BY <2>1, <2>2
  <2>3. CASE ddl' = [ddl EXCEPT ![ProcOf(t)] = None] /\ thr[t].at = "ddl"
    <3>1. ddl[ProcOf(t)] = t
      BY <2>3 DEF SchemaInv, LockHeld
    <3>2. ProcOf(u) # ProcOf(t)
      BY <2>1, <3>1
    <3> QED
      BY <2>1, <2>3, <3>2, Threading DEF SchemaInv, Shape
  <2> QED
    BY <2>2, <2>3
<1>wait. OthersWait'
  BY <1>1, <1>3 DEF SchemaInv, OthersWait
<1>6. ScriptAdvances'
  BY <1>1, <1>3 DEF SchemaInv, ScriptAdvances, Passed, Complete
<1>7. FlagIsTrue'
  BY DEF SchemaInv, FlagIsTrue, Complete
<1>8. QueriesSeeSchema'
  BY <1>1, <1>3 DEF SchemaInv, QueriesSeeSchema, Complete
<1> QED
  BY <1>wait, <1>4, <1>5, <1>6, <1>7, <1>8 DEF SchemaInv, RecordedIsApplied
\* The thread that takes the lock starts at the base tables.
LEMMA TakePreserves ==
    ASSUME ConnectionsAssumption, SchemaInv, NEW t \in AllThreads, TakeSchemaLock(t)
    PROVE  SchemaInv'
<1> DEFINE r == [thr[t] EXCEPT !.at = "ddl"]
<1>0. ProcOf(t) \in Procs /\ t # None
  BY Threading
<1>1. /\ r \in [at : Places, tries : 0..Retries, pos : Steps \cup {0}]
      /\ r.at = "ddl" /\ r.pos = 1
  BY DEF SchemaInv, Shape, OthersWait, TakeSchemaLock, Places
<1>2. thr' = [thr EXCEPT ![t] = r]
  BY DEF TakeSchemaLock, At
<1> HIDE DEF r
<1>3. \A u \in AllThreads : thr'[u] = IF u = t THEN r ELSE thr[u]
  BY <1>2 DEF SchemaInv, Shape
<1>4. \A u \in AllThreads : thr[u].at = "ddl" => ProcOf(u) # ProcOf(t)
  BY Threading DEF SchemaInv, LockHeld, TakeSchemaLock
<1>5. Shape'
  <2>1. ensured' \in [Procs -> BOOLEAN] /\ ddl' \in [Procs -> AllThreads \cup {None}]
    BY <1>0 DEF SchemaInv, Shape, TakeSchemaLock
  <2>2. \A u \in AllThreads : thr'[u].at # "out" => ProcOf(u) \in running
    BY <1>1, <1>3 DEF SchemaInv, Shape, TakeSchemaLock
  <2> QED
    BY <1>1, <1>2, <2>1, <2>2 DEF SchemaInv, Shape, TakeSchemaLock
<1>6. LockHeld'
  BY <1>0, <1>3, <1>4, Threading DEF SchemaInv, Shape, LockHeld, TakeSchemaLock
<1>7. Passed(1, db)
  BY DEF Passed
<1>wait. OthersWait'
  BY <1>1, <1>3 DEF SchemaInv, OthersWait
<1>8. ScriptAdvances'
  BY <1>1, <1>3, <1>7 DEF SchemaInv, ScriptAdvances, TakeSchemaLock, Passed, Complete
<1>9. FlagIsTrue'
  BY <1>0 DEF SchemaInv, Shape, FlagIsTrue, TakeSchemaLock, Complete
<1>10. QueriesSeeSchema'
  BY <1>1, <1>3 DEF SchemaInv, QueriesSeeSchema, TakeSchemaLock, Complete
<1> QED
  BY <1>wait, <1>5, <1>6, <1>8, <1>9, <1>10 DEF SchemaInv, RecordedIsApplied, TakeSchemaLock

\* A statement only adds to the schema, so what others knew of it still holds.
LEMMA StatementPreserves ==
    ASSUME ConnectionsAssumption, SchemaInv, NEW t \in AllThreads, Statement(t)
    PROVE  SchemaInv'
<1> DEFINE k == thr[t].pos
           c == Applied(db, k)
           f == Following(c, k)
<1>1. k \in Steps /\ thr[t].at = "ddl"
  BY DEF SchemaInv, Shape, Statement
<1>2. Passed(k, db)
  BY <1>1 DEF SchemaInv, ScriptAdvances
<1>3. /\ c \in [done : SUBSET (0..Migrations), recorded : SUBSET (1..Migrations)]
      /\ db.done \subseteq c.done /\ c.recorded \subseteq c.done
      /\ \A v \in 0..Migrations : 2 * v <= k => v \in c.done
  BY <1>1, <1>2, AppliedGrows DEF SchemaInv, Shape, RecordedIsApplied
<1>4. db' = c /\ thr' = [thr EXCEPT ![t].pos = f]
  BY DEF Statement
<1> HIDE DEF c
<1>5. f \in Steps \cup {0} /\ Passed(f, c)
  BY <1>1, <1>3, FollowingIsPassed
<1> HIDE DEF k, f
<1>6. \A u \in AllThreads : thr'[u] = IF u = t THEN [thr[t] EXCEPT !.pos = f] ELSE thr[u]
  BY <1>4 DEF SchemaInv, Shape
<1>7. [thr[t] EXCEPT !.pos = f].at = "ddl" /\ [thr[t] EXCEPT !.pos = f].pos = f
  BY <1>1 DEF SchemaInv, Shape
<1>8. Shape'
  <2>1. \A u \in AllThreads : thr'[u].at # "out" => ProcOf(u) \in running
    BY <1>1, <1>6, <1>7 DEF SchemaInv, Shape
  <2> QED
    BY <1>3, <1>4, <1>5, <2>1 DEF SchemaInv, Shape, Statement
<1>9. Complete(db) => Complete(c)
  BY <1>3 DEF Complete
<1>10. ASSUME NEW j \in Steps \cup {0}, Passed(j, db) PROVE Passed(j, c)
  BY <1>3, <1>9, <1>10 DEF Passed
<1>11. LockHeld'
  BY <1>1, <1>6, <1>7 DEF SchemaInv, LockHeld, Statement
<1>wait. OthersWait'
  BY <1>1, <1>6, <1>7 DEF SchemaInv, OthersWait
<1>12. ScriptAdvances'
  <2> SUFFICES ASSUME NEW u \in AllThreads, thr'[u].at = "ddl"
               PROVE  Passed(thr'[u].pos, c)
    BY <1>4 DEF ScriptAdvances, Passed, Complete
  <2>1. CASE u = t
    BY <1>5, <1>6, <1>7, <2>1
  <2>2. CASE u # t
    <3>1. thr'[u] = thr[u] /\ thr[u].pos \in Steps \cup {0}
      BY <1>6, <2>2 DEF SchemaInv, Shape
    <3> QED
      BY <1>10, <3>1 DEF SchemaInv, ScriptAdvances
  <2> QED
    BY <2>1, <2>2
<1>13. FlagIsTrue'
  BY <1>4, <1>9 DEF SchemaInv, FlagIsTrue, Statement, Complete
<1>14. QueriesSeeSchema'
  BY <1>1, <1>4, <1>6, <1>7, <1>9 DEF SchemaInv, QueriesSeeSchema, Statement, Complete
<1> QED
  BY <1>wait, <1>3, <1>4, <1>8, <1>11, <1>12, <1>13, <1>14 DEF SchemaInv, RecordedIsApplied

\* A failing statement takes the flag back, so the next thread starts again.
LEMMA FailurePreserves ==
    ASSUME ConnectionsAssumption, SchemaInv, NEW t \in AllThreads, StatementFails(t)
    PROVE  SchemaInv'
<1>0. /\ ProcOf(t) \in Procs
      /\ Out \in [at : Places, tries : 0..Retries, pos : Steps \cup {0}] /\ Out.at = "out"
      /\ Out.pos = 1
  BY Threading DEF Out, Places, Steps, ConnectionsAssumption
<1>1. \A u \in AllThreads : thr'[u] = IF u = t THEN Out ELSE thr[u]
  BY DEF SchemaInv, Shape, StatementFails
<1>2. Shape'
  <2>1. ensured' \in [Procs -> BOOLEAN] /\ ddl' \in [Procs -> AllThreads \cup {None}]
    BY <1>0 DEF SchemaInv, Shape, StatementFails
  <2>2. \A u \in AllThreads : thr'[u].at # "out" => ProcOf(u) \in running
    BY <1>0, <1>1 DEF SchemaInv, Shape
  <2>3. owner' \in running \cup {None}
    BY DEF SchemaInv, Shape, StatementFails, Released
  <2> QED
    BY <1>0, <2>1, <2>2, <2>3 DEF SchemaInv, Shape, StatementFails
<1>3. LockHeld'
  <2> SUFFICES ASSUME NEW u \in AllThreads, thr'[u].at = "ddl"
               PROVE  ddl'[ProcOf(u)] = u
    BY DEF LockHeld
  <2>1. u # t /\ thr[u].at = "ddl" /\ ddl[ProcOf(u)] = u /\ ddl[ProcOf(t)] = t
    BY <1>0, <1>1 DEF SchemaInv, LockHeld, StatementFails
  <2> QED
    BY <2>1, Threading DEF SchemaInv, Shape, StatementFails
<1>wait. OthersWait'
  BY <1>0, <1>1 DEF SchemaInv, OthersWait
<1>4. ScriptAdvances'
  BY <1>0, <1>1 DEF SchemaInv, ScriptAdvances, StatementFails, Passed, Complete
<1>5. FlagIsTrue'
  BY <1>0 DEF SchemaInv, Shape, FlagIsTrue, StatementFails, Complete
<1>6. QueriesSeeSchema'
  BY <1>0, <1>1 DEF SchemaInv, QueriesSeeSchema, StatementFails, Complete
<1> QED
  BY <1>wait, <1>2, <1>3, <1>4, <1>5, <1>6 DEF SchemaInv, RecordedIsApplied, StatementFails
-----------------------------------------------------------------------------
\* The steps of a thread, and its first: it asks for a connection.
LEMMA ThreadPreserves ==
    ASSUME ConnectionsAssumption, SchemaInv, NEW t \in AllThreads,
           Cursor(t) \/ ThreadStep(t)
    PROVE  SchemaInv'
<1>0. /\ thr[t] \in [at : Places, tries : 0..Retries, pos : Steps \cup {0}]
      /\ thr[t].at # "ddl" => thr[t].pos = 1
      /\ Retries \in Nat
  BY DEF SchemaInv, Shape, OthersWait, ConnectionsAssumption
<1>1. CASE Cursor(t)
  <2> DEFINE r == [thr[t] EXCEPT !.at = "opening"]
  <2>1. r \in [at : {"out", "opening", "schema"}, tries : 0..Retries, pos : {1}]
    BY <1>0, <1>1 DEF Cursor
  <2>2. thr' = [thr EXCEPT ![t] = r]
    BY <1>1 DEF Cursor, At
  <2> HIDE DEF r
  <2> QED
    BY <1>1, <2>1, <2>2, ApproachPreserves DEF Cursor
<1>2. CASE Open(t)
  <2> DEFINE r == [thr[t] EXCEPT !.at = "schema"]
  <2>1. r \in [at : {"out", "opening", "schema"}, tries : 0..Retries, pos : {1}]
    BY <1>0, <1>2 DEF Open
  <2>2. thr' = [thr EXCEPT ![t] = r] /\ ProcOf(t) \in running
    BY <1>2 DEF Open, At, SchemaInv, Shape
  <2> HIDE DEF r
  <2> QED
    BY <1>2, <2>1, <2>2, ApproachPreserves DEF Open
<1>3. CASE OpenRefused(t)
  <2> DEFINE r == IF thr[t].tries < Retries THEN [thr[t] EXCEPT !.tries = @ + 1] ELSE Out
  <2>1. r \in [at : {"out", "opening", "schema"}, tries : 0..Retries, pos : {1}]
    <3>1. CASE thr[t].tries < Retries
      <4>1. r = [thr[t] EXCEPT !.tries = @ + 1]
        BY <3>1
      <4>2. thr[t].at = "opening" /\ thr[t].tries + 1 \in 0..Retries
        BY <1>0, <1>3, <3>1 DEF OpenRefused
      <4> QED
        BY <1>0, <4>1, <4>2
    <3>2. CASE ~(thr[t].tries < Retries)
      BY <1>0, <3>2 DEF Out
    <3> QED
      BY <3>1, <3>2
  <2>2. thr' = [thr EXCEPT ![t] = r]
    BY <1>3 DEF OpenRefused
  <2>3. ProcOf(t) \in running
    BY <1>3 DEF OpenRefused, SchemaInv, Shape
  <2> HIDE DEF r
  <2> QED
    BY <1>3, <2>1, <2>2, <2>3, ApproachPreserves DEF OpenRefused
<1>4. CASE SchemaEnsured(t)
  <2>1. t \in slipped' \/ Complete(db)
    BY <1>4, Threading DEF SchemaEnsured, SchemaInv, FlagIsTrue
  <2> QED
    BY <1>4, <2>1, RegisterPreserves DEF SchemaEnsured
<1>5. CASE TakeSchemaLock(t)
  BY <1>5, TakePreserves
<1>6. CASE Statement(t)
  BY <1>6, StatementPreserves
<1>7. CASE SchemaDone(t)
  <2>1. Complete(db)
    BY <1>7 DEF SchemaDone, SchemaInv, ScriptAdvances, Passed
  <2> QED
    BY <1>7, <2>1, RegisterPreserves DEF SchemaDone
<1>8. CASE StatementFails(t)
  BY <1>8, FailurePreserves
<1> QED
  BY <1>1, <1>2, <1>3, <1>4, <1>5, <1>6, <1>7, <1>8 DEF ThreadStep

LEMMA SchemaStep ==
    ASSUME ConnectionsAssumption, SchemaInv, [Next]_vars
    PROVE  SchemaInv'
<1>1. ASSUME NEW p \in Procs, StartProcess(p)
      PROVE  SchemaInv'
  BY <1>1 DEF StartProcess, SchemaInv, Shape, LockHeld, OthersWait, ScriptAdvances, Passed,
              FlagIsTrue, QueriesSeeSchema, RecordedIsApplied, Complete
<1>2. ASSUME NEW p \in Procs, Kill(p) \/ Stop(p)
      PROVE  SchemaInv'
  BY <1>2, GonePreserves DEF Kill, Stop
<1>3. ASSUME NEW t \in AllThreads, Cursor(t) \/ ThreadStep(t)
      PROVE  SchemaInv'
  BY <1>3, ThreadPreserves
<1>4. CASE UNCHANGED vars
  BY <1>4 DEF vars, SchemaInv, Shape, LockHeld, OthersWait, ScriptAdvances, Passed,
              FlagIsTrue, QueriesSeeSchema, RecordedIsApplied, Complete
<1> QED
  BY <1>1, <1>2, <1>3, <1>4 DEF Next

\* What the run asks of the state follows from the invariant.
LEMMA SchemaInvSuffices ==
    ASSUME SchemaInv
    PROVE  SchemaSeen
<1>1. ASSUME NEW t \in AllThreads
      PROVE  /\ thr[t].at \in {"out", "opening", "schema", "ddl", "in"}
             /\ thr[t].tries \in 0..Retries /\ thr[t].pos \in Steps \cup {0}
  BY DEF SchemaInv, Shape, Places
<1> QED
  BY <1>1 DEF SchemaSeen, TypeOK, SchemaInv, Shape

\* access.py 92-111, 141-178, schema.py 311-344: whichever threads ask for a connection at the
\* same time, whatever statement of the DDL fails and whenever a process dies,
\* a thread that registers while nobody applies the schema sees all of it, and
\* a version in schema_migrations was applied.
THEOREM SchemaIsSeen ==
    ASSUME ConnectionsAssumption
    PROVE  Spec => []SchemaSeen
<1>1. Init => SchemaInv
  BY InitSchema
<1>2. SchemaInv /\ [Next]_vars => SchemaInv'
  BY SchemaStep
<1>3. SchemaInv => SchemaSeen
  BY SchemaInvSuffices
<1> QED
  BY <1>1, <1>2, <1>3, PTL DEF Spec
-----------------------------------------------------------------------------
(* The copies of the file.                                                 *)

\* The files of the database, of a backup or of a safety copy.
CopyType ==
    [stamp : Nat, writes : 0..MaxWrites, state : Copies!States, checked : BOOLEAN,
     overlapped : BOOLEAN, asked : 0..MaxWrites]

BackupOp ==
    [kind : {"backup"}, at : {"checkpoint", "copying", "verify", "offsite"}, file : {stamp},
     asked : 0..files, hit : BOOLEAN, nightly : BOOLEAN]

RestoreOp == [kind : {"restore"}, at : {"copying", "overwrite"}, from : CopyType]

CopiesShape ==
    /\ open \in BOOLEAN /\ files \in 0..MaxWrites /\ stamp \in Nat
    /\ main \in [writes : 0..MaxWrites, state : Copies!States]
    /\ wal \in {"none", "pending", "stale"}
    /\ backups \subseteq CopyType /\ safety \subseteq CopyType
    /\ op \in {Copies!NoOp} \cup BackupOp \cup RestoreOp
    /\ night \in [status : {"none", "ok", "error"}, file : 0..stamp]

\* Files have stamps of their own, and the newest has the last one.
StampsKnow ==
    /\ \A f \in backups : f.stamp <= stamp
    /\ \A f, g \in backups : f.stamp = g.stamp => f = g
    /\ IsFiniteSet(safety)
    /\ \A f \in safety : f.stamp <= Cardinality(safety)
    /\ \A f, g \in safety : f.stamp = g.stamp => f = g

\* A backup runs in a process that has the file open, a restore while none has;
\* the log is that of the main file when it is open.
OpKnows ==
    /\ op.kind = "backup" => open
    /\ op.kind = "restore" => ~open
    /\ open => wal # "stale"
    /\ wal = "none" /\ main.state # "partial" => main.writes = files
    /\ wal = "stale" /\ main.state # "partial" => main.writes = files

\* What each place of a backup knows of its copy.
BackupKnows ==
    op.kind = "backup" =>
        /\ op.at = "checkpoint" => \A f \in backups : f.stamp < op.file
        /\ op.at # "checkpoint" => \E f \in backups : f.stamp = op.file
        /\ op.at = "copying" => op.asked <= main.writes
        /\ \A f \in backups : f.stamp = op.file =>
              /\ f.asked = op.asked
              /\ op.at \in {"copying", "verify"} => ~f.checked
              /\ op.at = "verify" /\ ~f.overlapped => f.state = "whole" /\ f.writes >= f.asked
              /\ op.at = "offsite" => f.checked

\* What a restore knows of its safety copy, and that it has begun to overwrite.
RestoreKnows ==
    op.kind = "restore" =>
        /\ op.from.state # "partial"
        /\ op.at = "overwrite" => main.state = "partial"
        /\ op.at = "copying" =>
             \E f \in safety : /\ f.stamp = Cardinality(safety) /\ f.state = "partial"
                               /\ f.writes = main.writes

\* What was found was in no log is in a safety copy.
FoundIsSafe ==
    before # None /\ ~before.log =>
        \E f \in safety : f.state = "whole" /\ f.writes = before.writes

CopiesInv ==
    /\ CopiesShape /\ StampsKnow /\ OpKnows /\ BackupKnows /\ RestoreKnows /\ FoundIsSafe
    /\ Copies!BackupHolds /\ Copies!OkMeansBackup

-----------------------------------------------------------------------------
\* The operation that runs, by its kind.
LEMMA Kinds ==
    ASSUME CopiesInv
    PROVE  /\ op.kind = "backup" => op \in BackupOp
           /\ op.kind = "restore" => op \in RestoreOp
BY DEF CopiesInv, CopiesShape, BackupOp, RestoreOp, Copies!NoOp

\* The file a backup works on is the newest of all.
LEMMA TargetIs ==
    ASSUME CopiesInv, op.kind = "backup", op.at # "checkpoint"
    PROVE  /\ Copies!Target \in backups /\ Copies!Target.stamp = op.file /\ op.file = stamp
           /\ \A f \in backups : f.stamp = op.file => f = Copies!Target
           /\ \A f \in backups : f # Copies!Target => f.stamp < op.file
<1>1. op.file = stamp
  BY Kinds DEF BackupOp
<1>2. \E f \in backups : f.stamp = op.file
  BY DEF CopiesInv, BackupKnows
<1>3. Copies!Target \in backups /\ Copies!Target.stamp = op.file
  BY <1>2 DEF Copies!Target
<1>4. \A f \in backups : f.stamp = op.file => f = Copies!Target
  BY <1>3 DEF CopiesInv, StampsKnow
<1>5. \A f \in backups : f.stamp \in Nat /\ f.stamp <= stamp
  BY DEF CopiesInv, CopiesShape, StampsKnow, CopyType
<1> QED
  BY <1>1, <1>3, <1>4, <1>5 DEF CopiesInv, CopiesShape

\* What the actions that leave the files alone and end the operation keep.
LEMMA OpEnds ==
    ASSUME CopiesInv, op' = Copies!NoOp,
           UNCHANGED <<files, backups, safety, stamp, before>>,
           open' \in BOOLEAN, main' \in [writes : 0..MaxWrites, state : Copies!States],
           wal' \in {"none", "pending", "stale"},
           open' => wal' # "stale",
           wal' # "pending" /\ main'.state # "partial" => main'.writes = files,
           \/ night' = night
           \/ night' \in [status : {"error"}, file : 0..stamp]
    PROVE  CopiesInv'
<1>1. op'.kind = "none" /\ op' \in {Copies!NoOp}
  BY DEF Copies!NoOp
<1>2. CopiesShape'
  BY <1>1 DEF CopiesInv, CopiesShape, Copies!NoOp, Copies!States, CopyType
<1>3. StampsKnow'
  BY DEF CopiesInv, StampsKnow
<1>4. OpKnows' /\ BackupKnows' /\ RestoreKnows'
  BY <1>1 DEF OpKnows, BackupKnows, RestoreKnows
<1>5. FoundIsSafe'
  BY DEF CopiesInv, FoundIsSafe
<1>6. Copies!BackupHolds'
  BY DEF CopiesInv, Copies!BackupHolds
<1>7. Copies!OkMeansBackup'
  BY DEF CopiesInv, Copies!OkMeansBackup
<1> QED
  BY <1>2, <1>3, <1>4, <1>5, <1>6, <1>7 DEF CopiesInv

\* The file is opened, closed, or its process killed.
LEMMA ProcessPreserves ==
    ASSUME DatabaseAssumption, CopiesInv, Copies!Open \/ Copies!Kill \/ Copies!Close
    PROVE  CopiesInv'
<1>0. MaxWrites \in Nat
  BY DEF DatabaseAssumption, Copies!BackupsAssumption
<1>1. CASE Copies!Open
  <2>1. CASE wal = "stale"
    <3>1. PICK s \in {"whole", "torn"} : main' = [main EXCEPT !.state = s] /\ wal' = "none"
      BY <1>1, <2>1 DEF Copies!Open
    <3>2. /\ main' \in [writes : 0..MaxWrites, state : Copies!States]
          /\ main'.writes = files
      BY <1>1, <2>1, <3>1 DEF Copies!Open, CopiesInv, CopiesShape, OpKnows, Copies!States
    <3> QED
      BY <1>1, <3>1, <3>2, OpEnds DEF Copies!Open
  <2>2. CASE wal # "stale"
    <3>1. main' = main /\ wal' = wal
      BY <1>1, <2>2 DEF Copies!Open
    <3>2. /\ main' \in [writes : 0..MaxWrites, state : Copies!States]
          /\ wal' \in {"none", "pending", "stale"}
          /\ wal' # "pending" /\ main'.state # "partial" => main'.writes = files
      BY <2>2, <3>1 DEF CopiesInv, CopiesShape, OpKnows
    <3> QED
      BY <1>1, <2>2, <3>1, <3>2, OpEnds DEF Copies!Open
  <2> QED
    BY <2>1, <2>2
<1>2. CASE Copies!Kill
  <2>1. /\ main' \in [writes : 0..MaxWrites, state : Copies!States]
        /\ wal' \in {"none", "pending", "stale"}
        /\ wal' # "pending" /\ main'.state # "partial" => main'.writes = files
    BY <1>2 DEF Copies!Kill, CopiesInv, CopiesShape, OpKnows
  <2> QED
    BY <1>2, <2>1, OpEnds DEF Copies!Kill
<1>3. CASE Copies!Close
  <2>1. /\ main' \in [writes : 0..MaxWrites, state : Copies!States]
        /\ wal' = "none" /\ main'.writes = files
    BY <1>3 DEF Copies!Close, Copies!Checkpointed, CopiesInv, CopiesShape
  <2> QED
    BY <1>3, <2>1, OpEnds DEF Copies!Close
<1> QED
  BY <1>1, <1>2, <1>3

\* A statement is committed, or the log is checkpointed under a running copy.
LEMMA WritePreserves ==
    ASSUME DatabaseAssumption, CopiesInv, Copies!Write \/ Copies!AutoCheckpoint
    PROVE  CopiesInv'
<1>0. MaxWrites \in Nat
  BY DEF DatabaseAssumption, Copies!BackupsAssumption
<1>1. CASE Copies!Write
  <2>1. op' = op /\ files' = files + 1 /\ files' \in 0..MaxWrites /\ files \in Nat /\ files <= files'
    BY <1>0, <1>1 DEF Copies!Write, CopiesInv, CopiesShape
  <2>2. op' \in {Copies!NoOp} \cup BackupOp' \cup RestoreOp
    <3>1. CASE op.kind = "backup"
      <4>1. op \in BackupOp
        BY <3>1, Kinds
      <4>2. 0..files \subseteq 0..files'
        BY <2>1
      <4>3. BackupOp \subseteq BackupOp'
        BY <1>1, <4>2 DEF BackupOp, Copies!Write
      <4> QED
        BY <2>1, <4>1, <4>3
    <3>2. CASE op.kind # "backup"
      BY <2>1, <3>2 DEF CopiesInv, CopiesShape, BackupOp
    <3> QED
      BY <3>1, <3>2
  <2>3. CopiesShape'
    BY <1>1, <2>1, <2>2 DEF Copies!Write, CopiesInv, CopiesShape, RestoreOp, Copies!NoOp, CopyType
  <2>4. StampsKnow' /\ FoundIsSafe' /\ Copies!BackupHolds' /\ Copies!OkMeansBackup'
    BY <1>1 DEF Copies!Write, CopiesInv, StampsKnow, FoundIsSafe, Copies!BackupHolds,
                Copies!OkMeansBackup
  <2>5. OpKnows'
    BY <1>1 DEF Copies!Write, CopiesInv, OpKnows
  <2>6. BackupKnows' /\ RestoreKnows'
    BY <1>1 DEF Copies!Write, CopiesInv, BackupKnows, RestoreKnows
  <2> QED
    BY <2>3, <2>4, <2>5, <2>6 DEF CopiesInv
<1>2. CASE Copies!AutoCheckpoint
  <2>0. /\ files' = files /\ wal' = "none" /\ open /\ open'
        /\ main' \in [writes : 0..MaxWrites, state : Copies!States] /\ main'.writes = files
        /\ main'.state = main.state
    BY <1>2 DEF Copies!AutoCheckpoint, Copies!Checkpointed, CopiesInv, CopiesShape
  <2>1. \/ op' = [op EXCEPT !.hit = TRUE] /\ op.kind = "backup" /\ op.at = "copying"
        \/ op' = op
    BY <1>2 DEF Copies!AutoCheckpoint, Copies!Backup
  <2>2. /\ op' \in {Copies!NoOp} \cup BackupOp \cup RestoreOp
        /\ op'.kind = op.kind
        /\ op.kind = "backup" => op'.at = op.at /\ op'.file = op.file /\ op'.asked = op.asked
        /\ op.kind = "restore" => op' = op
    <3>1. CASE op' = op
      BY <3>1 DEF CopiesInv, CopiesShape
    <3>2. CASE op' = [op EXCEPT !.hit = TRUE] /\ op.kind = "backup"
      <4>1. op \in BackupOp
        BY <3>2, Kinds
      <4> QED
        BY <3>2, <4>1 DEF BackupOp
    <3> QED
      BY <2>1, <3>1, <3>2
  <2>3. CopiesShape'
    BY <1>2, <2>0, <2>2 DEF Copies!AutoCheckpoint, CopiesInv, CopiesShape, BackupOp, RestoreOp,
                            Copies!NoOp, CopyType
  <2>4. StampsKnow' /\ FoundIsSafe' /\ Copies!BackupHolds' /\ Copies!OkMeansBackup'
    BY <1>2 DEF Copies!AutoCheckpoint, CopiesInv, StampsKnow, FoundIsSafe, Copies!BackupHolds,
                Copies!OkMeansBackup
  <2>5. OpKnows'
    BY <2>0, <2>2 DEF CopiesInv, OpKnows
  <2>6. BackupKnows'
    <3> SUFFICES ASSUME op'.kind = "backup"
                 PROVE  BackupKnows'
      BY DEF BackupKnows
    <3>1. op \in BackupOp /\ op'.at = op.at /\ op'.file = op.file /\ op'.asked = op.asked
      BY <2>2, Kinds
    <3>2. backups' = backups /\ op.asked <= files
      BY <1>2, <3>1 DEF Copies!AutoCheckpoint, BackupOp, CopiesInv, CopiesShape
    <3> QED
      BY <2>0, <2>2, <3>1, <3>2 DEF CopiesInv, BackupKnows
  <2>7. RestoreKnows'
    BY <2>0, <2>2 DEF CopiesInv, RestoreKnows, OpKnows
  <2> QED
    BY <2>3, <2>4, <2>5, <2>6, <2>7 DEF CopiesInv
<1> QED
  BY <1>1, <1>2

\* A backup begins after all the others: its stamp is greater than theirs.
LEMMA BeginBackupPreserves ==
    ASSUME DatabaseAssumption, CopiesInv, Copies!BeginBackup
    PROVE  CopiesInv'
<1>1. PICK nightly \in BOOLEAN :
          op' = [kind |-> "backup", at |-> "checkpoint", file |-> stamp + 1,
                 asked |-> files, hit |-> FALSE, nightly |-> nightly]
  BY DEF Copies!BeginBackup
<1>2. stamp' = stamp + 1 /\ stamp \in Nat /\ files \in Nat /\ files' = files
  BY DEF Copies!BeginBackup, Copies!fileVars, CopiesInv, CopiesShape
<1>3. op' \in BackupOp'
  BY <1>1, <1>2 DEF BackupOp
<1>4. UNCHANGED <<open, files, main, wal, backups, safety, night, before>>
  BY DEF Copies!BeginBackup, Copies!fileVars
<1>5. CopiesShape'
  <2>1. 0..stamp \subseteq 0..stamp'
    BY <1>2
  <2> QED
    BY <1>2, <1>3, <1>4, <2>1 DEF CopiesInv, CopiesShape, CopyType
<1>6. \A f \in backups : f.stamp \in Nat /\ f.stamp <= stamp
  BY DEF CopiesInv, CopiesShape, StampsKnow, CopyType
<1>7. \A f \in backups : f.stamp < op'.file /\ f.stamp <= stamp'
  BY <1>1, <1>2, <1>6
<1>8. StampsKnow'
  BY <1>4, <1>7 DEF CopiesInv, StampsKnow
<1>9. OpKnows' /\ RestoreKnows'
  BY <1>1, <1>4 DEF CopiesInv, OpKnows, RestoreKnows, Copies!BeginBackup
<1>10. BackupKnows'
  <2>1. \A f \in backups' : f.stamp # op'.file
    BY <1>2, <1>4, <1>6, <1>1
  <2> QED
    BY <1>1, <1>4, <1>7, <2>1 DEF BackupKnows
<1>11. FoundIsSafe' /\ Copies!BackupHolds' /\ Copies!OkMeansBackup'
  BY <1>4 DEF CopiesInv, FoundIsSafe, Copies!BackupHolds, Copies!OkMeansBackup
<1> QED
  BY <1>5, <1>8, <1>9, <1>10, <1>11 DEF CopiesInv

\* The copy appears under its final name, half-written.
LEMMA CheckpointPreserves ==
    ASSUME DatabaseAssumption, CopiesInv, Copies!Checkpoint
    PROVE  CopiesInv'
<1> DEFINE new == Copies!File(op.file, files, "partial", op.asked)
<1>0. op \in BackupOp /\ op.kind = "backup" /\ op.at = "checkpoint" /\ op.file = stamp
  BY Kinds DEF Copies!Checkpoint, Copies!Backup, BackupOp
<1>1. op' = [op EXCEPT !.at = "copying"] /\ backups' = backups \cup {new}
  BY DEF Copies!Checkpoint, Copies!CopyStarts
<1>2. UNCHANGED <<open, files, safety, night, stamp, before>> /\ wal' = "none"
      /\ main' = [main EXCEPT !.writes = files]
  BY DEF Copies!Checkpoint, Copies!Checkpointed
<1>3. MaxWrites \in Nat /\ files \in 0..MaxWrites /\ stamp \in Nat /\ op.asked \in 0..files
  BY <1>0 DEF CopiesInv, CopiesShape, DatabaseAssumption, Copies!BackupsAssumption, BackupOp
<1>4. /\ new \in CopyType /\ new.stamp = op.file /\ new.asked = op.asked
      /\ ~new.checked /\ new.state = "partial"
  BY <1>0, <1>3 DEF Copies!File, CopyType, Copies!States
<1> HIDE DEF new
<1>5. \A f \in backups : f \in CopyType /\ f.stamp < op.file
  BY <1>0 DEF CopiesInv, CopiesShape, BackupKnows
<1>6. /\ op' \in BackupOp /\ op'.at = "copying" /\ op'.kind = "backup" /\ op'.file = stamp
      /\ op'.asked = op.asked
  BY <1>0, <1>1 DEF BackupOp
<1>7. main' \in [writes : 0..MaxWrites, state : Copies!States] /\ main'.writes = files
  BY <1>2, <1>3 DEF CopiesInv, CopiesShape
<1>8. CopiesShape'
  <2>1. op' \in BackupOp'
    BY <1>2, <1>6 DEF BackupOp
  <2> QED
    BY <1>1, <1>2, <1>4, <1>7, <2>1 DEF CopiesInv, CopiesShape, CopyType
<1>9. StampsKnow'
  <2>1. \A f \in backups' : f.stamp <= stamp'
    BY <1>0, <1>1, <1>2, <1>3, <1>4 DEF CopiesInv, StampsKnow
  <2>2. \A f \in backups : f.stamp # new.stamp
    <3>1. \A f \in backups : f.stamp \in Nat
      BY <1>5 DEF CopyType
    <3> QED
      BY <1>0, <1>3, <1>4, <1>5, <3>1
  <2>3. \A f, g \in backups' : f.stamp = g.stamp => f = g
    BY <1>1, <2>2 DEF CopiesInv, StampsKnow
  <2> QED
    BY <1>2, <2>1, <2>3 DEF CopiesInv, StampsKnow
<1>10. OpKnows' /\ RestoreKnows'
  BY <1>0, <1>2, <1>6, <1>7 DEF CopiesInv, OpKnows, RestoreKnows
<1>11. BackupKnows'
  <2>1. \A f \in backups' : f.stamp = op'.file => f = new
    <3>1. \A f \in backups : f.stamp \in Nat
      BY <1>5 DEF CopyType
    <3> QED
      BY <1>0, <1>1, <1>3, <1>5, <1>6, <3>1
  <2>2. op'.asked <= main'.writes
    BY <1>3, <1>6, <1>7
  <2> QED
    BY <1>0, <1>1, <1>4, <1>6, <2>1, <2>2 DEF BackupKnows
<1>12. Copies!BackupHolds'
  BY <1>1, <1>4 DEF CopiesInv, Copies!BackupHolds
<1>13. FoundIsSafe' /\ Copies!OkMeansBackup'
  BY <1>1, <1>2 DEF CopiesInv, FoundIsSafe, Copies!OkMeansBackup
<1> QED
  BY <1>8, <1>9, <1>10, <1>11, <1>12, <1>13 DEF CopiesInv

\* A step of a backup that has a copy changes that one only.
LEMMA Replaced ==
    ASSUME CopiesInv, op.kind = "backup", op.at # "checkpoint",
           NEW c \in CopyType, c.stamp = op.file, Copies!Replace(c)
    PROVE  /\ backups' \subseteq CopyType /\ c \in backups'
           /\ \A f \in backups' : f = c \/ (f \in backups /\ f.stamp # op.file)
           /\ \A f \in backups : f.stamp # op.file => f \in backups'
           /\ \A f \in backups' : f.stamp <= stamp
           /\ \A f, g \in backups' : f.stamp = g.stamp => f = g
<1>1. backups' = (backups \ {Copies!Target}) \cup {c}
  BY DEF Copies!Replace
<1>2. /\ Copies!Target \in backups /\ Copies!Target.stamp = op.file /\ op.file = stamp
      /\ \A f \in backups : f.stamp = op.file => f = Copies!Target
  BY TargetIs
<1>3. \A f \in backups' : f = c \/ (f \in backups /\ f.stamp # op.file)
  BY <1>1, <1>2
<1>4. stamp \in Nat /\ backups \subseteq CopyType /\ \A f \in backups : f.stamp <= stamp
  BY DEF CopiesInv, CopiesShape, StampsKnow
<1>5. \A f \in backups' : f.stamp <= stamp
  BY <1>2, <1>3, <1>4
<1>6. \A f, g \in backups' : f.stamp = g.stamp => f = g
  BY <1>3 DEF CopiesInv, StampsKnow
<1> QED
  BY <1>1, <1>2, <1>3, <1>4, <1>5, <1>6

\* The copy is made, or it passes its verification.
LEMMA CopyPreserves ==
    ASSUME DatabaseAssumption, CopiesInv, Copies!Copied \/ Copies!Verified
    PROVE  CopiesInv'
<1> DEFINE t == Copies!Target
<1>1. op \in BackupOp /\ op.kind = "backup" /\ op.at \in {"copying", "verify"}
  BY Kinds DEF Copies!Copied, Copies!Verified, Copies!Backup
<1>2. UNCHANGED <<open, files, main, wal, safety, night, stamp, before>>
  BY DEF Copies!Copied, Copies!Verified, Copies!fileVars
<1>3. /\ t \in backups /\ t \in CopyType /\ t.stamp = op.file /\ op.file = stamp
      /\ t.asked = op.asked /\ ~t.checked
      /\ op.at = "verify" /\ ~t.overlapped => t.state = "whole" /\ t.writes >= t.asked
  <2>1. t \in backups /\ t.stamp = op.file /\ op.file = stamp
    BY <1>1, TargetIs
  <2> QED
    BY <1>1, <2>1 DEF CopiesInv, CopiesShape, BackupKnows
<1> HIDE DEF t
<1>4. PICK c \in CopyType :
          /\ c.stamp = op.file /\ Copies!Replace(c) /\ c.asked = op.asked
          /\ ~c.overlapped => c.state = "whole" /\ c.writes >= c.asked
          /\ op.at = "copying" => op' = [op EXCEPT !.at = "verify"] /\ ~c.checked
          /\ op.at = "verify" => op' = [op EXCEPT !.at = "offsite"] /\ c.checked
  <2>1. CASE Copies!Copied
    <3>0. main \in [writes : 0..MaxWrites, state : Copies!States] /\ op.asked <= main.writes
          /\ op.at = "copying"
      BY <1>1, <2>1 DEF Copies!Copied, Copies!Backup, CopiesInv, CopiesShape, BackupKnows
    <3>1. PICK s \in IF op.hit THEN {"whole", "torn"} ELSE {main.state} :
              Copies!Replace([t EXCEPT !.writes = main.writes, !.state = s,
                                       !.overlapped = op.hit \/ main.state # "whole"])
      BY <2>1 DEF Copies!Copied, t
    <3> DEFINE c == [t EXCEPT !.writes = main.writes, !.state = s,
                              !.overlapped = op.hit \/ main.state # "whole"]
    <3>2. s \in Copies!States /\ (~op.hit => s = main.state)
      BY <3>0, <3>1 DEF Copies!States
    <3>3. /\ c \in CopyType /\ c.stamp = t.stamp /\ c.asked = t.asked /\ c.checked = t.checked
          /\ c.writes = main.writes /\ c.state = s
          /\ c.overlapped = (op.hit \/ main.state # "whole")
      <4>1. (op.hit \/ main.state # "whole") \in BOOLEAN
        OBVIOUS
      <4> QED
        BY <1>3, <3>0, <3>2, <4>1 DEF CopyType
    <3>4. Copies!Replace(c) /\ op' = [op EXCEPT !.at = "verify"]
      BY <2>1, <3>1 DEF Copies!Copied
    <3> HIDE DEF c
    <3>5. ~c.overlapped => c.state = "whole" /\ c.writes >= c.asked
      <4>1. PICK n \in Nat, a \in Nat : n = main.writes /\ a = op.asked
        BY <1>1, <3>0 DEF BackupOp, CopiesInv, CopiesShape
      <4> QED
        BY <1>3, <3>0, <3>2, <3>3, <4>1
    <3> QED
      BY <1>3, <3>0, <3>3, <3>4, <3>5
  <2>2. CASE Copies!Verified
    <3> DEFINE c == [t EXCEPT !.checked = TRUE]
    <3>1. /\ c \in CopyType /\ c.stamp = t.stamp /\ c.asked = t.asked /\ c.checked
          /\ c.writes = t.writes /\ c.state = t.state /\ c.overlapped = t.overlapped
      BY <1>3 DEF CopyType
    <3>2. Copies!Replace(c) /\ op' = [op EXCEPT !.at = "offsite"] /\ op.at = "verify"
      BY <2>2 DEF Copies!Verified, Copies!Backup, t
    <3> HIDE DEF c
    <3> QED
      BY <1>3, <3>1, <3>2
  <2> QED
    BY <2>1, <2>2
<1>5. /\ backups' \subseteq CopyType /\ c \in backups'
      /\ \A f \in backups' : f = c \/ (f \in backups /\ f.stamp # op.file)
      /\ \A f \in backups : f.stamp # op.file => f \in backups'
      /\ \A f \in backups' : f.stamp <= stamp
      /\ \A f, g \in backups' : f.stamp = g.stamp => f = g
  BY <1>1, <1>4, Replaced
<1>6. /\ op' \in BackupOp /\ op'.kind = "backup" /\ op'.file = op.file /\ op'.asked = op.asked
      /\ \/ op.at = "copying" /\ op'.at = "verify"
         \/ op.at = "verify" /\ op'.at = "offsite"
  BY <1>1, <1>4 DEF BackupOp
<1>7. CopiesShape'
  <2>1. op' \in BackupOp'
    BY <1>2, <1>6 DEF BackupOp
  <2> QED
    BY <1>2, <1>5, <2>1 DEF CopiesInv, CopiesShape, CopyType
<1>8. StampsKnow'
  BY <1>2, <1>5 DEF CopiesInv, StampsKnow
<1>9. OpKnows' /\ RestoreKnows' /\ FoundIsSafe'
  BY <1>1, <1>2, <1>6 DEF CopiesInv, OpKnows, RestoreKnows, FoundIsSafe
<1>10. BackupKnows'
  <2>1. \A f \in backups' : f.stamp = op'.file => f = c
    BY <1>5, <1>6
  <2> QED
    BY <1>4, <1>5, <1>6, <2>1 DEF BackupKnows
<1>11. Copies!BackupHolds'
  BY <1>4, <1>5 DEF CopiesInv, Copies!BackupHolds
<1>12. Copies!OkMeansBackup'
  <2> SUFFICES ASSUME night.status = "ok"
               PROVE  \E f \in backups' : f.checked /\ f.stamp >= night.file
    BY <1>2 DEF Copies!OkMeansBackup
  <2>1. PICK f \in backups : f.checked /\ f.stamp >= night.file
    BY DEF CopiesInv, Copies!OkMeansBackup
  <2>2. f # t
    BY <1>3, <2>1
  <2>3. f.stamp # op.file
    BY <1>1, <2>2, TargetIs DEF t
  <2> QED
    BY <1>5, <2>1, <2>3
<1> QED
  BY <1>7, <1>8, <1>9, <1>10, <1>11, <1>12 DEF CopiesInv

\* The cardinality of the instance is the one of FiniteSets.
LEMMA SameCardinality == ASSUME NEW S PROVE Copies!Cardinality(S) = Cardinality(S)
BY DEF Copies!Cardinality, Cardinality

\* What a backup that ends leaves: its file, and the row of the night.
LEMMA BackupEnds ==
    ASSUME DatabaseAssumption, CopiesInv, op.kind = "backup",
           op' = Copies!NoOp, backups' \subseteq backups,
           UNCHANGED <<open, files, main, wal, safety, stamp, before>>,
           night' = night \/ night' \in [status : {"ok", "error"}, file : {stamp}],
           Copies!OkMeansBackup'
    PROVE  CopiesInv'
<1>1. op'.kind = "none" /\ op' \in {Copies!NoOp}
  BY DEF Copies!NoOp
<1>2. CopiesShape'
  <2>1. stamp \in 0..stamp
    BY DEF CopiesInv, CopiesShape
  <2>2. night' \in [status : {"none", "ok", "error"}, file : 0..stamp]
    BY <2>1 DEF CopiesInv, CopiesShape
  <2> QED
    BY <1>1, <2>2 DEF CopiesInv, CopiesShape, CopyType
<1>3. StampsKnow' /\ FoundIsSafe' /\ Copies!BackupHolds'
  BY DEF CopiesInv, StampsKnow, FoundIsSafe, Copies!BackupHolds
<1>4. OpKnows' /\ BackupKnows' /\ RestoreKnows'
  BY <1>1 DEF CopiesInv, OpKnows, BackupKnows, RestoreKnows
<1> QED
  BY <1>2, <1>3, <1>4 DEF CopiesInv

\* The checkpoint, the copy, the verification or the offsite copy fails.
LEMMA BackupFailurePreserves ==
    ASSUME DatabaseAssumption, CopiesInv,
           Copies!CopyFails \/ Copies!VerifyFails \/ Copies!OffsiteFails
    PROVE  CopiesInv'
<1>1. op \in BackupOp /\ op.kind = "backup" /\ op.file = stamp
  BY Kinds DEF Copies!CopyFails, Copies!VerifyFails, Copies!OffsiteFails, Copies!Backup, BackupOp
<1>2. op' = Copies!NoOp /\ night' = IF op.nightly THEN [status |-> "error", file |-> op.file]
                                                  ELSE night
  BY DEF Copies!CopyFails, Copies!VerifyFails, Copies!OffsiteFails, Copies!Ends
<1>3. UNCHANGED <<open, files, main, wal, safety, stamp, before>>
  BY DEF Copies!CopyFails, Copies!VerifyFails, Copies!OffsiteFails, Copies!fileVars
<1>4. /\ backups' \subseteq backups
      /\ \A f \in backups : f.checked => f \in backups'
  <2>1. CASE Copies!VerifyFails
    <3>1. backups' = backups \ {Copies!Target} /\ op.at = "verify"
      BY <2>1 DEF Copies!VerifyFails, Copies!Backup
    <3>2. ~Copies!Target.checked
      BY <1>1, <3>1, TargetIs DEF CopiesInv, BackupKnows
    <3> QED
      BY <3>1, <3>2
  <2>2. CASE Copies!CopyFails \/ Copies!OffsiteFails
    BY <2>2 DEF Copies!CopyFails, Copies!OffsiteFails
  <2> QED
    BY <2>1, <2>2
<1>5. Copies!OkMeansBackup'
  <2>1. night'.status = "ok" => night' = night
    BY <1>2
  <2> QED
    BY <1>4, <2>1 DEF CopiesInv, Copies!OkMeansBackup
<1>6. night' = night \/ night' \in [status : {"ok", "error"}, file : {stamp}]
  BY <1>1, <1>2
<1> QED
  BY <1>1, <1>2, <1>3, <1>4, <1>5, <1>6, BackupEnds

\* The rotation never reaches the newest file, which was verified just before.
LEMMA RotationKeepsNewest ==
    ASSUME DatabaseAssumption, CopiesInv, Copies!Rotate
    PROVE  /\ op.kind = "backup" /\ op.at = "offsite" /\ backups' \subseteq backups
           /\ Copies!Target \in backups' /\ Copies!Target.checked
<1>1. op.kind = "backup" /\ op.at = "offsite" /\ backups' = Copies!Newest(Keep)
  BY DEF Copies!Rotate, Copies!Backup
<1>2. /\ Copies!Target \in backups /\ Copies!Target.stamp = op.file /\ op.file = stamp
      /\ \A f \in backups : f # Copies!Target => f.stamp < op.file
  BY <1>1, TargetIs
<1>3. Copies!Target.checked
  BY <1>1, <1>2 DEF CopiesInv, BackupKnows
<1>4. {g \in backups : g.stamp > Copies!Target.stamp} = {}
  <2>1. stamp \in Nat /\ \A f \in backups : f.stamp \in Nat
    BY DEF CopiesInv, CopiesShape, CopyType
  <2> QED
    BY <1>2, <2>1
<1>5. Cardinality({g \in backups : g.stamp > Copies!Target.stamp}) < Keep
  <2>1. Keep \in Nat \ {0}
    BY DEF DatabaseAssumption, Copies!BackupsAssumption
  <2> QED
    BY <1>4, <2>1, FS_EmptySet
<1> DEFINE t == Copies!Target
<1>6. t \in backups /\ Cardinality({g \in backups : g.stamp > t.stamp}) < Keep
  BY <1>2, <1>5
<1> HIDE DEF t
<1>7. t \in backups' /\ backups' \subseteq backups
  BY <1>1, <1>6, SameCardinality DEF Copies!Newest
<1> QED
  BY <1>1, <1>3, <1>7 DEF t

LEMMA RotatePreserves ==
    ASSUME DatabaseAssumption, CopiesInv, Copies!Rotate
    PROVE  CopiesInv'
<1>1. op' = Copies!NoOp /\ night' = IF op.nightly THEN [status |-> "ok", file |-> op.file]
                                                  ELSE night
  BY DEF Copies!Rotate, Copies!Ends
<1>2. UNCHANGED <<open, files, main, wal, safety, stamp, before>>
  BY DEF Copies!Rotate, Copies!fileVars
<1>3. /\ op.kind = "backup" /\ op.at = "offsite" /\ backups' \subseteq backups
      /\ Copies!Target \in backups' /\ Copies!Target.checked
      /\ Copies!Target.stamp = op.file /\ op.file = stamp
  BY RotationKeepsNewest, TargetIs
<1>4. night' \in [status : {"none", "ok", "error"}, file : 0..stamp]
  BY <1>1, <1>3 DEF CopiesInv, CopiesShape
<1>5. Copies!OkMeansBackup'
  <2>1. Copies!Target.stamp >= night'.file
    BY <1>3, <1>4 DEF CopiesInv, CopiesShape
  <2> DEFINE t == Copies!Target
  <2>2. t \in backups' /\ t.checked /\ t.stamp >= night'.file
    BY <1>3, <2>1
  <2> HIDE DEF t
  <2> QED
    BY <2>2 DEF Copies!OkMeansBackup
<1>6. night' = night \/ night' \in [status : {"ok", "error"}, file : {stamp}]
  BY <1>1, <1>3
<1> QED
  BY <1>1, <1>2, <1>3, <1>5, <1>6, BackupEnds

-----------------------------------------------------------------------------
\* A restore begins with a safety copy that is half there.
LEMMA BeginRestorePreserves ==
    ASSUME DatabaseAssumption, CopiesInv, Copies!BeginRestore
    PROVE  CopiesInv'
<1> DEFINE n == Cardinality(safety)
           new == Copies!File(n + 1, main.writes, "partial", 0)
<1>1. UNCHANGED <<open, files, main, wal, backups, night, stamp, before>> /\ ~open
      /\ safety' = safety \cup {new}
  <2>1. safety' = safety \cup {new}
    BY SameCardinality DEF Copies!BeginRestore
  <2> QED
    BY <2>1 DEF Copies!BeginRestore, Copies!fileVars
<1>2. PICK g \in Copies!Files :
          g.state # "partial" /\ op' = [kind |-> "restore", at |-> "copying", from |-> g]
  BY DEF Copies!BeginRestore
<1>3. /\ IsFiniteSet(safety) /\ n \in Nat /\ safety \subseteq CopyType
      /\ \A f \in safety : f.stamp <= n
  BY FS_CardinalityType DEF CopiesInv, CopiesShape, StampsKnow
<1>4. new \in CopyType /\ new.stamp = n + 1 /\ new.state = "partial" /\ new.writes = main.writes
  <2>1. main.writes \in 0..MaxWrites /\ 0 \in 0..MaxWrites
    BY DEF CopiesInv, CopiesShape, DatabaseAssumption, Copies!BackupsAssumption
  <2> QED
    BY <1>3, <2>1 DEF Copies!File, CopyType, Copies!States
<1> HIDE DEF n, new
<1>5. \A f \in safety : f.stamp # new.stamp
  <2>1. \A f \in safety : f.stamp \in Nat
    BY <1>3 DEF CopyType
  <2> QED
    BY <1>3, <1>4, <2>1
<1>6. IsFiniteSet(safety') /\ Cardinality(safety') = n + 1
  BY <1>1, <1>3, <1>5, FS_AddElement DEF n
<1>7. op' \in RestoreOp /\ op'.kind = "restore" /\ op'.at = "copying" /\ op'.from = g
  <2>1. g \in CopyType
    BY <1>2 DEF Copies!Files, CopiesInv, CopiesShape
  <2> QED
    BY <1>2, <2>1 DEF RestoreOp
<1>8. CopiesShape'
  BY <1>1, <1>3, <1>4, <1>7 DEF CopiesInv, CopiesShape, CopyType, RestoreOp
<1>9. StampsKnow'
  <2>1. \A f \in safety' : f.stamp <= n + 1
    <3>1. \A f \in safety : f.stamp \in Nat
      BY <1>3 DEF CopyType
    <3> QED
      BY <1>1, <1>3, <1>4, <3>1
  <2>2. \A f, g2 \in safety' : f.stamp = g2.stamp => f = g2
    BY <1>1, <1>5 DEF CopiesInv, StampsKnow
  <2> QED
    BY <1>1, <1>6, <2>1, <2>2 DEF CopiesInv, StampsKnow
<1>10. OpKnows' /\ BackupKnows'
  BY <1>1, <1>7 DEF CopiesInv, OpKnows, BackupKnows
<1>11. RestoreKnows'
  BY <1>1, <1>2, <1>4, <1>6, <1>7 DEF RestoreKnows
<1>12. FoundIsSafe' /\ Copies!BackupHolds' /\ Copies!OkMeansBackup'
  BY <1>1 DEF CopiesInv, FoundIsSafe, Copies!BackupHolds, Copies!OkMeansBackup
<1> QED
  BY <1>8, <1>9, <1>10, <1>11, <1>12 DEF CopiesInv

\* The safety copy is complete before a byte of the live file is overwritten.
LEMMA SafetyCopyPreserves ==
    ASSUME DatabaseAssumption, CopiesInv, Copies!SafetyCopy
    PROVE  CopiesInv'
<1> DEFINE n == Cardinality(safety)
<1>1. op \in RestoreOp /\ op.kind = "restore" /\ op.at = "copying"
  BY Kinds DEF Copies!SafetyCopy, Copies!OverwriteStarts, Copies!Restore
<1>2. /\ UNCHANGED <<open, files, wal, backups, night, stamp>>
      /\ main' = [main EXCEPT !.state = "partial"] /\ op' = [op EXCEPT !.at = "overwrite"]
      /\ before' = IF main.state = "whole" THEN [writes |-> files, log |-> wal # "none"]
                                           ELSE before
      /\ safety' = {IF f.stamp = n THEN [f EXCEPT !.state = main.state] ELSE f : f \in safety}
  <2>1. safety' = {IF f.stamp = n THEN [f EXCEPT !.state = main.state] ELSE f : f \in safety}
    BY SameCardinality DEF Copies!SafetyCopy
  <2> HIDE DEF n
  <2> QED
    BY <2>1 DEF Copies!SafetyCopy, Copies!OverwriteStarts
<1>3. /\ IsFiniteSet(safety) /\ n \in Nat /\ safety \subseteq CopyType
      /\ \A f \in safety : f.stamp <= n
      /\ \A f, g \in safety : f.stamp = g.stamp => f = g
  BY FS_CardinalityType DEF CopiesInv, CopiesShape, StampsKnow
<1>4. PICK t \in safety : t.stamp = n /\ t.state = "partial" /\ t.writes = main.writes
  BY <1>1 DEF CopiesInv, RestoreKnows
<1> DEFINE c == [t EXCEPT !.state = main.state]
<1> HIDE DEF n
<1>5. main.state \in Copies!States /\ main.writes \in 0..MaxWrites
  BY DEF CopiesInv, CopiesShape
<1>6. c \in CopyType /\ c.stamp = n /\ c.state = main.state /\ c.writes = main.writes
  BY <1>3, <1>4, <1>5 DEF CopyType
<1>7. safety' = (safety \ {t}) \cup {c}
  <2>1. \A f \in safety : f.stamp = n <=> f = t
    BY <1>3, <1>4
  <2> QED
    BY <1>2, <1>4, <2>1
<1> HIDE DEF c
<1>8. \A f \in safety \ {t} : f.stamp # n
  BY <1>3, <1>4
<1>9. IsFiniteSet(safety') /\ Cardinality(safety') = n
  <2>1. IsFiniteSet(safety \ {t}) /\ Cardinality(safety \ {t}) = n - 1
    BY <1>3, <1>4, FS_RemoveElement DEF n
  <2>2. c \notin safety \ {t}
    BY <1>6, <1>8
  <2>3. IsFiniteSet(safety') /\ Cardinality(safety') = (n - 1) + 1
    BY <1>7, <2>1, <2>2, FS_AddElement
  <2> QED
    BY <1>3, <2>3
<1>10. /\ main'.state = "partial" /\ main' \in [writes : 0..MaxWrites, state : Copies!States]
       /\ op' \in RestoreOp /\ op'.kind = "restore" /\ op'.at = "overwrite" /\ op'.from = op.from
  BY <1>1, <1>2 DEF CopiesInv, CopiesShape, RestoreOp, Copies!States
<1>11. CopiesShape'
  BY <1>2, <1>3, <1>6, <1>7, <1>10 DEF CopiesInv, CopiesShape, RestoreOp, CopyType
<1>12. StampsKnow'
  <2>1. \A f \in safety' : f.stamp <= n
    BY <1>3, <1>6, <1>7
  <2>2. \A f, g \in safety' : f.stamp = g.stamp => f = g
    BY <1>3, <1>6, <1>7, <1>8
  <2> QED
    BY <1>2, <1>9, <2>1, <2>2 DEF CopiesInv, StampsKnow
<1>13. OpKnows' /\ BackupKnows' /\ RestoreKnows'
  BY <1>1, <1>2, <1>10 DEF CopiesInv, OpKnows, BackupKnows, RestoreKnows
<1>14. FoundIsSafe'
  <2>1. CASE main.state = "whole"
    <3>1. before' = [writes |-> files, log |-> wal # "none"]
      BY <1>2, <2>1
    <3>2. ~before'.log => c.state = "whole" /\ c.writes = before'.writes
      BY <1>6, <2>1, <3>1 DEF CopiesInv, OpKnows
    <3> QED
      BY <1>7, <3>2 DEF FoundIsSafe
  <2>2. CASE main.state # "whole"
    <3>1. before' = before
      BY <1>2, <2>2
    <3>2. ASSUME NEW f \in safety, f.state = "whole" PROVE f \in safety'
      BY <1>4, <1>7, <3>2
    <3> QED
      BY <3>1, <3>2 DEF CopiesInv, FoundIsSafe
  <2> QED
    BY <2>1, <2>2
<1>15. Copies!BackupHolds' /\ Copies!OkMeansBackup'
  BY <1>2 DEF CopiesInv, Copies!BackupHolds, Copies!OkMeansBackup
<1> QED
  BY <1>11, <1>12, <1>13, <1>14, <1>15 DEF CopiesInv

\* The overwriting of the live file ends, or dies in the middle.
LEMMA OverwritePreserves ==
    ASSUME DatabaseAssumption, CopiesInv, Copies!OverwriteFails \/ Copies!Overwritten
    PROVE  CopiesInv'
<1>1. /\ op \in RestoreOp /\ op.kind = "restore" /\ op.at = "overwrite" /\ ~open
      /\ main.state = "partial"
  BY Kinds DEF Copies!OverwriteFails, Copies!Overwritten, Copies!Restore, CopiesInv, OpKnows,
               RestoreKnows
<1>2. CASE Copies!OverwriteFails
  BY <1>1, <1>2, OpEnds DEF Copies!OverwriteFails, Copies!fileVars, CopiesInv, CopiesShape
<1>3. CASE Copies!Overwritten
  <2>1. /\ UNCHANGED <<open, backups, safety, night, stamp, before>> /\ op' = Copies!NoOp
        /\ main' = [writes |-> op.from.writes, state |-> op.from.state]
        /\ files' = op.from.writes /\ wal' \in {"none", "stale"}
    BY <1>3 DEF Copies!Overwritten
  <2>2. /\ main' \in [writes : 0..MaxWrites, state : Copies!States] /\ files' \in 0..MaxWrites
        /\ main'.writes = files' /\ op'.kind = "none"
    BY <1>1, <2>1 DEF RestoreOp, CopyType, Copies!NoOp
  <2>3. CopiesShape'
    BY <2>1, <2>2 DEF CopiesInv, CopiesShape, CopyType
  <2>4. StampsKnow' /\ FoundIsSafe' /\ Copies!BackupHolds' /\ Copies!OkMeansBackup'
    BY <2>1 DEF CopiesInv, StampsKnow, FoundIsSafe, Copies!BackupHolds, Copies!OkMeansBackup
  <2>5. OpKnows' /\ BackupKnows' /\ RestoreKnows'
    BY <1>1, <2>1, <2>2 DEF OpKnows, BackupKnows, RestoreKnows
  <2> QED
    BY <2>3, <2>4, <2>5 DEF CopiesInv
<1> QED
  BY <1>2, <1>3

-----------------------------------------------------------------------------
\* A database that nobody has opened yet.
LEMMA InitCopies ==
    ASSUME DatabaseAssumption, Copies!Init
    PROVE  CopiesInv
<1>0. MaxWrites \in Nat
  BY DEF DatabaseAssumption, Copies!BackupsAssumption
<1>1. /\ open = FALSE /\ files = 0 /\ main = [writes |-> 0, state |-> "whole"] /\ wal = "none"
      /\ backups = {} /\ safety = {} /\ op = Copies!NoOp /\ stamp = 0 /\ before = None
      /\ night = [status |-> "none", file |-> 0]
  BY DEF Copies!Init
<1>2. op.kind = "none"
  BY <1>1 DEF Copies!NoOp
<1>3. CopiesShape
  <2>1. 0 \in 0..MaxWrites /\ 0 \in 0..stamp /\ stamp \in Nat
    BY <1>0, <1>1
  <2>2. main \in [writes : 0..MaxWrites, state : Copies!States]
    BY <1>1, <2>1 DEF Copies!States
  <2>3. night \in [status : {"none", "ok", "error"}, file : 0..stamp]
    BY <1>1, <2>1
  <2> QED
    BY <1>1, <2>1, <2>2, <2>3 DEF CopiesShape
<1>4. StampsKnow
  BY <1>1, FS_EmptySet DEF StampsKnow
<1>5. OpKnows /\ BackupKnows /\ RestoreKnows /\ FoundIsSafe
  BY <1>1, <1>2 DEF OpKnows, BackupKnows, RestoreKnows, FoundIsSafe
<1>6. Copies!BackupHolds /\ Copies!OkMeansBackup
  BY <1>1 DEF Copies!BackupHolds, Copies!OkMeansBackup
<1> QED
  BY <1>3, <1>4, <1>5, <1>6 DEF CopiesInv

\* Nothing of this happens to the copies.
LEMMA CopiesStay ==
    ASSUME CopiesInv, UNCHANGED copies
    PROVE  CopiesInv'
<1>1. CopiesShape'
  BY DEF copies, CopiesInv, CopiesShape, CopyType, BackupOp, RestoreOp
<1>2. StampsKnow' /\ OpKnows' /\ BackupKnows' /\ RestoreKnows' /\ FoundIsSafe'
  <2>1. StampsKnow' /\ FoundIsSafe'
    BY DEF copies, CopiesInv, StampsKnow, FoundIsSafe
  <2>2. OpKnows' /\ BackupKnows'
    BY DEF copies, CopiesInv, OpKnows, BackupKnows
  <2>3. RestoreKnows'
    BY DEF copies, CopiesInv, RestoreKnows
  <2> QED
    BY <2>1, <2>2, <2>3
<1>3. Copies!BackupHolds' /\ Copies!OkMeansBackup'
  BY DEF copies, CopiesInv, Copies!BackupHolds, Copies!OkMeansBackup
<1> QED
  BY <1>1, <1>2, <1>3 DEF CopiesInv

LEMMA CopiesStep ==
    ASSUME DatabaseAssumption, CopiesInv,
           [MCNext]_<<part, faults, access, copies>>
    PROVE  CopiesInv'
<1>1. CASE Copies!Next
  <2>1. CASE Copies!Open \/ Copies!Kill \/ Copies!Close
    BY <2>1, ProcessPreserves
  <2>2. CASE Copies!Write \/ Copies!AutoCheckpoint
    BY <2>2, WritePreserves
  <2>3. CASE Copies!BeginBackup
    BY <2>3, BeginBackupPreserves
  <2>4. CASE Copies!Checkpoint
    BY <2>4, CheckpointPreserves
  <2>5. CASE Copies!Copied \/ Copies!Verified
    BY <2>5, CopyPreserves
  <2>6. CASE Copies!CopyFails \/ Copies!VerifyFails \/ Copies!OffsiteFails
    BY <2>6, BackupFailurePreserves
  <2>7. CASE Copies!Rotate
    BY <2>7, RotatePreserves
  <2>8. CASE Copies!BeginRestore
    BY <2>8, BeginRestorePreserves
  <2>9. CASE Copies!SafetyCopy
    BY <2>9, SafetyCopyPreserves
  <2>10. CASE Copies!OverwriteFails \/ Copies!Overwritten
    BY <2>10, OverwritePreserves
  <2> QED
    BY <1>1, <2>1, <2>2, <2>3, <2>4, <2>5, <2>6, <2>7, <2>8, <2>9, <2>10
       DEF Copies!Next, Copies!BackupStep
<1>2. CASE UNCHANGED copies
  BY <1>2, CopiesStay
<1> QED
  BY <1>1, <1>2 DEF MCNext

\* The run asks nothing of the state that the invariant does not say.
LEMMA CopiesInvSuffices ==
    ASSUME CopiesInv
    PROVE  /\ Copies!TypeOK /\ Copies!BackupHolds /\ Copies!OkMeansBackup
           /\ Copies!RestoreIsRecoverable
<1>1. Copies!TypeOK
  BY DEF CopiesInv, CopiesShape, StampsKnow, OpKnows, CopyType, Copies!TypeOK, Copies!Files
<1>2. Copies!RestoreIsRecoverable
  <2> SUFFICES ASSUME before # None, ~before.log
               PROVE  before.writes \in Copies!Found
    BY DEF Copies!RestoreIsRecoverable
  <2>1. PICK f \in safety : f.state = "whole" /\ f.writes = before.writes
    BY DEF CopiesInv, FoundIsSafe
  <2> QED
    BY <2>1 DEF Copies!Found
<1> QED
  BY <1>1, <1>2 DEF CopiesInv

\* A verified file goes only by the rotation, which leaves the newest one.
LEMMA NewestStays ==
    ASSUME DatabaseAssumption, CopiesInv, [MCNext]_<<part, faults, access, copies>>,
           NEW f \in backups, f \notin backups', f.checked
    PROVE  \E g \in backups' : g.checked /\ g.stamp > f.stamp
<1>1. CASE Copies!Copied \/ Copies!Verified \/ Copies!VerifyFails
  <2>1. op.kind = "backup" /\ op.at \in {"copying", "verify"}
    BY <1>1 DEF Copies!Copied, Copies!Verified, Copies!VerifyFails, Copies!Backup
  <2>2. Copies!Target \in backups /\ ~Copies!Target.checked
    BY <2>1, TargetIs DEF CopiesInv, BackupKnows
  <2>3. backups \ {Copies!Target} \subseteq backups'
    BY <1>1 DEF Copies!Copied, Copies!Verified, Copies!VerifyFails, Copies!Replace
  <2> QED
    BY <2>2, <2>3
<1>2. CASE Copies!Rotate
  <2> DEFINE t == Copies!Target
  <2>1. t \in backups' /\ t.checked /\ t.stamp = op.file
        /\ \A g \in backups : g # t => g.stamp < op.file
    BY <1>2, RotationKeepsNewest, TargetIs
  <2> HIDE DEF t
  <2>2. f # t /\ t \in backups
    BY <1>2, <2>1, RotationKeepsNewest
  <2>3. f.stamp \in Nat /\ t.stamp \in Nat
    BY <2>2 DEF CopiesInv, CopiesShape, CopyType
  <2>4. f.stamp < t.stamp
    BY <2>1, <2>2
  <2> QED
    BY <2>1, <2>3, <2>4
<1>3. CASE Copies!Checkpoint
  BY <1>3 DEF Copies!Checkpoint, Copies!CopyStarts
<1>4. CASE UNCHANGED backups
  BY <1>4
<1> QED
  <2>1. Copies!Next => \/ Copies!Copied \/ Copies!Verified \/ Copies!VerifyFails
                       \/ Copies!Rotate \/ Copies!Checkpoint \/ UNCHANGED backups
    BY DEF Copies!Next, Copies!BackupStep, Copies!Open, Copies!Kill, Copies!Close, Copies!Write,
           Copies!AutoCheckpoint, Copies!BeginBackup, Copies!CopyFails, Copies!OffsiteFails,
           Copies!BeginRestore, Copies!SafetyCopy, Copies!OverwriteFails, Copies!Overwritten
  <2> QED
    BY <1>1, <1>2, <1>3, <1>4, <2>1 DEF MCNext, copies

\* lakewind/db/access.py 625-730, cli.py and pipeline_loop.py: whatever is written, fails or dies while
\* backups, rotations and restores run, a verified backup that no checkpoint
\* overlapped holds every write committed when it was asked for, a maintenance
\* recorded as ok left its backup or newer ones, the newest verified backup is
\* never rotated out, and what a restore found is in a whole file for ever.
THEOREM BackupsAreKept ==
    ASSUME DatabaseAssumption
    PROVE  MCSpec => BackupsKept
<1>1. MCInit => CopiesInv
  BY InitCopies DEF MCInit
<1>2. CopiesInv /\ [MCNext]_<<part, faults, access, copies>> => CopiesInv'
  BY CopiesStep
<1>3. CopiesInv => /\ Copies!TypeOK /\ Copies!BackupHolds /\ Copies!OkMeansBackup
                   /\ Copies!RestoreIsRecoverable
  BY CopiesInvSuffices
<1>4. CopiesInv /\ [MCNext]_<<part, faults, access, copies>> =>
        [\A f \in backups \ backups' :
           f.checked => \E g \in backups' : g.checked /\ g.stamp > f.stamp]_(Copies!vars)
  BY NewestStays
<1> QED
  BY <1>1, <1>2, <1>3, <1>4, PTL DEF MCSpec, BackupsKept, Copies!NewestBackupStays
=============================================================================
