---------------------------- MODULE Connections ----------------------------
(***************************************************************************)
(* The per-thread connections to the DuckDB file and the schema that the   *)
(* first of them applies (lakewind/db/access.py, lakewind/db/schema.py).   *)
(*                                                                         *)
(* Two processes use the file: the service, with its threads, and a        *)
(* command line with one.  DuckDB lets one process at a time open it, and  *)
(* every statement commits on its own.                                     *)
(***************************************************************************)
EXTENDS Naturals, FiniteSets

CONSTANTS
  Threads,     \* the service's threads
  Admin,       \* the thread of the command line
  Migrations,  \* versions of schema.MIGRATIONS: 1..Migrations
  Retries,     \* _WRITE_RETRIES
  MaxFaults,   \* bound: killed processes and failing statements
  None         \* no process, no thread

ConnectionsAssumption ==
  /\ Admin \notin Threads
  /\ None \notin Threads \cup {Admin, "service", "cli"}
  /\ Migrations \in Nat /\ Retries \in Nat /\ MaxFaults \in Nat

VARIABLES
  running,  \* the processes that run
  owner,    \* the process that holds the file lock
  ensured,  \* _SCHEMA_ENSURED of each process
  ddl,      \* the thread that holds _SCHEMA_LOCK, of each process
  thr,      \* each thread: where it is, attempts to open, next DDL statement;
            \* "in" when its connection is in _CONN_REGISTRY
  slipped,  \* history: threads that registered while the DDL was running
  db,       \* the schema: what was applied and what schema_migrations holds
  faults    \* how many of the MaxFaults faults have happened

vars == <<running, owner, ensured, ddl, thr, slipped, db, faults>>

Procs == {"service", "cli"}
ThreadsOf(p) == IF p = "service" THEN Threads ELSE {Admin}
AllThreads == Threads \cup {Admin}
ProcOf(t) == IF t = Admin THEN "cli" ELSE "service"

\* The DDL of a process: the base statements, then for each version its
\* statements and its row in schema_migrations.
Steps == 1..(1 + 2 * Migrations)
Version(k) == k \div 2

IsRecord(k) == k % 2 = 1 /\ k > 1

Schema(done, recorded) == [done |-> done, recorded |-> recorded]
Complete(c) == c.done = 0..Migrations   \* 0 stands for the base tables

Out == [at |-> "out", tries |-> 0, pos |-> 1]
Fault == faults < MaxFaults /\ faults' = faults + 1

-----------------------------------------------------------------------------

\* A new file, one from before migrations were recorded, or a migrated one.
Init ==
  /\ running = {}
  /\ owner = None
  /\ ensured = [p \in Procs |-> FALSE]
  /\ ddl = [p \in Procs |-> None]
  /\ thr = [t \in AllThreads |-> Out]
  /\ slipped = {}
  /\ db \in {Schema({}, {}), Schema({0}, {})} \cup
             {Schema(0..n, 1..n) : n \in 0..Migrations}
  /\ faults = 0

StartProcess(p) ==
  /\ p \notin running
  /\ running' = running \cup {p}
  /\ UNCHANGED <<owner, ensured, ddl, thr, slipped, db, faults>>

Gone(p) ==
  /\ running' = running \ {p}
  /\ owner' = IF owner = p THEN None ELSE owner
  /\ ensured' = [ensured EXCEPT ![p] = FALSE]
  /\ ddl' = [ddl EXCEPT ![p] = None]
  /\ thr' = [t \in AllThreads |-> IF ProcOf(t) = p THEN Out ELSE thr[t]]
  /\ slipped' = slipped \ ThreadsOf(p)
  /\ UNCHANGED db

\* SIGKILL, the OOM killer or the power.
Kill(p) == p \in running /\ Fault /\ Gone(p)

\* _signal_handler(), or a command that returns.
Stop(p) ==
  /\ p \in running
  /\ p = "cli" => thr[Admin].at \in {"out", "in"}
  /\ Gone(p)
  /\ UNCHANGED faults

(***************************************************************************)
(* _thread_conn(), _ensure_schema() and the statements of a thread.        *)
(***************************************************************************)
At(t, place) == thr' = [thr EXCEPT ![t].at = place]

\* cursor(): a thread with a registered connection goes on using it.
Cursor(t) ==
  /\ ProcOf(t) \in running
  /\ thr[t].at = "out"
  /\ At(t, "opening")
  /\ UNCHANGED <<running, owner, ensured, ddl, slipped, db, faults>>

Open(t) ==
  /\ thr[t].at = "opening"
  /\ owner \in {None, ProcOf(t)}
  /\ owner' = ProcOf(t)
  /\ At(t, "schema")
  /\ UNCHANGED <<running, ensured, ddl, slipped, db, faults>>

\* Mutant of OpenRefused: the attempts are not counted.
OpenRefusedForever(t) ==
  /\ thr[t].at = "opening"
  /\ owner \notin {None, ProcOf(t)}
  /\ UNCHANGED vars

\* The other process holds the file: a bounded number of attempts.
OpenRefused(t) ==
  /\ thr[t].at = "opening"
  /\ owner \notin {None, ProcOf(t)}
  /\ LET n == thr[t].tries IN
       thr' = [thr EXCEPT ![t] = IF n < Retries THEN [thr[t] EXCEPT !.tries = n + 1] ELSE Out]
  /\ UNCHANGED <<running, owner, ensured, ddl, slipped, db, faults>>

Register(t) == thr' = [thr EXCEPT ![t] = [Out EXCEPT !.at = "in"]]

\* The flag is looked at without the lock first.
SchemaEnsured(t) ==
  LET p == ProcOf(t) IN
  /\ thr[t].at = "schema"
  /\ ensured[p]
  /\ Register(t)
  /\ slipped' = IF ddl[p] # None THEN slipped \cup {t} ELSE slipped
  /\ UNCHANGED <<running, owner, ensured, ddl, db, faults>>

TakeSchemaLock(t) ==
  LET p == ProcOf(t) IN
  /\ thr[t].at = "schema"
  /\ ~ensured[p]
  /\ ddl[p] = None
  /\ ddl' = [ddl EXCEPT ![p] = t]
  /\ ensured' = [ensured EXCEPT ![p] = TRUE]
  /\ At(t, "ddl")
  /\ UNCHANGED <<running, owner, slipped, db, faults>>

Applied(c, k) ==
  CASE k = 1 -> [c EXCEPT !.done = @ \cup {0}]
    [] IsRecord(k) -> [c EXCEPT !.recorded = @ \cup {Version(k)}]
    [] OTHER -> [c EXCEPT !.done = @ \cup {Version(k)}]

\* A version that is recorded is passed over.
Following(c, k) ==
  LET open == {j \in Steps : j > k /\ IF IsRecord(j) THEN j = k + 1
                                         ELSE Version(j) \notin c.recorded}
  IN  IF open = {} THEN 0 ELSE CHOOSE j \in open : \A i \in open : j <= i

Statement(t) ==
  LET k == thr[t].pos
      c == Applied(db, k)
  IN
  /\ thr[t].at = "ddl"
  /\ k # 0
  /\ db' = c
  /\ thr' = [thr EXCEPT ![t].pos = Following(c, k)]
  /\ UNCHANGED <<running, owner, ensured, ddl, slipped, faults>>

SchemaDone(t) ==
  /\ thr[t].at = "ddl"
  /\ thr[t].pos = 0
  /\ ddl' = [ddl EXCEPT ![ProcOf(t)] = None]
  /\ Register(t)
  /\ UNCHANGED <<running, owner, ensured, slipped, db, faults>>

\* The flag is taken back and the exception goes to the caller; the
\* connection was not registered and closes with its last reference.
Released(t) ==
  IF \E u \in ThreadsOf(ProcOf(t)) \ {t} : thr[u].at \in {"schema", "ddl", "in"}
  THEN owner ELSE None

\* Mutant of StatementFails: the flag is not taken back.
StatementFailsEnsured(t) ==
  /\ thr[t].at = "ddl"
  /\ thr[t].pos # 0
  /\ Fault
  /\ ddl' = [ddl EXCEPT ![ProcOf(t)] = None]
  /\ thr' = [thr EXCEPT ![t] = Out]
  /\ owner' = Released(t)
  /\ UNCHANGED <<running, ensured, slipped, db>>

StatementFails(t) ==
  /\ thr[t].at = "ddl"
  /\ thr[t].pos # 0
  /\ Fault
  /\ ddl' = [ddl EXCEPT ![ProcOf(t)] = None]
  /\ ensured' = [ensured EXCEPT ![ProcOf(t)] = FALSE]
  /\ thr' = [thr EXCEPT ![t] = Out]
  /\ owner' = Released(t)
  /\ UNCHANGED <<running, slipped, db>>

-----------------------------------------------------------------------------

ThreadStep(t) ==
  \/ Open(t) \/ OpenRefused(t) \/ SchemaEnsured(t) \/ TakeSchemaLock(t)
  \/ Statement(t) \/ SchemaDone(t) \/ StatementFails(t)

Next ==
  \/ \E p \in Procs : StartProcess(p) \/ Kill(p) \/ Stop(p)
  \/ \E t \in AllThreads : Cursor(t) \/ ThreadStep(t)

\* A thread that runs goes on.
Fairness == \A t \in AllThreads : WF_vars(ThreadStep(t))

Spec == Init /\ [][Next]_vars /\ Fairness

-----------------------------------------------------------------------------

TypeOK ==
  /\ running \subseteq Procs /\ owner \in running \cup {None}
  /\ slipped \subseteq AllThreads
  /\ \A t \in AllThreads :
       /\ thr[t].at \in {"out", "opening", "schema", "ddl", "in"}
       /\ thr[t].tries \in 0..Retries /\ thr[t].pos \in Steps \cup {0}
  /\ db.done \subseteq 0..Migrations /\ db.recorded \subseteq 1..Migrations

\* A connection that was opened while nobody applied the schema sees all of
\* it, whatever statements of the DDL failed and whichever process died in
\* them; only a thread that slipped past the flag may not.
QueriesSeeSchema ==
  \A t \in AllThreads \ slipped : thr[t].at = "in" => Complete(db)

\* A version is recorded when its statements ran: a crash between the two
\* repeats them and never loses them.
RecordedIsApplied == db.recorded \subseteq db.done

\* The three together: what a thread of access.py may rely on once it has its
\* connection, and the migrations it may count on.
SchemaSeen == TypeOK /\ QueriesSeeSchema /\ RecordedIsApplied

\* Waiting for the file or for the schema ends, with a connection or an error.
OpenEnds ==
  \A t \in AllThreads :
    (thr[t].at \in {"opening", "schema"}) ~> (thr[t].at \in {"out", "in"})
=============================================================================
