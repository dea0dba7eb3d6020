--------------------------- MODULE ForecastStore ---------------------------
(***************************************************************************)
(* The in-memory store that answers every request for a forecast, together *)
(* with the pipeline loop that stores new predictions: the projection of   *)
(* the newest batch, the cache of single stored predictions, the on-demand *)
(* inference, and the single flights that coalesce concurrent misses.      *)
(*                                                                         *)
(* A cycle stores one generation of predictions, row by row.  A key is a   *)
(* point and a target time; a generation covers the keys it has a row for, *)
(* and a point whose prediction failed is not covered.  Time advances in   *)
(* ticks while every coroutine waits for a worker thread.                  *)
(***************************************************************************)
EXTENDS Naturals, Sequences, FiniteSets

CONSTANTS
    Keys,        \* what is asked for
    NoKey,       \* nothing asked for
    Operational, \* the keys of operational points, held by the projection
    Clients,     \* concurrent requests of the bot and the API
    Loop,        \* the pipeline loop
    Ttl,         \* projection_ttl and prediction_ttl, in ticks
    MaxLag,      \* bound: ticks between a query and the use of its rows
    MaxGen,      \* bound: prediction cycles in a behaviour
    Failures,    \* whether queries and inferences may raise
    Disconnects  \* whether a request may be cancelled

ASSUME StoreConstants ==
    /\ Operational \subseteq Keys /\ NoKey \notin Keys /\ Loop \notin Clients
    /\ Ttl \in Nat \ {0} /\ MaxLag \in Nat /\ MaxGen \in Nat
    /\ Failures \in BOOLEAN /\ Disconnects \in BOOLEAN

Actors == Clients \cup {Loop}
Levels == {"stored", "ondemand"}
Flights == Levels \X Keys

NoGen == 0              \* no prediction
Inferred == MaxGen + 1  \* an on-demand prediction, of the present moment
Result == 0..Inferred
Never == Ttl + 1        \* _projection_loaded_at is None

VARIABLES
    stored,     \* the generations in the predictions table: keys they cover
    since,      \* ticks since each generation was complete, at most Ttl + MaxLag
    projection, \* _projection: the generation it holds for a key
    loaded,     \* ticks since _projection_loaded_at, at most Ttl
    refresher,  \* where each actor is in refresh_projection()
    failed,     \* history: the last refresh of the actor raised
    rows,       \* the batch the loading thread has read: a generation and its keys
    lag,        \* ticks since it has
    cache,      \* _point_cache and _ondemand_cache: value and ticks since set
    flight,     \* _inflight: the state and the result of each flight
    client,     \* the state of each request: pc, key, reply
    cycle       \* where the pipeline loop is in its cycle

table == <<stored, since>>
proj == <<projection, loaded, refresher, failed, rows, lag>>
lookups == <<cache, flight>>
vars == <<table, proj, lookups, client, cycle>>

TypeOK ==
    /\ stored \in Seq(SUBSET Operational) /\ Len(stored) <= MaxGen
    /\ since \in [1..MaxGen -> 0..(Ttl + MaxLag)]
    /\ projection \in [Keys -> 0..MaxGen] /\ loaded \in 0..Never
    /\ refresher \in [Actors -> {"out", "lock", "query", "install"}]
    /\ failed \in [Actors -> BOOLEAN]
    /\ rows \in [gen : 0..MaxGen, keys : SUBSET Operational] /\ lag \in 0..MaxLag
    /\ cache \in [Flights -> [value : Result, age : 0..Ttl]]
    /\ flight \in [Flights -> [state : {"none", "running", "ended"}, value : Result]]
    /\ client \in [Clients -> [pc : {"idle", "refresh", "lookup", "stored", "infer",
                                     "ondemand", "replied", "cancelled"},
                               key : Keys \cup {NoKey}, reply : Result, leads : BOOLEAN]]
    /\ cycle \in {"predict", "insert", "project", "artifacts", "force"}

-----------------------------------------------------------------------------
(* Reads.                                                                  *)

Gen == Len(stored)

\* latest_prediction_batch(): the rows there are of the newest generation.
NoRows == [gen |-> NoGen, keys |-> {}]
Batch == IF Gen = NoGen THEN NoRows ELSE [gen |-> Gen, keys |-> stored[Gen]]

\* What a batch becomes in the projection.
Projected(batch) == [k \in Keys |-> IF k \in batch.keys THEN batch.gen ELSE NoGen]

\* latest_predictions() and _match_in(): the newest generation with a row
\* for the key.
Latest(k) ==
    IF \E g \in 1..Gen : k \in stored[g]
    THEN CHOOSE g \in 1..Gen : k \in stored[g] /\ \A h \in g+1..Gen : k \notin stored[h]
    ELSE NoGen

\* Mutant of Fresh: the age is not looked at.
FreshOnceLoaded == loaded # Never

\* _projection_fresh()
Fresh == loaded < Ttl

LockHeld == \E a \in Actors : refresher[a] \in {"query", "install"}

\* A coroutine that is not waiting for a thread or for the lock.
Runnable ==
    \/ \E c \in Clients : client[c].pc \in {"lookup", "infer", "replied", "cancelled"}
    \/ \E c \in Clients : client[c].pc = "refresh" /\ refresher[c] = "out"
    \/ \E f \in Flights : flight[f].state = "ended"
    \/ cycle \in {"project", "force"} /\ refresher[Loop] = "out"
    \/ ~LockHeld /\ \E a \in Actors : refresher[a] = "lock"

Expired == [value |-> NoGen, age |-> Ttl]

Idle == [pc |-> "idle", key |-> NoKey, reply |-> NoGen, leads |-> FALSE]

Init ==
    /\ stored = <<>> /\ since = [g \in 1..MaxGen |-> 0]
    /\ projection = [k \in Keys |-> NoGen] /\ loaded = Never
    /\ refresher = [a \in Actors |-> "out"] /\ failed = [a \in Actors |-> FALSE]
    /\ rows = NoRows /\ lag = 0
    /\ cache = [f \in Flights |-> Expired]
    /\ flight = [f \in Flights |-> [state |-> "none", value |-> NoGen]]
    /\ client = [c \in Clients |-> Idle]
    /\ cycle = "predict"

-----------------------------------------------------------------------------
(* refresh_projection().                                                   *)

\* The caller enters: at once out again with a fresh projection.
EnterRefresh(a, force) ==
    /\ refresher' = [refresher EXCEPT ![a] = IF ~force /\ Fresh THEN "out" ELSE "lock"]
    /\ failed' = [failed EXCEPT ![a] = FALSE]
    /\ UNCHANGED <<projection, loaded, rows, lag>>

\* Mutant of Forced: force is not passed on.
ForcedNever(a) == FALSE

\* The refresh at the end of run_full_cycle().
Forced(a) == a = Loop /\ cycle = "force"

\* Mutant of TakeLock: no second look at the freshness.
TakeLockLoadsAgain(a) ==
    /\ refresher[a] = "lock" /\ ~LockHeld
    /\ refresher' = [refresher EXCEPT ![a] = "query"]
    /\ UNCHANGED <<table, projection, loaded, failed, rows, lag, lookups, client, cycle>>

\* The lock is free: it may have been released by a refresh that makes this
\* one unnecessary.
TakeLock(a) ==
    /\ refresher[a] = "lock" /\ ~LockHeld
    /\ refresher' = [refresher EXCEPT ![a] = IF ~Forced(a) /\ Fresh THEN "out" ELSE "query"]
    /\ UNCHANGED <<table, projection, loaded, failed, rows, lag, lookups, client, cycle>>

\* The thread of _load_projection_rows() reads the table.
ReadRows(a) ==
    /\ refresher[a] = "query"
    /\ refresher' = [refresher EXCEPT ![a] = "install"]
    /\ rows' = Batch /\ lag' = 0
    /\ UNCHANGED <<table, projection, loaded, failed, lookups, client, cycle>>

\* The query raises: the projection stays as it is.
LoadFails(a) ==
    /\ Failures /\ refresher[a] = "query"
    /\ refresher' = [refresher EXCEPT ![a] = "out"]
    /\ failed' = [failed EXCEPT ![a] = TRUE]
    /\ UNCHANGED <<table, projection, loaded, rows, lag, lookups, client, cycle>>

\* The rows become the projection; without rows the old one is kept, and only
\* the very first load counts as one.
Install(a) ==
    /\ refresher[a] = "install"
    /\ refresher' = [refresher EXCEPT ![a] = "out"]
    /\ IF rows.keys # {}
       THEN projection' = Projected(rows) /\ loaded' = 0
       ELSE UNCHANGED projection /\ loaded' = IF loaded = Never THEN 0 ELSE loaded
    /\ rows' = NoRows /\ lag' = 0
    /\ UNCHANGED <<table, failed, lookups, client, cycle>>

-----------------------------------------------------------------------------
(* get_pred() and get_ondemand().                                          *)

Goto(c, pc) == client' = [client EXCEPT ![c].pc = pc]

Reply(c, v) == client' = [client EXCEPT ![c].pc = "replied", ![c].reply = v]

Request(c, k) ==
    /\ client[c].pc = "idle"
    /\ client' = [client EXCEPT ![c].pc = "refresh", ![c].key = k, ![c].reply = NoGen]
    /\ EnterRefresh(c, FALSE)
    /\ UNCHANGED <<table, lookups, cycle>>

\* Level 1, after a refresh that may have changed nothing.
Lookup(c) ==
    /\ client[c].pc = "refresh" /\ refresher[c] = "out"
    /\ LET v == projection[client[c].key] IN
       IF v # NoGen THEN Reply(c, v) ELSE Goto(c, "lookup")
    /\ UNCHANGED <<table, proj, lookups, cycle>>

\* A cached value, or the flight for the key: the first to ask leads it.
Ask(c, f) ==
    IF cache[f].age < Ttl
    THEN Reply(c, cache[f].value) /\ UNCHANGED flight
    ELSE /\ client' = [client EXCEPT ![c].pc = f[1],
                                     ![c].leads = (flight[f].state = "none")]
         /\ flight' = [flight EXCEPT ![f].state = IF @ = "none" THEN "running" ELSE @]

\* Level 2: a stored prediction of this key.
AskStored(c) ==
    /\ client[c].pc = "lookup"
    /\ Ask(c, <<"stored", client[c].key>>)
    /\ UNCHANGED <<table, proj, cache, cycle>>

\* Level 3: an inference for the key.
AskOndemand(c) ==
    /\ client[c].pc = "infer"
    /\ Ask(c, <<"ondemand", client[c].key>>)
    /\ UNCHANGED <<table, proj, cache, cycle>>

NoFlight(f) == flight' = [flight EXCEPT ![f] = [state |-> "none", value |-> NoGen]]

\* The thread of a flight reads the table, or runs the inference.
FlightReads(f) ==
    /\ flight[f].state = "running"
    /\ flight' = [flight EXCEPT ![f] =
          [state |-> "ended", value |-> IF f[1] = "stored" THEN Latest(f[2]) ELSE Inferred]]
    /\ UNCHANGED <<table, proj, cache, client, cycle>>

\* The query or the inference raises, or finds nothing.
FlightFindsNothing(f) ==
    /\ flight[f].state = "running"
    /\ Failures \/ f[1] = "ondemand"
    /\ flight' = [flight EXCEPT ![f] = [state |-> "ended", value |-> NoGen]]
    /\ UNCHANGED <<table, proj, cache, client, cycle>>

Passengers(f) == {c \in Clients : client[c].pc = f[1] /\ client[c].key = f[2]}

\* The leader of the flight resumes, and with it everyone who waits.
Lands(f, pc) ==
    /\ flight[f].state = "ended" /\ \E c \in Passengers(f) : client[c].leads
    /\ client' = [c \in Clients |->
          IF c \in Passengers(f)
          THEN [client[c] EXCEPT !.pc = pc, !.reply = flight[f].value, !.leads = FALSE]
          ELSE client[c]]
    /\ NoFlight(f)
    /\ UNCHANGED <<table, proj, cycle>>

\* A result is cached and returned ...
FlightLands(f) ==
    /\ flight[f].value # NoGen
    /\ cache' = [cache EXCEPT ![f] = [value |-> flight[f].value, age |-> 0]]
    /\ Lands(f, "replied")

\* ... without a stored prediction each of them asks for an inference,
\* without an inference the reply is None.
FlightLandsEmpty(f) ==
    /\ flight[f].value = NoGen
    /\ Lands(f, IF f[1] = "stored" THEN "infer" ELSE "replied")
    /\ UNCHANGED cache

\* Mutant of Disconnect: the key of the cancelled flight is not forgotten.
DisconnectKeepsFlight(c) ==
    /\ Disconnects /\ client[c].pc \in Levels /\ client[c].leads
    /\ client' = [client EXCEPT ![c].pc = "cancelled", ![c].leads = FALSE]
    /\ UNCHANGED <<table, proj, lookups, cycle>>

\* The request is cancelled while it waits for a flight.  The leader hands
\* its CancelledError to every waiter and forgets the key; a waiter leaves
\* the flight alone (shield).
Disconnect(c) ==
    /\ Disconnects /\ client[c].pc \in Levels
    /\ LET f == <<client[c].pc, client[c].key>> IN
       IF client[c].leads
       THEN /\ client' = [d \in Clients |->
                  IF d \in Passengers(f)
                  THEN [client[d] EXCEPT !.pc = "cancelled", !.leads = FALSE]
                  ELSE client[d]]
            /\ NoFlight(f)
       ELSE /\ Goto(c, "cancelled")
            /\ UNCHANGED flight
    /\ UNCHANGED <<table, proj, cache, cycle>>

\* The request is cancelled in refresh_projection(): the lock is released,
\* the rows its thread still loads are dropped.
DisconnectRefresh(c) ==
    /\ Disconnects /\ client[c].pc = "refresh" /\ refresher[c] # "out"
    /\ Goto(c, "cancelled")
    /\ refresher' = [refresher EXCEPT ![c] = "out"]
    /\ IF refresher[c] = "install" THEN rows' = NoRows /\ lag' = 0 ELSE UNCHANGED <<rows, lag>>
    /\ UNCHANGED <<table, projection, loaded, failed, lookups, cycle>>

\* The request is over.
Return(c) ==
    /\ client[c].pc \in {"replied", "cancelled"}
    /\ client' = [client EXCEPT ![c] = Idle]
    /\ failed' = [failed EXCEPT ![c] = FALSE]
    /\ UNCHANGED <<table, projection, loaded, refresher, rows, lag, lookups, cycle>>

-----------------------------------------------------------------------------
(* The cycle of the pipeline loop, as far as it meets the store.           *)

\* run_cycle() has predictions to store: insert_predictions_bulk() inserts
\* them row by row, without a transaction around them.
BeginInsert ==
    /\ cycle = "predict" /\ Gen < MaxGen
    /\ \E k \in Operational : stored' = Append(stored, {k})
    /\ cycle' = "insert"
    /\ UNCHANGED <<since, proj, lookups, client>>

InsertRow ==
    /\ cycle = "insert"
    /\ \E k \in Operational \ stored[Gen] : stored' = [stored EXCEPT ![Gen] = @ \cup {k}]
    /\ UNCHANGED <<since, proj, lookups, client, cycle>>

\* The insertion ends, or raises, or there was nothing to insert because no
\* point could be predicted; precompute_artifacts() follows.
PredictDone ==
    /\ cycle \in {"predict", "insert"}
    /\ cycle' = "artifacts"
    /\ EnterRefresh(Loop, FALSE)
    /\ UNCHANGED <<table, lookups, client>>

\* The maps and trends are drawn; then the projection is loaded by force.
Render ==
    /\ cycle = "artifacts" /\ refresher[Loop] = "out"
    /\ cycle' = "force"
    /\ EnterRefresh(Loop, TRUE)
    /\ UNCHANGED <<table, lookups, client>>

\* The station cycle stores no predictions and loads what is due.
StationCycle ==
    /\ cycle = "predict"
    /\ cycle' = "project"
    /\ EnterRefresh(Loop, FALSE)
    /\ UNCHANGED <<table, lookups, client>>

CycleEnds ==
    /\ cycle \in {"force", "project"} /\ refresher[Loop] = "out"
    /\ cycle' = "predict"
    /\ UNCHANGED <<table, proj, lookups, client>>

\* All rows of generation g are in the table.
Complete(g) == g < Gen \/ (g = Gen /\ cycle # "insert")

\* Mutant of Older: ages are not capped.
OlderUncapped(n, bound) == n + 1

Older(n, bound) == IF n < bound THEN n + 1 ELSE n

Tick ==
    /\ ~Runnable
    /\ \A a \in Actors : refresher[a] = "install" => lag < MaxLag
    /\ since' = [g \in 1..MaxGen |-> IF Complete(g) THEN Older(since[g], Ttl + MaxLag) ELSE 0]
    /\ loaded' = IF loaded = Never THEN Never ELSE Older(loaded, Ttl)
    /\ lag' = IF \E a \in Actors : refresher[a] = "install" THEN lag + 1 ELSE lag
    /\ cache' = [f \in Flights |->
          IF cache[f].age + 1 >= Ttl THEN Expired ELSE [cache[f] EXCEPT !.age = @ + 1]]
    /\ UNCHANGED <<stored, projection, refresher, failed, rows, flight, client, cycle>>

Refreshing == \E a \in Actors : TakeLock(a) \/ ReadRows(a) \/ LoadFails(a) \/ Install(a)

Flying ==
    \E f \in Flights : FlightReads(f) \/ FlightFindsNothing(f)
                          \/ FlightLands(f) \/ FlightLandsEmpty(f)

Serving == \E c \in Clients : Lookup(c) \/ AskStored(c) \/ AskOndemand(c) \/ Return(c)

Next ==
    \/ \E c \in Clients, k \in Keys : Request(c, k)
    \/ Serving \/ Refreshing \/ Flying
    \/ \E c \in Clients : Disconnect(c) \/ DisconnectRefresh(c)
    \/ BeginInsert \/ InsertRow \/ PredictDone \/ Render \/ StationCycle \/ CycleEnds \/ Tick

\* Worker threads return, the lock is handed over in the order of arrival,
\* and the event loop resumes what can run.
Fairness ==
    /\ \A a \in Actors : SF_vars(TakeLock(a))
    /\ WF_vars(Refreshing \/ Flying \/ Serving)
    /\ \A c \in Clients : WF_vars(Lookup(c) \/ AskStored(c) \/ AskOndemand(c))
    /\ \A f \in Flights : WF_vars(FlightReads(f)) /\ WF_vars(FlightLands(f) \/ FlightLandsEmpty(f))
    /\ \A a \in Actors : WF_vars(ReadRows(a) \/ Install(a))

SafetySpec == Init /\ [][Next]_vars
Spec == SafetySpec /\ Fairness

-----------------------------------------------------------------------------
(* Properties.                                                             *)

\* "5 min keeps data at most ~5 min stale" (config.py:354-356): a reply is
\* older than a generation that covers its key only if that generation was
\* stored within the last TTL (and the time a load takes), or if the refresh
\* of this very request failed.
StaleOnlyAfterFailure ==
    \A c \in Clients :
        (client[c].pc = "replied" /\ client[c].reply \in 1..Gen /\ ~failed[c]) =>
            \A g \in 1..Gen :
                (g > client[c].reply /\ client[c].key \in stored[g])
                    => since[g] < Ttl + MaxLag

\* A cycle ends with its own predictions in the projection, whatever loads
\* the requests have started meanwhile, unless its own load failed.
CycleLeavesNewest ==
    (cycle = "force" /\ refresher[Loop] = "out" /\ ~failed[Loop] /\ Gen # NoGen)
        => projection = Projected(Batch)

\* A burst of misses loads the projection once: whoever waited for the lock
\* during a load that succeeded does not load again.
OneLoadPerBurst ==
    [][\A a \in Actors : (refresher[a] = "lock" /\ refresher'[a] = "query" /\ ~Forced(a))
            => loaded >= Ttl]_vars

\* Every request is answered, or cancelled, whatever other requests do.
Answered ==
    \A c \in Clients :
        client[c].pc = "refresh" ~> client[c].pc \in {"replied", "cancelled"}

\* The two caches' flights coalesce requests: the implementation of
\* SingleFlight.run() with its callers keeps what the class promises, however
\* leaders and waiters are cancelled and computations raise.
Flight == INSTANCE Coalescing WITH
    Callers <- Clients, Works <- Flights,
    waiting <- [f \in Flights |-> Passengers(f)],
    inFlight <- {f \in Flights : flight[f].state # "none"}

Coalesces == Flight!Spec
=============================================================================
