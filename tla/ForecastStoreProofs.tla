------------------------- MODULE ForecastStoreProofs -------------------------
(***************************************************************************)
(* What holds of ForecastStore for every set of keys and requests, every   *)
(* TTL and every number of cycles, with failures and cancellations: how    *)
(* old a reply may be, what a cycle leaves in the projection, that a burst *)
(* loads it once, and that the flights coalesce requests.                  *)
(***************************************************************************)
EXTENDS ForecastStore, SequenceTheorems, WellFoundedInduction, TLAPS

\* A generation that is begun has a row, and a cycle inserts into the newest.
TableKnows ==
    /\ \A g \in 1..Gen : stored[g] # {}
    /\ cycle = "insert" => Gen # 0

\* _refresh_lock: at most one actor loads the projection.
OneLoads ==
    \A a, b \in Actors :
        refresher[a] \in {"query", "install"} /\ refresher[b] \in {"query", "install"} => a = b

\* A request past its first step asks for a key.
RequestsAsk == \A c \in Clients : client[c].pc # "idle" => client[c].key \in Keys

\* A flight has a leader, who waits for it with the others, as long as it is
\* in flight, and nobody else leads anything.
FlightsLed ==
    /\ \A c \in Clients : client[c].leads => client[c].pc \in Levels
    /\ \A f \in Flights :
         flight[f].state # "none" \/ Passengers(f) # {}
            => flight[f].state # "none" /\ \E c \in Passengers(f) : client[c].leads

\* Time has not passed for a generation that is not complete.
ClockStarts == \A g \in 1..MaxGen : ~Complete(g) => since[g] = 0

\* Whoever holds prediction v for key k has missed only generations that are
\* at most n ticks old.
Missed(k, v, n) == \A g \in 1..Gen : (g > v /\ k \in stored[g]) => since[g] <= n

\* The rows a thread has read miss what was completed since.
RowsAge ==
    \A a \in Actors : refresher[a] = "install" =>
        /\ rows.gen <= Gen /\ (rows.gen # NoGen <=> rows.keys # {})
        /\ \A g \in 1..Gen : g > rows.gen => since[g] <= lag

ProjectionAge ==
    /\ loaded = Never => \A k \in Keys : projection[k] = NoGen
    /\ loaded < Ttl => \A k \in Keys : projection[k] # NoGen =>
                            Missed(k, projection[k], loaded + MaxLag)

CacheAge ==
    \A f \in Flights : cache[f].age < Ttl => Missed(f[2], cache[f].value, cache[f].age)

FlightAge ==
    \A f \in Flights : flight[f].state = "ended" /\ flight[f].value # NoGen =>
                            Missed(f[2], flight[f].value, 0)

\* The bound of a reply, for a request that looks at the projection next and
\* for one that has its reply.
Bound == Ttl + MaxLag - 1

RefreshedAge ==
    \A c \in Clients : (client[c].pc = "refresh" /\ refresher[c] = "out" /\ ~failed[c]) =>
        \A k \in Keys : projection[k] # NoGen => Missed(k, projection[k], Bound)

ReplyAge ==
    \A c \in Clients : (client[c].pc = "replied" /\ client[c].reply # NoGen /\ ~failed[c]) =>
        Missed(client[c].key, client[c].reply, Bound)

\* The forced load reads the newest generation, and so does every load after it.
ForcedLoad ==
    cycle = "force" =>
        /\ refresher[Loop] = "install" => rows = Batch
        /\ (refresher[Loop] = "out" /\ ~failed[Loop]) =>
             /\ Gen # NoGen => projection = Projected(Batch)
             /\ \A a \in Actors : refresher[a] = "install" => rows = Batch

Ages == RowsAge /\ ProjectionAge /\ CacheAge /\ FlightAge /\ RefreshedAge /\ ReplyAge

Typed == TypeOK /\ TableKnows /\ RequestsAsk

StoreInv ==
    /\ Typed /\ OneLoads /\ FlightsLed
    /\ ClockStarts /\ Ages /\ ForcedLoad
-----------------------------------------------------------------------------
(* The operators.                                                          *)

\* A set of generations that is not empty has a newest.
LEMMA Newest ==
    ASSUME NEW n \in Nat, NEW S \in SUBSET (1..n), S # {}
    PROVE  \E g \in S : \A h \in S : h <= g
<1> DEFINE T == {m \in Nat : \E g \in S : m = n - g}
<1>1. T \in SUBSET Nat /\ T # {}
  <2>1. PICK g \in S : TRUE
    OBVIOUS
  <2>2. n - g \in T
    BY <2>1
  <2> QED
    BY <2>2
<1>2. PICK m \in T : \A i \in T : <<i, m>> \notin OpToRel(<, Nat)
  BY <1>1, NatLessThanWellFounded, WFMin
<1>3. PICK g \in S : m = n - g
  BY <1>2
<1>4. ASSUME NEW h \in S PROVE h <= g
  <2>1. n - h \in T
    OBVIOUS
  <2>2. ~ (n - h < m)
    BY <1>2, <2>1 DEF OpToRel
  <2> QED
    BY <1>3, <2>2
<1> QED
  BY <1>4

\* The newest generation that covers a key, and none that covers it is newer.
LEMMA LatestIsNewest ==
    ASSUME stored \in Seq(SUBSET Operational), NEW k
    PROVE  /\ Latest(k) \in 0..Gen
           /\ \A g \in 1..Gen : k \in stored[g] => g <= Latest(k)
<1>0. Gen \in Nat
  BY DEF Gen
<1> DEFINE S == {g \in 1..Gen : k \in stored[g]}
<1>1. CASE S = {}
  <2>1. Latest(k) = 0
    BY <1>1 DEF Latest, NoGen
  <2> QED
    BY <1>0, <1>1, <2>1
<1>2. CASE S # {}
  <2> DEFINE P(g) == k \in stored[g] /\ \A h \in g+1..Gen : k \notin stored[h]
  <2>1. PICK g \in S : \A h \in S : h <= g
    BY <1>0, <1>2, Newest
  <2>2. g \in 1..Gen /\ P(g)
    BY <1>0, <2>1
  <2>3. Latest(k) = CHOOSE x \in 1..Gen : P(x)
    BY <1>2 DEF Latest
  <2> DEFINE l == Latest(k)
  <2> HIDE DEF l
  <2>4. l \in 1..Gen /\ k \in stored[l] /\ \A h \in l+1..Gen : k \notin stored[h]
    BY <2>2, <2>3 DEF l
  <2>5. \A h \in 1..Gen : k \in stored[h] => h <= l
    BY <1>0, <2>4
  <2> QED
    BY <1>0, <2>4, <2>5 DEF l
<1> QED
  BY <1>1, <1>2

Batches == [gen : 0..MaxGen, keys : SUBSET Operational]

\* A batch is of the newest generation, and empty only without one.
LEMMA BatchIsOfOne ==
    ASSUME StoreConstants, stored \in Seq(SUBSET Operational), Gen \in 0..MaxGen, TableKnows
    PROVE  /\ Batch \in Batches /\ Batch.gen = Gen
           /\ Batch.gen # NoGen <=> Batch.keys # {}
<1>1. CASE Gen = NoGen
  BY <1>1 DEF Batch, NoRows, Batches, NoGen
<1>2. CASE Gen # NoGen
  <2>1. Gen \in 1..Len(stored)
    BY <1>2 DEF NoGen, Gen
  <2>2. stored[Gen] \subseteq Operational /\ stored[Gen] # {}
    BY <2>1, ElementOfSeq DEF TableKnows, Gen
  <2> QED
    BY <1>2, <2>2 DEF Batch, Batches
<1> QED
  BY <1>1, <1>2

LEMMA NoRowsType == ASSUME StoreConstants PROVE NoRows \in Batches
BY DEF StoreConstants, NoRows, Batches, NoGen
-----------------------------------------------------------------------------
(* Types.                                                                  *)

Pcs == {"idle", "refresh", "lookup", "stored", "infer", "ondemand", "replied", "cancelled"}
ClientType == [pc : Pcs, key : Keys \cup {NoKey}, reply : Result, leads : BOOLEAN]
FlightType == [state : {"none", "running", "ended"}, value : Result]
CacheType == [value : Result, age : 0..Ttl]

\* The values that mean nothing.
LEMMA ConstantTypes ==
    ASSUME StoreConstants
    PROVE  /\ NoGen \in Result /\ NoGen \in 0..MaxGen /\ Inferred \in Result
           /\ 0..MaxGen \subseteq Result
           /\ Idle \in ClientType /\ Expired \in CacheType
           /\ [state |-> "none", value |-> NoGen] \in FlightType
BY DEF StoreConstants, NoGen, Result, Inferred, Idle, Expired, ClientType, CacheType,
       FlightType, Pcs

\* The types, named.
LEMMA TypesNamed ==
    TypeOK <=>
    /\ stored \in Seq(SUBSET Operational) /\ Gen \in 0..MaxGen
    /\ since \in [1..MaxGen -> 0..(Ttl + MaxLag)]
    /\ projection \in [Keys -> 0..MaxGen] /\ loaded \in 0..Never
    /\ refresher \in [Actors -> {"out", "lock", "query", "install"}]
    /\ failed \in [Actors -> BOOLEAN]
    /\ rows \in Batches /\ lag \in 0..MaxLag
    /\ cache \in [Flights -> CacheType]
    /\ flight \in [Flights -> FlightType]
    /\ client \in [Clients -> ClientType]
    /\ cycle \in {"predict", "insert", "project", "artifacts", "force"}
BY LenProperties DEF TypeOK, Gen, CacheType, FlightType, ClientType, Pcs, Batches

\* A request that is changed stays one.
LEMMA ClientStep ==
    ASSUME Typed, NEW c \in Clients, NEW r \in ClientType,
           r.pc # "idle" => r.key \in Keys, client' = [client EXCEPT ![c] = r]
    PROVE  client' \in [Clients -> ClientType] /\ RequestsAsk'
<1>1. client \in [Clients -> ClientType]
  BY TypesNamed DEF Typed
<1>2. client'[c] = r /\ \A d \in Clients \ {c} : client'[d] = client[d]
  BY <1>1
<1> QED
  BY <1>1, <1>2 DEF Typed, RequestsAsk

\* What a request looks like after each way it is changed.
LEMMA ClientChanges ==
    ASSUME StoreConstants, Typed, NEW c \in Clients
    PROVE  /\ \A pc \in Pcs : Goto(c, pc) => \E r \in ClientType :
                 /\ r.pc = pc /\ r.reply = client[c].reply
                 /\ r.key = client[c].key /\ r.leads = client[c].leads
                 /\ client' = [client EXCEPT ![c] = r]
           /\ \A v \in Result : Reply(c, v) => \E r \in ClientType :
                 /\ r.pc = "replied" /\ r.reply = v
                 /\ r.key = client[c].key /\ r.leads = client[c].leads
                 /\ client' = [client EXCEPT ![c] = r]
<1>1. client[c] \in ClientType /\ client \in [Clients -> ClientType]
  BY TypesNamed DEF Typed
<1>2. ASSUME NEW pc \in Pcs, Goto(c, pc)
      PROVE  \E r \in ClientType :
                 /\ r.pc = pc /\ r.reply = client[c].reply
                 /\ r.key = client[c].key /\ r.leads = client[c].leads
                 /\ client' = [client EXCEPT ![c] = r]
  <2> DEFINE r == [client[c] EXCEPT !.pc = pc]
  <2>1. /\ r \in ClientType /\ r.pc = pc /\ r.reply = client[c].reply
        /\ r.key = client[c].key /\ r.leads = client[c].leads
    BY <1>1 DEF ClientType
  <2>2. client' = [client EXCEPT ![c] = r]
    BY <1>2 DEF Goto
  <2> HIDE DEF r
  <2> QED
    BY <2>1, <2>2
<1>3. ASSUME NEW v \in Result, Reply(c, v)
      PROVE  \E r \in ClientType :
                 /\ r.pc = "replied" /\ r.reply = v
                 /\ r.key = client[c].key /\ r.leads = client[c].leads
                 /\ client' = [client EXCEPT ![c] = r]
  <2> DEFINE r == [client[c] EXCEPT !.pc = "replied", !.reply = v]
  <2>1. /\ r \in ClientType /\ r.pc = "replied" /\ r.reply = v
        /\ r.key = client[c].key /\ r.leads = client[c].leads
    BY <1>1 DEF ClientType, Pcs
  <2>2. client' = [client EXCEPT ![c] = r]
    BY <1>1, <1>3 DEF Reply, ClientType
  <2> HIDE DEF r
  <2> QED
    BY <2>1, <2>2
<1> QED
  BY <1>2, <1>3

\* What no refresh and no flight writes keeps its type.
LEMMA TypeOfRefresh ==
    ASSUME StoreConstants, Typed, NEW a \in Actors,
           TakeLock(a) \/ ReadRows(a) \/ LoadFails(a) \/ Install(a)
    PROVE  Typed'
<1>0. /\ MaxGen \in Nat /\ MaxLag \in Nat /\ Ttl \in Nat /\ NoGen \in 0..MaxGen
      /\ 0 \in 0..Never /\ 0 \in 0..MaxLag
  BY DEF StoreConstants, NoGen, Never
<1>1. UNCHANGED <<table, lookups, client, cycle>>
  BY DEF TakeLock, ReadRows, LoadFails, Install, table
<1>2. refresher' \in [Actors -> {"out", "lock", "query", "install"}]
  BY TypesNamed DEF Typed, TakeLock, ReadRows, LoadFails, Install
<1>3. failed' \in [Actors -> BOOLEAN]
  BY TypesNamed DEF Typed, TakeLock, ReadRows, LoadFails, Install
<1>4. rows' \in Batches /\ lag' \in 0..MaxLag
  BY <1>0, TypesNamed, BatchIsOfOne, NoRowsType DEF Typed, TakeLock, ReadRows, LoadFails, Install
<1>5. projection' \in [Keys -> 0..MaxGen] /\ loaded' \in 0..Never
  <2>1. Projected(rows) \in [Keys -> 0..MaxGen]
    BY <1>0, TypesNamed DEF Typed, Projected, Batches
  <2> QED
    BY <1>0, <2>1, TypesNamed DEF Typed, TakeLock, ReadRows, LoadFails, Install
<1> QED
  BY <1>1, <1>2, <1>3, <1>4, <1>5
     DEF Typed, TypeOK, TableKnows, RequestsAsk, table, lookups, Gen, Batches

\* A request asks, looks the projection up, is given up or returns.
LEMMA TypeOfRequest ==
    ASSUME StoreConstants, Typed, NEW c \in Clients,
           \/ \E k \in Keys : Request(c, k)
           \/ Lookup(c) \/ Return(c) \/ DisconnectRefresh(c)
    PROVE  Typed'
<1>0. /\ client[c] \in ClientType /\ client \in [Clients -> ClientType]
      /\ MaxGen \in Nat /\ NoGen \in 0..MaxGen /\ 0 \in 0..MaxLag
  BY TypesNamed, ConstantTypes DEF Typed, StoreConstants
<1>1. UNCHANGED <<table, lookups, cycle>> /\ UNCHANGED <<projection, loaded>>
  BY DEF Request, EnterRefresh, Lookup, Return, DisconnectRefresh, proj
<1>2. refresher' \in [Actors -> {"out", "lock", "query", "install"}]
  BY TypesNamed DEF Typed, Request, EnterRefresh, Lookup, Return, DisconnectRefresh, proj
<1>3. failed' \in [Actors -> BOOLEAN]
  BY TypesNamed DEF Typed, Request, EnterRefresh, Lookup, Return, DisconnectRefresh, proj
<1>4. rows' \in Batches /\ lag' \in 0..MaxLag
  BY <1>0, TypesNamed, NoRowsType DEF Typed, Request, EnterRefresh, Lookup, Return, DisconnectRefresh, proj
<1>5. client' \in [Clients -> ClientType] /\ RequestsAsk'
  <2>1. CASE \E k \in Keys : Request(c, k)
    <3>1. PICK k \in Keys : Request(c, k)
      BY <2>1
    <3> DEFINE r == [client[c] EXCEPT !.pc = "refresh", !.key = k, !.reply = NoGen]
    <3>2. r \in ClientType /\ r.key = k /\ client' = [client EXCEPT ![c] = r]
      BY <1>0, <3>1, ConstantTypes DEF Request, ClientType, Pcs
    <3> HIDE DEF r
    <3> QED
      BY <3>2, ClientStep
  <2>2. CASE Lookup(c)
    <3>1. client[c].key \in Keys
      BY <2>2 DEF Lookup, Typed, RequestsAsk
    <3>2. projection[client[c].key] \in Result
      BY <3>1, TypesNamed, ConstantTypes DEF Typed
    <3>3. Reply(c, projection[client[c].key]) \/ Goto(c, "lookup")
      BY <2>2 DEF Lookup
    <3>4. PICK r \in ClientType : r.key = client[c].key /\ client' = [client EXCEPT ![c] = r]
      <4>1. CASE Reply(c, projection[client[c].key])
        BY <3>2, <4>1, ClientChanges
      <4>2. CASE Goto(c, "lookup")
        BY <4>2, ClientChanges DEF Pcs
      <4> QED
        BY <3>3, <4>1, <4>2
    <3> QED
      BY <3>1, <3>4, ClientStep
  <2>3. CASE Return(c)
    BY <2>3, ClientStep, ConstantTypes DEF Return, Idle
  <2>4. CASE DisconnectRefresh(c)
    <3>1. client[c].key \in Keys
      BY <2>4 DEF DisconnectRefresh, Typed, RequestsAsk
    <3>2. PICK r \in ClientType : r.key = client[c].key /\ client' = [client EXCEPT ![c] = r]
      BY <2>4, ClientChanges DEF DisconnectRefresh, Pcs
    <3> QED
      BY <3>1, <3>2, ClientStep
  <2> QED
    BY <2>1, <2>2, <2>3, <2>4
<1> QED
  BY <1>1, <1>2, <1>3, <1>4, <1>5
     DEF Typed, TypeOK, TableKnows, table, lookups, Gen, ClientType, Pcs, Batches
\* What asking at a cache level changes: a reply, or a seat in the flight.
Seated(c, f, r) ==
    /\ r.pc = f[1] /\ r.reply = client[c].reply /\ r.key = client[c].key
    /\ r.leads = (flight[f].state = "none")
    /\ client' = [client EXCEPT ![c] = r]
    /\ flight' = [flight EXCEPT ![f] =
                    [state |-> IF flight[f].state = "none" THEN "running" ELSE flight[f].state,
                     value |-> flight[f].value]]

Answers(c, f, r) ==
    /\ cache[f].age < Ttl
    /\ r.pc = "replied" /\ r.reply = cache[f].value /\ r.key = client[c].key
    /\ r.leads = client[c].leads
    /\ client' = [client EXCEPT ![c] = r]
    /\ UNCHANGED flight

LEMMA AskChanges ==
    ASSUME StoreConstants, Typed, NEW c \in Clients, NEW f \in Flights, Ask(c, f)
    PROVE  \E r \in ClientType : Answers(c, f, r) \/ Seated(c, f, r)
<1>1. /\ client[c] \in ClientType /\ client \in [Clients -> ClientType]
      /\ flight \in [Flights -> FlightType] /\ flight[f] \in FlightType
      /\ cache[f] \in CacheType
  BY TypesNamed DEF Typed
<1>2. CASE cache[f].age < Ttl
  <2>1. Reply(c, cache[f].value) /\ UNCHANGED flight
    BY <1>2 DEF Ask
  <2>2. cache[f].value \in Result
    BY <1>1 DEF CacheType
  <2> QED
    BY <1>2, <2>1, <2>2, ClientChanges DEF Answers
<1>3. CASE ~(cache[f].age < Ttl)
  <2> DEFINE r == [client[c] EXCEPT !.pc = f[1], !.leads = (flight[f].state = "none")]
  <2>1. f[1] \in Pcs
    BY DEF Flights, Levels, Pcs
  <2>2. /\ r \in ClientType /\ r.pc = f[1] /\ r.reply = client[c].reply
        /\ r.key = client[c].key /\ r.leads = (flight[f].state = "none")
    BY <1>1, <2>1 DEF ClientType
  <2>3. client' = [client EXCEPT ![c] = r]
    BY <1>1, <1>3 DEF Ask, ClientType
  <2>4. flight' = [flight EXCEPT ![f] =
                    [state |-> IF flight[f].state = "none" THEN "running" ELSE flight[f].state,
                     value |-> flight[f].value]]
    BY <1>1, <1>3 DEF Ask, FlightType
  <2> HIDE DEF r
  <2> QED
    BY <2>2, <2>3, <2>4 DEF Seated
<1> QED
  BY <1>2, <1>3

\* The flight a request asks for at either level.
LEMMA AsksAFlight ==
    ASSUME StoreConstants, Typed, NEW c \in Clients, AskStored(c) \/ AskOndemand(c)
    PROVE  /\ client[c].pc \in {"lookup", "infer"} /\ client[c].key \in Keys
           /\ \E f \in Flights : f[2] = client[c].key /\ Ask(c, f)
           /\ UNCHANGED <<table, proj, cache, cycle>>
<1>1. client[c].pc \in {"lookup", "infer"} /\ client[c].key \in Keys
  BY DEF AskStored, AskOndemand, Typed, RequestsAsk
<1> QED
  BY <1>1 DEF AskStored, AskOndemand, Flights, Levels

LEMMA TypeOfAsk ==
    ASSUME StoreConstants, Typed, NEW c \in Clients, AskStored(c) \/ AskOndemand(c)
    PROVE  Typed'
<1>1. PICK f \in Flights : f[2] = client[c].key /\ Ask(c, f)
  BY AsksAFlight
<1>2. PICK r \in ClientType : Answers(c, f, r) \/ Seated(c, f, r)
  BY <1>1, AskChanges
<1>3. r.key = client[c].key /\ client' = [client EXCEPT ![c] = r] /\ client[c].key \in Keys
  BY <1>2, AsksAFlight DEF Answers, Seated
<1>4. client' \in [Clients -> ClientType] /\ RequestsAsk'
  BY <1>3, ClientStep
<1>5. flight' \in [Flights -> FlightType]
  <2>1. flight \in [Flights -> FlightType] /\ flight[f] \in FlightType
    BY TypesNamed DEF Typed
  <2> QED
    BY <1>2, <2>1 DEF Answers, Seated, FlightType
<1>6. UNCHANGED <<table, proj, cache, cycle>>
  BY AsksAFlight
<1> QED
  BY <1>4, <1>5, <1>6
     DEF Typed, TypeOK, TableKnows, table, proj, Gen, ClientType, Pcs, FlightType
\* All passengers of a flight are told at once.
LEMMA PassengersTold ==
    ASSUME Typed, NEW f \in Flights, NEW pc \in Pcs \ {"idle"}, NEW v \in Result,
           client' = [c \in Clients |->
              IF c \in Passengers(f)
              THEN [client[c] EXCEPT !.pc = pc, !.reply = v, !.leads = FALSE] ELSE client[c]]
    PROVE  /\ client' \in [Clients -> ClientType] /\ RequestsAsk'
           /\ \A c \in Passengers(f) : /\ client'[c].pc = pc /\ client'[c].reply = v
                                       /\ client'[c].key = f[2] /\ client'[c].leads = FALSE
           /\ \A c \in Clients \ Passengers(f) : client'[c] = client[c]
<1>1. client \in [Clients -> ClientType] /\ f[2] \in Keys
  BY TypesNamed DEF Typed, Flights
<1>2. ASSUME NEW c \in Passengers(f)
      PROVE  /\ client'[c] \in ClientType
             /\ client'[c].pc = pc /\ client'[c].reply = v
             /\ client'[c].key = f[2] /\ client'[c].leads = FALSE
  <2>1. c \in Clients /\ client[c] \in ClientType /\ client[c].key = f[2]
    BY <1>1, <1>2 DEF Passengers
  <2>2. client'[c] = [client[c] EXCEPT !.pc = pc, !.reply = v, !.leads = FALSE]
    BY <1>2, <2>1
  <2> QED
    BY <2>1, <2>2 DEF ClientType
<1>3. \A c \in Clients \ Passengers(f) : client'[c] = client[c]
  OBVIOUS
<1>4. client' \in [Clients -> ClientType]
  BY <1>1, <1>2, <1>3
<1>5. RequestsAsk'
  BY <1>1, <1>2, <1>3 DEF RequestsAsk, Typed
<1> QED
  BY <1>2, <1>3, <1>4, <1>5

\* A leader that is cancelled takes its passengers with it.
LEMMA LeaderCancelled ==
    ASSUME Typed, NEW f \in Flights,
           client' = [c \in Clients |->
              IF c \in Passengers(f)
              THEN [client[c] EXCEPT !.pc = "cancelled", !.leads = FALSE] ELSE client[c]]
    PROVE  /\ client' \in [Clients -> ClientType] /\ RequestsAsk'
           /\ \A c \in Passengers(f) : /\ client'[c].pc = "cancelled" /\ client'[c].leads = FALSE
                                       /\ client'[c].key = f[2]
           /\ \A c \in Clients \ Passengers(f) : client'[c] = client[c]
<1>1. client \in [Clients -> ClientType] /\ f[2] \in Keys
  BY TypesNamed DEF Typed, Flights
<1>2. ASSUME NEW c \in Passengers(f)
      PROVE  /\ client'[c] \in ClientType /\ client'[c].key = f[2]
             /\ client'[c].pc = "cancelled" /\ client'[c].leads = FALSE
  <2>1. c \in Clients /\ client[c] \in ClientType /\ client[c].key = f[2]
    BY <1>1, <1>2 DEF Passengers
  <2>2. client'[c] = [client[c] EXCEPT !.pc = "cancelled", !.leads = FALSE]
    BY <1>2, <2>1
  <2> QED
    BY <2>1, <2>2 DEF ClientType, Pcs
<1>3. \A c \in Clients \ Passengers(f) : client'[c] = client[c]
  OBVIOUS
<1>4. client' \in [Clients -> ClientType]
  BY <1>1, <1>2, <1>3
<1>5. RequestsAsk'
  BY <1>1, <1>2, <1>3 DEF RequestsAsk, Typed
<1> QED
  BY <1>2, <1>3, <1>4, <1>5

\* What a step of a flight leaves in flight.
LEMMA FlightChanges ==
    ASSUME StoreConstants, Typed, NEW f \in Flights
    PROVE  /\ NoFlight(f) => /\ flight' \in [Flights -> FlightType]
                             /\ flight'[f].state = "none"
                             /\ \A h \in Flights \ {f} : flight'[h] = flight[h]
           /\ FlightReads(f) \/ FlightFindsNothing(f) =>
                /\ flight' \in [Flights -> FlightType]
                /\ flight'[f].state = "ended" /\ flight[f].state = "running"
                /\ \/ flight'[f].value \in {NoGen, Inferred}
                   \/ flight'[f].value = Latest(f[2])
                /\ \A h \in Flights \ {f} : flight'[h] = flight[h]
                /\ UNCHANGED <<table, proj, cache, client, cycle>>
<1>1. flight \in [Flights -> FlightType] /\ flight[f] \in FlightType
  BY TypesNamed DEF Typed
<1>2. ASSUME NoFlight(f)
      PROVE  /\ flight' \in [Flights -> FlightType]
             /\ flight'[f].state = "none"
             /\ \A h \in Flights \ {f} : flight'[h] = flight[h]
  BY <1>1, <1>2, ConstantTypes DEF NoFlight
<1>3. ASSUME FlightReads(f) \/ FlightFindsNothing(f)
      PROVE  \E v \in {NoGen, Inferred, Latest(f[2])} :
                flight' = [flight EXCEPT ![f] = [state |-> "ended", value |-> v]]
  <2>1. CASE FlightReads(f) /\ f[1] = "stored"
    BY <2>1 DEF FlightReads
  <2>2. CASE FlightReads(f) /\ f[1] # "stored"
    BY <2>2 DEF FlightReads
  <2>3. CASE FlightFindsNothing(f)
    BY <2>3 DEF FlightFindsNothing
  <2> QED
    BY <1>3, <2>1, <2>2, <2>3
<1>4. Latest(f[2]) \in Result
  BY LatestIsNewest, TypesNamed, ConstantTypes DEF Typed, StoreConstants
<1>5. ASSUME FlightReads(f) \/ FlightFindsNothing(f)
      PROVE  /\ flight' \in [Flights -> FlightType]
             /\ flight'[f].state = "ended" /\ flight[f].state = "running"
             /\ \/ flight'[f].value \in {NoGen, Inferred}
                \/ flight'[f].value = Latest(f[2])
             /\ \A h \in Flights \ {f} : flight'[h] = flight[h]
             /\ UNCHANGED <<table, proj, cache, client, cycle>>
  <2>1. PICK v \in {NoGen, Inferred, Latest(f[2])} :
                flight' = [flight EXCEPT ![f] = [state |-> "ended", value |-> v]]
    BY <1>3, <1>5
  <2>2. [state |-> "ended", value |-> v] \in FlightType
    BY <1>4, ConstantTypes DEF FlightType
  <2>3. flight[f].state = "running" /\ UNCHANGED <<table, proj, cache, client, cycle>>
    BY <1>5 DEF FlightReads, FlightFindsNothing
  <2> QED
    BY <1>1, <2>1, <2>2, <2>3
<1> QED
  BY <1>2, <1>5

LEMMA TypeOfFlight ==
    ASSUME StoreConstants, Typed, NEW f \in Flights,
           FlightReads(f) \/ FlightFindsNothing(f) \/ FlightLands(f) \/ FlightLandsEmpty(f)
    PROVE  Typed'
<1>1. CASE FlightReads(f) \/ FlightFindsNothing(f)
  BY <1>1, FlightChanges DEF Typed, TypeOK, TableKnows, RequestsAsk, table, proj, Gen, FlightType
<1>2. CASE FlightLands(f) \/ FlightLandsEmpty(f)
  <2>1. flight[f].value \in Result
    BY TypesNamed DEF Typed, FlightType
  <2>2. PICK pc \in Pcs \ {"idle"} : Lands(f, pc)
    BY <1>2 DEF FlightLands, FlightLandsEmpty, Pcs
  <2>3. client' \in [Clients -> ClientType] /\ RequestsAsk'
    BY <2>1, <2>2, PassengersTold DEF Lands
  <2>4. flight' \in [Flights -> FlightType] /\ UNCHANGED <<table, proj, cycle>>
    BY <2>2, FlightChanges DEF Lands
  <2>5. cache' \in [Flights -> CacheType]
    <3>1. [value |-> flight[f].value, age |-> 0] \in CacheType
      BY <2>1 DEF CacheType, StoreConstants
    <3> QED
      BY <1>2, <3>1, TypesNamed DEF Typed, FlightLands, FlightLandsEmpty
  <2> QED
    BY <2>3, <2>4, <2>5
       DEF Typed, TypeOK, TableKnows, table, proj, Gen, ClientType, Pcs, FlightType, CacheType
<1> QED
  BY <1>1, <1>2

LEMMA TypeOfDisconnect ==
    ASSUME StoreConstants, Typed, NEW c \in Clients, Disconnect(c)
    PROVE  Typed'
<1> DEFINE f == <<client[c].pc, client[c].key>>
<1>1. f \in Flights /\ client[c].key \in Keys
  BY DEF Disconnect, Typed, RequestsAsk, Levels, Flights
<1>2. client' \in [Clients -> ClientType] /\ RequestsAsk'
  <2>1. CASE client[c].leads
    BY <1>1, <2>1, LeaderCancelled DEF Disconnect
  <2>2. CASE ~client[c].leads
    <3>1. PICK r \in ClientType : r.key = client[c].key /\ client' = [client EXCEPT ![c] = r]
      BY <2>2, ClientChanges DEF Disconnect, Pcs
    <3> QED
      BY <1>1, <3>1, ClientStep
  <2> QED
    BY <2>1, <2>2
<1>3. flight' \in [Flights -> FlightType]
  BY <1>1, FlightChanges, TypesNamed DEF Disconnect, Typed
<1>4. UNCHANGED <<table, proj, cache, cycle>>
  BY DEF Disconnect
<1> QED
  BY <1>2, <1>3, <1>4
     DEF Typed, TypeOK, TableKnows, table, proj, Gen, ClientType, Pcs, FlightType
\* An insertion adds rows to a generation that is not complete, and no others.
LEMMA Insertion ==
    ASSUME StoreConstants, Typed, BeginInsert \/ InsertRow
    PROVE  /\ stored' \in Seq(SUBSET Operational)
           /\ Gen' \in 1..MaxGen /\ Gen <= Gen'
           /\ \A g \in 1..Gen' : /\ stored'[g] # {}
                                 /\ \A k \in stored'[g] :
                                      (g \in 1..Gen /\ k \in stored[g]) \/ ~Complete(g)
           /\ cycle' = "insert"
           /\ UNCHANGED <<since, proj, lookups, client>>
<1>0. /\ stored \in Seq(SUBSET Operational) /\ Gen \in 0..MaxGen /\ MaxGen \in Nat
      /\ Len(stored) = Gen /\ \A g \in 1..Gen : stored[g] # {} /\ stored[g] \in SUBSET Operational
  BY TypesNamed, ElementOfSeq DEF Typed, TableKnows, StoreConstants, Gen
<1>1. CASE BeginInsert
  <2>1. PICK k \in Operational : stored' = Append(stored, {k})
    BY <1>1 DEF BeginInsert
  <2>2. Gen < MaxGen /\ cycle' = "insert" /\ UNCHANGED <<since, proj, lookups, client>>
    BY <1>1 DEF BeginInsert
  <2>3. /\ stored' \in Seq(SUBSET Operational) /\ Len(stored') = Len(stored) + 1
        /\ \A g \in 1..Len(stored) : stored'[g] = stored[g]
        /\ stored'[Len(stored) + 1] = {k}
    BY <1>0, <2>1, AppendProperties
  <2>4. Gen' = Gen + 1
    BY <2>3 DEF Gen
  <2>5. ~Complete(Gen + 1)
    BY <1>0 DEF Complete
  <2>6. ASSUME NEW g \in 1..Gen'
        PROVE  /\ stored'[g] # {}
               /\ \A l \in stored'[g] : (g \in 1..Gen /\ l \in stored[g]) \/ ~Complete(g)
    <3>1. CASE g \in 1..Gen
      BY <1>0, <2>3, <3>1
    <3>2. CASE g = Gen + 1
      BY <1>0, <2>3, <2>5, <3>2
    <3> QED
      BY <1>0, <2>4, <3>1, <3>2
  <2> QED
    BY <1>0, <2>2, <2>3, <2>4, <2>6
<1>2. CASE InsertRow
  <2>1. PICK k \in Operational \ stored[Gen] :
            stored' = [stored EXCEPT ![Gen] = stored[Gen] \cup {k}]
    BY <1>2 DEF InsertRow
  <2>2. Gen \in 1..Len(stored) /\ cycle = "insert"
    BY <1>0, <1>2 DEF InsertRow, Typed, TableKnows
  <2>3. /\ stored' \in Seq(SUBSET Operational) /\ Len(stored') = Len(stored)
        /\ \A g \in 1..Len(stored) :
             stored'[g] = IF g = Gen THEN stored[Gen] \cup {k} ELSE stored[g]
    <3>1. stored[Gen] \cup {k} \in SUBSET Operational
      BY <1>0, <2>2
    <3> QED
      BY <1>0, <2>1, <2>2, <3>1, ExceptSeq
  <2>4. Gen' = Gen
    BY <2>3 DEF Gen
  <2>5. ~Complete(Gen)
    BY <1>0, <2>2 DEF Complete
  <2>6. ASSUME NEW g \in 1..Gen'
        PROVE  /\ stored'[g] # {}
               /\ \A l \in stored'[g] : (g \in 1..Gen /\ l \in stored[g]) \/ ~Complete(g)
    BY <1>0, <2>3, <2>4, <2>5
  <2>7. cycle' = "insert" /\ UNCHANGED <<since, proj, lookups, client>>
    BY <1>2 DEF InsertRow
  <2> QED
    BY <1>0, <2>2, <2>3, <2>4, <2>6, <2>7
<1> QED
  BY <1>1, <1>2

LEMMA TypeOfCycle ==
    ASSUME StoreConstants, Typed,
           BeginInsert \/ InsertRow \/ PredictDone \/ Render \/ StationCycle \/ CycleEnds
    PROVE  Typed'
<1>1. CASE BeginInsert \/ InsertRow
  <2>1. /\ stored' \in Seq(SUBSET Operational) /\ Gen' \in 1..MaxGen
        /\ \A g \in 1..Gen' : stored'[g] # {}
        /\ cycle' = "insert" /\ UNCHANGED <<since, proj, lookups, client>>
    BY <1>1, Insertion
  <2>2. TableKnows'
    BY <2>1 DEF TableKnows
  <2>3. RequestsAsk'
    BY <2>1 DEF Typed, RequestsAsk
  <2>4. Len(stored') <= MaxGen
    BY <2>1 DEF Gen, StoreConstants
  <2>5. TypeOK'
    BY <2>1, <2>4 DEF Typed, TypeOK, proj, lookups
  <2> QED
    BY <2>2, <2>3, <2>5 DEF Typed
<1>2. CASE PredictDone \/ Render \/ StationCycle
  <2>1. /\ UNCHANGED <<table, lookups, client>> /\ UNCHANGED <<projection, loaded, rows, lag>>
        /\ cycle' \in {"artifacts", "force", "project"}
    BY <1>2 DEF PredictDone, Render, StationCycle, EnterRefresh
  <2>2. refresher' \in [Actors -> {"out", "lock", "query", "install"}]
    BY <1>2, TypesNamed DEF Typed, PredictDone, Render, StationCycle, EnterRefresh
  <2>3. failed' \in [Actors -> BOOLEAN]
    BY <1>2, TypesNamed DEF Typed, PredictDone, Render, StationCycle, EnterRefresh
  <2> QED
    BY <2>1, <2>2, <2>3 DEF Typed, TypeOK, TableKnows, RequestsAsk, table, lookups, Gen
<1>3. CASE CycleEnds
  BY <1>3 DEF CycleEnds, Typed, TypeOK, TableKnows, RequestsAsk, table, proj, lookups, Gen
<1> QED
  BY <1>1, <1>2, <1>3

\* What time does to the ages.
LEMMA TimePasses ==
    ASSUME StoreConstants, Typed, Tick
    PROVE  /\ since' \in [1..MaxGen -> 0..(Ttl + MaxLag)]
           /\ \A g \in 1..MaxGen : /\ ~Complete(g) => since'[g] = 0
                                   /\ since'[g] <= since[g] + 1
           /\ loaded' \in 0..Never /\ (loaded' = Never <=> loaded = Never)
           /\ loaded' < Ttl => loaded' = loaded + 1
           /\ lag' \in 0..MaxLag
           /\ \A a \in Actors : refresher[a] = "install" => lag' = lag + 1
           /\ cache' \in [Flights -> CacheType]
           /\ \A f \in Flights : cache'[f].age < Ttl =>
                cache'[f].value = cache[f].value /\ cache'[f].age = cache[f].age + 1
           /\ UNCHANGED <<stored, projection, refresher, failed, rows, flight, client, cycle>>
<1>0. /\ Ttl \in Nat \ {0} /\ MaxLag \in Nat /\ MaxGen \in Nat
      /\ since \in [1..MaxGen -> 0..(Ttl + MaxLag)] /\ loaded \in 0..(Ttl + 1)
      /\ lag \in 0..MaxLag /\ cache \in [Flights -> CacheType]
  BY TypesNamed DEF Typed, StoreConstants, Never
<1>1. since' \in [1..MaxGen -> 0..(Ttl + MaxLag)]
      /\ \A g \in 1..MaxGen : (~Complete(g) => since'[g] = 0) /\ since'[g] <= since[g] + 1
  <2>1. ASSUME NEW g \in 1..MaxGen
        PROVE  /\ since'[g] \in 0..(Ttl + MaxLag) /\ since'[g] <= since[g] + 1
               /\ ~Complete(g) => since'[g] = 0
    <3>1. since'[g] = IF Complete(g) THEN Older(since[g], Ttl + MaxLag) ELSE 0
      BY DEF Tick
    <3>2. since[g] \in 0..(Ttl + MaxLag)
      BY <1>0
    <3>3. CASE Complete(g)
      BY <1>0, <3>1, <3>2, <3>3 DEF Older
    <3>4. CASE ~Complete(g)
      BY <1>0, <3>1, <3>2, <3>4
    <3> QED
      BY <3>3, <3>4
  <2>2. since' = [g \in 1..MaxGen |-> since'[g]]
    BY DEF Tick
  <2> QED
    BY <2>1, <2>2
<1>2. /\ loaded' \in 0..Never /\ (loaded' = Never <=> loaded = Never)
      /\ loaded' < Ttl => loaded' = loaded + 1
  BY <1>0 DEF Tick, Older, Never
<1>3. lag' \in 0..MaxLag /\ \A a \in Actors : refresher[a] = "install" => lag' = lag + 1
  BY <1>0 DEF Tick
<1>4. ASSUME NEW f \in Flights
      PROVE  /\ cache'[f] \in CacheType
             /\ cache'[f].age < Ttl =>
                  cache'[f].value = cache[f].value /\ cache'[f].age = cache[f].age + 1
  <2>1. cache[f] \in CacheType /\ Expired \in CacheType /\ Expired.age = Ttl
    BY <1>0, ConstantTypes DEF Expired
  <2>2. cache'[f] = IF cache[f].age + 1 >= Ttl THEN Expired
                    ELSE [cache[f] EXCEPT !.age = cache[f].age + 1]
    BY DEF Tick
  <2>3. CASE cache[f].age + 1 >= Ttl
    BY <1>0, <2>1, <2>2, <2>3
  <2>4. CASE ~(cache[f].age + 1 >= Ttl)
    <3>1. cache'[f] = [cache[f] EXCEPT !.age = cache[f].age + 1]
      BY <2>2, <2>4
    <3>2. cache[f].age + 1 \in 0..Ttl
      BY <1>0, <2>1, <2>4 DEF CacheType
    <3> QED
      BY <2>1, <3>1, <3>2 DEF CacheType
  <2> QED
    BY <2>3, <2>4
<1>5. cache' = [f \in Flights |-> cache'[f]]
  BY DEF Tick
<1> QED
  BY <1>1, <1>2, <1>3, <1>4, <1>5 DEF Tick
LEMMA TypeOfTick ==
    ASSUME StoreConstants, Typed, Tick
    PROVE  Typed'
BY TimePasses, TypesNamed DEF Typed, TypeOK, TableKnows, RequestsAsk, Gen, CacheType

LEMMA TypeStep ==
    ASSUME StoreConstants, Typed, [Next]_vars
    PROVE  Typed'
<1>1. ASSUME NEW c \in Clients, NEW k \in Keys, Request(c, k) PROVE Typed'
  BY <1>1, TypeOfRequest
<1>2. CASE Serving
  BY <1>2, TypeOfRequest, TypeOfAsk DEF Serving
<1>3. CASE Refreshing
  BY <1>3, TypeOfRefresh DEF Refreshing
<1>4. CASE Flying
  BY <1>4, TypeOfFlight DEF Flying
<1>5. ASSUME NEW c \in Clients, Disconnect(c) \/ DisconnectRefresh(c) PROVE Typed'
  BY <1>5, TypeOfDisconnect, TypeOfRequest
<1>6. CASE BeginInsert \/ InsertRow \/ PredictDone \/ Render \/ StationCycle \/ CycleEnds
  BY <1>6, TypeOfCycle
<1>7. CASE Tick
  BY <1>7, TypeOfTick
<1>8. CASE UNCHANGED vars
  BY <1>8 DEF vars, table, proj, lookups, Typed, TypeOK, TableKnows, RequestsAsk, Gen
<1> QED
  BY <1>1, <1>2, <1>3, <1>4, <1>5, <1>6, <1>7, <1>8 DEF Next
-----------------------------------------------------------------------------
(* Flights: what a step does to them, and to the abstract single flight.   *)

\* Led, and a step of Coalescing or none.
Coalescent == FlightsLed' /\ [Flight!Next]_(Flight!vars)

\* A request that does not wait for a flight before or after a step leaves the
\* flights alone.
LEMMA AwayFromFlights ==
    ASSUME Typed, FlightsLed, NEW c \in Clients, NEW r \in ClientType,
           client[c].pc \notin Levels, r.pc \notin Levels, r.leads = FALSE,
           client' = [client EXCEPT ![c] = r], UNCHANGED flight
    PROVE  Coalescent
<1>1. client \in [Clients -> ClientType]
  BY TypesNamed DEF Typed
<1>2. \A d \in Clients : client'[d] = IF d = c THEN r ELSE client[d]
  BY <1>1
<1>3. ASSUME NEW f \in Flights PROVE Passengers(f)' = Passengers(f)
  <2>1. f[1] \in Levels
    BY DEF Flights
  <2> QED
    BY <1>2, <2>1 DEF Passengers
<1>4. ASSUME NEW f \in Flights, NEW d \in Passengers(f) PROVE client'[d] = client[d]
  <2>1. f[1] \in Levels /\ client[d].pc = f[1] /\ d \in Clients
    BY <1>4 DEF Flights, Passengers
  <2> QED
    BY <1>2, <2>1
<1>5. FlightsLed'
  <2>1. \A d \in Clients : client'[d].leads => client'[d].pc \in Levels
    BY <1>2 DEF FlightsLed
  <2>2. ASSUME NEW f \in Flights, flight'[f].state # "none" \/ Passengers(f)' # {}
        PROVE  flight'[f].state # "none" /\ \E d \in Passengers(f)' : client'[d].leads
    <3>1. flight[f].state # "none" /\ \E d \in Passengers(f) : client[d].leads
      BY <1>3, <2>2 DEF FlightsLed
    <3> QED
      BY <1>3, <1>4, <3>1
  <2> QED
    BY <2>1, <2>2 DEF FlightsLed
<1>6. UNCHANGED Flight!vars
  BY <1>3 DEF Flight!vars
<1> QED
  BY <1>5, <1>6 DEF Coalescent

\* Nothing of the flights changes.
LEMMA FlightsStay ==
    ASSUME FlightsLed, UNCHANGED <<client, flight>>
    PROVE  Coalescent
<1>1. \A f \in Flights : Passengers(f)' = Passengers(f)
  BY DEF Passengers
<1>2. FlightsLed'
  BY <1>1 DEF FlightsLed
<1>3. UNCHANGED Flight!vars
  BY <1>1 DEF Flight!vars
<1> QED
  BY <1>2, <1>3 DEF Coalescent

\* The thread of a flight is done: it goes on until its leader resumes.
LEMMA ReadKeepsFlights ==
    ASSUME StoreConstants, Typed, FlightsLed, NEW f \in Flights,
           FlightReads(f) \/ FlightFindsNothing(f)
    PROVE  Coalescent
<1>1. /\ flight[f].state = "running" /\ flight'[f].state = "ended" /\ UNCHANGED client
      /\ \A h \in Flights \ {f} : flight'[h] = flight[h]
  BY FlightChanges
<1>2. \A h \in Flights : Passengers(h)' = Passengers(h)
  BY <1>1 DEF Passengers
<1>3. \A h \in Flights : flight'[h].state # "none" <=> flight[h].state # "none"
  BY <1>1
<1>4. FlightsLed'
  BY <1>1, <1>2, <1>3 DEF FlightsLed
<1>5. UNCHANGED Flight!vars
  BY <1>2, <1>3 DEF Flight!vars
<1> QED
  BY <1>4, <1>5 DEF Coalescent

\* Whoever leaves a flight with everyone who waits completes it.
LEMMA AllLeave ==
    ASSUME Typed, FlightsLed, NEW f \in Flights,
           \A c \in Passengers(f) : client'[c].pc \notin Levels /\ client'[c].leads = FALSE,
           \A c \in Clients \ Passengers(f) : client'[c] = client[c],
           flight[f].state # "none", flight'[f].state = "none",
           \A h \in Flights \ {f} : flight'[h] = flight[h]
    PROVE  Coalescent
<1>1. Passengers(f)' = {}
  BY DEF Passengers, Flights
<1>2. ASSUME NEW h \in Flights \ {f}
      PROVE  /\ Passengers(h)' = Passengers(h)
             /\ \A c \in Passengers(h) : client'[c] = client[c]
  <2>1. h[1] # f[1] \/ h[2] # f[2]
    BY DEF Flights
  <2>2. \A c \in Passengers(h) : c \in Clients \ Passengers(f)
    BY <2>1 DEF Passengers
  <2>3. \A c \in Clients : c \in Passengers(h)' => c \notin Passengers(f)
    BY DEF Passengers, Flights
  <2> QED
    BY <2>2, <2>3 DEF Passengers
<1>3. FlightsLed'
  <2>1. \A d \in Clients : client'[d].leads => client'[d].pc \in Levels
    BY DEF FlightsLed
  <2>2. ASSUME NEW h \in Flights, flight'[h].state # "none" \/ Passengers(h)' # {}
        PROVE  flight'[h].state # "none" /\ \E d \in Passengers(h)' : client'[d].leads
    <3>1. h # f
      BY <1>1, <2>2
    <3>2. flight[h].state # "none" /\ \E d \in Passengers(h) : client[d].leads
      BY <1>2, <2>2, <3>1 DEF FlightsLed
    <3> QED
      BY <1>2, <3>1, <3>2
  <2> QED
    BY <2>1, <2>2 DEF FlightsLed
<1>4. Flight!Complete(f)
  BY <1>1, <1>2 DEF Flight!Complete
<1> QED
  BY <1>3, <1>4 DEF Coalescent, Flight!Next

\* A flight lands, for its leader and everyone who waits with it.
LEMMA Landing ==
    ASSUME StoreConstants, Typed, NEW f \in Flights, FlightLands(f) \/ FlightLandsEmpty(f)
    PROVE  \E pc \in {"infer", "replied"} :
             /\ Lands(f, pc)
             /\ pc = "infer" => flight[f].value = NoGen
             /\ \A c \in Passengers(f) : /\ client'[c].pc = pc /\ client'[c].leads = FALSE
                                         /\ client'[c].key = f[2]
                                         /\ client'[c].reply = flight[f].value
             /\ \A c \in Clients \ Passengers(f) : client'[c] = client[c]
             /\ flight[f].state = "ended" /\ flight'[f].state = "none"
             /\ \A h \in Flights \ {f} : flight'[h] = flight[h]
             /\ UNCHANGED <<table, proj, cycle>>
<1>1. \E pc \in {"infer", "replied"} : Lands(f, pc) /\ (pc = "infer" => flight[f].value = NoGen)
  BY DEF FlightLands, FlightLandsEmpty
<1>2. PICK pc \in {"infer", "replied"} :
         Lands(f, pc) /\ (pc = "infer" => flight[f].value = NoGen)
  BY <1>1
<1>3. PICK v \in Result : v = flight[f].value
  BY TypesNamed DEF Typed, FlightType
<1>4. pc \in Pcs \ {"idle"}
  BY DEF Pcs
<1>5. client' = [c \in Clients |->
         IF c \in Passengers(f)
         THEN [client[c] EXCEPT !.pc = pc, !.reply = v, !.leads = FALSE] ELSE client[c]]
  BY <1>2, <1>3 DEF Lands
<1>6. NoFlight(f) /\ flight[f].state = "ended" /\ UNCHANGED <<table, proj, cycle>>
  BY <1>2 DEF Lands
<1>7. flight'[f].state = "none" /\ \A h \in Flights \ {f} : flight'[h] = flight[h]
  BY <1>6, FlightChanges
<1>8. \A c \in Passengers(f) : /\ client'[c].pc = pc /\ client'[c].reply = v
                               /\ client'[c].key = f[2] /\ client'[c].leads = FALSE
  <2> TAKE c \in Passengers(f)
  <2>1. c \in Clients /\ client[c].key = f[2] /\ client[c] \in ClientType
    BY TypesNamed DEF Passengers, Typed
  <2>2. client'[c] = [client[c] EXCEPT !.pc = pc, !.reply = v, !.leads = FALSE]
    BY <1>5, <2>1
  <2> QED
    BY <2>1, <2>2 DEF ClientType
<1>9. \A c \in Clients \ Passengers(f) : client'[c] = client[c]
  BY <1>5
<1> QED
  BY <1>2, <1>3, <1>6, <1>7, <1>8, <1>9

LEMMA LandingCompletes ==
    ASSUME StoreConstants, Typed, FlightsLed, NEW f \in Flights,
           FlightLands(f) \/ FlightLandsEmpty(f)
    PROVE  Coalescent
<1>1. PICK pc \in {"infer", "replied"} :
         /\ \A c \in Passengers(f) : client'[c].pc = pc /\ client'[c].leads = FALSE
         /\ \A c \in Clients \ Passengers(f) : client'[c] = client[c]
         /\ flight[f].state = "ended" /\ flight'[f].state = "none"
         /\ \A h \in Flights \ {f} : flight'[h] = flight[h]
  BY Landing
<1>2. /\ \A c \in Passengers(f) : client'[c].pc \notin Levels /\ client'[c].leads = FALSE
      /\ flight[f].state # "none"
  BY <1>1 DEF Levels
<1> QED
  BY <1>1, <1>2, AllLeave

\* A request takes its seat in a flight, and leads it if it is the first.
LEMMA SeatTaken ==
    ASSUME StoreConstants, Typed, FlightsLed, NEW c \in Clients,
           NEW f \in Flights, f[2] = client[c].key, client[c].pc \notin Levels,
           NEW r \in ClientType, Seated(c, f, r)
    PROVE  Coalescent
<1>0. /\ client \in [Clients -> ClientType] /\ flight \in [Flights -> FlightType]
      /\ flight[f] \in FlightType /\ f[1] \in Levels
  BY TypesNamed DEF Typed, Flights
<1>1. \A d \in Clients : client'[d] = IF d = c THEN r ELSE client[d]
  BY <1>0 DEF Seated
<1>2. /\ r.pc = f[1] /\ r.key = f[2] /\ r.leads = (flight[f].state = "none")
  BY DEF Seated
<1>3. flight'[f].state # "none" /\ \A h \in Flights \ {f} : flight'[h] = flight[h]
  BY <1>0 DEF Seated
<1>4. \A h \in Flights : c \notin Passengers(h)
  BY DEF Passengers, Flights
<1>5. Passengers(f)' = Passengers(f) \cup {c}
  BY <1>1, <1>2 DEF Passengers
<1>6. ASSUME NEW h \in Flights \ {f} PROVE Passengers(h)' = Passengers(h)
  <2>1. h[1] # f[1] \/ h[2] # f[2]
    BY DEF Flights
  <2>2. h[1] \in Levels
    BY DEF Flights
  <2> QED
    BY <1>1, <1>2, <2>1, <2>2 DEF Passengers
<1>7. \A h \in Flights : \A d \in Passengers(h) : client'[d] = client[d]
  BY <1>1, <1>4 DEF Passengers
<1>8. FlightsLed'
  <2>1. \A d \in Clients : client'[d].leads => client'[d].pc \in Levels
    BY <1>0, <1>1, <1>2 DEF FlightsLed
  <2>2. \E d \in Passengers(f)' : client'[d].leads
    <3>1. CASE flight[f].state = "none"
      BY <1>1, <1>2, <1>5, <3>1
    <3>2. CASE flight[f].state # "none"
      BY <1>5, <1>7, <3>2 DEF FlightsLed
    <3> QED
      BY <3>1, <3>2
  <2>3. ASSUME NEW h \in Flights \ {f}, flight'[h].state # "none" \/ Passengers(h)' # {}
        PROVE  flight'[h].state # "none" /\ \E d \in Passengers(h)' : client'[d].leads
    <3>1. flight[h].state # "none" /\ \E d \in Passengers(h) : client[d].leads
      BY <1>3, <1>6, <2>3 DEF FlightsLed
    <3> QED
      BY <1>3, <1>6, <1>7, <3>1
  <2> QED
    BY <1>3, <2>1, <2>2, <2>3 DEF FlightsLed
<1>9. Flight!Join(c, f)
  <2>1. {h \in Flights : flight'[h].state # "none"}
            = {h \in Flights : flight[h].state # "none"} \cup {f}
    BY <1>3
  <2>2. \A h \in Flights : c \notin [g \in Flights |-> Passengers(g)][h]
    BY <1>4
  <2>3. [h \in Flights |-> Passengers(h)']
            = [[h \in Flights |-> Passengers(h)] EXCEPT ![f] = Passengers(f) \cup {c}]
    BY <1>5, <1>6
  <2> QED
    BY <2>1, <2>2, <2>3 DEF Flight!Join
<1> QED
  BY <1>8, <1>9 DEF Coalescent, Flight!Next

LEMMA AskingCoalesces ==
    ASSUME StoreConstants, Typed, FlightsLed, NEW c \in Clients, AskStored(c) \/ AskOndemand(c)
    PROVE  Coalescent
<1>1. client[c].pc \notin Levels
  BY AsksAFlight DEF Levels
<1>2. PICK f \in Flights : f[2] = client[c].key /\ Ask(c, f)
  BY AsksAFlight
<1>3. PICK r \in ClientType : Answers(c, f, r) \/ Seated(c, f, r)
  BY <1>2, AskChanges
<1>4. CASE Answers(c, f, r)
  <2>1. client[c].leads \in BOOLEAN /\ ~client[c].leads
    BY <1>1, TypesNamed DEF FlightsLed, Typed, ClientType
  <2>2. /\ r.pc \notin Levels /\ r.leads = FALSE
        /\ client' = [client EXCEPT ![c] = r] /\ UNCHANGED flight
    BY <1>4, <2>1 DEF Answers, Levels
  <2> QED
    BY <1>1, <2>2, AwayFromFlights
<1>5. CASE Seated(c, f, r)
  BY <1>1, <1>2, <1>5, SeatTaken
<1> QED
  BY <1>3, <1>4, <1>5

\* A waiter gives up: the leader still waits.
LEMMA WaiterLeaves ==
    ASSUME Typed, FlightsLed, NEW c \in Clients, client[c].pc \in Levels, ~client[c].leads,
           NEW r \in ClientType, r.pc \notin Levels, r.leads = FALSE,
           client' = [client EXCEPT ![c] = r], UNCHANGED flight
    PROVE  Coalescent
<1>0. /\ client \in [Clients -> ClientType] /\ client[c].pc # "idle"
  BY TypesNamed DEF Typed, Levels
<1>1. PICK f \in Flights : f = <<client[c].pc, client[c].key>>
  BY <1>0 DEF Typed, RequestsAsk, Flights
<1>2. c \in Passengers(f) /\ f[1] = client[c].pc /\ f[2] = client[c].key
  BY <1>1 DEF Passengers
<1>3. \A d \in Clients : client'[d] = IF d = c THEN r ELSE client[d]
  BY <1>0
<1>4. Passengers(f)' = Passengers(f) \ {c}
  BY <1>3, <1>2 DEF Passengers
<1>5. ASSUME NEW h \in Flights \ {f} PROVE Passengers(h)' = Passengers(h) /\ c \notin Passengers(h)
  <2>1. h[1] # client[c].pc \/ h[2] # client[c].key
    BY <1>1, <1>5 DEF Flights
  <2>2. h[1] \in Levels
    BY DEF Flights
  <2> QED
    BY <1>3, <2>1, <2>2 DEF Passengers
<1>6. PICK l \in Passengers(f) : client[l].leads
  BY <1>2 DEF FlightsLed
<1>7. l # c /\ l \in Passengers(f)' /\ client'[l] = client[l]
  BY <1>3, <1>4, <1>6 DEF Passengers
<1>8. FlightsLed'
  <2>1. \A d \in Clients : client'[d].leads => client'[d].pc \in Levels
    BY <1>3 DEF FlightsLed
  <2>2. flight'[f].state # "none" /\ \E d \in Passengers(f)' : client'[d].leads
    BY <1>6, <1>7, <1>2 DEF FlightsLed
  <2>3. ASSUME NEW h \in Flights \ {f}, flight'[h].state # "none" \/ Passengers(h)' # {}
        PROVE  flight'[h].state # "none" /\ \E d \in Passengers(h)' : client'[d].leads
    <3>1. flight[h].state # "none" /\ \E d \in Passengers(h) : client[d].leads
      BY <1>5, <2>3 DEF FlightsLed
    <3>2. \A d \in Passengers(h) : client'[d] = client[d]
      BY <1>3, <1>5 DEF Passengers
    <3> QED
      BY <1>5, <3>1, <3>2
  <2> QED
    BY <2>1, <2>2, <2>3 DEF FlightsLed
<1>9. Flight!Leave(c, f)
  <2>1. Passengers(f) # {c}
    BY <1>6, <1>7
  <2> QED
    BY <1>4, <1>5, <1>2, <2>1 DEF Flight!Leave
<1> QED
  BY <1>1, <1>8, <1>9 DEF Coalescent, Flight!Next

LEMMA CancelledCoalesces ==
    ASSUME StoreConstants, Typed, FlightsLed, NEW c \in Clients, Disconnect(c)
    PROVE  Coalescent
<1>0. client[c].pc \in Levels /\ client[c].pc # "idle"
  BY DEF Disconnect, Levels
<1>1. PICK f \in Flights : f = <<client[c].pc, client[c].key>>
  BY <1>0 DEF Typed, RequestsAsk, Flights
<1>2. CASE client[c].leads
  <2>1. /\ NoFlight(f)
        /\ client' = [d \in Clients |->
              IF d \in Passengers(f)
              THEN [client[d] EXCEPT !.pc = "cancelled", !.leads = FALSE] ELSE client[d]]
    BY <1>1, <1>2 DEF Disconnect
  <2>2. flight[f].state # "none"
    BY <1>1 DEF FlightsLed, Passengers
  <2>3. flight'[f].state = "none" /\ \A h \in Flights \ {f} : flight'[h] = flight[h]
    BY <2>1, FlightChanges
  <2>4. /\ \A d \in Passengers(f) : client'[d].pc = "cancelled" /\ client'[d].leads = FALSE
        /\ \A d \in Clients \ Passengers(f) : client'[d] = client[d]
    BY <2>1, LeaderCancelled
  <2>5. \A d \in Passengers(f) : client'[d].pc \notin Levels /\ client'[d].leads = FALSE
    BY <2>4 DEF Levels
  <2> QED
    BY <2>2, <2>3, <2>4, <2>5, AllLeave
<1>3. CASE ~client[c].leads
  <2>1. Goto(c, "cancelled") /\ UNCHANGED flight
    BY <1>3 DEF Disconnect
  <2>2. PICK r \in ClientType : /\ r.pc = "cancelled" /\ r.leads = client[c].leads
                                /\ client' = [client EXCEPT ![c] = r]
    BY <2>1, ClientChanges DEF Pcs
  <2>3. r.pc \notin Levels /\ r.leads = FALSE
    BY <1>3, <2>2 DEF Levels, ClientType
  <2> QED
    BY <1>0, <1>3, <2>1, <2>2, <2>3, WaiterLeaves
<1> QED
  BY <1>2, <1>3

\* A request away from its flight asks, looks up, is given up or returns.
LEMMA RequestCoalesces ==
    ASSUME StoreConstants, Typed, FlightsLed, NEW c \in Clients,
           \/ \E k \in Keys : Request(c, k)
           \/ Lookup(c) \/ Return(c) \/ DisconnectRefresh(c)
    PROVE  Coalescent
<1>0. /\ client[c] \in ClientType /\ client \in [Clients -> ClientType]
  BY TypesNamed DEF Typed
<1>1. client[c].pc \notin Levels /\ UNCHANGED flight
  BY DEF Request, Lookup, Return, DisconnectRefresh, Levels, lookups
<1>2. client[c].leads = FALSE
  BY <1>0, <1>1 DEF FlightsLed, ClientType
<1>3. \E r \in ClientType : /\ r.pc \notin Levels /\ r.leads = FALSE
                            /\ client' = [client EXCEPT ![c] = r]
  <2>1. CASE \E k \in Keys : Request(c, k)
    <3>1. PICK k \in Keys : Request(c, k)
      BY <2>1
    <3> DEFINE r == [client[c] EXCEPT !.pc = "refresh", !.key = k, !.reply = NoGen]
    <3>2. /\ r \in ClientType /\ r.pc = "refresh" /\ r.leads = FALSE
          /\ client' = [client EXCEPT ![c] = r]
      BY <1>0, <1>2, <3>1, ConstantTypes DEF Request, ClientType, Pcs
    <3> HIDE DEF r
    <3> QED
      BY <3>2 DEF Levels
  <2>2. CASE Lookup(c)
    <3>1. client[c].key \in Keys
      BY <2>2 DEF Lookup, Typed, RequestsAsk
    <3>2. projection[client[c].key] \in Result
      BY <3>1, TypesNamed, ConstantTypes DEF Typed
    <3>3. Reply(c, projection[client[c].key]) \/ Goto(c, "lookup")
      BY <2>2 DEF Lookup
    <3>4. CASE Reply(c, projection[client[c].key])
      BY <1>2, <3>2, <3>4, ClientChanges DEF Levels
    <3>5. CASE Goto(c, "lookup")
      BY <1>2, <3>5, ClientChanges DEF Pcs, Levels
    <3> QED
      BY <3>3, <3>4, <3>5
  <2>3. CASE Return(c)
    BY <2>3, ConstantTypes DEF Return, Idle, Levels
  <2>4. CASE DisconnectRefresh(c)
    BY <1>2, <2>4, ClientChanges DEF DisconnectRefresh, Pcs, Levels
  <2> QED
    BY <2>1, <2>2, <2>3, <2>4
<1> QED
  BY <1>1, <1>3, AwayFromFlights

LEMMA FlightStep ==
    ASSUME StoreConstants, Typed, FlightsLed, [Next]_vars
    PROVE  Coalescent
<1>1. ASSUME NEW c \in Clients, NEW k \in Keys, Request(c, k) PROVE Coalescent
  BY <1>1, RequestCoalesces
<1>2. CASE Serving
  BY <1>2, RequestCoalesces, AskingCoalesces DEF Serving
<1>3. CASE Refreshing
  <2>1. UNCHANGED <<client, flight>>
    BY <1>3 DEF Refreshing, TakeLock, ReadRows, LoadFails, Install, lookups
  <2> QED
    BY <2>1, FlightsStay
<1>4. CASE Flying
  BY <1>4, ReadKeepsFlights, LandingCompletes DEF Flying
<1>5. ASSUME NEW c \in Clients, Disconnect(c) \/ DisconnectRefresh(c) PROVE Coalescent
  BY <1>5, CancelledCoalesces, RequestCoalesces
<1>6. CASE \/ BeginInsert \/ InsertRow \/ PredictDone \/ Render \/ StationCycle \/ CycleEnds
           \/ Tick \/ UNCHANGED vars
  <2>1. UNCHANGED <<client, flight>>
    BY <1>6 DEF BeginInsert, InsertRow, PredictDone, Render, StationCycle, CycleEnds, Tick,
                vars, lookups
  <2> QED
    BY <2>1, FlightsStay
<1> QED
  BY <1>1, <1>2, <1>3, <1>4, <1>5, <1>6 DEF Next
-----------------------------------------------------------------------------
(* The lock.                                                               *)

\* A load begins under a free lock, and ends or goes on in every other step.
LEMMA LoadBegins ==
    ASSUME StoreConstants, Typed, [Next]_vars
    PROVE  \/ \E a \in Actors : TakeLock(a)
           \/ \A a \in Actors : refresher'[a] \in {"query", "install"}
                                    => refresher[a] \in {"query", "install"}
<1>0. refresher \in [Actors -> {"out", "lock", "query", "install"}]
  BY TypesNamed DEF Typed
<1> DEFINE NoneBegins == \A a \in Actors : refresher'[a] \in {"query", "install"}
                                    => refresher[a] \in {"query", "install"}
<1>1. ASSUME NEW c \in Clients, NEW k \in Keys, Request(c, k) PROVE NoneBegins
  BY <1>0, <1>1 DEF Request, EnterRefresh
<1>2. CASE Serving
  BY <1>0, <1>2 DEF Serving, Lookup, AskStored, AskOndemand, Return, proj
<1>3. ASSUME NEW a \in Actors, ReadRows(a) \/ LoadFails(a) \/ Install(a) PROVE NoneBegins
  BY <1>0, <1>3 DEF ReadRows, LoadFails, Install
<1>4. CASE Flying
  BY <1>0, <1>4 DEF Flying, FlightReads, FlightFindsNothing, FlightLands, FlightLandsEmpty,
                    Lands, proj
<1>5. ASSUME NEW c \in Clients, Disconnect(c) \/ DisconnectRefresh(c) PROVE NoneBegins
  BY <1>0, <1>5 DEF Disconnect, DisconnectRefresh, proj
<1>6. CASE \/ BeginInsert \/ InsertRow \/ PredictDone \/ Render \/ StationCycle \/ CycleEnds
           \/ Tick \/ UNCHANGED vars
  BY <1>0, <1>6 DEF BeginInsert, InsertRow, PredictDone, Render, StationCycle, CycleEnds, Tick,
                    vars, proj, EnterRefresh
<1> QED
  BY <1>1, <1>2, <1>3, <1>4, <1>5, <1>6 DEF Next, Refreshing

LEMMA OneLoadsStep ==
    ASSUME StoreConstants, Typed, OneLoads, [Next]_vars
    PROVE  OneLoads'
<1>1. ASSUME NEW a \in Actors, TakeLock(a) PROVE OneLoads'
  <2>1. \A b \in Actors : refresher[b] \notin {"query", "install"}
    BY <1>1 DEF TakeLock, LockHeld
  <2>2. \A b \in Actors \ {a} : refresher'[b] = refresher[b]
    BY <1>1, TypesNamed DEF TakeLock, Typed
  <2> QED
    BY <2>1, <2>2 DEF OneLoads
<1> QED
  BY <1>1, LoadBegins DEF OneLoads
-----------------------------------------------------------------------------
(* Ages.                                                                   *)

\* The clocks of what is not complete stand.
LEMMA ClockStep ==
    ASSUME StoreConstants, Typed, ClockStarts, [Next]_vars
    PROVE  ClockStarts'
<1>0. Gen \in 0..MaxGen /\ MaxGen \in Nat
  BY TypesNamed DEF Typed, StoreConstants
<1>1. CASE BeginInsert \/ InsertRow
  <2>1. Gen' \in 1..MaxGen /\ Gen <= Gen' /\ cycle' = "insert" /\ UNCHANGED since
    BY <1>1, Insertion
  <2>2. cycle = "insert" \/ Gen' = Gen + 1
    BY <1>1, TypesNamed, AppendProperties DEF BeginInsert, InsertRow, Typed, Gen
  <2>3. \A g \in 1..MaxGen : ~Complete(g)' => ~Complete(g)
    BY <1>0, <2>1, <2>2 DEF Complete
  <2> QED
    BY <2>1, <2>3 DEF ClockStarts
<1>2. CASE Tick
  <2>1. /\ \A g \in 1..MaxGen : ~Complete(g) => since'[g] = 0
        /\ UNCHANGED <<stored, cycle>>
    BY <1>2, TimePasses
  <2> QED
    BY <2>1 DEF ClockStarts, Complete, Gen
<1>3. ASSUME UNCHANGED table, cycle' = "insert" => cycle = "insert" PROVE ClockStarts'
  <2>1. \A g \in 1..MaxGen : Complete(g) => Complete(g)'
    BY <1>3 DEF Complete, Gen, table
  <2> QED
    BY <1>3, <2>1 DEF ClockStarts, table
<1>4. CASE PredictDone \/ Render \/ StationCycle \/ CycleEnds \/ UNCHANGED vars
  BY <1>3, <1>4 DEF PredictDone, Render, StationCycle, CycleEnds, vars
<1>5. ASSUME NEW c \in Clients, NEW k \in Keys, Request(c, k) PROVE ClockStarts'
  BY <1>3, <1>5 DEF Request
<1>6. CASE Serving
  BY <1>3, <1>6 DEF Serving, Lookup, AskStored, AskOndemand, Return
<1>7. CASE Refreshing
  BY <1>3, <1>7 DEF Refreshing, TakeLock, ReadRows, LoadFails, Install
<1>8. CASE Flying
  BY <1>3, <1>8 DEF Flying, FlightReads, FlightFindsNothing, FlightLands, FlightLandsEmpty, Lands
<1>9. ASSUME NEW c \in Clients, Disconnect(c) \/ DisconnectRefresh(c) PROVE ClockStarts'
  BY <1>3, <1>9 DEF Disconnect, DisconnectRefresh
<1> QED
  BY <1>1, <1>2, <1>4, <1>5, <1>6, <1>7, <1>8, <1>9 DEF Next

\* An insertion makes nobody miss more: what it inserts is not complete.
LEMMA InsertionMissesNothing ==
    ASSUME StoreConstants, Typed, ClockStarts, BeginInsert \/ InsertRow,
           NEW k, NEW v \in Nat, NEW n \in Nat, Missed(k, v, n)
    PROVE  Missed(k, v, n)'
<1>1. /\ Gen' \in 1..MaxGen /\ UNCHANGED since /\ MaxGen \in Nat
      /\ \A g \in 1..Gen' : k \in stored'[g] => (g \in 1..Gen /\ k \in stored[g]) \/ ~Complete(g)
  BY Insertion DEF StoreConstants
<1>2. ASSUME NEW g \in 1..Gen', g > v, k \in stored'[g] PROVE since'[g] <= n
  <2>1. CASE g \in 1..Gen /\ k \in stored[g]
    BY <1>1, <1>2, <2>1 DEF Missed
  <2>2. CASE ~Complete(g)
    BY <1>1, <2>2 DEF ClockStarts
  <2> QED
    BY <1>1, <1>2, <2>1, <2>2
<1> QED
  BY <1>2 DEF Missed

\* Time makes what is missed a tick older.
LEMMA TickMisses ==
    ASSUME StoreConstants, Typed, Tick, NEW k, NEW v \in Nat, NEW n \in Nat, Missed(k, v, n)
    PROVE  Missed(k, v, n + 1)'
<1>0. /\ Gen \in 0..MaxGen /\ MaxGen \in Nat /\ Ttl + MaxLag \in Nat
      /\ since \in [1..MaxGen -> 0..(Ttl + MaxLag)]
  BY TypesNamed DEF Typed, StoreConstants
<1>1. /\ since' \in [1..MaxGen -> 0..(Ttl + MaxLag)]
      /\ \A g \in 1..MaxGen : since'[g] <= since[g] + 1
      /\ UNCHANGED stored
  BY TimePasses
<1>2. ASSUME NEW g \in 1..Gen, g > v, k \in stored[g] PROVE since'[g] <= n + 1
  <2>1. g \in 1..MaxGen /\ since[g] <= n
    BY <1>0, <1>2 DEF Missed
  <2>2. since[g] \in 0..(Ttl + MaxLag) /\ since'[g] \in 0..(Ttl + MaxLag)
    BY <1>0, <1>1, <2>1
  <2> QED
    BY <1>0, <1>1, <2>1, <2>2
<1> QED
  BY <1>1, <1>2 DEF Missed, Gen

\* The bounds the ages are compared with.
LEMMA Bounds ==
    ASSUME StoreConstants, Typed
    PROVE  /\ Ttl \in Nat /\ Ttl > 0 /\ MaxLag \in Nat /\ MaxGen \in Nat
           /\ Bound \in Nat /\ MaxLag <= Bound /\ Ttl - 1 <= Bound
           /\ Gen \in 0..MaxGen /\ rows.gen \in 0..MaxGen /\ lag \in 0..MaxLag
           /\ loaded \in 0..Never /\ NoGen = 0
           /\ \A k \in Keys : projection[k] \in 0..MaxGen
           /\ \A g \in 1..Gen : since[g] \in Nat
BY TypesNamed DEF Typed, StoreConstants, Bound, NoGen, Never, Batches

\* A fresh projection may be used for a reply.
LEMMA FreshIsGood ==
    ASSUME StoreConstants, Typed, ProjectionAge, Fresh, NEW k \in Keys, projection[k] # NoGen
    PROVE  Missed(k, projection[k], Bound)
<1>1. Missed(k, projection[k], loaded + MaxLag) /\ loaded < Ttl
  BY DEF ProjectionAge, Fresh
<1>2. loaded + MaxLag <= Bound
  BY <1>1, Bounds DEF Bound
<1> QED
  BY <1>1, <1>2, Bounds DEF Missed

\* What a refresh leaves in the projection.
LEMMA Installed ==
    ASSUME StoreConstants, Typed, RowsAge, NEW a \in Actors, Install(a)
    PROVE  /\ \A b \in Actors : refresher'[b] = IF b = a THEN "out" ELSE refresher[b]
           /\ rows.gen <= Gen /\ \A g \in 1..Gen : g > rows.gen => since[g] <= lag
           /\ \/ rows.gen # NoGen /\ projection' = Projected(rows) /\ loaded' = 0
              \/ /\ rows.gen = NoGen /\ UNCHANGED projection
                 /\ loaded' = IF loaded = Never THEN 0 ELSE loaded
           /\ UNCHANGED <<table, failed, lookups, client, cycle>>
<1>1. \A b \in Actors : refresher'[b] = IF b = a THEN "out" ELSE refresher[b]
  BY TypesNamed DEF Install, Typed
<1>2. /\ rows.gen <= Gen /\ (rows.gen # NoGen <=> rows.keys # {})
      /\ \A g \in 1..Gen : g > rows.gen => since[g] <= lag
  BY DEF Install, RowsAge
<1> QED
  BY <1>1, <1>2 DEF Install

LEMMA AgesOfRefresh ==
    ASSUME StoreConstants, Typed, OneLoads, Ages, NEW a \in Actors,
           TakeLock(a) \/ ReadRows(a) \/ LoadFails(a) \/ Install(a)
    PROVE  Ages'
<1>0. /\ UNCHANGED <<table, lookups, client, cycle>>
      /\ UNCHANGED <<stored, since, cache, flight>> /\ Gen' = Gen
  BY DEF TakeLock, ReadRows, LoadFails, Install, table, lookups, Gen
<1>1. CacheAge' /\ FlightAge'
  BY <1>0 DEF Ages, CacheAge, FlightAge, Missed
<1>2. ReplyAge'
  <2>1. \A c \in Clients : failed'[c] = failed[c] \/ failed'[c]
    BY TypesNamed DEF TakeLock, ReadRows, LoadFails, Install, Typed, Actors
  <2> QED
    BY <1>0, <2>1 DEF Ages, ReplyAge, Missed
<1>3. CASE Install(a)
  <2>1. /\ \A b \in Actors : refresher'[b] = IF b = a THEN "out" ELSE refresher[b]
        /\ rows.gen <= Gen /\ \A g \in 1..Gen : g > rows.gen => since[g] <= lag
        /\ UNCHANGED failed
    BY <1>3, Installed DEF Ages
  <2>2. \/ rows.gen # NoGen /\ projection' = Projected(rows) /\ loaded' = 0
        \/ /\ rows.gen = NoGen /\ UNCHANGED projection
           /\ loaded' = IF loaded = Never THEN 0 ELSE loaded
    BY <1>3, Installed DEF Ages
  <2>3. \A k \in Keys : projection'[k] # NoGen => projection'[k] >= rows.gen
    BY <2>2, Bounds DEF Projected
  <2>4. \A k \in Keys : projection'[k] # NoGen =>
            \A g \in 1..Gen : g > projection'[k] => since[g] <= MaxLag
    <3> TAKE k \in Keys
    <3>1. SUFFICES ASSUME projection'[k] # NoGen, NEW g \in 1..Gen, g > projection'[k]
                   PROVE  since[g] <= MaxLag
      OBVIOUS
    <3>2. projection'[k] \in Nat
      BY <2>2, Bounds DEF Projected
    <3>3. g > rows.gen
      BY <2>3, <3>1, <3>2, Bounds
    <3> QED
      BY <2>1, <3>3, Bounds
  <2>5. RowsAge'
    BY <1>3, <2>1 DEF RowsAge, OneLoads, Install
  <2>6. ProjectionAge'
    <3>1. loaded' # Never
      BY <2>2, Bounds DEF Never
    <3>2. ASSUME NEW k \in Keys, projection'[k] # NoGen,
                 NEW g \in 1..Gen, g > projection'[k]
          PROVE  since[g] <= loaded' + MaxLag
      <4>1. loaded' \in Nat
        BY <2>2, Bounds
      <4> QED
        BY <2>4, <3>2, <4>1, Bounds
    <3> QED
      BY <1>0, <3>1, <3>2 DEF ProjectionAge, Missed
  <2>7. RefreshedAge'
    <3>1. ASSUME NEW k \in Keys, projection'[k] # NoGen,
                 NEW g \in 1..Gen, g > projection'[k]
          PROVE  since[g] <= Bound
      BY <2>4, <3>1, Bounds
    <3> QED
      BY <1>0, <3>1 DEF RefreshedAge, Missed
  <2> QED
    BY <1>1, <1>2, <2>5, <2>6, <2>7 DEF Ages
<1>4. CASE TakeLock(a) \/ ReadRows(a) \/ LoadFails(a)
  <2>1. UNCHANGED <<projection, loaded>>
    BY <1>4 DEF TakeLock, ReadRows, LoadFails
  <2>2. ProjectionAge'
    BY <1>0, <2>1 DEF Ages, ProjectionAge, Missed
  <2>3. RowsAge'
    <3>1. CASE ReadRows(a)
      <4>1. /\ Batch.gen = Gen /\ (Batch.gen # NoGen <=> Batch.keys # {})
        BY BatchIsOfOne, TypesNamed DEF Typed
      <4> QED
        BY <1>0, <3>1, <4>1, Bounds DEF RowsAge, ReadRows
    <3>2. CASE TakeLock(a) \/ LoadFails(a)
      <4>1. UNCHANGED <<rows, lag>>
        BY <3>2 DEF TakeLock, LoadFails
      <4>2. \A b \in Actors : refresher'[b] = "install" => refresher[b] = "install"
        BY <3>2, TypesNamed DEF TakeLock, LoadFails, Typed
      <4> QED
        BY <1>0, <4>1, <4>2 DEF Ages, RowsAge
    <3> QED
      BY <1>4, <3>1, <3>2
  <2>4. RefreshedAge'
    <3>1. ASSUME NEW c \in Clients, client[c].pc = "refresh", refresher'[c] = "out", ~failed'[c],
                 NEW k \in Keys, projection[k] # NoGen
          PROVE  Missed(k, projection[k], Bound)
      <4>0. c \in Actors
        BY DEF Actors
      <4>1. CASE c = a
        <5>1. Fresh
          BY <1>4, <3>1, <4>0, <4>1, TypesNamed DEF TakeLock, ReadRows, LoadFails, Typed
        <5> QED
          BY <3>1, <5>1, FreshIsGood DEF Ages
      <4>2. CASE c # a
        <5>1. refresher[c] = "out" /\ ~failed[c]
          BY <1>4, <3>1, <4>0, <4>2, TypesNamed DEF TakeLock, ReadRows, LoadFails, Typed
        <5> QED
          BY <3>1, <5>1 DEF Ages, RefreshedAge
      <4> QED
        BY <4>1, <4>2
    <3> QED
      BY <1>0, <2>1, <3>1 DEF RefreshedAge, Missed
  <2> QED
    BY <1>1, <1>2, <2>2, <2>3, <2>4 DEF Ages
<1> QED
  BY <1>3, <1>4

\* A request goes on with what it has just seen.
LEMMA AgesOfRequest ==
    ASSUME StoreConstants, Typed, OneLoads, Ages, NEW c \in Clients,
           \/ \E k \in Keys : Request(c, k)
           \/ Lookup(c) \/ Return(c) \/ DisconnectRefresh(c)
    PROVE  Ages'
<1>0. /\ client[c] \in ClientType /\ client \in [Clients -> ClientType]
      /\ refresher \in [Actors -> {"out", "lock", "query", "install"}]
      /\ failed \in [Actors -> BOOLEAN] /\ c \in Actors
  BY TypesNamed DEF Typed, Actors
<1>1. /\ UNCHANGED <<stored, since, projection, loaded, cache, flight>> /\ Gen' = Gen
  BY DEF Request, EnterRefresh, Lookup, Return, DisconnectRefresh, proj, table, lookups, Gen
<1>2. CacheAge' /\ FlightAge' /\ ProjectionAge'
  BY <1>1 DEF Ages, CacheAge, FlightAge, ProjectionAge, Missed
<1>3. RowsAge'
  <2>1. \A b \in Actors : refresher'[b] = "install" => refresher[b] = "install"
    BY <1>0 DEF Request, EnterRefresh, Lookup, Return, DisconnectRefresh, proj
  <2>2. \A b \in Actors : refresher'[b] = "install" => UNCHANGED <<rows, lag>>
    <3>1. CASE DisconnectRefresh(c)
      BY <1>0, <3>1 DEF DisconnectRefresh, OneLoads
    <3>2. CASE ~DisconnectRefresh(c)
      BY <3>2 DEF Request, EnterRefresh, Lookup, Return, proj
    <3> QED
      BY <3>1, <3>2
  <2> QED
    BY <1>1, <2>1, <2>2 DEF Ages, RowsAge
<1>4. \A d \in Clients \ {c} : /\ client'[d] = client[d]
                               /\ refresher'[d] = refresher[d] /\ failed'[d] = failed[d]
  BY <1>0 DEF Request, EnterRefresh, Lookup, Return, DisconnectRefresh, proj, Goto, Reply, Actors
<1>5. client'[c].pc = "refresh" /\ refresher'[c] = "out" =>
          \A k \in Keys : projection[k] # NoGen => Missed(k, projection[k], Bound)
  <2>1. CASE \E k \in Keys : Request(c, k)
    <3>1. refresher'[c] = "out" => Fresh
      BY <1>0, <2>1 DEF Request, EnterRefresh
    <3> QED
      BY <3>1, FreshIsGood DEF Ages
  <2>2. CASE Lookup(c) \/ Return(c) \/ DisconnectRefresh(c)
    <3>1. client'[c].pc # "refresh"
      BY <1>0, <2>2 DEF Lookup, Return, DisconnectRefresh, Goto, Reply, Idle, ClientType
    <3> QED
      BY <3>1
  <2> QED
    BY <2>1, <2>2
<1>6. (client'[c].pc = "replied" /\ client'[c].reply # NoGen /\ ~failed'[c]) =>
          Missed(client'[c].key, client'[c].reply, Bound)
  <2>1. CASE Lookup(c)
    <3>0. client[c].key \in Keys /\ UNCHANGED failed
      BY <2>1 DEF Lookup, Typed, RequestsAsk, proj
    <3>1. PICK k \in Keys : k = client[c].key
      BY <3>0
    <3>2. CASE projection[k] # NoGen
      <4>1. Reply(c, projection[k])
        BY <2>1, <3>1, <3>2 DEF Lookup
      <4>2. client'[c].key = k /\ client'[c].reply = projection[k]
        BY <1>0, <3>1, <4>1 DEF Reply, ClientType
      <4>3. ~failed[c] => Missed(k, projection[k], Bound)
        BY <2>1, <3>2 DEF Lookup, Ages, RefreshedAge
      <4> QED
        BY <3>0, <4>2, <4>3
    <3>3. CASE projection[k] = NoGen
      <4>1. client'[c].pc = "lookup"
        BY <1>0, <2>1, <3>1, <3>3 DEF Lookup, Goto, ClientType
      <4> QED
        BY <4>1
    <3> QED
      BY <3>2, <3>3
  <2>2. CASE ~Lookup(c)
    <3>1. client'[c].pc # "replied"
      <4>1. CASE \E k \in Keys : Request(c, k)
        <5>1. PICK k \in Keys : Request(c, k)
          BY <4>1
        <5>2. client' = [client EXCEPT ![c] =
                           [client[c] EXCEPT !.pc = "refresh", !.key = k, !.reply = NoGen]]
          BY <1>0, <5>1 DEF Request, ClientType
        <5> QED
          BY <1>0, <5>2 DEF ClientType
      <4>2. CASE Return(c)
        BY <1>0, <4>2 DEF Return, Idle
      <4>3. CASE DisconnectRefresh(c)
        BY <1>0, <4>3 DEF DisconnectRefresh, Goto, ClientType
      <4> QED
        BY <2>2, <4>1, <4>2, <4>3
    <3> QED
      BY <3>1
  <2> QED
    BY <2>1, <2>2
<1>7. RefreshedAge'
  <2>1. ASSUME NEW d \in Clients, client'[d].pc = "refresh", refresher'[d] = "out", ~failed'[d],
               NEW k \in Keys, projection[k] # NoGen
        PROVE  Missed(k, projection[k], Bound)
    <3>1. CASE d = c
      BY <1>5, <2>1, <3>1
    <3>2. CASE d # c
      BY <1>4, <2>1, <3>2 DEF Ages, RefreshedAge
    <3> QED
      BY <3>1, <3>2
  <2> QED
    BY <1>1, <2>1 DEF RefreshedAge, Missed
<1>8. ReplyAge'
  <2>1. ASSUME NEW d \in Clients,
               client'[d].pc = "replied", client'[d].reply # NoGen, ~failed'[d]
        PROVE  Missed(client'[d].key, client'[d].reply, Bound)
    <3>1. CASE d = c
      BY <1>6, <2>1, <3>1
    <3>2. CASE d # c
      BY <1>4, <2>1, <3>2 DEF Ages, ReplyAge
    <3> QED
      BY <3>1, <3>2
  <2> QED
    BY <1>1, <2>1 DEF ReplyAge, Missed
<1> QED
  BY <1>2, <1>3, <1>7, <1>8 DEF Ages

\* A cached value was young when it was cached, and is not older than the TTL.
LEMMA CachedIsGood ==
    ASSUME StoreConstants, Typed, CacheAge, NEW f \in Flights, cache[f].age < Ttl
    PROVE  Missed(f[2], cache[f].value, Bound)
<1>1. cache[f].age \in 0..Ttl
  BY TypesNamed DEF Typed, CacheType
<1>2. Missed(f[2], cache[f].value, cache[f].age)
  BY DEF CacheAge
<1>3. cache[f].age <= Bound
  BY <1>1, Bounds
<1> QED
  BY <1>1, <1>2, <1>3, Bounds DEF Missed

\* What a step of the flights leaves as it is.
LEMMA AgesAway ==
    ASSUME Ages, UNCHANGED <<table, proj>>
    PROVE  /\ RowsAge' /\ ProjectionAge'
           /\ (\A c \in Clients : client'[c].pc = "refresh" => client[c].pc = "refresh")
                => RefreshedAge'
<1>1. /\ UNCHANGED <<stored, since, projection, loaded, refresher, failed, rows, lag>>
      /\ Gen' = Gen
  BY DEF table, proj, Gen
<1> QED
  BY <1>1 DEF Ages, RowsAge, ProjectionAge, RefreshedAge, Missed

LEMMA AgesOfAsk ==
    ASSUME StoreConstants, Typed, Ages, NEW c \in Clients, AskStored(c) \/ AskOndemand(c)
    PROVE  Ages'
<1>0. /\ client \in [Clients -> ClientType] /\ flight \in [Flights -> FlightType]
      /\ UNCHANGED <<table, proj, cache>>
  BY TypesNamed, AsksAFlight DEF Typed
<1>1. PICK f \in Flights : f[2] = client[c].key /\ Ask(c, f)
  BY AsksAFlight
<1>2. PICK r \in ClientType : Answers(c, f, r) \/ Seated(c, f, r)
  BY <1>1, AskChanges
<1>3. /\ \A d \in Clients : client'[d] = IF d = c THEN r ELSE client[d]
      /\ r.pc \in {"stored", "ondemand", "replied"} /\ r.key = f[2]
  BY <1>0, <1>1, <1>2 DEF Answers, Seated, Flights, Levels
<1>4. RowsAge' /\ ProjectionAge' /\ RefreshedAge'
  BY <1>0, <1>3, AgesAway
<1>5. /\ UNCHANGED <<stored, since, failed, cache>> /\ Gen' = Gen
  BY <1>0 DEF table, proj, Gen
<1>6. CacheAge'
  BY <1>5 DEF Ages, CacheAge, Missed
<1>7. FlightAge'
  <2>1. \A h \in Flights : flight'[h].state = "ended" =>
            flight[h].state = "ended" /\ flight'[h].value = flight[h].value
    BY <1>0, <1>2 DEF Answers, Seated, FlightType
  <2> QED
    BY <1>5, <2>1 DEF Ages, FlightAge, Missed
<1>8. ReplyAge'
  <2>1. r.pc = "replied" => Missed(f[2], r.reply, Bound)
    <3>1. CASE Answers(c, f, r)
      BY <3>1, CachedIsGood DEF Answers, Ages
    <3>2. CASE Seated(c, f, r)
      BY <3>2 DEF Seated, Flights, Levels
    <3> QED
      BY <1>2, <3>1, <3>2
  <2>2. ASSUME NEW d \in Clients,
               client'[d].pc = "replied", client'[d].reply # NoGen, ~failed[d]
        PROVE  Missed(client'[d].key, client'[d].reply, Bound)
    <3>1. CASE d = c
      BY <1>3, <2>1, <2>2, <3>1
    <3>2. CASE d # c
      BY <1>3, <2>2, <3>2 DEF Ages, ReplyAge
    <3> QED
      BY <3>1, <3>2
  <2> QED
    BY <1>5, <2>2 DEF ReplyAge, Missed
<1> QED
  BY <1>4, <1>6, <1>7, <1>8 DEF Ages

LEMMA AgesOfFlight ==
    ASSUME StoreConstants, Typed, Ages, NEW f \in Flights,
           FlightReads(f) \/ FlightFindsNothing(f) \/ FlightLands(f) \/ FlightLandsEmpty(f)
    PROVE  Ages'
<1>0. UNCHANGED <<table, proj>> /\ UNCHANGED <<stored, since, failed>> /\ Gen' = Gen
  BY DEF FlightReads, FlightFindsNothing, FlightLands, FlightLandsEmpty, Lands, table, proj, Gen
<1>1. CASE FlightReads(f) \/ FlightFindsNothing(f)
  <2>1. /\ UNCHANGED <<cache, client>>
        /\ flight'[f].value \in {NoGen, Inferred} \/ flight'[f].value = Latest(f[2])
        /\ \A h \in Flights \ {f} : flight'[h] = flight[h]
    BY <1>1, FlightChanges
  <2>2. RowsAge' /\ ProjectionAge' /\ RefreshedAge'
    BY <1>0, <2>1, AgesAway
  <2>3. CacheAge' /\ ReplyAge'
    BY <1>0, <2>1 DEF Ages, CacheAge, ReplyAge, Missed
  <2>4. ASSUME NEW g \in 1..Gen, flight'[f].value # NoGen, g > flight'[f].value
        PROVE  f[2] \notin stored[g]
    <3>1. CASE flight'[f].value = Inferred
      BY <2>4, <3>1, Bounds DEF Inferred
    <3>2. CASE flight'[f].value = Latest(f[2])
      <4>1. /\ Latest(f[2]) \in 0..Gen
            /\ \A h \in 1..Gen : f[2] \in stored[h] => h <= Latest(f[2])
        BY LatestIsNewest, TypesNamed DEF Typed
      <4> QED
        BY <2>4, <3>2, <4>1, Bounds
    <3> QED
      BY <2>1, <2>4, <3>1, <3>2
  <2>5. FlightAge'
    BY <1>0, <2>1, <2>4 DEF Ages, FlightAge, Missed
  <2> QED
    BY <2>2, <2>3, <2>5 DEF Ages
<1>2. CASE FlightLands(f) \/ FlightLandsEmpty(f)
  <2>1. PICK pc \in {"infer", "replied"} :
             /\ pc = "infer" => flight[f].value = NoGen
             /\ \A c \in Passengers(f) : /\ client'[c].pc = pc
                                         /\ client'[c].key = f[2]
                                         /\ client'[c].reply = flight[f].value
             /\ \A c \in Clients \ Passengers(f) : client'[c] = client[c]
             /\ flight[f].state = "ended" /\ flight'[f].state = "none"
             /\ \A h \in Flights \ {f} : flight'[h] = flight[h]
    BY ZenonT(30), <1>2, Landing
  <2>2. flight[f].value # NoGen => Missed(f[2], flight[f].value, 0)
    BY <2>1 DEF Ages, FlightAge
  <2>3. RowsAge' /\ ProjectionAge' /\ RefreshedAge'
    <3>1. \A c \in Clients : client'[c].pc = "refresh" => client[c].pc = "refresh"
      BY <2>1
    <3> QED
      BY <1>0, <3>1, AgesAway
  <2>4. FlightAge'
    BY <1>0, <2>1 DEF Ages, FlightAge, Missed
  <2>5. CacheAge'
    <3>1. \/ UNCHANGED cache
          \/ /\ flight[f].value # NoGen
             /\ cache' = [cache EXCEPT ![f] = [value |-> flight[f].value, age |-> 0]]
      BY <1>2 DEF FlightLands, FlightLandsEmpty
    <3>2. cache \in [Flights -> CacheType]
      BY TypesNamed DEF Typed
    <3>3. CASE UNCHANGED cache
      BY <1>0, <3>3 DEF Ages, CacheAge, Missed
    <3>4. CASE ~UNCHANGED cache
      <4>1. cache'[f].value = flight[f].value /\ cache'[f].age = 0
        BY <3>1, <3>2, <3>4
      <4>2. \A h \in Flights \ {f} : cache'[h] = cache[h]
        BY <3>1, <3>2, <3>4
      <4>3. Missed(f[2], flight[f].value, 0)
        BY <2>2, <3>1, <3>4
      <4> QED
        BY <1>0, <4>1, <4>2, <4>3 DEF Ages, CacheAge, Missed
    <3> QED
      BY <3>3, <3>4
  <2>6. ReplyAge'
    <3>1. flight[f].value # NoGen => Missed(f[2], flight[f].value, Bound)
      <4>1. \A g \in 1..Gen : since[g] <= 0 => since[g] <= Bound
        BY Bounds
      <4> QED
        BY <2>2, <4>1 DEF Missed
    <3>2. ASSUME NEW d \in Clients,
                 client'[d].pc = "replied", client'[d].reply # NoGen, ~failed[d]
          PROVE  Missed(client'[d].key, client'[d].reply, Bound)
      <4>1. CASE d \in Passengers(f)
        BY <2>1, <3>1, <3>2, <4>1
      <4>2. CASE d \notin Passengers(f)
        BY <2>1, <3>2, <4>2 DEF Ages, ReplyAge
      <4> QED
        BY <4>1, <4>2
    <3> QED
      BY <1>0, <3>2 DEF ReplyAge, Missed
  <2> QED
    BY <2>3, <2>4, <2>5, <2>6 DEF Ages
<1> QED
  BY <1>1, <1>2

\* Whoever is cancelled has no reply.
LEMMA AgesOfDisconnect ==
    ASSUME StoreConstants, Typed, Ages, NEW c \in Clients, Disconnect(c)
    PROVE  Ages'
<1>0. /\ UNCHANGED <<table, proj, cache>> /\ UNCHANGED <<stored, since, failed>> /\ Gen' = Gen
      /\ client[c].pc \in Levels
  BY DEF Disconnect, table, proj, Gen
<1>1. PICK f \in Flights : f = <<client[c].pc, client[c].key>>
  BY <1>0 DEF Typed, RequestsAsk, Flights, Levels
<1>2. /\ \A d \in Clients : client'[d].pc = "cancelled" \/ client'[d] = client[d]
      /\ \A h \in Flights : flight'[h].state = "ended" => flight'[h] = flight[h]
  <2>1. CASE client[c].leads
    <3>1. /\ NoFlight(f)
          /\ client' = [d \in Clients |->
                IF d \in Passengers(f)
                THEN [client[d] EXCEPT !.pc = "cancelled", !.leads = FALSE] ELSE client[d]]
      BY <1>1, <2>1 DEF Disconnect
    <3>2. flight'[f].state = "none" /\ \A h \in Flights \ {f} : flight'[h] = flight[h]
      BY <3>1, FlightChanges
    <3>3. \A d \in Clients : client'[d].pc = "cancelled" \/ client'[d] = client[d]
      BY <3>1, LeaderCancelled
    <3> QED
      BY <3>2, <3>3
  <2>2. CASE ~client[c].leads
    <3>1. Goto(c, "cancelled") /\ UNCHANGED flight
      BY <2>2 DEF Disconnect
    <3>2. PICK r \in ClientType : r.pc = "cancelled" /\ client' = [client EXCEPT ![c] = r]
      BY <3>1, ClientChanges DEF Pcs
    <3>3. \A d \in Clients : client'[d] = IF d = c THEN r ELSE client[d]
      BY <3>2, TypesNamed DEF Typed
    <3> QED
      BY <3>1, <3>2, <3>3
  <2> QED
    BY <2>1, <2>2
<1>3. RowsAge' /\ ProjectionAge' /\ RefreshedAge'
  BY <1>0, <1>2, AgesAway
<1>4. CacheAge' /\ FlightAge'
  BY <1>0, <1>2 DEF Ages, CacheAge, FlightAge, Missed
<1>5. ReplyAge'
  BY <1>0, <1>2 DEF Ages, ReplyAge, Missed
<1> QED
  BY <1>3, <1>4, <1>5 DEF Ages

LEMMA AgesOfCycle ==
    ASSUME StoreConstants, Typed, ClockStarts, Ages,
           BeginInsert \/ InsertRow \/ PredictDone \/ Render \/ StationCycle \/ CycleEnds
    PROVE  Ages'
<1>0. Loop \notin Clients /\ refresher \in [Actors -> {"out", "lock", "query", "install"}]
      /\ failed \in [Actors -> BOOLEAN] /\ MaxGen \in Nat /\ Gen \in 0..MaxGen
  BY TypesNamed DEF Typed, StoreConstants
<1>1. CASE BeginInsert \/ InsertRow
  <2>1. /\ UNCHANGED <<since, projection, loaded, refresher, failed, rows, lag, cache, flight, client>>
        /\ Gen' \in 1..MaxGen /\ Gen <= Gen'
    BY <1>1, Insertion DEF proj, lookups
  <2>2. ASSUME NEW k, NEW v \in Nat, NEW n \in Nat, Missed(k, v, n) PROVE Missed(k, v, n)'
    BY <1>1, <2>2, InsertionMissesNothing
  <2>3. RowsAge'
    <3>1. \A g \in 1..MaxGen : g > Gen => since[g] = 0
      BY <1>0 DEF ClockStarts, Complete
    <3> QED
      BY <1>0, <2>1, <3>1, Bounds DEF Ages, RowsAge
  <2>4. ProjectionAge'
    <3>1. ASSUME loaded < Ttl, NEW k \in Keys, projection[k] # NoGen
          PROVE  Missed(k, projection[k], loaded + MaxLag)'
      <4>1. PICK v \in Nat : v = projection[k]
        BY Bounds
      <4>2. PICK n \in Nat : n = loaded + MaxLag
        BY Bounds
      <4>3. Missed(k, v, n)'
        BY <2>2, <3>1, <4>1, <4>2 DEF Ages, ProjectionAge
      <4> QED
        BY <2>1, <4>1, <4>2, <4>3 DEF Missed
    <3> QED
      BY <2>1, <3>1 DEF Ages, ProjectionAge
  <2>5. CacheAge'
    <3>1. ASSUME NEW f \in Flights, cache[f].age < Ttl
          PROVE  Missed(f[2], cache[f].value, cache[f].age)'
      <4>1. cache[f].value \in Nat /\ cache[f].age \in Nat
        BY TypesNamed DEF Typed, CacheType, Result
      <4>2. PICK v \in Nat : v = cache[f].value
        BY <4>1
      <4>3. PICK n \in Nat : n = cache[f].age
        BY <4>1
      <4>4. Missed(f[2], v, n)'
        BY <2>2, <3>1, <4>2, <4>3 DEF Ages, CacheAge
      <4> QED
        BY <2>1, <4>2, <4>3, <4>4 DEF Missed
    <3> QED
      BY <2>1, <3>1 DEF CacheAge
  <2>6. FlightAge'
    <3>1. ASSUME NEW f \in Flights, flight[f].state = "ended", flight[f].value # NoGen
          PROVE  Missed(f[2], flight[f].value, 0)'
      <4>1. flight[f].value \in Nat
        BY TypesNamed DEF Typed, FlightType, Result
      <4>2. PICK v \in Nat : v = flight[f].value
        BY <4>1
      <4>3. Missed(f[2], v, 0)'
        BY <2>2, <3>1, <4>2 DEF Ages, FlightAge
      <4> QED
        BY <2>1, <4>2, <4>3 DEF Missed
    <3> QED
      BY <2>1, <3>1 DEF FlightAge
  <2>7. RefreshedAge'
    <3>1. ASSUME NEW c \in Clients, client[c].pc = "refresh", refresher[c] = "out", ~failed[c],
                 NEW k \in Keys, projection[k] # NoGen
          PROVE  Missed(k, projection[k], Bound)'
      <4>1. PICK v \in Nat : v = projection[k]
        BY Bounds
      <4>2. Missed(k, v, Bound)'
        BY <2>2, <3>1, <4>1, Bounds DEF Ages, RefreshedAge
      <4> QED
        BY <2>1, <4>1, <4>2 DEF Missed
    <3> QED
      BY <2>1, <3>1 DEF RefreshedAge
  <2>8. ReplyAge'
    <3>1. ASSUME NEW c \in Clients, client[c].pc = "replied", client[c].reply # NoGen, ~failed[c]
          PROVE  Missed(client[c].key, client[c].reply, Bound)'
      <4>1. client[c].reply \in Nat
        BY TypesNamed DEF Typed, ClientType, Result
      <4>2. PICK v \in Nat : v = client[c].reply
        BY <4>1
      <4>3. PICK k : k = client[c].key
        OBVIOUS
      <4>4. Missed(k, v, Bound)'
        BY <2>2, <3>1, <4>2, <4>3, Bounds DEF Ages, ReplyAge
      <4> QED
        BY <2>1, <4>2, <4>3, <4>4 DEF Missed
    <3> QED
      BY <2>1, <3>1 DEF ReplyAge
  <2> QED
    BY <2>3, <2>4, <2>5, <2>6, <2>7, <2>8 DEF Ages
<1>2. CASE PredictDone \/ Render \/ StationCycle \/ CycleEnds
  <2>1. /\ UNCHANGED <<stored, since, projection, loaded, rows, lag, cache, flight, client>>
        /\ Gen' = Gen
    BY <1>2 DEF PredictDone, Render, StationCycle, CycleEnds, EnterRefresh, table, proj,
                lookups, Gen
  <2>2. \A a \in Actors : refresher'[a] = "install" => refresher[a] = "install"
    BY <1>0, <1>2 DEF PredictDone, Render, StationCycle, CycleEnds, EnterRefresh, proj
  <2>3. \A c \in Clients : refresher'[c] = refresher[c] /\ failed'[c] = failed[c]
    BY <1>0, <1>2 DEF PredictDone, Render, StationCycle, CycleEnds, EnterRefresh, proj, Actors
  <2>4. RowsAge'
    BY <2>1, <2>2 DEF Ages, RowsAge
  <2>5. ProjectionAge' /\ CacheAge' /\ FlightAge'
    BY <2>1 DEF Ages, ProjectionAge, CacheAge, FlightAge, Missed
  <2>6. RefreshedAge' /\ ReplyAge'
    BY <2>1, <2>3 DEF Ages, RefreshedAge, ReplyAge, Missed
  <2> QED
    BY <2>4, <2>5, <2>6 DEF Ages
<1> QED
  BY <1>1, <1>2

\* Time passes only when nobody has a reply, or an answer to hand on.
LEMMA AgesOfTick ==
    ASSUME StoreConstants, Typed, Ages, Tick
    PROVE  Ages'
<1>0. /\ UNCHANGED <<stored, projection, refresher, failed, rows, flight, client, cycle>>
      /\ Gen' = Gen
  BY TimePasses DEF Gen
<1>1. ~Runnable
  BY DEF Tick
<1>2. FlightAge' /\ RefreshedAge' /\ ReplyAge'
  BY <1>0, <1>1 DEF Runnable, FlightAge, RefreshedAge, ReplyAge
<1>3. RowsAge'
  <2>1. ASSUME NEW a \in Actors, refresher[a] = "install", NEW g \in 1..Gen, g > rows.gen
        PROVE  since'[g] <= lag'
    <3>1. since[g] <= lag /\ lag' = lag + 1
      BY <2>1, TimePasses DEF Ages, RowsAge
    <3>2. g \in 1..MaxGen
      BY Bounds
    <3>3. since'[g] <= since[g] + 1 /\ since'[g] \in 0..(Ttl + MaxLag)
      BY <3>2, TimePasses
    <3> QED
      BY <3>1, <3>3, Bounds
  <2> QED
    BY <1>0, <2>1 DEF Ages, RowsAge
<1>4. ProjectionAge'
  <2>1. /\ loaded' \in 0..Never /\ (loaded' = Never <=> loaded = Never)
        /\ loaded' < Ttl => loaded' = loaded + 1
    BY TimePasses
  <2>2. ASSUME loaded' < Ttl, NEW k \in Keys, projection[k] # NoGen
        PROVE  Missed(k, projection[k], loaded + MaxLag)'
    <3>1. PICK v \in Nat : v = projection[k]
      BY Bounds
    <3>2. PICK n \in Nat : n = loaded + MaxLag
      BY Bounds
    <3>3. loaded < Ttl
      BY <2>1, <2>2, Bounds
    <3>4. Missed(k, v, n)
      BY <2>2, <3>1, <3>2, <3>3 DEF Ages, ProjectionAge
    <3>5. Missed(k, v, n + 1)'
      BY <3>4, TickMisses
    <3>6. n + 1 = loaded' + MaxLag
      BY <2>1, <2>2, <3>2, Bounds
    <3> QED
      BY <1>0, <3>1, <3>5, <3>6 DEF Missed
  <2> QED
    BY <1>0, <2>1, <2>2 DEF Ages, ProjectionAge
<1>5. CacheAge'
  <2>1. ASSUME NEW f \in Flights, cache'[f].age < Ttl
        PROVE  \A g \in 1..Gen' : (g > cache'[f].value /\ f[2] \in stored'[g])
                                      => since'[g] <= cache'[f].age
    <3>1. /\ cache'[f].value = cache[f].value /\ cache'[f].age = cache[f].age + 1
          /\ cache[f].value \in Nat /\ cache[f].age \in 0..Ttl
      BY <2>1, TimePasses, TypesNamed DEF Typed, CacheType, Result
    <3>2. PICK v \in Nat : v = cache[f].value
      BY <3>1
    <3>3. PICK n \in Nat : n = cache[f].age
      BY <3>1
    <3>4. Missed(f[2], v, n)
      BY <2>1, <3>1, <3>2, <3>3, Bounds DEF Ages, CacheAge
    <3>5. Missed(f[2], v, n + 1)'
      BY <3>4, TickMisses
    <3> QED
      BY <3>1, <3>2, <3>3, <3>5 DEF Missed
  <2> QED
    BY <2>1 DEF CacheAge, Missed
<1> QED
  BY <1>2, <1>3, <1>4, <1>5 DEF Ages

LEMMA AgesStep ==
    ASSUME StoreConstants, Typed, OneLoads, ClockStarts, Ages, [Next]_vars
    PROVE  Ages'
<1>1. ASSUME NEW c \in Clients, NEW k \in Keys, Request(c, k) PROVE Ages'
  BY <1>1, AgesOfRequest
<1>2. CASE Serving
  BY <1>2, AgesOfRequest, AgesOfAsk DEF Serving
<1>3. CASE Refreshing
  BY <1>3, AgesOfRefresh DEF Refreshing
<1>4. CASE Flying
  BY <1>4, AgesOfFlight DEF Flying
<1>5. ASSUME NEW c \in Clients, Disconnect(c) \/ DisconnectRefresh(c) PROVE Ages'
  BY <1>5, AgesOfDisconnect, AgesOfRequest
<1>6. CASE BeginInsert \/ InsertRow \/ PredictDone \/ Render \/ StationCycle \/ CycleEnds
  BY <1>6, AgesOfCycle
<1>7. CASE Tick
  BY <1>7, AgesOfTick
<1>8. CASE UNCHANGED vars
  BY <1>8 DEF vars, table, proj, lookups, Gen, Ages, RowsAge, ProjectionAge, CacheAge, FlightAge,
              RefreshedAge, ReplyAge, Missed
<1> QED
  BY <1>1, <1>2, <1>3, <1>4, <1>5, <1>6, <1>7, <1>8 DEF Next
-----------------------------------------------------------------------------
(* The forced load of a cycle.                                             *)

LEMMA ForcedStep ==
    ASSUME StoreConstants, Typed, OneLoads, Ages, ForcedLoad, [Next]_vars
    PROVE  ForcedLoad'
<1>0. /\ Loop \notin Clients /\ Loop \in Actors
      /\ refresher \in [Actors -> {"out", "lock", "query", "install"}]
      /\ failed \in [Actors -> BOOLEAN]
  BY TypesNamed DEF Typed, StoreConstants, Actors
\* What keeps the projection, the rows and whoever loads them keeps it.
<1>1. ASSUME UNCHANGED <<stored, projection, cycle>>,
             refresher'[Loop] = refresher[Loop], failed'[Loop] = failed[Loop],
             \A a \in Actors : refresher'[a] = "install" =>
                                  refresher[a] = "install" /\ UNCHANGED rows
      PROVE  ForcedLoad'
  <2>1. Gen' = Gen /\ Batch' = Batch
    BY <1>1 DEF Gen, Batch
  <2> QED
    BY <1>0, <1>1, <2>1 DEF ForcedLoad
<1>2. ASSUME NEW c \in Clients, NEW k \in Keys, Request(c, k) PROVE ForcedLoad'
  <2>1. /\ UNCHANGED <<stored, projection, cycle, rows>>
        /\ c # Loop /\ c \in Actors
    BY <1>0, <1>2 DEF Request, EnterRefresh, table, Actors
  <2>2. /\ refresher'[Loop] = refresher[Loop] /\ failed'[Loop] = failed[Loop]
        /\ \A a \in Actors : refresher'[a] = "install" => refresher[a] = "install"
    BY <1>0, <1>2, <2>1 DEF Request, EnterRefresh
  <2> QED
    BY <1>1, <2>1, <2>2
<1>3. CASE Serving
  <2>1. PICK c \in Clients : Lookup(c) \/ AskStored(c) \/ AskOndemand(c) \/ Return(c)
    BY <1>3 DEF Serving
  <2>2. /\ UNCHANGED <<stored, projection, cycle, rows, refresher>>
        /\ failed'[Loop] = failed[Loop]
    BY <1>0, <2>1 DEF Lookup, AskStored, AskOndemand, Return, table, proj
  <2> QED
    BY <1>1, <2>2
<1>4. CASE Flying \/ Tick
  <2>1. UNCHANGED <<stored, projection, cycle, rows, refresher, failed>>
    BY <1>4 DEF Flying, FlightReads, FlightFindsNothing, FlightLands, FlightLandsEmpty, Lands,
                Tick, table, proj
  <2> QED
    BY <1>1, <2>1
<1>5. ASSUME NEW c \in Clients, Disconnect(c) \/ DisconnectRefresh(c) PROVE ForcedLoad'
  <2>1. c # Loop /\ c \in Actors /\ UNCHANGED <<stored, projection, cycle, failed>>
    BY <1>0, <1>5 DEF Disconnect, DisconnectRefresh, table, proj, Actors
  <2>2. CASE Disconnect(c)
    BY <1>1, <2>1, <2>2 DEF Disconnect, proj
  <2>3. CASE DisconnectRefresh(c)
    <3>1. \A a \in Actors : refresher'[a] = IF a = c THEN "out" ELSE refresher[a]
      BY <1>0, <2>3 DEF DisconnectRefresh
    <3>2. \A a \in Actors : refresher'[a] = "install" => refresher[a] = "install" /\ UNCHANGED rows
      BY <2>1, <2>3, <3>1 DEF DisconnectRefresh, OneLoads
    <3> QED
      BY <1>0, <1>1, <2>1, <3>1, <3>2
  <2> QED
    BY <1>5, <2>2, <2>3
<1>6. CASE BeginInsert \/ InsertRow \/ PredictDone \/ StationCycle \/ CycleEnds
  <2>1. cycle' # "force"
    BY <1>6 DEF BeginInsert, InsertRow, PredictDone, StationCycle, CycleEnds
  <2> QED
    BY <2>1 DEF ForcedLoad
<1>7. CASE Render
  <2>1. refresher'[Loop] = "lock"
    BY <1>0, <1>7 DEF Render, EnterRefresh
  <2> QED
    BY <2>1 DEF ForcedLoad
<1>8. ASSUME NEW a \in Actors, TakeLock(a) PROVE ForcedLoad'
  <2>1. /\ UNCHANGED <<stored, projection, cycle, rows, failed>>
        /\ \A b \in Actors : refresher'[b] = IF b = a
                                THEN IF ~Forced(a) /\ Fresh THEN "out" ELSE "query"
                                ELSE refresher[b]
    BY <1>0, <1>8 DEF TakeLock, table
  <2>2. CASE a = Loop /\ cycle = "force"
    <3>1. refresher'[Loop] = "query"
      BY <1>0, <2>1, <2>2 DEF Forced
    <3> QED
      BY <3>1 DEF ForcedLoad
  <2>3. CASE cycle # "force"
    BY <2>1, <2>3 DEF ForcedLoad
  <2>4. CASE a # Loop
    BY <1>0, <1>1, <2>1, <2>4
  <2> QED
    BY <2>2, <2>3, <2>4
<1>9. ASSUME NEW a \in Actors, ReadRows(a) PROVE ForcedLoad'
  <2>1. /\ UNCHANGED <<stored, projection, cycle, failed>> /\ rows' = Batch
        /\ Gen' = Gen /\ Batch' = Batch
        /\ \A b \in Actors : refresher'[b] = IF b = a THEN "install" ELSE refresher[b]
    BY <1>0, <1>9 DEF ReadRows, table, Gen, Batch
  <2> QED
    BY <1>0, <2>1 DEF ForcedLoad
<1>10. ASSUME NEW a \in Actors, LoadFails(a) PROVE ForcedLoad'
  <2>1. /\ UNCHANGED <<stored, projection, cycle, rows>>
        /\ \A b \in Actors : /\ refresher'[b] = IF b = a THEN "out" ELSE refresher[b]
                             /\ failed'[b] = IF b = a THEN TRUE ELSE failed[b]
    BY <1>0, <1>10 DEF LoadFails, table
  <2>2. CASE a = Loop
    BY <1>0, <2>1, <2>2 DEF ForcedLoad
  <2>3. CASE a # Loop
    BY <1>0, <1>1, <2>1, <2>3
  <2> QED
    BY <2>2, <2>3
<1>11. ASSUME NEW a \in Actors, Install(a) PROVE ForcedLoad'
  <2>1. /\ \A b \in Actors : refresher'[b] = IF b = a THEN "out" ELSE refresher[b]
        /\ UNCHANGED <<stored, failed, cycle>>
        /\ rows.gen # NoGen => projection' = Projected(rows)
    BY <1>11, Installed DEF Ages, table
  <2>2. Gen' = Gen /\ Batch' = Batch
    BY <2>1 DEF Gen, Batch
  <2>3. \A b \in Actors : refresher'[b] # "install"
    BY <1>11, <2>1 DEF Install, OneLoads
  <2>4. (cycle = "force" /\ refresher'[Loop] = "out" /\ ~failed[Loop]) => rows = Batch
    BY <1>0, <1>11, <2>1 DEF ForcedLoad, Install
  <2>5. Batch.gen = Gen
    BY BatchIsOfOne, TypesNamed DEF Typed
  <2>6. (cycle = "force" /\ refresher'[Loop] = "out" /\ ~failed[Loop] /\ Gen # NoGen)
            => projection' = Projected(Batch)'
    BY <2>1, <2>2, <2>4, <2>5 DEF Projected
  <2> QED
    BY <1>0, <2>1, <2>2, <2>3, <2>6 DEF ForcedLoad
<1>12. CASE UNCHANGED vars
  BY <1>1, <1>12 DEF vars, table, proj
<1> QED
  BY <1>2, <1>3, <1>4, <1>5, <1>6, <1>7, <1>8, <1>9, <1>10, <1>11, <1>12 DEF Next, Refreshing
-----------------------------------------------------------------------------
(* The theorems.                                                           *)

LEMMA StoreInit ==
    ASSUME StoreConstants, Init
    PROVE  StoreInv
<1>0. /\ Ttl \in Nat /\ Ttl > 0 /\ MaxLag \in Nat /\ MaxGen \in Nat
  BY DEF StoreConstants
<1>1. Gen = 0
  BY DEF Init, Gen
<1>2. TypeOK
  <2>1. stored \in Seq(SUBSET Operational) /\ Gen \in 0..MaxGen
    BY <1>0, <1>1 DEF Init
  <2>2. /\ since \in [1..MaxGen -> 0..(Ttl + MaxLag)]
        /\ projection \in [Keys -> 0..MaxGen] /\ loaded \in 0..Never
        /\ rows \in Batches /\ lag \in 0..MaxLag
    BY <1>0, NoRowsType DEF Init, NoGen, Never
  <2>3. /\ refresher \in [Actors -> {"out", "lock", "query", "install"}]
        /\ failed \in [Actors -> BOOLEAN]
        /\ cycle \in {"predict", "insert", "project", "artifacts", "force"}
    BY DEF Init
  <2>4. /\ cache \in [Flights -> CacheType] /\ flight \in [Flights -> FlightType]
        /\ client \in [Clients -> ClientType]
    BY ConstantTypes DEF Init
  <2> QED
    BY <2>1, <2>2, <2>3, <2>4, TypesNamed
<1>3. TableKnows /\ RequestsAsk
  BY <1>1 DEF Init, TableKnows, RequestsAsk, Idle
<1>4. OneLoads /\ ForcedLoad /\ ClockStarts
  BY DEF Init, OneLoads, ForcedLoad, ClockStarts
<1>5. FlightsLed
  <2>1. \A c \in Clients : ~client[c].leads /\ client[c].pc = "idle"
    BY DEF Init, Idle
  <2>2. \A f \in Flights : flight[f].state = "none" /\ Passengers(f) = {}
    BY <2>1 DEF Init, Passengers, Flights, Levels
  <2> QED
    BY <2>1, <2>2 DEF FlightsLed
<1>6. Ages
  <2>1. RowsAge /\ RefreshedAge /\ ReplyAge
    BY DEF Init, RowsAge, RefreshedAge, ReplyAge, Idle
  <2>2. ProjectionAge
    BY DEF Init, ProjectionAge
  <2>3. CacheAge
    BY <1>0 DEF Init, CacheAge, Expired
  <2>4. FlightAge
    BY DEF Init, FlightAge
  <2> QED
    BY <2>1, <2>2, <2>3, <2>4 DEF Ages
<1> QED
  BY <1>2, <1>3, <1>4, <1>5, <1>6 DEF StoreInv, Typed

LEMMA StoreStep ==
    ASSUME StoreConstants, StoreInv, [Next]_vars
    PROVE  StoreInv'
<1>1. Typed' /\ OneLoads'
  BY TypeStep, OneLoadsStep DEF StoreInv
<1>2. FlightsLed'
  BY FlightStep DEF StoreInv, Coalescent
<1>3. ClockStarts' /\ Ages' /\ ForcedLoad'
  BY ClockStep, AgesStep, ForcedStep DEF StoreInv
<1> QED
  BY <1>1, <1>2, <1>3 DEF StoreInv

\* The inductive invariant: at most one actor loads the projection under
\* _refresh_lock, every flight in _inflight has a leader who waits for it, and
\* whatever holds a prediction (the rows a thread has read, _projection, the two
\* caches, a future, a reply) misses only what was stored while it held it.
THEOREM StoreInvariant == Spec => []StoreInv
<1>1. Init => StoreInv
  BY StoreInit, StoreConstants
<1>2. StoreInv /\ [Next]_vars => StoreInv'
  BY StoreStep, StoreConstants
<1> QED
  BY <1>1, <1>2, PTL DEF Spec, SafetySpec

\* The type invariant of the store and its requests: no sequence of loads,
\* lookups, inferences, cancellations and cycles leaves the values
\* refresh_projection(), get_pred(), get_ondemand() and SingleFlight.run() expect.
THEOREM TypeCorrect == Spec => []TypeOK
<1>1. StoreInv => TypeOK
  BY DEF StoreInv, Typed
<1> QED
  BY <1>1, StoreInvariant, PTL

\* A reply of get_pred() is older than a stored prediction of its key only
\* within projection_ttl or prediction_ttl and the time a load takes, unless the
\* refresh of this very request failed.
THEOREM RepliesAreFresh == Spec => []StaleOnlyAfterFailure
<1>1. StoreInv => StaleOnlyAfterFailure
  <2> SUFFICES ASSUME StoreInv PROVE StaleOnlyAfterFailure
    OBVIOUS
  <2>1. StoreConstants /\ Typed /\ ReplyAge
    BY StoreConstants DEF StoreInv, Ages
  <2>2. ASSUME NEW c \in Clients, client[c].pc = "replied", client[c].reply \in 1..Gen, ~failed[c],
               NEW g \in 1..Gen, g > client[c].reply, client[c].key \in stored[g]
        PROVE  since[g] < Ttl + MaxLag
    <3>1. client[c].reply # NoGen
      BY <2>1, <2>2, Bounds
    <3>2. since[g] <= Bound
      BY <2>1, <2>2, <3>1 DEF ReplyAge, Missed
    <3> QED
      BY <2>1, <3>2, Bounds DEF Bound
  <2> QED
    BY <2>2 DEF StaleOnlyAfterFailure
<1> QED
  BY <1>1, StoreInvariant, PTL

\* run_full_cycle() ends with refresh_projection(force=True): a cycle leaves the
\* newest batch in the projection, whatever the requests load meanwhile.
THEOREM ForcedLoadInstallsNewest == Spec => []CycleLeavesNewest
<1>1. StoreInv => CycleLeavesNewest
  BY DEF StoreInv, ForcedLoad, CycleLeavesNewest
<1> QED
  BY <1>1, StoreInvariant, PTL

\* The second look at _projection_fresh() under the lock: whoever has waited for
\* the lock while another refresh succeeded loads nothing.
THEOREM OneLoadOfABurst == Spec => OneLoadPerBurst
<1>1. ASSUME StoreInv, [Next]_vars, NEW a \in Actors,
             refresher[a] = "lock", refresher'[a] = "query", ~Forced(a)
      PROVE  loaded >= Ttl
  <2>1. TakeLock(a)
    <3>0. refresher \in [Actors -> {"out", "lock", "query", "install"}]
      BY <1>1, TypesNamed DEF StoreInv, Typed
    <3>1. ASSUME NEW b \in Actors, TakeLock(b) PROVE TakeLock(a)
      <4>1. refresher'[a] = refresher[a] \/ a = b
        BY <3>0, <3>1 DEF TakeLock
      <4> QED
        BY <1>1, <3>1, <4>1
    <3> QED
      BY <1>1, <3>1, LoadBegins, StoreConstants DEF StoreInv
  <2>2. ~Fresh
    BY <1>1, <2>1, TypesNamed DEF TakeLock, StoreInv, Typed
  <2>3. loaded \in Nat /\ Ttl \in Nat
    BY <1>1, Bounds, StoreConstants DEF StoreInv
  <2> QED
    BY <2>2, <2>3 DEF Fresh
<1>2. StoreInv /\ [Next]_vars => [\A a \in Actors :
            (refresher[a] = "lock" /\ refresher'[a] = "query" /\ ~Forced(a)) => loaded >= Ttl]_vars
  BY <1>1
<1> QED
  BY <1>2, StoreInvariant, PTL DEF OneLoadPerBurst, Spec, SafetySpec

\* SingleFlight.run() with its callers keeps what the class promises (Coalescing):
\* a caller joins a work that is in flight or starts it, one that is cancelled
\* leaves it to the others, and its end is the end for everyone who waits.
THEOREM StoreCoalesces == Spec => Coalesces
<1>1. Init => Flight!Init
  <2>1. SUFFICES ASSUME Init PROVE Flight!Init
    OBVIOUS
  <2>2. \A f \in Flights : flight[f].state = "none" /\ Passengers(f) = {}
    BY <2>1 DEF Init, Idle, Passengers, Flights, Levels
  <2> QED
    BY <2>2 DEF Flight!Init
<1>2. StoreInv /\ [Next]_vars => [Flight!Next]_(Flight!vars)
  BY FlightStep, StoreConstants DEF StoreInv, Coalescent
<1> QED
  BY <1>1, <1>2, StoreInvariant, PTL DEF Spec, SafetySpec, Coalesces, Flight!Spec
=============================================================================
