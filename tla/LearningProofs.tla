--------------------------- MODULE LearningProofs ---------------------------
(***************************************************************************)
(* What holds of what a model is shown and how it is judged, for any       *)
(* windows, sources, points and bounds.  Features: no row of observations  *)
(* from after the issue of its reference forecast is among a sample's      *)
(* features, none of them is the target of a sample whose lead exceeds the *)
(* lookback, late rows of a lesser tier change no target, and the memo     *)
(* answers as the query would, however late the sample is built and        *)
(* whatever the collectors write meanwhile.                                *)
(* Evaluation: nothing that could be judged is left out, the training rows *)
(* of a path or a split are kept apart from the tested ones, and a band    *)
(* covers its share.                                                       *)
(***************************************************************************)
EXTENDS MCLearning, FiniteSetTheorems, WellFoundedInduction, TLAPS

\* One row of each model.
OnePerModel(found) == \A r, q \in found : r.model = q.model => r = q

\* Stored rows are rows.
StoreTyped ==
    /\ clock \in Int
    /\ forecasts \subseteq ForecastRows
    /\ observations \subseteq ObservationRows

\* What a cache answers is one stored row of each model.
MemoKnows == \A k \in DOMAIN memo : memo[k] \subseteq ForecastRows /\ OnePerModel(memo[k])

\* Readings remembered for a time lie within the lookback of that time.
InLookback(o, t) == o.at \in Int /\ t - Lookback <= o.at /\ o.at <= t
ObsMemoKnows == \A t \in DOMAIN obsMemo : \A o \in obsMemo[t] : InLookback(o, t)

\* A sample has one reference row, and a target from the lookback of its hour.
SampleKnows ==
    /\ sample = [valid |-> sample.valid, shared |-> sample.shared, ref |-> sample.ref,
                 lags |-> sample.lags, history |-> sample.history, aux |-> sample.aux,
                 normals |-> sample.normals, obs |-> sample.obs, target |-> sample.target]
    /\ sample.ref \subseteq ForecastRows /\ OnePerModel(sample.ref)
    /\ \A r \in sample.ref : r.model = RefModel
    /\ \A o \in sample.target : InLookback(o, sample.valid)
    /\ sample.valid \in Int

\* The reference row is chosen before anything is observed.
RefComesFirst == step = "base" => sample.obs = {}

IssueInv ==
    /\ StoreTyped /\ MemoKnows /\ ObsMemoKnows /\ SampleKnows
    /\ RefComesFirst /\ NoObsAfterIssue

-----------------------------------------------------------------------------
\* Both tie-breaks leave one row of each model of the rows they choose from.
LEMMA ExtremesAreUnique ==
    ASSUME NEW S \in SUBSET ForecastRows, NEW p, \A r \in S : r.point = p
    PROVE  OnePerModel(FirstOf(LatestRun(S))) /\ OnePerModel(LastOf(LatestRun(S)))
<1>1. ASSUME NEW r \in LatestRun(S), NEW q \in LatestRun(S),
             r.model = q.model, r.valid = q.valid
      PROVE  r = q
  <2>1. r \in ForecastRows /\ q \in ForecastRows /\ r.point = q.point
    BY <1>1 DEF LatestRun
  <2>2. r.run = q.run
    BY <1>1, <2>1 DEF LatestRun, ForecastRows
  <2> QED
    BY <1>1, <2>1, <2>2 DEF ForecastRows
<1>2. \A r, q \in FirstOf(LatestRun(S)) : r.model = q.model => r.valid = q.valid
  BY DEF FirstOf, LatestRun, ForecastRows
<1>3. \A r, q \in LastOf(LatestRun(S)) : r.model = q.model => r.valid = q.valid
  BY DEF LastOf, LatestRun, ForecastRows
<1>4. OnePerModel(FirstOf(LatestRun(S)))
  BY <1>1, <1>2 DEF OnePerModel, FirstOf
<1>5. OnePerModel(LastOf(LatestRun(S)))
  BY <1>1, <1>3 DEF OnePerModel, LastOf
<1> QED
  BY <1>4, <1>5

\* A query and the bulk read both answer with one stored row of each model.
LEMMA AnswersKnow ==
    ASSUME StoreTyped, NEW p, NEW t, NEW w, NEW tie
    PROVE  /\ FetchAt(p, t, w, tie) \subseteq ForecastRows
           /\ OnePerModel(FetchAt(p, t, w, tie))
           /\ Select(Eligible(p, t, w)) \subseteq ForecastRows
           /\ OnePerModel(Select(Eligible(p, t, w)))
<1> DEFINE S == Eligible(p, t, w)
<1>1. S \in SUBSET ForecastRows /\ \A r \in S : r.point = p
  BY DEF StoreTyped, Eligible
<1>2. OnePerModel(FirstOf(LatestRun(S))) /\ OnePerModel(LastOf(LatestRun(S)))
  BY <1>1, ExtremesAreUnique
<1>3. FirstOf(LatestRun(S)) \subseteq ForecastRows /\ LastOf(LatestRun(S)) \subseteq ForecastRows
  BY <1>1 DEF FirstOf, LastOf, LatestRun
<1> QED
  BY <1>2, <1>3 DEF FetchAt, Select

\* Remembering answers keeps what is known of a cache.
LEMMA RememberKnows ==
    ASSUME StoreTyped, NEW cache, NEW keys, NEW tie,
           \A k \in DOMAIN cache : cache[k] \subseteq ForecastRows /\ OnePerModel(cache[k])
    PROVE  \A k \in DOMAIN Remember(cache, keys, tie) :
               /\ Remember(cache, keys, tie)[k] \subseteq ForecastRows
               /\ OnePerModel(Remember(cache, keys, tie)[k])
<1> SUFFICES ASSUME NEW k \in keys \cup DOMAIN cache
             PROVE  /\ Remember(cache, keys, tie)[k] \subseteq ForecastRows
                    /\ OnePerModel(Remember(cache, keys, tie)[k])
  BY DEF Remember
<1>1. CASE k \in DOMAIN cache
  <2>1. Remember(cache, keys, tie)[k] = cache[k]
    BY <1>1 DEF Remember
  <2> QED
    BY <1>1, <2>1
<1>2. CASE k \notin DOMAIN cache
  <2>1. Remember(cache, keys, tie)[k] = FetchAt(k[1], k[2], k[3], tie)
    BY <1>2 DEF Remember
  <2> QED
    BY <2>1, AnswersKnow
<1> QED
  BY <1>1, <1>2

LEMMA PrefetchKnows ==
    ASSUME StoreTyped, NEW v, NEW cache,
           \A k \in DOMAIN cache : cache[k] \subseteq ForecastRows /\ OnePerModel(cache[k])
    PROVE  \A k \in DOMAIN Prefetched(v, cache) :
               /\ Prefetched(v, cache)[k] \subseteq ForecastRows
               /\ OnePerModel(Prefetched(v, cache)[k])
<1> SUFFICES ASSUME NEW k \in PrefetchKeys(v) \cup DOMAIN cache
             PROVE  /\ Prefetched(v, cache)[k] \subseteq ForecastRows
                    /\ OnePerModel(Prefetched(v, cache)[k])
  BY DEF Prefetched
<1>1. CASE k \in DOMAIN cache
  <2>1. Prefetched(v, cache)[k] = cache[k]
    BY <1>1 DEF Prefetched
  <2> QED
    BY <1>1, <2>1
<1>2. CASE k \notin DOMAIN cache
  <2>1. Prefetched(v, cache)[k] = Select(Eligible(k[1], k[2], k[3]))
    BY <1>2 DEF Prefetched
  <2> QED
    BY <2>1, AnswersKnow
<1> QED
  BY <1>1, <1>2

\* A look-up of readings, remembered or not, stays within the lookback.
LEMMA NearKnows ==
    ASSUME StoreTyped, ObsMemoKnows, NEW t
    PROVE  \A o \in Near(t) : InLookback(o, t)
<1>1. CASE t \in DOMAIN obsMemo
  BY <1>1 DEF Near, ObsMemoKnows
<1>2. CASE t \notin DOMAIN obsMemo
  BY <1>2 DEF Near, ObsBetween, InLookback, StoreTyped, ObservationRows
<1> QED
  BY <1>1, <1>2

-----------------------------------------------------------------------------
LEMMA InitIssueInv == ASSUME WindowsAssumption, Init PROVE IssueInv
<1>1. StoreTyped
  <2>1. Midnight(0) \in Int /\ Horizon \in Int
    BY DEF Midnight, WindowsAssumption
  <2>2. RunRows(Models, Points, 0) \subseteq ForecastRows
    BY <2>1 DEF RunRows, ForecastRows
  <2> QED
    BY <2>2 DEF Init, StoreTyped
<1>2. MemoKnows /\ ObsMemoKnows
  BY DEF Init, MemoKnows, ObsMemoKnows
<1>3. SampleKnows /\ RefComesFirst /\ NoObsAfterIssue
  BY DEF Init, NoSample, SampleKnows, OnePerModel, RefComesFirst, NoObsAfterIssue
<1> QED
  BY <1>1, <1>2, <1>3 DEF IssueInv

-----------------------------------------------------------------------------
(* The steps.                                                               *)

LEMMA CollectorsStore ==
    ASSUME WindowsAssumption, StoreTyped,
           \/ \E m \in Models, ps \in {Points, {Lake}} : Collect(m, ps)
           \/ \E m \in Models : Stitch(m)
           \/ \E s \in Sources, at \in 0..clock, wind \in BOOLEAN : Observe(s, at, wind)
           \/ \E hours \in SUBSET (0..clock) : DeepBackfill(hours)
           \/ Tick
    PROVE  StoreTyped' /\ UNCHANGED <<memo, obsMemo, step, sample>>
<1>1. ASSUME NEW m \in Models, NEW ps \in {Points, {Lake}}, Collect(m, ps)
      PROVE  StoreTyped' /\ UNCHANGED <<memo, obsMemo, step, sample>>
  <2>1. Midnight(clock) \in Int /\ Horizon \in Int
    BY DEF Midnight, StoreTyped, WindowsAssumption
  <2>2. RunRows({m}, ps, clock) \subseteq ForecastRows
    BY <1>1, <2>1 DEF RunRows, ForecastRows, Points
  <2> QED
    BY <1>1, <2>2 DEF Collect, Written, StoreTyped
<1>2. ASSUME NEW m \in Models, Stitch(m)
      PROVE  StoreTyped' /\ UNCHANGED <<memo, obsMemo, step, sample>>
  BY <1>2 DEF Stitch, Written, StoreTyped, ForecastRows, WindowsAssumption
<1>3. ASSUME NEW s \in Sources, NEW at \in 0..clock, NEW wind \in BOOLEAN,
             Observe(s, at, wind)
      PROVE  StoreTyped' /\ UNCHANGED <<memo, obsMemo, step, sample>>
  BY <1>3 DEF Observe, Written, StoreTyped, ObservationRows
<1>4. CASE Tick
  BY <1>4 DEF Tick, StoreTyped
<1>5. ASSUME NEW hours \in SUBSET (0..clock), DeepBackfill(hours)
      PROVE  StoreTyped' /\ UNCHANGED <<memo, obsMemo, step, sample>>
  BY <1>5 DEF DeepBackfill, Written, StoreTyped
<1> QED
  BY <1>1, <1>2, <1>3, <1>4, <1>5

LEMMA BeginKeeps ==
    ASSUME WindowsAssumption, IssueInv, NEW v \in Int, NEW shared \in BOOLEAN,
           NEW bulkOk \in BOOLEAN, Begin(v, shared, bulkOk)
    PROVE  IssueInv'
<1> DEFINE cache == IF shared THEN memo ELSE <<>>
<1>1. StoreTyped'
  BY DEF Begin, IssueInv, StoreTyped
<1>2. \A k \in DOMAIN cache : cache[k] \subseteq ForecastRows /\ OnePerModel(cache[k])
  BY DEF IssueInv, MemoKnows
<1>3. memo' = IF bulkOk THEN Prefetched(v, cache) ELSE cache
  BY DEF Begin
<1>4. MemoKnows'
  <2>1. CASE bulkOk
    <3>1. StoreTyped
      BY DEF IssueInv
    <3> HIDE DEF cache
    <3>2. \A k \in DOMAIN Prefetched(v, cache) :
               /\ Prefetched(v, cache)[k] \subseteq ForecastRows
               /\ OnePerModel(Prefetched(v, cache)[k])
      BY <1>2, <3>1, PrefetchKnows
    <3> QED
      BY <2>1, <1>3, <3>2 DEF MemoKnows
  <2>2. CASE ~bulkOk
    <3> HIDE DEF cache
    <3> QED
      BY <2>2, <1>2, <1>3 DEF MemoKnows
  <2> QED
    BY <2>1, <2>2
<1>5. ObsMemoKnows'
  BY DEF Begin, IssueInv, ObsMemoKnows
<1>6. SampleKnows' /\ RefComesFirst' /\ NoObsAfterIssue'
  BY DEF Begin, NoSample, SampleKnows, OnePerModel, RefComesFirst, NoObsAfterIssue
<1> QED
  BY <1>1, <1>4, <1>5, <1>6 DEF IssueInv

\* The one row of the reference model that the cache holds.
LEMMA BaseKeeps ==
    ASSUME IssueInv, NEW tie, Base(tie)
    PROVE  IssueInv'
<1> DEFINE key == <<Lake, sample.valid, BaseWindow>>
           cache == Remember(memo, {key}, tie)
           ref == OfModel(cache[key], RefModel)
<1>1. StoreTyped' /\ ObsMemoKnows'
  BY DEF Base, IssueInv, StoreTyped, ObsMemoKnows
<1>2. \A k \in DOMAIN cache : cache[k] \subseteq ForecastRows /\ OnePerModel(cache[k])
  BY RememberKnows DEF IssueInv, MemoKnows
<1>3. key \in DOMAIN cache /\ memo' = cache
  BY DEF Base, Remember
<1>4. MemoKnows'
  <2> HIDE DEF cache
  <2> QED
    BY <1>2, <1>3 DEF MemoKnows
<1>5. ref \subseteq ForecastRows /\ OnePerModel(ref) /\ \A r \in ref : r.model = RefModel
  <2>1. cache[key] \subseteq ForecastRows /\ OnePerModel(cache[key])
    BY <1>2, <1>3
  <2> HIDE DEF cache, key
  <2> QED
    BY <2>1 DEF OfModel, OnePerModel
<1>6. SampleKnows' /\ NoObsAfterIssue'
  <2>1. CASE ref = {}
    <3>1. sample' = NoSample
      BY <2>1 DEF Base
    <3> QED
      BY <3>1 DEF NoSample, SampleKnows, OnePerModel, NoObsAfterIssue
  <2>2. CASE ref # {}
    <3>1. sample' = [sample EXCEPT !.ref = ref]
      BY <2>2 DEF Base
    <3> HIDE DEF ref
    <3>2. /\ sample'.ref = ref /\ sample'.valid = sample.valid
          /\ sample'.obs = sample.obs /\ sample'.target = sample.target
      BY <3>1 DEF IssueInv, SampleKnows
    <3> QED
      BY <3>1, <3>2, <1>5 DEF Base, SampleKnows, IssueInv, RefComesFirst, NoObsAfterIssue
  <2> QED
    BY <2>1, <2>2
<1>7. RefComesFirst'
  BY DEF Base, RefComesFirst
<1> QED
  BY <1>1, <1>4, <1>6, <1>7 DEF IssueInv

-----------------------------------------------------------------------------
\* Whatever the features read back from lies at or before the issue.
LEMMA ReadingsPrecede ==
    ASSUME StoreTyped, ObsMemoKnows, NEW anchor,
           NEW o \in Near(anchor) \cup ObsLagRows(anchor) \cup BiasRows(anchor)
    PROVE  o.at <= anchor
<1>1. CASE o \in Near(anchor)
  BY <1>1, NearKnows DEF InLookback
<1>2. CASE o \in ObsLagRows(anchor)
  BY <1>2 DEF ObsLagRows, ObsBetween
<1>3. CASE o \in BiasRows(anchor)
  BY <1>3 DEF BiasRows, ObsBetween
<1> QED
  BY <1>1, <1>2, <1>3

\* The target is one of the readings within the lookback of the valid hour.
LEMMA TargetInLookback ==
    ASSUME StoreTyped, ObsMemoKnows, NEW ref, NEW v,
           NEW o \in SelectTarget(Candidates(ref, v), v)
    PROVE  InLookback(o, v)
BY NearKnows DEF SelectTarget, Usable, Candidates

LEMMA ReadObservationsKeeps ==
    ASSUME IssueInv, ReadObservations
    PROVE  IssueInv'
<1> DEFINE ref == CHOOSE r \in sample.ref : TRUE
           anchor == ObsAnchor(ref, sample.valid)
           read == Near(anchor) \cup ObsLagRows(anchor) \cup BiasRows(anchor)
           target == SelectTarget(Candidates(ref, sample.valid), sample.valid)
<1>1. StoreTyped' /\ MemoKnows'
  BY DEF ReadObservations, IssueInv, StoreTyped, MemoKnows
<1>2. StoreTyped /\ ObsMemoKnows
  BY DEF IssueInv
<1>3. ObsMemoKnows'
  BY <1>2, NearKnows DEF ReadObservations, ObsMemoKnows
<1>4. sample' = [sample EXCEPT !.obs = read, !.target = target] /\ step' = "pack"
  BY DEF ReadObservations
<1>5. /\ sample'.ref = sample.ref /\ sample'.valid = sample.valid
      /\ sample'.obs = read /\ sample'.target = target
  <2> HIDE DEF read, target
  <2> QED
    BY <1>4 DEF IssueInv, SampleKnows
<1>6. \A o \in target : InLookback(o, sample.valid)
  <2> HIDE DEF ref
  <2> QED
    BY <1>2, TargetInLookback
<1>7. \A r \in sample.ref : r = ref
  BY DEF IssueInv, SampleKnows, OnePerModel
<1>8. \A r \in sample.ref, o \in read : o.at <= r.run
  <2>1. \A o \in read : o.at <= anchor
    <3> HIDE DEF anchor
    <3> QED
      BY <1>2, ReadingsPrecede
  <2> QED
    BY <2>1, <1>7 DEF ObsAnchor
<1>9. SampleKnows'
  <2> HIDE DEF read, target
  <2> QED
    BY <1>4, <1>5, <1>6 DEF IssueInv, SampleKnows
<1>10. RefComesFirst' /\ NoObsAfterIssue'
  <2> HIDE DEF read, target
  <2> QED
    BY <1>4, <1>5, <1>8 DEF RefComesFirst, NoObsAfterIssue
<1> QED
  BY <1>1, <1>3, <1>9, <1>10 DEF IssueInv

LEMMA PackKeeps ==
    ASSUME IssueInv, NEW tie, Pack(tie)
    PROVE  IssueInv'
<1>1. StoreTyped' /\ ObsMemoKnows'
  BY DEF Pack, IssueInv, StoreTyped, ObsMemoKnows
<1>2. MemoKnows'
  <2> DEFINE keys == LagKeys(sample.valid) \cup HistoryKeys(sample.valid)
                         \cup AuxKeys(sample.valid)
  <2>1. memo' = Remember(memo, keys, tie)
    BY DEF Pack
  <2> HIDE DEF keys
  <2> QED
    BY <2>1, RememberKnows DEF IssueInv, MemoKnows
<1>3. \E lags, history, aux, normals :
        sample' = [sample EXCEPT !.lags = lags, !.history = history, !.aux = aux,
                                 !.normals = normals]
  BY DEF Pack
<1>4. SampleKnows' /\ NoObsAfterIssue'
  BY <1>3 DEF IssueInv, SampleKnows, NoObsAfterIssue
<1>5. RefComesFirst'
  BY DEF Pack, RefComesFirst
<1> QED
  BY <1>1, <1>2, <1>4, <1>5 DEF IssueInv

-----------------------------------------------------------------------------
LEMMA StepKeepsIssueInv ==
    ASSUME WindowsAssumption, IssueInv, [Next]_vars
    PROVE  IssueInv'
<1>1. CASE \/ \E m \in Models, ps \in {Points, {Lake}} : Collect(m, ps)
           \/ \E m \in Models : Stitch(m)
           \/ \E s \in Sources, at \in 0..clock, wind \in BOOLEAN : Observe(s, at, wind)
           \/ \E hours \in SUBSET (0..clock) : DeepBackfill(hours)
           \/ Tick
  <2>1. StoreTyped' /\ UNCHANGED <<memo, obsMemo, step, sample>>
    BY <1>1, CollectorsStore DEF IssueInv
  <2> QED
    BY <2>1 DEF IssueInv, MemoKnows, ObsMemoKnows, SampleKnows, RefComesFirst,
                      NoObsAfterIssue
<1>2. ASSUME NEW v \in 0..LastHour, NEW shared \in BOOLEAN, NEW bulkOk \in BOOLEAN,
             Begin(v, shared, bulkOk)
      PROVE  IssueInv'
  BY <1>2, BeginKeeps
<1>3. ASSUME NEW tie \in {"first", "last"}, Base(tie) \/ Pack(tie)
      PROVE  IssueInv'
  BY <1>3, BaseKeeps, PackKeeps
<1>4. CASE ReadObservations
  BY <1>4, ReadObservationsKeeps
<1>5. CASE UNCHANGED vars
  BY <1>5 DEF vars, IssueInv, StoreTyped, MemoKnows, ObsMemoKnows, SampleKnows,
              RefComesFirst, NoObsAfterIssue
<1> QED
  BY <1>1, <1>2, <1>3, <1>4, <1>5 DEF Next

\* No reading a sample takes from the table of observations was made after its
\* reference forecast was issued (the leakage fix of features/build.py), for
\* every set of points, models and sources, every window, and with collectors
\* writing between any two look-ups.  The normals of the reanalysis are not
\* such readings, and are not bounded by the issue (NormalsArePast).
THEOREM NoLeakage == ASSUME WindowsAssumption PROVE Spec => []NoObsAfterIssue
<1>1. Init => IssueInv
  BY InitIssueInv
<1>2. IssueInv /\ [Next]_vars => IssueInv'
  BY StepKeepsIssueInv
<1>3. IssueInv => NoObsAfterIssue
  BY DEF IssueInv
<1> QED
  BY <1>1, <1>2, <1>3, PTL DEF Spec

-----------------------------------------------------------------------------
(* The target of a sample, and what the memo answers.                       *)

\* What a cache holds was issued before the hour it speaks of.
MemoIssued == \A k \in DOMAIN memo : \A r \in memo[k] : r.run <= r.valid
RefIssued == \A r \in sample.ref : r.run <= r.valid

\* What a sample was read from is stored.
ReadingsStored ==
    /\ sample.obs \subseteq observations
    /\ \A t \in DOMAIN obsMemo : obsMemo[t] \subseteq observations
    /\ sample.target \subseteq {o \in observations : o.wind}
    /\ sample.normals \subseteq climate /\ climate \subseteq 0..LastHour

\* A training sample shares no memo of readings: it looks up its own.
OwnReadings == step \in {"base", "obs"} /\ ~sample.shared => DOMAIN obsMemo = {}

TargetInv ==
    /\ IssueInv /\ MemoIssued /\ RefIssued /\ ReadingsStored /\ OwnReadings
    /\ clock \in 0..LastHour /\ step \in {"idle", "base", "obs", "pack"}

LEMMA InitTargetInv == ASSUME WindowsAssumption, Init PROVE TargetInv
<1>1. IssueInv
  BY InitIssueInv
<1>2. MemoIssued /\ RefIssued /\ ReadingsStored /\ OwnReadings
  BY DEF Init, NoSample, MemoIssued, RefIssued, ReadingsStored, OwnReadings
<1>3. clock \in 0..LastHour /\ step \in {"idle", "base", "obs", "pack"}
  BY DEF Init, WindowsAssumption
<1> QED
  BY <1>1, <1>2, <1>3 DEF TargetInv

\* Every answer, of the memo, a query or the bulk read, comes from an eligible row.
LEMMA AnswersIssued ==
    ASSUME NEW cache, \A k \in DOMAIN cache : \A r \in cache[k] : r.run <= r.valid,
           NEW keys, NEW tie, NEW v
    PROVE  /\ \A k \in DOMAIN Remember(cache, keys, tie) :
                  \A r \in Remember(cache, keys, tie)[k] : r.run <= r.valid
           /\ \A k \in DOMAIN Prefetched(v, cache) :
                  \A r \in Prefetched(v, cache)[k] : r.run <= r.valid
<1>1. ASSUME NEW p, NEW t, NEW w, NEW r \in FetchAt(p, t, w, tie) \cup Select(Eligible(p, t, w))
      PROVE  r.run <= r.valid
  BY <1>1 DEF FetchAt, Select, FirstOf, LastOf, LatestRun, Eligible
<1>2. ASSUME NEW k \in DOMAIN Remember(cache, keys, tie), NEW r \in Remember(cache, keys, tie)[k]
      PROVE  r.run <= r.valid
  <2>1. r \in IF k \in DOMAIN cache THEN cache[k] ELSE FetchAt(k[1], k[2], k[3], tie)
    BY <1>2 DEF Remember
  <2> QED
    BY <1>1, <2>1
<1>3. ASSUME NEW k \in DOMAIN Prefetched(v, cache), NEW r \in Prefetched(v, cache)[k]
      PROVE  r.run <= r.valid
  <2>1. r \in IF k \in DOMAIN cache THEN cache[k] ELSE Select(Eligible(k[1], k[2], k[3]))
    BY <1>3 DEF Prefetched
  <2> QED
    BY <1>1, <2>1
<1> QED
  BY <1>2, <1>3

LEMMA BeginKeepsTarget ==
    ASSUME WindowsAssumption, TargetInv, NEW v \in Int, NEW shared \in BOOLEAN,
           NEW bulkOk \in BOOLEAN, Begin(v, shared, bulkOk)
    PROVE  TargetInv'
<1> DEFINE cache == IF shared THEN memo ELSE <<>>
<1>1. IssueInv'
  BY BeginKeeps DEF TargetInv
<1>2. MemoIssued'
  <2>1. \A k \in DOMAIN cache : \A r \in cache[k] : r.run <= r.valid
    BY DEF TargetInv, MemoIssued
  <2>2. memo' = IF bulkOk THEN Prefetched(v, cache) ELSE cache
    BY DEF Begin
  <2> HIDE DEF cache
  <2> QED
    BY <2>1, <2>2, AnswersIssued DEF MemoIssued
<1>3. RefIssued' /\ ReadingsStored' /\ OwnReadings'
  BY DEF Begin, NoSample, TargetInv, RefIssued, ReadingsStored, OwnReadings
<1> QED
  BY <1>1, <1>2, <1>3 DEF TargetInv, Begin

LEMMA BaseKeepsTarget ==
    ASSUME TargetInv, NEW tie, Base(tie)
    PROVE  TargetInv'
<1> DEFINE key == <<Lake, sample.valid, BaseWindow>>
           cache == Remember(memo, {key}, tie)
           ref == OfModel(cache[key], RefModel)
<1>1. IssueInv'
  BY BaseKeeps DEF TargetInv
<1>2. \A k \in DOMAIN cache : \A r \in cache[k] : r.run <= r.valid
  BY AnswersIssued DEF TargetInv, MemoIssued
<1>3. memo' = cache /\ key \in DOMAIN cache
  BY DEF Base, Remember
<1>4. MemoIssued' /\ \A r \in ref : r.run <= r.valid
  <2> HIDE DEF cache, key
  <2> QED
    BY <1>2, <1>3 DEF MemoIssued, OfModel
<1>5. \/ step' = "idle" /\ sample' = NoSample
      \/ step' = "obs" /\ sample' = [sample EXCEPT !.ref = ref]
  BY DEF Base
<1> HIDE DEF ref
<1>6. UNCHANGED <<observations, obsMemo, clock, climate>> /\ step = "base"
  BY DEF Base
<1>7. CASE sample' = NoSample /\ step' = "idle"
  <2>1. RefIssued' /\ ReadingsStored' /\ OwnReadings'
    BY <1>6, <1>7 DEF NoSample, TargetInv, RefIssued, ReadingsStored, OwnReadings
  <2> QED
    BY <1>1, <1>4, <1>6, <1>7, <2>1 DEF TargetInv
<1>8. CASE step' = "obs" /\ sample' = [sample EXCEPT !.ref = ref]
  <2>1. /\ sample'.ref = ref /\ sample'.obs = sample.obs /\ sample'.target = sample.target
        /\ sample'.shared = sample.shared /\ sample'.normals = sample.normals
    BY <1>8 DEF TargetInv, IssueInv, SampleKnows
  <2>2. RefIssued' /\ ReadingsStored' /\ OwnReadings'
    BY <1>4, <1>6, <1>8, <2>1 DEF TargetInv, RefIssued, ReadingsStored, OwnReadings
  <2> QED
    BY <1>1, <1>4, <1>6, <1>8, <2>2 DEF TargetInv
<1> QED
  BY <1>5, <1>7, <1>8

\* Whatever is read is stored.
LEMMA ReadIsStored ==
    ASSUME ReadingsStored, NEW t
    PROVE  /\ Near(t) \subseteq observations
           /\ ObsLagRows(t) \subseteq observations /\ BiasRows(t) \subseteq observations
<1>1. Near(t) \subseteq observations
  BY DEF Near, ObsBetween, ReadingsStored
<1> QED
  BY <1>1 DEF ObsLagRows, BiasRows, ObsBetween

LEMMA ReadObservationsKeepsTarget ==
    ASSUME TargetInv, ReadObservations
    PROVE  TargetInv'
<1> DEFINE ref == CHOOSE r \in sample.ref : TRUE
           anchor == ObsAnchor(ref, sample.valid)
           read == Near(anchor) \cup ObsLagRows(anchor) \cup BiasRows(anchor)
           target == SelectTarget(Candidates(ref, sample.valid), sample.valid)
<1>1. IssueInv'
  BY ReadObservationsKeeps DEF TargetInv
<1>2. /\ sample' = [sample EXCEPT !.obs = read, !.target = target] /\ step' = "pack"
      /\ obsMemo' = [t \in {anchor, sample.valid} \cup DOMAIN obsMemo |-> Near(t)]
      /\ UNCHANGED <<clock, memo, observations, climate>>
  BY DEF ReadObservations
<1>3. read \subseteq observations /\ target \subseteq {o \in observations : o.wind}
  <2> HIDE DEF ref, anchor
  <2>1. \A t : /\ Near(t) \subseteq observations
               /\ ObsLagRows(t) \subseteq observations /\ BiasRows(t) \subseteq observations
    BY ReadIsStored DEF TargetInv
  <2> QED
    BY <2>1 DEF SelectTarget, Usable, Candidates
<1> HIDE DEF read, target, anchor
<1>4. /\ sample'.ref = sample.ref /\ sample'.obs = read /\ sample'.target = target
      /\ sample'.normals = sample.normals
  BY <1>2 DEF TargetInv, IssueInv, SampleKnows
<1>5. \A t : Near(t) \subseteq observations
  BY ReadIsStored DEF TargetInv
<1>6. ReadingsStored'
  BY <1>2, <1>3, <1>4, <1>5 DEF ReadingsStored, TargetInv
<1>7. MemoIssued' /\ RefIssued' /\ OwnReadings'
  BY <1>2, <1>4 DEF TargetInv, MemoIssued, RefIssued, OwnReadings
<1> QED
  BY <1>1, <1>2, <1>6, <1>7 DEF TargetInv

LEMMA PackKeepsTarget ==
    ASSUME TargetInv, NEW tie, Pack(tie)
    PROVE  TargetInv'
<1> DEFINE keys == LagKeys(sample.valid) \cup HistoryKeys(sample.valid)
                       \cup AuxKeys(sample.valid)
<1>1. IssueInv'
  BY PackKeeps DEF TargetInv
<1>2. MemoIssued'
  <2>1. memo' = Remember(memo, keys, tie)
    BY DEF Pack
  <2> HIDE DEF keys
  <2> QED
    BY <2>1, AnswersIssued DEF TargetInv, MemoIssued
<1>3. \E lags, history, aux :
        sample' = [sample EXCEPT !.lags = lags, !.history = history, !.aux = aux,
                                 !.normals = Normals(sample.valid)]
  BY DEF Pack
<1>4. /\ sample'.ref = sample.ref /\ sample'.obs = sample.obs
      /\ sample'.target = sample.target /\ sample'.normals \subseteq climate
  BY <1>3 DEF TargetInv, IssueInv, SampleKnows, Normals
<1>5. UNCHANGED <<observations, obsMemo, clock, climate>> /\ step' = "idle"
  BY DEF Pack
<1>6. RefIssued' /\ ReadingsStored' /\ OwnReadings'
  BY <1>4, <1>5 DEF TargetInv, RefIssued, ReadingsStored, OwnReadings
<1> QED
  BY <1>1, <1>2, <1>5, <1>6 DEF TargetInv

\* Collectors only add rows.
LEMMA CollectorsKeepTarget ==
    ASSUME WindowsAssumption, TargetInv, IssueInv',
           \/ \E m \in Models, ps \in {Points, {Lake}} : Collect(m, ps)
           \/ \E m \in Models : Stitch(m)
           \/ \E s \in Sources, at \in 0..clock, wind \in BOOLEAN : Observe(s, at, wind)
           \/ \E hours \in SUBSET (0..clock) : DeepBackfill(hours)
           \/ Tick
    PROVE  TargetInv'
<1>1. /\ UNCHANGED <<memo, obsMemo, step, sample>> /\ observations \subseteq observations'
      /\ clock' \in 0..LastHour /\ climate \subseteq climate' /\ climate' \subseteq 0..LastHour
  <2>1. ASSUME NEW m \in Models, NEW ps \in {Points, {Lake}}, Collect(m, ps)
        PROVE  UNCHANGED <<memo, obsMemo, step, sample, clock, observations, climate>>
    BY <2>1 DEF Collect, Written
  <2>2. ASSUME NEW m \in Models, Stitch(m)
        PROVE  UNCHANGED <<memo, obsMemo, step, sample, clock, observations, climate>>
    BY <2>2 DEF Stitch, Written
  <2>3. ASSUME NEW s \in Sources, NEW at \in 0..clock, NEW wind \in BOOLEAN,
               Observe(s, at, wind)
        PROVE  UNCHANGED <<memo, obsMemo, step, sample, clock, climate>>
               /\ observations \subseteq observations'
    BY <2>3 DEF Observe, Written
  <2>4. CASE Tick
    BY <2>4 DEF Tick, TargetInv, ReadingsStored, WindowsAssumption
  <2>5. ASSUME NEW hours \in SUBSET (0..clock), DeepBackfill(hours)
        PROVE  /\ UNCHANGED <<memo, obsMemo, step, sample, clock, observations>>
               /\ climate \subseteq climate' /\ climate' \subseteq 0..LastHour
    BY <2>5 DEF DeepBackfill, Written, TargetInv, ReadingsStored, WindowsAssumption
  <2> QED
    BY <2>1, <2>2, <2>3, <2>4, <2>5 DEF TargetInv, ReadingsStored
<1>2. MemoIssued' /\ RefIssued' /\ OwnReadings'
  BY <1>1 DEF TargetInv, MemoIssued, RefIssued, OwnReadings
<1>3. ReadingsStored'
  BY <1>1 DEF TargetInv, ReadingsStored
<1> QED
  BY <1>1, <1>2, <1>3 DEF TargetInv

LEMMA StepKeepsTargetInv ==
    ASSUME WindowsAssumption, TargetInv, [Next]_vars
    PROVE  TargetInv'
<1>0. IssueInv'
  BY StepKeepsIssueInv DEF TargetInv
<1>1. CASE \/ \E m \in Models, ps \in {Points, {Lake}} : Collect(m, ps)
           \/ \E m \in Models : Stitch(m)
           \/ \E s \in Sources, at \in 0..clock, wind \in BOOLEAN : Observe(s, at, wind)
           \/ \E hours \in SUBSET (0..clock) : DeepBackfill(hours)
           \/ Tick
  BY <1>0, <1>1, CollectorsKeepTarget
<1>2. ASSUME NEW v \in 0..LastHour, NEW shared \in BOOLEAN, NEW bulkOk \in BOOLEAN,
             Begin(v, shared, bulkOk)
      PROVE  TargetInv'
  BY <1>2, BeginKeepsTarget
<1>3. ASSUME NEW tie \in {"first", "last"}, Base(tie) \/ Pack(tie)
      PROVE  TargetInv'
  BY <1>3, BaseKeepsTarget, PackKeepsTarget
<1>4. CASE ReadObservations
  BY <1>4, ReadObservationsKeepsTarget
<1>5. CASE UNCHANGED vars
  BY <1>0, <1>5 DEF vars, TargetInv, MemoIssued, RefIssued, ReadingsStored, OwnReadings
<1> QED
  BY <1>1, <1>2, <1>3, <1>4, <1>5 DEF Next

\* The invariant says all the run asks of the state.
LEMMA TargetInvSuffices == ASSUME WindowsAssumption, TargetInv PROVE TypeOK /\ TargetOutsideFeatures
<1>1. Cardinality(sample.ref) <= 1
  <2>1. CASE sample.ref = {}
    BY <2>1, FS_EmptySet
  <2>2. ASSUME NEW r \in sample.ref PROVE Cardinality(sample.ref) <= 1
    <3>1. sample.ref = {r}
      BY <2>2 DEF TargetInv, IssueInv, SampleKnows, OnePerModel
    <3>2. Cardinality(sample.ref) = 1
      BY <3>1, FS_Singleton
    <3> QED
      BY <3>2
  <2> QED
    BY <2>1, <2>2
<1>2. TypeOK
  BY <1>1 DEF TypeOK, TargetInv, IssueInv, StoreTyped, SampleKnows, RefIssued, ReadingsStored
<1>3. TargetOutsideFeatures
  <2> SUFFICES ASSUME NEW r \in sample.ref, sample.valid - r.run > Lookback,
                      NEW o \in sample.target \cap sample.obs
               PROVE  FALSE
    BY DEF TargetOutsideFeatures
  <2>1. o.at <= r.run /\ sample.valid - Lookback <= o.at /\ o.at \in Int
    BY DEF TargetInv, IssueInv, NoObsAfterIssue, SampleKnows, InLookback
  <2>2. r.run \in Int /\ sample.valid \in Int /\ Lookback \in Int
    BY DEF TargetInv, IssueInv, SampleKnows, ForecastRows, WindowsAssumption
  <2> QED
    BY <2>1, <2>2
<1> QED
  BY <1>2, <1>3

\* A usable reading of a better tier than every new row keeps them from the
\* target, and what was chosen among the old rows stays chosen.
LEMMA LateRowsLose ==
    ASSUME SourcesAssumption, NEW old \in SUBSET ObservationRows,
           NEW all \in SUBSET ObservationRows, old \subseteq all, NEW v,
           NEW q \in Usable(old), \A o \in all \ old : Tier[q.source] < Tier[o.source]
    PROVE  SelectTarget(all, v) = SelectTarget(old, v)
<1>1. \A o \in ObservationRows : Tier[o.source] \in Nat
  BY DEF ObservationRows, SourcesAssumption
<1>2. q \in old /\ q \in Usable(all) /\ Tier[q.source] \in Nat
  BY <1>1 DEF Usable
<1>3. ASSUME NEW o \in SelectTarget(all, v) PROVE o \in SelectTarget(old, v)
  <2>1. Beats(o, q, v) /\ o \in all /\ o.wind
    BY <1>2, <1>3 DEF SelectTarget, Usable
  <2>2. o \in old
    BY <1>1, <1>2, <2>1 DEF Beats
  <2> QED
    BY <1>3, <2>1, <2>2 DEF SelectTarget, Usable
<1>4. ASSUME NEW o \in SelectTarget(old, v) PROVE o \in SelectTarget(all, v)
  <2>1. o \in Usable(all) /\ Beats(o, q, v) /\ o \in old
    BY <1>4 DEF SelectTarget, Usable
  <2>2. Tier[o.source] <= Tier[q.source]
    BY <1>1, <1>2, <2>1 DEF Beats
  <2>3. ASSUME NEW p \in Usable(all) PROVE Beats(o, p, v)
    <3>1. CASE p \in old
      BY <1>4, <3>1, <2>3 DEF SelectTarget, Usable
    <3>2. CASE p \notin old
      <4>1. p \in all \ old
        BY <2>3, <3>2 DEF Usable
      <4>2. Tier[q.source] < Tier[p.source] /\ Tier[p.source] \in Nat
            /\ Tier[o.source] \in Nat
        BY <1>1, <2>1, <4>1
      <4> QED
        BY <1>2, <2>2, <4>2 DEF Beats
    <3> QED
      BY <3>1, <3>2
  <2> QED
    BY <2>1, <2>3 DEF SelectTarget
<1> QED
  BY <1>3, <1>4

\* Collectors only add readings; nobody removes one.
LEMMA ReadingsStay ==
    ASSUME [Next]_vars PROVE observations \subseteq observations'
<1>1. ASSUME NEW s, NEW at, NEW wind, Observe(s, at, wind)
      PROVE  observations \subseteq observations'
  BY <1>1 DEF Observe
<1>2. \A m, ps : Collect(m, ps) => UNCHANGED observations
  BY DEF Collect
<1>3. \A m : Stitch(m) => UNCHANGED observations
  BY DEF Stitch
<1>4. \A hours : DeepBackfill(hours) => UNCHANGED observations
  BY DEF DeepBackfill
<1>5. \A v, shared, bulkOk : Begin(v, shared, bulkOk) => UNCHANGED observations
  BY DEF Begin
<1>6. \A tie : Base(tie) \/ Pack(tie) => UNCHANGED observations
  BY DEF Base, Pack
<1>7. Tick \/ ReadObservations \/ UNCHANGED vars => UNCHANGED observations
  BY DEF Tick, ReadObservations, vars
<1> QED
  BY <1>1, <1>2, <1>3, <1>4, <1>5, <1>6, <1>7 DEF Next

LEMMA StepKeepsTargets ==
    ASSUME WindowsAssumption, SourcesAssumption, TargetInv, TargetInv', [Next]_vars,
           NEW v \in 0..LastHour,
           \E q \in Usable(ObsBetween(v - Lookback, v)) :
               \A o \in observations' \ observations : Tier[q.source] < Tier[o.source]
    PROVE  SelectTarget(ObsBetween(v - Lookback, v)', v)
               = SelectTarget(ObsBetween(v - Lookback, v), v)
<1> DEFINE old == ObsBetween(v - Lookback, v)
           all == ObsBetween(v - Lookback, v)'
<1>1. observations \subseteq observations'
  BY ReadingsStay
<1>2. old \in SUBSET ObservationRows /\ all \in SUBSET ObservationRows
  BY DEF TargetInv, IssueInv, StoreTyped, ObsBetween
<1>3. old \subseteq all /\ all \ old \subseteq observations' \ observations
  BY <1>1 DEF ObsBetween
<1>4. PICK q \in Usable(old) :
         \A o \in observations' \ observations : Tier[q.source] < Tier[o.source]
  OBVIOUS
<1> HIDE DEF old, all
<1>5. \A o \in all \ old : Tier[q.source] < Tier[o.source]
  BY <1>3, <1>4
<1>6. SelectTarget(all, v) = SelectTarget(old, v)
  BY <1>2, <1>3, <1>4, <1>5, LateRowsLose
<1> QED
  BY <1>6 DEF old, all

-----------------------------------------------------------------------------
\* A set of integers with a lower (an upper) bound has a least (a greatest).
LEMMA LeastOf ==
    ASSUME NEW T \in SUBSET Int, T # {}, NEW b \in Int, \A x \in T : b <= x
    PROVE  \E j \in T : \A i \in T : j <= i
<1> DEFINE N == {n \in Nat : b + n \in T}
<1>1. \A x \in T : x - b \in N
  OBVIOUS
<1>2. N \in SUBSET Nat /\ N # {}
  BY <1>1
<1>3. PICK n \in N : \A m \in N : <<m, n>> \notin OpToRel(<, Nat)
  BY <1>2, NatLessThanWellFounded, WFMin
<1>4. \A m \in N : n <= m
  <2> SUFFICES ASSUME NEW m \in N PROVE n <= m
    OBVIOUS
  <2>1. ~ (m < n)
    BY <1>3 DEF OpToRel
  <2> QED
    BY <2>1
<1>5. \A x \in T : b + n <= x
  BY <1>1, <1>4
<1> QED
  BY <1>5

LEMMA GreatestOf ==
    ASSUME NEW T \in SUBSET Int, T # {}, NEW b \in Int, \A x \in T : x <= b
    PROVE  \E j \in T : \A i \in T : i <= j
<1> DEFINE N == {n \in Int : -n \in T}
<1>1. N \in SUBSET Int /\ \A x \in T : -x \in N /\ -(-x) = x
  OBVIOUS
<1>2. PICK c \in Int : c = -b
  OBVIOUS
<1>3. N # {} /\ \A n \in N : c <= n
  <2>1. ASSUME NEW n \in N PROVE c <= n
    <3>1. n \in Int /\ -n <= b
      OBVIOUS
    <3> QED
      BY <1>2, <3>1
  <2> QED
    BY <1>1, <2>1
<1> HIDE DEF N
<1>5. PICK j \in N : \A i \in N : j <= i
  BY <1>1, <1>3, LeastOf
<1> USE DEF N
<1>6. -j \in T /\ \A i \in T : i <= -j
  <2>1. j \in Int /\ -j \in T
    BY <1>5
  <2>2. ASSUME NEW i \in T PROVE i <= -j
    <3>1. j <= -i
      BY <1>1, <1>5
    <3> QED
      BY <2>1, <3>1
  <2> QED
    BY <2>1, <2>2
<1> QED
  BY <1>6

\* Of each model of the latest runs, an answer holds exactly one row.
OneOfEach(found, cands) ==
    /\ found \subseteq cands
    /\ \A r \in cands : Cardinality(OfModel(found, r.model)) = 1

LEMMA ExtremesAreThere ==
    ASSUME StoreTyped, NEW p, NEW t \in Int, NEW w \in Int
    PROVE  /\ OneOfEach(FirstOf(LatestRun(Eligible(p, t, w))), LatestRun(Eligible(p, t, w)))
           /\ OneOfEach(LastOf(LatestRun(Eligible(p, t, w))), LatestRun(Eligible(p, t, w)))
<1> DEFINE S == Eligible(p, t, w)
           L == LatestRun(S)
<1>1. S \in SUBSET ForecastRows /\ \A r \in S : r.point = p
  BY DEF StoreTyped, Eligible
<1>2. OnePerModel(FirstOf(L)) /\ OnePerModel(LastOf(L))
  BY <1>1, ExtremesAreUnique
<1>3. \A r \in L : r.valid \in Int /\ t - w <= r.valid /\ r.valid <= t + w
  BY <1>1 DEF LatestRun, Eligible, Within, ForecastRows
<1> HIDE DEF L, S
<1>4. ASSUME NEW r \in L
      PROVE  /\ Cardinality(OfModel(FirstOf(L), r.model)) = 1
             /\ Cardinality(OfModel(LastOf(L), r.model)) = 1
  <2> DEFINE T == {q.valid : q \in {x \in L : x.model = r.model}}
  <2>1. T \in SUBSET Int /\ T # {}
    BY <1>3
  <2>2. \A x \in T : t - w <= x /\ x <= t + w
    BY <1>3
  <2>3. PICK a \in Int, b \in Int : a = t - w /\ b = t + w
    OBVIOUS
  <2>4. \A x \in T : a <= x /\ x <= b
    BY <2>2, <2>3
  <2> HIDE DEF T
  <2>5. PICK lo \in T : \A i \in T : lo <= i
    BY <2>1, <2>4, LeastOf
  <2>6. PICK hi \in T : \A i \in T : i <= hi
    BY <2>1, <2>4, GreatestOf
  <2>7. PICK f \in L : f.model = r.model /\ f.valid = lo
    BY DEF T
  <2>8. PICK g \in L : g.model = r.model /\ g.valid = hi
    BY DEF T
  <2>9. f \in FirstOf(L)
    <3> SUFFICES ASSUME NEW q \in L, q.model = f.model PROVE f.valid <= q.valid
      BY DEF FirstOf
    <3>1. q.valid \in T
      BY <2>7 DEF T
    <3> QED
      BY <2>5, <2>7, <3>1
  <2>10. g \in LastOf(L)
    <3> SUFFICES ASSUME NEW q \in L, q.model = g.model PROVE q.valid <= g.valid
      BY DEF LastOf
    <3>1. q.valid \in T
      BY <2>8 DEF T
    <3> QED
      BY <2>6, <2>8, <3>1
  <2>11. OfModel(FirstOf(L), r.model) = {f}
    BY <1>2, <2>7, <2>9 DEF OfModel, OnePerModel
  <2>12. OfModel(LastOf(L), r.model) = {g}
    BY <1>2, <2>8, <2>10 DEF OfModel, OnePerModel
  <2> QED
    BY <2>11, <2>12, FS_Singleton
<1>5. FirstOf(L) \subseteq L /\ LastOf(L) \subseteq L
  BY DEF FirstOf, LastOf
<1>6. OneOfEach(FirstOf(L), L) /\ OneOfEach(LastOf(L), L)
  BY <1>4, <1>5 DEF OneOfEach
<1> QED
  BY <1>6 DEF L, S

\* The times and the windows of a look-up are numbers.
LEMMA WindowsAre ==
    ASSUME WindowsAssumption
    PROVE  /\ BaseWindow \in Int /\ LagWindow \in Int /\ AuxWindow \in Int
           /\ \A d \in Lags \cup History \cup Ramp : d \in Int
BY DEF WindowsAssumption

\* What becomes known of a key is the answer of its query.
LEMMA RememberedAsSql ==
    ASSUME StoreTyped, NEW cache, NEW keys, NEW tie, \A k \in keys : k[2] \in Int /\ k[3] \in Int,
           NEW k \in DOMAIN Remember(cache, keys, tie), k \notin DOMAIN cache
    PROVE  OneOfEach(Remember(cache, keys, tie)[k], LatestRun(Eligible(k[1], k[2], k[3])))
<1>1. k \in keys /\ Remember(cache, keys, tie)[k] = FetchAt(k[1], k[2], k[3], tie)
  BY DEF Remember
<1>2. k[2] \in Int /\ k[3] \in Int
  BY <1>1
<1> QED
  BY <1>1, <1>2, ExtremesAreThere DEF FetchAt

LEMMA PrefetchedAsSql ==
    ASSUME WindowsAssumption, StoreTyped, NEW cache, NEW v \in Int,
           NEW k \in DOMAIN Prefetched(v, cache), k \notin DOMAIN cache
    PROVE  OneOfEach(Prefetched(v, cache)[k], LatestRun(Eligible(k[1], k[2], k[3])))
<1>1. k \in PrefetchKeys(v) /\ Prefetched(v, cache)[k] = Select(Eligible(k[1], k[2], k[3]))
  BY DEF Prefetched
<1>2. k[2] \in PrefetchTimes(v) /\ k[3] \in Windows
  BY <1>1 DEF PrefetchKeys
<1>3. k[2] \in Int /\ k[3] \in Int
  BY <1>2, WindowsAre DEF PrefetchTimes, Windows
<1> QED
  BY <1>1, <1>3, ExtremesAreThere DEF Select

LEMMA MemoGrowsAsSql ==
    ASSUME WindowsAssumption, IssueInv, [Next]_vars,
           NEW k \in DOMAIN memo', k \notin DOMAIN memo
    PROVE  OneOfEach(memo'[k], LatestRun(Eligible(k[1], k[2], k[3])))
<1>0. StoreTyped /\ sample.valid \in Int
  BY DEF IssueInv, SampleKnows
<1>1. ASSUME NEW v \in Int, NEW shared \in BOOLEAN, NEW bulkOk \in BOOLEAN,
             Begin(v, shared, bulkOk)
      PROVE  OneOfEach(memo'[k], LatestRun(Eligible(k[1], k[2], k[3])))
  <2> DEFINE cache == IF shared THEN memo ELSE <<>>
  <2>1. memo' = IF bulkOk THEN Prefetched(v, cache) ELSE cache
    BY <1>1 DEF Begin
  <2>2. k \notin DOMAIN cache
    OBVIOUS
  <2> HIDE DEF cache
  <2>3. memo' = Prefetched(v, cache)
    BY <2>1, <2>2
  <2> QED
    BY <1>0, <2>2, <2>3, PrefetchedAsSql
<1>2. ASSUME NEW tie, Base(tie)
      PROVE  OneOfEach(memo'[k], LatestRun(Eligible(k[1], k[2], k[3])))
  <2> DEFINE keys == {<<Lake, sample.valid, BaseWindow>>}
  <2>1. memo' = Remember(memo, keys, tie)
    BY <1>2 DEF Base
  <2>2. \A x \in keys : x[2] \in Int /\ x[3] \in Int
    BY <1>0, WindowsAre
  <2> HIDE DEF keys
  <2> QED
    BY <1>0, <2>1, <2>2, RememberedAsSql
<1>3. ASSUME NEW tie, Pack(tie)
      PROVE  OneOfEach(memo'[k], LatestRun(Eligible(k[1], k[2], k[3])))
  <2> DEFINE keys == LagKeys(sample.valid) \cup HistoryKeys(sample.valid)
                         \cup AuxKeys(sample.valid)
  <2>1. memo' = Remember(memo, keys, tie)
    BY <1>3 DEF Pack
  <2>2. \A x \in keys : x[2] \in Int /\ x[3] \in Int
    <3>1. \A x \in LagKeys(sample.valid) : x[2] \in Int /\ x[3] \in Int
      BY <1>0, WindowsAre DEF LagKeys
    <3>2. \A x \in HistoryKeys(sample.valid) : x[2] \in Int /\ x[3] \in Int
      BY <1>0, WindowsAre DEF HistoryKeys
    <3>3. \A x \in AuxKeys(sample.valid) : x[2] \in Int /\ x[3] \in Int
      BY <1>0, WindowsAre DEF AuxKeys
    <3> QED
      BY <3>1, <3>2, <3>3
  <2> HIDE DEF keys
  <2> QED
    BY <1>0, <2>1, <2>2, RememberedAsSql
<1>4. CASE UNCHANGED memo
  BY <1>4
<1>5. \/ \E v \in Int, shared \in BOOLEAN, bulkOk \in BOOLEAN : Begin(v, shared, bulkOk)
      \/ \E tie : Base(tie) \/ Pack(tie)
      \/ UNCHANGED memo
  <2>1. \A m, ps : Collect(m, ps) => UNCHANGED memo
    BY DEF Collect, Written
  <2>2. \A m : Stitch(m) => UNCHANGED memo
    BY DEF Stitch, Written
  <2>3. \A s, at, wind : Observe(s, at, wind) => UNCHANGED memo
    BY DEF Observe, Written
  <2>4. \A hours : DeepBackfill(hours) => UNCHANGED memo
    BY DEF DeepBackfill, Written
  <2>5. Tick \/ ReadObservations \/ UNCHANGED vars => UNCHANGED memo
    BY DEF Tick, ReadObservations, vars
  <2> QED
    BY <2>1, <2>2, <2>3, <2>4, <2>5 DEF Next
<1> QED
  BY <1>1, <1>2, <1>3, <1>4, <1>5

\* feature_pack.py, advanced.py: whatever the collectors wrote in between, what
\* the prefetch or a query leaves in the memo is one row of the latest run of
\* every model that has an eligible row at that moment.
THEOREM MemoIsSql == ASSUME WindowsAssumption PROVE Spec => MemoAnswersAsSql
<1>1. Init => IssueInv
  BY InitIssueInv
<1>2. IssueInv /\ [Next]_vars => IssueInv'
  BY StepKeepsIssueInv
<1>3. IssueInv /\ [Next]_vars =>
        [\A k \in DOMAIN memo' \ DOMAIN memo :
            LET sql == LatestRun(Eligible(k[1], k[2], k[3]))
            IN /\ memo'[k] \subseteq sql
               /\ \A r \in sql : Cardinality(OfModel(memo'[k], r.model)) = 1]_vars
  BY MemoGrowsAsSql DEF OneOfEach
<1> QED
  BY <1>1, <1>2, <1>3, PTL DEF Spec, MemoAnswersAsSql

\* A behaviour of the checked instance is one of Features.
LEMMA BuildingIsFeatures == MCSpec => Spec
<1>1. MCInit => Init
  BY DEF MCInit
<1>2. [MCNext]_<<part, vars, judging>> => [Next]_vars
  BY DEF MCNext
<1> QED
  BY <1>1, <1>2, PTL DEF MCSpec, Spec

\* targets.py, build.py: every target was stored with a wind and is none of the
\* readings the features were taken from when the lead exceeds the lookback,
\* and rows that arrive late from a lesser tier change no hour's target.
THEOREM TargetIsSound ==
    ASSUME WindowsAssumption, SourcesAssumption
    PROVE  MCSpec => TargetSound
<1>1. Init => TargetInv
  BY InitTargetInv
<1>2. TargetInv /\ [Next]_vars => TargetInv'
  BY StepKeepsTargetInv
<1>3. TargetInv => TypeOK /\ TargetOutsideFeatures
  BY TargetInvSuffices
<1>4. TargetInv /\ TargetInv' /\ [Next]_vars =>
        [\A v \in 0..LastHour :
            (\E q \in Usable(ObsBetween(v - Lookback, v)) :
                 \A o \in observations' \ observations : Tier[q.source] < Tier[o.source])
                => SelectTarget(ObsBetween(v - Lookback, v)', v)
                       = SelectTarget(ObsBetween(v - Lookback, v), v)]_vars
  BY StepKeepsTargets
<1> QED
  BY <1>1, <1>2, <1>3, <1>4, BuildingIsFeatures, PTL DEF Spec, TargetSound, LateRowsKeepTarget

-----------------------------------------------------------------------------
(* The arithmetic of evaluation.                                             *)

\* A set of naturals has a least element, one that is bounded a greatest.
LEMMA LeastExists ==
    ASSUME NEW S \in SUBSET Nat, S # {}
    PROVE  \E m \in S : \A x \in S : m <= x
<1>1. PICK m \in S : \A x \in S : <<x, m>> \notin OpToRel(<, Nat)
  BY NatLessThanWellFounded, WFMin
<1>2. ASSUME NEW x \in S PROVE m <= x
  <2>1. m \in Nat /\ x \in Nat /\ ~(x < m)
    BY <1>1 DEF OpToRel
  <2> QED
    BY <2>1
<1> QED
  BY <1>2

LEMMA MinIsLeast ==
    ASSUME NEW S \in SUBSET Nat, S # {}
    PROVE  /\ Arithmetic!Min(S) \in S
           /\ \A x \in S : Arithmetic!Min(S) <= x
<1>1. \E m \in S : \A x \in S : m =< x
  BY LeastExists
<1> QED
  BY <1>1 DEF Arithmetic!Min

LEMMA MaxIsGreatest ==
    ASSUME NEW b \in Nat, NEW S \in SUBSET (0..b), S # {}
    PROVE  /\ Arithmetic!Max(S) \in S
           /\ \A x \in S : x <= Arithmetic!Max(S)
<1> DEFINE T == {b - x : x \in S}
<1>1. T \in SUBSET Nat /\ T # {}
  <2>1. ASSUME NEW x \in S PROVE b - x \in Nat
    BY <2>1
  <2> QED
    BY <2>1
<1>2. PICK m \in T : \A x \in T : m <= x
  <2> HIDE DEF T
  <2> QED
    BY <1>1, LeastExists
<1>3. PICK g \in S : m = b - g
  BY <1>2
<1>4. ASSUME NEW x \in S PROVE g >= x
  <2>1. m <= b - x
    BY <1>2
  <2> QED
    BY <1>3, <2>1
<1>5. \E y \in S : \A x \in S : y >= x
  BY <1>4
<1>6. Arithmetic!Max(S) \in S /\ \A x \in S : Arithmetic!Max(S) >= x
  BY <1>5 DEF Arithmetic!Max
<1>7. S \subseteq Int
  OBVIOUS
<1> QED
  BY <1>6, <1>7

\* A sequence that never descends is in order.
LEMMA InOrder ==
    ASSUME NEW n \in Nat, NEW s, \A k \in 1..n : s[k] \in Int,
           \A k \in 1..(n - 1) : s[k] <= s[k + 1]
    PROVE  \A x, y \in 1..n : x <= y => s[x] <= s[y]
<1> SUFFICES ASSUME NEW x \in 1..n PROVE \A y \in 1..n : x <= y => s[x] <= s[y]
  OBVIOUS
<1> DEFINE Wrong == {y \in x..n : ~(s[x] <= s[y])}
<1>1. SUFFICES ASSUME Wrong # {} PROVE FALSE
  OBVIOUS
<1>2. Wrong \subseteq x..n /\ x..n \subseteq Nat
  OBVIOUS
<1>3. PICK m \in Wrong : \A y \in Wrong : m <= y
  <2> HIDE DEF Wrong
  <2> QED
    BY <1>1, <1>2, LeastExists
<1>4. m \in x..n /\ ~(s[x] <= s[m])
  BY <1>3
<1>5. m # x
  BY <1>4
<1>6. m - 1 \in x..n /\ m - 1 \notin Wrong
  <2>1. m - 1 \in x..n /\ ~(m <= m - 1)
    BY <1>4, <1>5
  <2> QED
    BY <1>3, <2>1
<1>7. s[x] <= s[m - 1] /\ s[m - 1] <= s[m]
  <2>1. m - 1 \in 1..(n - 1) /\ (m - 1) + 1 = m
    BY <1>4, <1>6
  <2>2. s[m - 1] <= s[(m - 1) + 1]
    BY <2>1
  <2> QED
    BY <1>6, <2>1, <2>2
<1>8. s[x] \in Int /\ s[m - 1] \in Int /\ s[m] \in Int
  BY <1>4, <1>6
<1> QED
  BY <1>4, <1>7, <1>8

\* Quotient and remainder.
LEMMA Divides ==
    ASSUME NEW a \in Int, NEW d \in Nat \ {0}
    PROVE  /\ a \div d \in Int /\ a % d \in 0..(d - 1)
           /\ a = (d * (a \div d)) + (a % d)
OBVIOUS

LEMMA QuotientOf ==
    ASSUME NEW d \in Nat \ {0}, NEW q \in Int, NEW r \in 0..(d - 1)
    PROVE  (d * q + r) \div d = q /\ (d * q + r) % d = r
<1> DEFINE a == d * q + r
           k == a \div d
           m == a % d
<1>1. a \in Int /\ k \in Int /\ m \in 0..(d - 1) /\ a = d * k + m
  BY Divides
<1>2. d * (q - k) = m - r
  BY <1>1
<1> HIDE DEF a, k, m
<1>3. ASSUME q - k >= 1 PROVE FALSE
  <2>1. d * (q - k) >= d
    BY <1>1, <1>3
  <2> QED
    BY <1>1, <1>2, <2>1
<1>4. ASSUME q - k <= -1 PROVE FALSE
  <2>1. d * (q - k) <= -d
    BY <1>1, <1>4
  <2> QED
    BY <1>1, <1>2, <2>1
<1>5. q = k
  BY <1>1, <1>3, <1>4
<1>6. m = r
  <2>1. d * (q - k) = 0
    BY <1>1, <1>5
  <2> QED
    BY <1>1, <1>2, <2>1
<1> QED
  BY <1>5, <1>6 DEF a, k, m

LEMMA OneMore ==
    ASSUME NEW a \in Int, NEW b \in Int
    PROVE  a * (b + 1) = (a * b) + a
OBVIOUS

-----------------------------------------------------------------------------
(* The walk.                                                                 *)

\* run_backtest(): no step from the last window leads to one that fits.
LEMMA WalkEnds ==
    ASSUME NEW i \in Arithmetic!BacktestInputs
    PROVE  LET last == Arithmetic!Max({w.test : w \in Arithmetic!RunBacktest(i).windows}) + i.test
           IN  last <= i.end /\ i.end < last + i.step
<1>1. MaxHours \in Nat \ {0}
  BY LearningAssumption DEF LearningAssumption, Arithmetic!EvaluationAssumption
<1>2. /\ i.start = 0 /\ i.end \in 1..(2 * MaxHours) /\ i.train \in 1..MaxHours
      /\ i.test \in 1..MaxHours /\ i.step \in 1..MaxHours
  BY <1>1 DEF Arithmetic!BacktestInputs
<1>3. /\ i.end \in Nat \ {0} /\ i.train \in Nat \ {0} /\ i.test \in Nat \ {0}
      /\ i.step \in Nat \ {0}
  BY <1>1, <1>2
<1> DEFINE C == {t \in (i.start + i.train)..i.end :
                     (t - i.start - i.train) % i.step = 0 /\ t + i.test <= i.end}
           Tests == {w.test : w \in Arithmetic!RunBacktest(i).windows}
<1>4. {w.test : w \in Arithmetic!GenerateWindows(i)} = C
  <2>1. Arithmetic!GenerateWindows(i) = {[train |-> t - i.train, test |-> t] : t \in C}
    BY Zenon DEF Arithmetic!GenerateWindows
  <2> HIDE DEF C
  <2>2. ASSUME NEW w \in Arithmetic!GenerateWindows(i) PROVE w.test \in C
    BY <2>1, <2>2
  <2>3. ASSUME NEW t \in C PROVE \E w \in Arithmetic!GenerateWindows(i) : w.test = t
    <3>1. [train |-> t - i.train, test |-> t] \in Arithmetic!GenerateWindows(i)
      BY <2>1, <2>3
    <3>2. [train |-> t - i.train, test |-> t].test = t
      OBVIOUS
    <3> QED
      BY <3>1, <3>2
  <2> QED
    BY <2>2, <2>3
<1>5. CASE Arithmetic!GenerateWindows(i) # {}
  <2>1. Tests = C
    BY <1>4, <1>5 DEF Arithmetic!RunBacktest
  <2>2. C # {} /\ C \subseteq 0..i.end
    <3>1. C \subseteq 0..i.end
      BY <1>2, <1>3
    <3> HIDE DEF C
    <3> QED
      BY <1>4, <1>5, <3>1
  <2> DEFINE m == Arithmetic!Max(C)
  <2>3. m \in C /\ \A x \in C : x <= m
    <3> HIDE DEF C
    <3> QED
      BY <1>3, <2>2, MaxIsGreatest
  <2> HIDE DEF m
  <2>4. m \in i.train..i.end /\ (m - i.train) % i.step = 0 /\ m + i.test <= i.end
    BY <1>2, <1>3, <2>3
  <2>5. ASSUME m + i.test + i.step <= i.end PROVE FALSE
    <3>1. (m + i.step - i.train) % i.step = 0
      <4> DEFINE a == m - i.train
                 q == a \div i.step
      <4>0. a \in Int /\ a % i.step = 0
        BY <1>3, <2>4
      <4> HIDE DEF a
      <4>1. q \in Int /\ a = i.step * q + 0
        <5>1. q \in Int /\ a = (i.step * q) + (a % i.step)
          BY <1>3, <4>0, Divides
        <5> QED
          BY <4>0, <5>1
      <4> HIDE DEF q
      <4>2. m + i.step - i.train = i.step * (q + 1) + 0
        <5>1. i.step * (q + 1) = i.step * q + i.step
          BY <1>3, <4>1, OneMore
        <5>2. m + i.step - i.train = a + i.step
          BY <1>3, <2>4 DEF a
        <5> QED
          BY <1>3, <4>1, <5>1, <5>2
      <4>3. 0 \in 0..(i.step - 1) /\ q + 1 \in Int
        BY <1>3, <4>1
      <4> QED
        BY <1>3, <4>2, <4>3, QuotientOf
    <3>2. m + i.step \in C
      BY <1>2, <1>3, <2>4, <2>5, <3>1
    <3> QED
      BY <1>3, <2>3, <2>4, <3>2
  <2>6. Arithmetic!Max(Tests) = m
    BY <2>1 DEF m
  <2> HIDE DEF C
  <2> QED
    BY <1>3, <2>4, <2>5, <2>6
<1>6. CASE Arithmetic!GenerateWindows(i) = {}
  <2>1. Tests = {i.end - i.test}
    BY <1>6 DEF Arithmetic!RunBacktest
  <2>2. Arithmetic!Max({i.end - i.test}) = i.end - i.test
    BY <1>3 DEF Arithmetic!Max
  <2>3. Arithmetic!Max(Tests) = i.end - i.test
    BY <2>1, <2>2
  <2>4. Arithmetic!Max(Tests) + i.test <= i.end
    BY <1>3, <2>3
  <2>5. i.end < Arithmetic!Max(Tests) + i.test + i.step
    BY <1>3, <2>3
  <2> QED
    BY <2>4, <2>5
<1> QED
  BY <1>5, <1>6

-----------------------------------------------------------------------------
(* The validation split.                                                     *)

\* _time_ordered_split(): the cut is at a change of the hour.
LEMMA SplitForward ==
    ASSUME NEW i \in Arithmetic!SplitInputs, Arithmetic!TimeOrderedSplit(i).val
    PROVE  LET c == Arithmetic!TimeOrderedSplit(i).train
           IN  /\ c >= MinTrain /\ Len(i.times) - c >= MinVal
               /\ \A x \in 1..c, y \in (c + 1)..Len(i.times) : i.times[x] < i.times[y]
<1>1. MinTrain \in Nat \ {0} /\ MinVal \in Nat \ {0} /\ MaxRows \in Nat \ {0}
      /\ MaxValue \in Nat \ {0}
  BY LearningAssumption DEF LearningAssumption, Arithmetic!EvaluationAssumption
<1>2. i.times \in Arithmetic!Sorted(1..MaxValue, MaxRows) /\ i.percent \in Nat
  <2>1. i \in [job : {"split"}, times : Arithmetic!Sorted(1..MaxValue, MaxRows), percent : 0..99]
    BY DEF Arithmetic!SplitInputs
  <2>2. i.times \in Arithmetic!Sorted(1..MaxValue, MaxRows)
    BY <2>1
  <2>3. i.percent \in 0..99
    BY <2>1
  <2>4. i.percent \in Nat
    BY <2>3
  <2> QED
    BY <2>2, <2>4
<1>3. PICK n \in 0..MaxRows : i.times \in [1..n -> 1..MaxValue]
  BY <1>2 DEF Arithmetic!Sorted
<1>4. n \in Nat /\ Len(i.times) = n
  BY <1>1, <1>3
<1>5. \A k \in 1..(n - 1) : i.times[k] <= i.times[k + 1]
  BY <1>2, <1>4 DEF Arithmetic!Sorted
<1>6. \A k \in 1..n : i.times[k] \in Int
  BY <1>1, <1>3
<1>7. \A x, y \in 1..n : x <= y => i.times[x] <= i.times[y]
  BY <1>4, <1>5, <1>6, InOrder
<1> DEFINE cut == (n * (100 - i.percent)) \div 100
           snapped == Arithmetic!Snap(i.times, cut)
<1>8. cut \in Int
  <2> DEFINE a == n * (100 - i.percent)
  <2>1. a \in Int
    BY <1>2, <1>4
  <2> HIDE DEF a
  <2>2. a \div 100 \in Int
    BY <2>1
  <2> QED
    BY <2>2 DEF a
<1>9. /\ cut >= MinTrain /\ n - cut >= MinVal /\ ~(n - snapped < MinVal)
      /\ Arithmetic!TimeOrderedSplit(i).train = snapped
  <2>1. Arithmetic!TimeOrderedSplit(i) =
          IF i.percent <= 0 \/ cut < MinTrain \/ n - cut < MinVal THEN Arithmetic!NoSplit(i)
          ELSE IF n - snapped < MinVal THEN Arithmetic!NoSplit(i)
          ELSE [train |-> snapped, val |-> TRUE]
    BY <1>4, Zenon DEF Arithmetic!TimeOrderedSplit
  <2>2. ~Arithmetic!NoSplit(i).val
    BY DEF Arithmetic!NoSplit
  <2> HIDE DEF cut, snapped
  <2> QED
    BY <1>1, <1>4, <1>8, <2>1, <2>2
<1> HIDE DEF cut
<1> DEFINE Cuts == {c \in cut..n : c = n \/ i.times[c + 1] # i.times[c]}
<1>10. Cuts \subseteq Nat /\ n \in Cuts
  BY <1>1, <1>4, <1>8, <1>9
<1>11. snapped \in Cuts
  <2>1. snapped = Arithmetic!Min(Cuts)
    BY <1>4 DEF Arithmetic!Snap
  <2> HIDE DEF Cuts, snapped
  <2> QED
    BY <1>10, <2>1, MinIsLeast
<1>12. snapped \in cut..n /\ snapped # n /\ i.times[snapped + 1] # i.times[snapped]
  <2>1. snapped \in cut..n /\ (snapped = n \/ i.times[snapped + 1] # i.times[snapped])
    BY <1>11
  <2> HIDE DEF snapped
  <2> QED
    BY <1>1, <1>4, <1>9, <2>1
<1> HIDE DEF snapped
<1>13. snapped \in 1..n /\ snapped + 1 \in 1..n
  BY <1>1, <1>4, <1>8, <1>9, <1>12
<1>14. i.times[snapped] < i.times[snapped + 1]
  BY <1>6, <1>7, <1>12, <1>13
<1>15. ASSUME NEW x \in 1..snapped, NEW y \in (snapped + 1)..n
       PROVE  i.times[x] < i.times[y]
  <2>1. x \in 1..n /\ y \in 1..n /\ x <= snapped /\ snapped + 1 <= y
    BY <1>4, <1>13, <1>15
  <2>2. i.times[x] <= i.times[snapped] /\ i.times[snapped + 1] <= i.times[y]
    BY <1>7, <1>13, <2>1
  <2>3. /\ i.times[x] \in Int /\ i.times[snapped] \in Int /\ i.times[snapped + 1] \in Int
        /\ i.times[y] \in Int
    BY <1>6, <1>13, <2>1
  <2> QED
    BY <1>14, <2>2, <2>3
<1>16. snapped >= MinTrain
  BY <1>1, <1>4, <1>8, <1>9, <1>12
<1>17. n - snapped >= MinVal
  BY <1>1, <1>4, <1>9, <1>13
<1> QED
  BY <1>4, <1>9, <1>15, <1>16, <1>17
-----------------------------------------------------------------------------
(* The purged paths.                                                         *)

LEMMA TimesMonotone ==
    ASSUME NEW a \in Int, NEW b \in Int, NEW d \in Nat, a <= b
    PROVE  a * d <= b * d
OBVIOUS

\* What a path is made of.
LEMMA PathInput ==
    ASSUME NEW i \in Arithmetic!CpcvInputs
    PROVE  /\ i.n \in Nat \ {0} /\ i.groups \in Nat \ {0} /\ i.testGroups \in Nat
           /\ i.purge \in Nat /\ i.embargo \in Nat /\ i.interval \in Nat \ {0}
           /\ i.points \in Nat \ {0} /\ i.groups <= i.n
<1>1. PathSamples \in Nat \ {0} /\ MaxGroups \in Nat \ {0} /\ MaxHours \in Nat \ {0}
  BY LearningAssumption DEF LearningAssumption, Arithmetic!EvaluationAssumption
<1>2. /\ i.n \in 1..PathSamples /\ i.groups \in 2..MaxGroups /\ i.testGroups \in 1..MaxGroups
      /\ i.purge \in 0..MaxHours /\ i.embargo \in 0..MaxHours /\ i.interval \in 1..MaxHours
      /\ i.points \in 1..2 /\ i.groups <= i.n
  BY DEF Arithmetic!CpcvInputs
<1> QED
  BY <1>1, <1>2

\* The groups part the samples, and none is empty.
LEMMA GroupsPart ==
    ASSUME NEW i \in Arithmetic!CpcvInputs
    PROVE  /\ \A g \in 0..(i.groups - 1) :
                 Arithmetic!GroupBounds(i, g) # {} /\ Arithmetic!GroupBounds(i, g) \subseteq 0..(i.n - 1)
           /\ \A x \in 0..(i.n - 1) : \E g \in 0..(i.groups - 1) :
                 x \in Arithmetic!GroupBounds(i, g)
           /\ \A g, h \in 0..(i.groups - 1) :
                 g # h => Arithmetic!GroupBounds(i, g) \cap Arithmetic!GroupBounds(i, h) = {}
<1> DEFINE n == i.n
           m == i.groups
           q == n \div m
           B(g) == Arithmetic!GroupBounds(i, g)
<1>1. n \in Nat \ {0} /\ m \in Nat \ {0} /\ m <= n
  BY PathInput
<1>2. \A g : B(g) = (g * q)..(IF g < m - 1 THEN (g + 1) * q - 1 ELSE n - 1)
  BY DEF Arithmetic!GroupBounds
<1> HIDE DEF n, m, B
<1>3. q \in Int /\ n % m \in 0..(m - 1) /\ n = (m * q) + (n % m)
  BY <1>1, Divides
<1>4. q \in Nat \ {0} /\ m * q <= n
  <2> HIDE DEF q
  <2>1. ASSUME q <= 0 PROVE FALSE
    <3>1. m * q <= 0
      BY <1>1, <1>3, <2>1
    <3> QED
      BY <1>1, <1>3, <3>1
  <2> QED
    BY <1>1, <1>3, <2>1
<1> HIDE DEF q
<1>5. (m - 1) * q = m * q - q
  BY <1>1, <1>4
<1>6. ASSUME NEW g \in 0..(m - 1), NEW h \in 0..(m - 1), g < h
      PROVE  g < m - 1 /\ (g + 1) * q <= h * q /\ g * q \in Nat /\ h * q \in Nat /\ (g + 1) * q \in Nat
  <2>1. g < m - 1 /\ g + 1 <= h /\ g + 1 \in Int /\ h \in Int
    BY <1>1, <1>6
  <2>2. (g + 1) * q <= h * q
    BY <1>4, <2>1, TimesMonotone
  <2> QED
    BY <1>1, <1>4, <2>1, <2>2
<1>7. ASSUME NEW g \in 0..(m - 1), g < m - 1
      PROVE  /\ B(g) = (g * q)..((g + 1) * q - 1) /\ g * q \in Nat
             /\ (g + 1) * q = g * q + q /\ (g + 1) * q <= (m - 1) * q
  <2>1. g * q \in Nat /\ (g + 1) * q = g * q + q
    BY <1>1, <1>4
  <2>2. g + 1 \in Int /\ m - 1 \in Int /\ g + 1 <= m - 1
    BY <1>1, <1>7
  <2>3. (g + 1) * q <= (m - 1) * q
    BY <1>4, <2>2, TimesMonotone
  <2> QED
    BY <1>2, <1>7, <2>1, <2>3
<1>8. B(m - 1) = ((m - 1) * q)..(n - 1) /\ (m - 1) * q \in Nat
  BY <1>1, <1>2, <1>4
<1>9. ASSUME NEW g \in 0..(m - 1) PROVE B(g) # {} /\ B(g) \subseteq 0..(n - 1)
  <2>1. CASE g < m - 1
    <3>1. g * q \in B(g)
      BY <1>4, <1>7, <2>1
    <3>2. (g + 1) * q <= n
      BY <1>1, <1>4, <1>5, <1>7, <2>1
    <3> QED
      BY <1>1, <1>4, <1>7, <2>1, <3>1, <3>2
  <2>2. CASE g = m - 1
    <3>1. (m - 1) * q <= n - 1
      BY <1>1, <1>4, <1>5, <1>8
    <3> QED
      BY <1>1, <1>8, <2>2, <3>1
  <2> QED
    BY <1>1, <2>1, <2>2
<1>10. ASSUME NEW x \in 0..(n - 1) PROVE \E g \in 0..(m - 1) : x \in B(g)
  <2> DEFINE k == x \div q
  <2>1. k \in Int /\ x % q \in 0..(q - 1) /\ x = (q * k) + (x % q)
    BY <1>1, <1>4, Divides
  <2> HIDE DEF k
  <2>2. k >= 0
    <3>1. ASSUME k <= -1 PROVE FALSE
      <4>1. q * k <= -q
        BY <1>4, <2>1, <3>1
      <4> QED
        BY <1>1, <1>4, <2>1, <4>1
    <3> QED
      BY <2>1, <3>1
  <2>3. k * q <= x /\ x <= k * q + q - 1
    BY <1>1, <1>4, <2>1
  <2>4. CASE k < m - 1
    <3>1. k \in 0..(m - 1)
      BY <1>1, <2>1, <2>2, <2>4
    <3>2. x \in B(k)
      BY <1>1, <1>4, <1>7, <2>3, <2>4, <3>1
    <3> QED
      BY <3>1, <3>2
  <2>5. CASE ~(k < m - 1)
    <3>1. m - 1 \in Int /\ m - 1 <= k
      BY <1>1, <2>1, <2>5
    <3>2. (m - 1) * q <= k * q
      BY <1>4, <2>1, <3>1, TimesMonotone
    <3>3. k * q \in Int
      BY <1>4, <2>1
    <3>4. x \in B(m - 1)
      BY <1>1, <1>8, <2>3, <3>2, <3>3
    <3> QED
      BY <1>1, <3>4
  <2> QED
    BY <2>4, <2>5
<1>11. ASSUME NEW g \in 0..(m - 1), NEW h \in 0..(m - 1), g < h PROVE B(g) \cap B(h) = {}
  <2>1. \A x \in B(g) : x < (g + 1) * q /\ x \in Int
    BY <1>4, <1>6, <1>7, <1>11
  <2>2. \A x \in B(h) : h * q <= x
    <3>1. \E u : B(h) = (h * q)..u
      BY <1>2
    <3> QED
      BY <3>1
  <2> QED
    BY <1>6, <1>11, <2>1, <2>2
<1>12. ASSUME NEW g \in 0..(m - 1), NEW h \in 0..(m - 1), g # h PROVE B(g) \cap B(h) = {}
  <2>1. g < h \/ h < g
    BY <1>1, <1>12
  <2> QED
    BY <1>11, <2>1
<1> QED
  BY <1>9, <1>10, <1>12 DEF n, m, B

\* A distance counted in whole intervals is one in hours.
LEMMA IntervalsAreHours ==
    ASSUME NEW d \in Nat \ {0}, NEW b \in Nat, NEW a \in Nat, a > b \div d
    PROVE  a * d > b
<1> DEFINE k == b \div d
<1>1. k \in Int /\ b % d \in 0..(d - 1) /\ b = (d * k) + (b % d)
  BY Divides
<1>2. a >= k + 1
  BY <1>1
<1> HIDE DEF k
<1>3. (k + 1) * d <= a * d
  <2>1. k + 1 \in Int /\ a \in Int
    BY <1>1
  <2> QED
    BY <1>2, <2>1, TimesMonotone
<1>4. (k + 1) * d = d * k + d
  BY <1>1
<1>5. a * d \in Int /\ d * k \in Int
  BY <1>1
<1> QED
  BY <1>1, <1>3, <1>4, <1>5

\* generate_cpcv_paths(): with one sample an interval, purge and embargo hold in hours.
LEMMA PathsKeepApart ==
    ASSUME NEW i \in Arithmetic!CpcvInputs, i.points = 1,
           NEW p \in Arithmetic!CpcvPaths(i), NEW x \in p.train, NEW t \in p.test
    PROVE  LET gap == Arithmetic!HourOf(i, x) - Arithmetic!HourOf(i, t)
           IN  /\ Arithmetic!Apart(gap, 0) > i.purge
               /\ gap > 0 => gap > i.embargo
<1>1. PICK combo \in SUBSET (0..(i.groups - 1)) : p = Arithmetic!CpcvPath(i, combo)
  BY DEF Arithmetic!CpcvPaths, Arithmetic!kSubset
<1>2. /\ i.interval \in Nat \ {0} /\ i.purge \in Nat /\ i.embargo \in Nat /\ i.n \in Nat
      /\ i.groups \in Nat
  BY PathInput
<1> DEFINE test == UNION {Arithmetic!GroupBounds(i, g) : g \in combo}
           rest == UNION {Arithmetic!GroupBounds(i, g) : g \in (0..(i.groups - 1)) \ combo}
<1>3. /\ t \in test /\ x \in rest
      /\ ~Arithmetic!Purged(i, x, test) /\ ~Arithmetic!Embargoed(i, x, test)
  BY <1>1 DEF Arithmetic!CpcvPath
<1>4. test \subseteq Int /\ rest \subseteq Int
  <2>1. \A g \in 0..(i.groups - 1) : Arithmetic!GroupBounds(i, g) \subseteq Int
    BY <1>2, GroupsPart
  <2> QED
    BY <2>1
<1> HIDE DEF test, rest
<1>5. x \in Int /\ t \in Int
  BY <1>3, <1>4
<1>6. /\ ~(Arithmetic!Apart(x, t) <= i.purge \div i.interval)
      /\ x > t => ~(x - t <= i.embargo \div i.interval)
  BY <1>3 DEF Arithmetic!Purged, Arithmetic!Embargoed
<1>7. i.purge \div i.interval \in Int /\ i.embargo \div i.interval \in Int
  <2>1. \A a \in Nat : \A d \in Nat \ {0} : a \div d \in Int
    BY Divides
  <2> QED
    BY <1>2, <2>1
<1>8. Arithmetic!Apart(x, t) \in Nat /\ Arithmetic!Apart(x, t) * i.interval > i.purge
  <2>1. Arithmetic!Apart(x, t) \in Nat
    BY <1>5 DEF Arithmetic!Apart
  <2>2. Arithmetic!Apart(x, t) > i.purge \div i.interval
    BY <1>6, <1>7, <2>1
  <2> QED
    BY <1>2, <2>1, <2>2, IntervalsAreHours
<1>9. x > t => (x - t) * i.interval > i.embargo
  <2> SUFFICES ASSUME x > t PROVE (x - t) * i.interval > i.embargo
    OBVIOUS
  <2>1. x - t \in Nat /\ x - t > i.embargo \div i.interval
    BY <1>5, <1>6, <1>7
  <2> QED
    BY <1>2, <2>1, IntervalsAreHours
<1>10. Arithmetic!HourOf(i, x) = x * i.interval /\ Arithmetic!HourOf(i, t) = t * i.interval
  <2>1. x \div 1 = x /\ t \div 1 = t
    BY <1>5
  <2> QED
    BY <2>1 DEF Arithmetic!HourOf
<1>11. x * i.interval - t * i.interval = (x - t) * i.interval
  BY <1>2, <1>5
<1> DEFINE gap == (x - t) * i.interval
<1>12. gap \in Int
  BY <1>2, <1>5
<1>13. CASE x < t
  <2>1. Arithmetic!Apart(x, t) = t - x
    BY <1>13 DEF Arithmetic!Apart
  <2>2. (t - x) * i.interval = -gap /\ (t - x) * i.interval > i.purge
    BY <1>2, <1>5, <1>8, <2>1
  <2> HIDE DEF gap
  <2>3. gap < 0 /\ Arithmetic!Apart(gap, 0) = 0 - gap
    BY <1>2, <1>12, <2>2 DEF Arithmetic!Apart
  <2>4. Arithmetic!Apart(gap, 0) > i.purge /\ (gap > 0 => gap > i.embargo)
    BY <1>2, <1>12, <2>2, <2>3
  <2> QED
    BY <1>10, <1>11, <2>4 DEF gap
<1>14. CASE ~(x < t)
  <2>1. Arithmetic!Apart(x, t) = x - t
    BY <1>14 DEF Arithmetic!Apart
  <2>2. gap > i.purge
    BY <1>8, <2>1
  <2>3. x # t
    BY <1>2, <1>5, <2>2
  <2>4. gap > i.embargo
    BY <1>5, <1>9, <1>14, <2>3
  <2> HIDE DEF gap
  <2>5. Arithmetic!Apart(gap, 0) = gap
    BY <1>2, <1>12, <2>2 DEF Arithmetic!Apart
  <2> QED
    BY <1>10, <1>11, <2>2, <2>4, <2>5 DEF gap
<1> QED
  BY <1>13, <1>14
-----------------------------------------------------------------------------
\* Both modules count with the same operator.
LEMMA SameCount ==
    ASSUME NEW S
    PROVE  Arithmetic!Cardinality(S) = Cardinality(S)
BY Zenon DEF Arithmetic!Cardinality, Cardinality

\* One of the chosen groups is exchanged for another.
LEMMA SwapGroup ==
    ASSUME NEW G, IsFiniteSet(G), NEW k, NEW c \in Arithmetic!kSubset(k, G),
           NEW a \in c, NEW b \in G, b \notin c
    PROVE  (c \ {a}) \cup {b} \in Arithmetic!kSubset(k, G)
<1>1. c \in SUBSET G /\ Cardinality(c) = k
  BY SameCount DEF Arithmetic!kSubset
<1>2. IsFiniteSet(c) /\ Cardinality(c) \in Nat
  BY <1>1, FS_Subset, FS_CardinalityType
<1>3. IsFiniteSet(c \ {a}) /\ Cardinality(c \ {a}) = Cardinality(c) - 1
  BY <1>2, FS_RemoveElement
<1>4. Cardinality((c \ {a}) \cup {b}) = Cardinality(c \ {a}) + 1
  BY <1>3, FS_AddElement
<1>5. Cardinality((c \ {a}) \cup {b}) = k
  BY <1>1, <1>2, <1>3, <1>4
<1>6. (c \ {a}) \cup {b} \in SUBSET G
  BY <1>1
<1> QED
  BY <1>5, <1>6, SameCount DEF Arithmetic!kSubset

\* Every group is in as many of the choices as any other.
LEMMA GroupsAlike ==
    ASSUME NEW G, IsFiniteSet(G), NEW k, NEW g \in G, NEW h \in G
    PROVE  LET Choices(e) == {c \in Arithmetic!kSubset(k, G) : e \in c}
           IN  IsFiniteSet(Choices(g)) /\ Cardinality(Choices(g)) = Cardinality(Choices(h))
<1> DEFINE K == Arithmetic!kSubset(k, G)
           C(e) == {c \in K : e \in c}
           f == [c \in C(g) |-> IF h \in c THEN c ELSE (c \ {g}) \cup {h}]
<1>1. \A c \in K : c \subseteq G
  BY DEF Arithmetic!kSubset
<1>2. IsFiniteSet(C(g))
  <2>1. IsFiniteSet(SUBSET G)
    BY FS_SUBSET
  <2>2. C(g) \in SUBSET (SUBSET G)
    BY <1>1
  <2> QED
    BY <2>1, <2>2, FS_Subset
<1>3. \A c \in K : \A a \in c : \A b \in G : b \notin c => (c \ {a}) \cup {b} \in K
  BY SwapGroup
<1> HIDE DEF K
<1>4. f \in [C(g) -> C(h)]
  <2>1. ASSUME NEW c \in C(g) PROVE (IF h \in c THEN c ELSE (c \ {g}) \cup {h}) \in C(h)
    BY <1>3
  <2> QED
    BY <2>1
<1>5. ASSUME NEW c \in C(g), NEW d \in C(g), f[c] = f[d] PROVE c = d
  <2>1. g \in c /\ g \in d
    OBVIOUS
  <2>2. CASE h \in c /\ h \in d
    BY <1>5, <2>2
  <2>3. CASE h \in c /\ h \notin d
    <3>1. c = (d \ {g}) \cup {h} /\ g # h
      BY <1>5, <2>1, <2>3
    <3> QED
      BY <2>1, <3>1
  <2>4. CASE h \notin c /\ h \in d
    <3>1. d = (c \ {g}) \cup {h} /\ g # h
      BY <1>5, <2>1, <2>4
    <3> QED
      BY <2>1, <3>1
  <2>5. CASE h \notin c /\ h \notin d
    <3>1. (c \ {g}) \cup {h} = (d \ {g}) \cup {h}
      BY <1>5, <2>5
    <3>2. \A e : e \in c <=> e \in d
      BY <2>1, <2>5, <3>1
    <3> QED
      BY <3>2
  <2> QED
    BY <2>2, <2>3, <2>4, <2>5
<1>6. ASSUME NEW d \in C(h) PROVE \E c \in C(g) : f[c] = d
  <2>1. h \in d /\ d \in K
    OBVIOUS
  <2>2. CASE g \in d
    <3>1. d \in C(g) /\ f[d] = d
      BY <2>1, <2>2
    <3> QED
      BY <3>1
  <2>3. CASE g \notin d
    <3> DEFINE c == (d \ {h}) \cup {g}
    <3>1. c \in K /\ g \in c /\ h \notin c
      BY <1>3, <2>1, <2>3
    <3>2. \A e : e \in (c \ {g}) \cup {h} <=> e \in d
      BY <2>1, <2>3
    <3>3. (c \ {g}) \cup {h} = d
      BY <3>2
    <3>4. c \in C(g) /\ f[c] = d
      BY <3>1, <3>3
    <3> QED
      BY <3>4
  <2> QED
    BY <2>2, <2>3
<1>7. ExistsBijection(C(g), C(h))
  <2> HIDE DEF f, C
  <2>1. f \in Bijection(C(g), C(h))
    BY <1>4, <1>5, <1>6 DEF Bijection, Injection, IsInjective, Surjection
  <2> QED
    BY <2>1 DEF ExistsBijection
<1>8. Cardinality(C(h)) = Cardinality(C(g))
  <2> HIDE DEF C
  <2> QED
    BY <1>2, <1>7, FS_Bijection
<1> QED
  BY <1>2, <1>8 DEF K

\* generate_cpcv_paths(): the paths that test a sample are as many as the choices
\* of groups that contain the first.
LEMMA SamplesAlike ==
    ASSUME NEW i \in Arithmetic!CpcvInputs, NEW x \in 0..(i.n - 1)
    PROVE  Arithmetic!Cardinality({p \in Arithmetic!CpcvPaths(i) : x \in p.test}) =
               Arithmetic!Cardinality({c \in Arithmetic!kSubset(i.testGroups, 0..(i.groups - 1)) :
                                0 \in c})
<1> DEFINE G == 0..(i.groups - 1)
           K == Arithmetic!kSubset(i.testGroups, G)
           C(e) == {c \in K : e \in c}
           B(g) == Arithmetic!GroupBounds(i, g)
           A == {p \in Arithmetic!CpcvPaths(i) : x \in p.test}
           Path(c) == Arithmetic!CpcvPath(i, c)
<1>1. i.groups \in Nat \ {0}
  BY PathInput
<1>2. IsFiniteSet(G) /\ 0 \in G
  BY <1>1, FS_Interval
<1>3. /\ \A g \in G : B(g) # {}
      /\ \A g, h \in G : g # h => B(g) \cap B(h) = {}
  BY GroupsPart
<1>4. PICK g \in G : x \in B(g)
  BY GroupsPart
<1>5. \A c \in K : c \subseteq G
  BY DEF Arithmetic!kSubset
<1>6. Arithmetic!CpcvPaths(i) = {Path(c) : c \in K}
  BY DEF Arithmetic!CpcvPaths
<1>7. \A c : Path(c).test = UNION {B(e) : e \in c}
  BY DEF Arithmetic!CpcvPath
<1>8. IsFiniteSet(C(g)) /\ Cardinality(C(g)) = Cardinality(C(0))
  BY <1>2, GroupsAlike
<1> HIDE DEF G, K, B, Path
<1> DEFINE f == [c \in C(g) |-> Path(c)]
<1>9. \A c \in K : x \in Path(c).test <=> g \in c
  <2> SUFFICES ASSUME NEW c \in K PROVE x \in Path(c).test <=> g \in c
    OBVIOUS
  <2>1. x \in Path(c).test <=> \E e \in c : x \in B(e)
    BY <1>7
  <2>2. \A e \in c : x \in B(e) => e = g
    BY <1>3, <1>4, <1>5
  <2> QED
    BY <1>4, <2>1, <2>2
<1>10. f \in [C(g) -> A]
  BY <1>6, <1>9
<1>11. ASSUME NEW c \in C(g), NEW d \in C(g), f[c] = f[d] PROVE c = d
  <2>1. Path(c).test = Path(d).test
    BY <1>11
  <2>2. c \in SUBSET G /\ d \in SUBSET G
    BY <1>5
  <2>3. \A r, s \in SUBSET G : Path(r).test = Path(s).test => r \subseteq s
    <3> SUFFICES ASSUME NEW r \in SUBSET G, NEW s \in SUBSET G,
                        Path(r).test = Path(s).test, NEW e \in r
                 PROVE  e \in s
      OBVIOUS
    <3>1. PICK y : y \in B(e)
      BY <1>3
    <3>2. y \in Path(r).test
      BY <1>7, <3>1
    <3>3. PICK u \in s : y \in B(u)
      BY <1>7, <3>2
    <3> QED
      BY <1>3, <3>1, <3>3
  <2>4. c \subseteq d /\ d \subseteq c
    <3> HIDE DEF C, f
    <3> QED
      BY <2>1, <2>2, <2>3
  <2> QED
    BY <2>4
<1>12. ASSUME NEW p \in A PROVE \E c \in C(g) : f[c] = p
  <2>1. PICK c \in K : p = Path(c)
    BY <1>6
  <2>2. c \in C(g)
    BY <1>9, <2>1
  <2> QED
    BY <2>1, <2>2
<1>13. ExistsBijection(C(g), A)
  <2> HIDE DEF f, C, A
  <2>1. f \in Bijection(C(g), A)
    BY <1>10, <1>11, <1>12 DEF Bijection, Injection, IsInjective, Surjection
  <2> QED
    BY <2>1 DEF ExistsBijection
<1>14. Cardinality(A) = Cardinality(C(0))
  <2> HIDE DEF A, C
  <2> QED
    BY <1>8, <1>13, FS_Bijection
<1>15. Arithmetic!Cardinality(A) = Arithmetic!Cardinality(C(0))
  BY <1>14, SameCount
<1> QED
  BY <1>15 DEF K, G
-----------------------------------------------------------------------------
(* The conformal quantile.                                                   *)

\* The k-th of the scores is one that k of them do not exceed, and no smaller
\* than the ones before it.
LEMMA SmallestIs ==
    ASSUME NEW n \in Nat \ {0}, NEW s \in [1..n -> 0..MaxValue], NEW k \in 1..n
    PROVE  /\ Arithmetic!Smallest(s, k) \in 0..MaxValue
           /\ Cardinality({j \in 1..n : s[j] <= Arithmetic!Smallest(s, k)}) >= k
           /\ \A m \in 1..n :
                 k <= m => Arithmetic!Smallest(s, k) <= Arithmetic!Smallest(s, m)
<1> DEFINE Upto(x) == {j \in 1..n : s[j] <= x}
           Values == {s[j] : j \in 1..n}
           S(m) == {x \in Values : Cardinality(Upto(x)) >= m}
<1>0. MaxValue \in Nat
  BY LearningAssumption DEF LearningAssumption, Arithmetic!EvaluationAssumption
<1>1. DOMAIN s = 1..n
  OBVIOUS
<1>2. \A m : Arithmetic!Smallest(s, m) = Arithmetic!Min(S(m))
  <2> SUFFICES ASSUME NEW m PROVE Arithmetic!Smallest(s, m) = Arithmetic!Min(S(m))
    OBVIOUS
  <2>1. S(m) = {x \in {s[j] : j \in DOMAIN s} :
                   Arithmetic!Cardinality({j \in DOMAIN s : s[j] <= x}) >= m}
    BY <1>1, SameCount
  <2> QED
    BY <2>1 DEF Arithmetic!Smallest
<1>3. Values \subseteq 0..MaxValue /\ Values # {}
  <2>1. s[1] \in Values
    OBVIOUS
  <2> QED
    BY <2>1
<1>4. \A x : IsFiniteSet(Upto(x)) /\ Cardinality(Upto(x)) \in Nat
  <2> SUFFICES ASSUME NEW x PROVE IsFiniteSet(Upto(x)) /\ Cardinality(Upto(x)) \in Nat
    OBVIOUS
  <2>1. IsFiniteSet(1..n) /\ Upto(x) \in SUBSET (1..n)
    BY FS_Interval
  <2> HIDE DEF Upto
  <2> QED
    BY <2>1, FS_Subset, FS_CardinalityType
<1>5. \E x \in Values : Upto(x) = 1..n
  <2> DEFINE g == Arithmetic!Max(Values)
  <2>1. g \in Values /\ \A x \in Values : x <= g
    <3> HIDE DEF Values
    <3> QED
      BY <1>0, <1>3, MaxIsGreatest
  <2>2. \A j \in 1..n : s[j] <= g
    BY <2>1
  <2> HIDE DEF g
  <2>3. Upto(g) = 1..n
    BY <2>2
  <2> QED
    BY <2>1, <2>3
<1>6. Cardinality(1..n) = n
  BY FS_Interval
<1> HIDE DEF Upto, Values
<1>7. \A m \in 1..n : S(m) # {} /\ S(m) \subseteq 0..MaxValue
  <2>1. PICK x \in Values : Upto(x) = 1..n
    BY <1>5
  <2>2. Cardinality(Upto(x)) = n
    BY <1>6, <2>1
  <2>3. \A m \in 1..n : x \in S(m)
    BY <2>2
  <2> QED
    BY <1>3, <2>3
<1>8. \A m \in 1..n : Arithmetic!Min(S(m)) \in S(m)
                        /\ \A x \in S(m) : Arithmetic!Min(S(m)) <= x
  <2> SUFFICES ASSUME NEW m \in 1..n
               PROVE  Arithmetic!Min(S(m)) \in S(m)
                        /\ \A x \in S(m) : Arithmetic!Min(S(m)) <= x
    OBVIOUS
  <2>1. S(m) # {} /\ S(m) \in SUBSET Nat
    BY <1>7
  <2> HIDE DEF S
  <2> QED
    BY <2>1, MinIsLeast
<1>9. Arithmetic!Min(S(k)) \in Values /\ Cardinality(Upto(Arithmetic!Min(S(k)))) >= k
  BY <1>8
<1>10. \A m \in 1..n : k <= m => S(m) \subseteq S(k)
  BY <1>4
<1>11. \A m \in 1..n : k <= m => Arithmetic!Min(S(k)) <= Arithmetic!Min(S(m))
  <2> HIDE DEF S
  <2> QED
    BY <1>8, <1>10
<1> QED
  BY <1>2, <1>3, <1>9, <1>11 DEF Upto

\* train_conformal_calibrator(): the band is as wide as its coverage needs.
LEMMA QuantileCovers ==
    ASSUME NEW i \in Arithmetic!ConformalInputs
    PROVE  LET n == Len(i.scores)
               needed == Arithmetic!Min({n, Arithmetic!Ceiling((n + 1) * (10 - i.alpha), 10)})
           IN  Arithmetic!Cardinality({k \in 1..n : n * i.scores[k] <= Arithmetic!QHat(i)}) >= needed
<1>1. MaxRows \in Nat \ {0} /\ MaxValue \in Nat
  BY LearningAssumption DEF LearningAssumption, Arithmetic!EvaluationAssumption
<1>2. PICK n \in 1..(MaxRows - 1) : i.scores \in [1..n -> 0..MaxValue]
  BY DEF Arithmetic!ConformalInputs
<1>3. n \in Nat \ {0} /\ Len(i.scores) = n /\ i.alpha \in 1..9
  BY <1>1, <1>2 DEF Arithmetic!ConformalInputs
<1> DEFINE c == Arithmetic!Ceiling((n + 1) * (10 - i.alpha), 10)
           L == Arithmetic!Min({n, c})
           s == i.scores
           pos == L * (n - 1)
           lo == pos \div n
           frac == pos % n
           below == Arithmetic!Smallest(s, lo + 1)
           above == IF lo + 2 <= n THEN Arithmetic!Smallest(s, lo + 2) ELSE below
<1>4. c \in Nat \ {0}
  <2> DEFINE a == ((n + 1) * (10 - i.alpha)) + 10 - 1
             k == a \div 10
  <2>1. a \in Nat /\ a >= 10
    <3>1. (n + 1) * (10 - i.alpha) \in Nat \ {0}
      BY <1>3
    <3> QED
      BY <3>1
  <2> HIDE DEF a
  <2>2. k \in Int /\ k >= 1
    BY <2>1
  <2>3. c = k
    BY DEF a, Arithmetic!Ceiling
  <2> QED
    BY <2>2, <2>3
<1> HIDE DEF c
<1>5. L \in 1..n
  <2>1. {n, c} \in SUBSET Nat /\ {n, c} # {}
    BY <1>3, <1>4
  <2>2. L \in {n, c} /\ \A x \in {n, c} : L <= x
    BY <2>1, MinIsLeast
  <2> HIDE DEF L
  <2> QED
    BY <1>3, <1>4, <2>2
<1>6. Arithmetic!Level(i) = L
  BY <1>3 DEF Arithmetic!Level, c
<1>7. Arithmetic!QHat(i) = n * below + frac * (above - below)
  BY <1>3, <1>6, Zenon DEF Arithmetic!QHat
<1> HIDE DEF L
<1>8. lo = L - 1 /\ frac \in 0..(n - 1)
  <2>1. pos = n * (L - 1) + (n - L)
    BY <1>3, <1>5
  <2> HIDE DEF pos
  <2>2. n - L \in 0..(n - 1) /\ L - 1 \in Int
    BY <1>3, <1>5
  <2>3. pos \div n = L - 1 /\ pos % n = n - L
    BY <1>3, <2>1, <2>2, QuotientOf
  <2> QED
    BY <2>2, <2>3
<1> HIDE DEF lo, frac
<1>9. /\ below \in 0..MaxValue /\ above \in 0..MaxValue /\ below <= above
      /\ Cardinality({j \in 1..n : s[j] <= below}) >= L
  <2>1. /\ below = Arithmetic!Smallest(s, L)
        /\ above = IF L + 1 <= n THEN Arithmetic!Smallest(s, L + 1) ELSE below
    <3>1. lo + 1 = L /\ lo + 2 = L + 1
      BY <1>5, <1>8
    <3> QED
      BY <3>1
  <2>2. \A m \in 1..n : Arithmetic!Smallest(s, m) \in 0..MaxValue
    BY <1>2, <1>3, SmallestIs
  <2>3. /\ Cardinality({j \in 1..n : s[j] <= Arithmetic!Smallest(s, L)}) >= L
        /\ \A m \in 1..n : L <= m => Arithmetic!Smallest(s, L) <= Arithmetic!Smallest(s, m)
    BY <1>2, <1>3, <1>5, SmallestIs
  <2>4. L + 1 <= n => L + 1 \in 1..n /\ L <= L + 1
    BY <1>3, <1>5
  <2> QED
    BY <1>5, <2>1, <2>2, <2>3, <2>4
<1> HIDE DEF below, above
<1> DEFINE Q == Arithmetic!QHat(i)
<1>10. Q \in Int /\ n * below <= Q
  <2>1. above - below \in Nat /\ frac \in Nat
    BY <1>3, <1>8, <1>9
  <2>2. frac * (above - below) \in Nat
    BY <2>1
  <2>3. n * below \in Int
    BY <1>3, <1>9
  <2> QED
    BY <1>7, <2>2, <2>3
<1> HIDE DEF Q
<1> DEFINE Low == {j \in 1..n : s[j] <= below}
           Covered == {k \in 1..n : n * s[k] <= Q}
<1>11. Low \subseteq Covered
  <2> SUFFICES ASSUME NEW j \in 1..n, s[j] <= below PROVE n * s[j] <= Q
    OBVIOUS
  <2>1. s[j] \in Int /\ below \in Int /\ n \in Nat
    BY <1>2, <1>3, <1>9
  <2>2. s[j] * n <= below * n /\ s[j] * n = n * s[j] /\ below * n = n * below
    BY <2>1, TimesMonotone
  <2>3. n * s[j] \in Int /\ n * below \in Int
    BY <2>1
  <2> QED
    BY <1>10, <2>2, <2>3
<1>12. IsFiniteSet(Covered)
  <2>1. IsFiniteSet(1..n) /\ Covered \in SUBSET (1..n)
    BY <1>3, FS_Interval
  <2> HIDE DEF Covered
  <2> QED
    BY <2>1, FS_Subset
<1>13. Cardinality(Low) \in Nat /\ Cardinality(Covered) \in Nat /\ Cardinality(Low) <= Cardinality(Covered)
  <2> HIDE DEF Low, Covered
  <2> QED
    BY <1>11, <1>12, FS_Subset, FS_CardinalityType
<1>14. Arithmetic!Cardinality(Covered) >= L
  <2>1. Cardinality(Low) >= L
    BY <1>9
  <2> HIDE DEF Low, Covered
  <2>2. Cardinality(Covered) >= L
    BY <1>5, <1>13, <2>1
  <2> QED
    BY <2>2, SameCount
<1> QED
  BY <1>3, <1>14 DEF L, c, Q
-----------------------------------------------------------------------------
(* The pairing of two series.                                                *)

\* In a series that never descends, the readings before an instant come first.
LEMMA Bisection ==
    ASSUME NEW n \in Nat, NEW s \in [1..n -> Nat], NEW t \in Nat,
           \A x, y \in 1..n : x <= y => s[x] <= s[y]
    PROVE  /\ Arithmetic!BisectLeft(s, t) \in 0..n
           /\ \A k \in 1..n : s[k] < t <=> k <= Arithmetic!BisectLeft(s, t)
<1> DEFINE W == {k \in 1..n : s[k] < t}
<1>1. Arithmetic!BisectLeft(s, t) = Cardinality(W)
  <2>1. DOMAIN s = 1..n
    OBVIOUS
  <2> QED
    BY <2>1, SameCount DEF Arithmetic!BisectLeft
<1>2. CASE W = {}
  <2>1. Cardinality(W) = 0
    BY <1>2, FS_EmptySet
  <2>2. \A k \in 1..n : ~(s[k] < t) /\ ~(k <= 0)
    BY <1>2
  <2>3. Arithmetic!BisectLeft(s, t) = 0
    BY <1>1, <2>1
  <2> HIDE DEF W
  <2> QED
    BY <2>2, <2>3
<1>3. CASE W # {}
  <2> DEFINE g == Arithmetic!Max(W)
  <2>1. g \in W /\ \A k \in W : k <= g
    <3>1. W \in SUBSET (0..n)
      OBVIOUS
    <3> HIDE DEF W
    <3> QED
      BY <1>3, <3>1, MaxIsGreatest
  <2> HIDE DEF g
  <2>2. g \in 1..n /\ s[g] < t
    BY <2>1
  <2>3. \A k \in 1..n : s[k] < t <=> k <= g
    <3> SUFFICES ASSUME NEW k \in 1..n PROVE s[k] < t <=> k <= g
      OBVIOUS
    <3>1. s[k] < t => k <= g
      BY <2>1
    <3>2. k <= g => s[k] <= s[g]
      BY <2>2
    <3>3. s[k] \in Nat /\ s[g] \in Nat
      BY <2>2
    <3> QED
      BY <2>2, <3>1, <3>2, <3>3
  <2>4. W = 1..g
    BY <2>2, <2>3
  <2>5. Cardinality(W) = g
    <3>1. g \in Nat /\ 1 <= g
      BY <2>2
    <3>2. Cardinality(1..g) = g
      BY <3>1, FS_Interval
    <3> QED
      BY <2>4, <3>2
  <2>6. Arithmetic!BisectLeft(s, t) = g
    BY <1>1, <2>5
  <2> HIDE DEF W
  <2> QED
    BY <2>2, <2>3, <2>6
<1> QED
  BY <1>2, <1>3

\* _nearest_pair_error(): one of the two neighbours is the nearest reading.
LEMMA PairIsNearest ==
    ASSUME NEW i \in Arithmetic!PairInputs
    PROVE  LET gaps == {Arithmetic!Apart(i.times[k], i.at) : k \in DOMAIN i.times}
               near == {d \in gaps : d <= i.window}
           IN  Arithmetic!NearestPair(i) = IF near = {} THEN {} ELSE {Arithmetic!Min(near)}
<1>1. i.times \in Arithmetic!Sorted(0..MaxValue, MaxRows) /\ i.at \in Nat /\ i.window \in Nat
      /\ MaxValue \in Nat /\ MaxRows \in Nat
  BY LearningAssumption
  DEF LearningAssumption, Arithmetic!EvaluationAssumption, Arithmetic!PairInputs
<1> DEFINE s == i.times
           t == i.at
<1>2. PICK n \in 0..MaxRows : s \in [1..n -> 0..MaxValue]
  BY <1>1 DEF Arithmetic!Sorted
<1>3. n \in Nat /\ Len(s) = n /\ DOMAIN s = 1..n /\ s \in [1..n -> Nat]
  BY <1>1, <1>2
<1>4. \A x, y \in 1..n : x <= y => s[x] <= s[y]
  <2>1. \A k \in 1..(n - 1) : s[k] <= s[k + 1]
    BY <1>1, <1>3 DEF Arithmetic!Sorted
  <2>2. \A k \in 1..n : s[k] \in Int
    BY <1>3
  <2> QED
    BY <1>3, <2>1, <2>2, InOrder
<1> DEFINE pos == Arithmetic!BisectLeft(s, t)
<1>5. pos \in 0..n /\ \A k \in 1..n : s[k] < t <=> k <= pos
  BY <1>1, <1>3, <1>4, Bisection
<1> DEFINE Gap(k) == Arithmetic!Apart(s[k], t)
           beside == {k \in Arithmetic!Neighbours(pos) : k < n}
           best == {k \in beside : \A q \in beside : Gap(k + 1) <= Gap(q + 1)}
           gaps == {Gap(k) : k \in 1..n}
           near == {d \in gaps : d <= i.window}
<1>6. Arithmetic!NearestPair(i) =
        IF beside = {} THEN {} ELSE {d \in {Gap(k + 1) : k \in best} : d <= i.window}
  BY <1>3, Zenon DEF Arithmetic!NearestPair
<1> HIDE DEF pos
<1>7. beside = {k \in {pos - 1, pos} : 0 <= k /\ k < n}
  BY <1>3, <1>5 DEF Arithmetic!Neighbours
<1>8. \A k \in 1..n : Gap(k) \in Nat /\ Gap(k) = IF k <= pos THEN t - s[k] ELSE s[k] - t
  <2> SUFFICES ASSUME NEW k \in 1..n
               PROVE  Gap(k) \in Nat /\ Gap(k) = IF k <= pos THEN t - s[k] ELSE s[k] - t
    OBVIOUS
  <2>1. s[k] \in Nat /\ t \in Nat
    BY <1>1, <1>3
  <2>2. s[k] < t <=> k <= pos
    BY <1>5
  <2> QED
    BY <2>1, <2>2 DEF Arithmetic!Apart
<1> HIDE DEF beside
<1>9. \A k \in beside : k + 1 \in 1..n
  BY <1>3, <1>5, <1>7
<1>10. ASSUME NEW k \in 1..n PROVE \E q \in beside : Gap(q + 1) <= Gap(k)
  <2>1. CASE k <= pos
    <3>1. pos - 1 \in beside /\ (pos - 1) + 1 = pos /\ pos \in 1..n
      BY <1>3, <1>5, <1>7, <2>1
    <3>2. s[k] <= s[pos] /\ s[k] \in Nat /\ s[pos] \in Nat
      BY <1>3, <1>4, <2>1, <3>1
    <3>3. Gap(k) = t - s[k] /\ Gap(pos) = t - s[pos]
      BY <1>5, <1>8, <2>1, <3>1
    <3>4. Gap(pos) <= Gap(k)
      BY <1>1, <3>2, <3>3
    <3> QED
      BY <3>1, <3>4
  <2>2. CASE ~(k <= pos)
    <3>1. pos \in beside /\ pos + 1 \in 1..n /\ pos + 1 <= k /\ ~(pos + 1 <= pos)
      BY <1>3, <1>5, <1>7, <2>2
    <3>2. s[pos + 1] <= s[k] /\ s[k] \in Nat /\ s[pos + 1] \in Nat
      BY <1>3, <1>4, <3>1
    <3>3. Gap(k) = s[k] - t /\ Gap(pos + 1) = s[pos + 1] - t
      BY <1>8, <2>2, <3>1
    <3>4. Gap(pos + 1) <= Gap(k)
      BY <1>1, <3>2, <3>3
    <3> QED
      BY <3>1, <3>4
  <2> QED
    BY <2>1, <2>2
<1>11. near \in SUBSET Nat
  BY <1>8
<1>12. CASE beside = {}
  <2>1. 1..n = {}
    BY <1>10, <1>12
  <2>2. near = {}
    BY <2>1
  <2> QED
    BY <1>3, <1>6, <1>12, <2>2
<1>13. CASE beside # {}
  <2>1. PICK b \in best : TRUE
    <3> DEFINE D == {Gap(k + 1) : k \in beside}
    <3>1. D \in SUBSET Nat /\ D # {}
      BY <1>8, <1>9, <1>13
    <3>2. PICK d \in D : \A e \in D : d <= e
      <4> HIDE DEF D
      <4> QED
        BY <3>1, LeastExists
    <3>3. PICK b \in beside : d = Gap(b + 1)
      BY <3>2
    <3>4. b \in best
      BY <3>2, <3>3
    <3> QED
      BY <3>4
  <2> DEFINE m == Gap(b + 1)
  <2>2. m \in gaps /\ m \in Nat
    BY <1>8, <1>9, <2>1
  <2>3. \A k \in best : Gap(k + 1) = m
    <3> SUFFICES ASSUME NEW k \in best PROVE Gap(k + 1) = Gap(b + 1)
      OBVIOUS
    <3>1. Gap(k + 1) <= Gap(b + 1) /\ Gap(b + 1) <= Gap(k + 1)
      BY <2>1
    <3>2. Gap(k + 1) \in Nat /\ Gap(b + 1) \in Nat
      BY <1>8, <1>9, <2>1
    <3> HIDE DEF Gap
    <3> QED
      BY <3>1, <3>2
  <2>4. {Gap(k + 1) : k \in best} = {m}
    BY <2>1, <2>3
  <2>5. \A d \in gaps : d \in Nat /\ m <= d
    <3> SUFFICES ASSUME NEW k \in 1..n PROVE Gap(k) \in Nat /\ m <= Gap(k)
      OBVIOUS
    <3>1. PICK q \in beside : Gap(q + 1) <= Gap(k)
      BY <1>10
    <3>2. Gap(b + 1) <= Gap(q + 1)
      BY <2>1, <3>1
    <3>3. Gap(k) \in Nat /\ Gap(q + 1) \in Nat
      BY <1>8, <1>9, <3>1
    <3> HIDE DEF Gap
    <3> QED
      BY <2>2, <3>1, <3>2, <3>3
  <2> HIDE DEF m, best
  <2>6. Arithmetic!NearestPair(i) = {d \in {m} : d <= i.window}
    BY <1>6, <1>13, <2>4
  <2> HIDE DEF gaps
  <2>7. CASE m <= i.window
    <3>1. m \in near
      BY <2>2, <2>7
    <3>2. Arithmetic!Min(near) \in near /\ Arithmetic!Min(near) <= m
      <4> HIDE DEF near
      <4> QED
        BY <1>11, <3>1, MinIsLeast
    <3>3. Arithmetic!Min(near) \in Nat /\ m <= Arithmetic!Min(near)
      BY <2>5, <3>2
    <3>4. Arithmetic!Min(near) = m
      <4> HIDE DEF near
      <4> QED
        BY <2>2, <3>2, <3>3
    <3>5. Arithmetic!NearestPair(i) = {m}
      BY <2>6, <2>7
    <3> HIDE DEF near
    <3>6. Arithmetic!NearestPair(i) = IF near = {} THEN {} ELSE {Arithmetic!Min(near)}
      BY <3>1, <3>4, <3>5
    <3> QED
      BY <1>3, <3>6 DEF near, gaps
  <2>8. CASE ~(m <= i.window)
    <3>1. near = {}
      <4>1. ASSUME NEW d \in gaps, d <= i.window PROVE FALSE
        <5>1. d \in Nat /\ m <= d
          BY <2>5
        <5> QED
          BY <1>1, <2>2, <2>8, <4>1, <5>1
      <4> QED
        BY <4>1
    <3>2. Arithmetic!NearestPair(i) = {}
      BY <2>6, <2>8
    <3> QED
      BY <1>3, <3>1, <3>2 DEF gaps
  <2> QED
    BY <2>7, <2>8
<1> QED
  BY <1>12, <1>13
-----------------------------------------------------------------------------
(* The jobs.                                                                 *)

\* A job's result is computed from its input; nothing is judged elsewhere.
JudgingInv ==
    /\ \/ result = None
       \/ input \in Arithmetic!BacktestInputs /\ result = Arithmetic!RunBacktest(input)
       \/ input \in Arithmetic!CpcvInputs /\ result = Arithmetic!CpcvPaths(input)
       \/ input \in Arithmetic!SplitInputs /\ result = Arithmetic!TimeOrderedSplit(input)
       \/ input \in Arithmetic!ConformalInputs /\ result = Arithmetic!QHat(input)
       \/ input \in Arithmetic!PairInputs /\ result = Arithmetic!NearestPair(input)
    /\ part = "judging" =>
         input \in Arithmetic!BacktestInputs \cup Arithmetic!CpcvInputs \cup Arithmetic!SplitInputs
                      \cup Arithmetic!ConformalInputs \cup Arithmetic!PairInputs

\* The inputs of a job carry its name.
LEMMA InputsAreNamed ==
    /\ \A i \in Arithmetic!BacktestInputs : i.job = "backtest"
    /\ \A i \in Arithmetic!CpcvInputs : i.job = "cpcv"
    /\ \A i \in Arithmetic!SplitInputs : i.job = "split"
    /\ \A i \in Arithmetic!ConformalInputs : i.job = "conformal"
    /\ \A i \in Arithmetic!PairInputs : i.job = "pair"
BY DEF Arithmetic!BacktestInputs, Arithmetic!CpcvInputs, Arithmetic!SplitInputs,
       Arithmetic!ConformalInputs, Arithmetic!PairInputs

LEMMA JudgingSuffices ==
    ASSUME LearningAssumption, JudgingInv
    PROVE  EvaluationSound
<1>1. Arithmetic!WalkReachesTheEnd
  <2> SUFFICES ASSUME Arithmetic!Computed("backtest") PROVE Arithmetic!WalkReachesTheEnd
    BY DEF Arithmetic!WalkReachesTheEnd
  <2>1. input \in Arithmetic!BacktestInputs /\ result = Arithmetic!RunBacktest(input)
    BY InputsAreNamed DEF JudgingInv, Arithmetic!Computed
  <2> QED
    BY <2>1, WalkEnds DEF Arithmetic!WalkReachesTheEnd
<1>2. Arithmetic!EverySampleTested /\ Arithmetic!KeptApart
  <2> SUFFICES ASSUME Arithmetic!Computed("cpcv")
               PROVE  Arithmetic!EverySampleTested /\ Arithmetic!KeptApart
    BY DEF Arithmetic!EverySampleTested, Arithmetic!KeptApart
  <2>1. input \in Arithmetic!CpcvInputs /\ result = Arithmetic!CpcvPaths(input)
    BY InputsAreNamed DEF JudgingInv, Arithmetic!Computed
  <2>2. Arithmetic!EverySampleTested
    BY <2>1, SamplesAlike DEF Arithmetic!EverySampleTested
  <2>3. Arithmetic!KeptApart
    BY <2>1, PathsKeepApart DEF Arithmetic!KeptApart
  <2> QED
    BY <2>2, <2>3
<1>3. Arithmetic!SplitIsForward
  <2> SUFFICES ASSUME Arithmetic!Computed("split"), result.val PROVE Arithmetic!SplitIsForward
    BY DEF Arithmetic!SplitIsForward
  <2>1. input \in Arithmetic!SplitInputs /\ result = Arithmetic!TimeOrderedSplit(input)
    BY InputsAreNamed DEF JudgingInv, Arithmetic!Computed
  <2> QED
    BY <2>1, SplitForward DEF Arithmetic!SplitIsForward
<1>4. Arithmetic!BandCovers
  <2> SUFFICES ASSUME Arithmetic!Computed("conformal") PROVE Arithmetic!BandCovers
    BY DEF Arithmetic!BandCovers
  <2>1. input \in Arithmetic!ConformalInputs /\ result = Arithmetic!QHat(input)
    BY InputsAreNamed DEF JudgingInv, Arithmetic!Computed
  <2> QED
    BY <2>1, QuantileCovers DEF Arithmetic!BandCovers
<1>5. Arithmetic!PairsWithNearest
  <2> SUFFICES ASSUME Arithmetic!Computed("pair") PROVE Arithmetic!PairsWithNearest
    BY DEF Arithmetic!PairsWithNearest
  <2>1. input \in Arithmetic!PairInputs /\ result = Arithmetic!NearestPair(input)
    BY InputsAreNamed DEF JudgingInv, Arithmetic!Computed
  <2> QED
    BY <2>1, PairIsNearest DEF Arithmetic!PairsWithNearest
<1> QED
  BY <1>1, <1>2, <1>3, <1>4, <1>5
  DEF EvaluationSound, Arithmetic!NothingLeftOut, Arithmetic!TestedApart

\* backtest.py, cpcv_backtest.py, train.py, conformal.py and truth_check.py: the walk
\* reaches the end of the history, every sample is tested in as many paths, the
\* training rows of a path are purged of what its tested rows depend on, a validation
\* row is later than every row that is fitted, the conformal band is as wide as its
\* coverage needs, and a reading is paired with its nearest.
THEOREM EvaluationIsSound ==
    ASSUME LearningAssumption
    PROVE  MCSpec => []EvaluationSound
<1>1. MCInit => JudgingInv
  BY DEF MCInit, Arithmetic!Init, JudgingInv
<1>2. JudgingInv /\ [MCNext]_<<part, vars, judging>> => JudgingInv'
  <2> SUFFICES ASSUME JudgingInv, [MCNext]_<<part, vars, judging>>
               PROVE  JudgingInv'
    OBVIOUS
  <2>1. CASE UNCHANGED <<part, judging>>
    BY <2>1 DEF JudgingInv, judging
  <2>2. CASE part = "judging" /\ Arithmetic!Next /\ UNCHANGED part
    <3>1. input' = input
      BY <2>2 DEF Arithmetic!Next, Arithmetic!Backtest, Arithmetic!CpcvBacktest,
                  Arithmetic!Split, Arithmetic!Calibrate, Arithmetic!TruthCheck, Arithmetic!Does
    <3>2. \/ input.job = "backtest" /\ result' = Arithmetic!RunBacktest(input)
          \/ input.job = "cpcv" /\ result' = Arithmetic!CpcvPaths(input)
          \/ input.job = "split" /\ result' = Arithmetic!TimeOrderedSplit(input)
          \/ input.job = "conformal" /\ result' = Arithmetic!QHat(input)
          \/ input.job = "pair" /\ result' = Arithmetic!NearestPair(input)
      BY <2>2 DEF Arithmetic!Next, Arithmetic!Backtest, Arithmetic!CpcvBacktest,
                  Arithmetic!Split, Arithmetic!Calibrate, Arithmetic!TruthCheck, Arithmetic!Does
    <3> QED
      BY <2>2, <3>1, <3>2, InputsAreNamed DEF JudgingInv
  <2> QED
    BY <2>1, <2>2 DEF MCNext
<1>3. JudgingInv => EvaluationSound
  BY JudgingSuffices
<1> QED
  BY <1>1, <1>2, <1>3, PTL DEF MCSpec
=============================================================================
