------------------------------ MODULE Features ------------------------------
(***************************************************************************)
(* One training or serving sample, from the stored forecasts, observations *)
(* and reanalysis history to the feature vector and its target             *)
(* (features/build.py, feature_pack.py, advanced.py, climatology.py,       *)
(* targets.py and the look-ups of db/access.py and deep_backfill.py they   *)
(* call).  What is kept of a value is its provenance: which stored row a   *)
(* feature was read from.  Time is counted in units fine enough for the    *)
(* windows the code uses.                                                  *)
(*                                                                         *)
(* Samples are built while collectors write: a serving cycle shares one    *)
(* look-up cache between the horizons of a point, a training sample has    *)
(* its own, and every look-up is a query of its own.                       *)
(***************************************************************************)
EXTENDS Integers, FiniteSets, Sequences

CONSTANTS
    Lake, AuxPoints,          \* the sample's point; the points of the gradients
    Models, RefModel, AuxModel, Ensembles,
    Sources, Tier, Distance,  \* of observations; Distance in staleness units
    LastHour, Cadence,        \* the clock stops; hours between a model's runs
    Horizon, StitchLead,      \* hours a run covers; the lead of stitched rows
    BaseWindow, LagWindow, AuxWindow,
    Lags, History, Ramp,      \* offsets of the reference look-ups
    Lookback, ObsLags, ObsTolerance, BiasWindow,
    Year, Season, NormalsBack, \* of the climatology: +-Season of the day of year
    MaxWrites, MaxSamples     \* bounds of the checked instance

PointsAssumption == Lake \notin AuxPoints
ModelsAssumption ==
    RefModel \in Models /\ AuxModel \in Models \ Ensembles /\ Ensembles \subseteq Models
SourcesAssumption ==
    Tier \in [Sources -> 0..3] /\ Distance \in [Sources -> Nat]
WindowsAssumption ==
    /\ {LastHour, Horizon, StitchLead, BaseWindow, LagWindow, AuxWindow, Lookback,
        ObsTolerance, BiasWindow, Season, NormalsBack, MaxWrites, MaxSamples}
           \subseteq Nat
    /\ Cadence \in Nat \ {0} /\ Year \in Nat \ {0}
    /\ Lags \subseteq Nat /\ History \subseteq Nat /\ ObsLags \subseteq Nat
    /\ Ramp \subseteq Nat
    /\ IsFiniteSet(Lags \cup History)

VARIABLES
    clock,         \* the hour it is
    forecasts,     \* forecast_runs: [point, model, run, valid]
    observations,  \* observations: [source, at, wind]
    climate,       \* v4_climatology: the hours of Lake with a reanalysis value
    memo,          \* (point, time, window) :> rows; the call's or the cycle's
    obsMemo,       \* time :> observations up to then; the cycle's
    step,          \* where the sample under construction is
    sample,        \* what has been read for it so far
    writes, samples

vars == <<clock, forecasts, observations, climate, memo, obsMemo, step, sample, writes, samples>>

Points == AuxPoints \cup {Lake}
Windows == {BaseWindow, LagWindow, AuxWindow}
Within(a, b, w) == a - b <= w /\ b - a <= w
MaxOf(S) == CHOOSE x \in S : \A y \in S : y <= x
MinOf(S) == CHOOSE x \in S : \A y \in S : x <= y

-----------------------------------------------------------------------------
(* Forecast look-ups.                                                       *)

\* What both the bulk query and the point query may see: no run issued after
\* the hour it speaks of.
Eligible(p, t, w) ==
    {r \in forecasts : r.point = p /\ Within(r.valid, t, w) /\ r.run <= r.valid}

\* The rows ROW_NUMBER() may number 1: of each model any row of its latest run.
LatestRun(cands) ==
    {r \in cands : \A q \in cands : q.model = r.model => q.run <= r.run}

FirstOf(rows) == {r \in rows : \A q \in rows : q.model = r.model => r.valid <= q.valid}
LastOf(rows)  == {r \in rows : \A q \in rows : q.model = r.model => q.valid <= r.valid}

\* fetch_forecasts_at(): ties between the hours of one run are broken by
\* nothing; the two extremes stand for the orders a scan may return.
FetchAt(p, t, w, tie) ==
    IF tie = "first" THEN FirstOf(LatestRun(Eligible(p, t, w)))
    ELSE LastOf(LatestRun(Eligible(p, t, w)))

\* _select() of the prefetch scans the hours upwards and keeps the first row
\* of the latest run.
SelectFirstSeen(cands) == FirstOf(cands)
Select(cands) == FirstOf(LatestRun(cands))

\* _prefetch_forecasts(): one bulk read, answers for every (point, time,
\* window) the sample will ask for, none for a key the cache already holds.
PrefetchTimes(v) == {v - d : d \in Lags \cup History \cup {0}}
Pad == MaxOf(Windows)
PrefetchKeys(v) ==
    LET lo == MinOf(PrefetchTimes(v)) - Pad
        hi == MaxOf(PrefetchTimes(v)) + Pad
    IN {k \in Points \X PrefetchTimes(v) \X Windows :
            k[2] - k[3] >= lo /\ k[2] + k[3] <= hi}

Prefetched(v, cache) ==
    [k \in PrefetchKeys(v) \cup DOMAIN cache |->
        IF k \in DOMAIN cache THEN cache[k]
        ELSE Select(Eligible(k[1], k[2], k[3]))]

\* _fetch(): from the memo, else by a query that is then remembered.
Remember(cache, keys, tie) ==
    [k \in keys \cup DOMAIN cache |->
        IF k \in DOMAIN cache THEN cache[k] ELSE FetchAt(k[1], k[2], k[3], tie)]

OfModel(rows, m) == {r \in rows : r.model = m}

\* The row read for one model, or for another when a fallback is allowed: any
\* of them, the order of the answer is the scan's.
OrElse(rows, others) == IF rows # {} THEN rows ELSE others

\* _pick_aux_row(): the pinned model, else a deterministic one, else an ensemble.
PickAux(rows) ==
    OrElse(OfModel(rows, AuxModel), OrElse({r \in rows : r.model \notin Ensembles}, rows))

-----------------------------------------------------------------------------
(* Observation look-ups.                                                    *)

\* fetch_latest_observation_near(), fetch_observations_near_range().
ObsBetween(lo, hi) == {o \in observations : lo <= o.at /\ o.at <= hi}

\* _obs_cached(): a horizon of the cycle may have asked for that time before.
Near(t) == IF t \in DOMAIN obsMemo THEN obsMemo[t] ELSE ObsBetween(t - Lookback, t)

\* The instant the features may look back from: the reference run's issue.
ObsAnchorAtValid(ref, v) == v
ObsAnchor(ref, v) == ref.run

\* The wind 1, 2, 3 hours before the anchor: the nearest reading within the
\* tolerance that has a wind.
ObsLagRows(anchor) ==
    LET near(off) == {o \in ObsBetween(anchor - MaxOf(ObsLags) - ObsTolerance, anchor) :
                          o.wind /\ Within(o.at, anchor - off, ObsTolerance)}
        dist(o, off) == IF o.at > anchor - off THEN o.at - anchor + off
                        ELSE anchor - off - o.at
    IN UNION {{o \in near(off) : \A q \in near(off) : dist(o, off) <= dist(q, off)} :
                  off \in ObsLags}

\* The readings the online bias averages, each against the forecast of its hour.
BiasRows(anchor) == {o \in ObsBetween(anchor - BiasWindow, anchor) : o.wind}

\* select_target_obs(): by tier, then by distance plus staleness.
Score(o, v) == Distance[o.source] + (v - o.at)
BeatsByScore(o, q, v) == Score(o, v) <= Score(q, v)
Beats(o, q, v) ==
    \/ Tier[o.source] < Tier[q.source]
    \/ Tier[o.source] = Tier[q.source] /\ Score(o, v) <= Score(q, v)

Usable(cands) == {o \in cands : o.wind}
SelectTarget(cands, v) ==
    {o \in Usable(cands) : \A q \in Usable(cands) : Beats(o, q, v)}

Candidates(ref, v) == Near(v)

-----------------------------------------------------------------------------
(* Climatology look-ups.                                                    *)

\* _DOY_WRAP_SQL: the circular distance of the days of the year.
SameSeason(a, b) ==
    LET d == (a - b) % Year IN d <= Season \/ Year - d <= Season

\* get_climatology_normal() and the other aggregates over v4_climatology: the
\* hours of the season from NormalsBack on, with no upper bound.
Normals(v) == {h \in climate : h >= v - NormalsBack /\ SameSeason(h, v)}

-----------------------------------------------------------------------------
NoSample ==
    [valid |-> 0, shared |-> FALSE, ref |-> {}, lags |-> {}, history |-> {},
     aux |-> {}, normals |-> {}, obs |-> {}, target |-> {}]

Midnight(t) == t - (t % Cadence)

\* What a collection of these models and points stores at t: it is filed under
\* the model init at or before the first hour of the answer, today's midnight.
RunRows(ms, ps, t) ==
    [point : ps, model : ms, run : {Midnight(t)},
     valid : Midnight(t)..(Midnight(t) + Horizon)]

\* The service may find an earlier day's collection in its database.
Init ==
    /\ clock = 0
    /\ forecasts \in {{}, RunRows(Models, Points, 0)}
    /\ observations = {} /\ climate = {}
    /\ memo = <<>> /\ obsMemo = <<>>
    /\ step = "idle"
    /\ sample = NoSample
    /\ writes = 0 /\ samples = 0

\* The collectors.
Written == /\ writes < MaxWrites
           /\ writes' = writes + 1
           /\ UNCHANGED <<clock, memo, obsMemo, step, sample, samples>>

\* OpenMeteoCollector.collect(): the points whose request failed are skipped.
Collect(m, ps) ==
    /\ Written
    /\ forecasts' = forecasts \cup RunRows({m}, ps, clock)
    /\ UNCHANGED <<observations, climate>>

\* The historical backfill stitches past hours, each with an assumed lead.
Stitch(m) ==
    /\ Written
    /\ forecasts' = forecasts \cup
           {[point |-> p, model |-> m, run |-> v - StitchLead, valid |-> v] :
                p \in Points, v \in 0..clock}
    /\ UNCHANGED <<observations, climate>>

\* A station reports now; a reanalysis row arrives for an hour long past.
Observe(s, at, wind) ==
    /\ Written
    /\ at = clock \/ Tier[s] > 0
    /\ observations' = observations \cup {[source |-> s, at |-> at, wind |-> wind]}
    /\ UNCHANGED <<forecasts, climate>>

\* deep_backfill(): the chunks of ERA5 that were answered, of any hours asked
\* for.  It is a command, or a step of `lakewind auto' before the training, so
\* no sample is under construction.
DeepBackfill(hours) ==
    /\ step = "idle"
    /\ Written
    /\ climate' = climate \cup hours
    /\ UNCHANGED <<forecasts, observations>>

Tick ==
    /\ clock < LastHour
    /\ clock' = clock + 1
    /\ UNCHANGED <<forecasts, observations, climate, memo, obsMemo, step, sample, writes, samples>>

\* build_features_for() of hour v: with the cycle's cache or with an empty
\* one.  A bulk read that fails leaves every key to its own query.
Begin(v, shared, bulkOk) ==
    /\ step = "idle"
    /\ samples < MaxSamples
    /\ samples' = samples + 1
    /\ LET cache == IF shared THEN memo ELSE <<>>
       IN memo' = IF bulkOk THEN Prefetched(v, cache) ELSE cache
    /\ obsMemo' = IF shared THEN obsMemo ELSE <<>>
    /\ sample' = [NoSample EXCEPT !.valid = v, !.shared = shared]
    /\ step' = "base"
    /\ UNCHANGED <<clock, forecasts, observations, climate, writes>>

\* The forecasts of the hour; without the reference model there is no sample.
Base(tie) ==
    /\ step = "base"
    /\ LET key == <<Lake, sample.valid, BaseWindow>>
           cache == Remember(memo, {key}, tie)
           ref == OfModel(cache[key], RefModel)
       IN /\ memo' = cache
          /\ IF ref = {} THEN step' = "idle" /\ sample' = NoSample
             ELSE /\ step' = "obs"
                  /\ sample' = [sample EXCEPT !.ref = ref]
    /\ UNCHANGED <<clock, forecasts, observations, climate, obsMemo, writes, samples>>

\* The observations of the features, behind the issue time, and the target's
\* candidates; the target is chosen from the latter.
ReadObservations ==
    /\ step = "obs"
    /\ LET ref == CHOOSE r \in sample.ref : TRUE
           anchor == ObsAnchor(ref, sample.valid)
       IN /\ sample' = [sample EXCEPT
                 !.obs = Near(anchor) \cup ObsLagRows(anchor) \cup BiasRows(anchor),
                 !.target = SelectTarget(Candidates(ref, sample.valid), sample.valid)]
          /\ obsMemo' = [t \in {anchor, sample.valid} \cup DOMAIN obsMemo |-> Near(t)]
    /\ step' = "pack"
    /\ UNCHANGED <<clock, forecasts, observations, climate, memo, writes, samples>>

\* The rest: the reference model's lags and the hours ahead for the shape of
\* the ramp; the thermal history and the gradients, pinned to another model;
\* the climatology.
LagKeys(v) == {<<Lake, v - d, LagWindow>> : d \in Lags} \cup
              {<<Lake, v + d, BaseWindow>> : d \in Ramp}
HistoryKeys(v) == {<<Lake, v - d, LagWindow>> : d \in History}
AuxKeys(v) == {<<p, v, AuxWindow>> : p \in AuxPoints}

Pack(tie) ==
    /\ step = "pack"
    /\ LET v == sample.valid
           cache == Remember(memo, LagKeys(v) \cup HistoryKeys(v) \cup AuxKeys(v), tie)
       IN /\ memo' = cache
          /\ sample' = [sample EXCEPT
                 !.lags = UNION {OfModel(cache[k], RefModel) : k \in LagKeys(v)},
                 !.history = UNION {OrElse(OfModel(cache[k], AuxModel), cache[k]) :
                                        k \in HistoryKeys(v)},
                 !.aux = UNION {PickAux(cache[k]) : k \in AuxKeys(v)},
                 !.normals = Normals(v)]
    /\ step' = "idle"
    /\ UNCHANGED <<clock, forecasts, observations, climate, obsMemo, writes, samples>>

Next ==
    \/ \E m \in Models, ps \in {Points, {Lake}} : Collect(m, ps)
    \/ \E m \in Models : Stitch(m)
    \/ \E s \in Sources, at \in 0..clock, wind \in BOOLEAN : Observe(s, at, wind)
    \/ \E hours \in SUBSET (0..clock) : DeepBackfill(hours)
    \/ Tick
    \/ \E v \in 0..LastHour, shared, bulkOk \in BOOLEAN : Begin(v, shared, bulkOk)
    \/ \E tie \in {"first", "last"} : Base(tie) \/ Pack(tie)
    \/ ReadObservations

Spec == Init /\ [][Next]_vars
-----------------------------------------------------------------------------
ForecastRows ==
    [point : Points, model : Models, run : Int, valid : Int]
ObservationRows == [source : Sources, at : Int, wind : BOOLEAN]

\* Types; a row is only ever stored for an hour its run precedes, and a target
\* always has a wind.
TypeOK ==
    /\ clock \in 0..LastHour
    /\ forecasts \subseteq ForecastRows
    /\ observations \subseteq ObservationRows /\ climate \subseteq 0..LastHour
    /\ step \in {"idle", "base", "obs", "pack"}
    /\ sample.valid \in Int
    /\ sample.ref \subseteq ForecastRows /\ Cardinality(sample.ref) <= 1
    /\ \A r \in sample.ref : r.model = RefModel /\ r.run <= r.valid
    /\ sample.obs \subseteq observations /\ sample.normals \subseteq climate
    /\ \A t \in DOMAIN obsMemo : obsMemo[t] \subseteq observations
    /\ sample.target \subseteq {o \in observations : o.wind}

\* No reading the features take from the table of observations (the nearest
\* one, the lags, the rolling bias) was made after the reference forecast was
\* issued, however late the sample is built and whatever is written between its
\* look-ups (build.py:181-194, test_no_leakage_from_post_issue_observations).
\* It is silent on the reanalysis the normals average: see NormalsArePast.
NoObsAfterIssue ==
    \A r \in sample.ref : \A o \in sample.obs : o.at <= r.run

\* A sample whose lead exceeds the lookback has no stored reading both in its
\* features and as its target, although the two look-ups use one window and,
\* in a serving cycle, one cache (build.py:243-262).
TargetOutsideFeatures ==
    \A r \in sample.ref :
        sample.valid - r.run > Lookback => sample.target \cap sample.obs = {}

\* What the prefetch answers from memory is what the point query could have
\* answered at that moment: of every model with an eligible row exactly one
\* row, of its latest run ("the memo cannot diverge from the SQL path").
MemoAnswersAsSql ==
    [][\A k \in DOMAIN memo' \ DOMAIN memo :
          LET sql == LatestRun(Eligible(k[1], k[2], k[3]))
          IN /\ memo'[k] \subseteq sql
             /\ \A r \in sql : Cardinality(OfModel(memo'[k], r.model)) = 1]_vars

\* The answer a training sample learns does not depend on how late it is built
\* (targets.py): rows that arrive after a usable reading of a better tier, as
\* the reanalysis does days after the stations, leave the target of every hour
\* what it was, however near and fresh they are.
LateRowsKeepTarget ==
    [][\A v \in 0..LastHour :
          (\E q \in Usable(ObsBetween(v - Lookback, v)) :
               \A o \in observations' \ observations : Tier[q.source] < Tier[o.source])
              => SelectTarget(ObsBetween(v - Lookback, v)', v)
                     = SelectTarget(ObsBetween(v - Lookback, v), v)]_vars

\* A normal is "the average value of `variable` over the last `years_back`
\* years" (get_climatology_normal, deep_backfill.py:319-320): of hours up to the
\* one it is the normal of.
NormalsArePast == \A h \in sample.normals : h <= sample.valid

\* "It must NEVER be fed into the feature vector", says the comment above the
\* query of the target's candidates.
TargetNeverFeature == sample.target \cap sample.obs = {}

\* The ramp and the lags come from the same or an earlier run than the
\* reference forecast: nothing issued later informs the sample.
LagsKnownAtIssue == \A r \in sample.ref : \A q \in sample.lags : q.run <= r.run
=============================================================================
