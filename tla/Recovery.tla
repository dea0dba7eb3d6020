------------------------------ MODULE Recovery ------------------------------
(***************************************************************************)
(* The archive of one table and everything that fills or empties it: the   *)
(* live collectors, the outages, the gap detection and recovery of a boot  *)
(* or of an operator, the chunked backfills with their retries, and the    *)
(* nightly retention (lakewind/recovery.py, lakewind/collector/, the       *)
(* retention of lakewind/db/access.py, docker-entrypoint.sh).              *)
(*                                                                         *)
(* Simplifications:                                                        *)
(*  - The unit of time is a day.  Every request names whole dates, so a    *)
(*    response is a set of days; the one-hour overlap of recover() only    *)
(*    makes the first date of its window the newest stored date.           *)
(*  - forecast_runs, observations and v4_climatology are filled by         *)
(*    separate code, so a behaviour is about one of them: "table" is       *)
(*    chosen in Init.  What couples them is kept: recover() goes through   *)
(*    the forecasts before the observations, and one check decides both.   *)
(*  - Rows of two sources have different run_times, so an UPSERT replaces  *)
(*    rows of its own source (a stitched row of 06:00 shares its key with  *)
(*    that day's live block; that hour is left out).                       *)
(***************************************************************************)
EXTENDS Integers, FiniteSets, Sequences

CONSTANTS
  Points,     \* settings.virtual_points
  OpPoints,   \* settings.operational_point_ids
  Models,     \* settings.open_meteo.models
  Station,    \* the observation sources no API can backfill
  LastDay,    \* bound: the last day of a behaviour
  Horizon,    \* open_meteo.forecast_days
  EraLive,    \* days the live ERA5 collector asks for
  EraDelay,   \* the newest days the archive answers with nulls
  Chunk,      \* open_meteo.backfill.chunk_days
  MaxDays,    \* recover(max_days = 365)
  ClimDays,   \* incremental_backfill(): three years when nothing is stored
  BootDays,   \* docker-entrypoint.sh: --max-days 7
  Lookback,   \* detect_interior_gaps(lookback_days = 30)
  Retain,     \* db.retention_operational_forecast_days
  Retries,    \* _HTTP_RETRIES
  MaxFaults,  \* bound: power cuts, kills, unreadable tables, failed requests
  NoDay,      \* MAX over no rows
  NoJob       \* no recovery is running

ASSUME RecoveryAssumption ==
  /\ OpPoints \subseteq Points /\ IsFiniteSet(Points) /\ IsFiniteSet(Models)
  /\ {Horizon, Chunk, MaxDays, ClimDays, BootDays, Lookback, Retain} \subseteq Nat \ {0}
  /\ {LastDay, EraLive, EraDelay, Retries, MaxFaults} \subseteq Nat
  /\ Lookback # 1   \* a window of a single day has no chunk
  /\ NoDay \notin Int
  /\ NoJob \notin [kind : {"boot", "manual", "window", "deep"},
                   phase : {"previous_runs_api", "historical_forecast_api",
                            "forecasts_first", "era5", "deep"},
                   ser : Seq(Points \X (Models \cup {"era5"})), start : Int, end : Int,
                   next : Nat, tries : Nat, total : Nat, clean : BOOLEAN]

VARIABLES
  table,   \* which table this behaviour is about
  now,     \* today
  up,      \* the container: "down", "booting" (recovering) or "serving"
  rows,    \* the stored rows, one per series, day and source
  job,     \* the recovery or backfill that is running
  report,  \* "current" after a manual recover() that found nothing to fill
  lost,    \* history: <<cause, series, day>> for every day given up
  faults   \* how many of the MaxFaults faults have happened

vars == <<table, now, up, rows, job, report, lost, faults>>

Larger(a, b) == IF a > b THEN a ELSE b
Smaller(a, b) == IF a < b THEN a ELSE b

Tables == {"forecast_runs", "observations", "v4_climatology"}
Live == "open_meteo_forecast"
Exempt == "exempt"   \* previous_runs_api and historical_forecast_api

(***************************************************************************)
(* A series is what one request of a backfill asks for.                    *)
(***************************************************************************)
Series(t) ==
  CASE t = "forecast_runs"  -> Points \X Models
    [] t = "observations"   -> Points \X {"era5"}
    [] t = "v4_climatology" -> OpPoints \X {"era5"}

Row(s, d, src, val) == [series |-> s, day |-> d, src |-> src, val |-> val]
Key(r) == <<r.series, r.day, r.src>>

\* ON CONFLICT DO UPDATE; INSERT OR IGNORE in v4_climatology.
Stored(new) ==
  IF table = "v4_climatology"
  THEN rows \cup {n \in new : \A r \in rows : Key(n) # Key(r)}
  ELSE {r \in rows : \A n \in new : Key(n) # Key(r)} \cup new

\* The history keeps a day that was given up for as long as it is missing.
GiveUp(marks) ==
  lost' = {c \in lost \cup {m \in marks : \A c \in lost : Tail(c) # Tail(m)} :
             \A r \in rows' : ~(r.series = c[2] /\ r.day = c[3] /\ r.val)}

Faulty(n) == faults + n <= MaxFaults /\ faults' = faults + n

Covered(s, d) == \E r \in rows : r.series = s /\ r.day = d /\ r.val

Newest(R) ==
  IF R = {} THEN NoDay
  ELSE CHOOSE d \in {r.day : r \in R} : \A r \in R : r.day <= d

\* detect_gaps(): MAX(valid_time) or MAX(timestamp) over the whole table.
Latest == Newest(rows)

\* incremental_backfill(): MAX(timestamp) of one point.
LatestOf(s) == Newest({r \in rows : r.series = s})

(***************************************************************************)
(* What the live collectors store on day n, when the requests for the      *)
(* series in ok are answered.                                              *)
(***************************************************************************)
EraRows(s, from, to, n) ==
  {Row(s, d, "era5", d <= n - EraDelay) : d \in Larger(from, 0)..to}

ForecastRows(ok, n) ==
  {Row(x[1], x[2], Live, TRUE) : x \in ok \X (n..(n + Horizon - 1))}

ObservedRows(ok, n) == UNION {EraRows(s, n - EraLive, n, n) : s \in ok}

LiveRows(ok, n) ==
  CASE table = "forecast_runs" -> ForecastRows(ok, n)
    [] table = "observations"  -> ObservedRows(ok, n)
    [] OTHER -> {}

\* A station that answers stores a row of today, with or without values.
StationRows(n) ==
  IF table = "observations" THEN {{}, {Row(Station, n, Live, TRUE)}} ELSE {{}}

Missed(ok, n) ==
  IF table = "v4_climatology" THEN {}
  ELSE {<<"collector", s, n>> : s \in Series(table) \ ok}

(***************************************************************************)
(* A job goes through its chunks, and in each chunk through its series.    *)
(***************************************************************************)
Job(kind, phase, ser, start, end) ==
  [kind |-> kind, phase |-> phase, ser |-> ser, start |-> start, end |-> end,
   next |-> 1, tries |-> 0, total |-> 0, clean |-> TRUE]

CeilDiv(a, b) == (a + b - 1) \div b

\* _chunk_date_range: a chunk starts on the day the one before it ends;
\* deep_backfill: on the day after.
Stride(phase) == IF phase = "deep" THEN Chunk + 1 ELSE Chunk
Chunks(j) ==
  CeilDiv(j.end - j.start + (IF j.phase = "deep" THEN 1 ELSE 0), Stride(j.phase))

Tasks(j) == Chunks(j) * Len(j.ser)

\* Mutant of Task: the last day of a chunk is left out.
TaskShort(j, k) ==
  LET from == j.start + ((k - 1) \div Len(j.ser)) * Stride(j.phase)
  IN  [series |-> j.ser[((k - 1) % Len(j.ser)) + 1],
       from   |-> from,
       to     |-> Smaller(from + Chunk - 1, j.end)]

Task(j, k) ==
  LET from == j.start + ((k - 1) \div Len(j.ser)) * Stride(j.phase)
  IN  [series |-> j.ser[((k - 1) % Len(j.ser)) + 1],
       from   |-> from,
       to     |-> Smaller(from + Chunk, j.end)]

DaysOf(task) == {<<task.series, d>> : d \in Larger(task.from, 0)..task.to}

Remaining(j) == UNION {DaysOf(Task(j, k)) : k \in j.next..Tasks(j)}

Because(cause, days) == {<<cause, x[1], x[2]>> : x \in days}

\* The order of the configuration file.
Order(S) == CHOOSE q \in [1..Cardinality(S) -> S] : {q[i] : i \in DOMAIN q} = S

FirstPhase ==
  IF table = "forecast_runs" THEN "previous_runs_api" ELSE "forecasts_first"

Stitched(task) ==
  {Row(task.series, d, Exempt, TRUE) : d \in Larger(task.from, 0)..task.to}

Answer(j, task) ==
  IF j.phase \in {"era5", "deep"}
  THEN EraRows(task.series, task.from, task.to, now)
  ELSE Stitched(task)

Idle == job = NoJob
AtEnd(j) == j.next > Tasks(j)

-----------------------------------------------------------------------------

Init ==
  /\ table \in Tables
  /\ now = 0
  /\ up = "serving"
  /\ rows = {}
  /\ job = NoJob
  /\ report = "none"
  /\ lost = {}
  /\ faults = 0

(***************************************************************************)
(* The passes of a day together: every series whose request is answered    *)
(* once that day is stored, the others are missed.  A job is taken to end   *)
(* on the day it started.                                                  *)
(***************************************************************************)
CollectDay ==
  /\ up = "serving"
  /\ Idle
  /\ now < LastDay
  /\ now' = now + 1
  /\ \E ok \in SUBSET Series(table), st \in StationRows(now + 1) :
       /\ rows' = Stored(LiveRows(ok, now + 1) \cup st)
       /\ GiveUp(Missed(ok, now + 1))
       /\ Faulty(Cardinality(Missed(ok, now + 1)))
  /\ report' = "none"
  /\ UNCHANGED <<table, up, job>>

\* A series that had fallen behind the newest row of the table when the
\* power went is not what detect_gaps() measures.
Behind ==
  IF Latest = NoDay \/ table = "v4_climatology" THEN {}
  ELSE {<<"behind", s, d>> : s \in Series(table), d \in 0..Latest} \cap
       {<<"behind", x[1], x[2]>> : x \in
          {y \in Series(table) \X (0..Latest) :
             LatestOf(y[1]) = NoDay \/ y[2] > LatestOf(y[1])}}

Killed == IF Idle THEN {} ELSE Because("killed", Remaining(job))

PowerCut ==
  /\ up # "down"
  /\ up' = "down"
  /\ job' = NoJob
  /\ report' = "none"
  /\ UNCHANGED <<table, now, rows>>
  /\ GiveUp(Behind \cup Killed)
  /\ Faulty(1)

DayDown ==
  /\ up = "down"
  /\ now < LastDay
  /\ now' = now + 1
  /\ UNCHANGED <<table, up, rows, job, report, lost, faults>>

(***************************************************************************)
(* recover(): a table whose query fails counts as empty.  The window ends  *)
(* now and starts on the newest stored day, but no earlier than the cap.   *)
(***************************************************************************)
NeedsRecovery(latest) == latest = NoDay \/ now - latest >= 2

WindowStart(latest, cap) ==
  IF latest = NoDay THEN now - cap ELSE Larger(latest, now - cap)

CutOff(latest, cap) ==
  Because("capped", Series(table) \X
            ((IF latest = NoDay THEN 1 ELSE latest + 1)..(now - cap - 1)))

Recover(kind, latest, force, cap) ==
  IF (NeedsRecovery(latest) \/ force) /\ WindowStart(latest, cap) < now
  THEN /\ job' = Job(kind, FirstPhase, Order(Series(table)),
                     WindowStart(latest, cap), now)
       /\ GiveUp(CutOff(latest, cap))
       /\ report' = "none"
  ELSE /\ report' = (IF kind = "manual" THEN "current" ELSE report)
       /\ UNCHANGED <<job, lost>>

\* recover --check exits with 1 when either table needs recovery; only then
\* does the entrypoint run recover --force with its cap.
Boot ==
  /\ up = "down"
  /\ up' = "booting"
  /\ UNCHANGED <<table, now, rows>>
  /\ IF table = "v4_climatology"
     THEN UNCHANGED <<job, report, lost, faults>>
     ELSE \E readable, other \in BOOLEAN :
            LET latest == IF readable THEN Latest ELSE NoDay
            IN /\ Faulty(IF readable THEN 0 ELSE 1)
               /\ IF NeedsRecovery(latest) \/ other
                  THEN Recover("boot", latest, TRUE, BootDays)
                  ELSE UNCHANGED <<job, report, lost>>

\* The services start when the recovery returns; the first pass of the loop
\* collects at once.
StartServices ==
  /\ up = "booting"
  /\ Idle
  /\ up' = "serving"
  /\ \E ok \in SUBSET Series(table), st \in StationRows(now) :
       /\ rows' = Stored(LiveRows(ok, now) \cup st)
       /\ GiveUp(Missed(ok, now))
       /\ Faulty(Cardinality(Missed(ok, now)))
  /\ UNCHANGED <<table, now, job, report>>

\* timeout 900 around the boot's recovery.
BootTimeout ==
  /\ up = "booting"
  /\ ~Idle
  /\ job' = NoJob
  /\ UNCHANGED <<table, now, up, rows, report>>
  /\ GiveUp(Killed)
  /\ Faulty(1)

\* lakewind recover [--force]
RecoverByHand ==
  /\ up = "serving"
  /\ Idle
  /\ table # "v4_climatology"
  /\ UNCHANGED <<table, now, up, rows, faults>>
  /\ \E force \in BOOLEAN : Recover("manual", Latest, force, MaxDays)

(***************************************************************************)
(* detect_interior_gaps(): the pairs of neighbouring stored days of an     *)
(* operational point that are more than an hour apart; a hole of one model *)
(* does not show, since the hours of all models are taken together.        *)
(***************************************************************************)
StoredDays(p) ==
  {r.day : r \in {x \in rows : x.series[1] = p /\ x.day \in (now - Lookback)..(now - 1)}}

GapsOf(p) ==
  {g \in StoredDays(p) \X StoredDays(p) :
     /\ g[2] > g[1] + 1
     /\ \A d \in StoredDays(p) : d <= g[1] \/ d >= g[2]}

Gaps == UNION {{<<p, g[1], g[2]>> : g \in GapsOf(p)} : p \in OpPoints}

\* lakewind recover --from --to, with a window the scan reported (its cut at
\* 50 windows only leaves the operator less to choose from); the
\* observations have no scan and get the whole of its lookback.
RecoverWindow ==
  /\ up = "serving"
  /\ Idle
  /\ \/ /\ table = "forecast_runs"
        /\ \E g \in Gaps :
             job' = Job("window", FirstPhase, Order(Series(table)), g[2], g[3])
     \/ /\ table = "observations"
        /\ job' = Job("window", FirstPhase, Order(Series(table)), now - Lookback, now - 1)
  /\ UNCHANGED <<table, now, up, rows, report, lost, faults>>

\* lakewind deep-backfill --incremental, one point: from the hour after its
\* newest row.
IncrementalBackfill ==
  /\ up = "serving"
  /\ Idle
  /\ table = "v4_climatology"
  /\ \E s \in Series(table) :
       LET start == IF LatestOf(s) = NoDay THEN now - ClimDays ELSE LatestOf(s) + 1
       IN job' = IF start <= now THEN Job("deep", "deep", <<s>>, start, now) ELSE NoJob
  /\ UNCHANGED <<table, now, up, rows, report, lost, faults>>

-----------------------------------------------------------------------------
(***************************************************************************)
(* The steps of the running job.                                           *)
(***************************************************************************)
Requested == ~Idle /\ job.phase # "forecasts_first"
Requesting == Requested /\ ~AtEnd(job)

\* recover() reaches the observations when the forecasts are done.
ForecastsDone ==
  /\ ~Idle
  /\ job.phase = "forecasts_first"
  /\ job' = [job EXCEPT !.phase = "era5"]
  /\ UNCHANGED <<table, now, up, rows, report, lost, faults>>

Answered ==
  /\ Requesting
  /\ rows' = Stored(Answer(job, Task(job, job.next)))
  /\ job' = [job EXCEPT !.next = @ + 1, !.tries = 0, !.total = @ + 1]
  /\ UNCHANGED <<table, now, up, report, faults>>
  /\ GiveUp({})

Skip ==
  /\ job' = [job EXCEPT !.next = @ + 1, !.tries = 0, !.clean = FALSE]
  /\ UNCHANGED <<table, now, up, rows, report>>
  /\ GiveUp(Because("failed", DaysOf(Task(job, job.next))))

\* No rows for the window, a response that does not parse, a 4xx.
Empty ==
  /\ Requesting
  /\ Skip
  /\ Faulty(IF job.phase = "previous_runs_api" THEN 0 ELSE 1)

\* Mutant of Refused: one attempt more than _HTTP_RETRIES + 1.
RefusedOnceMore ==
  /\ Requesting
  /\ IF job.phase # "deep" /\ job.tries <= Retries
     THEN /\ job' = [job EXCEPT !.tries = @ + 1]
          /\ UNCHANGED <<table, now, up, rows, report, lost>>
     ELSE Skip
  /\ Faulty(1)

\* 429, 5xx or a network error: _get_with_retry waits and asks again, a
\* bounded number of times; deep_backfill goes on to the next point.
Refused ==
  /\ Requesting
  /\ IF job.phase # "deep" /\ job.tries < Retries
     THEN /\ job' = [job EXCEPT !.tries = @ + 1]
          /\ UNCHANGED <<table, now, up, rows, report, lost>>
     ELSE Skip
  /\ Faulty(1)

\* Mutant of PhaseEnds: no rows, so the same archive is asked again.
PhaseEndsAgain ==
  /\ Requested
  /\ AtEnd(job)
  /\ IF job.phase = "previous_runs_api" /\ job.total = 0
     THEN job' = [job EXCEPT !.next = 1, !.clean = TRUE]
     ELSE job' = NoJob
  /\ UNCHANGED <<table, now, up, rows, report, lost, faults>>

\* backfill_forecasts(source = "auto"): the stitched archive is asked when
\* the previous runs gave no row at all.
PhaseEnds ==
  /\ Requested
  /\ AtEnd(job)
  /\ IF job.phase = "previous_runs_api" /\ job.total = 0
     THEN job' = [job EXCEPT !.phase = "historical_forecast_api", !.next = 1,
                             !.clean = TRUE]
     ELSE job' = NoJob
  /\ UNCHANGED <<table, now, up, rows, report, lost, faults>>

\* Mutant of Retention: the source of a row is not looked at.
RetentionOfAll ==
  /\ up = "serving"
  /\ table = "forecast_runs"
  /\ rows' = {r \in rows : r.day >= now - Retain}
  /\ rows' # rows
  /\ UNCHANGED <<table, now, up, job, report, lost, faults>>

\* apply_retention_policy(): operational rows past the window are deleted,
\* rows of an exempt source never are.
Retention ==
  /\ up = "serving"
  /\ table = "forecast_runs"
  /\ rows' = {r \in rows : r.day >= now - Retain \/ r.src = Exempt}
  /\ rows' # rows
  /\ UNCHANGED <<table, now, up, job, report, lost, faults>>

JobStep == ForecastsDone \/ Answered \/ Empty \/ Refused \/ PhaseEnds

Next ==
  \/ CollectDay \/ PowerCut \/ DayDown
  \/ Boot \/ StartServices \/ BootTimeout
  \/ RecoverByHand \/ RecoverWindow \/ IncrementalBackfill
  \/ JobStep \/ Retention

\* Requests are answered or time out (every request has a timeout), and the
\* entrypoint goes on when the recovery returns; nobody has to run a command,
\* and the power may stay off.
Fairness == WF_vars(JobStep) /\ WF_vars(StartServices)

Spec == Init /\ [][Next]_vars /\ Fairness

-----------------------------------------------------------------------------

TypeOK ==
  /\ table \in Tables
  /\ now \in 0..LastDay
  /\ up \in {"down", "booting", "serving"}
  /\ \A r \in rows : r.day \in 0..(LastDay + Horizon) /\ r.val \in BOOLEAN
  /\ job = NoJob \/ (job.next \in 1..(Tasks(job) + 1) /\ job.tries \in 0..Retries)
  /\ report \in {"none", "current"}

\* Day 1 is the first day of service.
Holes == {h \in Series(table) \X (1..now) : ~Covered(h[1], h[2])}

\* ERA5 answers its newest days with rows that hold no value yet.
NullRow(h) == \E r \in rows : r.series = h[1] /\ r.day = h[2] /\ ~r.val

Causes == {"collector", "failed", "killed", "capped", "behind"}

\* Data is lost in five known ways only: a collector's own request failed, a
\* backfill's request failed or its job was killed, the boot's cap cut the
\* window, or the series had fallen behind the newest row of its table
\* before the power went (and one more for ERA5: the archive answered with
\* nulls).  Whatever the outages, restarts and commands, no other day of the
\* retained window is missing once the services run.
HolesExplained ==
  (up = "serving" /\ Idle) =>
    \A h \in Holes :
      \/ table = "forecast_runs" /\ h[2] < now - Retain
      \/ /\ table = "v4_climatology"
         /\ \/ ~(\E r \in rows : r.series = h[1] /\ r.day >= h[2])
            \/ h[2] < now - ClimDays
      \/ NullRow(h)
      \/ \E c \in Causes : <<c, h[1], h[2]>> \in lost

\* The chunks of a backfill leave no day between them, before the first or
\* after the last: when every request of a job was answered, each series
\* has a row on each day of the window.
CleanWindowFilled ==
  (Requested /\ AtEnd(job) /\ job.clean) =>
    \A i \in 1..Len(job.ser), d \in Larger(job.start, 0)..job.end :
      \E r \in rows : r.series = job.ser[i] /\ r.day = d

\* No day is missing without a known cause: neither because nobody asked for it,
\* nor because a chunk that was answered left it out.
WindowsFilled == HolesExplained /\ CleanWindowFilled

\* A stored value is lost to the nightly retention only, and then it is a
\* live row past the window: no restart, UPSERT or late answer full of nulls
\* takes one away, and a backfilled day is kept for ever.
OnlyLiveRowsExpire ==
  [][\A r \in rows : r.val /\ ~Covered(r.series, r.day)' =>
       r.src = Live /\ r.day < now - Retain]_vars

\* A recovery ends, so a boot never stays in it: the services start or the
\* power goes again.
RecoveryEnds == up = "booting" ~> (up # "booting" /\ Idle)

\* docker-entrypoint.sh:58 promises the full history to a manual recover():
\* when it reports that the data is current, no day cut off by the boot's
\* cap is still missing.
NothingCapped ==
  report = "current" => \A h \in Holes : <<"capped", h[1], h[2]>> \notin lost
=============================================================================
