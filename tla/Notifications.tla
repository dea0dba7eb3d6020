--------------------------- MODULE Notifications ---------------------------
(***************************************************************************)
(* The scheduler job of the Telegram bot: every half hour it pushes wind   *)
(* alerts to the users who asked for them and a digest of operational      *)
(* failures to the administrators.                                         *)
(*                                                                         *)
(* Ages count ticks up to the interval they are compared with.  A message  *)
(* may reach its reader although the call that sent it raises, and the     *)
(* process may die between any two steps; what it remembers of the digest  *)
(* dies with it, the alerts' rows do not.  Nothing in the program creates  *)
(* a subscription, so the job's pass over subscriptions is empty.          *)
(***************************************************************************)
EXTENDS Naturals, Sequences

CONSTANTS
    Alerts,     \* rows that v2_alerts may ever hold
    Keys,       \* keys of operational alerts
    Day,        \* ticks in a day
    QuietFrom,  \* quiet_hours_start and quiet_hours_end, as times of day
    QuietTo,
    Period,     \* interval of the job
    Spacing,    \* ticks between two messages of an alert
    DigestTtl,  \* _DIGEST_TTL_S
    Window,     \* window_hours
    Forecasts,  \* tables of stored predictions, newest generation first: for
                \* each hour of the lead window, is the threshold reached?
    MaxDeaths   \* bound: deaths of the process

ASSUME NotificationsConstants ==
    /\ Day \in Nat \ {0} /\ QuietFrom \in 0..(Day - 1) /\ QuietTo \in 0..(Day - 1)
    /\ Period \in Nat \ {0} /\ Spacing \in Nat \ {0} /\ DigestTtl \in Nat \ {0}
    /\ Window \in Nat \ {0} /\ MaxDeaths \in Nat

VARIABLES
    status,   \* of each alert: "none", "live" or "deleted"
    marked,   \* age of last_triggered_at; Spacing when it is NULL or older
    pc,       \* where the job is
    todo,     \* alerts of the run that are still to be looked at
    sending,  \* the alert the run is sending
    next,     \* ticks to the job's next run
    age,      \* of each key's entry of _digest_state
    up,       \* age of the host: what a missing entry counts as
    lines,    \* keys in the digest being sent
    tod,      \* local time of day
    forecast, \* stored predictions of the alerts' point
    failing,  \* what operational_alerts() and pipeline_runs report
    deaths,   \* deaths of the process so far
    since,    \* history: age of an alert's last message
    unmarked, \* history: alerts whose last message was not marked
    told,     \* history: age of the last digest with a key
    toldHere  \* history: keys this process has told of

alertRows == <<status, marked>>
job == <<pc, todo, sending, next>>
digest == <<age, lines>>
world == <<tod, up, forecast, failing, deaths>>
history == <<since, unmarked, told, toldHere>>
vars == <<alertRows, job, digest, world, history>>

TypeOK ==
    /\ status \in [Alerts -> {"none", "live", "deleted"}]
    /\ marked \in [Alerts -> 0..Spacing]
    /\ pc \in {"idle", "alerts", "send", "mark", "digest", "push", "down"}
    /\ todo \subseteq Alerts /\ sending \subseteq Alerts
    /\ next \in 0..Period
    /\ age \in [Keys -> 0..DigestTtl] /\ up \in 0..DigestTtl
    /\ lines \subseteq Keys /\ failing \subseteq Keys
    /\ tod \in 0..(Day - 1) /\ forecast \in Forecasts
    /\ deaths \in 0..MaxDeaths
    /\ since \in [Alerts -> 0..Spacing] /\ unmarked \subseteq Alerts
    /\ told \in [Keys -> 0..DigestTtl] /\ toldHere \subseteq Keys

-----------------------------------------------------------------------------
\* Mutant of InQuietHours: every window is taken to cross midnight.
InQuietHoursAlways(t) == t >= QuietFrom \/ t <= QuietTo

\* is_in_quiet_hours()
InQuietHours(t) ==
    IF QuietFrom <= QuietTo THEN QuietFrom <= t /\ t <= QuietTo
                            ELSE t >= QuietFrom \/ t <= QuietTo

Live == {a \in Alerts : status[a] = "live"}

\* What a run will look at: everything it tests before the predictions comes
\* from the rows and the time read at its start.
Eligible ==
    IF InQuietHours(tod) THEN {} ELSE {a \in Live : marked[a] = Spacing}

\* The rows of the lead window sorted by valid_time, every generation's row of
\* an hour next to the others'; met when Window rows in succession reach the
\* threshold.
Met(table) ==
    LET gens == Len(table)
        Row(i) == table[1 + (i % gens)][1 + (i \div gens)]
        rows == gens * Len(table[1])
    IN  \E first \in 0..(rows - 1) :
            /\ first + Window <= rows
            /\ \A i \in first..(first + Window - 1) : Row(i)

Init ==
    /\ status \in [Alerts -> {"none", "live"}]
    /\ marked = [a \in Alerts |-> Spacing]
    /\ pc = "idle" /\ todo = {} /\ sending = {} /\ next = 0
    /\ up \in 0..DigestTtl /\ age = [k \in Keys |-> up] /\ lines = {}
    /\ tod \in 0..(Day - 1) /\ forecast \in Forecasts
    /\ failing \in SUBSET Keys /\ deaths = 0
    /\ since = [a \in Alerts |-> Spacing] /\ unmarked = {}
    /\ told = [k \in Keys |-> DigestTtl] /\ toldHere = {}

-----------------------------------------------------------------------------
(* Users.                                                                  *)

CreateAlert(a) ==
    /\ pc # "down" /\ status[a] = "none"
    /\ status' = [status EXCEPT ![a] = "live"]
    /\ UNCHANGED <<marked, job, digest, world, history>>

DeleteAlert(a) ==
    /\ pc # "down" /\ status[a] = "live"
    /\ status' = [status EXCEPT ![a] = "deleted"]
    /\ UNCHANGED <<marked, job, digest, world, history>>

-----------------------------------------------------------------------------
(* A run of the job.                                                       *)

\* The job is due: a run begins, unless the last one has not ended.
Fire ==
    /\ pc # "down" /\ next = 0
    /\ next' = Period
    /\ IF pc = "idle" THEN pc' = "alerts" /\ todo' = Eligible
                      ELSE UNCHANGED <<pc, todo>>
    /\ UNCHANGED <<sending, alertRows, digest, world, history>>

CheckAlert(a) ==
    /\ pc = "alerts" /\ a \in todo
    /\ todo' = todo \ {a}
    /\ IF Met(forecast) THEN pc' = "send" /\ sending' = {a}
                        ELSE UNCHANGED <<pc, sending>>
    /\ UNCHANGED <<next, alertRows, digest, world, history>>

\* The message reaches the user ...
Deliver(a) ==
    /\ pc = "send" /\ sending = {a}
    /\ pc' = "mark"
    /\ since' = [since EXCEPT ![a] = 0] /\ unmarked' = unmarked \cup {a}
    /\ UNCHANGED <<todo, sending, next, alertRows, digest, world, told, toldHere>>

\* ... also when the call raises, its answer being lost ...
DeliverUnanswered(a) ==
    /\ pc = "send" /\ sending = {a}
    /\ pc' = "alerts" /\ sending' = {}
    /\ since' = [since EXCEPT ![a] = 0] /\ unmarked' = unmarked \cup {a}
    /\ UNCHANGED <<todo, next, alertRows, digest, world, told, toldHere>>

\* ... or it does not; the UPDATE may fail too.  Neither stops the run.
SendFails ==
    /\ pc \in {"send", "mark"}
    /\ pc' = "alerts" /\ sending' = {}
    /\ UNCHANGED <<todo, next, alertRows, digest, world, history>>

\* Mutant of MarkAlertTriggered: the UPDATE finds no row.
MarkAlertLost(a) ==
    /\ pc = "mark" /\ sending = {a}
    /\ unmarked' = unmarked \ {a}
    /\ pc' = "alerts" /\ sending' = {}
    /\ UNCHANGED <<todo, next, alertRows, digest, world, since, told, toldHere>>

\* mark_alert_triggered()
MarkAlertTriggered(a) ==
    /\ pc = "mark" /\ sending = {a}
    /\ marked' = [marked EXCEPT ![a] = 0] /\ unmarked' = unmarked \ {a}
    /\ pc' = "alerts" /\ sending' = {}
    /\ UNCHANGED <<todo, next, status, digest, world, since, told, toldHere>>

EndAlerts ==
    /\ pc = "alerts" /\ todo = {}
    /\ pc' = "digest"
    /\ UNCHANGED <<todo, sending, next, alertRows, digest, world, history>>

\* Mutant of OperationalDigest: every sighting of a failure counts as told.
OperationalDigestRefreshes ==
    /\ pc = "digest"
    /\ LET due == {k \in failing : age[k] = DigestTtl}
       IN  /\ age' = [k \in Keys |-> IF k \in failing THEN 0 ELSE age[k]]
           /\ lines' = due
           /\ pc' = IF due = {} THEN "idle" ELSE "push"
    /\ UNCHANGED <<todo, sending, next, alertRows, world, history>>

\* Mutant of OperationalDigest: the entry is only read.
OperationalDigestForgets ==
    /\ pc = "digest"
    /\ LET due == {k \in failing : age[k] = DigestTtl}
       IN  /\ lines' = due
           /\ pc' = IF due = {} THEN "idle" ELSE "push"
    /\ UNCHANGED <<todo, sending, next, age, alertRows, world, history>>

\* _operational_digest(): a failure is due when its entry, or without one the
\* host, is old enough, and counts as told before anything is sent.  Reading
\* the failures takes less than a tick.
OperationalDigest ==
    /\ pc = "digest"
    /\ LET due == {k \in failing : age[k] = DigestTtl}
       IN  /\ age' = [k \in Keys |-> IF k \in due THEN 0 ELSE age[k]]
           /\ lines' = due
           /\ pc' = IF due = {} THEN "idle" ELSE "push"
    /\ UNCHANGED <<todo, sending, next, alertRows, world, history>>

\* The digest reaches an administrator ...
Push ==
    /\ pc = "push"
    /\ pc' = "idle" /\ lines' = {}
    /\ told' = [k \in Keys |-> IF k \in lines THEN 0 ELSE told[k]]
    /\ toldHere' = toldHere \cup lines
    /\ UNCHANGED <<todo, sending, next, age, alertRows, world, since, unmarked>>

\* ... or nobody: a failed send is only logged.
PushFails ==
    /\ pc = "push"
    /\ pc' = "idle" /\ lines' = {}
    /\ UNCHANGED <<todo, sending, next, age, alertRows, world, history>>

-----------------------------------------------------------------------------
(* Processes, time and the world.                                          *)

\* The process dies, alone or with its host.
Die ==
    /\ pc # "down" /\ deaths < MaxDeaths
    /\ pc' = "down" /\ todo' = {} /\ sending' = {} /\ lines' = {}
    /\ deaths' = deaths + 1 /\ up' \in {up, 0}
    /\ UNCHANGED <<next, age, alertRows, tod, forecast, failing, history>>

\* run_bot(): the job's first run is at once.
Start ==
    /\ pc = "down"
    /\ pc' = "idle" /\ next' = 0
    /\ age' = [k \in Keys |-> up] /\ toldHere' = {}
    /\ UNCHANGED <<todo, sending, lines, alertRows, world, since, unmarked, told>>

\* Mutant of Older: ages are not capped.
OlderUncapped(n, cap) == n + 1

Older(n, cap) == IF n < cap THEN n + 1 ELSE cap

\* Time passes between runs, in the await of an alert's message, and while
\* the process is down.
Tick ==
    /\ pc \in {"idle", "send", "down"} /\ (pc = "down" \/ next # 0)
    /\ tod' = (tod + 1) % Day
    /\ next' = IF next = 0 THEN 0 ELSE next - 1
    /\ up' = Older(up, DigestTtl)
    /\ marked' = [a \in Alerts |-> Older(marked[a], Spacing)]
    /\ since' = [a \in Alerts |-> Older(since[a], Spacing)]
    /\ age' = [k \in Keys |-> Older(age[k], DigestTtl)]
    /\ told' = [k \in Keys |-> Older(told[k], DigestTtl)]
    /\ UNCHANGED <<status, pc, todo, sending, lines, forecast, failing, deaths,
                   unmarked, toldHere>>

\* New predictions are stored, and the lead window moves.
NewForecast ==
    /\ forecast' \in Forecasts
    /\ UNCHANGED <<tod, up, failing, deaths, alertRows, job, digest, history>>

\* A source fails or recovers, a nightly job ends with or without an error.
FailuresChange ==
    /\ failing' \in SUBSET Keys
    /\ UNCHANGED <<tod, up, forecast, deaths, alertRows, job, digest, history>>

Users == \E a \in Alerts : CreateAlert(a) \/ DeleteAlert(a)

JobStep ==
    \/ Fire \/ EndAlerts \/ SendFails
    \/ \E a \in Alerts :
          CheckAlert(a) \/ Deliver(a) \/ DeliverUnanswered(a) \/ MarkAlertTriggered(a)
    \/ OperationalDigest \/ Push \/ PushFails

Next ==
    \/ Users \/ JobStep \/ Die \/ Start \/ Tick
    \/ NewForecast \/ FailuresChange

\* The event loop runs the job, the supervisor restarts the process, time
\* passes, and Telegram is not out of reach for ever.
Fairness ==
    /\ WF_vars(JobStep) /\ WF_vars(Start) /\ WF_vars(Tick)
    /\ \A a \in Alerts : SF_vars(Deliver(a))
    /\ SF_vars(Push)

Spec == Init /\ [][Next]_vars /\ Fairness

-----------------------------------------------------------------------------
(* Properties.                                                             *)

\* A user gets an alert "not more than once per 6h" (bot_scheduler.py:185),
\* unless the mark of the last message was lost with an answer, an UPDATE or
\* the process.  Nothing else, neither a run that spans ticks nor the rows
\* being read once per run, brings a message early.
AlertsSpaced ==
    [][\A a \in Alerts : (Deliver(a) \/ DeliverUnanswered(a)) =>
           since[a] = Spacing \/ a \in unmarked]_vars

\* An alert whose forecast stays met is sent again and again, whatever the
\* quiet hours, the failures and the restarts leave of the day.
AlertsRecur ==
    \A a \in Alerts :
        <>[](status[a] = "live" /\ Met(forecast)) => []<>(since[a] = 0)

\* A process tells of a failure at most once in 12 h (bot_scheduler.py:67).
DigestSpaced ==
    [][\A k \in Keys : (Push /\ k \in lines /\ k \in toldHere) =>
           told[k] = DigestTtl]_vars

\* A failure that lasts is told of, again and again: the entries silence it
\* for 12 h at a time, never for good.
FailuresTold == \A k \in Keys : <>[](k \in failing) => []<>(told[k] = 0)

\* "checks if any forecast in the lead window meets the threshold for the
\* minimum duration" (bot_scheduler.py:3-5): an alert is sent for a
\* forecast that reaches the threshold for Window hours in succession.
Sustained(generation) ==
    \E h \in DOMAIN generation :
        /\ h + Window - 1 \in DOMAIN generation
        /\ \A i \in h..(h + Window - 1) : generation[i]

AlertMeansSustained ==
    [][\A a \in Alerts : (CheckAlert(a) /\ pc' = "send") =>
           \E g \in DOMAIN forecast : Sustained(forecast[g])]_vars
=============================================================================
