---------------------------- MODULE PipelineLoop ----------------------------
(***************************************************************************)
(* The background loop of a LakeWind process: one asyncio task that runs   *)
(* the NWP cycle, the station cycle, the nightly maintenance and the daily *)
(* review, each blocking part in a worker thread, and the signal handler   *)
(* that ends the process.                                                  *)
(*                                                                         *)
(* Time advances in ticks while the task awaits.  A deadline                *)
(* (time.monotonic() plus something) is the number of ticks left to it, 0   *)
(* when it is due; the local time of day is a position in a cycle of Night  *)
(* ticks, with maintenance_time at 0.  A worker thread takes any time, the  *)
(* station cycle at most MaxStation ticks.                                 *)
(***************************************************************************)
EXTENDS Naturals

CONSTANTS
    NwpEvery,     \* collectors_nwp_minutes, in ticks
    StationEvery, \* collectors_stations_minutes
    Night,        \* ticks in a day
    ReviewAt,     \* daily_review_time, in ticks after maintenance_time
    Grace,        \* LAKEWIND_SHUTDOWN_GRACE_S
    MaxStation,   \* bound: ticks a station cycle can take
    MaxSignals,   \* bound: SIGTERMs in a behaviour
    MayCancel     \* whether stop_background() is called

LoopConstants ==
    /\ NwpEvery \in Nat \ {0} /\ StationEvery \in Nat \ {0}
    /\ Night \in Nat \ {0} /\ ReviewAt \in 1..(Night - 1)
    /\ Grace \in Nat /\ MaxStation \in Nat /\ MaxSignals \in Nat
    /\ MayCancel \in BOOLEAN

VARIABLES
    pc,          \* where the task is
    worker,      \* job of the thread the task waits for
    orphan,      \* a thread outlives the task that started it
    nwpIn,       \* next_nwp
    stationIn,   \* next_station
    maintIn,     \* next_maintenance
    reviewIn,    \* next_review
    due,         \* the flags nwp_due and station_due of this pass
    wake,        \* what is left of asyncio.sleep()
    tod,         \* local time of day
    spent,       \* ticks the running station cycle has taken
    cycleActive, \* _state["cycle_active"]
    handler,     \* the signal handler: off, waiting or exited
    grace,       \* what is left of its deadline
    signals      \* SIGTERMs so far

deadlines == <<nwpIn, stationIn, maintIn, reviewIn>>
task == <<pc, worker, due, wake, spent, cycleActive>>
shutdown == <<handler, grace, signals>>
vars == <<task, orphan, deadlines, tod, shutdown>>

NwpSteps == {"collect", "predict", "artifacts", "refresh"}
StationSteps == {"stations", "project"}
CycleSteps == NwpSteps \cup StationSteps
Nightly == {"maintenance", "review"}

Least(a, b) == IF a <= b THEN a ELSE b

TypeOK ==
    /\ pc \in CycleSteps \cup Nightly \cup {"check", "idle", "sleep", "stopped"}
    /\ worker \in CycleSteps \cup Nightly \cup {"none"}
    /\ orphan \in BOOLEAN /\ cycleActive \in BOOLEAN
    /\ nwpIn \in 0..NwpEvery
    /\ stationIn \in 0..StationEvery
    /\ maintIn \in 0..Night /\ reviewIn \in 0..Night
    /\ due \in [nwp : BOOLEAN, station : BOOLEAN]
    /\ wake \in 0..StationEvery /\ tod \in 0..(Night - 1)
    /\ spent \in 0..MaxStation
    /\ handler \in {"off", "waiting", "exited"}
    /\ grace \in 0..Grace /\ signals \in 0..MaxSignals

-----------------------------------------------------------------------------
\* _next_local_time_monotonic(): ticks to the next pass of a time of day;
\* the present moment counts as passed.
NextPass(t) == IF tod < t THEN t - tod ELSE t + Night - tod

\* A process that has just called start_background(): both cycles are due,
\* the nightly jobs wait for their time.
Init ==
    /\ pc = "check" /\ worker = "none" /\ orphan = FALSE
    /\ tod \in 0..(Night - 1)
    /\ nwpIn = 0 /\ stationIn = 0
    /\ maintIn = NextPass(0) /\ reviewIn = NextPass(ReviewAt)
    /\ due = [nwp |-> FALSE, station |-> FALSE]
    /\ wake = 0 /\ spent = 0 /\ cycleActive = FALSE
    /\ handler = "off" /\ grace = 0 /\ signals = 0

\* start_background(): a new task of _loop(), with a lock of its own.
NewTask ==
    /\ pc' = "check"
    /\ nwpIn' = 0 /\ stationIn' = 0
    /\ maintIn' = NextPass(0) /\ reviewIn' = NextPass(ReviewAt)
    /\ due' = [nwp |-> FALSE, station |-> FALSE]
    /\ wake' = 0 /\ spent' = 0

\* The event loop runs: no signal handler occupies the main thread.
LoopRuns == handler = "off"

\* The task awaits asyncio.to_thread() of step s.
Await(s) ==
    /\ pc' = s /\ worker' = s
    /\ spent' = IF s = "project" THEN spent ELSE 0

\* The task resumes after step s: its thread has finished.
Resumes(s) == LoopRuns /\ pc = s /\ worker = "none"

-----------------------------------------------------------------------------
(* One pass of the while loop.                                             *)

CheckDue ==
    /\ LoopRuns /\ pc = "check"
    /\ due' = [nwp |-> nwpIn = 0, station |-> stationIn = 0]
    /\ IF nwpIn = 0 THEN Await("collect") /\ cycleActive' = TRUE
       ELSE IF stationIn = 0 THEN Await("stations") /\ cycleActive' = TRUE
       ELSE pc' = "idle" /\ UNCHANGED <<worker, spent, cycleActive>>
    /\ wake' = Least(nwpIn, stationIn)   \* the sleep, computed with now_s
    /\ UNCHANGED <<orphan, deadlines, tod, shutdown>>

\* Neither cycle is due: maintenance, if its time has come ...
StartMaintenance ==
    /\ LoopRuns /\ pc = "idle" /\ maintIn = 0
    /\ Await("maintenance")
    /\ UNCHANGED <<due, wake, cycleActive, orphan, deadlines, tod, shutdown>>

\* Mutant of EndMaintenance: the review's deadline is set, not minimised.
EndMaintenanceSkipsReview ==
    /\ Resumes("maintenance")
    /\ pc' = "idle"
    /\ maintIn' = NextPass(0) /\ reviewIn' = NextPass(ReviewAt)
    /\ UNCHANGED <<worker, spent, due, wake, cycleActive, orphan, nwpIn,
                   stationIn, tod, shutdown>>

\* The review's deadline is kept if it passed during the maintenance.
EndMaintenance ==
    /\ Resumes("maintenance")
    /\ pc' = "idle"
    /\ maintIn' = NextPass(0)
    /\ reviewIn' = Least(reviewIn, NextPass(ReviewAt))
    /\ UNCHANGED <<worker, spent, due, wake, cycleActive, orphan, nwpIn,
                   stationIn, tod, shutdown>>

\* ... then the review, if its time has come ...
StartReview ==
    /\ LoopRuns /\ pc = "idle" /\ maintIn # 0 /\ reviewIn = 0
    /\ Await("review")
    /\ UNCHANGED <<due, wake, cycleActive, orphan, deadlines, tod, shutdown>>

EndReview ==
    /\ Resumes("review")
    /\ pc' = "sleep"
    /\ reviewIn' = NextPass(ReviewAt)
    /\ UNCHANGED <<worker, spent, due, wake, cycleActive, orphan, nwpIn,
                   stationIn, maintIn, tod, shutdown>>

\* ... and the sleep, as long as it was when the pass began.
StartSleep ==
    /\ LoopRuns /\ pc = "idle" /\ maintIn # 0 /\ reviewIn # 0
    /\ pc' = "sleep"
    /\ UNCHANGED <<worker, spent, due, wake, cycleActive, orphan, deadlines,
                   tod, shutdown>>

EndSleep ==
    /\ LoopRuns /\ pc = "sleep" /\ wake = 0
    /\ pc' = "check"
    /\ UNCHANGED <<worker, spent, due, wake, cycleActive, orphan, deadlines,
                   tod, shutdown>>

-----------------------------------------------------------------------------
(* Cycles.                                                                 *)

\* run_full_cycle(): an exception inside a step does not stop the next one.
NextStep ==
    [collect |-> "predict", predict |-> "artifacts", artifacts |-> "refresh",
     stations |-> "project"]

StepDone ==
    \E s \in DOMAIN NextStep :
        /\ Resumes(s)
        /\ Await(NextStep[s])
        /\ UNCHANGED <<due, wake, cycleActive, orphan, deadlines, tod, shutdown>>

\* The end of a cycle and its record_pipeline_run().
NwpCycleDone ==
    /\ Resumes("refresh")
    /\ nwpIn' = NwpEvery
    /\ stationIn' = Least(stationIn, NwpEvery)
    /\ pc' = "check" /\ cycleActive' = FALSE
    /\ UNCHANGED <<worker, spent, due, wake, orphan, maintIn, reviewIn, tod,
                   shutdown>>

StationCycleDone ==
    /\ Resumes("project")
    /\ stationIn' = StationEvery
    /\ pc' = "check" /\ cycleActive' = FALSE
    /\ UNCHANGED <<worker, spent, due, wake, orphan, nwpIn, maintIn, reviewIn,
                   tod, shutdown>>

\* An exception that no step caught: every cycle that was due is postponed.
CycleCrashed ==
    /\ \E s \in CycleSteps : Resumes(s)
    /\ nwpIn' = IF due.nwp THEN NwpEvery ELSE nwpIn
    /\ stationIn' =
          LET next == IF due.station THEN StationEvery ELSE stationIn
          IN  IF due.nwp THEN Least(next, NwpEvery) ELSE next
    /\ pc' = "check" /\ cycleActive' = FALSE
    /\ UNCHANGED <<worker, spent, due, wake, orphan, maintIn, reviewIn, tod,
                   shutdown>>

-----------------------------------------------------------------------------
(* Threads, time and processes.                                            *)

\* A worker thread returns; nothing can cancel it.
WorkerDone ==
    /\ handler # "exited" /\ worker # "none"
    /\ worker' = "none"
    /\ UNCHANGED <<pc, due, wake, spent, cycleActive, orphan, deadlines, tod,
                   shutdown>>

OrphanDone ==
    /\ handler # "exited" /\ orphan
    /\ orphan' = FALSE
    /\ UNCHANGED <<task, deadlines, tod, shutdown>>

\* Mutant of StopBackground: the CancelledError branch forgets the flag.
StopBackgroundKeepsFlag ==
    /\ MayCancel /\ LoopRuns /\ pc \notin {"check", "idle", "stopped"}
    /\ pc' = "stopped"
    /\ orphan' = (orphan \/ worker # "none") /\ worker' = "none"
    /\ UNCHANGED <<spent, due, wake, cycleActive, deadlines, tod, shutdown>>

\* stop_background(): the task is cancelled at its await and clears the flag
\* of a cycle; the thread it waited for goes on.
StopBackground ==
    /\ MayCancel /\ LoopRuns /\ pc \notin {"check", "idle", "stopped"}
    /\ pc' = "stopped" /\ cycleActive' = FALSE
    /\ orphan' = (orphan \/ worker # "none") /\ worker' = "none"
    /\ UNCHANGED <<spent, due, wake, deadlines, tod, shutdown>>

\* start_background() after a stop.
StartBackground ==
    /\ LoopRuns /\ pc = "stopped"
    /\ NewTask
    /\ UNCHANGED <<worker, cycleActive, orphan, tod, shutdown>>

Less(n) == IF n = 0 THEN 0 ELSE n - 1

\* Time passes while the task is in an await or the handler waits.
Tick ==
    /\ handler # "exited"
    /\ handler = "off" => worker = pc \/ pc = "stopped" \/ (pc = "sleep" /\ wake # 0)
    /\ handler = "waiting" => cycleActive /\ grace # 0
    /\ worker \in StationSteps => spent < MaxStation
    /\ spent' = IF worker \in StationSteps THEN spent + 1 ELSE spent
    /\ nwpIn' = Less(nwpIn) /\ stationIn' = Less(stationIn)
    /\ maintIn' = Less(maintIn) /\ reviewIn' = Less(reviewIn)
    /\ wake' = IF pc = "sleep" THEN Less(wake) ELSE wake
    /\ tod' = (tod + 1) % Night
    /\ grace' = Less(grace)
    /\ UNCHANGED <<pc, worker, due, cycleActive, orphan, handler, signals>>

\* SIGTERM in a process whose main thread runs the event loop: the handler
\* runs on that thread, between two steps of the task.
Signal ==
    /\ handler = "off" /\ signals < MaxSignals
    /\ handler' = "waiting" /\ grace' = Grace /\ signals' = signals + 1
    /\ UNCHANGED <<task, orphan, deadlines, tod>>

\* Mutant of HandlerExit: the flat sleep the handler replaced.
HandlerExitAtOnce ==
    /\ handler = "waiting"
    /\ handler' = "exited"
    /\ UNCHANGED <<task, orphan, deadlines, tod, grace, signals>>

\* No cycle is active, or the deadline has passed: the handler closes the
\* database and the process is gone.
HandlerExit ==
    /\ handler = "waiting" /\ (~cycleActive \/ grace = 0)
    /\ handler' = "exited"
    /\ UNCHANGED <<task, orphan, deadlines, tod, grace, signals>>

\* The supervisor starts the process again.
Restart ==
    /\ handler = "exited"
    /\ NewTask
    /\ worker' = "none" /\ orphan' = FALSE /\ cycleActive' = FALSE
    /\ handler' = "off" /\ grace' = 0
    /\ UNCHANGED <<tod, signals>>

LoopStep ==
    \/ CheckDue \/ StartMaintenance \/ EndMaintenance \/ StartReview
    \/ EndReview \/ StartSleep \/ EndSleep
    \/ StepDone \/ NwpCycleDone \/ StationCycleDone \/ CycleCrashed

Next ==
    \/ LoopStep \/ WorkerDone \/ OrphanDone \/ Tick
    \/ StopBackground \/ StartBackground
    \/ Signal \/ HandlerExit \/ Restart

\* The event loop schedules the task, threads end (collectors have HTTP
\* timeouts), time passes and the supervisor restarts a dead process.
\* Signals, cancellations and a restart of the task are nobody's duty.
Fairness ==
    /\ WF_vars(LoopStep) /\ WF_vars(WorkerDone) /\ WF_vars(Tick)
    /\ WF_vars(HandlerExit) /\ WF_vars(Restart)

Spec == Init /\ [][Next]_vars /\ Fairness

-----------------------------------------------------------------------------
(* Properties.                                                             *)

\* is_cycle_active() is TRUE exactly while the task is inside a cycle, however
\* cycles begin and end: with success, an exception, a cancellation or the end
\* of the process (pipeline_loop.py:327-392).  It says nothing of a thread that
\* a cancelled task has left behind, nor that the cycle can still go on: see
\* FinishedCycleIsKept.
FlagMeansCycle == cycleActive <=> pc \in CycleSteps

\* The database is closed under the thread of a running cycle only after the
\* whole grace period (stability.py:109-110).
CloseWaitsForCycle ==
    (handler = "exited" /\ worker \in CycleSteps) => grace = 0

\* Whatever else is running late, NWP data is collected again and again.
NwpRecurs == nwpIn = 0 ~> (pc = "collect" \/ pc = "stopped")

\* Maintenance waits for a pass with nothing due; as long as the stations
\* answer within the NWP cadence, each night there is one, unless the
\* process is restarted, which moves the deadline to the next night.
MaintenanceRuns == maintIn = 0 ~> (pc \in {"maintenance", "stopped"} \/ handler = "exited")

\* The review is not lost either, although it is only looked at after the
\* maintenance and may be overtaken by it.
ReviewRuns == reviewIn = 0 ~> (pc \in {"review", "stopped"} \/ handler = "exited")

\* No job starves the others: collection, maintenance and review, which one task
\* runs one after the other, all come round again.
JobsRecur == NwpRecurs /\ MaintenanceRuns /\ ReviewRuns

\* The handler "waits (bounded) for the pipeline loop's single-flight cycle to
\* finish", which "stops throwing away cycles that were 95% done"
\* (stability.py:85-88): a cycle whose last thread has returned is not given
\* up.
FinishedCycleIsKept ==
    (handler = "exited" /\ cycleActive /\ worker = "none")
        => pc \notin {"refresh", "project"}
=============================================================================
