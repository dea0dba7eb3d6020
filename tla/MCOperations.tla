---------------------------- MODULE MCOperations ----------------------------
(* Model checking of what brings a model into service: the registry and its  *)
(* jobs (ModelRegistry), the loop that runs the cycles and the nightly jobs  *)
(* (PipelineLoop), or the harness that trains a candidate and verifies its   *)
(* forecasts (Verification).  The three share no state, so a behaviour is    *)
(* one of one of them, as `part` says, and the variables of the others stay  *)
(* put.                                                                      *)
(*                                                                           *)
(* ModelRegistry: two or three training runs are enough for a candidate, its *)
(* predecessor and one more version to be promoted, rolled back and pushed   *)
(* out of the bundles that are kept.  PipelineLoop: NWP every 3 ticks,       *)
(* stations every 2, a day of 4 ticks with the review one tick after the     *)
(* maintenance.  Verification: two points, one of them in smoke mode.        *)
EXTENDS ModelRegistry

CONSTANTS
    Parts,       \* which of the three a run is about
    NwpEvery, StationEvery, Night, ReviewAt, Grace, MaxStation, MaxSignals,
    MayCancel,                                            \* of the loop
    Spots, SmokePoints, MaxFaults, MaxRuns, Nothing       \* of the harness

VARIABLES
    part,
    step, worker, orphan, nwpIn, stationIn, maintIn, reviewIn, due, wake, tod, spent,
    cycleActive, handler, grace, signals,
    run, file, marker, halves, listed, cand, fitted, calDone, tested, outcome,
    faults, runs

\* A bad score and one that is better by exactly the margin.
MCScores == {1, 2}
\* No run measures a score: only the operator promotes.
MCNoScores == {}
MCSpots == <<"p1", "p2">>

Loop == INSTANCE PipelineLoop WITH pc <- step

Harness == INSTANCE Verification WITH
    Points <- Spots, None <- Nothing, rows <- tested, report <- outcome

ASSUME OperationsAssumption == Loop!LoopConstants /\ Harness!VerificationAssumption

loop == <<step, worker, due, wake, spent, cycleActive, orphan, nwpIn, stationIn, maintIn,
          reviewIn, tod, handler, grace, signals>>
harness == <<run, file, marker, halves, listed, cand, fitted, calDone, tested, outcome,
             faults, runs>>

MCInit ==
    /\ Init /\ Loop!Init /\ Harness!Init
    /\ part \in Parts
    /\ part # "loop" => tod = 0

MCNext ==
    /\ UNCHANGED part
    /\ \/ part = "registry" /\ Next /\ UNCHANGED <<loop, harness>>
       \/ part = "loop" /\ Loop!Next /\ UNCHANGED <<vars, harness>>
       \/ part = "harness" /\ Harness!Next /\ UNCHANGED <<vars, loop>>

\* Loop!Fairness and Harness!Fairness, of the part that runs: in this form one
\* tableau serves both.
MCFairness ==
    /\ WF_loop(part = "loop" /\ Loop!LoopStep)
    /\ WF_loop(part = "loop" /\ Loop!WorkerDone)
    /\ WF_loop(part = "loop" /\ Loop!Tick)
    /\ WF_loop(part = "loop" /\ Loop!HandlerExit)
    /\ WF_loop(part = "loop" /\ Loop!Restart)
    /\ WF_harness(part = "harness" /\ Harness!StageStep)
    /\ \A k \in DOMAIN Harness!Stages :
           SF_harness(part = "harness" /\ Harness!BeginStage(k))

MCSpec == MCInit /\ [][MCNext]_<<part, vars, loop, harness>> /\ MCFairness

-----------------------------------------------------------------------------
\* Properties of the loop and of the harness, under their own names.
LoopSound == Loop!TypeOK /\ Loop!FlagMeansCycle
CloseWaitsForCycle == Loop!CloseWaitsForCycle
HarnessSound == Harness!TypeOK /\ Harness!MarkersTellTruth /\ Harness!ReportOfOneCandidate

\* The jobs are only due where the loop runs, a report where the harness does.
JobsRecur == part = "loop" => Loop!JobsRecur
ReportComes == part = "harness" => Harness!ReportComes
=============================================================================
