---------------------------- MODULE Verification ----------------------------
(***************************************************************************)
(* The forecast-versus-reality harness (scripts/verify_vs_reality.py): five *)
(* stages run one after the other or one at a time, each resumable from     *)
(* markers and parquet files.  A run is killed at any point, restarted with *)
(* another stage, in smoke mode, or training one target at a time.          *)
(***************************************************************************)
EXTENDS Naturals, Sequences, FiniteSets

CONSTANTS
    Points,       \* op_points(), in this order
    SmokePoints,  \* how many of them --smoke takes
    MaxFaults,    \* bound: kills and failing stages
    MaxRuns,      \* bound: runs of a single stage, in smoke mode or of one target
    None

VerificationAssumption ==
    /\ Points \in Seq(STRING) /\ Points # <<>>
    /\ SmokePoints \in 1..Len(Points) /\ MaxFaults \in Nat /\ MaxRuns \in Nat
    /\ None \notin Nat

VARIABLES
    run,      \* the invocation: stages left, its next point, mode and targets
    file,     \* train_ds_<point>.parquet
    marker,   \* train_ds_<point>.done
    halves,   \* the targets each trained version has models of
    listed,   \* versions with a row in the model registry
    cand,     \* verify_candidate.txt
    fitted,   \* versions with a calibrator set
    calDone,  \* calibrated.marker
    rows,     \* test_rows_<point>.parquet
    report,   \* verification_results.json
    faults, runs

disk == <<file, marker, halves, listed, cand, fitted, calDone, rows, report>>
vars == <<run, disk, faults, runs>>

PointSet == {Points[k] : k \in DOMAIN Points}
Stages == <<"dataset", "train", "calibrate", "test", "report">>
Count(r) == IF r.smoke THEN SmokePoints ELSE Len(Points)
Versions == 0..(MaxRuns + MaxFaults + 1)
Pinned == 0        \* LAKEWIND_VERIFY_MV
Complete(v) == halves[v] = {"u", "v"}

Init ==
    /\ run = None
    /\ file = [p \in PointSet |-> "none"] /\ marker = [p \in PointSet |-> FALSE]
    /\ halves = [v \in Versions |-> {}]
    /\ listed = {} /\ cand = None /\ fitted = {} /\ calDone = FALSE
    /\ rows = [p \in PointSet |-> None] /\ report = None
    /\ faults = 0 /\ runs = 0

\* main(): a later stage alone needs the candidate marker.  The data set and
\* test stages, and all of them in one go, open the database read-only.
Begin(stages, smoke, targets) ==
    /\ run = None
    /\ stages[1] \in {"calibrate", "test", "report"} => cand # None
    /\ run' = [left |-> stages, next |-> 1, smoke |-> smoke, targets |-> targets,
               readonly |-> stages[1] \in {"dataset", "test"}]
    /\ UNCHANGED disk

BeginStage(k) == Begin(<<Stages[k]>>, FALSE, {"u", "v"}) /\ UNCHANGED <<faults, runs>>

\* The other ways to start it, MaxRuns times at most.
BeginOther ==
    /\ runs < MaxRuns
    /\ runs' = runs + 1
    /\ \/ Begin(Stages, FALSE, {"u", "v"})
       \/ \E k \in DOMAIN Stages : Begin(<<Stages[k]>>, TRUE, {"u", "v"})
       \/ \E target \in {"u", "v"} : Begin(<<"train">>, FALSE, {target})
    /\ UNCHANGED faults

In(stage) == run # None /\ run.left[1] = stage
StageEnds ==
    run' = IF Len(run.left) = 1 THEN None
           ELSE [run EXCEPT !.left = Tail(@), !.next = 1]
Exit == run' = None
Here == Points[run.next]
PointDone == run' = [run EXCEPT !.next = @ + 1]
PointsLeft == run.next <= Count(run)
Kept == UNCHANGED <<faults, runs>>

Fault == faults < MaxFaults /\ faults' = faults + 1

\* The process is reaped, or an exception leaves main().
Killed == run # None /\ Fault /\ Exit /\ UNCHANGED <<disk, runs>>

\* stage_dataset(): a point with marker and file is skipped.
BuiltByFile(p) == file[p] # "none"
Built(p) == marker[p] /\ file[p] # "none"

SkipDataset ==
    In("dataset") /\ PointsLeft /\ Built(Here) /\ PointDone /\ UNCHANGED disk /\ Kept

BuildDataset ==
    /\ In("dataset") /\ PointsLeft /\ ~Built(Here)
    /\ file' = [file EXCEPT ![Here] = "whole"]
    /\ marker' = [marker EXCEPT ![Here] = TRUE]
    /\ PointDone
    /\ UNCHANGED <<halves, listed, cand, fitted, calDone, rows, report>> /\ Kept

\* A kill on the way: the parquet file half written, or whole without its marker.
MarkFirst(p) ==
    /\ marker' = [marker EXCEPT ![p] = TRUE]
    /\ file' = [file EXCEPT ![p] = "torn"]

CutShort(p) ==
    /\ UNCHANGED marker
    /\ \E half \in {"torn", "whole"} : file' = [file EXCEPT ![p] = half]

BuildCut ==
    /\ In("dataset") /\ PointsLeft /\ ~Built(Here)
    /\ Fault /\ Exit /\ CutShort(Here)
    /\ UNCHANGED <<halves, listed, cand, fitted, calDone, rows, report, runs>>

DatasetEnds == In("dataset") /\ ~PointsLeft /\ StageEnds /\ UNCHANGED disk /\ Kept

\* stage_train(): a marked candidate is used again; otherwise every file that
\* is there is read, and a torn or a missing data set ends the run.
Trains == cand = None

ReuseCandidate == In("train") /\ ~Trains /\ StageEnds /\ UNCHANGED disk /\ Kept

CannotTrain ==
    /\ In("train") /\ Trains
    /\ \/ \E p \in PointSet : file[p] = "torn"
       \/ \A p \in PointSet : file[p] = "none"
    /\ Exit /\ UNCHANGED disk /\ Kept

\* A version of its own, named for the time, or the pinned one when the targets
\* are split over two runs; the run that trains u (or both) registers it, which a
\* read-only process and a version that has its row cannot; the run that trains v
\* marks it, whether u was trained or not.
Version == IF run.targets = {"u", "v"} THEN runs + faults + 1 ELSE Pinned
Registers == "u" \in run.targets
CanRegister == ~run.readonly /\ Version \notin listed
Marks == "v" \in run.targets

ModelsWritten ==
    /\ In("train") /\ Trains
    /\ \A p \in PointSet : file[p] # "torn"
    /\ \E p \in PointSet : file[p] = "whole"
    /\ halves' = [halves EXCEPT ![Version] = @ \cup run.targets]

Train ==
    /\ ModelsWritten
    /\ IF Registers /\ ~CanRegister
         THEN Exit /\ UNCHANGED <<listed, cand>>
         ELSE /\ listed' = IF Registers THEN listed \cup {Version} ELSE listed
              /\ cand' = IF Marks THEN Version ELSE cand
              /\ StageEnds
    /\ UNCHANGED <<file, marker, fitted, calDone, rows, report>> /\ Kept

\* A kill before the registration, or between it and the marker.
TrainCut ==
    /\ ModelsWritten
    /\ \/ UNCHANGED listed
       \/ Registers /\ CanRegister /\ listed' = listed \cup {Version}
    /\ Fault /\ Exit
    /\ UNCHANGED <<file, marker, cand, fitted, calDone, rows, report, runs>>

\* stage_calibrate(): calibrators that exist are kept; without any, as for a
\* candidate whose bundle lacks a target, the run ends.
CalibrationDone == In("calibrate") /\ calDone /\ StageEnds /\ UNCHANGED disk /\ Kept

FitCalibrators ==
    /\ In("calibrate") /\ ~calDone /\ cand \notin fitted /\ Complete(cand)
    /\ fitted' = fitted \cup {cand}
    /\ UNCHANGED <<run, file, marker, halves, listed, cand, calDone, rows, report>> /\ Kept

MayMark == In("calibrate") /\ ~calDone /\ cand \in fitted

MarkCalibrated ==
    /\ MayMark
    /\ calDone' = TRUE /\ StageEnds
    /\ UNCHANGED <<file, marker, halves, listed, cand, fitted, rows, report>> /\ Kept

CannotCalibrate ==
    /\ In("calibrate") /\ ~calDone /\ cand \notin fitted
    /\ Fault \/ (~Complete(cand) /\ UNCHANGED faults)
    /\ Exit /\ UNCHANGED <<disk, runs>>

\* stage_test(): a point with a file is skipped, unless this is a smoke run.
Scored(p) == rows[p] # None /\ ~run.smoke

SkipTest == In("test") /\ PointsLeft /\ Scored(Here) /\ PointDone /\ UNCHANGED disk /\ Kept

\* `many`: the rows of the point are enough for a full report.  Those of a smoke
\* run (three days) are not, nor are those of hours that had no truth yet.
Torn == [state |-> "torn"]
ScoredRows(many) ==
    [state |-> "whole", by |-> cand, many |-> many, banded |-> cand \in fitted]

\* The file appears when its writing starts; a kill leaves it torn.
ScoreTorn ==
    /\ In("test") /\ PointsLeft /\ ~Scored(Here)
    /\ Fault /\ Exit
    /\ rows' = [rows EXCEPT ![Here] = Torn]
    /\ UNCHANGED <<file, marker, halves, listed, cand, fitted, calDone, report, runs>>

Score ==
    /\ In("test") /\ PointsLeft /\ ~Scored(Here)
    /\ \E many \in BOOLEAN :
         /\ many => ~run.smoke /\ Complete(cand)
         /\ rows' = [rows EXCEPT ![Here] = ScoredRows(many)]
    /\ PointDone
    /\ UNCHANGED <<file, marker, halves, listed, cand, fitted, calDone, report>> /\ Kept

\* predict_at() finds no bundle for the first row there is.
CannotScore ==
    /\ In("test") /\ PointsLeft /\ ~Scored(Here) /\ ~Complete(cand)
    /\ Exit /\ UNCHANGED disk /\ Kept

TestEnds == In("test") /\ ~PointsLeft /\ StageEnds /\ UNCHANGED disk /\ Kept

\* stage_report(): every file of its points; one that cannot be read ends it, and
\* so do fewer than 200 rows, unless this is a smoke run.
Read == {p \in PointSet : rows[p] # None /\ \E k \in 1..Count(run) : Points[k] = p}

Readable == Read # {} /\ \A p \in Read : rows[p] # Torn
Enough == run.smoke \/ \E p \in Read : rows[p].many

NoReport ==
    /\ In("report")
    /\ ~(Readable /\ Enough)
    /\ Exit /\ UNCHANGED disk /\ Kept

Report ==
    /\ In("report")
    /\ Readable /\ Enough
    /\ report' = [of |-> cand, smoke |-> run.smoke, rows |-> [p \in Read |-> rows[p]]]
    /\ StageEnds
    /\ UNCHANGED <<file, marker, halves, listed, cand, fitted, calDone, rows>> /\ Kept

StageStep ==
    \/ SkipDataset \/ BuildDataset \/ DatasetEnds
    \/ ReuseCandidate \/ CannotTrain \/ Train
    \/ CalibrationDone \/ FitCalibrators \/ MarkCalibrated
    \/ SkipTest \/ Score \/ CannotScore \/ TestEnds \/ NoReport \/ Report

Next ==
    \/ \E k \in DOMAIN Stages : BeginStage(k)
    \/ BeginOther
    \/ StageStep
    \/ Killed \/ BuildCut \/ TrainCut \/ CannotCalibrate \/ ScoreTorn

\* A stage runs on, and whoever verifies starts each stage again and again.
Fairness ==
    /\ WF_vars(StageStep)
    /\ \A k \in DOMAIN Stages : SF_vars(BeginStage(k))

Spec == Init /\ [][Next]_vars /\ Fairness

-----------------------------------------------------------------------------
RowFiles ==
    {None, Torn} \cup
    [state : {"whole"}, by : Versions, many : BOOLEAN, banded : BOOLEAN]

\* Types; a run never loses its stages, and only trained versions are marked.
TypeOK ==
    /\ run # None => Len(run.left) \in 1..5 /\ run.next \in 1..(Len(Points) + 1)
    /\ file \in [PointSet -> {"none", "torn", "whole"}]
    /\ marker \in [PointSet -> BOOLEAN]
    /\ halves \in [Versions -> SUBSET {"u", "v"}]
    /\ cand # None => "v" \in halves[cand]
    /\ listed \subseteq Versions /\ fitted \subseteq Versions /\ calDone \in BOOLEAN
    /\ rows \in [PointSet -> RowFiles]

\* A data set that counts as built is whole, wherever the build was killed.
MarkedIsWhole == \A p \in PointSet : marker[p] => file[p] = "whole"

\* Once calibration is marked done the candidate the rows are scored with from
\* then on has its calibrators.
CalibratedIsFitted == calDone => cand \in fitted

\* What a marker says is done is done.
MarkersTellTruth == MarkedIsWhole /\ CalibratedIsFitted

\* The rows a report aggregates were all scored by the candidate it names,
\* through kills, repeated stages and split training.
ReportOfOneCandidate ==
    report # None => \A p \in DOMAIN report.rows : report.rows[p].by = report.of

\* What no later run repairs.  Test rows are never scored again, be they torn by a
\* kill or too few, and a candidate that was marked is never trained again, be it
\* without the models of u.
HalfACandidate == cand # None /\ ~Complete(cand)
SpoiltRows ==
    \/ \E p \in PointSet : rows[p] = Torn
    \/ \A p \in PointSet : rows[p] # None /\ ~rows[p].many

\* The harness gets to its report when its stages are run again and again, through
\* every kill, refusal and repeated stage, except where the disk holds one of these.
ReportComes == <>(report # None \/ HalfACandidate \/ SpoiltRows)

\* "every expensive stage runs FOREGROUND and is resumable": whatever a kill left
\* behind, starting the stages again gets to the report.
Resumable == <>(report # None)
=============================================================================
