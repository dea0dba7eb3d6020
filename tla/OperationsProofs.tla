-------------------------- MODULE OperationsProofs --------------------------
(***************************************************************************)
(* Proofs about the loop and the harness, for every cadence, every time of *)
(* day and grace period, every list of points and every number of faults.  *)
(*                                                                         *)
(* PipelineLoop: that the database is closed under a running cycle only    *)
(* after the whole grace period is not inductive: it needs the flag and    *)
(* the position of the task to agree in every state, and the thread the    *)
(* task waits for to be the one of its position.  Agreement says so.       *)
(* Verification: whatever was killed, a marker tells the truth and a       *)
(* report is about one candidate.                                          *)
(***************************************************************************)
EXTENDS MCOperations, TLAPS

(* The loop.                                                               *)

\* The flag is up exactly inside a cycle, and the task waits for its own
\* step's thread, which finds the job done or running.
Agreement ==
    /\ cycleActive <=> step \in Loop!CycleSteps
    /\ worker # "none" => worker = step

LoopInv ==
    /\ Loop!TypeOK
    /\ Agreement
    /\ Loop!CloseWaitsForCycle

-----------------------------------------------------------------------------
\* The next pass of a time of day is at most a day away.
LEMMA NextPassBounds ==
    ASSUME Loop!TypeOK, NEW t \in 0..(Night - 1)
    PROVE  Loop!NextPass(t) \in 0..Night
BY OperationsAssumption DEF Loop!LoopConstants, Loop!TypeOK, Loop!NextPass

LEMMA LeastBounds ==
    ASSUME NEW m \in Nat, NEW n \in Nat, NEW a \in 0..m, NEW b \in 0..n
    PROVE  Loop!Least(a, b) \in 0..m /\ Loop!Least(a, b) \in 0..n
BY DEF Loop!Least

LEMMA LessBounds ==
    ASSUME NEW m \in Nat, NEW a \in 0..m
    PROVE  Loop!Less(a) \in 0..m
BY DEF Loop!Less

\* The two nightly deadlines a new task or a finished job sets.
LEMMA NightlyDeadlines ==
    ASSUME Loop!TypeOK
    PROVE  Loop!NextPass(0) \in 0..Night /\ Loop!NextPass(ReviewAt) \in 0..Night
<1>1. 0 \in 0..(Night - 1) /\ ReviewAt \in 0..(Night - 1)
  BY OperationsAssumption DEF Loop!LoopConstants
<1>2. QED
  BY <1>1, NextPassBounds

-----------------------------------------------------------------------------
LEMMA InitLoopInv == ASSUME Loop!Init PROVE LoopInv
<1>1. tod \in 0..(Night - 1) /\ nwpIn \in 0..NwpEvery /\ stationIn \in 0..StationEvery
  BY OperationsAssumption DEF Loop!LoopConstants, Loop!Init
<1>2. maintIn \in 0..Night /\ reviewIn \in 0..Night
  BY <1>1, OperationsAssumption DEF Loop!LoopConstants, Loop!Init, Loop!NextPass
<1>3. wake \in 0..StationEvery /\ spent \in 0..MaxStation /\ grace \in 0..Grace
      /\ signals \in 0..MaxSignals
  BY OperationsAssumption DEF Loop!LoopConstants, Loop!Init
<1>4. Loop!TypeOK
  BY <1>1, <1>2, <1>3 DEF Loop!Init, Loop!TypeOK
<1>5. QED
  BY <1>4 DEF Loop!Init, LoopInv, Agreement, Loop!CloseWaitsForCycle, Loop!CycleSteps,
     Loop!NwpSteps, Loop!StationSteps

\* A new task is of the right type and in no cycle.
LEMMA NewTaskProperties ==
    ASSUME LoopInv, Loop!NewTask
    PROVE  /\ step' = "check"
           /\ nwpIn' \in 0..NwpEvery /\ stationIn' \in 0..StationEvery
           /\ maintIn' \in 0..Night /\ reviewIn' \in 0..Night
           /\ due' \in [nwp : BOOLEAN, station : BOOLEAN]
           /\ wake' \in 0..StationEvery /\ spent' \in 0..MaxStation
BY OperationsAssumption, NightlyDeadlines DEF Loop!LoopConstants, LoopInv, Loop!NewTask

\* An await keeps the task's own thread and the type of its variables.
LEMMA AwaitProperties ==
    ASSUME LoopInv, NEW s \in Loop!CycleSteps \cup Loop!Nightly, Loop!Await(s)
    PROVE  /\ step' = s /\ worker' = s
           /\ spent' \in 0..MaxStation
BY OperationsAssumption DEF Loop!LoopConstants, LoopInv, Loop!TypeOK, Loop!Await,
   Loop!CycleSteps, Loop!NwpSteps, Loop!StationSteps, Loop!Nightly

-----------------------------------------------------------------------------
\* The type invariant, action by action.
LEMMA NextTypeOK == ASSUME LoopInv, [Loop!Next]_(Loop!vars) PROVE Loop!TypeOK'
<1> USE OperationsAssumption DEF Loop!LoopConstants, LoopInv, Loop!TypeOK, Loop!task,
       Loop!deadlines, Loop!shutdown, Loop!CycleSteps, Loop!NwpSteps, Loop!StationSteps,
       Loop!Nightly
<1>1. CASE Loop!CheckDue
  <2>1. wake' \in 0..StationEvery
    BY <1>1, LeastBounds DEF Loop!CheckDue
  <2>2. due' \in [nwp : BOOLEAN, station : BOOLEAN]
    BY <1>1 DEF Loop!CheckDue
  <2>3. CASE nwpIn = 0
    <3>1. Loop!Await("collect") /\ cycleActive' = TRUE
      BY <1>1, <2>3 DEF Loop!CheckDue
    <3>2. QED
      BY <1>1, <2>1, <2>2, <3>1, AwaitProperties DEF Loop!CheckDue, Loop!CycleSteps,
         Loop!NwpSteps
  <2>4. CASE nwpIn # 0 /\ stationIn = 0
    <3>1. Loop!Await("stations") /\ cycleActive' = TRUE
      BY <1>1, <2>4 DEF Loop!CheckDue
    <3>2. QED
      BY <1>1, <2>1, <2>2, <3>1, AwaitProperties DEF Loop!CheckDue, Loop!CycleSteps,
         Loop!StationSteps
  <2>5. CASE nwpIn # 0 /\ stationIn # 0
    BY <1>1, <2>1, <2>2, <2>5 DEF Loop!CheckDue
  <2>6. QED
    BY <2>3, <2>4, <2>5
<1>2. CASE Loop!StartMaintenance
  BY <1>2, AwaitProperties DEF Loop!StartMaintenance, Loop!Nightly
<1>3. CASE Loop!EndMaintenance
  <2>1. maintIn' \in 0..Night
    BY <1>3, NightlyDeadlines DEF Loop!EndMaintenance
  <2>2. reviewIn' \in 0..Night
    BY <1>3, NightlyDeadlines, LeastBounds DEF Loop!EndMaintenance
  <2>3. QED
    BY <1>3, <2>1, <2>2 DEF Loop!EndMaintenance
<1>4. CASE Loop!StartReview
  BY <1>4, AwaitProperties DEF Loop!StartReview, Loop!Nightly
<1>5. CASE Loop!EndReview
  BY <1>5, NightlyDeadlines DEF Loop!EndReview
<1>6. CASE Loop!StartSleep
  BY <1>6 DEF Loop!StartSleep
<1>7. CASE Loop!EndSleep
  BY <1>7 DEF Loop!EndSleep
<1>8. CASE Loop!StepDone
  <2>1. PICK s \in {"collect", "predict", "artifacts", "stations"} :
            /\ Loop!Await(Loop!NextStep[s])
            /\ UNCHANGED <<due, wake, cycleActive, orphan, Loop!deadlines, tod,
                           Loop!shutdown>>
    BY <1>8 DEF Loop!StepDone, Loop!NextStep
  <2>2. Loop!NextStep[s] \in Loop!CycleSteps
    BY <2>1 DEF Loop!NextStep, Loop!CycleSteps, Loop!NwpSteps, Loop!StationSteps
  <2>3. QED
    BY <2>1, <2>2, AwaitProperties
<1>9. CASE Loop!NwpCycleDone
  <2>1. nwpIn' \in 0..NwpEvery /\ stationIn' \in 0..StationEvery
    BY <1>9 DEF Loop!NwpCycleDone, Loop!Least
  <2>2. QED
    BY <1>9, <2>1 DEF Loop!NwpCycleDone
<1>10. CASE Loop!StationCycleDone
  <2>1. stationIn' \in 0..StationEvery
    BY <1>10 DEF Loop!StationCycleDone
  <2>2. QED
    BY <1>10, <2>1 DEF Loop!StationCycleDone
<1>11. CASE Loop!CycleCrashed
  <2>1. nwpIn' \in 0..NwpEvery
    BY <1>11 DEF Loop!CycleCrashed
  <2>2. stationIn' \in 0..StationEvery
    BY <1>11 DEF Loop!CycleCrashed, Loop!Least
  <2>3. QED
    BY <1>11, <2>1, <2>2 DEF Loop!CycleCrashed
<1>12. CASE Loop!WorkerDone
  BY <1>12 DEF Loop!WorkerDone
<1>13. CASE Loop!OrphanDone
  BY ZenonT(30), <1>13 DEF Loop!OrphanDone
<1>14. CASE Loop!Tick
  <2>1. /\ nwpIn' \in 0..NwpEvery /\ stationIn' \in 0..StationEvery
        /\ maintIn' \in 0..Night /\ reviewIn' \in 0..Night
        /\ wake' \in 0..StationEvery /\ grace' \in 0..Grace
    BY <1>14, LessBounds DEF Loop!Tick
  <2>2. spent' \in 0..MaxStation
    BY <1>14 DEF Loop!Tick
  <2>3. tod' \in 0..(Night - 1)
    BY <1>14 DEF Loop!Tick
  <2>4. QED
    BY <1>14, <2>1, <2>2, <2>3 DEF Loop!Tick
<1>15. CASE Loop!StopBackground
  BY <1>15 DEF Loop!StopBackground
<1>16. CASE Loop!StartBackground
  BY <1>16, NewTaskProperties DEF Loop!StartBackground
<1>17. CASE Loop!Signal
  BY <1>17 DEF Loop!Signal
<1>18. CASE Loop!HandlerExit
  BY <1>18 DEF Loop!HandlerExit
<1>19. CASE Loop!Restart
  <2>1. /\ step' = "check"
        /\ nwpIn' \in 0..NwpEvery /\ stationIn' \in 0..StationEvery
        /\ maintIn' \in 0..Night /\ reviewIn' \in 0..Night
        /\ due' \in [nwp : BOOLEAN, station : BOOLEAN]
        /\ wake' \in 0..StationEvery /\ spent' \in 0..MaxStation
    BY <1>19, NewTaskProperties DEF Loop!Restart
  <2>2. /\ worker' = "none" /\ orphan' = FALSE /\ cycleActive' = FALSE
        /\ handler' = "off" /\ grace' \in 0..Grace
        /\ tod' = tod /\ signals' = signals
    BY <1>19 DEF Loop!Restart
  <2>3. QED
    BY <2>1, <2>2
<1>20. CASE UNCHANGED Loop!vars
  BY <1>20 DEF Loop!vars
<1>21. QED
  BY <1>1, <1>2, <1>3, <1>4, <1>5, <1>6, <1>7, <1>8, <1>9, <1>10, <1>11, <1>12, <1>13,
     <1>14, <1>15, <1>16, <1>17, <1>18, <1>19, <1>20 DEF Loop!Next, Loop!LoopStep

-----------------------------------------------------------------------------
\* Flag, position and thread keep in step.
LEMMA NextAgreement == ASSUME LoopInv, [Loop!Next]_(Loop!vars) PROVE Agreement'
<1> USE DEF LoopInv, Loop!TypeOK, Agreement, Loop!CycleSteps, Loop!NwpSteps,
       Loop!StationSteps, Loop!Nightly, Loop!task
<1>1. CASE Loop!CheckDue
  <2>1. CASE nwpIn = 0
    BY <1>1, <2>1 DEF Loop!CheckDue, Loop!Await
  <2>2. CASE nwpIn # 0 /\ stationIn = 0
    BY <1>1, <2>2 DEF Loop!CheckDue, Loop!Await
  <2>3. CASE nwpIn # 0 /\ stationIn # 0
    BY <1>1, <2>3 DEF Loop!CheckDue
  <2>4. QED
    BY <2>1, <2>2, <2>3
<1>2. CASE Loop!StartMaintenance
  BY <1>2 DEF Loop!StartMaintenance, Loop!Await
<1>3. CASE Loop!EndMaintenance
  BY <1>3 DEF Loop!EndMaintenance, Loop!Resumes
<1>4. CASE Loop!StartReview
  BY <1>4 DEF Loop!StartReview, Loop!Await
<1>5. CASE Loop!EndReview
  BY <1>5 DEF Loop!EndReview, Loop!Resumes
<1>6. CASE Loop!StartSleep
  BY <1>6 DEF Loop!StartSleep
<1>7. CASE Loop!EndSleep
  BY <1>7 DEF Loop!EndSleep
<1>8. CASE Loop!StepDone
  BY <1>8 DEF Loop!StepDone, Loop!Resumes, Loop!Await, Loop!NextStep
<1>9. CASE Loop!NwpCycleDone
  BY <1>9 DEF Loop!NwpCycleDone, Loop!Resumes
<1>10. CASE Loop!StationCycleDone
  BY <1>10 DEF Loop!StationCycleDone, Loop!Resumes
<1>11. CASE Loop!CycleCrashed
  BY <1>11 DEF Loop!CycleCrashed, Loop!Resumes
<1>12. CASE Loop!WorkerDone
  BY <1>12 DEF Loop!WorkerDone
<1>13. CASE Loop!OrphanDone
  BY <1>13 DEF Loop!OrphanDone
<1>14. CASE Loop!Tick
  BY <1>14 DEF Loop!Tick
<1>15. CASE Loop!StopBackground
  BY <1>15 DEF Loop!StopBackground
<1>16. CASE Loop!StartBackground
  BY <1>16 DEF Loop!StartBackground, Loop!NewTask
<1>17. CASE Loop!Signal
  BY <1>17 DEF Loop!Signal
<1>18. CASE Loop!HandlerExit
  BY <1>18 DEF Loop!HandlerExit
<1>19. CASE Loop!Restart
  BY <1>19 DEF Loop!Restart, Loop!NewTask
<1>20. CASE UNCHANGED Loop!vars
  BY <1>20 DEF Loop!vars
<1>21. QED
  BY <1>1, <1>2, <1>3, <1>4, <1>5, <1>6, <1>7, <1>8, <1>9, <1>10, <1>11, <1>12, <1>13,
     <1>14, <1>15, <1>16, <1>17, <1>18, <1>19, <1>20 DEF Loop!Next, Loop!LoopStep

\* Only the handler's exit can close the database, and it looks at the flag.
LEMMA NextCloseWaits ==
    ASSUME LoopInv, [Loop!Next]_(Loop!vars)
    PROVE  Loop!CloseWaitsForCycle'
<1> USE DEF LoopInv, Loop!CloseWaitsForCycle, Loop!task, Loop!shutdown, Loop!CycleSteps,
       Loop!NwpSteps, Loop!StationSteps
<1>1. CASE Loop!HandlerExit
  BY <1>1 DEF Loop!HandlerExit, Agreement, Loop!TypeOK, Loop!Nightly
<1>2. CASE Loop!Restart
  BY <1>2 DEF Loop!Restart
<1>3. CASE Loop!Signal
  BY <1>3 DEF Loop!Signal
<1>4. CASE Loop!LoopStep
  <2>1. handler' = handler /\ handler = "off"
    BY <1>4 DEF Loop!LoopStep, Loop!CheckDue, Loop!StartMaintenance,
       Loop!EndMaintenance, Loop!StartReview, Loop!EndReview, Loop!StartSleep,
       Loop!EndSleep, Loop!StepDone, Loop!NwpCycleDone, Loop!StationCycleDone,
       Loop!CycleCrashed, Loop!Resumes, Loop!LoopRuns
  <2>2. QED
    BY <2>1
<1>5. CASE Loop!WorkerDone
  BY <1>5 DEF Loop!WorkerDone
<1>6. CASE Loop!OrphanDone
  BY <1>6 DEF Loop!OrphanDone
<1>7. CASE Loop!Tick
  BY <1>7 DEF Loop!Tick
<1>8. CASE Loop!StopBackground
  BY <1>8 DEF Loop!StopBackground, Loop!LoopRuns
<1>9. CASE Loop!StartBackground
  BY <1>9 DEF Loop!StartBackground, Loop!LoopRuns
<1>10. CASE UNCHANGED Loop!vars
  BY <1>10 DEF Loop!vars
<1>11. QED
  BY <1>1, <1>2, <1>3, <1>4, <1>5, <1>6, <1>7, <1>8, <1>9, <1>10 DEF Loop!Next

-----------------------------------------------------------------------------
\* The inductive invariant holds in every behaviour of the loop: the jobs of
\* the registry leave its variables alone.
THEOREM LoopInvariant == MCSpec => []LoopInv
<1>1. MCInit => LoopInv
  BY InitLoopInv DEF MCInit
<1>2. LoopInv /\ [MCNext]_<<part, vars, loop, harness>> => LoopInv'
  <2>1. [MCNext]_<<part, vars, loop, harness>> => [Loop!Next]_(Loop!vars)
    BY DEF MCNext, loop, Loop!vars, Loop!task, Loop!deadlines, Loop!shutdown
  <2>2. QED
    BY <2>1, NextTypeOK, NextAgreement, NextCloseWaits DEF LoopInv
<1>3. QED
  BY <1>1, <1>2, PTL DEF MCSpec

\* Every deadline, flag and counter stays in its range, and the flag is up
\* exactly while the task is inside a cycle, however cycles begin and end: never
\* for a cycle that is over, and never missing for one that a closing database
\* would cut off.
THEOREM LoopIsSound == MCSpec => []LoopSound
<1>1. LoopInv => LoopSound
  BY DEF LoopInv, Agreement, LoopSound, Loop!FlagMeansCycle
<1>2. QED
  BY <1>1, LoopInvariant, PTL

\* The handler does not close the database under the thread of a running
\* cycle before the grace period is over.
THEOREM CloseWaits == MCSpec => []CloseWaitsForCycle
<1>1. LoopInv => CloseWaitsForCycle
  BY DEF LoopInv, CloseWaitsForCycle
<1>2. QED
  BY <1>1, LoopInvariant, PTL
-----------------------------------------------------------------------------
(* The harness.                                                             *)

StageNames == {"dataset", "train", "calibrate", "test", "report"}

\* What an invocation has left of the stages.
Lefts ==
    {<<"dataset", "train", "calibrate", "test", "report">>,
     <<"train", "calibrate", "test", "report">>,
     <<"calibrate", "test", "report">>, <<"test", "report">>}
        \cup {<<s>> : s \in StageNames}

Runs ==
    [left : Lefts, next : 1..(Len(Spots) + 1), smoke : BOOLEAN,
     targets : {{"u", "v"}, {"u"}, {"v"}}, readonly : BOOLEAN]

\* Only a run that trains both targets goes on after training, and no later
\* stage runs without a candidate.
RunKnows ==
    run # Nothing =>
        /\ run \in Runs
        /\ Len(run.left) # 1 => run.targets = {"u", "v"}
        /\ run.left[1] \in {"calibrate", "test", "report"} => cand # Nothing

DiskTyped ==
    /\ file \in [Harness!PointSet -> {"none", "torn", "whole"}]
    /\ marker \in [Harness!PointSet -> BOOLEAN]
    /\ halves \in [Harness!Versions -> SUBSET {"u", "v"}]
    /\ listed \subseteq Harness!Versions /\ fitted \subseteq Harness!Versions
    /\ calDone \in BOOLEAN
    /\ tested \in [Harness!PointSet -> Harness!RowFiles]
    /\ cand \in Harness!Versions \cup {Nothing}
    /\ runs \in 0..MaxRuns

CandTrained == cand # Nothing => "v" \in halves[cand]

\* Rows are those of the candidate there is: it never changes.
RowsOfCandidate ==
    \A p \in Harness!PointSet :
        tested[p] # Nothing /\ tested[p] # Harness!Torn => cand # Nothing /\ tested[p].by = cand

FaultsCounted == faults \in 0..MaxFaults

HarnessInv ==
    /\ RunKnows /\ DiskTyped /\ CandTrained /\ RowsOfCandidate
    /\ Harness!MarkedIsWhole /\ Harness!CalibratedIsFitted /\ Harness!ReportOfOneCandidate

LEMMA StagesGoOn ==
    ASSUME NEW s \in Lefts
    PROVE  /\ Len(s) \in 1..5 /\ s[1] \in StageNames
           /\ Len(s) # 1 => /\ Tail(s) \in Lefts
                            /\ s[1] = "dataset" => Tail(s)[1] = "train"
<1>1. CASE s = <<"dataset", "train", "calibrate", "test", "report">>
  <2>1. Tail(s) = <<"train", "calibrate", "test", "report">>
    BY <1>1
  <2> QED
    BY <1>1, <2>1 DEF Lefts, StageNames
<1>2. CASE s = <<"train", "calibrate", "test", "report">>
  <2>1. Tail(s) = <<"calibrate", "test", "report">>
    BY <1>2
  <2> QED
    BY <1>2, <2>1 DEF Lefts, StageNames
<1>3. CASE s = <<"calibrate", "test", "report">>
  <2>1. Tail(s) = <<"test", "report">>
    BY <1>3
  <2> QED
    BY <1>3, <2>1 DEF Lefts, StageNames
<1>4. CASE s = <<"test", "report">>
  <2>1. Tail(s) = <<"report">>
    BY <1>4
  <2> QED
    BY <1>4, <2>1 DEF Lefts, StageNames
<1>5. ASSUME NEW n \in StageNames, s = <<n>>
      PROVE  Len(s) = 1 /\ s[1] \in StageNames
  BY <1>5
<1>6. \/ s = <<"dataset", "train", "calibrate", "test", "report">>
      \/ s = <<"train", "calibrate", "test", "report">>
      \/ s = <<"calibrate", "test", "report">> \/ s = <<"test", "report">>
      \/ \E n \in StageNames : s = <<n>>
  BY Zenon DEF Lefts
<1>7. CASE \E n \in StageNames : s = <<n>>
  <2>1. Len(s) = 1 /\ s[1] \in StageNames
    BY <1>5, <1>7
  <2> QED
    BY <2>1
<1> QED
  BY Zenon, <1>1, <1>2, <1>3, <1>4, <1>6, <1>7

\* The next stage of a run, or its end.
LEMMA StageEndsWell ==
    ASSUME RunKnows, run # Nothing, Harness!StageEnds,
           run.left[1] = "dataset" \/ cand' # Nothing \/ Len(run.left) = 1
    PROVE  RunKnows'
<1>1. CASE Len(run.left) = 1
  BY <1>1 DEF Harness!StageEnds, RunKnows
<1>2. CASE Len(run.left) # 1
  <2>1. run' = [run EXCEPT !.left = Tail(run.left), !.next = 1]
    BY <1>2 DEF Harness!StageEnds
  <2>2. run \in Runs /\ run.left \in Lefts
    BY DEF RunKnows, Runs
  <2>3. Tail(run.left) \in Lefts /\ (run.left[1] = "dataset" => Tail(run.left)[1] = "train")
    BY <1>2, <2>2, StagesGoOn
  <2>4. 1 \in 1..(Len(Spots) + 1)
    BY <2>2 DEF Runs
  <2> DEFINE rest == Tail(run.left)
  <2>5. /\ rest \in Lefts /\ (run.left[1] = "dataset" => rest[1] = "train")
        /\ run' = [run EXCEPT !.left = rest, !.next = 1]
    BY <2>1, <2>3
  <2> HIDE DEF rest
  <2>6. run' \in Runs /\ run'.left = rest /\ run'.targets = run.targets
    BY <2>2, <2>4, <2>5 DEF Runs
  <2>7. run.targets = {"u", "v"}
    BY <1>2 DEF RunKnows
  <2>8. rest[1] \in {"calibrate", "test", "report"} => cand' # Nothing
    BY <1>2, <2>5
  <2> QED
    BY <2>6, <2>7, <2>8 DEF RunKnows
<1> QED
  BY <1>1, <1>2

\* A point of the stage is done with; the next is one of its points, or none.
LEMMA PointDoneWell ==
    ASSUME OperationsAssumption, RunKnows, run # Nothing, Harness!PointsLeft, Harness!PointDone,
           UNCHANGED cand
    PROVE  RunKnows'
<1>1. Len(Spots) \in Nat /\ SmokePoints \in 1..Len(Spots)
  BY DEF OperationsAssumption, Harness!VerificationAssumption
<1>2. run \in Runs /\ run.next \in 1..(Len(Spots) + 1)
  BY DEF RunKnows, Runs
<1>3. run' = [run EXCEPT !.next = run.next + 1] /\ run.next <= Len(Spots)
  BY <1>1, <1>2 DEF Harness!PointDone, Harness!PointsLeft, Harness!Count
<1>4. run.next + 1 \in 1..(Len(Spots) + 1)
  BY <1>1, <1>2, <1>3
<1>5. run' \in Runs /\ run'.left = run.left /\ run'.targets = run.targets
  BY <1>2, <1>3, <1>4 DEF Runs
<1> QED
  BY <1>5 DEF RunKnows

LEMMA HereIsPoint ==
    ASSUME OperationsAssumption, RunKnows, run # Nothing, Harness!PointsLeft
    PROVE  Harness!Here \in Harness!PointSet
<1>1. Spots \in Seq(STRING) /\ Len(Spots) \in Nat /\ SmokePoints \in 1..Len(Spots)
  BY DEF OperationsAssumption, Harness!VerificationAssumption
<1>2. run.next \in 1..(Len(Spots) + 1)
  BY DEF RunKnows, Runs
<1>3. run.next \in 1..Len(Spots)
  BY <1>1, <1>2 DEF Harness!PointsLeft, Harness!Count
<1> QED
  BY <1>1, <1>3 DEF Harness!Here, Harness!PointSet

\* The candidate is a version, and no version is Nothing.
LEMMA CandidateIs ==
    ASSUME OperationsAssumption, HarnessInv
    PROVE  /\ Nothing \notin Harness!Versions
           /\ FaultsCounted => runs + faults + 1 \in Harness!Versions
           /\ Harness!Pinned \in Harness!Versions
           /\ cand # Nothing => cand \in Harness!Versions
           /\ calDone => cand # Nothing
<1>1. MaxRuns \in Nat /\ MaxFaults \in Nat /\ Nothing \notin Nat /\ runs \in 0..MaxRuns
  BY DEF OperationsAssumption, Harness!VerificationAssumption, HarnessInv, DiskTyped
<1>2. Harness!Versions = 0..(MaxRuns + MaxFaults + 1)
  BY DEF Harness!Versions
<1>3. /\ Nothing \notin Harness!Versions /\ 0 \in Harness!Versions
      /\ FaultsCounted => runs + faults + 1 \in Harness!Versions
  BY <1>1, <1>2 DEF FaultsCounted
<1> QED
  BY <1>3 DEF HarnessInv, DiskTyped, Harness!CalibratedIsFitted, Harness!Pinned

LEMMA InitHarness == ASSUME OperationsAssumption, Harness!Init PROVE HarnessInv
<1>1. MaxRuns \in Nat
  BY DEF OperationsAssumption, Harness!VerificationAssumption
<1>2. RunKnows
  BY DEF Harness!Init, RunKnows
<1>3. DiskTyped
  <2>1. tested \in [Harness!PointSet -> Harness!RowFiles]
    BY DEF Harness!Init, Harness!RowFiles
  <2>2. halves \in [Harness!Versions -> SUBSET {"u", "v"}]
    BY DEF Harness!Init
  <2>3. /\ file \in [Harness!PointSet -> {"none", "torn", "whole"}]
        /\ marker \in [Harness!PointSet -> BOOLEAN]
    BY DEF Harness!Init
  <2>4. runs \in 0..MaxRuns /\ cand = Nothing /\ listed = {} /\ fitted = {} /\ calDone = FALSE
    BY <1>1 DEF Harness!Init
  <2> QED
    BY <2>1, <2>2, <2>3, <2>4 DEF DiskTyped
<1>4. CandTrained /\ RowsOfCandidate
  BY DEF Harness!Init, CandTrained, RowsOfCandidate
<1>5. Harness!MarkedIsWhole /\ Harness!CalibratedIsFitted /\ Harness!ReportOfOneCandidate
  BY DEF Harness!Init, Harness!MarkedIsWhole, Harness!CalibratedIsFitted,
         Harness!ReportOfOneCandidate
<1> QED
  BY <1>2, <1>3, <1>4, <1>5 DEF HarnessInv

\* A run begins, of a single stage or of all.
LEMMA BeginWell ==
    ASSUME OperationsAssumption, HarnessInv,
           NEW s \in Lefts, s[1] \in StageNames, NEW smoke \in BOOLEAN,
           NEW targets \in {{"u", "v"}, {"u"}, {"v"}},
           Len(s) # 1 => targets = {"u", "v"}, Harness!Begin(s, smoke, targets)
    PROVE  RunKnows'
<1>1. 1 \in 1..(Len(Spots) + 1)
  BY DEF OperationsAssumption, Harness!VerificationAssumption
<1>2. run' = [left |-> s, next |-> 1, smoke |-> smoke, targets |-> targets,
              readonly |-> s[1] \in {"dataset", "test"}]
  BY DEF Harness!Begin
<1>3. /\ run' \in Runs /\ run'.left = s /\ run'.targets = targets
  <2>1. (s[1] \in {"dataset", "test"}) \in BOOLEAN
    OBVIOUS
  <2> QED
    BY <1>1, <1>2, <2>1 DEF Runs
<1>4. s[1] \in {"calibrate", "test", "report"} => cand' # Nothing
  BY DEF Harness!Begin, Harness!disk
<1> QED
  BY <1>3, <1>4 DEF RunKnows

\* The disk stays as it is.
LEMMA DiskStays ==
    ASSUME HarnessInv, RunKnows', UNCHANGED Harness!disk, runs' \in 0..MaxRuns
    PROVE  HarnessInv'
<1>1. UNCHANGED <<file, marker, halves, listed, cand, fitted, calDone, tested, outcome>>
  BY DEF Harness!disk
<1>2. DiskTyped' /\ CandTrained' /\ RowsOfCandidate'
  BY <1>1 DEF HarnessInv, DiskTyped, CandTrained, RowsOfCandidate
<1>3. /\ Harness!MarkedIsWhole' /\ Harness!CalibratedIsFitted'
      /\ Harness!ReportOfOneCandidate'
  BY <1>1 DEF HarnessInv, Harness!MarkedIsWhole, Harness!CalibratedIsFitted,
              Harness!ReportOfOneCandidate
<1> QED
  BY <1>2, <1>3 DEF HarnessInv

LEMMA BeginPreserves ==
    ASSUME OperationsAssumption, HarnessInv,
           Harness!BeginOther \/ \E k \in DOMAIN Harness!Stages : Harness!BeginStage(k)
    PROVE  HarnessInv'
<1>0. MaxRuns \in Nat /\ runs \in 0..MaxRuns
  BY DEF OperationsAssumption, Harness!VerificationAssumption, HarnessInv, DiskTyped
<1>1. /\ DOMAIN Harness!Stages = 1..5 /\ Harness!Stages[1] \in StageNames
      /\ Harness!Stages \in Lefts /\ <<"train">> \in Lefts
      /\ \A k \in 1..5 : Harness!Stages[k] \in StageNames
  <2>1. Harness!Stages = <<"dataset", "train", "calibrate", "test", "report">>
    BY DEF Harness!Stages
  <2> QED
    BY <2>1 DEF StageNames, Lefts
<1>2. \A n \in StageNames : <<n>> \in Lefts /\ <<n>>[1] \in StageNames /\ Len(<<n>>) = 1
  BY DEF Lefts
<1>3. ASSUME NEW k \in DOMAIN Harness!Stages, NEW smoke \in BOOLEAN,
             Harness!Begin(<<Harness!Stages[k]>>, smoke, {"u", "v"})
      PROVE  RunKnows' /\ UNCHANGED Harness!disk
  <2>1. PICK n \in StageNames : n = Harness!Stages[k]
    BY <1>1
  <2>2. Harness!Begin(<<n>>, smoke, {"u", "v"})
    BY <1>3, <2>1
  <2> QED
    BY <1>2, <2>2, BeginWell DEF Harness!Begin
<1>4. ASSUME Harness!Begin(Harness!Stages, FALSE, {"u", "v"})
      PROVE  RunKnows' /\ UNCHANGED Harness!disk
  BY <1>1, <1>4, BeginWell DEF Harness!Begin
<1>5. ASSUME NEW t \in {"u", "v"}, Harness!Begin(<<"train">>, FALSE, {t})
      PROVE  RunKnows' /\ UNCHANGED Harness!disk
  <2>1. "train" \in StageNames
    BY DEF StageNames
  <2> QED
    BY <1>2, <1>5, <2>1, BeginWell DEF Harness!Begin
<1>6. CASE \E k \in DOMAIN Harness!Stages : Harness!BeginStage(k)
  <2>1. RunKnows' /\ UNCHANGED Harness!disk /\ UNCHANGED runs
    BY <1>3, <1>6 DEF Harness!BeginStage
  <2> QED
    BY <1>0, <2>1, DiskStays
<1>7. CASE Harness!BeginOther
  <2>1. RunKnows' /\ UNCHANGED Harness!disk
    BY <1>3, <1>4, <1>5, <1>7 DEF Harness!BeginOther
  <2>2. runs' \in 0..MaxRuns
    BY <1>0, <1>7 DEF Harness!BeginOther
  <2> QED
    BY <2>1, <2>2, DiskStays
<1> QED
  BY <1>6, <1>7

\* Steps that touch no file: what is done is passed over, a stage ends, a run
\* fails or dies.
LEMMA PassingPreserves ==
    ASSUME OperationsAssumption, HarnessInv,
           \/ Harness!SkipDataset \/ Harness!DatasetEnds \/ Harness!ReuseCandidate
           \/ Harness!CannotTrain \/ Harness!CalibrationDone \/ Harness!CannotCalibrate
           \/ Harness!SkipTest \/ Harness!CannotScore \/ Harness!TestEnds
           \/ Harness!NoReport \/ Harness!Killed
    PROVE  HarnessInv'
<1>1. UNCHANGED Harness!disk /\ UNCHANGED runs /\ run # Nothing
  BY DEF Harness!SkipDataset, Harness!DatasetEnds, Harness!ReuseCandidate,
         Harness!CannotTrain, Harness!CalibrationDone, Harness!CannotCalibrate,
         Harness!SkipTest, Harness!CannotScore, Harness!TestEnds, Harness!NoReport,
         Harness!Killed, Harness!Kept, Harness!In
<1>2. UNCHANGED cand /\ RunKnows /\ runs \in 0..MaxRuns
  BY <1>1 DEF Harness!disk, HarnessInv, DiskTyped
<1>3. CASE Harness!SkipDataset \/ Harness!SkipTest
  <2>1. Harness!PointsLeft /\ Harness!PointDone
    BY <1>3 DEF Harness!SkipDataset, Harness!SkipTest
  <2>2. RunKnows'
    BY <1>1, <1>2, <2>1, PointDoneWell
  <2> QED
    BY <1>1, <1>2, <2>2, DiskStays
<1>4. CASE Harness!DatasetEnds \/ Harness!ReuseCandidate \/ Harness!CalibrationDone
           \/ Harness!TestEnds
  <2>1. Harness!StageEnds /\ (run.left[1] = "dataset" \/ cand # Nothing)
    <3>1. run.left[1] \in {"calibrate", "test"} => cand # Nothing
      BY <1>1, <1>2 DEF RunKnows
    <3> QED
      BY <1>4, <3>1 DEF Harness!DatasetEnds, Harness!ReuseCandidate, Harness!CalibrationDone,
                        Harness!TestEnds, Harness!In, Harness!Trains
  <2>2. RunKnows'
    BY <1>1, <1>2, <2>1, StageEndsWell
  <2> QED
    BY <1>1, <1>2, <2>2, DiskStays
<1>5. CASE Harness!CannotTrain \/ Harness!CannotCalibrate \/ Harness!CannotScore
           \/ Harness!NoReport \/ Harness!Killed
  <2>1. RunKnows'
    BY <1>5 DEF Harness!CannotTrain, Harness!CannotCalibrate, Harness!CannotScore,
                Harness!NoReport, Harness!Killed, Harness!Exit, RunKnows
  <2> QED
    BY <1>1, <1>2, <2>1, DiskStays
<1> QED
  BY <1>3, <1>4, <1>5

\* A data set is built, or the building is cut short: what is marked is whole.
LEMMA DatasetPreserves ==
    ASSUME OperationsAssumption, HarnessInv, Harness!BuildDataset \/ Harness!BuildCut
    PROVE  HarnessInv'
<1>1. /\ UNCHANGED <<halves, listed, cand, fitted, calDone, tested, outcome, runs>>
      /\ run # Nothing /\ Harness!PointsLeft /\ ~Harness!Built(Harness!Here)
  BY DEF Harness!BuildDataset, Harness!BuildCut, Harness!In, Harness!Kept
<1>2. Harness!Here \in Harness!PointSet
  BY <1>1, HereIsPoint DEF HarnessInv
<1> DEFINE here == Harness!Here
<1>3. ~marker[here]
  BY <1>1, <1>2 DEF Harness!Built, HarnessInv, Harness!MarkedIsWhole
<1> HIDE DEF here
<1>4. RunKnows'
  <2>1. CASE Harness!BuildDataset
    BY <1>1, <2>1, PointDoneWell DEF Harness!BuildDataset, HarnessInv
  <2>2. CASE Harness!BuildCut
    BY <2>2 DEF Harness!BuildCut, Harness!Exit, RunKnows
  <2> QED
    BY <2>1, <2>2
<1>5. \/ file' = [file EXCEPT ![here] = "whole"] /\ marker' = [marker EXCEPT ![here] = TRUE]
      \/ marker' = marker /\ file' \in {[file EXCEPT ![here] = h] : h \in {"torn", "whole"}}
  BY DEF Harness!BuildDataset, Harness!BuildCut, Harness!CutShort, here
<1>6. /\ file \in [Harness!PointSet -> {"none", "torn", "whole"}]
      /\ marker \in [Harness!PointSet -> BOOLEAN] /\ here \in Harness!PointSet
  BY <1>2 DEF HarnessInv, DiskTyped, here
<1>7. /\ file' \in [Harness!PointSet -> {"none", "torn", "whole"}]
      /\ marker' \in [Harness!PointSet -> BOOLEAN]
      /\ \A p \in Harness!PointSet : marker'[p] => file'[p] = "whole"
  <2>1. \A p \in Harness!PointSet : marker[p] => file[p] = "whole" /\ p # here
    BY <1>3 DEF HarnessInv, Harness!MarkedIsWhole
  <2> QED
    BY <1>5, <1>6, <2>1
<1>8. DiskTyped' /\ Harness!MarkedIsWhole'
  BY <1>1, <1>7 DEF HarnessInv, DiskTyped, Harness!MarkedIsWhole
<1>9. CandTrained' /\ RowsOfCandidate'
  BY <1>1 DEF HarnessInv, CandTrained, RowsOfCandidate
<1>10. Harness!CalibratedIsFitted' /\ Harness!ReportOfOneCandidate'
  BY <1>1 DEF HarnessInv, Harness!CalibratedIsFitted, Harness!ReportOfOneCandidate
<1> QED
  BY <1>4, <1>8, <1>9, <1>10 DEF HarnessInv

\* Training marks a candidate when there was none: nothing speaks of another.
LEMMA TrainPreserves ==
    ASSUME OperationsAssumption, HarnessInv, FaultsCounted, Harness!Train \/ Harness!TrainCut
    PROVE  HarnessInv'
<1> DEFINE v == Harness!Version
           targets == run.targets
<1>1. /\ run # Nothing /\ run.left[1] = "train" /\ cand = Nothing
      /\ UNCHANGED <<file, marker, fitted, calDone, tested, outcome, runs>>
      /\ halves' = [halves EXCEPT ![v] = @ \cup targets]
  BY DEF Harness!Train, Harness!TrainCut, Harness!ModelsWritten, Harness!In, Harness!Trains,
         Harness!Kept
<1>2. run \in Runs /\ targets \in {{"u", "v"}, {"u"}, {"v"}}
  BY <1>1 DEF HarnessInv, RunKnows, Runs
<1>3. v \in Harness!Versions /\ v # Nothing
  BY CandidateIs DEF Harness!Version
<1>4. \/ Harness!Exit /\ listed' \in {listed, listed \cup {v}} /\ UNCHANGED cand
      \/ /\ listed' \in {listed, listed \cup {v}}
         /\ cand' = IF "v" \in targets THEN v ELSE cand
         /\ Harness!StageEnds
  BY DEF Harness!Train, Harness!TrainCut, Harness!Registers, Harness!Marks
<1> HIDE DEF v, targets
<1>5. halves' \in [Harness!Versions -> SUBSET {"u", "v"}]
      /\ halves'[v] = halves[v] \cup targets
  BY <1>1, <1>2, <1>3 DEF HarnessInv, DiskTyped
<1>6. DiskTyped' /\ (cand' # Nothing => cand' = v /\ "v" \in targets)
  BY <1>1, <1>3, <1>4, <1>5 DEF HarnessInv, DiskTyped
<1>7. CandTrained'
  BY <1>5, <1>6 DEF CandTrained
<1>8. ~calDone /\ \A p \in Harness!PointSet : tested[p] = Nothing \/ tested[p] = Harness!Torn
  BY <1>1, CandidateIs DEF HarnessInv, RowsOfCandidate
<1>9. RowsOfCandidate' /\ Harness!CalibratedIsFitted'
  BY <1>1, <1>8 DEF RowsOfCandidate, Harness!CalibratedIsFitted
<1>10. Harness!MarkedIsWhole' /\ Harness!ReportOfOneCandidate'
  BY <1>1 DEF HarnessInv, Harness!MarkedIsWhole, Harness!ReportOfOneCandidate
<1>11. RunKnows'
  <2>1. CASE Harness!Exit
    BY <2>1 DEF Harness!Exit, RunKnows
  <2>2. CASE Harness!StageEnds /\ cand' = IF "v" \in targets THEN v ELSE cand
    <3>1. Len(run.left) # 1 => cand' # Nothing
      BY <1>1, <1>3, <2>2 DEF HarnessInv, RunKnows, targets
    <3> QED
      BY <1>1, <2>2, <3>1, StageEndsWell DEF HarnessInv
  <2> QED
    BY <1>4, <2>1, <2>2
<1> QED
  BY <1>6, <1>7, <1>9, <1>10, <1>11 DEF HarnessInv

\* Calibrators are fitted, then marked.
LEMMA CalibratePreserves ==
    ASSUME OperationsAssumption, HarnessInv, Harness!FitCalibrators \/ Harness!MarkCalibrated
    PROVE  HarnessInv'
<1>1. /\ run # Nothing /\ run.left[1] = "calibrate"
      /\ UNCHANGED <<file, marker, halves, listed, cand, tested, outcome, runs>>
  BY DEF Harness!FitCalibrators, Harness!MarkCalibrated, Harness!MayMark, Harness!In, Harness!Kept
<1>2. cand # Nothing /\ cand \in Harness!Versions
  BY <1>1, CandidateIs DEF HarnessInv, RunKnows
<1>3. \/ Harness!StageEnds /\ calDone' = TRUE /\ cand \in fitted /\ fitted' = fitted
      \/ UNCHANGED run /\ calDone' = calDone /\ fitted' = fitted \cup {cand}
  BY DEF Harness!FitCalibrators, Harness!MarkCalibrated, Harness!MayMark
<1>4. RunKnows'
  <2>1. CASE Harness!StageEnds
    BY <1>1, <1>2, <2>1, StageEndsWell DEF HarnessInv
  <2>2. CASE UNCHANGED run
    BY <1>1, <2>2 DEF HarnessInv, RunKnows
  <2> QED
    BY <1>3, <2>1, <2>2
<1>5. DiskTyped' /\ Harness!CalibratedIsFitted'
  BY <1>1, <1>2, <1>3 DEF HarnessInv, DiskTyped, Harness!CalibratedIsFitted
<1>6. CandTrained' /\ RowsOfCandidate'
  BY <1>1 DEF HarnessInv, CandTrained, RowsOfCandidate
<1>7. Harness!MarkedIsWhole' /\ Harness!ReportOfOneCandidate'
  BY <1>1 DEF HarnessInv, Harness!MarkedIsWhole, Harness!ReportOfOneCandidate
<1> QED
  BY <1>4, <1>5, <1>6, <1>7 DEF HarnessInv

\* The rows of a point are scored by the candidate, or left torn.
LEMMA ScorePreserves ==
    ASSUME OperationsAssumption, HarnessInv, Harness!Score \/ Harness!ScoreTorn
    PROVE  HarnessInv'
<1>1. /\ run # Nothing /\ run.left[1] = "test" /\ Harness!PointsLeft
      /\ UNCHANGED <<file, marker, halves, listed, cand, fitted, calDone, outcome, runs>>
  BY DEF Harness!Score, Harness!ScoreTorn, Harness!In, Harness!Kept
<1>2. Harness!Here \in Harness!PointSet
  BY <1>1, HereIsPoint DEF HarnessInv
<1>3. cand # Nothing /\ cand \in Harness!Versions /\ run.smoke \in BOOLEAN
  BY <1>1, CandidateIs DEF HarnessInv, RunKnows, Runs
<1> DEFINE here == Harness!Here
<1>4. PICK new \in {Harness!Torn} \cup {Harness!ScoredRows(many) : many \in BOOLEAN} :
          tested' = [tested EXCEPT ![here] = new]
  BY DEF Harness!Score, Harness!ScoreTorn
<1>5. new \in Harness!RowFiles /\ (new # Harness!Torn => new.by = cand)
  <2>1. (cand \in fitted) \in BOOLEAN
    OBVIOUS
  <2>2. \A many \in BOOLEAN :
          /\ Harness!ScoredRows(many) \in [state : {"whole"}, by : Harness!Versions,
                                           many : BOOLEAN, banded : BOOLEAN]
          /\ Harness!ScoredRows(many).by = cand
    BY <1>3, <2>1 DEF Harness!ScoredRows
  <2> QED
    BY <1>4, <2>2 DEF Harness!RowFiles
<1> HIDE DEF here
<1>6. here \in Harness!PointSet /\ tested \in [Harness!PointSet -> Harness!RowFiles]
  BY <1>2 DEF here, HarnessInv, DiskTyped
<1>7. /\ tested' \in [Harness!PointSet -> Harness!RowFiles]
      /\ \A p \in Harness!PointSet : tested'[p] = IF p = here THEN new ELSE tested[p]
  BY <1>4, <1>5, <1>6
<1>8. DiskTyped'
  BY <1>1, <1>7 DEF HarnessInv, DiskTyped
<1>9. RowsOfCandidate'
  BY <1>1, <1>3, <1>5, <1>7 DEF HarnessInv, RowsOfCandidate
<1>10. CandTrained' /\ Harness!MarkedIsWhole' /\ Harness!CalibratedIsFitted'
       /\ Harness!ReportOfOneCandidate'
  BY <1>1 DEF HarnessInv, CandTrained, Harness!MarkedIsWhole, Harness!CalibratedIsFitted,
              Harness!ReportOfOneCandidate
<1>11. RunKnows'
  <2>1. CASE Harness!Score
    BY <1>1, <2>1, PointDoneWell DEF Harness!Score, HarnessInv
  <2>2. CASE Harness!ScoreTorn
    BY <2>2 DEF Harness!ScoreTorn, Harness!Exit, RunKnows
  <2> QED
    BY <2>1, <2>2
<1> QED
  BY <1>8, <1>9, <1>10, <1>11 DEF HarnessInv

\* A report is made of whole files, so of rows of the candidate.
LEMMA ReportPreserves ==
    ASSUME OperationsAssumption, HarnessInv, Harness!Report
    PROVE  HarnessInv'
<1>1. /\ run # Nothing /\ run.left[1] = "report" /\ Harness!StageEnds
      /\ UNCHANGED <<file, marker, halves, listed, cand, fitted, calDone, tested, runs>>
      /\ \A p \in Harness!Read : tested[p] # Harness!Torn
      /\ outcome' = [of |-> cand, smoke |-> run.smoke, rows |-> [p \in Harness!Read |-> tested[p]]]
  BY DEF Harness!Report, Harness!Readable, Harness!In, Harness!Kept
<1>2. cand # Nothing
  BY <1>1 DEF HarnessInv, RunKnows
<1>3. \A p \in Harness!Read : p \in Harness!PointSet /\ tested[p] # Nothing
  BY DEF Harness!Read
<1>4. Harness!ReportOfOneCandidate'
  <2>1. \A p \in Harness!Read : tested[p].by = cand
    BY <1>1, <1>3 DEF HarnessInv, RowsOfCandidate
  <2> DEFINE read == Harness!Read
  <2>2. /\ outcome'.of = cand /\ outcome'.rows = [p \in read |-> tested[p]]
        /\ \A p \in read : tested[p].by = cand
    BY <1>1, <2>1
  <2> HIDE DEF read
  <2> QED
    BY <2>2 DEF Harness!ReportOfOneCandidate
<1>5. RunKnows'
  BY <1>1, <1>2, StageEndsWell DEF HarnessInv
<1>6. DiskTyped' /\ CandTrained' /\ RowsOfCandidate'
  BY <1>1 DEF HarnessInv, DiskTyped, CandTrained, RowsOfCandidate
<1>7. Harness!MarkedIsWhole' /\ Harness!CalibratedIsFitted'
  BY <1>1 DEF HarnessInv, Harness!MarkedIsWhole, Harness!CalibratedIsFitted
<1> QED
  BY <1>4, <1>5, <1>6, <1>7 DEF HarnessInv

LEMMA HarnessStep ==
    ASSUME OperationsAssumption, HarnessInv, FaultsCounted, [Harness!Next]_(Harness!vars)
    PROVE  HarnessInv'
<1>1. CASE Harness!BeginOther \/ \E k \in DOMAIN Harness!Stages : Harness!BeginStage(k)
  BY <1>1, BeginPreserves
<1>2. CASE \/ Harness!SkipDataset \/ Harness!DatasetEnds \/ Harness!ReuseCandidate
           \/ Harness!CannotTrain \/ Harness!CalibrationDone \/ Harness!CannotCalibrate
           \/ Harness!SkipTest \/ Harness!CannotScore \/ Harness!TestEnds
           \/ Harness!NoReport \/ Harness!Killed
  BY <1>2, PassingPreserves
<1>3. CASE Harness!BuildDataset \/ Harness!BuildCut
  BY <1>3, DatasetPreserves
<1>4. CASE Harness!Train \/ Harness!TrainCut
  BY <1>4, TrainPreserves
<1>5. CASE Harness!FitCalibrators \/ Harness!MarkCalibrated
  BY <1>5, CalibratePreserves
<1>6. CASE Harness!Score \/ Harness!ScoreTorn
  BY <1>6, ScorePreserves
<1>7. CASE Harness!Report
  BY <1>7, ReportPreserves
<1>8. CASE UNCHANGED Harness!vars
  <2>1. UNCHANGED <<run, runs>> /\ UNCHANGED Harness!disk /\ UNCHANGED cand
    BY <1>8 DEF Harness!vars, Harness!disk
  <2>2. RunKnows' /\ runs' \in 0..MaxRuns
    BY <2>1 DEF HarnessInv, RunKnows, DiskTyped
  <2> QED
    BY <2>1, <2>2, DiskStays
<1> QED
  BY <1>1, <1>2, <1>3, <1>4, <1>5, <1>6, <1>7, <1>8 DEF Harness!Next, Harness!StageStep

\* Kills and failing stages are bounded.
LEMMA FaultsStay ==
    ASSUME OperationsAssumption, FaultsCounted, [Harness!Next]_(Harness!vars)
    PROVE  FaultsCounted'
<1>1. MaxFaults \in Nat /\ faults \in 0..MaxFaults
  BY DEF OperationsAssumption, Harness!VerificationAssumption, FaultsCounted
<1>2. UNCHANGED faults \/ (faults < MaxFaults /\ faults' = faults + 1)
  <2>1. CASE \/ \E k \in DOMAIN Harness!Stages : Harness!BeginStage(k)
             \/ Harness!BeginOther \/ UNCHANGED Harness!vars
    BY <2>1 DEF Harness!BeginStage, Harness!BeginOther, Harness!vars
  <2>2. CASE Harness!StageStep
    BY <2>2 DEF Harness!StageStep, Harness!SkipDataset, Harness!BuildDataset,
                Harness!DatasetEnds, Harness!ReuseCandidate, Harness!CannotTrain, Harness!Train,
                Harness!CalibrationDone, Harness!FitCalibrators, Harness!MarkCalibrated,
                Harness!SkipTest, Harness!Score, Harness!CannotScore, Harness!TestEnds,
                Harness!NoReport, Harness!Report, Harness!Kept
  <2>3. CASE \/ Harness!Killed \/ Harness!BuildCut \/ Harness!TrainCut
             \/ Harness!CannotCalibrate \/ Harness!ScoreTorn
    BY <2>3 DEF Harness!Killed, Harness!BuildCut, Harness!TrainCut, Harness!CannotCalibrate,
                Harness!ScoreTorn, Harness!Fault
  <2> QED
    BY <2>1, <2>2, <2>3 DEF Harness!Next
<1> QED
  BY <1>1, <1>2 DEF FaultsCounted

\* verify_vs_reality.py: whatever stage is killed, repeated, run in smoke mode or
\* split over the targets, a marker tells the truth, only a trained version is
\* the candidate, and the rows of a report are those of the candidate it names.
THEOREM HarnessIsSound ==
    ASSUME OperationsAssumption
    PROVE  MCSpec => []HarnessSound
<1>1. MCInit => HarnessInv /\ FaultsCounted
  <2>1. Harness!Init => FaultsCounted
    BY DEF Harness!Init, FaultsCounted, OperationsAssumption, Harness!VerificationAssumption
  <2> QED
    BY <2>1, InitHarness DEF MCInit
<1>2. HarnessInv /\ FaultsCounted /\ [MCNext]_<<part, vars, loop, harness>>
        => HarnessInv' /\ FaultsCounted'
  <2>1. [MCNext]_<<part, vars, loop, harness>> => [Harness!Next]_(Harness!vars)
    BY DEF MCNext, harness, Harness!vars, Harness!disk
  <2> QED
    BY <2>1, HarnessStep, FaultsStay
<1>3. HarnessInv => HarnessSound
  <2> SUFFICES ASSUME HarnessInv PROVE HarnessSound
    OBVIOUS
  <2>1. run # Nothing => Len(run.left) \in 1..5 /\ run.next \in 1..(Len(Spots) + 1)
    BY StagesGoOn DEF HarnessInv, RunKnows, Runs
  <2>2. Harness!TypeOK
    BY <2>1 DEF HarnessInv, DiskTyped, CandTrained, Harness!TypeOK
  <2> QED
    BY <2>2 DEF HarnessInv, HarnessSound, Harness!MarkersTellTruth
<1> QED
  BY <1>1, <1>2, <1>3, PTL DEF MCSpec
=============================================================================
