------------------------ MODULE ModelRegistryProofs ------------------------
(***************************************************************************)
(* Proofs about ModelRegistry, for every number of versions, every bound,  *)
(* every gate margin and with processes that die at any step.              *)
(*                                                                         *)
(* The safety properties are not inductive: that a completed change leaves *)
(* one production version which the audit trail names depends on what the  *)
(* job has done so far.  ChainInv records it, step by step; HistoryInv     *)
(* relates the audit trail to what really was production, and when.        *)
(***************************************************************************)
EXTENDS ModelRegistry, SequenceTheorems, TLAPS

\* A job runs in a process.
JobsHaveProcess == holder = "nobody" => pc = "idle"

\* Inside a chain the version at work is a real one, with files on disk
\* while it is being trained.
WorkingVersion ==
    /\ pc \in {"features", "register", "calibrate", "gate", "demote", "promote", "audit"}
           => ver \in Version
    /\ pc \in {"features", "register", "calibrate"} => ver \in files

\* The UPDATE that flags an existing row finds that row.
TargetHasRow ==
    /\ (job = "review" /\ pc \in {"calibrate", "gate", "demote", "promote"})
           => ver \in rows
    /\ (job = "rollback" /\ pc \in {"demote", "promote"}) => ver \in rows
    /\ pc = "audit" => ver \in rows

\* Between the demotion and the promotion nothing is flagged, after it
\* exactly the version at work.
FlagOfChain ==
    /\ pc = "promote" => promoted = {}
    /\ pc = "audit" => promoted = {ver}

\* Every version the audit trail names has a row.
TrailHasRows == \A i \in DOMAIN trail : trail[i].version \in rows

ChainInv ==
    /\ TypeOK
    /\ JobsHaveProcess
    /\ WorkingVersion
    /\ TargetHasRow
    /\ FlagOfChain
    /\ TrailHasRows
    /\ AtMostOneProduction
    /\ AuditExplainsProduction

-----------------------------------------------------------------------------
\* Stamping a row keeps the type of age and adds exactly that row.
LEMMA StampedProperties ==
    ASSUME TypeOK, NEW v \in Version, age' = Stamped(v)
    PROVE  /\ age' \in [Version -> Nat]
           /\ rows' = rows \cup {v}
<1>1. \A w \in Version : age[w] \in Nat
  BY DEF TypeOK
<1>2. \A w \in Version : Stamped(v)[w] \in Nat
  BY <1>1 DEF Stamped
<1>3. age' \in [Version -> Nat]
  BY <1>2 DEF Stamped
<1>4. \A w \in Version : age'[w] # 0 <=> (w = v \/ age[w] # 0)
  BY <1>1 DEF Stamped
<1>5. QED
  BY <1>3, <1>4 DEF rows

LEMMA InitChainInv == ASSUME Init PROVE ChainInv
<1>1. TypeOK
  <2>1. trail \in Seq(TrailRow)
    BY DEF Init
  <2>2. next \in Nat \ {0} /\ ver \in Version \cup {None} /\ report \in Scores \cup {NoScore}
    BY DEF Init
  <2>3. age \in [Version -> Nat]
    BY DEF Init
  <2>4. score \in [Version -> Scores \cup {NoScore}]
    BY DEF Init
  <2>5. QED
    BY <2>1, <2>2, <2>3, <2>4 DEF Init, TypeOK, Jobs, Steps
<1>2. JobsHaveProcess /\ WorkingVersion /\ TargetHasRow /\ FlagOfChain
  BY DEF Init, JobsHaveProcess, WorkingVersion, TargetHasRow, FlagOfChain
<1>3. TrailHasRows /\ AtMostOneProduction /\ AuditExplainsProduction
  BY DEF Init, TrailHasRows, AtMostOneProduction, AuditExplainsProduction
<1>4. QED
  BY <1>1, <1>2, <1>3 DEF ChainInv

-----------------------------------------------------------------------------
\* The type invariant, action by action.
LEMMA NextTypeOK == ASSUME ChainInv, [Next]_vars PROVE TypeOK'
<1> USE DEF ChainInv, TypeOK, Goto, Finish, CliBegins, process, registry, disk,
        history, Jobs, Steps
<1>1. CASE StartService
  BY <1>1 DEF StartService
<1>2. CASE StopProcess
  BY <1>2 DEF StopProcess
<1>3. CASE BeginRetrain
  BY <1>3 DEF BeginRetrain
<1>4. CASE BeginReview
  BY <1>4 DEF BeginReview
<1>5. CASE BeginBacktestFresh
  BY <1>5 DEF BeginBacktestFresh
<1>6. CASE BeginRollback
  <2>1. PICK i \in RollbackRows : CliBegins("rollback", trail[i].version, "demote")
    BY <1>6 DEF BeginRollback
  <2>2. trail[i] \in TrailRow
    BY ElementOfSeq, LenProperties DEF RollbackRows
  <2>3. trail[i].version \in Version
    BY <2>2 DEF TrailRow
  <2>4. QED
    BY <1>6, <2>1, <2>3 DEF BeginRollback
<1>7. ASSUME NEW v \in Version, BeginBacktest(v) PROVE TypeOK'
  BY <1>7 DEF BeginBacktest
<1>8. ASSUME NEW v \in Version, BeginPromote(v) PROVE TypeOK'
  BY <1>8 DEF BeginPromote
<1>9. CASE ReviewCoverage
  BY <1>9 DEF ReviewCoverage
<1>10. CASE TrainSkipped
  BY <1>10 DEF TrainSkipped
<1>11. CASE TrainArtifacts
  <2>1. next \in Version
    BY <1>11, RegistryConstants DEF TrainArtifacts, Version
  <2>2. QED
    BY SMTT(30), <1>11, <2>1 DEF TrainArtifacts
<1>12. CASE TrainFeatures
  BY <1>12 DEF TrainFeatures, WorkingVersion
<1>13. CASE RegisterModel
  <2>1. age' \in [Version -> Nat]
    BY <1>13, StampedProperties DEF RegisterModel, WorkingVersion
  <2>2. score' \in [Version -> Scores \cup {NoScore}]
    BY <1>13 DEF RegisterModel
  <2>3. QED
    BY <1>13, <2>1, <2>2 DEF RegisterModel
<1>14. CASE FitBundleCalibrators
  BY <1>14 DEF FitBundleCalibrators, WorkingVersion
<1>15. CASE ReviewGate
  BY <1>15 DEF ReviewGate
<1>16. CASE MaybePromote
  BY <1>16 DEF MaybePromote
<1>17. CASE DemoteCurrentProduction
  BY <1>17 DEF DemoteCurrentProduction
<1>18. CASE PromoteModelVersion
  BY <1>18 DEF PromoteModelVersion, NewProduction, WorkingVersion
<1>19. CASE RegisterOrUpdateModel
  <2>1. age' \in [Version -> Nat]
    BY <1>19, StampedProperties DEF RegisterOrUpdateModel, WorkingVersion
  <2>2. QED
    BY <1>19, <2>1 DEF RegisterOrUpdateModel, NewProduction, WorkingVersion
<1>20. CASE RecordPromotion
  <2> DEFINE row == [version |-> ver,
                     action |-> IF job = "rollback" THEN "rollback" ELSE "promote"]
  <2>1. row \in TrailRow
    BY <1>20 DEF RecordPromotion, WorkingVersion, TrailRow
  <2>2. trail' \in Seq(TrailRow)
    BY <1>20, <2>1, AppendProperties DEF RecordPromotion
  <2>3. QED
    BY <1>20, <2>2 DEF RecordPromotion
<1>21. CASE PruneModelBundles
  BY <1>21 DEF PruneModelBundles, Doomed
<1>22. CASE UNCHANGED vars
  BY <1>22 DEF vars
<1>23. QED
  BY <1>1, <1>2, <1>3, <1>4, <1>5, <1>6, <1>7, <1>8, <1>9, <1>10, <1>11,
     <1>12, <1>13, <1>14, <1>15, <1>16, <1>17, <1>18, <1>19, <1>20, <1>21,
     <1>22 DEF Next

-----------------------------------------------------------------------------
\* The parts of ChainInv that relate the job to the registry.
Linked ==
    JobsHaveProcess /\ WorkingVersion /\ TargetHasRow /\ FlagOfChain
    /\ TrailHasRows /\ AtMostOneProduction /\ AuditExplainsProduction

\* A version the rollback may choose has a row.
LEMMA RollbackTarget ==
    ASSUME ChainInv, NEW i \in RollbackRows
    PROVE  trail[i].version \in Version /\ trail[i].version \in rows
<1>1. trail[i].version \in rows
  BY DEF ChainInv, TrailHasRows, RollbackRows
<1>2. QED
  BY <1>1 DEF rows

\* Steps that end a job, or start one, away from registry and trail.
LEMMA StartStopLinked ==
    ASSUME ChainInv,
           \/ StartService \/ StopProcess \/ BeginRetrain \/ BeginReview
           \/ BeginBacktestFresh \/ BeginRollback
           \/ \E v \in Version : BeginBacktest(v) \/ BeginPromote(v)
    PROVE  Linked'
<1> USE DEF ChainInv, Linked, CliBegins, JobsHaveProcess,
        WorkingVersion, TargetHasRow, FlagOfChain, TrailHasRows, AtMostOneProduction, AuditExplainsProduction,
        process, registry, disk, history
<1>1. CASE StartService
  BY <1>1 DEF StartService, rows
<1>2. CASE StopProcess
  BY <1>2 DEF StopProcess, rows
<1>3. CASE BeginRetrain
  BY <1>3 DEF BeginRetrain, rows
<1>4. CASE BeginReview
  BY <1>4 DEF BeginReview, rows
<1>5. CASE BeginBacktestFresh
  BY <1>5 DEF BeginBacktestFresh, rows
<1>6. CASE BeginRollback
  <2>1. PICK i \in RollbackRows : CliBegins("rollback", trail[i].version, "demote")
    BY <1>6 DEF BeginRollback
  <2>2. trail[i].version \in Version /\ trail[i].version \in rows
    BY <2>1, RollbackTarget
  <2>3. rows' = rows
    BY <1>6 DEF BeginRollback, rows
  <2>4. QED
    BY <1>6, <2>1, <2>2, <2>3 DEF BeginRollback
<1>7. ASSUME NEW v \in Version, BeginBacktest(v) PROVE Linked'
  BY <1>7 DEF BeginBacktest, rows
<1>8. ASSUME NEW v \in Version, BeginPromote(v) PROVE Linked'
  BY <1>8 DEF BeginPromote, rows
<1>9. QED
  BY <1>1, <1>2, <1>3, <1>4, <1>5, <1>6, <1>7, <1>8

\* The training chain and the gates, up to the decision.
LEMMA TrainGateLinked ==
    ASSUME ChainInv,
           \/ ReviewCoverage \/ TrainSkipped \/ TrainArtifacts \/ TrainFeatures
           \/ RegisterModel \/ FitBundleCalibrators \/ ReviewGate \/ MaybePromote
    PROVE  Linked'
<1> USE DEF ChainInv, Linked, Goto, Finish, JobsHaveProcess,
        WorkingVersion, TargetHasRow, FlagOfChain, TrailHasRows, AtMostOneProduction, AuditExplainsProduction,
        process, registry, disk, history
<1>1. CASE ReviewCoverage
  BY <1>1 DEF ReviewCoverage, rows
<1>2. CASE TrainSkipped
  BY <1>2 DEF TrainSkipped, rows
<1>3. CASE TrainArtifacts
  <2>1. next \in Version
    BY <1>3, RegistryConstants DEF TrainArtifacts, Version, TypeOK
  <2>2. QED
    BY <1>3, <2>1 DEF TrainArtifacts, rows
<1>4. CASE TrainFeatures
  BY <1>4 DEF TrainFeatures, rows
<1>5. CASE RegisterModel
  <2>1. rows' = rows \cup {ver}
    BY <1>5, StampedProperties DEF RegisterModel
  <2>2. QED
    BY <1>5, <2>1 DEF RegisterModel
<1>6. CASE FitBundleCalibrators
  BY <1>6 DEF FitBundleCalibrators, rows
<1>7. CASE ReviewGate
  BY <1>7 DEF ReviewGate, rows
<1>8. CASE MaybePromote
  BY <1>8 DEF MaybePromote, rows
<1>9. QED
  BY <1>1, <1>2, <1>3, <1>4, <1>5, <1>6, <1>7, <1>8

\* The change of production itself, and the bundle GC.
LEMMA ChangeLinked ==
    ASSUME ChainInv,
           \/ DemoteCurrentProduction \/ PromoteModelVersion
           \/ RegisterOrUpdateModel \/ RecordPromotion \/ PruneModelBundles
           \/ UNCHANGED vars
    PROVE  Linked'
<1> USE DEF ChainInv, Linked, Goto, Finish, JobsHaveProcess,
        WorkingVersion, TargetHasRow, FlagOfChain, TrailHasRows, AtMostOneProduction, AuditExplainsProduction,
        process, registry, disk, history
<1>1. CASE DemoteCurrentProduction
  BY <1>1 DEF DemoteCurrentProduction, rows
<1>2. CASE PromoteModelVersion
  BY <1>2 DEF PromoteModelVersion, NewProduction, rows
<1>3. CASE RegisterOrUpdateModel
  <2>1. rows' = rows \cup {ver}
    BY <1>3, StampedProperties DEF RegisterOrUpdateModel
  <2>2. QED
    BY <1>3, <2>1 DEF RegisterOrUpdateModel, NewProduction
<1>4. CASE RecordPromotion
  <2> DEFINE row == [version |-> ver,
                     action |-> IF job = "rollback" THEN "rollback" ELSE "promote"]
  <2>1. row \in TrailRow
    BY <1>4 DEF RecordPromotion, TrailRow
  <2>2. /\ trail' = Append(trail, row)
        /\ Len(trail') = Len(trail) + 1
        /\ \A i \in 1..Len(trail) : trail'[i] = trail[i]
        /\ trail'[Len(trail) + 1] = row
    BY <1>4, <2>1, AppendProperties DEF RecordPromotion, TypeOK
  <2>3. rows' = rows /\ promoted' = promoted /\ promoted = {ver}
    BY <1>4 DEF RecordPromotion, rows
  <2>4. Len(trail) \in Nat /\ DOMAIN trail = 1..Len(trail) /\ DOMAIN trail' = 1..Len(trail')
    BY <2>1, <2>2, LenProperties, AppendProperties DEF TypeOK
  <2>5. ver \in rows
    BY <1>4 DEF RecordPromotion
  <2>6. QED
    BY <1>4, <2>2, <2>3, <2>4, <2>5 DEF RecordPromotion
<1>5. CASE PruneModelBundles
  BY <1>5 DEF PruneModelBundles, rows
<1>6. CASE UNCHANGED vars
  BY <1>6 DEF vars, rows
<1>7. QED
  BY <1>1, <1>2, <1>3, <1>4, <1>5, <1>6

-----------------------------------------------------------------------------
\* ChainInv is inductive.
LEMMA NextChainInv == ASSUME ChainInv, [Next]_vars PROVE ChainInv'
<1>1. TypeOK'
  BY NextTypeOK
<1>2. Linked'
  BY StartStopLinked, TrainGateLinked, ChangeLinked DEF Next
<1>3. QED
  BY <1>1, <1>2 DEF ChainInv, Linked

\* What a job has done so far agrees with the registry, the disk and the
\* audit trail after every statement, for any number of versions and jobs.
THEOREM ChainInvariant == Spec => []ChainInv
<1>1. Init => ChainInv
  BY InitChainInv
<1>2. ChainInv /\ [Next]_vars => ChainInv'
  BY NextChainInv
<1>3. QED
  BY <1>1, <1>2, PTL DEF Spec

\* The registry, the audit trail and the model directory keep their types.
THEOREM TypeCorrect == Spec => []TypeOK
<1>1. ChainInv => TypeOK
  BY DEF ChainInv
<1>2. QED
  BY <1>1, ChainInvariant, PTL

\* promote, rollback, the review and backtest --promote never leave two rows
\* flagged, whatever their order and wherever a process dies.
THEOREM OneProduction == Spec => []AtMostOneProduction
<1>1. ChainInv => AtMostOneProduction
  BY DEF ChainInv
<1>2. QED
  BY <1>1, ChainInvariant, PTL

\* After every completed change of production, the version model_promotions
\* names last is the one that is flagged.
THEOREM AuditTrail == Spec => []AuditExplainsProduction
<1>1. ChainInv => AuditExplainsProduction
  BY DEF ChainInv
<1>2. QED
  BY <1>1, ChainInvariant, PTL

-----------------------------------------------------------------------------
\* The only flagged row is the one current_production_model() returns.
LEMMA ProductionIsFlag ==
    ASSUME AtMostOneProduction, NEW v \in promoted
    PROVE  CurrentProduction = v
<1>1. promoted = {v}
  BY DEF AtMostOneProduction
<1>2. Newest({v}) \in {v}
  BY DEF Newest
<1>3. QED
  BY <1>1, <1>2 DEF CurrentProduction

\* One step of the program removes no loadable bundle of the version in
\* production: only the nightly GC deletes files, and it protects that one.
LEMMA StepSparesProduction ==
    ASSUME ChainInv, [Next]_vars
    PROVE  promoted \cap bundle \subseteq bundle'
<1>1. CASE PruneModelBundles
  <2>1. PICK S \in SUBSET Doomed : bundle' = bundle \ S
    BY <1>1 DEF PruneModelBundles
  <2>2. ASSUME NEW v \in promoted PROVE v \notin Doomed
    BY ProductionIsFlag DEF ChainInv, Doomed
  <2>3. QED
    BY <2>1, <2>2
<1>2. CASE TrainFeatures
  BY <1>2 DEF TrainFeatures
<1>3. CASE ~PruneModelBundles /\ ~TrainFeatures
  BY <1>3 DEF Next, vars, process, registry, disk, history, StartService,
     StopProcess, BeginRetrain, BeginReview, BeginBacktest, BeginBacktestFresh,
     BeginPromote, BeginRollback, ReviewCoverage, TrainSkipped, TrainArtifacts,
     RegisterModel, FitBundleCalibrators, ReviewGate, MaybePromote,
     DemoteCurrentProduction, PromoteModelVersion, RegisterOrUpdateModel,
     RecordPromotion
<1>4. QED
  BY <1>1, <1>2, <1>3

\* The bundle GC never deletes the model production serves, however many
\* newer bundles there are on disk.
THEOREM GcProtects == Spec => GcSparesProduction
<1>1. ChainInv /\ [Next]_vars => [promoted \cap bundle \subseteq bundle']_vars
  BY StepSparesProduction
<1>2. QED
  BY <1>1, ChainInvariant, PTL DEF Spec, GcSparesProduction
-----------------------------------------------------------------------------
(* What the registry says of its own past: the upgrade gate compares with  *)
(* the version that really was production last, and a rollback chooses the *)
(* one before it.                                                          *)

\* The flag is on the version promoted last, or, inside a change of
\* production or after a torn one, on none.
FlagIsLast ==
    /\ promoted \subseteq {lastProd}
    /\ (pc \notin {"promote", "audit"} /\ ~torn) =>
           promoted = IF lastProd = None THEN {} ELSE {lastProd}
    /\ pc = "audit" => lastProd = ver

\* What a gate has established still holds when its job acts.
GateHolds ==
    (job \in {"review", "backtest"} /\ pc \in {"demote", "promote"}) =>
        /\ CandidateScore # NoScore
        /\ (~torn /\ lastProd # None /\ score[lastProd] # NoScore) =>
               CandidateScore + MinImprovement <= score[lastProd]

\* While no audit row was lost, the trail ends with lastProd, and before is
\* the last version on it that is a different one.
TrailEndsWithLast ==
    (~lost /\ pc # "audit") =>
        lastProd = IF trail = <<>> THEN None ELSE trail[Len(trail)].version

BeforeOnTrail ==
    ~lost => \A i \in DOMAIN trail :
        (/\ trail[i].version # lastProd
         /\ \A j \in DOMAIN trail : j > i => trail[j].version = lastProd)
            => before = trail[i].version

HistoryInv ==
    FlagIsLast /\ GateHolds /\ TrailEndsWithLast /\ BeforeOnTrail
    /\ RollbackUndoesPromotion

-----------------------------------------------------------------------------
LEMMA InitHistory == ASSUME Init PROVE HistoryInv
BY DEF Init, HistoryInv, FlagIsLast, GateHolds, TrailEndsWithLast,
   BeforeOnTrail, RollbackUndoesPromotion

\* A flagged version is the one CurrentProduction returns, and lastProd.
LEMMA ProductionIsLast ==
    ASSUME ChainInv, HistoryInv, promoted # {}
    PROVE  CurrentProduction = lastProd /\ lastProd \in Version
<1>1. PICK v \in promoted : TRUE
  OBVIOUS
<1>2. v = lastProd
  BY DEF HistoryInv, FlagIsLast
<1>3. CurrentProduction = v
  BY ProductionIsFlag DEF ChainInv
<1>4. QED
  BY <1>2, <1>3 DEF ChainInv, TypeOK

\* Steps that touch neither registry nor trail nor histories, and enter
\* neither a gate's decision nor a rollback.
LEMMA QuietHistory ==
    ASSUME ChainInv, HistoryInv,
           \/ StartService \/ StopProcess \/ BeginRetrain \/ BeginReview
           \/ BeginBacktestFresh
           \/ \E v \in Version : BeginBacktest(v) \/ BeginPromote(v)
           \/ ReviewCoverage \/ TrainSkipped \/ TrainArtifacts \/ TrainFeatures
           \/ FitBundleCalibrators \/ PruneModelBundles
           \/ UNCHANGED vars
    PROVE  HistoryInv'
<1> USE DEF HistoryInv, FlagIsLast, GateHolds, CandidateScore, TrailEndsWithLast, BeforeOnTrail,
        RollbackUndoesPromotion, Goto, Finish, CliBegins, process, registry,
        disk, history, ChainInv, JobsHaveProcess
<1>1. CASE StartService
  BY <1>1 DEF StartService
<1>2. CASE StopProcess
  BY <1>2 DEF StopProcess
<1>3. CASE BeginRetrain
  BY <1>3 DEF BeginRetrain
<1>4. CASE BeginReview
  BY <1>4 DEF BeginReview
<1>5. CASE BeginBacktestFresh
  BY <1>5 DEF BeginBacktestFresh
<1>6. ASSUME NEW v \in Version, BeginBacktest(v) PROVE HistoryInv'
  BY <1>6 DEF BeginBacktest
<1>7. ASSUME NEW v \in Version, BeginPromote(v) PROVE HistoryInv'
  BY <1>7 DEF BeginPromote
<1>8. CASE ReviewCoverage
  BY <1>8 DEF ReviewCoverage
<1>9. CASE TrainSkipped
  BY <1>9 DEF TrainSkipped
<1>10. CASE TrainArtifacts
  BY <1>10 DEF TrainArtifacts
<1>11. CASE TrainFeatures
  BY <1>11 DEF TrainFeatures
<1>12. CASE FitBundleCalibrators
  BY <1>12 DEF FitBundleCalibrators
<1>13. CASE PruneModelBundles
  BY <1>13 DEF PruneModelBundles
<1>14. CASE UNCHANGED vars
  BY <1>14 DEF vars
<1>15. QED
  BY <1>1, <1>2, <1>3, <1>4, <1>5, <1>6, <1>7, <1>8, <1>9, <1>10, <1>11,
     <1>12, <1>13, <1>14

\* The candidate's score is written before the gate compares anything.
LEMMA RegisterHistory ==
    ASSUME ChainInv, HistoryInv, RegisterModel PROVE HistoryInv'
BY DEF HistoryInv, FlagIsLast, GateHolds, CandidateScore, TrailEndsWithLast, BeforeOnTrail,
   RollbackUndoesPromotion, RegisterModel, Goto, disk, history

\* A score that passes a gate is one, and where production is lastProd, with a
\* score of its own, it beats that by the margin.
LEMMA GateBeatsProduction ==
    ASSUME ChainInv, HistoryInv, pc = "gate",
           NEW s \in Scores \cup {NoScore}, GatePasses(ProductionScore, s)
    PROVE  /\ s # NoScore
           /\ (~torn /\ lastProd # None /\ score[lastProd] # NoScore) =>
                  s + MinImprovement <= score[lastProd]
<1>1. s # NoScore
  BY DEF GatePasses
<1>2. ASSUME ~torn, lastProd # None, score[lastProd] # NoScore
      PROVE  s + MinImprovement <= score[lastProd]
  <2>1. promoted = {lastProd}
    BY <1>2 DEF HistoryInv, FlagIsLast
  <2>2. CurrentProduction = lastProd /\ lastProd \in Version
    BY <2>1, ProductionIsLast
  <2>3. ProductionScore = score[lastProd]
    BY <1>2, <2>2 DEF ProductionScore
  <2>4. Scores \cup {NoScore} \subseteq Nat
    BY RegistryConstants DEF NoScore
  <2>5. s \in Nat /\ score[lastProd] \in Nat /\ MinImprovement \in Nat
    BY <2>2, <2>4, RegistryConstants DEF ChainInv, TypeOK
  <2>6. QED
    BY <1>2, <2>3, <2>5 DEF GatePasses
<1>3. QED
  BY <1>1, <1>2

\* The review's gate decides by the candidate's row ...
LEMMA ReviewGateHistory ==
    ASSUME ChainInv, HistoryInv, ReviewGate PROVE HistoryInv'
<1> USE DEF HistoryInv
<1>1. GateHolds'
  <2>1. CASE pc' # "demote"
    BY <2>1 DEF ReviewGate, Goto, Finish, GateHolds
  <2>2. CASE pc' = "demote"
    <3>1. GatePasses(ProductionScore, score[ver])
      BY <2>2 DEF ReviewGate, Finish
    <3>2. score[ver] \in Scores \cup {NoScore}
      BY DEF ChainInv, WorkingVersion, ReviewGate, TypeOK
    <3>3. /\ score[ver] # NoScore
          /\ (~torn /\ lastProd # None /\ score[lastProd] # NoScore) =>
                 score[ver] + MinImprovement <= score[lastProd]
      BY <3>1, <3>2, GateBeatsProduction DEF ReviewGate
    <3>4. /\ score' = score /\ ver' = ver /\ lastProd' = lastProd
          /\ job' = "review" /\ torn' = torn
      BY <2>2 DEF ReviewGate, Goto, Finish, registry, history
    <3>5. QED
      BY <3>3, <3>4 DEF GateHolds, CandidateScore
  <2>3. QED
    BY <2>1, <2>2
<1>2. (FlagIsLast /\ TrailEndsWithLast /\ BeforeOnTrail
       /\ RollbackUndoesPromotion)'
  BY DEF FlagIsLast, TrailEndsWithLast, BeforeOnTrail, RollbackUndoesPromotion,
     ReviewGate, Goto, Finish, registry, history
<1>3. QED
  BY <1>1, <1>2

\* ... and the backtest's by the report.
LEMMA MaybePromoteHistory ==
    ASSUME ChainInv, HistoryInv, MaybePromote PROVE HistoryInv'
<1> USE DEF HistoryInv
<1>1. GateHolds'
  <2>1. CASE pc' # "demote"
    BY <2>1 DEF MaybePromote, Finish, GateHolds
  <2>2. CASE pc' = "demote"
    <3>1. PICK s \in Scores : /\ GatePasses(ProductionScore, s)
                              /\ report' = s /\ UNCHANGED <<holder, job, ver>>
      BY <2>2 DEF MaybePromote, Finish
    <3>2. /\ s # NoScore
          /\ (~torn /\ lastProd # None /\ score[lastProd] # NoScore) =>
                 s + MinImprovement <= score[lastProd]
      BY <3>1, GateBeatsProduction DEF MaybePromote
    <3>3. /\ score' = score /\ lastProd' = lastProd /\ torn' = torn
          /\ job' = "backtest"
      BY <3>1 DEF MaybePromote, registry, history
    <3>4. QED
      BY <3>1, <3>2, <3>3 DEF GateHolds, CandidateScore
  <2>3. QED
    BY <2>1, <2>2
<1>2. (FlagIsLast /\ TrailEndsWithLast /\ BeforeOnTrail
       /\ RollbackUndoesPromotion)'
  BY DEF FlagIsLast, TrailEndsWithLast, BeforeOnTrail, RollbackUndoesPromotion,
     MaybePromote, Finish, registry, history
<1>3. QED
  BY <1>1, <1>2

\* The rollback: every later row of the trail is of lastProd itself.
LEMMA RollbackHistory ==
    ASSUME ChainInv, HistoryInv, BeginRollback PROVE HistoryInv'
<1> USE DEF HistoryInv
<1>1. PICK i \in RollbackRows :
         /\ \A j \in RollbackRows : j <= i
         /\ CliBegins("rollback", trail[i].version, "demote")
  BY DEF BeginRollback
<1>2. UNCHANGED <<registry, trail, disk, history>> /\ pc = "idle"
  BY <1>1 DEF BeginRollback, CliBegins, ChainInv, JobsHaveProcess
<1>3. RollbackUndoesPromotion'
  <2>1. SUFFICES ASSUME promoted # {}, ~lost,
                        \A j \in DOMAIN trail : trail[j].action = "promote"
                 PROVE  before = trail[i].version
    BY <1>1, <1>2 DEF RollbackUndoesPromotion, CliBegins, registry, history
  <2>2. CurrentProduction = lastProd
    BY <2>1, ProductionIsLast
  <2>3. i \in DOMAIN trail /\ trail[i].version # lastProd
    BY <2>2 DEF RollbackRows
  <2>4. DOMAIN trail = 1..Len(trail) /\ Len(trail) \in Nat
    BY LenProperties DEF ChainInv, TypeOK
  <2>5. ASSUME NEW j \in DOMAIN trail, j > i
        PROVE  trail[j].version = lastProd
    <3>1. j \notin RollbackRows
      BY <1>1, <2>3, <2>4, <2>5
    <3>2. QED
      BY <2>1, <2>2, <3>1 DEF RollbackRows
  <2>6. QED
    BY <2>1, <2>3, <2>5 DEF BeforeOnTrail
<1>4. (FlagIsLast /\ GateHolds /\ TrailEndsWithLast /\ BeforeOnTrail)'
  BY <1>1, <1>2 DEF FlagIsLast, GateHolds, TrailEndsWithLast, BeforeOnTrail,
     CliBegins, registry, history
<1>5. QED
  BY <1>3, <1>4

LEMMA DemoteHistory ==
    ASSUME ChainInv, HistoryInv, DemoteCurrentProduction PROVE HistoryInv'
BY DEF HistoryInv, FlagIsLast, GateHolds, CandidateScore, TrailEndsWithLast, BeforeOnTrail,
   RollbackUndoesPromotion, DemoteCurrentProduction, Goto, disk, history

\* A version becomes production: the one it replaces becomes `before'.
LEMMA PromoteHistory ==
    ASSUME ChainInv, HistoryInv, PromoteModelVersion \/ RegisterOrUpdateModel
    PROVE  HistoryInv'
<1> USE DEF HistoryInv
<1>1. /\ pc = "promote" /\ pc' = "audit" /\ ver' = ver /\ trail' = trail
      /\ lastProd' = ver /\ lost' = lost /\ torn' = torn
      /\ before' = IF ver = lastProd THEN before ELSE lastProd
      /\ promoted = {} /\ promoted' \subseteq {ver}
  BY DEF PromoteModelVersion, RegisterOrUpdateModel, NewProduction, Goto,
     ChainInv, FlagOfChain
<1>2. (FlagIsLast /\ GateHolds /\ TrailEndsWithLast /\ RollbackUndoesPromotion)'
  BY <1>1 DEF FlagIsLast, GateHolds, TrailEndsWithLast, RollbackUndoesPromotion
<1>3. BeforeOnTrail'
  <2>1. SUFFICES ASSUME ~lost, NEW i \in DOMAIN trail, trail[i].version # ver,
                        \A j \in DOMAIN trail : j > i => trail[j].version = ver
                 PROVE  before' = trail[i].version
    BY <1>1 DEF BeforeOnTrail
  <2>2. CASE ver = lastProd
    BY <1>1, <2>1, <2>2 DEF BeforeOnTrail
  <2>3. CASE ver # lastProd
    <3>1. DOMAIN trail = 1..Len(trail) /\ Len(trail) \in Nat
      BY LenProperties DEF ChainInv, TypeOK
    <3>2. lastProd = trail[Len(trail)].version /\ Len(trail) \in DOMAIN trail
      BY <1>1, <2>1, <3>1 DEF TrailEndsWithLast
    <3>3. i = Len(trail)
      BY <2>1, <2>3, <3>1, <3>2
    <3>4. QED
      BY <1>1, <2>3, <3>2, <3>3
  <2>4. QED
    BY <2>2, <2>3
<1>4. QED
  BY <1>2, <1>3

LEMMA RecordHistory ==
    ASSUME ChainInv, HistoryInv, RecordPromotion PROVE HistoryInv'
<1> USE DEF HistoryInv
<1> DEFINE row == [version |-> ver,
                   action |-> IF job = "rollback" THEN "rollback" ELSE "promote"]
<1>1. row \in TrailRow
  BY DEF RecordPromotion, ChainInv, WorkingVersion, TrailRow
<1>2. /\ trail' = Append(trail, row)
      /\ Len(trail') = Len(trail) + 1
      /\ \A i \in 1..Len(trail) : trail'[i] = trail[i]
      /\ trail'[Len(trail) + 1] = row
      /\ trail' \in Seq(TrailRow)
  BY <1>1, AppendProperties DEF RecordPromotion, ChainInv, TypeOK
<1>3. /\ DOMAIN trail = 1..Len(trail) /\ Len(trail) \in Nat
      /\ DOMAIN trail' = 1..(Len(trail) + 1)
  BY <1>2, LenProperties DEF ChainInv, TypeOK
<1>4. /\ pc = "audit" /\ pc' = "idle" /\ job' = "none" /\ lastProd' = lastProd
      /\ before' = before /\ lost' = lost /\ promoted' = promoted
      /\ promoted = {ver} /\ lastProd = ver /\ ver \in Version
  BY DEF RecordPromotion, Finish, registry, ChainInv, FlagOfChain, FlagIsLast,
     WorkingVersion
<1>5. (FlagIsLast /\ GateHolds /\ RollbackUndoesPromotion)'
  BY <1>4 DEF FlagIsLast, GateHolds, RollbackUndoesPromotion, None, Version
<1>6. TrailEndsWithLast'
  <2>1. trail' # <<>> /\ trail'[Len(trail')].version = ver
    BY <1>2, <1>3
  <2>2. QED
    BY <1>4, <2>1 DEF TrailEndsWithLast
<1>7. BeforeOnTrail'
  <2>1. SUFFICES ASSUME ~lost, NEW i \in DOMAIN trail',
                        trail'[i].version # lastProd,
                        \A j \in DOMAIN trail' : j > i => trail'[j].version = lastProd
                 PROVE  before = trail'[i].version
    BY <1>4 DEF BeforeOnTrail
  <2>2. i \in DOMAIN trail /\ trail'[i] = trail[i]
    BY <1>2, <1>3, <1>4, <2>1
  <2>3. \A j \in DOMAIN trail : j > i => trail[j].version = lastProd
    BY <1>2, <1>3, <2>1
  <2>4. QED
    BY <2>1, <2>2, <2>3 DEF BeforeOnTrail
<1>8. QED
  BY <1>5, <1>6, <1>7

LEMMA NextHistory ==
    ASSUME ChainInv, HistoryInv, [Next]_vars PROVE HistoryInv'
BY QuietHistory, RegisterHistory, ReviewGateHistory, MaybePromoteHistory,
   RollbackHistory, DemoteHistory, PromoteHistory, RecordHistory DEF Next

-----------------------------------------------------------------------------
THEOREM HistoryInvariant == Spec => []HistoryInv
<1>1. Init => HistoryInv
  BY InitHistory
<1>2. ChainInv /\ HistoryInv /\ [Next]_vars => HistoryInv'
  BY NextHistory
<1>3. QED
  BY <1>1, <1>2, ChainInvariant, PTL DEF Spec

\* No automatic promotion sets the flag for a candidate without a score, nor
\* for one that does not beat production's registered score by the margin, for
\* every set of scores.
THEOREM GateIsSound == Spec => []GateGuardsProduction
<1>1. HistoryInv => GateGuardsProduction
  BY DEF HistoryInv, GateHolds, GateGuardsProduction
<1>2. QED
  BY <1>1, HistoryInvariant, PTL

\* The first rollback after any series of promotions returns to the version
\* that was production before, for trails of any length.
THEOREM RollbackIsUndo == Spec => []RollbackUndoesPromotion
<1>1. HistoryInv => RollbackUndoesPromotion
  BY DEF HistoryInv
<1>2. QED
  BY <1>1, HistoryInvariant, PTL
=============================================================================
