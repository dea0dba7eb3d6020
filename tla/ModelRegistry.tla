--------------------------- MODULE ModelRegistry ---------------------------
(***************************************************************************)
(* The life of a model version in LakeWind: it is trained, registered,     *)
(* calibrated, compared with production, promoted, rolled back and finally *)
(* garbage-collected from disk.                                            *)
(*                                                                         *)
(* DuckDB lets one process hold the database file, so at any moment either *)
(* the service or one CLI command owns the registry (`holder').  Inside    *)
(* that process one job at a time changes the registry: the pipeline loop  *)
(* awaits maintenance and review inline, a CLI command is a single job.  A *)
(* job is a sequence of autocommitted statements and file writes; each is  *)
(* one action below, and the process may die between any two of them.      *)
(*                                                                         *)
(* Versions are numbered in the order of the timestamps in their names.    *)
(* The two backtest metrics (speed MAE and direction error) are abstracted *)
(* to one error score; the station-sample requirement of the gate is a     *)
(* choice of the environment.                                              *)
(***************************************************************************)
EXTENDS Naturals, Sequences, FiniteSets

CONSTANTS
    MaxVersion,     \* bound: training runs in a behaviour
    MaxTrail,       \* bound: rows of model_promotions
    Scores,         \* error scores a validation or a backtest can measure
    MinImprovement, \* model.upgrade_gate: required decrease of the score
    BundleKeep,     \* db.model_bundle_keep
    AutoPromote,    \* model.auto_promote
    Crashes         \* whether a process may die in the middle of a job

\* The score column of a row without metrics.  The code treats NULL and 0.0
\* alike, as an infinite error (review.py:321-322).
NoScore == 0
\* "No version": current_production_model() returned None.
None == 0

Version == 1..MaxVersion

ASSUME RegistryConstants ==
    /\ MaxVersion \in Nat /\ MaxTrail \in Nat
    /\ Scores \subseteq Nat \ {NoScore}
    /\ MinImprovement \in Nat /\ BundleKeep \in Nat
    /\ AutoPromote \in BOOLEAN /\ Crashes \in BOOLEAN

VARIABLES
    holder,     \* which process holds the database file
    job,        \* the job that process is running
    pc,         \* the next step of the job
    ver,        \* the version the job is about
    report,     \* backtest --promote: the score in its BacktestReport
    age,        \* place of a row in ORDER BY trained_at DESC, 0 without a row
    score,      \* backtest_mae_kn / backtest_dir_error_deg of each row
    promoted,   \* rows with promoted_to_production = TRUE
    trail,      \* model_promotions, oldest first
    next,       \* the name the next training run will use
    files,      \* versions with at least one file under MODELS_DIR
    bundle,     \* versions whose model files are complete and loadable
    calibrated, \* versions with their conformal calibrator set on disk
    \* History of what happened, read by properties only:
    lastProd,   \* the version that was last set to production
    before,     \* the different version that was production before lastProd
    torn,       \* a process died inside the latest change of production
    lost        \* some change of production never reached model_promotions

process == <<holder, job, pc, ver, report>>
registry == <<age, score, promoted>>
disk == <<next, files, bundle, calibrated>>
history == <<lastProd, before, torn, lost>>
vars == <<process, registry, trail, disk, history>>

Jobs == {"none", "retrain", "review", "backtest", "promote", "rollback"}
Steps == {"idle", "coverage", "train", "features", "register", "calibrate",
          "gate", "demote", "promote", "audit"}
TrailRow == [version : Version, action : {"promote", "rollback"}]

TypeOK ==
    /\ holder \in {"nobody", "service", "cli"}
    /\ job \in Jobs /\ pc \in Steps
    /\ ver \in Version \cup {None}
    /\ report \in Scores \cup {NoScore}
    /\ age \in [Version -> Nat] /\ promoted \subseteq Version
    /\ score \in [Version -> Scores \cup {NoScore}]
    /\ trail \in Seq(TrailRow)
    /\ next \in Nat \ {0}
    /\ files \subseteq Version /\ bundle \subseteq files
    /\ calibrated \subseteq files
    /\ lastProd \in Version \cup {None} /\ before \in Version \cup {None}
    /\ torn \in BOOLEAN /\ lost \in BOOLEAN

-----------------------------------------------------------------------------
(* Reads of the registry.                                                  *)

\* The versions with a row in model_registry.
rows == {v \in Version : age[v] # 0}

\* ORDER BY trained_at DESC LIMIT 1 over the rows in S.
Newest(S) == CHOOSE v \in S : \A w \in S : age[v] <= age[w]

\* Row v, new or not, gets trained_at = now: it becomes the newest.
Stamped(v) ==
    [w \in Version |->
        IF w = v THEN 1
        ELSE IF age[w] # 0 /\ (age[v] = 0 \/ age[w] < age[v]) THEN age[w] + 1
        ELSE age[w]]

\* current_production_model()
CurrentProduction == IF promoted = {} THEN None ELSE Newest(promoted)

\* Mutant of RollbackRows: the current version is not excluded.
RollbackRowsAll == {i \in DOMAIN trail : trail[i].action = "promote"}

\* Positions of the audit trail rollback_production() may pick from.
RollbackRows ==
    {i \in DOMAIN trail : /\ trail[i].action = "promote"
                          /\ trail[i].version # CurrentProduction}

\* Mutant of GatePasses: a missing candidate score is not looked at, so its
\* zero beats everything.
GatePassesUnscored(prod, cand) ==
    prod # NoScore => prod >= cand + MinImprovement

\* The upgrade gate of _maybe_auto_promote(): a missing production score is
\* an infinite one, a missing candidate score never wins.
GatePasses(prod, cand) ==
    /\ cand # NoScore
    /\ prod # NoScore => prod >= cand + MinImprovement

\* Registered score of the production row, NoScore without production.
ProductionScore ==
    IF CurrentProduction = None THEN NoScore ELSE score[CurrentProduction]

\* Mutant of Doomed: the protect list is not applied.
DoomedUnprotected ==
    {v \in files : Cardinality({w \in files : w > v}) >= BundleKeep}

\* prune_model_bundles(keep, protect): every version on disk except the
\* BundleKeep newest names and the production version.
Doomed ==
    {v \in files : /\ v # CurrentProduction
                   /\ Cardinality({w \in files : w > v}) >= BundleKeep}

-----------------------------------------------------------------------------
Init ==
    /\ holder = "nobody" /\ job = "none" /\ pc = "idle"
    /\ ver = None /\ report = NoScore
    /\ age = [v \in Version |-> 0] /\ promoted = {} /\ trail = <<>>
    /\ score = [v \in Version |-> NoScore]
    /\ next = 1 /\ files = {} /\ bundle = {} /\ calibrated = {}
    /\ lastProd = None /\ before = None /\ torn = FALSE /\ lost = FALSE

\* The job ends; a CLI process exits with it and frees the database file.
Finish ==
    /\ holder' = IF holder = "cli" THEN "nobody" ELSE holder
    /\ job' = "none" /\ pc' = "idle" /\ ver' = None /\ report' = NoScore

\* The job goes on with step s.
Goto(s) == pc' = s /\ UNCHANGED <<holder, job, ver, report>>

\* A CLI command opens the database: possible only while nobody holds it.
CliBegins(j, v, s) ==
    /\ holder = "nobody"
    /\ holder' = "cli" /\ job' = j /\ ver' = v /\ pc' = s
    /\ UNCHANGED report

-----------------------------------------------------------------------------
(* Starting and stopping processes and jobs.                               *)

StartService ==
    /\ holder = "nobody"
    /\ holder' = "service"
    /\ UNCHANGED <<job, pc, ver, report, registry, trail, disk, history>>

\* The process ends: between jobs, or (Crashes) in the middle of one.
StopProcess ==
    /\ holder # "nobody"
    /\ pc # "idle" => Crashes
    /\ holder' = "nobody" /\ job' = "none" /\ pc' = "idle"
    /\ ver' = None /\ report' = NoScore
    /\ torn' = (torn \/ pc \in {"promote", "audit"})
    /\ lost' = (lost \/ pc = "audit")
    /\ UNCHANGED <<registry, trail, disk, lastProd, before>>

\* lakewind retrain, and lakewind auto (run_pipeline), which stops at a
\* recommendation.
BeginRetrain ==
    /\ CliBegins("retrain", None, "train")
    /\ UNCHANGED <<registry, trail, disk, history>>

\* run_daily_review(), from the pipeline loop or by lakewind review.
BeginReview ==
    /\ pc = "idle"
    /\ holder' = IF holder = "nobody" THEN "cli" ELSE holder
    /\ job' = "review" /\ pc' = "coverage"
    /\ UNCHANGED <<ver, report, registry, trail, disk, history>>

\* lakewind backtest --promote, of a named candidate that can be loaded.
BeginBacktest(v) ==
    /\ v \in bundle
    /\ CliBegins("backtest", v, "gate")
    /\ UNCHANGED <<registry, trail, disk, history>>

\* lakewind backtest --promote without a candidate trains a fresh one.
BeginBacktestFresh ==
    /\ CliBegins("backtest", None, "train")
    /\ UNCHANGED <<registry, trail, disk, history>>

\* lakewind promote <version>: the operator names a version he has seen, and
\* neither its row nor its files are looked at.
BeginPromote(v) ==
    /\ v < next /\ Len(trail) < MaxTrail
    /\ CliBegins("promote", v, "demote")
    /\ UNCHANGED <<registry, trail, disk, history>>

\* lakewind rollback: rollback_production() picks the most recent 'promote'
\* of another version, before it writes anything; without one it returns.
BeginRollback ==
    /\ Len(trail) < MaxTrail
    /\ \E i \in RollbackRows :
          /\ \A j \in RollbackRows : j <= i
          /\ CliBegins("rollback", trail[i].version, "demote")
    /\ UNCHANGED <<registry, trail, disk, history>>

-----------------------------------------------------------------------------
(* The review's recalibration and the training chain.                      *)

\* Review step 3: on a coverage breach the calibrators of the production
\* version are fitted again; a fit that cannot be done keeps the old files.
ReviewCoverage ==
    /\ pc = "coverage"
    /\ \/ UNCHANGED calibrated   \* no breach, or no fit
       \/ /\ CurrentProduction \in bundle
          /\ calibrated' = calibrated \cup {CurrentProduction}
    /\ \/ Goto("train")
       \/ Finish        \* step 5: no retraining is due
    /\ UNCHANGED <<registry, trail, next, files, bundle, history>>

\* train(): too few samples, and the job has no candidate to go on with.
TrainSkipped ==
    /\ pc = "train"
    /\ Finish
    /\ UNCHANGED <<registry, trail, disk, history>>

\* train(): the model files are written one after the other ...
TrainArtifacts ==
    /\ pc = "train" /\ next <= MaxVersion
    /\ ver' = next /\ next' = next + 1
    /\ files' = files \cup {next}
    /\ pc' = "features"
    /\ UNCHANGED <<holder, job, report, registry, trail, bundle, calibrated, history>>

\* ... and <version>_features.json last, which makes the bundle loadable.
TrainFeatures ==
    /\ pc = "features"
    /\ bundle' = bundle \cup {ver}
    /\ Goto("register")
    /\ UNCHANGED <<registry, trail, next, files, calibrated, history>>

\* register_model(): the candidate's row, not promoted, with the validation
\* score or, if none could be computed, without one.
RegisterModel ==
    /\ pc = "register"
    /\ \E s \in Scores \cup {NoScore} : score' = [score EXCEPT ![ver] = s]
    /\ age' = Stamped(ver)
    /\ Goto(IF job = "backtest" THEN "gate" ELSE "calibrate")
    /\ UNCHANGED <<promoted, trail, disk, history>>

\* fit_bundle_calibrators(): each fit may come back empty (too few samples);
\* an exception ends the review's step, and with it the candidate.
FitBundleCalibrators ==
    /\ pc = "calibrate"
    /\ \/ UNCHANGED calibrated
       \/ calibrated' = calibrated \cup {ver}
    /\ \/ /\ job = "review"
          /\ Goto("gate")
       \/ Finish
    /\ UNCHANGED <<registry, trail, next, files, bundle, history>>

-----------------------------------------------------------------------------
(* Gates.                                                                  *)

\* Review step 6: _maybe_auto_promote(), then the station-sample check.
ReviewGate ==
    /\ pc = "gate" /\ job = "review"
    /\ \/ /\ AutoPromote /\ Len(trail) < MaxTrail
          /\ GatePasses(ProductionScore, score[ver])
          /\ Goto("demote")
       \/ Finish        \* recommendation only
    /\ UNCHANGED <<registry, trail, disk, history>>

\* maybe_promote(): the candidate's score comes from the report.  Against a
\* production row without metrics the comparison raises, which ends the job.
MaybePromote ==
    /\ pc = "gate" /\ job = "backtest"
    /\ \/ \E s \in Scores :
             /\ CurrentProduction # None => ProductionScore # NoScore
             /\ GatePasses(ProductionScore, s) /\ Len(trail) < MaxTrail
             /\ report' = s /\ pc' = "demote"
             /\ UNCHANGED <<holder, job, ver>>
       \/ Finish
    /\ UNCHANGED <<registry, trail, disk, history>>

-----------------------------------------------------------------------------
(* The change of production: three statements, each its own transaction.   *)

\* Mutant of DemoteCurrentProduction: WHERE names the new version instead of
\* the flag.
DemoteWrongVersion ==
    /\ pc = "demote"
    /\ promoted' = promoted \ {ver}
    /\ Goto("promote")
    /\ UNCHANGED <<age, score, trail, disk, history>>

\* demote_current_production(), and the same UPDATE in promote_cmd() and
\* maybe_promote(): no row keeps the flag.
DemoteCurrentProduction ==
    /\ pc = "demote"
    /\ promoted' = {}
    /\ Goto("promote")
    /\ UNCHANGED <<age, score, trail, disk, history>>

\* What the histories record when ver becomes production.
NewProduction ==
    /\ lastProd' = ver
    /\ before' = IF ver = lastProd THEN before ELSE lastProd
    /\ UNCHANGED <<torn, lost>>

\* promote_model_version() and the same UPDATE in rollback_production():
\* flags an existing row.
PromoteModelVersion ==
    /\ pc = "promote" /\ job \in {"review", "rollback"}
    /\ promoted' = promoted \cup ({ver} \cap rows)
    /\ NewProduction
    /\ Goto("audit")
    /\ UNCHANGED <<age, score, trail, disk>>

\* register_or_update_model(): the upsert of `promote' (without metrics) and
\* of `backtest --promote' (with the report's), trained_at set to now.
RegisterOrUpdateModel ==
    /\ pc = "promote" /\ job \in {"promote", "backtest"}
    /\ age' = Stamped(ver)
    /\ promoted' = promoted \cup {ver}
    /\ score' = [score EXCEPT ![ver] = report]
    /\ NewProduction
    /\ Goto("audit")
    /\ UNCHANGED <<trail, disk>>

\* Mutant of RecordPromotion: the review's promotion is not recorded.
RecordPromotionNotByReview ==
    /\ pc = "audit"
    /\ trail' = IF job = "review" THEN trail ELSE Append(trail,
          [version |-> ver,
           action |-> IF job = "rollback" THEN "rollback" ELSE "promote"])
    /\ torn' = FALSE
    /\ Finish
    /\ UNCHANGED <<registry, disk, lastProd, before, lost>>

\* record_promotion()
RecordPromotion ==
    /\ pc = "audit"
    /\ trail' = Append(trail,
          [version |-> ver,
           action |-> IF job = "rollback" THEN "rollback" ELSE "promote"])
    /\ torn' = FALSE
    /\ Finish
    /\ UNCHANGED <<registry, disk, lastProd, before, lost>>

-----------------------------------------------------------------------------
\* Mutant of PruneModelBundles: the file-name pattern misses the calibrators.
PruneLeavesCalibrators ==
    /\ holder = "service" /\ pc = "idle"
    /\ \E S \in SUBSET Doomed : files' = files \ S /\ bundle' = bundle \ S
    /\ UNCHANGED <<process, registry, trail, next, calibrated, history>>

\* The nightly maintenance's bundle GC.  An unlink that fails is passed
\* over, and the process may die on the way: any part of Doomed may survive.
PruneModelBundles ==
    /\ holder = "service" /\ pc = "idle"
    /\ \E S \in SUBSET Doomed :
          /\ files' = files \ S
          /\ bundle' = bundle \ S
          /\ calibrated' = calibrated \ S
    /\ UNCHANGED <<process, registry, trail, next, history>>

Next ==
    \/ StartService \/ StopProcess
    \/ BeginRetrain \/ BeginReview \/ BeginBacktestFresh \/ BeginRollback
    \/ \E v \in Version : BeginBacktest(v) \/ BeginPromote(v)
    \/ ReviewCoverage \/ TrainSkipped \/ TrainArtifacts \/ TrainFeatures
    \/ RegisterModel \/ FitBundleCalibrators
    \/ ReviewGate \/ MaybePromote
    \/ DemoteCurrentProduction \/ PromoteModelVersion
    \/ RegisterOrUpdateModel \/ RecordPromotion
    \/ PruneModelBundles

Spec == Init /\ [][Next]_vars

-----------------------------------------------------------------------------
(* Properties.                                                             *)

\* The registry flags one production version or none, at every moment of
\* every chain of statements and after every crash: promotion, rollback, the
\* review and the backtest all write the flag (access.py:1332-1392,
\* cli.py:560-578, backtest.py:660-680, review.py:461-465).
AtMostOneProduction == \A v, w \in promoted : v = w

\* Outside a change of production, and once a change has completed after the
\* last interrupted one, the production version is the one the newest row of
\* model_promotions names: registry and audit trail agree again.
AuditExplainsProduction ==
    (pc \notin {"promote", "audit"} /\ ~torn) =>
        promoted = IF trail = <<>> THEN {} ELSE {trail[Len(trail)].version}

\* A rollback that finds a production version, no earlier rollback and no
\* lost audit row chooses the version that really was production before.
RollbackUndoesPromotion ==
    (/\ job = "rollback" /\ pc = "demote" /\ promoted # {} /\ ~lost
     /\ \A i \in DOMAIN trail : trail[i].action = "promote")
        => ver = before

\* The score an automatic promotion is decided by: the candidate's row for
\* the review, the report for `backtest --promote'.
CandidateScore == IF job = "review" THEN score[ver] ELSE report

\* An automatic promotion, by the review or by the backtest, that is about to
\* set the flag is one of a candidate that has a score, and where a production
\* version with a registered score stood when no change was left unfinished,
\* one that beats it by the gate's margin: the missing scores, read as
\* infinities, never pass a candidate nor hide production's score
\* (review.py:320-334, backtest.py:607-616).
GateGuardsProduction ==
    (job \in {"review", "backtest"} /\ pc = "promote") =>
        /\ CandidateScore # NoScore
        /\ (~torn /\ lastProd # None /\ score[lastProd] # NoScore) =>
               CandidateScore + MinImprovement <= score[lastProd]

\* The bundle GC never deletes the model production serves
\* (phase5_persistence_plan.md:186-187), wherever it stands in the order of
\* names.
GcSparesProduction == [][promoted \cap bundle \subseteq bundle']_vars

\* "Re-promote the version that was production before the current one"
\* (rollback_production, access.py:1357).
RollbackRestoresPrevious ==
    (job = "rollback" /\ pc = "demote" /\ promoted # {}) => ver = before

\* "a candidate can never reach production without its calibrator set"
\* (fit_bundle_calibrators, review.py:196-197).
CalibratedProduction == promoted \subseteq calibrated
=============================================================================
