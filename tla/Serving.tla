------------------------------ MODULE Serving ------------------------------
(***************************************************************************)
(* What a prediction is made of: the model version predict_at() resolves   *)
(* and the calibrated band it gets from _CALIB_CACHE, while the review in  *)
(* the same process fits calibrators, trains and changes production.       *)
(*                                                                         *)
(* A calibrator file is abstracted to the number of the fit that wrote it. *)
(* The q10 file of a target stands for its three.  The prediction cycle is *)
(* one of the readers; it does not overlap with a review, requests do.     *)
(* The order of trained_at is reduced to its newest row.                   *)
(***************************************************************************)
EXTENDS Naturals

CONSTANTS
    MaxVersion, \* bound: training runs
    MaxFit,     \* bound: fits of a set of calibrators
    Requests,   \* threads of on-demand requests
    Cycle       \* the prediction cycle's thread

ASSUME ServingConstants ==
    MaxVersion \in Nat /\ MaxFit \in Nat \ {0} /\ Cycle \notin Requests

Readers == Requests \cup {Cycle}
Version == 1..MaxVersion
None == 0          \* no version
Raw == 0           \* no calibrator: the raw width of the quantiles
Torn == MaxFit + 1 \* a file that is open or was cut short

\* What predict_at() gets of the two targets' calibrators.
Targets == {"u", "v"}
Band == [Targets -> 0..MaxFit]
NoBand == [t \in Targets |-> Raw]
Absent == [t \in Targets |-> Torn] \* not a band: no entry in _CALIB_CACHE

VARIABLES
    process,    \* who holds the database: "none", "service" or "cli"
    registered, \* versions with a row, 1..registered
    newest,     \* the row with the newest trained_at
    production, \* the flagged row
    file,       \* calibrator files of each version: u and v
    step,       \* where the review, promotion or rollback is
    ver,        \* the version it works on
    target,     \* the file its fit has come to: "u", "v" or "end"
    open,       \* whether that file is open
    fits,       \* fits begun so far
    cache,      \* _CALIB_CACHE
    reader,     \* each reader: pc, ver, band
    met,        \* history: what each reader may have found in production
    overtaken   \* history: versions refitted after this process has read their files

registry == <<registered, newest, production>>
job == <<step, ver, target, open, fits>>
history == <<met, overtaken>>
vars == <<process, registry, file, job, cache, reader, history>>

ReaderState ==
    [pc : {"idle", "ask", "newest", "model", "u", "v", "store", "done"},
     ver : 0..registered, band : Band]

TypeOK ==
    /\ process \in {"none", "service", "cli"}
    /\ registered \in 0..MaxVersion
    /\ newest \in 0..registered /\ production \in 0..registered
    /\ file \in [Version -> [Targets -> 0..Torn]]
    /\ step \in {"idle", "recal", "train", "fit", "gate", "demote", "promote"}
    /\ ver \in 0..registered /\ target \in Targets \cup {"end"}
    /\ open \in BOOLEAN /\ fits \in 0..MaxFit
    /\ cache \in [Version -> Band \cup {Absent}]
    /\ reader \in [Readers -> ReaderState]
    /\ met \in [Readers -> SUBSET Version]
    /\ overtaken \subseteq Version

Quiet == [pc |-> "idle", ver |-> None, band |-> NoBand]

Init ==
    /\ process = "none"
    /\ registered = 0 /\ newest = None /\ production = None
    /\ file = [w \in Version |-> NoBand]
    /\ step = "idle" /\ ver = None /\ target = "end" /\ open = FALSE /\ fits = 0
    /\ cache = [w \in Version |-> Absent]
    /\ reader = [r \in Readers |-> Quiet]
    /\ met = [r \in Readers |-> {}] /\ overtaken = {}

-----------------------------------------------------------------------------
(* Processes.                                                              *)

Start ==
    /\ process = "none"
    /\ process' \in {"service", "cli"}
    /\ UNCHANGED <<registry, file, job, cache, reader, history>>

\* The process ends or dies.  A file that is open stays cut short.
Stop ==
    /\ process # "none"
    /\ process' = "none"
    /\ step' = "idle" /\ ver' = None /\ target' = "end" /\ open' = FALSE
    /\ cache' = [w \in Version |-> Absent]
    /\ reader' = [r \in Readers |-> Quiet]
    /\ met' = [r \in Readers |-> {}] /\ overtaken' = {}
    /\ UNCHANGED <<registry, file, fits>>

-----------------------------------------------------------------------------
(* The review, and what a CLI command does to the registry.                *)

JobBegins == process # "none" /\ step = "idle" /\ reader[Cycle].pc = "idle"

BeginFit(s, w) ==
    /\ fits < MaxFit /\ fits' = fits + 1
    /\ step' = s /\ ver' = w /\ target' = "u" /\ open' = FALSE

\* A coverage breach: recalibrate_production_bundle().
BeginRecalibration ==
    /\ JobBegins /\ production # None
    /\ BeginFit("recal", production)
    /\ UNCHANGED <<process, registry, file, cache, reader, history>>

\* A review without a breach, or lakewind retrain.
BeginTraining ==
    /\ JobBegins
    /\ step' = "train"
    /\ UNCHANGED <<process, registry, file, ver, target, open, fits, cache, reader, history>>

\* lakewind promote, rollback and backtest --promote have a version to flag.
BeginPromotion(w) ==
    /\ JobBegins /\ process = "cli" /\ w <= registered
    /\ step' = "demote" /\ ver' = w
    /\ UNCHANGED <<process, registry, file, target, open, fits, cache, reader, history>>

Fitting == step \in {"recal", "fit"} /\ target # "end"
Following == IF target = "u" THEN "v" ELSE "end"

\* Versions of which some thread has read a file, or kept what it read.
Shown(w) ==
    cache[w] # Absent \/ \E r \in Readers : reader[r].ver = w /\ reader[r].pc \in {"v", "store"}
Overtakes(w) == IF Shown(w) THEN overtaken \cup {w} ELSE overtaken

\* train_conformal_calibrator(): open() truncates the file in place ...
OpenCalibrator ==
    /\ Fitting /\ ~open
    /\ file' = [file EXCEPT ![ver] = [@ EXCEPT ![target] = Torn]]
    /\ open' = TRUE
    /\ overtaken' = Overtakes(ver)
    /\ UNCHANGED <<process, registry, step, ver, target, fits, cache, reader, met>>

\* ... and pickle.dump() fills it.
DumpCalibrator ==
    /\ Fitting /\ open
    /\ file' = [file EXCEPT ![ver] = [@ EXCEPT ![target] = fits]]
    /\ open' = FALSE /\ target' = Following
    /\ overtaken' = Overtakes(ver)
    /\ UNCHANGED <<process, registry, step, ver, fits, cache, reader, met>>

\* Too few samples, or no bundle: the file stays as it is.
SkipCalibrator ==
    /\ Fitting /\ ~open
    /\ target' = Following
    /\ UNCHANGED <<process, registry, file, step, ver, open, fits, cache, reader, history>>

\* An exception ends the fit: the review goes on without it, a candidate
\* ends with it.
FitRaises ==
    /\ Fitting
    /\ open' = FALSE /\ target' = "end" /\ ver' = None
    /\ step' = IF step = "recal" THEN "train" ELSE "idle"
    /\ UNCHANGED <<process, registry, file, fits, cache, reader, history>>

RecalibrationEnds ==
    /\ step = "recal" /\ target = "end"
    /\ step' = "train" /\ ver' = None
    /\ UNCHANGED <<process, registry, file, target, open, fits, cache, reader, history>>

FitEnds ==
    /\ step = "fit" /\ target = "end"
    /\ step' = "gate"
    /\ UNCHANGED <<process, registry, file, ver, target, open, fits, cache, reader, history>>

\* No retraining is due, or it fails.
TrainSkipped ==
    /\ step = "train"
    /\ step' = "idle"
    /\ UNCHANGED <<process, registry, file, ver, target, open, fits, cache, reader, history>>

\* train() has saved a bundle and registers it; its calibrators are next.  It
\* takes minutes: no reader is still between its two queries.
RegisterModel ==
    /\ step = "train" /\ registered < MaxVersion
    /\ \A r \in Readers : reader[r].pc # "newest"
    /\ registered' = registered + 1 /\ newest' = registered + 1
    /\ BeginFit("fit", registered + 1)
    /\ UNCHANGED <<process, production, file, cache, reader, history>>

\* Mutant of GateFails: production is demoted before the station samples are
\* counted.
GateFailsDemoted ==
    /\ step = "gate"
    /\ step' = "idle" /\ ver' = None /\ production' = None
    /\ UNCHANGED <<process, registered, newest, file, target, open, fits, cache, reader, history>>

\* The gate: the candidate is recommended, or promoted.
GateFails ==
    /\ step = "gate"
    /\ step' = "idle" /\ ver' = None
    /\ UNCHANGED <<process, registry, file, target, open, fits, cache, reader, history>>

GatePasses ==
    /\ step = "gate"
    /\ step' = "demote"
    /\ met' = [r \in Readers |-> IF met[r] = {} THEN {} ELSE met[r] \cup {ver}]
    /\ UNCHANGED <<process, registry, file, ver, target, open, fits, cache, reader,
                   overtaken>>

\* demote_current_production()
DemoteCurrentProduction ==
    /\ step = "demote"
    /\ production' = None
    /\ step' = "promote"
    /\ UNCHANGED <<process, registered, newest, file, ver, target, open, fits, cache,
                   reader, history>>

\* promote_model_version(), or the upsert of the CLI's promotions, which
\* renews trained_at.
PromoteModelVersion ==
    /\ step = "promote"
    /\ production' = ver
    /\ \/ UNCHANGED newest
       \/ process = "cli" /\ newest' = ver
    /\ step' = "idle" /\ ver' = None
    /\ UNCHANGED <<process, registered, file, target, open, fits, cache, reader, history>>

-----------------------------------------------------------------------------
(* Readers.                                                                *)

\* What a reader that begins now may find in production.
Findable ==
    IF step \in {"demote", "promote"} THEN {production, ver} \ {None}
                                      ELSE {production} \ {None}

Begin(r) ==
    /\ process = "service" /\ reader[r].pc = "idle"
    /\ r = Cycle => step = "idle"
    /\ reader' = [reader EXCEPT ![r].pc = "ask"]
    /\ met' = [met EXCEPT ![r] = Findable]
    /\ UNCHANGED <<process, registry, file, job, cache, overtaken>>

ReaderGoes(r, state) ==
    /\ reader' = [reader EXCEPT ![r] = state]
    /\ UNCHANGED <<process, registry, file, job, history>>

\* current_production_model() ...
AskProduction(r) ==
    /\ reader[r].pc = "ask"
    /\ IF production # None
       THEN ReaderGoes(r, [reader[r] EXCEPT !.pc = "model", !.ver = production])
       ELSE ReaderGoes(r, [reader[r] EXCEPT !.pc = "newest"])
    /\ UNCHANGED cache

\* ... or, without one, the newest row; without any, predict_at() raises.
AskNewest(r) ==
    /\ reader[r].pc = "newest"
    /\ IF newest # None
       THEN ReaderGoes(r, [reader[r] EXCEPT !.pc = "model", !.ver = newest])
       ELSE ReaderGoes(r, [reader[r] EXCEPT !.pc = "done"])
    /\ UNCHANGED cache

\* Mutant of LookUp: the entry is made before it is filled.
LookUpReserves(r) ==
    /\ reader[r].pc = "model"
    /\ IF cache[reader[r].ver] # Absent
       THEN /\ ReaderGoes(r, [reader[r] EXCEPT !.pc = "done", !.band = cache[reader[r].ver]])
            /\ UNCHANGED cache
       ELSE /\ ReaderGoes(r, [reader[r] EXCEPT !.pc = "u", !.band = NoBand])
            /\ cache' = [cache EXCEPT ![reader[r].ver] = NoBand]

\* _get_conformal_calibrators(): the entry of the version, whatever became of
\* its files since ...
LookUp(r) ==
    /\ reader[r].pc = "model"
    /\ IF cache[reader[r].ver] # Absent
       THEN ReaderGoes(r, [reader[r] EXCEPT !.pc = "done", !.band = cache[reader[r].ver]])
       ELSE ReaderGoes(r, [reader[r] EXCEPT !.pc = "u", !.band = NoBand])
    /\ UNCHANGED cache

\* Mutant of Load: the exception of an unreadable file is not looked at.
LoadAnything(r, t) ==
    /\ reader[r].pc = t
    /\ ReaderGoes(r, [reader[r] EXCEPT
          !.pc = IF t = "u" THEN "v" ELSE "store", !.band[t] = file[reader[r].ver][t]])
    /\ UNCHANGED cache

\* ... or its files, one after the other; one that cannot be read ends it.
Load(r, t) ==
    LET found == file[reader[r].ver][t]
    IN  /\ reader[r].pc = t
        /\ IF found = Torn
           THEN ReaderGoes(r, [reader[r] EXCEPT !.pc = "store"])
           ELSE ReaderGoes(r, [reader[r] EXCEPT
                   !.pc = IF t = "u" THEN "v" ELSE "store", !.band[t] = found])
        /\ UNCHANGED cache

Store(r) ==
    /\ reader[r].pc = "store"
    /\ cache' = [cache EXCEPT ![reader[r].ver] = reader[r].band]
    /\ ReaderGoes(r, [reader[r] EXCEPT !.pc = "done"])

\* The prediction is returned; a cycle goes on with the version it has.
Answer(r) ==
    /\ reader[r].pc = "done"
    /\ reader' = [reader EXCEPT ![r] = Quiet]
    /\ met' = [met EXCEPT ![r] = {}]
    /\ UNCHANGED <<process, registry, file, job, cache, overtaken>>

NextHorizon ==
    /\ reader[Cycle].pc = "done"
    /\ ReaderGoes(Cycle, [reader[Cycle] EXCEPT
          !.pc = IF reader[Cycle].ver = None THEN "ask" ELSE "model"])
    /\ UNCHANGED cache

Review ==
    \/ BeginRecalibration \/ BeginTraining
    \/ \E w \in Version : BeginPromotion(w)
    \/ OpenCalibrator \/ DumpCalibrator \/ SkipCalibrator \/ FitRaises
    \/ RecalibrationEnds \/ FitEnds
    \/ TrainSkipped \/ RegisterModel \/ GateFails \/ GatePasses
    \/ DemoteCurrentProduction \/ PromoteModelVersion

Predict ==
    \/ \E r \in Readers :
          \/ Begin(r) \/ AskProduction(r) \/ AskNewest(r) \/ LookUp(r)
          \/ Load(r, "u") \/ Load(r, "v") \/ Store(r) \/ Answer(r)
    \/ NextHorizon

Next == Start \/ Stop \/ Review \/ Predict

Spec == Init /\ [][Next]_vars

-----------------------------------------------------------------------------
(* Properties.                                                             *)

\* A change of production, in which for a moment no row is flagged, is
\* invisible to predictions: a reader that began with a version in production
\* uses one that was in production since, or is about to be.
OldOrNewProduction ==
    \A r \in Readers :
        (reader[r].ver # None /\ met[r] # {}) => reader[r].ver \in met[r]

\* An entry of _CALIB_CACHE is the set of files on disk, whichever threads fill it
\* at the same time, and also for a candidate that this process itself fits,
\* promotes and then serves: the one way out is a fit of a version whose files
\* some thread has read already (RecalibrationServed), and the entry of a version
\* whose files are cut short.
CacheMatchesDisk ==
    \A w \in Version :
        (cache[w] # Absent /\ w \notin overtaken /\ \A t \in Targets : file[w][t] # Torn)
            => cache[w] = file[w]

\* Recalibration closes "the gap where a drifted band silently kept serving"
\* (recalibrate_production_bundle, review.py:241-243): when it is over, no
\* prediction of this process is made with calibrators other than those on disk.
RecalibrationServed ==
    (step = "recal" /\ target = "end" /\ \A t \in Targets : file[ver][t] # Torn)
        => cache[ver] \in {Absent, file[ver]}
=============================================================================
