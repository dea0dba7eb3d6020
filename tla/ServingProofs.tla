---------------------------- MODULE ServingProofs ----------------------------
(***************************************************************************)
(* Proofs about what is served, for every value of the constants.          *)
(*                                                                         *)
(* Serving: a change of production is invisible to predictions, and an     *)
(* entry of the calibrator cache is the files on disk as long as nobody    *)
(* fits them again.  Sailing: the verdict is that of the medians, and the  *)
(* hour advised is a sailable one.  Bot: the onboarding is asked once,     *)
(* alerts belong to users the database knows, and what is counted against  *)
(* a user's limit are the commands that were answered.                     *)
(***************************************************************************)
EXTENDS MCServing, SequenceTheorems, FiniteSetTheorems, WellFoundedInduction, TLAPS

Changing == step \in {"demote", "promote"}
Whole(w) == \A t \in Targets : file[w][t] # Torn

\* Where a job stands says which version it has: a candidate is the newest
\* row until it is in production.
JobKnows ==
    /\ process = "none" => step = "idle"
    /\ step \in {"recal", "fit", "gate", "demote", "promote"} => ver # None
    /\ step \in {"fit", "gate"} \/ (process = "service" /\ Changing) => ver = newest
    /\ open => step \in {"recal", "fit"} /\ target # "end"

\* Only the service has readers, and one that needs a version has it.
ReadersKnow ==
    /\ process # "service" => \A r \in Readers : reader[r].pc = "idle" /\ met[r] = {}
    /\ \A r \in Readers :
          /\ reader[r].pc = "idle" => reader[r].ver = None
          /\ reader[r].pc \in {"model", "u", "v", "store"} => reader[r].ver # None

\* What a reader may have met follows production through its change, and so
\* does what a reader between its two queries is about to find.
MetKnows ==
    \A r \in Readers : met[r] # {} =>
        /\ IF production = None THEN Changing ELSE production \in met[r]
        /\ Changing => ver \in met[r]
        /\ reader[r].pc = "newest" => newest \in met[r]

\* A thread that fills the cache has read the files that are there, unless the
\* version was fitted again since.
LoadsKnow ==
    \A r \in Readers :
        LET w == reader[r].ver
        IN  (w # None /\ w \notin overtaken /\ Whole(w)) =>
               /\ reader[r].pc = "v" => reader[r].band["u"] = file[w]["u"]
               /\ reader[r].pc = "store" => reader[r].band = file[w]

ServingInv ==
    /\ TypeOK /\ JobKnows /\ ReadersKnow /\ MetKnows /\ LoadsKnow
    /\ OldOrNewProduction /\ CacheMatchesDisk

-----------------------------------------------------------------------------
(* Types.                                                                  *)

LEMMA InitServingInv == ASSUME Init PROVE ServingInv
<1>1. TypeOK
  <2>1. NoBand \in Band /\ NoBand \in [Targets -> 0..Torn]
    BY ServingConstants DEF NoBand, Band, Torn, Raw
  <2>2. Quiet \in ReaderState
    BY <2>1 DEF Init, Quiet, ReaderState, None
  <2>3. file \in [Version -> [Targets -> 0..Torn]] /\ cache \in [Version -> Band \cup {Absent}]
    BY <2>1 DEF Init
  <2>4. reader \in [Readers -> ReaderState] /\ met \in [Readers -> SUBSET Version]
    BY <2>2 DEF Init
  <2>5. registered \in 0..MaxVersion /\ newest \in 0..registered /\ production \in 0..registered
    BY ServingConstants DEF Init, None
  <2>6. ver \in 0..registered /\ fits \in 0..MaxFit
    BY ServingConstants DEF Init, None
  <2>7. QED
    BY <2>3, <2>4, <2>5, <2>6 DEF Init, TypeOK
<1>2. JobKnows /\ ReadersKnow /\ MetKnows /\ LoadsKnow
  BY DEF Init, JobKnows, ReadersKnow, MetKnows, LoadsKnow, Changing, Quiet
<1>3. OldOrNewProduction /\ CacheMatchesDisk
  BY DEF Init, OldOrNewProduction, CacheMatchesDisk, Quiet
<1>4. QED
  BY <1>1, <1>2, <1>3 DEF ServingInv

\* The state a reader goes to has the type of its parts.
LEMMA ReaderGoesType ==
    ASSUME TypeOK, NEW r \in Readers, NEW state \in ReaderState, ReaderGoes(r, state)
    PROVE  reader' \in [Readers -> ReaderState'] /\ ReaderState' = ReaderState
BY DEF TypeOK, ReaderGoes, ReaderState, registry

LEMMA StateOf == ASSUME TypeOK, NEW r \in Readers
                 PROVE  /\ reader[r] \in ReaderState
                        /\ NoBand \in Band /\ Absent \notin Band
                        /\ Quiet \in ReaderState
BY ServingConstants DEF TypeOK, ReaderState, NoBand, Band, Absent, Quiet, Torn, Raw, None, Targets

\* What a reader's step leaves alone, and where it takes the reader.
LEMMA PredictTypeOK ==
    ASSUME TypeOK, ReadersKnow, NEW r \in Readers,
           \/ AskProduction(r) \/ AskNewest(r) \/ LookUp(r)
           \/ Load(r, "u") \/ Load(r, "v") \/ Store(r)
    PROVE  TypeOK'
<1> USE ServingConstants DEF registry, job, history
<1>1. reader[r] \in ReaderState /\ NoBand \in Band
  BY StateOf
<1>2. SUFFICES ASSUME NEW state \in ReaderState, ReaderGoes(r, state),
                      cache' \in [Version -> Band \cup {Absent}]
               PROVE  TypeOK'
  <2>1. CASE AskProduction(r)
    BY <1>1, <1>2, <2>1 DEF AskProduction, TypeOK, ReaderState
  <2>2. CASE AskNewest(r)
    BY <1>1, <1>2, <2>2 DEF AskNewest, TypeOK, ReaderState
  <2>3. CASE LookUp(r)
    <3>1. reader[r].ver \in Version
      BY SMTT(30), <1>1, <2>3 DEF LookUp, TypeOK, ReaderState, ReadersKnow, Version, None
    <3>2. cache' = cache /\ cache \in [Version -> Band \cup {Absent}]
      BY <2>3 DEF LookUp, TypeOK
    <3>3. CASE cache[reader[r].ver] # Absent
      <4>1. cache[reader[r].ver] \in Band
        BY <3>1, <3>2, <3>3
      <4>2. [reader[r] EXCEPT !.pc = "done", !.band = cache[reader[r].ver]] \in ReaderState
        BY <1>1, <4>1 DEF ReaderState
      <4>3. QED
        BY <1>2, <2>3, <3>2, <3>3, <4>2 DEF LookUp
    <3>4. CASE cache[reader[r].ver] = Absent
      <4>1. [reader[r] EXCEPT !.pc = "u", !.band = NoBand] \in ReaderState
        BY <1>1 DEF ReaderState
      <4>2. QED
        BY <1>2, <2>3, <3>2, <3>4, <4>1 DEF LookUp
    <3>5. QED
      BY <3>3, <3>4
  <2>4. ASSUME NEW t \in Targets, Load(r, t) PROVE TypeOK'
    <3>1. reader[r].ver \in Version
      BY <1>1, <2>4 DEF Load, TypeOK, ReaderState, ReadersKnow, Version, None, Targets
    <3>2. cache' = cache /\ cache \in [Version -> Band \cup {Absent}]
      BY <2>4 DEF Load, TypeOK
    <3>3. CASE file[reader[r].ver][t] = Torn
      <4>1. [reader[r] EXCEPT !.pc = "store"] \in ReaderState
        BY <1>1 DEF ReaderState
      <4>2. QED
        BY <1>2, <2>4, <3>2, <3>3, <4>1 DEF Load
    <3>4. CASE file[reader[r].ver][t] # Torn
      <4>1. file[reader[r].ver][t] \in 0..MaxFit
        <5>1. file[reader[r].ver] \in [Targets -> 0..Torn]
          BY <3>1 DEF TypeOK
        <5>2. file[reader[r].ver][t] \in 0..Torn
          BY <5>1, <2>4
        <5>3. QED
          BY <5>2, <3>4 DEF Torn
      <4>2. [reader[r].band EXCEPT ![t] = file[reader[r].ver][t]] \in Band
        BY <1>1, <4>1, <2>4 DEF ReaderState, Band
      <4>3. [reader[r] EXCEPT !.pc = IF t = "u" THEN "v" ELSE "store",
                              !.band = [@ EXCEPT ![t] = file[reader[r].ver][t]]]
               \in ReaderState
        BY <1>1, <4>2 DEF ReaderState
      <4>4. QED
        BY <1>2, <2>4, <3>2, <3>4, <4>3 DEF Load
    <3>5. QED
      BY <3>3, <3>4
  <2>5. CASE Store(r)
    BY <1>1, <1>2, <2>5 DEF Store, TypeOK, ReaderState
  <2>6. QED
    BY <2>1, <2>2, <2>3, <2>4, <2>5 DEF Targets
<1>3. reader' \in [Readers -> ReaderState']
  BY <1>2, ReaderGoesType
<1>4. QED
  BY <1>2, <1>3 DEF TypeOK, ReaderGoes

LEMMA QuietType == ASSUME TypeOK PROVE Quiet \in ReaderState
<1>1. NoBand \in Band
  BY ServingConstants DEF NoBand, Band, Raw
<1>2. QED
  BY <1>1 DEF TypeOK, Quiet, ReaderState, None

LEMMA FollowingType == ASSUME Fitting PROVE Following \in Targets \cup {"end"}
BY DEF Following, Targets

\* A fit writes its own version's files only.
LEMMA FileType ==
    ASSUME TypeOK, NEW n \in 0..Torn, Fitting,
           file' = [file EXCEPT ![ver] = [@ EXCEPT ![target] = n]]
    PROVE  file' \in [Version -> [Targets -> 0..Torn]]
<1>1. ASSUME NEW w \in Version PROVE [file[w] EXCEPT ![target] = n] \in [Targets -> 0..Torn]
  BY DEF TypeOK
<1>2. QED
  BY <1>1 DEF TypeOK

LEMMA NextTypeOK == ASSUME ServingInv, [Next]_vars PROVE TypeOK'
<1> USE ServingConstants DEF registry, job, history
<1>0. TypeOK /\ JobKnows /\ ReadersKnow
  BY DEF ServingInv
<1>1. CASE Start
  BY <1>0, <1>1 DEF TypeOK, Start, ReaderState
<1>2. CASE Stop
  <2>1. Quiet \in ReaderState /\ ReaderState' = ReaderState
    BY <1>0, <1>2, QuietType DEF Stop, ReaderState
  <2>2. reader' \in [Readers -> ReaderState'] /\ met' \in [Readers -> SUBSET Version]
    BY <1>2, <2>1 DEF Stop
  <2>3. cache' \in [Version -> Band \cup {Absent}]
    BY <1>2 DEF Stop
  <2>4. ver' \in 0..registered' /\ target' \in Targets \cup {"end"} /\ UNCHANGED <<registry, file, fits>>
    BY <1>0, <1>2 DEF TypeOK, Stop, None
  <2>5. process' = "none" /\ step' = "idle" /\ open' = FALSE /\ overtaken' = {}
    BY <1>2 DEF Stop
  <2>6. QED
    BY <1>0, <2>2, <2>3, <2>4, <2>5 DEF TypeOK
<1>3. CASE BeginRecalibration
  <2>1. fits' \in 0..MaxFit /\ ver' \in 0..registered /\ target' \in Targets
    BY <1>0, <1>3 DEF TypeOK, BeginRecalibration, BeginFit, Targets
  <2>2. ReaderState' = ReaderState
    BY <1>3 DEF BeginRecalibration, ReaderState
  <2>3. QED
    BY <1>0, <1>3, <2>1, <2>2 DEF TypeOK, BeginRecalibration, BeginFit
<1>4. CASE BeginTraining
  BY <1>0, <1>4 DEF TypeOK, BeginTraining, JobBegins, ReaderState
<1>5. ASSUME NEW w \in Version, BeginPromotion(w) PROVE TypeOK'
  BY <1>0, <1>5 DEF TypeOK, BeginPromotion, JobBegins, ReaderState, Version
<1>6. CASE OpenCalibrator
  <2>1. Torn \in 0..Torn
    BY DEF Torn
  <2>2. file' \in [Version -> [Targets -> 0..Torn]]
    BY <1>0, <1>6, <2>1, FileType DEF OpenCalibrator
  <2>3. ver \in Version
    BY <1>0, <1>6 DEF OpenCalibrator, Fitting, JobKnows, TypeOK, Version, None
  <2>4. overtaken' \subseteq Version
    BY <1>0, <1>6, <2>3 DEF TypeOK, OpenCalibrator, Overtakes
  <2>5. QED
    BY <1>0, <1>6, <2>2, <2>4 DEF TypeOK, OpenCalibrator, ReaderState
<1>7. CASE DumpCalibrator
  <2>1. fits \in 0..Torn
    BY <1>0 DEF Torn, TypeOK
  <2>2. file' \in [Version -> [Targets -> 0..Torn]]
    BY <1>0, <1>7, <2>1, FileType DEF DumpCalibrator
  <2>3. ver \in Version
    BY <1>0, <1>7 DEF DumpCalibrator, Fitting, JobKnows, TypeOK, Version, None
  <2>4. overtaken' \subseteq Version
    BY <1>0, <1>7, <2>3 DEF TypeOK, DumpCalibrator, Overtakes
  <2>5. QED
    BY <1>0, <1>7, <2>2, <2>4, FollowingType DEF TypeOK, DumpCalibrator, ReaderState
<1>8. CASE SkipCalibrator
  BY <1>0, <1>8, FollowingType DEF TypeOK, SkipCalibrator, ReaderState
<1>9. CASE FitRaises
  <2>1. ver' \in 0..registered /\ step' \in {"train", "idle"}
    BY <1>0, <1>9 DEF TypeOK, FitRaises, None
  <2>2. open' = FALSE /\ target' = "end"
        /\ UNCHANGED <<process, registry, file, fits, cache, reader, history>>
    BY <1>9 DEF FitRaises
  <2>3. ReaderState' = ReaderState
    BY <2>2 DEF ReaderState
  <2>4. QED
    BY <1>0, <2>1, <2>2, <2>3 DEF TypeOK
<1>10. CASE RecalibrationEnds \/ FitEnds \/ TrainSkipped \/ GateFails
  <2>1. ver' \in 0..registered /\ step' \in {"train", "gate", "idle"}
    BY <1>0, <1>10 DEF TypeOK, RecalibrationEnds, FitEnds, TrainSkipped, GateFails, None
  <2>2. UNCHANGED <<process, registry, file, target, open, fits, cache, reader, history>>
    BY <1>10 DEF RecalibrationEnds, FitEnds, TrainSkipped, GateFails
  <2>3. ReaderState' = ReaderState
    BY <2>2 DEF ReaderState
  <2>4. QED
    BY <1>0, <2>1, <2>2, <2>3 DEF TypeOK
<1>11. CASE RegisterModel
  <2>1. registered' \in 0..MaxVersion /\ newest' \in 0..registered' /\ ver' \in 0..registered'
        /\ production' \in 0..registered' /\ registered' = registered + 1
    BY <1>0, <1>11 DEF TypeOK, RegisterModel, BeginFit
  <2>2. 0..registered \subseteq 0..registered'
    BY <1>0, <2>1 DEF TypeOK
  <2>3. ReaderState \subseteq ReaderState'
    BY <2>2 DEF ReaderState
  <2>4. reader' \in [Readers -> ReaderState']
    BY <1>0, <1>11, <2>3 DEF TypeOK, RegisterModel
  <2>5. fits' \in 0..MaxFit
    BY <1>0, <1>11 DEF TypeOK, RegisterModel, BeginFit
  <2>6. target' \in Targets /\ open' \in BOOLEAN /\ step' = "fit"
    BY <1>11 DEF RegisterModel, BeginFit, Targets
  <2>7. UNCHANGED <<process, file, cache, history>>
    BY <1>11 DEF RegisterModel
  <2>8. QED
    BY <1>0, <2>1, <2>4, <2>5, <2>7, <2>6 DEF TypeOK
<1>12. CASE GatePasses
  <2>1. ver \in Version
    BY <1>0, <1>12 DEF GatePasses, JobKnows, TypeOK, Version, None
  <2>2. QED
    BY <1>0, <1>12, <2>1 DEF TypeOK, GatePasses, ReaderState
<1>13. CASE DemoteCurrentProduction \/ PromoteModelVersion
  BY <1>0, <1>13 DEF TypeOK, DemoteCurrentProduction, PromoteModelVersion, ReaderState, None
<1>14. ASSUME NEW r \in Readers, Begin(r) PROVE TypeOK'
  <2>1. Findable \subseteq Version
    BY <1>0 DEF Findable, TypeOK, Version, None
  <2>2. reader' \in [Readers -> ReaderState] /\ ReaderState' = ReaderState
    BY <1>0, <1>14 DEF Begin, TypeOK, ReaderState
  <2>3. QED
    BY <1>0, <1>14, <2>1, <2>2 DEF TypeOK, Begin
<1>15. ASSUME NEW r \in Readers, Answer(r) PROVE TypeOK'
  <2>1. reader' \in [Readers -> ReaderState] /\ ReaderState' = ReaderState
    BY <1>0, <1>15, StateOf DEF Answer, TypeOK, ReaderState
  <2>2. QED
    BY <1>0, <1>15, <2>1 DEF TypeOK, Answer
<1>16. ASSUME NEW r \in Readers,
              \/ AskProduction(r) \/ AskNewest(r) \/ LookUp(r)
              \/ Load(r, "u") \/ Load(r, "v") \/ Store(r)
       PROVE  TypeOK'
  BY <1>0, <1>16, PredictTypeOK
<1>17. CASE NextHorizon
  <2>1. Cycle \in Readers
    BY DEF Readers
  <2>2. [reader[Cycle] EXCEPT !.pc = IF reader[Cycle].ver = None THEN "ask" ELSE "model"]
          \in ReaderState
    BY <1>0, <2>1 DEF TypeOK, ReaderState
  <2>3. reader' \in [Readers -> ReaderState'] /\ cache' = cache
    BY <1>0, <1>17, <2>1, <2>2, ReaderGoesType DEF NextHorizon
  <2>4. QED
    BY <1>0, <1>17, <2>3 DEF TypeOK, NextHorizon, ReaderGoes
<1>18. CASE UNCHANGED vars
  BY <1>0, <1>18 DEF TypeOK, vars, ReaderState
<1>19. QED
  BY <1>1, <1>2, <1>3, <1>4, <1>5, <1>6, <1>7, <1>8, <1>9, <1>10, <1>11, <1>12, <1>13,
     <1>14, <1>15, <1>16, <1>17, <1>18 DEF Next, Review, Predict

-----------------------------------------------------------------------------
(* Jobs and readers.                                                       *)

LEMMA NextJobKnows == ASSUME ServingInv, [Next]_vars PROVE JobKnows'
<1> USE DEF registry, job, history, Changing
<1>0. TypeOK /\ JobKnows
  BY DEF ServingInv
<1>1. CASE Start \/ Stop
  BY <1>0, <1>1 DEF Start, Stop, JobKnows, TypeOK
<1>2. CASE BeginRecalibration \/ BeginTraining
  BY <1>0, <1>2 DEF BeginRecalibration, BeginTraining, BeginFit, JobBegins, JobKnows, TypeOK
<1>3. ASSUME NEW w \in Version, BeginPromotion(w) PROVE JobKnows'
  BY <1>0, <1>3 DEF BeginPromotion, JobBegins, JobKnows, TypeOK, Version, None
<1>4. CASE OpenCalibrator
  BY <1>0, <1>4 DEF OpenCalibrator, Fitting, JobKnows, TypeOK
<1>5. CASE DumpCalibrator
  BY <1>0, <1>5 DEF DumpCalibrator, Fitting, JobKnows, TypeOK
<1>6. CASE SkipCalibrator
  BY <1>0, <1>6 DEF SkipCalibrator, Fitting, JobKnows, TypeOK
<1>7. CASE FitRaises
  BY <1>0, <1>7 DEF FitRaises, Fitting, JobKnows, TypeOK
<1>8. CASE RecalibrationEnds \/ FitEnds
  BY <1>0, <1>8 DEF RecalibrationEnds, FitEnds, JobKnows, TypeOK
<1>9. CASE TrainSkipped \/ GateFails \/ GatePasses
  BY <1>0, <1>9 DEF TrainSkipped, GateFails, GatePasses, JobKnows, TypeOK
<1>10. CASE RegisterModel
  BY <1>0, <1>10 DEF RegisterModel, BeginFit, JobKnows, TypeOK, None
<1>11. CASE DemoteCurrentProduction \/ PromoteModelVersion
  BY <1>0, <1>11 DEF DemoteCurrentProduction, PromoteModelVersion, JobKnows, TypeOK
<1>12. CASE Predict
  <2>1. UNCHANGED <<process, registry, job, overtaken>>
    BY <1>12 DEF Predict, Begin, AskProduction, AskNewest, LookUp, Load, Store, Answer,
       NextHorizon, ReaderGoes
  <2>2. QED
    BY <1>0, <2>1 DEF JobKnows
<1>13. CASE UNCHANGED vars
  BY <1>0, <1>13 DEF vars, JobKnows
<1>14. QED
  BY <1>1, <1>2, <1>3, <1>4, <1>5, <1>6, <1>7, <1>8, <1>9, <1>10, <1>11, <1>12, <1>13
     DEF Next, Review

\* Steps of the review leave every reader where it is.
LEMMA ReviewLeavesReaders == ASSUME Review PROVE UNCHANGED <<process, cache, reader>>
BY DEF Review, BeginRecalibration, BeginTraining, BeginPromotion, OpenCalibrator, DumpCalibrator,
   SkipCalibrator, FitRaises, RecalibrationEnds, FitEnds, TrainSkipped, RegisterModel,
   GateFails, GatePasses, DemoteCurrentProduction, PromoteModelVersion

\* What readers have met only grows with a candidate that passes the gate.
LEMMA ReviewMet ==
    ASSUME Review
    PROVE  \/ UNCHANGED met
           \/ /\ GatePasses
              /\ \A r \in Readers :
                    met'[r] = IF met[r] = {} THEN {} ELSE met[r] \cup {ver}
BY DEF Review, BeginRecalibration, BeginTraining, BeginPromotion, OpenCalibrator, DumpCalibrator,
   SkipCalibrator, FitRaises, RecalibrationEnds, FitEnds, TrainSkipped, RegisterModel,
   GateFails, GatePasses, DemoteCurrentProduction, PromoteModelVersion, history

LEMMA NextReadersKnow == ASSUME ServingInv, [Next]_vars PROVE ReadersKnow'
<1> USE DEF registry, job, history
<1>0. TypeOK /\ ReadersKnow /\ JobKnows
  BY DEF ServingInv
<1>1. CASE Start \/ Stop
  BY <1>0, <1>1 DEF Start, Stop, ReadersKnow, Quiet
<1>2. CASE Review
  <2>1. UNCHANGED <<process, reader>>
    BY <1>2, ReviewLeavesReaders
  <2>2. \A r \in Readers : met[r] = {} => met'[r] = {}
    BY <1>2, ReviewMet
  <2>3. QED
    BY <1>0, <2>1, <2>2 DEF ReadersKnow
<1>3. ASSUME NEW r \in Readers, Begin(r) PROVE ReadersKnow'
  BY <1>0, <1>3 DEF Begin, ReadersKnow, TypeOK, ReaderState
<1>4. ASSUME NEW r \in Readers, NEW state, ReaderGoes(r, state), reader[r].pc # "idle",
             state.pc = "idle" => state.ver = None,
             state.pc \in {"model", "u", "v", "store"} => state.ver # None
      PROVE  ReadersKnow'
  BY <1>0, <1>4 DEF ReaderGoes, ReadersKnow, TypeOK
<1>5. ASSUME NEW r \in Readers, AskProduction(r) PROVE ReadersKnow'
  <2>1. reader[r] \in ReaderState
    BY <1>0 DEF TypeOK
  <2>2. CASE production # None
    BY <1>4, <1>5, <2>1, <2>2 DEF AskProduction, ReaderState
  <2>3. CASE production = None
    BY <1>4, <1>5, <2>1, <2>3 DEF AskProduction, ReaderState
  <2>4. QED
    BY <2>2, <2>3
<1>6. ASSUME NEW r \in Readers, AskNewest(r) PROVE ReadersKnow'
  <2>1. reader[r] \in ReaderState
    BY <1>0 DEF TypeOK
  <2>2. CASE newest # None
    BY <1>4, <1>6, <2>1, <2>2 DEF AskNewest, ReaderState
  <2>3. CASE newest = None
    BY <1>4, <1>6, <2>1, <2>3 DEF AskNewest, ReaderState
  <2>4. QED
    BY <2>2, <2>3
<1>7. ASSUME NEW r \in Readers, LookUp(r) PROVE ReadersKnow'
  <2>1. reader[r] \in ReaderState /\ reader[r].ver # None
    BY <1>0, <1>7 DEF TypeOK, ReadersKnow, LookUp
  <2>2. CASE cache[reader[r].ver] # Absent
    BY <1>4, <1>7, <2>1, <2>2 DEF LookUp, ReaderState
  <2>3. CASE cache[reader[r].ver] = Absent
    BY <1>4, <1>7, <2>1, <2>3 DEF LookUp, ReaderState
  <2>4. QED
    BY <2>2, <2>3
<1>8. ASSUME NEW r \in Readers, NEW t \in Targets, Load(r, t) PROVE ReadersKnow'
  <2>1. reader[r] \in ReaderState /\ reader[r].ver # None /\ reader[r].pc # "idle"
    BY <1>0, <1>8 DEF TypeOK, ReadersKnow, Load, Targets
  <2>2. CASE file[reader[r].ver][t] = Torn
    BY <1>4, <1>8, <2>1, <2>2 DEF Load, ReaderState
  <2>3. CASE file[reader[r].ver][t] # Torn
    BY <1>4, <1>8, <2>1, <2>3 DEF Load, ReaderState
  <2>4. QED
    BY <2>2, <2>3
<1>9. ASSUME NEW r \in Readers, Store(r) PROVE ReadersKnow'
  <2>1. reader[r] \in ReaderState
    BY <1>0 DEF TypeOK
  <2>2. QED
    BY <1>4, <1>9, <2>1 DEF Store, ReaderState
<1>10. ASSUME NEW r \in Readers, Answer(r) PROVE ReadersKnow'
  BY <1>0, <1>10 DEF Answer, Quiet, ReadersKnow, TypeOK
<1>11. CASE NextHorizon
  <2>1. Cycle \in Readers
    BY DEF Readers
  <2>2. reader[Cycle] \in ReaderState
    BY <1>0, <2>1 DEF TypeOK
  <2>3. QED
    BY <1>4, <1>11, <2>1, <2>2 DEF NextHorizon, ReaderState
<1>12. CASE UNCHANGED vars
  BY <1>0, <1>12 DEF vars, ReadersKnow
<1>13. QED
  BY <1>1, <1>2, <1>3, <1>5, <1>6, <1>7, <1>8, <1>9, <1>10, <1>11, <1>12
     DEF Next, Predict, Targets

-----------------------------------------------------------------------------
(* A change of production.                                                 *)

\* A review's step changes what a reader may find only in the order the
\* invariant expects: a candidate passes the gate before it is flagged.
LEMMA ReviewMetKnows ==
    ASSUME ServingInv, Review
    PROVE  MetKnows' /\ OldOrNewProduction'
<1> USE DEF registry, job, history, Changing
<1>0. JobKnows /\ ReadersKnow /\ MetKnows /\ OldOrNewProduction /\ TypeOK
  BY DEF ServingInv
<1>1. UNCHANGED <<process, reader>>
  BY ReviewLeavesReaders
<1>2. \A r \in Readers : met[r] # {} => process = "service"
  BY <1>0 DEF ReadersKnow
<1>3. OldOrNewProduction'
  BY <1>0, <1>1, ReviewMet DEF OldOrNewProduction
<1> SUFFICES MetKnows'
  BY <1>3
<1>4. CASE BeginRecalibration \/ BeginTraining
  BY <1>0, <1>4 DEF BeginRecalibration, BeginTraining, BeginFit, JobBegins, MetKnows
<1>5. ASSUME NEW w \in Version, BeginPromotion(w) PROVE MetKnows'
  BY <1>1, <1>2, <1>5 DEF BeginPromotion, MetKnows
<1>6. CASE OpenCalibrator \/ DumpCalibrator \/ SkipCalibrator
  BY <1>0, <1>6 DEF OpenCalibrator, DumpCalibrator, SkipCalibrator, MetKnows
<1>7. CASE FitRaises
  BY <1>0, <1>7 DEF FitRaises, Fitting, MetKnows
<1>8. CASE RecalibrationEnds \/ FitEnds \/ TrainSkipped \/ GateFails
  BY <1>0, <1>8 DEF RecalibrationEnds, FitEnds, TrainSkipped, GateFails, MetKnows
<1>9. CASE RegisterModel
  BY <1>0, <1>1, <1>9 DEF RegisterModel, BeginFit, MetKnows
<1>10. CASE GatePasses
  <2>1. ASSUME NEW r \in Readers, met'[r] # {}
        PROVE  met[r] # {} /\ met'[r] = met[r] \cup {ver}
    BY <1>10, <2>1 DEF GatePasses
  <2>2. UNCHANGED <<registry, ver, reader>> /\ step = "gate" /\ step' = "demote"
    BY <1>10 DEF GatePasses
  <2>3. QED
    BY <1>0, <2>1, <2>2 DEF MetKnows
<1>11. CASE DemoteCurrentProduction
  BY <1>0, <1>11 DEF DemoteCurrentProduction, MetKnows
<1>12. CASE PromoteModelVersion
  <2>1. production' = ver /\ ver # None /\ step' = "idle" /\ UNCHANGED <<met, reader>>
    BY <1>0, <1>12 DEF PromoteModelVersion, JobKnows
  <2>2. process = "service" => newest' = newest
    BY <1>12 DEF PromoteModelVersion
  <2>3. \A r \in Readers : met[r] # {} => ver \in met[r]
    BY <1>0, <1>12 DEF PromoteModelVersion, MetKnows
  <2>4. QED
    BY <1>0, <1>2, <2>1, <2>2, <2>3 DEF MetKnows
<1>13. QED
  BY <1>4, <1>5, <1>6, <1>7, <1>8, <1>9, <1>10, <1>11, <1>12 DEF Review

LEMMA NextMetKnows ==
    ASSUME ServingInv, [Next]_vars
    PROVE  MetKnows' /\ OldOrNewProduction'
<1> USE DEF registry, job, history, Changing
<1>0. JobKnows /\ ReadersKnow /\ MetKnows /\ OldOrNewProduction /\ TypeOK
  BY DEF ServingInv
<1>1. CASE Start \/ Stop
  BY <1>0, <1>1 DEF Start, Stop, ReadersKnow, MetKnows, OldOrNewProduction, TypeOK
<1>2. CASE Review
  BY <1>2, ReviewMetKnows
<1>3. ASSUME NEW r \in Readers, Begin(r) PROVE MetKnows' /\ OldOrNewProduction'
  <2>1. reader'[r].pc = "ask" /\ reader'[r].ver = None /\ met'[r] = Findable
    BY <1>0, <1>3 DEF Begin, TypeOK, ReaderState, ReadersKnow
  <2>2. \A q \in Readers \ {r} : reader'[q] = reader[q] /\ met'[q] = met[q]
    BY <1>0, <1>3 DEF Begin, TypeOK
  <2>3. UNCHANGED <<registry, job>>
    BY <1>3 DEF Begin
  <2>4. Findable # {} =>
           /\ IF production = None THEN Changing ELSE production \in Findable
           /\ Changing => ver \in Findable
    BY <1>0 DEF Findable, JobKnows
  <2>5. QED
    BY <1>0, <2>1, <2>2, <2>3, <2>4 DEF MetKnows, OldOrNewProduction
<1>4. ASSUME NEW r \in Readers, NEW state, ReaderGoes(r, state),
             (met[r] # {} /\ state.ver # None) => state.ver \in met[r],
             (met[r] # {} /\ state.pc = "newest") => newest \in met[r]
      PROVE  MetKnows' /\ OldOrNewProduction'
  <2>1. reader'[r] = state /\ \A q \in Readers \ {r} : reader'[q] = reader[q]
    BY <1>0, <1>4 DEF ReaderGoes, TypeOK
  <2>2. UNCHANGED <<registry, job, met>>
    BY <1>4 DEF ReaderGoes
  <2>3. QED
    BY <1>0, <1>4, <2>1, <2>2 DEF MetKnows, OldOrNewProduction
<1>5. ASSUME NEW r \in Readers PROVE reader[r] \in ReaderState
  BY <1>0, <1>5 DEF TypeOK
<1>6. ASSUME NEW r \in Readers, AskProduction(r) PROVE MetKnows' /\ OldOrNewProduction'
  <2>1. CASE production # None
    BY <1>0, <1>4, <1>5, <1>6, <2>1 DEF AskProduction, ReaderState, MetKnows
  <2>2. CASE production = None
    <3>1. met[r] # {} => newest \in met[r]
      BY <1>0, <2>2 DEF MetKnows, JobKnows, ReadersKnow
    <3>2. QED
      BY <1>0, <1>4, <1>5, <1>6, <2>2, <3>1 DEF AskProduction, ReaderState, OldOrNewProduction
  <2>3. QED
    BY <2>1, <2>2
<1>7. ASSUME NEW r \in Readers, AskNewest(r) PROVE MetKnows' /\ OldOrNewProduction'
  <2>1. CASE newest # None
    BY <1>0, <1>4, <1>5, <1>7, <2>1 DEF AskNewest, ReaderState, MetKnows
  <2>2. CASE newest = None
    BY <1>0, <1>4, <1>5, <1>7, <2>2 DEF AskNewest, ReaderState, OldOrNewProduction
  <2>3. QED
    BY <2>1, <2>2
<1>8. ASSUME NEW r \in Readers, LookUp(r) PROVE MetKnows' /\ OldOrNewProduction'
  <2>1. CASE cache[reader[r].ver] # Absent
    BY <1>0, <1>4, <1>5, <1>8, <2>1 DEF LookUp, ReaderState, OldOrNewProduction
  <2>2. CASE cache[reader[r].ver] = Absent
    BY <1>0, <1>4, <1>5, <1>8, <2>2 DEF LookUp, ReaderState, OldOrNewProduction
  <2>3. QED
    BY <2>1, <2>2
<1>9. ASSUME NEW r \in Readers, NEW t \in Targets, Load(r, t)
      PROVE  MetKnows' /\ OldOrNewProduction'
  <2>1. CASE file[reader[r].ver][t] = Torn
    BY <1>0, <1>4, <1>5, <1>9, <2>1 DEF Load, ReaderState, OldOrNewProduction
  <2>2. CASE file[reader[r].ver][t] # Torn
    BY <1>0, <1>4, <1>5, <1>9, <2>2 DEF Load, ReaderState, OldOrNewProduction
  <2>3. QED
    BY <2>1, <2>2
<1>10. ASSUME NEW r \in Readers, Store(r) PROVE MetKnows' /\ OldOrNewProduction'
  BY <1>0, <1>4, <1>5, <1>10 DEF Store, ReaderState, OldOrNewProduction
<1>11. ASSUME NEW r \in Readers, Answer(r) PROVE MetKnows' /\ OldOrNewProduction'
  <2>1. met'[r] = {} /\ \A q \in Readers \ {r} : reader'[q] = reader[q] /\ met'[q] = met[q]
    BY <1>0, <1>11 DEF Answer, TypeOK
  <2>2. QED
    BY <1>0, <1>11, <2>1 DEF Answer, MetKnows, OldOrNewProduction
<1>12. CASE NextHorizon
  <2>1. Cycle \in Readers
    BY DEF Readers
  <2>2. QED
    BY <1>0, <1>4, <1>5, <1>12, <2>1 DEF NextHorizon, ReaderState, OldOrNewProduction
<1>13. CASE UNCHANGED vars
  BY <1>0, <1>13 DEF vars, MetKnows, OldOrNewProduction
<1>14. QED
  BY <1>1, <1>2, <1>3, <1>6, <1>7, <1>8, <1>9, <1>10, <1>11, <1>12, <1>13
     DEF Next, Predict, Targets

-----------------------------------------------------------------------------
(* Calibrators.                                                            *)

\* A review forgets no version it has overtaken, and writes into the files of
\* another only while no thread has read one of them.
LEMMA ReviewWrites ==
    ASSUME TypeOK, Review
    PROVE  /\ overtaken \subseteq overtaken'
           /\ \A w \in Version \ overtaken' : file'[w] = file[w] \/ ~Shown(w)
<1> USE DEF registry, job, history
<1>1. CASE OpenCalibrator \/ DumpCalibrator
  <2>1. overtaken' = Overtakes(ver)
    BY <1>1 DEF OpenCalibrator, DumpCalibrator
  <2>2. \A w \in Version : w # ver => file'[w] = file[w]
    BY <1>1 DEF OpenCalibrator, DumpCalibrator, TypeOK
  <2> QED
    BY <2>1, <2>2 DEF Overtakes
<1>3. CASE ~(OpenCalibrator \/ DumpCalibrator)
  BY <1>3 DEF Review, BeginRecalibration, BeginTraining, BeginPromotion, SkipCalibrator,
     FitRaises, RecalibrationEnds, FitEnds, TrainSkipped, RegisterModel, GateFails, GatePasses,
     DemoteCurrentProduction, PromoteModelVersion
<1>4. QED
  BY <1>1, <1>3

LEMMA NextLoads ==
    ASSUME ServingInv, [Next]_vars
    PROVE  LoadsKnow' /\ CacheMatchesDisk'
<1> USE DEF registry, job, history
<1>0. JobKnows /\ ReadersKnow /\ LoadsKnow /\ CacheMatchesDisk /\ TypeOK
  BY DEF ServingInv
<1>1. ASSUME NEW r \in Readers
      PROVE  reader[r] \in ReaderState /\ reader[r].ver \in Version \cup {None}
  <2>1. reader[r] \in ReaderState
    BY <1>0 DEF TypeOK
  <2>2. reader[r].ver \in 0..registered /\ registered \in 0..MaxVersion
    BY <1>0, <2>1 DEF TypeOK, ReaderState
  <2>3. QED
    BY <2>1, <2>2, ServingConstants DEF Version, None
<1>2. CASE Start
  BY <1>0, <1>2 DEF Start, LoadsKnow, CacheMatchesDisk, Whole
<1>3. CASE Stop
  BY <1>0, <1>3 DEF Stop, LoadsKnow, CacheMatchesDisk, Quiet, Whole
<1>4. CASE Review
  <2>1. UNCHANGED <<cache, reader>>
    BY <1>4, ReviewLeavesReaders
  <2>2. /\ overtaken \subseteq overtaken'
        /\ \A w \in Version \ overtaken' : file'[w] = file[w] \/ ~Shown(w)
    BY <1>0, <1>4, ReviewWrites
  <2>3. LoadsKnow'
    BY <1>0, <1>1, <2>1, <2>2 DEF LoadsKnow, Whole, Shown
  <2>4. CacheMatchesDisk'
    BY <1>0, <2>1, <2>2 DEF CacheMatchesDisk, Shown
  <2>5. QED
    BY <2>3, <2>4
<1>5. ASSUME NEW r \in Readers, NEW state, reader' = [reader EXCEPT ![r] = state],
             UNCHANGED <<file, overtaken>>,
             (state.ver # None /\ state.ver \notin overtaken /\ Whole(state.ver)) =>
                 /\ state.pc = "v" => state.band["u"] = file[state.ver]["u"]
                 /\ state.pc = "store" => state.band = file[state.ver]
      PROVE  LoadsKnow'
  <2>1. reader'[r] = state /\ \A q \in Readers \ {r} : reader'[q] = reader[q]
    BY <1>0, <1>5 DEF TypeOK
  <2>2. QED
    BY <1>0, <1>5, <2>1 DEF LoadsKnow, Whole
<1>6. ASSUME UNCHANGED <<file, overtaken, cache>> PROVE CacheMatchesDisk'
  BY <1>0, <1>6 DEF CacheMatchesDisk
<1>7. ASSUME NEW r \in Readers, Begin(r) \/ Answer(r) PROVE LoadsKnow' /\ CacheMatchesDisk'
  <2>1. UNCHANGED <<file, overtaken, cache>>
    BY <1>7 DEF Begin, Answer
  <2>2. CASE Begin(r)
    BY <1>1, <1>5, <1>6, <2>1, <2>2 DEF Begin, ReaderState
  <2>3. CASE Answer(r)
    BY <1>5, <1>6, <2>1, <2>3 DEF Answer, Quiet
  <2>4. QED
    BY <1>7, <2>2, <2>3
<1>8. ASSUME NEW r \in Readers, AskProduction(r) \/ AskNewest(r) \/ LookUp(r)
      PROVE  LoadsKnow' /\ CacheMatchesDisk'
  <2>1. UNCHANGED <<file, overtaken, cache>>
    BY <1>8 DEF AskProduction, AskNewest, LookUp, ReaderGoes
  <2>2. reader'[r].pc \notin {"v", "store"}
    <3>1. ASSUME NEW state, ReaderGoes(r, state) PROVE reader'[r] = state
      BY <1>0, <3>1 DEF ReaderGoes, TypeOK
    <3>2. CASE AskProduction(r)
      BY <1>1, <3>1, <3>2 DEF AskProduction, ReaderState
    <3>3. CASE AskNewest(r)
      BY <1>1, <3>1, <3>3 DEF AskNewest, ReaderState
    <3>4. ASSUME LookUp(r), cache[reader[r].ver] # Absent PROVE reader'[r].pc = "done"
      BY <1>1, <3>1, <3>4 DEF LookUp, ReaderState
    <3>5. ASSUME LookUp(r), cache[reader[r].ver] = Absent PROVE reader'[r].pc = "u"
      BY <1>1, <3>1, <3>5 DEF LookUp, ReaderState
    <3>6. QED
      BY <1>8, <3>2, <3>3, <3>4, <3>5
  <2>3. \A q \in Readers \ {r} : reader'[q] = reader[q]
    BY <1>0, <1>8 DEF AskProduction, AskNewest, LookUp, ReaderGoes, TypeOK
  <2>4. LoadsKnow'
    BY <1>0, <2>1, <2>2, <2>3 DEF LoadsKnow, Whole
  <2>5. QED
    BY <1>6, <2>1, <2>4
<1>9. ASSUME NEW r \in Readers, NEW t \in Targets, Load(r, t)
       PROVE  LoadsKnow' /\ CacheMatchesDisk'
  <2> DEFINE w == reader[r].ver
  <2>1. w \in Version /\ reader[r].pc = t /\ reader[r].band \in Band
    BY <1>0, <1>1, <1>9 DEF Load, ReadersKnow, ReaderState, Targets
  <2>2. UNCHANGED <<file, overtaken, cache>>
    BY <1>9 DEF Load, ReaderGoes
  <2>3. CASE file[w][t] = Torn
    <3>1. reader' = [reader EXCEPT ![r] = [reader[r] EXCEPT !.pc = "store"]]
      BY <1>9, <2>3 DEF Load, ReaderGoes
    <3>2. ~Whole(w)
      BY <2>3 DEF Whole
    <3>3. [reader[r] EXCEPT !.pc = "store"].ver = w
      BY <1>1 DEF ReaderState
    <3>4. QED
      BY <1>5, <1>6, <2>2, <3>1, <3>2, <3>3
  <2>4. CASE file[w][t] # Torn
    <3> DEFINE state == [reader[r] EXCEPT !.pc = IF t = "u" THEN "v" ELSE "store",
                                          !.band = [@ EXCEPT ![t] = file[w][t]]]
    <3>1. reader' = [reader EXCEPT ![r] = state]
      BY <1>9, <2>4 DEF Load, ReaderGoes
    <3>2. /\ state.ver = w /\ state.band = [reader[r].band EXCEPT ![t] = file[w][t]]
          /\ state.pc = IF t = "u" THEN "v" ELSE "store"
      BY <1>1 DEF ReaderState
    <3> HIDE DEF state
    <3>3. state.pc = "v" => state.band["u"] = file[w]["u"]
      BY <2>1, <3>2 DEF Band, Targets
    <3>4. ASSUME w \notin overtaken, Whole(w), state.pc = "store" PROVE state.band = file[w]
      <4>1. t = "v" /\ reader[r].band["u"] = file[w]["u"]
        BY <1>0, <1>1, <2>1, <3>2, <3>4 DEF LoadsKnow, Targets, Version, None
      <4>2. state.band["u"] = file[w]["u"] /\ state.band["v"] = file[w]["v"]
        BY <2>1, <3>2, <4>1 DEF Band, Targets
      <4>3. state.band = [s \in Targets |-> state.band[s]]
        BY <2>1, <3>2 DEF Band
      <4>4. file[w] = [s \in Targets |-> file[w][s]]
        BY <1>0, <2>1 DEF TypeOK
      <4>5. QED
        BY <4>2, <4>3, <4>4 DEF Targets
    <3>5. LoadsKnow'
      BY <1>5, <2>2, <3>1, <3>2, <3>3, <3>4
    <3>6. QED
      BY <1>6, <2>2, <3>5
  <2>5. QED
    BY <2>3, <2>4
<1>10. ASSUME NEW r \in Readers, Store(r) PROVE LoadsKnow' /\ CacheMatchesDisk'
  <2> DEFINE w == reader[r].ver
  <2>1. w \in Version /\ w # None
    BY <1>0, <1>1, <1>10 DEF Store, ReadersKnow
  <2>2. UNCHANGED <<file, overtaken>> /\ cache' = [cache EXCEPT ![w] = reader[r].band]
    BY <1>10 DEF Store, ReaderGoes
  <2>3. LoadsKnow'
    BY <1>1, <1>5, <1>10, <2>2 DEF Store, ReaderGoes, ReaderState
  <2>4. (w \notin overtaken /\ Whole(w)) => reader[r].band = file[w]
    BY <1>0, <1>10, <2>1 DEF Store, LoadsKnow
  <2>5. CacheMatchesDisk'
    BY <1>0, <2>1, <2>2, <2>4 DEF TypeOK, CacheMatchesDisk, Whole
  <2>6. QED
    BY <2>3, <2>5
<1>11. CASE NextHorizon
  <2>1. Cycle \in Readers
    BY DEF Readers
  <2>2. UNCHANGED <<file, overtaken, cache>>
    BY <1>11 DEF NextHorizon, ReaderGoes
  <2>3. reader'[Cycle].pc \in {"ask", "model"}
    BY <1>0, <1>1, <1>11, <2>1 DEF NextHorizon, ReaderGoes, ReaderState, TypeOK
  <2>4. \A q \in Readers \ {Cycle} : reader'[q] = reader[q]
    BY <1>0, <1>11 DEF NextHorizon, ReaderGoes, TypeOK
  <2>5. LoadsKnow'
    BY <1>0, <2>2, <2>3, <2>4 DEF LoadsKnow, Whole
  <2>6. QED
    BY <1>6, <2>2, <2>5
<1>12. CASE UNCHANGED vars
  BY <1>0, <1>12 DEF vars, LoadsKnow, CacheMatchesDisk, Whole
<1>13. QED
  BY <1>2, <1>3, <1>4, <1>7, <1>8, <1>9, <1>10, <1>11, <1>12 DEF Next, Predict, Targets

-----------------------------------------------------------------------------
(* The theorems.                                                           *)

\* The invariant holds in every state, for any number of requests, versions
\* and fits, and wherever the process stops.
THEOREM ServingInvariant == Spec => []ServingInv
<1>1. Init => ServingInv
  BY InitServingInv
<1>2. ServingInv /\ [Next]_vars => ServingInv'
  BY NextTypeOK, NextJobKnows, NextReadersKnow, NextMetKnows, NextLoads DEF ServingInv
<1>3. QED
  BY <1>1, <1>2, PTL DEF Spec

\* predict_at(), the review and the CLI's promotions keep the type of the
\* registry's rows, the calibrator files and _CALIB_CACHE.
THEOREM ServingTypeCorrect == Spec => []TypeOK
<1>1. ServingInv => TypeOK
  BY DEF ServingInv
<1>2. QED
  BY <1>1, ServingInvariant, PTL

\* Demoting and promoting are two statements with no flagged row in between;
\* a prediction that asks then falls back to the newest row and still uses
\* the version that was in production or the one that is about to be.
THEOREM ProductionChangeInvisible == Spec => []OldOrNewProduction
<1>1. ServingInv => OldOrNewProduction
  BY DEF ServingInv
<1>2. QED
  BY <1>1, ServingInvariant, PTL

\* Threads fill _CALIB_CACHE without a lock, file after file; what they put
\* there is what is on disk, also for a candidate fitted and promoted by the same
\* process: unless the version is fitted once more after one of them has read a
\* file of it, or a file was cut short.
THEOREM CacheIsHonest == Spec => []CacheMatchesDisk
<1>1. ServingInv => CacheMatchesDisk
  BY DEF ServingInv
<1>2. QED
  BY <1>1, ServingInvariant, PTL

-----------------------------------------------------------------------------
(* Sailing: the order of the rows has a first best, and the calibrated       *)
(* probability is even exactly from the median up.                           *)

LEMMA QuotientType ==
    ASSUME NEW r \in Deciding!RowType
    PROVE  /\ Deciding!Quotient(r)[1] \in Int
           /\ Deciding!Quotient(r)[2] \in Nat \ {0}
BY DEF Deciding!RowType, Deciding!Quotient, Deciding!Certain

LEMMA EvenFromTheMedian ==
    ASSUME NEW r \in Deciding!RowType
    PROVE  Deciding!AtLeastEven(r) <=> r.above >= 0
BY DEF Deciding!AtLeastEven, Deciding!RowType, Deciding!Quotient, Deciding!Certain

\* Of quotients with positive denominators, the larger ones are a weak order.
LEMMA ProductsOrder ==
    ASSUME NEW a \in Int, NEW b \in Int, NEW c \in Int,
           NEW x \in Nat \ {0}, NEW y \in Nat \ {0}, NEW z \in Nat \ {0},
           a * z <= c * x, c * y <= b * z
    PROVE  a * y <= b * x
<1>1. ASSUME NEW m \in Int, NEW n \in Int, NEW k \in Nat, m <= n PROVE m * k <= n * k
  BY <1>1
<1>2. (a * z) * y <= (c * x) * y
  <2>1. a * z \in Int /\ c * x \in Int /\ y \in Nat
    OBVIOUS
  <2> QED
    BY <1>1, <2>1
<1>3. (c * y) * x <= (b * z) * x
  <2>1. c * y \in Int /\ b * z \in Int /\ x \in Nat
    OBVIOUS
  <2> QED
    BY <1>1, <2>1
<1>4. (c * x) * y = (c * y) * x
  OBVIOUS
<1>5. (a * z) * y = (a * y) * z /\ (b * z) * x = (b * x) * z
  OBVIOUS
<1>6. (a * y) * z <= (b * x) * z
  <2>1. /\ (a * z) * y \in Int /\ (c * x) * y \in Int /\ (b * z) * x \in Int
        /\ (c * y) * x \in Int
    OBVIOUS
  <2> QED
    BY <1>2, <1>3, <1>4, <1>5, <2>1
<1>7. ASSUME NEW m \in Int, NEW n \in Int, n < m PROVE n * z < m * z
  BY <1>7
<1>8. a * y \in Int /\ b * x \in Int /\ (a * y) * z \in Int /\ (b * x) * z \in Int
  OBVIOUS
<1> QED
  BY <1>6, <1>7, <1>8

LEMMA MoreProbableOrder ==
    ASSUME NEW r \in Deciding!RowType, NEW s \in Deciding!RowType, NEW t \in Deciding!RowType
    PROVE  LET p == Deciding!Quotient(r)
               q == Deciding!Quotient(s)
               u == Deciding!Quotient(t)
           IN  /\ Deciding!MoreProbable(p, q) => ~Deciding!MoreProbable(q, p)
               /\ Deciding!MoreProbable(p, q) =>
                      Deciding!MoreProbable(p, u) \/ Deciding!MoreProbable(u, q)
<1> DEFINE p == Deciding!Quotient(r)
           q == Deciding!Quotient(s)
           u == Deciding!Quotient(t)
<1>1. /\ p[1] \in Int /\ p[2] \in Nat \ {0} /\ q[1] \in Int /\ q[2] \in Nat \ {0}
      /\ u[1] \in Int /\ u[2] \in Nat \ {0}
  BY QuotientType
<1> HIDE DEF p, q, u
<1>2. /\ p[1] * q[2] \in Int /\ q[1] * p[2] \in Int /\ p[1] * u[2] \in Int
      /\ u[1] * p[2] \in Int /\ u[1] * q[2] \in Int /\ q[1] * u[2] \in Int
  BY <1>1
<1>3. p[1] * u[2] <= u[1] * p[2] /\ u[1] * q[2] <= q[1] * u[2] => p[1] * q[2] <= q[1] * p[2]
  BY <1>1, ProductsOrder
<1>4. /\ Deciding!MoreProbable(p, q) => ~Deciding!MoreProbable(q, p)
      /\ Deciding!MoreProbable(p, q) =>
             Deciding!MoreProbable(p, u) \/ Deciding!MoreProbable(u, q)
  BY <1>2, <1>3 DEF Deciding!MoreProbable
<1> QED
  BY <1>4 DEF p, q, u

\* Breaking ties by the median keeps the order.
LEMMA BeatsOrder ==
    ASSUME NEW r \in Deciding!RowType, NEW s \in Deciding!RowType, NEW t \in Deciding!RowType
    PROVE  /\ ~Deciding!Beats(r, r)
           /\ Deciding!Beats(r, s) => Deciding!Beats(r, t) \/ Deciding!Beats(t, s)
           /\ Deciding!Beats(r, s) => ~Deciding!Beats(s, r)
<1> DEFINE M(x, y) == Deciding!MoreProbable(Deciding!Quotient(x), Deciding!Quotient(y))
<1>1. /\ M(r, s) => ~M(s, r) /\ (M(r, t) \/ M(t, s))
      /\ M(s, r) => M(s, t) \/ M(t, r)
      /\ M(r, t) => ~M(t, r) /\ (M(r, s) \/ M(s, t))
      /\ M(t, s) => ~M(s, t) /\ (M(t, r) \/ M(r, s))
      /\ M(t, r) => M(t, s) \/ M(s, r)
      /\ M(s, t) => M(s, r) \/ M(r, t)
      /\ ~M(r, r)
  BY MoreProbableOrder
<1>2. \A x, y : Deciding!Beats(x, y) <=> M(x, y) \/ (~M(y, x) /\ x.above > y.above)
  BY DEF Deciding!Beats
<1>3. r.above \in Int /\ s.above \in Int /\ t.above \in Int
  BY DEF Deciding!RowType
<1> HIDE DEF M
<1> QED
  BY <1>1, <1>2, <1>3

\* max() finds a row: none beats it, and it beats those before it.
LEMMA BestExists ==
    ASSUME NEW n \in Nat \ {0}, NEW rows \in [1..n -> Deciding!RowType]
    PROVE  \E i \in 1..n : \A j \in 1..n :
               /\ ~Deciding!Beats(rows[j], rows[i])
               /\ j < i => Deciding!Beats(rows[i], rows[j])
<1> DEFINE IsBest(m, i) == \A j \in 1..m :
               /\ ~Deciding!Beats(rows[j], rows[i])
               /\ j < i => Deciding!Beats(rows[i], rows[j])
           Without == {m \in 1..n : ~ \E i \in 1..m : IsBest(m, i)}
<1>1. SUFFICES ASSUME n \in Without PROVE FALSE
  BY <1>1
<1>2. PICK m \in Without : \A k \in Without : <<k, m>> \notin OpToRel(<, Nat)
  <2>1. Without \subseteq 1..n
    OBVIOUS
  <2> HIDE DEF Without
  <2>2. Without \subseteq Nat /\ Without # {}
    BY <1>1, <2>1
  <2> QED
    BY <2>2, NatLessThanWellFounded, WFMin
<1>3. m # 1
  <2>1. rows[1] \in Deciding!RowType
    OBVIOUS
  <2>2. ~Deciding!Beats(rows[1], rows[1])
    BY <2>1, BeatsOrder
  <2>3. m = 1 => IsBest(m, 1)
    BY <2>2
  <2> QED
    BY <2>3
<1>4. m - 1 \in 1..n /\ m - 1 \notin Without
  <2>1. m \in 1..n
    OBVIOUS
  <2>2. m - 1 \in 1..n /\ m - 1 < m
    BY <1>3, <2>1
  <2>3. m - 1 \in Without => <<m - 1, m>> \in OpToRel(<, Nat)
    BY <2>1, <2>2 DEF OpToRel
  <2> QED
    BY <1>2, <2>2, <2>3
<1>5. PICK b \in 1..(m - 1) : IsBest(m - 1, b)
  BY <1>4
<1>6. m \in 1..n /\ b \in 1..n
  BY <1>4
<1>7. CASE Deciding!Beats(rows[m], rows[b])
  <2>1. ASSUME NEW j \in 1..m, j # m
        PROVE  ~Deciding!Beats(rows[j], rows[m]) /\ Deciding!Beats(rows[m], rows[j])
    <3>1. j \in 1..(m - 1) /\ j \in 1..n
      BY <1>6, <2>1
    <3>2. ~Deciding!Beats(rows[j], rows[b])
      BY <1>5, <3>1
    <3>3. rows[j] \in Deciding!RowType /\ rows[m] \in Deciding!RowType /\ rows[b] \in Deciding!RowType
      BY <1>6, <3>1
    <3>4. Deciding!Beats(rows[m], rows[j])
      BY <1>7, <3>2, <3>3, BeatsOrder
    <3> QED
      BY <3>3, <3>4, BeatsOrder
  <2>2. ~Deciding!Beats(rows[m], rows[m])
    BY <1>6, BeatsOrder
  <2>3. IsBest(m, m)
    BY <1>6, <2>1, <2>2
  <2> QED
    BY <1>6, <2>3
<1>8. CASE ~Deciding!Beats(rows[m], rows[b])
  <2>1. \A j \in 1..m : j \in 1..(m - 1) \/ (j = m /\ ~(j < b))
    BY <1>6
  <2>2. IsBest(m, b)
    BY <1>5, <1>8, <2>1
  <2>3. b \in 1..m
    BY <1>6
  <2> QED
    BY <2>2, <2>3
<1> QED
  BY <1>7, <1>8

\* What the store holds.
RowsTyped == series \in [Deciding!Spots -> Deciding!Series]

LEMMA RowsOf ==
    ASSUME RowsTyped, NEW s \in Deciding!Spots
    PROVE  \E n \in Nat : /\ series[s] \in [1..n -> Deciding!RowType]
                          /\ DOMAIN series[s] = 1..n
                          /\ series[s] # <<>> => n # 0
<1>1. PICK n \in 0..MaxHours : series[s] \in [1..n -> Rows]
  BY DEF RowsTyped, Deciding!Series
<1>2. n \in Nat
  BY <1>1
<1>3. Rows \subseteq Deciding!RowType
  BY ServedAssumption DEF Deciding!SailingAssumption
<1>4. series[s] \in [1..n -> Deciding!RowType] /\ DOMAIN series[s] = 1..n
  BY <1>1, <1>3
<1>5. ASSUME n = 0 PROVE series[s] = <<>>
  <2>1. series[s] \in Seq(Deciding!RowType) /\ Len(series[s]) = 0
    BY <1>2, <1>4, <1>5
  <2> QED
    BY <2>1, EmptySeq
<1> QED
  BY <1>2, <1>4, <1>5

\* The hours counted are those of which the median reaches the threshold.
LEMMA CountsMedians ==
    ASSUME RowsTyped
    PROVE  Deciding!VerdictOfMedians
<1>1. ASSUME NEW s \in Deciding!Spots
      PROVE  {i \in DOMAIN series[s] : Deciding!AtLeastEven(series[s][i])}
                 = {i \in DOMAIN series[s] : series[s][i].above >= 0}
  <2>1. PICK n \in Nat : series[s] \in [1..n -> Deciding!RowType] /\ DOMAIN series[s] = 1..n
    BY RowsOf
  <2>2. \A i \in DOMAIN series[s] : series[s][i] \in Deciding!RowType
    BY <2>1
  <2> QED
    BY <2>2, EvenFromTheMedian
<1>2. ASSUME NEW s \in Deciding!Spots
      PROVE  Deciding!EvenHours(series[s])
                 = Deciding!Cardinality({i \in DOMAIN series[s] : series[s][i].above >= 0})
  BY <1>1 DEF Deciding!EvenHours
<1> QED
  BY <1>2 DEF Deciding!VerdictOfMedians, Deciding!Verdict

\* The hour a spot is advised for is one of its hours, and none is more probable.
LEMMA PeakIsPeak ==
    ASSUME RowsTyped, NEW s \in Deciding!Spots, series[s] # <<>>
    PROVE  LET rows == series[s]
               b == Deciding!BestRow(rows)
           IN  /\ b \in DOMAIN rows
               /\ \A i \in DOMAIN rows :
                     ~Deciding!MoreProbable(Deciding!Quotient(rows[i]), Deciding!Quotient(rows[b]))
<1> DEFINE rows == series[s]
           b == Deciding!BestRow(rows)
<1>1. PICK n \in Nat \ {0} : rows \in [1..n -> Deciding!RowType] /\ DOMAIN rows = 1..n
  BY RowsOf
<1>2. b \in DOMAIN rows /\ \A i \in DOMAIN rows : ~Deciding!Beats(rows[i], rows[b])
  <2>1. \E k \in DOMAIN rows : \A j \in DOMAIN rows :
            ~Deciding!Beats(rows[j], rows[k]) /\ (j < k => Deciding!Beats(rows[k], rows[j]))
    BY <1>1, BestExists
  <2> HIDE DEF rows
  <2>2. /\ b \in DOMAIN rows
        /\ \A j \in DOMAIN rows :
            ~Deciding!Beats(rows[j], rows[b]) /\ (j < b => Deciding!Beats(rows[b], rows[j]))
    BY <2>1 DEF Deciding!BestRow
  <2> QED
    BY <2>2 DEF rows
<1> QED
  BY <1>2 DEF Deciding!Beats

\* A row that no row exceeds is sailable as soon as one is.
LEMMA EvenPasses ==
    ASSUME NEW r \in Deciding!RowType, NEW b \in Deciding!RowType,
           Deciding!AtLeastEven(r),
           ~Deciding!MoreProbable(Deciding!Quotient(r), Deciding!Quotient(b))
    PROVE  Deciding!AtLeastEven(b)
<1>1. PICK p, q \in Int : p = Deciding!Quotient(r)[1] /\ q = Deciding!Quotient(b)[1]
  BY QuotientType
<1>2. PICK x, y \in Nat \ {0} : x = Deciding!Quotient(r)[2] /\ y = Deciding!Quotient(b)[2]
  BY QuotientType
<1>3. p >= 0 /\ ~(p * y > q * x)
  BY <1>1, <1>2 DEF Deciding!AtLeastEven, Deciding!MoreProbable
<1>4. ASSUME q < 0 PROVE FALSE
  <2>1. p * y >= 0
    BY <1>3
  <2>2. q * x < 0
    BY <1>4
  <2>3. p * y \in Int /\ q * x \in Int
    OBVIOUS
  <2> QED
    BY <1>3, <2>1, <2>2, <2>3
<1> QED
  BY <1>1, <1>4 DEF Deciding!AtLeastEven

\* There is a sailable hour exactly when the verdict is not that there is none.
LEMMA VerdictCounts ==
    ASSUME RowsTyped, NEW s \in Deciding!Spots
    PROVE  Deciding!Verdict(series[s]) # "no_go"
               <=> \E i \in DOMAIN series[s] : Deciding!AtLeastEven(series[s][i])
<1> DEFINE E == {i \in DOMAIN series[s] : Deciding!AtLeastEven(series[s][i])}
           n == Deciding!EvenHours(series[s])
<1>1. IsFiniteSet(E)
  <2>1. PICK k \in Nat : DOMAIN series[s] = 1..k
    BY RowsOf
  <2>2. IsFiniteSet(1..k)
    BY FS_Interval
  <2> QED
    BY <2>1, <2>2, FS_Subset
<1>2. n = Cardinality(E)
  <2>1. n = Deciding!Cardinality(E)
    BY DEF Deciding!EvenHours
  <2>2. Deciding!Cardinality(E) = Cardinality(E)
    BY Zenon DEF Deciding!Cardinality, Cardinality
  <2> QED
    BY <2>1, <2>2
<1>3. n \in Nat /\ (n = 0 <=> E = {})
  BY <1>1, <1>2, FS_CardinalityType, FS_EmptySet
<1>4. MinGoHours \in Nat \ {0}
  BY ServedAssumption DEF Deciding!SailingAssumption
<1>5. Deciding!Verdict(series[s]) # "no_go" <=> n # 0
  <2> HIDE DEF n
  <2>1. Deciding!Verdict(series[s])
            = IF n >= MinGoHours THEN "go" ELSE IF n >= 1 THEN "marginal" ELSE "no_go"
    BY DEF Deciding!Verdict, n
  <2> QED
    BY <1>3, <1>4, <2>1
<1> QED
  BY <1>3, <1>5

\* The hour a spot is advised for is a sailable one if any is.
LEMMA AdvisedSails == ASSUME RowsTyped PROVE Deciding!AdvisedHourSails
<1>1. SUFFICES ASSUME NEW s \in Deciding!Spots, series[s] # <<>>
               PROVE  LET d == Deciding!Decision(series[s])
                      IN  d.verdict # "no_go" <=> Deciding!AtLeastEven(series[s][d.best])
  BY DEF Deciding!AdvisedHourSails
<1> DEFINE rows == series[s]
           b == Deciding!BestRow(rows)
<1>2. /\ b \in DOMAIN rows
      /\ \A i \in DOMAIN rows :
            ~Deciding!MoreProbable(Deciding!Quotient(rows[i]), Deciding!Quotient(rows[b]))
  BY <1>1, PeakIsPeak
<1>3. \A i \in DOMAIN rows : rows[i] \in Deciding!RowType
  <2>1. PICK n \in Nat : rows \in [1..n -> Deciding!RowType] /\ DOMAIN rows = 1..n
    BY RowsOf
  <2> QED
    BY <2>1
<1>4. (\E i \in DOMAIN rows : Deciding!AtLeastEven(rows[i])) <=> Deciding!AtLeastEven(rows[b])
  <2> HIDE DEF rows, b
  <2> QED
    BY <1>2, <1>3, EvenPasses
<1>5. Deciding!Decision(rows).verdict = Deciding!Verdict(rows) /\ Deciding!Decision(rows).best = b
  BY DEF Deciding!Decision
<1> QED
  BY <1>4, <1>5, VerdictCounts

\* decision.py: for any spots, rows and number of hours, the verdict counts the
\* hours whose median reaches the threshold, and the hour a spot is advised for,
\* chosen by probability, is a sailable one exactly when the verdict is not that
\* there is none.
THEOREM DecisionsAreSound == MCSpec => []DecisionSound
<1> DEFINE I == part = "decisions" => RowsTyped
<1>1. MCInit => I
  BY DEF MCInit, RowsTyped, Deciding!Init
<1>2. I /\ [MCNext]_<<part, vars, deciding, chatting>> => I'
  <2>1. ASSUME I, part = "decisions", Deciding!SailingRecommendation PROVE RowsTyped'
    BY <2>1 DEF RowsTyped, Deciding!SailingRecommendation
  <2>2. ASSUME I, UNCHANGED <<part, deciding>> PROVE I'
    BY <2>2 DEF deciding, RowsTyped, Deciding!Series, Deciding!Spots
  <2> QED
    BY <2>1, <2>2 DEF MCNext, Deciding!Next
<1>3. I => DecisionSound
  BY CountsMedians, AdvisedSails DEF DecisionSound
<1> QED
  BY <1>1, <1>2, <1>3, PTL DEF MCSpec

-----------------------------------------------------------------------------
(* Bot: what the handlers keep of the users' rows and of the alerts.         *)

\* Who was told that all is set has a favourite or had picked a spot that was
\* gone, and the owner of an alert has a row.
ChatInv ==
    /\ points \in Configs
    /\ row \in [Users -> SUBSET Chatting!Row]
    /\ \A u \in Users : row[u] = {} \/ \E r \in Chatting!Row : row[u] = {r}
    /\ \A a \in alerts : a.owner \in Users
    /\ told \subseteq Users /\ gone \subseteq told
    /\ Chatting!OnboardedOnce /\ Chatting!OwnersKnown

LEMMA UserType == ASSUME ChatInv, NEW u \in Users PROVE Chatting!User(u) \in Chatting!Row
<1>1. Chatting!NewRow \in Chatting!Row
  BY ServedAssumption DEF Chatting!NewRow, Chatting!Row, Chatting!BotAssumption
<1>2. CASE row[u] = {}
  BY <1>1, <1>2 DEF Chatting!User
<1>3. ASSUME NEW r \in Chatting!Row, row[u] = {r} PROVE Chatting!User(u) = r
  BY <1>3 DEF Chatting!User
<1> QED
  BY <1>2, <1>3 DEF ChatInv

\* What every handler does, whatever it answers: one row is written, alerts of
\* that user come, and a user told that all is set has a favourite or has
\* picked a spot that is gone.
LEMMA HandlerKeepsChat ==
    ASSUME ChatInv, NEW u \in Users, NEW r \in Chatting!Row,
           row' = [row EXCEPT ![u] = {r}], points' = points,
           \A a \in alerts' : a \in alerts \/ a.owner = u,
           told' = told \/ told' = told \cup {u},
           gone' = gone \/ (gone' = gone \cup {u} /\ told' = told \cup {u}),
           \/ r.favourite # NoPoint
           \/ u \in gone'
           \/ r.favourite = Chatting!User(u).favourite /\ told' = told
    PROVE  ChatInv'
<1>1. /\ row' \in [Users -> SUBSET Chatting!Row] /\ row'[u] = {r}
      /\ \A v \in Users \ {u} : row'[v] = row[v]
  BY DEF ChatInv
<1>2. \A v \in Users : row'[v] = {} \/ \E q \in Chatting!Row : row'[v] = {q}
  BY <1>1 DEF ChatInv
<1>3. \A a \in alerts' : a.owner \in Users
  BY DEF ChatInv
<1>4. told' \subseteq Users /\ gone' \subseteq told'
  BY DEF ChatInv
<1>5. Chatting!OwnersKnown'
  <2>1. ASSUME NEW a \in alerts' PROVE row'[a.owner] # {}
    <3>1. CASE a.owner = u
      BY <1>1, <3>1
    <3>2. CASE a.owner # u
      BY <1>1, <3>2 DEF ChatInv, Chatting!OwnersKnown
    <3> QED
      BY <3>1, <3>2
  <2> QED
    BY <2>1 DEF Chatting!OwnersKnown
<1>6. Chatting!OnboardedOnce'
  <2>1. (Chatting!User(u))' = r
    BY <1>1 DEF Chatting!User
  <2>2. ASSUME NEW v \in Users \ {u} PROVE (Chatting!User(v))' = Chatting!User(v)
    BY <1>1 DEF Chatting!User
  <2>3. ASSUME NEW v \in told' \ gone' PROVE (Chatting!User(v))'.favourite # NoPoint
    <3>1. CASE v = u
      BY <2>1, <2>3, <3>1 DEF ChatInv, Chatting!OnboardedOnce
    <3>2. CASE v # u
      BY <1>4, <2>2, <2>3, <3>2 DEF ChatInv, Chatting!OnboardedOnce
    <3> QED
      BY <3>1, <3>2
  <2> QED
    BY <2>3 DEF Chatting!OnboardedOnce
<1> QED
  BY <1>1, <1>2, <1>3, <1>4, <1>5, <1>6 DEF ChatInv

\* A press or command that only registers the user.
LEMMA AuthorizeKeepsChat ==
    ASSUME ChatInv, NEW u \in Users, Chatting!Authorize(u), points' = points,
           \A a \in alerts' : a \in alerts \/ a.owner = u,
           UNCHANGED <<told, gone>>
    PROVE  ChatInv'
<1>1. Chatting!User(u) \in Chatting!Row
  BY UserType
<1>2. row' = [row EXCEPT ![u] = {Chatting!User(u)}]
  BY DEF Chatting!Authorize
<1> QED
  BY <1>1, <1>2, HandlerKeepsChat

\* One that stores a preference keeps the favourite.
LEMMA PreferenceType ==
    ASSUME ChatInv, NEW u \in Users
    PROVE  /\ \A x \in Languages :
                 /\ [Chatting!User(u) EXCEPT !["language"] = x] \in Chatting!Row
                 /\ [Chatting!User(u) EXCEPT !["language"] = x].favourite
                        = Chatting!User(u).favourite
           /\ \A x \in Units :
                 /\ [Chatting!User(u) EXCEPT !["units"] = x] \in Chatting!Row
                 /\ [Chatting!User(u) EXCEPT !["units"] = x].favourite
                        = Chatting!User(u).favourite
           /\ \A p \in Points :
                 /\ [Chatting!User(u) EXCEPT !["favourite"] = p] \in Chatting!Row
                 /\ [Chatting!User(u) EXCEPT !["favourite"] = p].favourite = p
<1>1. Chatting!User(u) \in Chatting!Row
  BY UserType
<1> QED
  BY <1>1 DEF Chatting!Row

LEMMA PreferKeepsChat ==
    ASSUME ChatInv, NEW u \in Users,
           \/ \E x \in Languages : Chatting!Prefer(u, "language", x)
           \/ \E x \in Units : Chatting!Prefer(u, "units", x),
           UNCHANGED <<points, alerts, told, gone>>
    PROVE  ChatInv'
<1>1. ASSUME NEW r \in Chatting!Row, row' = [row EXCEPT ![u] = {r}],
             r.favourite = Chatting!User(u).favourite
      PROVE  ChatInv'
  BY <1>1, HandlerKeepsChat
<1>2. ASSUME NEW x \in Languages, Chatting!Prefer(u, "language", x) PROVE ChatInv'
  BY <1>1, <1>2, PreferenceType DEF Chatting!Prefer
<1>3. ASSUME NEW x \in Units, Chatting!Prefer(u, "units", x) PROVE ChatInv'
  BY <1>1, <1>3, PreferenceType DEF Chatting!Prefer
<1> QED
  BY <1>2, <1>3

LEMMA FavouriteKeepsChat ==
    ASSUME ChatInv, NEW u \in Users, NEW i, Chatting!PressFavourite(u, i)
    PROVE  ChatInv'
<1>1. points' = points /\ alerts' = alerts /\ told' = told \cup {u}
  BY DEF Chatting!PressFavourite, Chatting!alertRows
<1>2. ASSUME NEW p \in Points, Chatting!Prefer(u, "favourite", p), gone' = gone
      PROVE  ChatInv'
  <2> DEFINE r == [Chatting!User(u) EXCEPT !["favourite"] = p]
  <2>1. r \in Chatting!Row /\ r.favourite = p /\ p # NoPoint
    BY PreferenceType, ServedAssumption DEF Chatting!BotAssumption
  <2>2. row' = [row EXCEPT ![u] = {r}]
    BY <1>2 DEF Chatting!Prefer
  <2> HIDE DEF r
  <2> QED
    BY <1>1, <1>2, <2>1, <2>2, HandlerKeepsChat
<1>3. ASSUME Chatting!Authorize(u), gone' = gone \cup {u} PROVE ChatInv'
  <2>1. row' = [row EXCEPT ![u] = {Chatting!User(u)}] /\ Chatting!User(u) \in Chatting!Row
    BY <1>3, UserType DEF Chatting!Authorize
  <2> QED
    BY <1>1, <1>3, <2>1, HandlerKeepsChat
<1>4. First(points) \in Points
  BY ServedAssumption DEF ChatInv, Chatting!BotAssumption
<1>5. \/ \E p \in Points : Chatting!Prefer(u, "favourite", p) /\ gone' = gone
      \/ Chatting!Authorize(u) /\ gone' = gone \cup {u}
  BY <1>4 DEF Chatting!PressFavourite
<1> QED
  BY <1>2, <1>3, <1>5

\* Whoever creates an alert is its owner.
LEMMA PressesKeepChat ==
    ASSUME ChatInv, NEW u \in Users, Chatting!Pressed(u)
    PROVE  ChatInv'
<1>1. PICK i \in DOMAIN chat[u] :
        \/ Chatting!PressMenu(u, i) \/ Chatting!PressLakes(u, i) \/ Chatting!PressLake(u, i)
        \/ Chatting!PressSpot(u, i) \/ Chatting!PressTime(u, i) \/ Chatting!PressMap(u, i)
        \/ Chatting!PressThreshold(u, i) \/ Chatting!PressPreference(u, i)
        \/ Chatting!PressFavourite(u, i)
  BY DEF Chatting!Pressed
<1>2. CASE \/ Chatting!PressMenu(u, i) \/ Chatting!PressLakes(u, i) \/ Chatting!PressLake(u, i)
           \/ Chatting!PressSpot(u, i) \/ Chatting!PressTime(u, i) \/ Chatting!PressMap(u, i)
  <2>1. Chatting!Authorize(u) /\ UNCHANGED <<points, alerts, told, gone>>
    BY <1>2 DEF Chatting!PressMenu, Chatting!PressLakes, Chatting!PressLake, Chatting!PressSpot,
                Chatting!PressTime, Chatting!PressMap, Chatting!alertRows, Chatting!history
  <2> QED
    BY <2>1, AuthorizeKeepsChat
<1>3. CASE Chatting!PressThreshold(u, i)
  <2>1. /\ Chatting!Authorize(u) /\ UNCHANGED <<points, told, gone>>
        /\ \A a \in alerts' : a \in alerts \/ a.owner = u
    BY <1>3 DEF Chatting!PressThreshold, Chatting!CreateAlert, Chatting!alertRows
  <2> QED
    BY <2>1, AuthorizeKeepsChat
<1>4. CASE Chatting!PressPreference(u, i)
  <2>1. /\ \/ \E x \in Languages : Chatting!Prefer(u, "language", x)
           \/ \E x \in Units : Chatting!Prefer(u, "units", x)
        /\ UNCHANGED <<points, alerts, told, gone>>
    BY <1>4 DEF Chatting!PressPreference, Chatting!alertRows, Chatting!history
  <2> QED
    BY <2>1, PreferKeepsChat
<1> QED
  BY <1>1, <1>2, <1>3, <1>4, FavouriteKeepsChat

LEMMA CommandsKeepChat ==
    ASSUME ChatInv, NEW u \in Users, Chatting!Command(u)
    PROVE  ChatInv'
<1>1. CASE Chatting!Start(u) \/ Chatting!Limited(u) \/ Chatting!Unlimited(u)
  <2>1. Chatting!Authorize(u) /\ UNCHANGED <<points, alerts, told, gone>>
    BY <1>1 DEF Chatting!Start, Chatting!Limited, Chatting!Unlimited, Chatting!alertRows,
                Chatting!history
  <2> QED
    BY <2>1, AuthorizeKeepsChat
<1>2. CASE Chatting!Preference(u)
  <2>1. /\ \/ \E x \in Languages : Chatting!Prefer(u, "language", x)
           \/ \E x \in Units : Chatting!Prefer(u, "units", x)
        /\ UNCHANGED <<points, alerts, told, gone>>
    BY <1>2 DEF Chatting!Preference, Chatting!alertRows, Chatting!history
  <2> QED
    BY <2>1, PreferKeepsChat
<1>3. CASE Chatting!AlertSet(u) \/ Chatting!AlertDel(u)
  <2>1. /\ Chatting!Authorize(u) /\ UNCHANGED <<points, told, gone>>
        /\ \A a \in alerts' : a \in alerts \/ a.owner = u
    BY <1>3 DEF Chatting!AlertSet, Chatting!AlertDel, Chatting!CreateAlert, Chatting!history
  <2> QED
    BY <2>1, AuthorizeKeepsChat
<1> QED
  BY <1>1, <1>2, <1>3 DEF Chatting!Command

LEMMA ChatStep == ASSUME ChatInv, [Chatting!Next]_chatting PROVE ChatInv'
<1>1. CASE Chatting!Tick \/ Chatting!Restart \/ UNCHANGED chatting
  <2>1. points' \in Configs /\ UNCHANGED <<row, alerts, told, gone>>
    BY <1>1 DEF ChatInv, Chatting!Tick, Chatting!Restart, Chatting!alertRows, chatting
  <2> QED
    BY <2>1 DEF ChatInv, Chatting!OnboardedOnce, Chatting!OwnersKnown, Chatting!User
<1> QED
  BY <1>1, PressesKeepChat, CommandsKeepChat DEF Chatting!Next

LEMMA InitChat == ASSUME Chatting!Init PROVE ChatInv
BY DEF Chatting!Init, ChatInv, Chatting!OnboardedOnce, Chatting!OwnersKnown

-----------------------------------------------------------------------------
(* Bot: the hourly limit.                                                    *)

LEMMA SameCount ==
    ASSUME NEW S
    PROVE  Chatting!Cardinality(S) = Cardinality(S)
BY Zenon DEF Chatting!Cardinality, Cardinality

\* What is counted was answered within the hour, and within the limit.
CountInv ==
    /\ recent \in [Users -> SUBSET Chatting!Entry]
    /\ \A u \in Users : IsFiniteSet(recent[u]) /\ Cardinality(recent[u]) <= Limit
    /\ \A u \in Users : \A c, d \in recent[u] : c.nr = d.nr => c = d
    /\ answered \in [Users -> SUBSET Chatting!Entry]
    /\ \A u \in Users : answered[u] = Chatting!Recent(u)

\* An entry that is appended has a number of its own.
LEMMA CountedIs ==
    ASSUME NEW S \in SUBSET Chatting!Entry, IsFiniteSet(S)
    PROVE  \E e \in Chatting!Entry :
              /\ Chatting!Counted(S) = S \cup {e} /\ e.age = 0
              /\ \A c \in S : c.nr # e.nr
<1> DEFINE k == Cardinality(S)
           N == 1..(k + 1)
           free == CHOOSE n \in N : \A c \in S : c.nr # n
           e == [nr |-> free, age |-> 0]
<1>1. k \in Nat
  BY FS_CardinalityType
<1>2. \E n \in N : \A c \in S : c.nr # n
  <2>1. SUFFICES ASSUME \A n \in N : \E c \in S : c.nr = n PROVE FALSE
    OBVIOUS
  <2> DEFINE T == {c \in S : c.nr \in N}
             f == [c \in T |-> c.nr]
  <2>2. IsFiniteSet(T) /\ Cardinality(T) <= k
    <3>1. T \in SUBSET S
      OBVIOUS
    <3> HIDE DEF T
    <3> QED
      BY <3>1, FS_Subset
  <2>3. f \in Surjection(T, N)
    <3>1. f \in [T -> N]
      OBVIOUS
    <3>2. \A n \in N : \E c \in T : f[c] = n
      BY <2>1
    <3> HIDE DEF f, T, N
    <3> QED
      BY <3>1, <3>2 DEF Surjection
  <2>4. Cardinality(N) <= Cardinality(T)
    <3> HIDE DEF f, T, N
    <3> QED
      BY <2>2, <2>3, FS_Surjection
  <2>5. Cardinality(N) = k + 1
    BY <1>1, FS_Interval
  <2>6. Cardinality(T) \in Nat
    BY <2>2, FS_CardinalityType
  <2> HIDE DEF T, N, k
  <2> QED
    BY <1>1, <2>2, <2>4, <2>5, <2>6
<1>3. free \in N /\ \A c \in S : c.nr # free
  BY <1>2
<1>4. Chatting!Counted(S) = S \cup {e}
  BY SameCount DEF Chatting!Counted
<1> HIDE DEF free
<1>5. e \in Chatting!Entry
  <2>1. free \in Nat \ {0} /\ 0 \in 0..Hour
    BY <1>1, <1>3, ServedAssumption DEF ServedAssumption, Chatting!BotAssumption
  <2> QED
    BY <2>1 DEF Chatting!Entry
<1> QED
  BY <1>3, <1>4, <1>5

LEMMA LimitedCounts ==
    ASSUME CountInv, NEW u \in Users, Chatting!Limited(u)
    PROVE  CountInv'
<1> DEFINE R == Chatting!Recent(u)
<1>1. Limit \in Nat \ {0}
  BY ServedAssumption DEF ServedAssumption, Chatting!BotAssumption
<1>2. /\ R \in SUBSET Chatting!Entry /\ R \subseteq recent[u]
      /\ R = answered[u] /\ \A c \in R : c.age < Hour
      /\ R = {c \in recent[u] : c.age < Hour}
  BY DEF CountInv, Chatting!Recent
<1>3. IsFiniteSet(R) /\ Cardinality(R) \in Nat /\ Cardinality(R) <= Limit
  <2>1. IsFiniteSet(recent[u]) /\ Cardinality(recent[u]) <= Limit
    BY DEF CountInv
  <2>2. IsFiniteSet(R) /\ Cardinality(R) <= Cardinality(recent[u])
    BY <1>2, <2>1, FS_Subset
  <2>3. Cardinality(R) \in Nat /\ Cardinality(recent[u]) \in Nat
    BY <2>1, <2>2, FS_CardinalityType
  <2> QED
    BY <1>1, <2>1, <2>2, <2>3
<1> HIDE DEF R
<1>4. ASSUME NEW S \in SUBSET Chatting!Entry, IsFiniteSet(S), Cardinality(S) <= Limit,
             \A c, d \in S : c.nr = d.nr => c = d, \A c \in S : c.age < Hour,
             recent' = [recent EXCEPT ![u] = S], answered' = [answered EXCEPT ![u] = S]
      PROVE  CountInv'
  <2>1. /\ recent' \in [Users -> SUBSET Chatting!Entry] /\ recent'[u] = S
        /\ \A v \in Users : v # u => recent'[v] = recent[v]
    BY <1>4 DEF CountInv
  <2>2. /\ answered' \in [Users -> SUBSET Chatting!Entry] /\ answered'[u] = S
        /\ \A v \in Users : v # u => answered'[v] = answered[v]
    BY <1>4 DEF CountInv
  <2>3. \A v \in Users : IsFiniteSet(recent'[v]) /\ Cardinality(recent'[v]) <= Limit
    BY <1>4, <2>1 DEF CountInv
  <2>4. \A v \in Users : \A c, d \in recent'[v] : c.nr = d.nr => c = d
    BY <1>4, <2>1 DEF CountInv
  <2>5. \A v \in Users : answered'[v] = {c \in recent'[v] : c.age < Hour}
    BY <1>4, <2>1, <2>2 DEF CountInv, Chatting!Recent
  <2> QED
    BY <2>1, <2>2, <2>3, <2>4, <2>5 DEF CountInv, Chatting!Recent
<1>5. \A c, d \in R : c.nr = d.nr => c = d
  BY <1>2 DEF CountInv
<1>6. CASE Cardinality(R) >= Limit
  <2>1. recent' = [recent EXCEPT ![u] = R] /\ answered' = answered
    BY <1>6, SameCount DEF Chatting!Limited, R
  <2>2. answered' = [answered EXCEPT ![u] = R]
    BY <1>2, <2>1 DEF CountInv
  <2> QED
    BY <1>2, <1>3, <1>4, <1>5, <2>1, <2>2
<1>7. CASE ~(Cardinality(R) >= Limit)
  <2>1. PICK e \in Chatting!Entry :
          Chatting!Counted(R) = R \cup {e} /\ e.age = 0 /\ \A c \in R : c.nr # e.nr
    BY <1>2, <1>3, CountedIs
  <2> DEFINE S == R \cup {e}
  <2>2. /\ recent' = [recent EXCEPT ![u] = Chatting!Counted(R)]
        /\ answered' = [answered EXCEPT ![u] = @ \cup (Chatting!Counted(R) \ R)]
    BY <1>7, SameCount DEF Chatting!Limited, R
  <2>3. recent' = [recent EXCEPT ![u] = S]
    BY <2>1, <2>2
  <2>4. answered' = [answered EXCEPT ![u] = S]
    <3>1. answered[u] \cup (Chatting!Counted(R) \ R) = S
      BY <1>2, <2>1
    <3> HIDE DEF S
    <3> QED
      BY <2>2, <3>1
  <2>5. IsFiniteSet(S) /\ Cardinality(S) <= Limit
    <3>1. IsFiniteSet(S) /\ Cardinality(S) = IF e \in R THEN Cardinality(R) ELSE Cardinality(R) + 1
      BY <1>3, FS_AddElement
    <3> HIDE DEF S
    <3> QED
      BY <1>1, <1>3, <1>7, <3>1
  <2>6. /\ S \in SUBSET Chatting!Entry
        /\ \A c, d \in S : c.nr = d.nr => c = d
        /\ \A c \in S : c.age < Hour
    <3>1. 0 < Hour
      BY ServedAssumption DEF ServedAssumption, Chatting!BotAssumption
    <3> QED
      BY <1>2, <1>5, <2>1, <3>1
  <2> HIDE DEF S
  <2> QED
    BY <1>4, <2>3, <2>4, <2>5, <2>6
<1> QED
  BY <1>6, <1>7

LEMMA OlderIs ==
    ASSUME NEW c \in Chatting!Entry
    PROVE  /\ Chatting!Older(c) \in Chatting!Entry /\ Chatting!Older(c).nr = c.nr
           /\ c.age \in 0..Hour
           /\ Chatting!Older(c).age = IF c.age < Hour THEN c.age + 1 ELSE Hour
<1>1. Hour \in Nat \ {0}
  BY ServedAssumption DEF ServedAssumption, Chatting!BotAssumption
<1>2. c.nr \in Nat \ {0} /\ c.age \in 0..Hour /\ c = [nr |-> c.nr, age |-> c.age]
  BY DEF Chatting!Entry
<1>3. Chatting!Older(c) = [nr |-> c.nr, age |-> IF c.age < Hour THEN c.age + 1 ELSE Hour]
  BY <1>2 DEF Chatting!Older
<1>4. (IF c.age < Hour THEN c.age + 1 ELSE Hour) \in 0..Hour
  BY <1>1, <1>2
<1> QED
  BY <1>2, <1>3, <1>4 DEF Chatting!Entry

LEMMA TickCounts ==
    ASSUME CountInv, Chatting!Tick
    PROVE  CountInv'
<1> DEFINE A(u) == {Chatting!Older(c) : c \in recent[u]}
           B(u) == {Chatting!Older(c) : c \in {d \in answered[u] : d.age + 1 < Hour}}
<1>1. recent' = [u \in Users |-> A(u)] /\ answered' = [u \in Users |-> B(u)]
  BY DEF Chatting!Tick
<1>2. Hour \in Nat \ {0} /\ Limit \in Nat \ {0}
  BY ServedAssumption DEF ServedAssumption, Chatting!BotAssumption
<1>3. \A u \in Users : recent[u] \subseteq Chatting!Entry /\ answered[u] \subseteq Chatting!Entry
  BY DEF CountInv
<1>4. \A u \in Users : A(u) \in SUBSET Chatting!Entry /\ B(u) \in SUBSET Chatting!Entry
  BY <1>3, OlderIs
<1>5. ASSUME NEW u \in Users PROVE IsFiniteSet(A(u)) /\ Cardinality(A(u)) <= Limit
  <2> DEFINE f == [c \in recent[u] |-> Chatting!Older(c)]
  <2>1. IsFiniteSet(recent[u]) /\ Cardinality(recent[u]) <= Limit
    BY DEF CountInv
  <2>2. f \in Surjection(recent[u], A(u))
    <3>1. f \in [recent[u] -> A(u)]
      OBVIOUS
    <3>2. \A t \in A(u) : \E s \in recent[u] : f[s] = t
      OBVIOUS
    <3> HIDE DEF f, A
    <3> QED
      BY <3>1, <3>2 DEF Surjection
  <2> HIDE DEF f, A
  <2>3. IsFiniteSet(A(u)) /\ Cardinality(A(u)) <= Cardinality(recent[u])
    BY <2>1, <2>2, FS_Surjection
  <2>4. Cardinality(A(u)) \in Nat /\ Cardinality(recent[u]) \in Nat
    BY <2>1, <2>3, FS_CardinalityType
  <2> QED
    BY <1>2, <2>1, <2>3, <2>4
<1>6. ASSUME NEW u \in Users, NEW c \in A(u), NEW d \in A(u), c.nr = d.nr PROVE c = d
  <2>1. PICK a \in recent[u] : c = Chatting!Older(a)
    OBVIOUS
  <2>2. PICK b \in recent[u] : d = Chatting!Older(b)
    OBVIOUS
  <2>3. a.nr = b.nr
    BY <1>3, <1>6, <2>1, <2>2, OlderIs
  <2>4. a = b
    BY <2>3 DEF CountInv
  <2> QED
    BY <2>1, <2>2, <2>4
<1>7. ASSUME NEW u \in Users PROVE B(u) = {c \in A(u) : c.age < Hour}
  <2>1. answered[u] = {c \in recent[u] : c.age < Hour}
    BY DEF CountInv, Chatting!Recent
  <2>2. \A c \in recent[u] :
          Chatting!Older(c).age < Hour <=> c.age < Hour /\ c.age + 1 < Hour
    <3> SUFFICES ASSUME NEW c \in recent[u]
                 PROVE  Chatting!Older(c).age < Hour <=> c.age < Hour /\ c.age + 1 < Hour
      OBVIOUS
    <3>1. c.age \in 0..Hour /\ Chatting!Older(c).age = IF c.age < Hour THEN c.age + 1 ELSE Hour
      BY <1>3, OlderIs
    <3> QED
      BY <1>2, <3>1
  <2> QED
    BY <2>1, <2>2
<1> HIDE DEF A, B
<1>8. /\ recent' \in [Users -> SUBSET Chatting!Entry]
      /\ answered' \in [Users -> SUBSET Chatting!Entry]
      /\ \A u \in Users : recent'[u] = A(u) /\ answered'[u] = B(u)
  BY <1>1, <1>4
<1> QED
  BY <1>5, <1>6, <1>7, <1>8 DEF CountInv, Chatting!Recent

LEMMA InitCounts == ASSUME Chatting!Init PROVE CountInv
<1>1. Limit \in Nat \ {0} /\ IsFiniteSet({}) /\ Cardinality({}) = 0
  BY ServedAssumption, FS_EmptySet DEF ServedAssumption, Chatting!BotAssumption
<1> QED
  BY <1>1 DEF Chatting!Init, CountInv, Chatting!Recent

LEMMA RestartCounts == ASSUME Chatting!Restart PROVE CountInv'
<1>1. Limit \in Nat \ {0} /\ IsFiniteSet({}) /\ Cardinality({}) = 0
  BY ServedAssumption, FS_EmptySet DEF ServedAssumption, Chatting!BotAssumption
<1>2. recent' = [u \in Users |-> {}] /\ answered' = [u \in Users |-> {}]
  BY DEF Chatting!Restart
<1> QED
  BY <1>1, <1>2 DEF CountInv, Chatting!Recent

-----------------------------------------------------------------------------
(* Bot: the keyboards.                                                       *)

\* No button has the three parts the handler of thresholds wants.
Intact(kb) == \A b \in kb : ~(Len(b) = 3 /\ b[1] = "al" /\ b[2] = "set")

KeysInv ==
    /\ chat = [u \in Users |-> chat[u]]
    /\ \A u \in Users :
          /\ \E S : chat[u] \in Seq(S) /\ \A kb \in S : Intact(kb)
          /\ Len(chat[u]) <= MaxMessages[u]

LEMMA MenusIntact ==
    /\ Intact({}) /\ Intact({Chatting!Back}) /\ Intact(Chatting!MapLakeKb)
    /\ Intact(Chatting!LanguageKb) /\ Intact(Chatting!UnitsKb) /\ Intact(Chatting!LegacyKb)
    /\ \A u : Intact(Chatting!MainMenuKb(u)) /\ Intact(Chatting!AlertKb(u))
<1>1. Intact({}) /\ Intact({Chatting!Back})
  BY DEF Intact, Chatting!Back
<1>2. Intact(Chatting!MapLakeKb)
  BY DEF Intact, Chatting!Back, Chatting!MapLakeKb
<1>3. Intact(Chatting!LanguageKb) /\ Intact(Chatting!UnitsKb)
  BY DEF Intact, Chatting!LanguageKb, Chatting!UnitsKb
<1>4. Intact(Chatting!LegacyKb)
  BY DEF Intact, Chatting!LegacyKb
<1>5. \A u : Intact(Chatting!MainMenuKb(u))
  BY DEF Intact, Chatting!MainMenuKb
<1>6. \A u : Intact(Chatting!AlertKb(u))
  BY DEF Intact, Chatting!Back, Chatting!AlertKb
<1> QED
  BY <1>1, <1>2, <1>3, <1>4, <1>5, <1>6

LEMMA ChoicesIntact ==
    /\ \A a : Intact(Chatting!LakeKb(a))
    /\ \A a, l : Intact(Chatting!SpotKb(a, l))
    /\ \A p : /\ Intact(Chatting!TimeKb(p)) /\ Intact(Chatting!WindKb(p))
              /\ Intact(Chatting!ThresholdKb(p))
    /\ \A l : Intact(Chatting!MapTimeKb(l))
<1>1. \A a : Intact(Chatting!LakeKb(a))
  BY DEF Intact, Chatting!Back, Chatting!LakeKb
<1>2. \A a, l : Intact(Chatting!SpotKb(a, l))
  BY DEF Intact, Chatting!Back, Chatting!SpotKb
<1>3. \A p : Intact(Chatting!TimeKb(p))
  BY DEF Intact, Chatting!Back, Chatting!TimeKb
<1>4. \A p : Intact(Chatting!WindKb(p))
  BY DEF Intact, Chatting!Back, Chatting!WindKb
<1>5. \A p : Intact(Chatting!ThresholdKb(p))
  BY DEF Intact, Chatting!Back, Chatting!ThresholdKb
<1>6. \A l : Intact(Chatting!MapTimeKb(l))
  BY DEF Intact, Chatting!Back, Chatting!MapTimeKb
<1> QED
  BY <1>1, <1>2, <1>3, <1>4, <1>5, <1>6

\* A message more, or another keyboard below one of them.
LEMMA RepliesFit ==
    ASSUME NEW S, NEW q \in Seq(S), NEW kb, NEW m \in Nat, Len(q) <= m
    PROVE  LET all == Append(q, kb)
               r == IF Len(all) > m THEN Tail(all) ELSE all
           IN  r \in Seq(S \cup {kb}) /\ Len(r) <= m
<1> DEFINE T == S \cup {kb}
           all == Append(q, kb)
<1>1. q \in Seq(T) /\ kb \in T
  OBVIOUS
<1> HIDE DEF T
<1>2. all \in Seq(T) /\ Len(all) = Len(q) + 1 /\ Len(q) \in Nat
  BY <1>1
<1> HIDE DEF all
<1>3. CASE Len(all) > m
  <2>1. all # <<>>
    BY <1>2, <1>3
  <2>2. Tail(all) \in Seq(T) /\ Len(Tail(all)) = Len(all) - 1
    BY <1>2, <2>1
  <2> QED
    BY <1>2, <1>3, <2>2 DEF all, T
<1>4. CASE ~(Len(all) > m)
  BY <1>2, <1>4 DEF all, T
<1> QED
  BY <1>3, <1>4

LEMMA EditsFit ==
    ASSUME NEW S, NEW q \in Seq(S), NEW kb, NEW i \in DOMAIN q
    PROVE  [q EXCEPT ![i] = kb] \in Seq(S \cup {kb}) /\ Len([q EXCEPT ![i] = kb]) = Len(q)
<1> DEFINE T == S \cup {kb}
<1>1. q \in Seq(T) /\ kb \in T
  OBVIOUS
<1> HIDE DEF T
<1>2. [q EXCEPT ![i] = kb] \in Seq(T) /\ Len([q EXCEPT ![i] = kb]) = Len(q)
  BY <1>1
<1> QED
  BY <1>2 DEF T

LEMMA AnswerKeepsKeys ==
    ASSUME KeysInv, NEW u \in Users, NEW kb, Intact(kb),
           \/ Chatting!Reply(u, kb)
           \/ \E i \in DOMAIN chat[u] : Chatting!Edit(u, i, kb)
    PROVE  KeysInv'
<1>1. PICK S : chat[u] \in Seq(S) /\ \A k \in S : Intact(k)
  BY DEF KeysInv
<1>2. MaxMessages[u] \in Nat /\ Len(chat[u]) <= MaxMessages[u]
  BY ServedAssumption DEF KeysInv, ServedAssumption, Chatting!BotAssumption
<1> DEFINE T == S \cup {kb}
<1>3. \A k \in T : Intact(k)
  BY <1>1
<1>4. ASSUME NEW r \in Seq(T), Len(r) <= MaxMessages[u], chat' = [chat EXCEPT ![u] = r]
      PROVE  KeysInv'
  <2>1. chat = [v \in Users |-> chat[v]]
    BY DEF KeysInv
  <2>2. /\ chat' = [v \in Users |-> chat'[v]]
        /\ chat'[u] = r /\ \A v \in Users : v # u => chat'[v] = chat[v]
    BY <1>4, <2>1
  <2> HIDE DEF T
  <2> QED
    BY <1>3, <1>4, <2>2 DEF KeysInv
<1>5. CASE Chatting!Reply(u, kb)
  <2> DEFINE r == IF Len(Append(chat[u], kb)) > MaxMessages[u]
                  THEN Tail(Append(chat[u], kb)) ELSE Append(chat[u], kb)
  <2>1. r \in Seq(T) /\ Len(r) <= MaxMessages[u]
    BY <1>1, <1>2, RepliesFit
  <2>2. chat' = [chat EXCEPT ![u] = r]
    BY <1>5 DEF Chatting!Reply
  <2> HIDE DEF r, T
  <2> QED
    BY <1>4, <2>1, <2>2
<1>6. ASSUME NEW i \in DOMAIN chat[u], Chatting!Edit(u, i, kb) PROVE KeysInv'
  <2> DEFINE r == [chat[u] EXCEPT ![i] = kb]
  <2>1. r \in Seq(T) /\ Len(r) <= MaxMessages[u]
    BY <1>1, <1>2, EditsFit
  <2>2. chat' = [chat EXCEPT ![u] = r]
    BY <1>6 DEF Chatting!Edit
  <2> HIDE DEF r, T
  <2> QED
    BY <1>4, <2>1, <2>2
<1> QED
  BY <1>5, <1>6

\* Buttons of stored keyboards are intact.
LEMMA PressedIsIntact ==
    ASSUME KeysInv, NEW u \in Users, NEW i, NEW b, Chatting!Press(u, i, b)
    PROVE  ~(Len(b) = 3 /\ b[1] = "al" /\ b[2] = "set")
<1>1. PICK S : chat[u] \in Seq(S) /\ \A k \in S : Intact(k)
  BY DEF KeysInv
<1>2. i \in DOMAIN chat[u] /\ b \in chat[u][i]
  BY DEF Chatting!Press
<1>3. chat[u][i] \in S
  BY <1>1, <1>2
<1> QED
  BY <1>1, <1>2, <1>3 DEF Intact

\* What a press answers.
LEMMA PressesKeepKeys ==
    ASSUME KeysInv, NEW u \in Users, Chatting!Pressed(u)
    PROVE  KeysInv'
<1>1. PICK i \in DOMAIN chat[u] :
        \/ Chatting!PressMenu(u, i) \/ Chatting!PressLakes(u, i) \/ Chatting!PressLake(u, i)
        \/ Chatting!PressSpot(u, i) \/ Chatting!PressTime(u, i) \/ Chatting!PressMap(u, i)
        \/ Chatting!PressThreshold(u, i) \/ Chatting!PressPreference(u, i)
        \/ Chatting!PressFavourite(u, i)
  BY DEF Chatting!Pressed
<1>2. ASSUME NEW kb, Intact(kb), Chatting!Edit(u, i, kb) PROVE KeysInv'
  BY <1>2, AnswerKeepsKeys
<1>3. CASE Chatting!PressMenu(u, i)
  <2>1. PICK x \in Chatting!MenuItems \cup {"back", "admin"} :
          Chatting!Edit(u, i, Chatting!MenuAnswer(u, x))
    BY <1>3 DEF Chatting!PressMenu
  <2>2. Intact(Chatting!MenuAnswer(u, x))
    BY MenusIntact, ChoicesIntact DEF Chatting!MenuAnswer
  <2> QED
    BY <1>2, <2>1, <2>2
<1>4. CASE Chatting!PressLakes(u, i)
  <2>1. PICK a : Chatting!Edit(u, i, Chatting!LakeKb(a))
    BY <1>4 DEF Chatting!PressLakes
  <2> QED
    BY <1>2, <2>1, ChoicesIntact
<1>5. CASE Chatting!PressLake(u, i)
  <2>1. PICK a, l : \/ Chatting!Edit(u, i, Chatting!LakeKb(a))
                    \/ Chatting!Edit(u, i, Chatting!SpotKb(a, l))
    BY <1>5 DEF Chatting!PressLake
  <2> QED
    BY <1>2, <2>1, ChoicesIntact
<1>6. CASE Chatting!PressSpot(u, i)
  <2>1. PICK p : \/ Chatting!Edit(u, i, Chatting!TimeKb(p))
                 \/ Chatting!Edit(u, i, {Chatting!Back})
                 \/ Chatting!Edit(u, i, Chatting!MainMenuKb(u))
                 \/ Chatting!Edit(u, i, Chatting!ThresholdKb(p))
                 \/ Chatting!Edit(u, i, Chatting!LakeKb("al"))
    BY <1>6 DEF Chatting!PressSpot
  <2> QED
    BY <1>2, <2>1, MenusIntact, ChoicesIntact
<1>7. CASE Chatting!PressTime(u, i)
  <2>1. PICK p : \/ Chatting!Edit(u, i, Chatting!WindKb(p))
                 \/ Chatting!Edit(u, i, Chatting!MainMenuKb(u))
    BY <1>7 DEF Chatting!PressTime
  <2> QED
    BY <1>2, <2>1, MenusIntact, ChoicesIntact
<1>8. CASE Chatting!PressMap(u, i)
  <2>1. PICK l : \/ Chatting!Edit(u, i, Chatting!MapTimeKb(l))
                 \/ Chatting!Edit(u, i, Chatting!MainMenuKb(u))
    BY <1>8 DEF Chatting!PressMap
  <2> QED
    BY <1>2, <2>1, MenusIntact, ChoicesIntact
<1>9. CASE Chatting!PressThreshold(u, i)
  <2>1. UNCHANGED chat \/ Chatting!Edit(u, i, Chatting!MainMenuKb(u))
    BY <1>9 DEF Chatting!PressThreshold
  <2>2. CASE UNCHANGED chat
    BY <2>2 DEF KeysInv
  <2> QED
    BY <1>2, <2>1, <2>2, MenusIntact
<1>10. CASE Chatting!PressPreference(u, i)
  <2>1. \/ Chatting!Edit(u, i, Chatting!UnitsKb)
        \/ Chatting!Edit(u, i, Chatting!LakeKb("fav"))
    BY <1>10 DEF Chatting!PressPreference
  <2> QED
    BY <1>2, <2>1, MenusIntact, ChoicesIntact
<1>11. CASE Chatting!PressFavourite(u, i)
  <2>1. Chatting!Edit(u, i, Chatting!MainMenuKb(u))
    BY <1>11 DEF Chatting!PressFavourite
  <2> QED
    BY <1>2, <2>1, MenusIntact
<1> QED
  BY <1>1, <1>3, <1>4, <1>5, <1>6, <1>7, <1>8, <1>9, <1>10, <1>11

\* What a command answers.
LEMMA CommandsKeepKeys ==
    ASSUME KeysInv, NEW u \in Users, Chatting!Command(u)
    PROVE  KeysInv'
<1>1. ASSUME NEW kb, Intact(kb), Chatting!Reply(u, kb) PROVE KeysInv'
  BY <1>1, AnswerKeepsKeys
<1>2. ASSUME NEW a, Chatting!About(u, a) PROVE KeysInv'
  <2>1. Chatting!Reply(u, {}) \/ Chatting!Reply(u, Chatting!LakeKb(a))
    BY <1>2 DEF Chatting!About
  <2> QED
    BY <1>1, <2>1, MenusIntact, ChoicesIntact
<1>3. \/ Chatting!Reply(u, {}) \/ Chatting!Reply(u, Chatting!LanguageKb)
      \/ Chatting!Reply(u, Chatting!MainMenuKb(u)) \/ Chatting!Reply(u, Chatting!MapLakeKb)
      \/ \E a : Chatting!About(u, a)
  BY DEF Chatting!Command, Chatting!Start, Chatting!Limited, Chatting!Unlimited,
         Chatting!Preference, Chatting!AlertSet, Chatting!AlertDel
<1> QED
  BY <1>1, <1>2, <1>3, MenusIntact

LEMMA InitKeys == ASSUME Chatting!Init PROVE KeysInv
<1> DEFINE kb == Chatting!LegacyKb
           S == {kb}
<1>1. PICK old \in {<<>>, <<kb>>} :
        chat = [u \in Users |-> IF MaxMessages[u] = 0 THEN <<>> ELSE old]
  BY DEF Chatting!Init
<1>2. \A k \in S : Intact(k)
  BY MenusIntact
<1> HIDE DEF kb
<1>3. <<>> \in Seq(S) /\ Len(<<>>) = 0
  OBVIOUS
<1>4. <<kb>> \in Seq(S) /\ Len(<<kb>>) = 1
  OBVIOUS
<1> HIDE DEF S
<1>5. ASSUME NEW u \in Users
      PROVE  chat[u] \in Seq(S) /\ Len(chat[u]) <= MaxMessages[u]
  <2>1. MaxMessages[u] \in Nat
    BY ServedAssumption DEF ServedAssumption, Chatting!BotAssumption
  <2>2. chat[u] = IF MaxMessages[u] = 0 THEN <<>> ELSE old
    BY <1>1
  <2>3. CASE chat[u] = <<>>
    BY <1>3, <2>1, <2>3
  <2>4. CASE chat[u] = <<kb>> /\ MaxMessages[u] # 0
    BY <1>4, <2>1, <2>4
  <2> QED
    BY <1>1, <2>2, <2>3, <2>4
<1>6. chat = [u \in Users |-> chat[u]]
  BY <1>1
<1> QED
  BY <1>2, <1>5, <1>6 DEF KeysInv

-----------------------------------------------------------------------------
(* Bot: the invariant of the conversations.                                  *)

AlertInv ==
    /\ created \in 0..MaxAlerts /\ alerts \subseteq Chatting!Alert
    /\ wanted \subseteq Users /\ owners \subseteq Users

ConversationInv == ChatInv /\ CountInv /\ KeysInv /\ AlertInv

LEMMA CreatedFits ==
    ASSUME AlertInv, NEW u \in Users, NEW p \in Points, NEW kn \in Thresholds,
           Chatting!CreateAlert(u, p, kn), wanted' = wanted
    PROVE  AlertInv'
<1> DEFINE a == [id |-> created + 1, owner |-> u, point |-> p, kn |-> kn]
<1>1. MaxAlerts \in Nat /\ created \in 0..MaxAlerts
  BY ServedAssumption DEF AlertInv, ServedAssumption, Chatting!BotAssumption
<1>2. created < MaxAlerts /\ created' = created + 1
  BY DEF Chatting!CreateAlert
<1>3. created' \in 0..MaxAlerts /\ created + 1 \in 1..MaxAlerts
  BY <1>1, <1>2
<1>4. a \in Chatting!Alert
  BY <1>3 DEF Chatting!Alert
<1>5. alerts' = alerts \cup {a} /\ owners' = owners \cup {u}
  BY DEF Chatting!CreateAlert
<1>6. Chatting!Alert' = Chatting!Alert
  BY DEF Chatting!Alert
<1> HIDE DEF a
<1> QED
  BY <1>3, <1>4, <1>5, <1>6 DEF AlertInv

\* A press on a threshold creates nothing: no keyboard has the button of three
\* parts its handler wants.
LEMMA ThresholdKeepsAlerts ==
    ASSUME KeysInv, AlertInv, NEW u \in Users, NEW i, Chatting!PressThreshold(u, i)
    PROVE  AlertInv'
<1>1. PICK b : /\ Chatting!Press(u, i, b) /\ b[1] = "al" /\ b[2] = "set"
               /\ Len(b) # 3 => UNCHANGED Chatting!alertRows
               /\ wanted' = wanted \cup {u}
  BY DEF Chatting!PressThreshold
<1>2. Len(b) # 3
  BY <1>1, PressedIsIntact
<1> QED
  BY <1>1, <1>2 DEF AlertInv, Chatting!alertRows

LEMMA PressStep ==
    ASSUME ConversationInv, NEW u \in Users, Chatting!Pressed(u)
    PROVE  ConversationInv'
<1>1. ChatInv' /\ KeysInv'
  BY PressesKeepChat, PressesKeepKeys DEF ConversationInv
<1>2. PICK i \in DOMAIN chat[u] :
        \/ Chatting!PressMenu(u, i) \/ Chatting!PressLakes(u, i) \/ Chatting!PressLake(u, i)
        \/ Chatting!PressSpot(u, i) \/ Chatting!PressTime(u, i) \/ Chatting!PressMap(u, i)
        \/ Chatting!PressThreshold(u, i) \/ Chatting!PressPreference(u, i)
        \/ Chatting!PressFavourite(u, i)
  BY DEF Chatting!Pressed
<1>3. UNCHANGED <<recent, answered>>
  BY <1>2 DEF Chatting!PressMenu, Chatting!PressLakes, Chatting!PressLake, Chatting!PressSpot,
              Chatting!PressTime, Chatting!PressMap, Chatting!PressThreshold,
              Chatting!PressPreference, Chatting!PressFavourite, Chatting!history
<1>4. CountInv'
  BY <1>3 DEF ConversationInv, CountInv, Chatting!Recent
<1>5. Chatting!PressThreshold(u, i) \/ UNCHANGED <<alerts, created, owners, wanted>>
  BY <1>2 DEF Chatting!PressMenu, Chatting!PressLakes, Chatting!PressLake, Chatting!PressSpot,
              Chatting!PressTime, Chatting!PressMap, Chatting!PressPreference,
              Chatting!PressFavourite, Chatting!history, Chatting!alertRows
<1>6. AlertInv'
  <2>1. CASE UNCHANGED <<alerts, created, owners, wanted>>
    BY <2>1 DEF ConversationInv, AlertInv
  <2> QED
    BY <1>5, <2>1, ThresholdKeepsAlerts DEF ConversationInv
<1> QED
  BY <1>1, <1>4, <1>6 DEF ConversationInv

LEMMA CommandStep ==
    ASSUME ConversationInv, NEW u \in Users, Chatting!Command(u)
    PROVE  ConversationInv'
<1>1. ChatInv' /\ KeysInv'
  BY CommandsKeepChat, CommandsKeepKeys DEF ConversationInv
<1>2. Chatting!Limited(u) \/ UNCHANGED <<recent, answered>>
  BY DEF Chatting!Command, Chatting!Start, Chatting!Unlimited, Chatting!Preference,
         Chatting!AlertSet, Chatting!AlertDel, Chatting!history
<1>3. CountInv'
  <2>1. CASE UNCHANGED <<recent, answered>>
    BY <2>1 DEF ConversationInv, CountInv, Chatting!Recent
  <2> QED
    BY <1>2, <2>1, LimitedCounts DEF ConversationInv
<1>4. CASE Chatting!AlertSet(u)
  <2>1. PICK p \in points, kn \in Thresholds :
          Chatting!CreateAlert(u, p, kn) /\ wanted' = wanted
    BY <1>4 DEF Chatting!AlertSet, Chatting!history
  <2>2. p \in Points
    BY ServedAssumption
    DEF ConversationInv, ChatInv, ServedAssumption, Chatting!BotAssumption
  <2>3. AlertInv'
    BY <2>1, <2>2, CreatedFits DEF ConversationInv
  <2> QED
    BY <1>1, <1>3, <2>3 DEF ConversationInv
<1>5. CASE ~Chatting!AlertSet(u)
  <2>1. alerts' \subseteq alerts /\ UNCHANGED <<created, owners, wanted>>
    BY <1>5 DEF Chatting!Command, Chatting!Start, Chatting!Limited, Chatting!Unlimited,
                Chatting!Preference, Chatting!AlertDel, Chatting!history, Chatting!alertRows
  <2>2. AlertInv'
    BY <2>1 DEF ConversationInv, AlertInv, Chatting!Alert
  <2> QED
    BY <1>1, <1>3, <2>2 DEF ConversationInv
<1> QED
  BY <1>4, <1>5

LEMMA ConversationStep ==
    ASSUME ConversationInv, [Chatting!Next]_chatting PROVE ConversationInv'
<1>1. ChatInv'
  BY ChatStep DEF ConversationInv
<1>2. CASE Chatting!Tick \/ Chatting!Restart \/ UNCHANGED chatting
  <2>1. UNCHANGED <<alerts, created, owners, wanted, chat>>
    BY <1>2 DEF Chatting!Tick, Chatting!Restart, Chatting!alertRows, chatting
  <2>2. KeysInv' /\ AlertInv'
    BY <2>1 DEF ConversationInv, KeysInv, AlertInv
  <2>3. ASSUME UNCHANGED chatting PROVE CountInv'
    BY <2>3 DEF ConversationInv, CountInv, Chatting!Recent, chatting
  <2>4. CountInv'
    BY <1>2, <2>3, TickCounts, RestartCounts DEF ConversationInv
  <2> QED
    BY <1>1, <2>2, <2>4 DEF ConversationInv
<1> QED
  BY <1>2, PressStep, CommandStep DEF Chatting!Next

LEMMA InitConversation == ASSUME Chatting!Init PROVE ConversationInv
<1>1. AlertInv
  BY ServedAssumption DEF Chatting!Init, AlertInv, ServedAssumption, Chatting!BotAssumption
<1> QED
  BY <1>1, InitChat, InitCounts, InitKeys DEF ConversationInv

LEMMA ConversationSound ==
    ASSUME ConversationInv
    PROVE  /\ Chatting!TypeOK /\ Chatting!OnboardedOnce /\ Chatting!OwnersKnown
           /\ Chatting!CountsAnswered
<1>1. ASSUME NEW u \in Users
      PROVE  row[u] \subseteq Chatting!Row /\ Chatting!Cardinality(row[u]) <= 1
  <2>1. row[u] = {} \/ \E r \in Chatting!Row : row[u] = {r}
    BY DEF ConversationInv, ChatInv
  <2>2. Cardinality(row[u]) \in {0, 1}
    BY <2>1, FS_EmptySet, FS_Singleton
  <2> QED
    BY <2>1, <2>2, SameCount
<1>2. ASSUME NEW u \in Users
      PROVE  recent[u] \subseteq Chatting!Entry /\ Chatting!Cardinality(recent[u]) <= Limit
  BY SameCount DEF ConversationInv, CountInv
<1>3. Chatting!TypeOK
  BY <1>1, <1>2 DEF ConversationInv, ChatInv, AlertInv, KeysInv, Chatting!TypeOK
<1>4. Chatting!CountsAnswered
  BY DEF ConversationInv, CountInv, Chatting!CountsAnswered
<1> QED
  BY <1>3, <1>4 DEF ConversationInv, ChatInv

LEMMA ConversationInvariant == MCSpec => [](part = "conversations" => ConversationInv)
<1> DEFINE I == part = "conversations" => ConversationInv
<1>1. MCInit => I
  BY InitConversation DEF MCInit
<1>2. I /\ [MCNext]_<<part, vars, deciding, chatting>> => I'
  <2>1. ASSUME I, part = "conversations", part' = part, [Chatting!Next]_chatting PROVE I'
    BY <2>1, ConversationStep
  <2>2. ASSUME part' = part, part # "conversations" PROVE I'
    BY <2>2
  <2> HIDE DEF I
  <2> QED
    BY <2>1, <2>2 DEF MCNext
<1> QED
  BY <1>1, <1>2, PTL DEF MCSpec

\* telegram_bot.py 284-320, 663-760, db/users.py: whatever stale keyboards are
\* pressed and however often the settings change in between, who was told that
\* all is set has a favourite, unless the spot picked was gone by then, no
\* alert is without an owner the database knows, and what is counted against a
\* user's limit are the commands answered within the last hour, each once.
THEOREM ConversationsAreKept == MCSpec => []ChatSound
<1>1. (part = "conversations" => ConversationInv) => ChatSound
  BY ConversationSound DEF ChatSound
<1> QED
  BY <1>1, ConversationInvariant, PTL

\* A press on a threshold, and what it leaves alone.
NothingCreated ==
    \A u \in Users : \A i \in DOMAIN chat[u] :
        Chatting!PressThreshold(u, i) => UNCHANGED Chatting!alertRows

\* telegram_bot.py 470-481 and 880-890: the button carries four parts and the
\* handler wants three, so no press on a threshold creates an alert, whichever
\* keyboards the restarts have left in the chats.
THEOREM ThresholdsCreateNothing ==
    MCSpec => [][part = "conversations" => NothingCreated]_chatting
<1>1. ASSUME KeysInv PROVE NothingCreated
  <2> SUFFICES ASSUME NEW u \in Users, NEW i \in DOMAIN chat[u],
                      Chatting!PressThreshold(u, i)
               PROVE  UNCHANGED Chatting!alertRows
    BY DEF NothingCreated
  <2>1. PICK b : /\ Chatting!Press(u, i, b) /\ b[1] = "al" /\ b[2] = "set"
                 /\ Len(b) # 3 => UNCHANGED Chatting!alertRows
    BY DEF Chatting!PressThreshold
  <2> QED
    BY <1>1, <2>1, PressedIsIntact
<1>2. (part = "conversations" => ConversationInv)
          => [part = "conversations" => NothingCreated]_chatting
  BY <1>1 DEF ConversationInv
<1> QED
  BY <1>2, ConversationInvariant, PTL

\* Users whose handler may touch an alert, and the alerts that come or go.
Handles(u) ==
    \/ Chatting!AlertSet(u) \/ Chatting!AlertDel(u)
    \/ \E i \in DOMAIN chat[u] : Chatting!PressThreshold(u, i)

HandledByOwner ==
    \A a \in (alerts \ alerts') \cup (alerts' \ alerts) :
        \E u \in Users : a.owner = u /\ Handles(u)

\* telegram_bot.py 880-890 and 1458-1502, db/users.py 128-171: an alert comes or
\* goes in a handler of its owner only, and such a handler leaves the alerts of
\* the others alone, whatever ids they send and buttons they press.
THEOREM AlertsAreOwned == MCSpec => AlertsOwned /\ [][HandledByOwner]_chatting
<1>1. ASSUME NEW u \in Users, Handles(u)
      PROVE  \A a \in (alerts \ alerts') \cup (alerts' \ alerts) : a.owner = u
  BY <1>1 DEF Handles, Chatting!AlertSet, Chatting!AlertDel, Chatting!PressThreshold,
              Chatting!CreateAlert, Chatting!Deleted, Chatting!alertRows
<1>2. Chatting!ByOwner
  BY <1>1 DEF Chatting!ByOwner, Handles
<1>3. ASSUME [MCNext]_<<part, vars, deciding, chatting>>
      PROVE  alerts' = alerts \/ \E u \in Users : Handles(u)
  <2>1. ASSUME NEW u \in Users, Chatting!Pressed(u) \/ Chatting!Command(u), ~Handles(u)
        PROVE  alerts' = alerts
    BY <2>1 DEF Handles, Chatting!Pressed, Chatting!Command, Chatting!PressMenu,
                Chatting!PressLakes, Chatting!PressLake, Chatting!PressSpot, Chatting!PressTime,
                Chatting!PressMap, Chatting!PressPreference, Chatting!PressFavourite,
                Chatting!Start, Chatting!Limited, Chatting!Unlimited, Chatting!Preference,
                Chatting!alertRows
  <2>2. CASE Chatting!Tick \/ Chatting!Restart \/ UNCHANGED chatting
    BY <2>2 DEF Chatting!Tick, Chatting!Restart, Chatting!alertRows, chatting
  <2> QED
    BY <1>3, <2>1, <2>2 DEF MCNext, Chatting!Next
<1>4. [MCNext]_<<part, vars, deciding, chatting>> => [HandledByOwner]_chatting
  BY <1>1, <1>3 DEF HandledByOwner
<1>5. [part = "conversations" => Chatting!ByOwner]_<<part, chatting>>
  BY <1>2
<1> QED
  BY <1>4, <1>5, PTL DEF MCSpec, AlertsOwned
=============================================================================
