------------------------------ MODULE MCLearning ------------------------------
(* Model checking of what a model is shown and how it is judged: the samples  *)
(* (Features), or the arithmetic of evaluation (Evaluation).  The two share   *)
(* no state, so a behaviour is one of the one or of the other, as `part`      *)
(* says, and the variables of the other stay put.                             *)
(*                                                                            *)
(* Features: days of two hours, a run of each covering four of them, and years *)
(* of two, so that hours 0 and 2 are of one season; the reference and the     *)
(* pinned model, a station and the reanalysis.                                *)
EXTENDS Features

CONSTANTS
    None,
    Parts,       \* which of the two a run is about
    PathSamples, MaxGroups, MaxHours, MaxRows, MaxValue, MinTrain, MinVal  \* of the arithmetic

VARIABLES part, input, result

MCTier == [station |-> 0, era5 |-> 3]
MCDistance == [station |-> 2, era5 |-> 0]

Arithmetic == INSTANCE Evaluation WITH MaxSamples <- PathSamples, NoResult <- None

ASSUME LearningAssumption ==
    /\ PointsAssumption /\ ModelsAssumption /\ SourcesAssumption /\ WindowsAssumption
    /\ Arithmetic!EvaluationAssumption

judging == <<input, result>>

MCInit ==
    /\ part \in Parts
    /\ \/ part = "building" /\ Init /\ input = [job |-> "none"] /\ result = None
       \/ part = "judging" /\ Arithmetic!Init /\ forecasts = {} /\ Init

MCNext ==
    /\ UNCHANGED part
    /\ \/ part = "building" /\ Next /\ UNCHANGED judging
       \/ part = "judging" /\ Arithmetic!Next /\ UNCHANGED vars

MCSpec == MCInit /\ [][MCNext]_<<part, vars, judging>>

-----------------------------------------------------------------------------
\* Properties of the modules, under their own names.
EvaluationSound == Arithmetic!NothingLeftOut /\ Arithmetic!TestedApart /\ Arithmetic!BandCovers

\* The answer a model learns is no stored reading its features were taken from,
\* and what arrives late from a lesser source does not change it.
TargetSound == [](TypeOK /\ TargetOutsideFeatures) /\ LateRowsKeepTarget
=============================================================================
