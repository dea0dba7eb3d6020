----------------------------- MODULE Evaluation -----------------------------
(***************************************************************************)
(* The arithmetic that decides which samples a model is fitted, calibrated *)
(* and judged on: the walk-forward windows and the backtest that walks     *)
(* them (ml/backtest.py), the combinatorial purged paths                   *)
(* (ml/cpcv_backtest.py), the time-ordered validation split (ml/train.py), *)
(* the conformal quantile (ml/conformal.py) and the pairing of two series  *)
(* (ml/truth_check.py).                                                    *)
(*                                                                         *)
(* Every job is a function of its input.  A behaviour chooses a job and an *)
(* input, then computes the result; wind values, errors and times are      *)
(* small numbers.                                                          *)
(***************************************************************************)
EXTENDS Integers, Sequences, FiniteSets, FiniteSetsExt

CONSTANTS
    MaxSamples,  \* of the purged paths
    MaxGroups,
    MaxHours,    \* of purging, embargo and windows
    MaxRows,     \* of a data set, of a calibration set and of a series
    MaxValue,    \* of a score, of the hour of a row and of a time
    MinTrain, MinVal,  \* rows a validation split needs on its two sides
    NoResult

EvaluationAssumption ==
    {MaxSamples, MaxGroups, MaxHours, MaxRows, MaxValue, MinTrain, MinVal} \subseteq Nat \ {0}

VARIABLES
    input,   \* the job and its arguments
    result   \* what it computed

vars == <<input, result>>

Ceiling(a, b) == (a + b - 1) \div b
Apart(a, b) == IF a < b THEN b - a ELSE a - b

-----------------------------------------------------------------------------
(* run_backtest(): windows of [train, test), one step apart.                *)

GenerateWindows(i) ==
    {[train |-> c - i.train, test |-> c] :
        c \in {t \in (i.start + i.train)..i.end :
                 (t - i.start - i.train) % i.step = 0 /\ t + i.test <= i.end}}

\* Without a candidate one is trained, up to a test window before the end;
\* with no window that fits, the last one is walked alone.
RunBacktest(i) ==
    [trainedUpTo |-> i.end - i.test,
     windows |-> IF GenerateWindows(i) # {} THEN GenerateWindows(i)
                 ELSE {[train |-> i.start, test |-> i.end - i.test]}]

-----------------------------------------------------------------------------
(* generate_cpcv_paths(): purging and embargo, counted in samples.          *)

\* The last group takes what the division leaves over.
GroupBounds(i, g) ==
    (g * (i.n \div i.groups))..
        (IF g < i.groups - 1 THEN (g + 1) * (i.n \div i.groups) - 1 ELSE i.n - 1)

Purged(i, idx, test) ==
    \E t \in test : Apart(idx, t) <= i.purge \div i.interval

Embargoed(i, idx, test) ==
    \E t \in test : idx > t /\ idx - t <= i.embargo \div i.interval

\* No model is fitted on a path's training set: the rows of every path are
\* predicted by the version that was given, or by the one in production, which
\* may have been trained on the very period.
FittedRows(i) == IF i.inPeriod THEN 0..(i.n - 1) ELSE {}

CpcvPath(i, combo) ==
    LET test == UNION {GroupBounds(i, g) : g \in combo}
        rest == UNION {GroupBounds(i, g) : g \in (0..(i.groups - 1)) \ combo}
    IN [test   |-> test,
        train  |-> {x \in rest : ~Purged(i, x, test) /\ ~Embargoed(i, x, test)},
        fitted |-> FittedRows(i)]

CpcvPaths(i) == {CpcvPath(i, combo) : combo \in kSubset(i.testGroups, 0..(i.groups - 1))}

\* Samples are collected hour by hour, every point of an hour in turn.
HourOf(i, idx) == (idx \div i.points) * i.interval

-----------------------------------------------------------------------------
(* _time_ordered_split(): rows in time order, the last slice validates.     *)

\* The cut moves forward to the next change of the hour.
Snap(times, cut) ==
    Min({c \in cut..Len(times) : c = Len(times) \/ times[c + 1] # times[c]})

NoSplit(i) == [train |-> Len(i.times), val |-> FALSE]

TimeOrderedSplit(i) ==
    LET n == Len(i.times)
        cut == (n * (100 - i.percent)) \div 100
        snapped == Snap(i.times, cut)
    IN IF i.percent <= 0 \/ cut < MinTrain \/ n - cut < MinVal THEN NoSplit(i)
       ELSE IF n - snapped < MinVal THEN NoSplit(i)
       ELSE [train |-> snapped, val |-> TRUE]

-----------------------------------------------------------------------------
(* train_conformal_calibrator(): q_hat is the quantile of the scores at     *)
(* ceil((n + 1)(1 - alpha)) / n, interpolated between neighbours.  Values   *)
(* are kept n times as large, so that they stay whole.                      *)

LevelOfSample(i) == Min({Len(i.scores), Ceiling(Len(i.scores) * (10 - i.alpha), 10)})
Level(i) == Min({Len(i.scores), Ceiling((Len(i.scores) + 1) * (10 - i.alpha), 10)})

\* The k-th of the scores in ascending order.
Smallest(scores, k) ==
    Min({x \in {scores[j] : j \in DOMAIN scores} :
            Cardinality({j \in DOMAIN scores : scores[j] <= x}) >= k})

QHat(i) ==
    LET n == Len(i.scores)
        pos == Level(i) * (n - 1)         \* n times the position counted from 0
        lo == pos \div n
        frac == pos % n
        below == Smallest(i.scores, lo + 1)
        above == IF lo + 2 <= n THEN Smallest(i.scores, lo + 2) ELSE below
    IN n * below + frac * (above - below)

-----------------------------------------------------------------------------
(* _nearest_pair_error(): a bisection of the other series' times.           *)

BisectLeft(times, t) == Cardinality({k \in DOMAIN times : times[k] < t})

Neighbours(pos) == IF pos > 0 THEN {pos - 1, pos} ELSE {pos}

NearestPair(i) ==
    LET near == {k \in Neighbours(BisectLeft(i.times, i.at)) : k < Len(i.times)}
        best == {k \in near : \A q \in near :
                    Apart(i.times[k + 1], i.at) <= Apart(i.times[q + 1], i.at)}
    IN IF near = {} THEN {}
       ELSE {d \in {Apart(i.times[k + 1], i.at) : k \in best} : d <= i.window}

-----------------------------------------------------------------------------
Sorted(S, len) == {s \in UNION {[1..n -> S] : n \in 0..len} :
                      \A k \in 1..(Len(s) - 1) : s[k] <= s[k + 1]}

BacktestInputs ==
    [job : {"backtest"}, start : {0}, end : 1..(2 * MaxHours), train : 1..MaxHours,
     test : 1..MaxHours, step : 1..MaxHours]
CpcvInputs ==
    {i \in [job : {"cpcv"}, n : 1..MaxSamples, groups : 2..MaxGroups, testGroups : 1..MaxGroups,
            purge : 0..MaxHours, embargo : 0..MaxHours, interval : 1..MaxHours,
            points : 1..2, inPeriod : BOOLEAN] :
        i.groups <= i.n /\ i.testGroups < i.groups}
SplitInputs ==
    [job : {"split"}, times : Sorted(1..MaxValue, MaxRows), percent : 0..99]
ConformalInputs ==
    [job : {"conformal"}, scores : UNION {[1..n -> 0..MaxValue] : n \in 1..(MaxRows - 1)},
     alpha : 1..9]
PairInputs ==
    [job : {"pair"}, at : 0..MaxValue, times : Sorted(0..MaxValue, MaxRows),
     window : 0..MaxValue]

Init ==
    /\ input \in BacktestInputs \cup CpcvInputs \cup SplitInputs
                    \cup ConformalInputs \cup PairInputs
    /\ result = NoResult

Does(job) == input.job = job /\ result = NoResult /\ UNCHANGED input

Backtest == Does("backtest") /\ result' = RunBacktest(input)
CpcvBacktest == Does("cpcv") /\ result' = CpcvPaths(input)
Split == Does("split") /\ result' = TimeOrderedSplit(input)
Calibrate == Does("conformal") /\ result' = QHat(input)
TruthCheck == Does("pair") /\ result' = NearestPair(input)

Next == Backtest \/ CpcvBacktest \/ Split \/ Calibrate \/ TruthCheck

Spec == Init /\ [][Next]_vars

Computed(job) == input.job = job /\ result # NoResult

-----------------------------------------------------------------------------
\* The walk leaves no part of the history it could still test: after the last
\* window no step leads to another one that fits, and none runs past the end.
WalkReachesTheEnd ==
    Computed("backtest") =>
        LET last == Max({w.test : w \in result.windows}) + input.test
        IN /\ last <= input.end
           /\ input.end < last + input.step

\* Every sample is judged in the same number of paths, wherever the division
\* into groups leaves its remainder.
EverySampleTested ==
    Computed("cpcv") =>
        \A x \in 0..(input.n - 1) :
            Cardinality({p \in result : x \in p.test}) =
                Cardinality({c \in kSubset(input.testGroups, 0..(input.groups - 1)) :
                                0 \in c})

\* One sample an interval: what stays in the training set is more than the
\* purge window away from every tested sample, and more than the embargo
\* after it, in hours, whatever the division of hours by the interval drops.
KeptApart ==
    Computed("cpcv") /\ input.points = 1 =>
        \A p \in result : \A x \in p.train, t \in p.test :
            LET gap == HourOf(input, x) - HourOf(input, t)
            IN /\ Apart(gap, 0) > input.purge
               /\ gap > 0 => gap > input.embargo

\* The hour a validation row speaks of is later than every training row's, and
\* both sides have the rows they need: no hour is split between them.
SplitIsForward ==
    Computed("split") /\ result.val =>
        /\ result.train >= MinTrain /\ Len(input.times) - result.train >= MinVal
        /\ \A x \in 1..result.train, y \in (result.train + 1)..Len(input.times) :
              input.times[x] < input.times[y]

\* The band is wide enough: q_hat is no smaller than ceil((n + 1)(1 - alpha))
\* of the n scores, or than all of them, which is what split conformal
\* prediction needs for its coverage.
BandCovers ==
    Computed("conformal") =>
        LET n == Len(input.scores)
            needed == Min({n, Ceiling((n + 1) * (10 - input.alpha), 10)})
        IN Cardinality({k \in 1..n : n * input.scores[k] <= result}) >= needed

\* A reading is paired with its nearest neighbour in time, and left out only
\* when none is within the window ("every a-timestamp finds its true nearest").
PairsWithNearest ==
    Computed("pair") =>
        LET gaps == {Apart(input.times[k], input.at) : k \in DOMAIN input.times}
            near == {d \in gaps : d <= input.window}
        IN result = IF near = {} THEN {} ELSE {Min(near)}

\* No hour that could be judged is left out: not by the walk, by the paths or by
\* the pairing.
NothingLeftOut == WalkReachesTheEnd /\ EverySampleTested /\ PairsWithNearest

\* The training rows of a path are purged of what its tested rows depend on, and a
\* validation slice is later than what is fitted.  Of the paths this is said of the
\* rows they name; which model judges them is the matter of PathsTrainTheirModel.
TestedApart == KeptApart /\ SplitIsForward

\* "trains a fresh candidate on the first walk-forward window and uses it
\* throughout": then no window would be tested on hours it was trained on.
TestedOutOfSample ==
    Computed("backtest") => \A w \in result.windows : result.trainedUpTo <= w.test

\* "Train a model on the path's train set": then a path would be judged by a model
\* that has seen no other rows.
PathsTrainTheirModel ==
    Computed("cpcv") => \A p \in result : p.fitted \subseteq p.train

\* "We purge training samples within +-2h of any test sample": also with
\* several points an hour.
PurgedInHours ==
    Computed("cpcv") =>
        \A p \in result : \A x \in p.train, t \in p.test :
            Apart(HourOf(input, x), HourOf(input, t)) > input.purge
=============================================================================
