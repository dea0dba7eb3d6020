------------------------------ MODULE Sailing ------------------------------
(***************************************************************************)
(* Whether it is worth sailing: the decision about a spot, and the report  *)
(* of the bot over all the spots.                                          *)
(*                                                                         *)
(* A row of the forecast holds the median speed as its difference from the *)
(* threshold, in knots, the width of the band and the expected error; 0    *)
(* stands for a column that is NULL.  Rows whose band has no width are not *)
(* among the inputs.  A probability is kept as the quotient it grows with. *)
(***************************************************************************)
EXTENDS Integers, Sequences, FiniteSets, SequencesExt

CONSTANTS
    Lakes,      \* in the order of the settings
    SpotsOf,    \* the spots of each lake, in that order
    MinGoHours, \* MIN_GO_HOURS
    Rows,       \* rows that the store may hold
    MaxHours,   \* bound: rows of a spot
    NoReport

\* A column that is NULL is 0, so a row always has numbers.
RowType == [above : Int, band : Nat, error : Nat]
SailingAssumption ==
    Rows \subseteq RowType /\ MaxHours \in Nat /\ MinGoHours \in Nat \ {0}

VARIABLES series, report

Spots == UNION {ToSet(SpotsOf[l]) : l \in ToSet(Lakes)}

-----------------------------------------------------------------------------
(* compute_decision()                                                      *)

Certain == 1000000 \* beyond any quotient of the inputs

\* (q50 - threshold) / sigma: the survival function falls with its negative.
\* Sigma is the width of the band over 2 * 1.28, else the expected error; with
\* neither, the median alone tells.
Quotient(r) ==
    IF r.band > 0 THEN <<256 * r.above, 100 * r.band>>
    ELSE IF r.error > 0 THEN <<r.above, r.error>>
    ELSE <<IF r.above >= 0 THEN Certain ELSE -Certain, 1>>

\* More probable to reach the threshold; a tie goes to the higher median.
MoreProbable(p, q) == p[1] * q[2] > q[1] * p[2]
Beats(r, s) ==
    LET p == Quotient(r) q == Quotient(s)
    IN  MoreProbable(p, q) \/ (~MoreProbable(q, p) /\ r.above > s.above)

\* Mutant of AtLeastEven: more probable than not.
AtLeastEvenStrict(r) == Quotient(r)[1] > 0

\* P(>= threshold) >= 0.5
AtLeastEven(r) == Quotient(r)[1] >= 0

\* max() keeps the first of equals.
BestRow(rows) ==
    CHOOSE i \in DOMAIN rows : \A j \in DOMAIN rows :
        ~Beats(rows[j], rows[i]) /\ (j < i => Beats(rows[i], rows[j]))

EvenHours(rows) == Cardinality({i \in DOMAIN rows : AtLeastEven(rows[i])})

Verdict(rows) ==
    LET n == EvenHours(rows)
    IN  IF n >= MinGoHours THEN "go" ELSE IF n >= 1 THEN "marginal" ELSE "no_go"

Decision(rows) ==
    [verdict |-> Verdict(rows), best |-> BestRow(rows), peak |-> Quotient(rows[BestRow(rows)])]

-----------------------------------------------------------------------------
(* _sailing_recommendation()                                               *)

\* The spots are gone through lake by lake; those without rows are passed over.
Told == [i \in DOMAIN Lakes |-> SelectSeq(SpotsOf[Lakes[i]], LAMBDA s : series[s] # <<>>)]

\* Mutant of Surpasses: the peaks are not compared, the last "go" wins.
SurpassesAny(s, best) == Decision(series[s]).verdict = "go"

\* A "go" with a higher peak than the best so far, if there is one.
Surpasses(s, best) ==
    LET d == Decision(series[s])
    IN  /\ d.verdict = "go"
        /\ \A b \in best : MoreProbable(d.peak, Decision(series[b]).peak)

\* lake_best: the best spot of a lake, the first of equals; only a "go" counts.
LakeBest(spots) ==
    FoldLeft(LAMBDA best, s : IF Surpasses(s, best) THEN {s} ELSE best, {}, spots)

\* overall_best: the first spot whatever its verdict, until a "go" beats it.
OverallBest(spots) ==
    FoldLeft(LAMBDA best, s : IF best = {} \/ Surpasses(s, best) THEN {s} ELSE best, {}, spots)

\* The headline is GO for any best spot, and NOT WORTH IT without one.
Report ==
    LET best == OverallBest(FlattenSeq(Told))
    IN  [lakes |-> [i \in DOMAIN Lakes |-> LakeBest(Told[i])],
         best |-> best, go |-> best # {}]

Series == UNION {[1..n -> Rows] : n \in 0..MaxHours}

Init == series \in [Spots -> Series] /\ report = NoReport

SailingRecommendation == report' = Report /\ UNCHANGED series

Next == SailingRecommendation

-----------------------------------------------------------------------------
(* Properties.                                                             *)

\* "Mirrors the bot's historical 'sail_hours >= 2' rule so the migration is
\* behaviour-preserving" (decision.py:54-56): counting calibrated
\* probabilities gives the verdict that counting medians gave.
VerdictOfMedians ==
    \A s \in Spots :
        LET n == Cardinality({i \in DOMAIN series[s] : series[s][i].above >= 0})
        IN  Verdict(series[s]) = IF n >= MinGoHours THEN "go"
                                 ELSE IF n >= 1 THEN "marginal" ELSE "no_go"

\* The hour a spot is advised for, found by the probabilities, is a sailable one
\* unless the verdict, found by counting, is that there is none: what the report
\* names as the best hour of a spot to go to is never below even.
AdvisedHourSails ==
    \A s \in Spots : series[s] # <<>> =>
        LET d == Decision(series[s])
        IN  d.verdict # "no_go" <=> AtLeastEven(series[s][d.best])

\* What the loop over lakes and spots leaves in lake_best and overall_best is
\* beaten by none: a lake names one of its own spots whenever it has one to go
\* to, a spot to go to that no other to go to on the lake exceeds; and no spot to
\* go to on any lake exceeds the one the headline names.
LeadersUnbeaten ==
    report # NoReport =>
        LET ToGo(l) == {s \in ToSet(SpotsOf[l]) : series[s] # <<>> /\ Verdict(series[s]) = "go"}
            Exceeds(a, b) == MoreProbable(Decision(series[a]).peak, Decision(series[b]).peak)
        IN  /\ \A i \in DOMAIN Lakes :
                  /\ report.lakes[i] = {} <=> ToGo(Lakes[i]) = {}
                  /\ report.lakes[i] \subseteq ToGo(Lakes[i])
                  /\ \A b \in report.lakes[i], s \in ToGo(Lakes[i]) : ~Exceeds(s, b)
            /\ \A i \in DOMAIN Lakes : \A b \in report.best, s \in ToGo(Lakes[i]) : ~Exceeds(s, b)

\* "The window rule is preserved (>=2 sailable hours => GO)"
\* (telegram_bot.py:1014-1016): the report says GO where, and only where, some
\* spot's verdict is go.
GoMeansGo ==
    report # NoReport =>
        (report.go <=> \E s \in Spots : series[s] # <<>> /\ Verdict(series[s]) = "go")
=============================================================================
