----------------------------- MODULE AnalystWeights -----------------------------
(***************************************************************************)
(* The feedback loop of the composite weights: last week's decision is     *)
(* scored against what its stocks did (equities/attribution.py), and the   *)
(* rank correlations of the past weeks move the weights of the analysts    *)
(* (equities/adaptive_weights.py).                                         *)
(*                                                                         *)
(* Weights are integers that sum to WeightUnit, which stands for 1 at six  *)
(* decimals; correlations, scores and returns are integers.  The half-life *)
(* of the moving average is one week, and the tilted target, an            *)
(* exponential of the average, is an input.  An operator named Bug_X is a  *)
(* wrong variant of X that no definition uses.                             *)
(***************************************************************************)
EXTENDS Integers, Sequences, FiniteSets, FiniteSetsExt, SequencesExt

CONSTANTS
    WeightUnit,           \* one
    WeightFloor,          \* weight_floor
    MaxShift,             \* max_weekly_shift
    MinHistory,           \* min_history_weeks
    AlertStreak           \* alert_streak_weeks

(* AdaptiveWeightsConfig._feasible *)
ASSUME WeightsAssumption ==
    /\ WeightUnit \in Nat
    /\ MaxShift \in 1 .. WeightUnit
    /\ WeightFloor \in 1 .. WeightUnit /\ 3 * WeightFloor <= WeightUnit
    /\ MinHistory \in Nat \ {0} /\ AlertStreak \in Nat \ {0}

ANALYSTS == {"fundamentals", "news", "technical"}
NoIc     == -99

Sum(w) == SumFunction(w)

-----------------------------------------------------------------------------
(* The window return of a series, a sequence of <<day, close>> by day:     *)
(* <<first close, last close>> stand for the rate, <<>> for none.          *)
WindowReturn(series, d0, d1) ==
    LET within == SelectSeq(series, LAMBDA x : x[1] \in d0 .. d1)
    IN  IF within = <<>> \/ within[1][2] <= 0 THEN <<>>
        ELSE <<(100 * within[Len(within)][2]) \div within[1][2] - 100>>

(* resolve_weights: the stored targets, else conviction over the bought    *)
(* symbols. *)
DecisionWeights(targets, conviction, bought) ==
    LET nonzero == {s \in DOMAIN targets : targets[s] > 0}
        scored  == bought \cap DOMAIN conviction
    IN  IF nonzero # {} THEN [s \in nonzero |-> targets[s]]
        ELSE IF \A s \in scored : conviction[s] <= 0 THEN <<>>
        ELSE [s \in scored |-> conviction[s]]

(* compute_report, the basket return as <<numerator, denominator>> over    *)
(* the holdings that have a price.                                         *)
Priced(weights, returns) == {s \in DOMAIN weights : returns[s] # <<>>}

Bug_BasketReturn(weights, returns) ==
    LET priced == Priced(weights, returns)
    IN  IF priced = {} THEN <<0, 1>>
        ELSE <<SumFunction([s \in priced |-> weights[s] * returns[s][1]]), Sum(weights)>>

BasketReturn(weights, returns) ==
    LET priced == Priced(weights, returns)
        total  == SumFunctionOnSet(weights, priced)
    IN  IF total = 0 THEN <<0, 1>>
        ELSE <<SumFunction([s \in priced |-> weights[s] * returns[s][1]]), total>>

(* _ranks, doubled: ties share the mean of their places. *)
Ranks(xs) ==
    [i \in DOMAIN xs |->
       2 * Cardinality({j \in DOMAIN xs : xs[j] < xs[i]})
         + Cardinality({j \in DOMAIN xs : xs[j] = xs[i]}) + 1]

(* spearman, as the covariance of the ranks and their two variances. *)
Deviation(xs, i) == Ranks(xs)[i] - (Len(xs) + 1)      \* from twice the mean rank
Covariance(xs, ys) == SumFunction([i \in DOMAIN xs |-> Deviation(xs, i) * Deviation(ys, i)])

Spearman(xs, ys) ==
    LET vx == Covariance(xs, xs)
        vy == Covariance(ys, ys)
    IN  IF Len(xs) < 2 \/ vx = 0 \/ vy = 0 THEN <<>>
        ELSE <<Covariance(xs, ys), vx, vy>>

MinIcSamples == 5

(* The correlation of one analyst: its scores against the returns of the   *)
(* stocks that have one.                                                   *)
InformationCoefficient(signals, returns) ==
    LET priced == SelectSeq(signals, LAMBDA g : returns[g.symbol] # <<>>)
    IN  IF Len(priced) < MinIcSamples THEN <<>>
        ELSE Spearman([i \in DOMAIN priced |-> priced[i].score],
                      [i \in DOMAIN priced |-> returns[priced[i].symbol][1]])

-----------------------------------------------------------------------------
(* ewma, times its denominator: the freshest week first, each week half    *)
(* the weight of the one after it, missing weeks left out.                 *)
Ewma(ics) ==
    SumFunction([lag \in {l \in DOMAIN ics : ics[l] # NoIc} |-> 2 ^ (Len(ics) - lag) * ics[lag]])

ValidWeeks(ics) == Cardinality({lag \in DOMAIN ics : ics[lag] # NoIc})

(* alert_streaks: the consecutive latest windows with enough history whose *)
(* average is not positive.                                                *)
Streak(ics) ==
    LET window(lag) == SubSeq(ics, lag, Len(ics))
        bad(lag)    == ValidWeeks(window(lag)) >= MinHistory /\ Ewma(window(lag)) <= 0
    IN  Max({k \in 0 .. Len(ics) : \A lag \in 1 .. k : bad(lag)})

Alerts(series) == {a \in ANALYSTS : Streak(series[a]) >= AlertStreak}

-----------------------------------------------------------------------------
(* project_weights *)

Clip(x, lo, hi) == Min({Max({x, lo}), hi})

(* _redistribute: the deficit in proportion to the headroom, the surplus   *)
(* in proportion to the slack; <<numerator, denominator>> of each weight.  *)
Bug_Redistribute(w, lo, hi) == [a \in ANALYSTS |-> <<w[a] * WeightUnit, Sum(w)>>]

Redistribute(w, lo, hi) ==
    LET missing  == WeightUnit - Sum(w)
        headroom == [a \in ANALYSTS |-> hi[a] - w[a]]
        slack    == [a \in ANALYSTS |-> w[a] - lo[a]]
    IN  CASE missing > 0 -> [a \in ANALYSTS |-> <<w[a] * Sum(headroom) + missing * headroom[a], Sum(headroom)>>]
          [] missing < 0 -> [a \in ANALYSTS |-> <<w[a] * Sum(slack) + missing * slack[a], Sum(slack)>>]
          [] OTHER       -> [a \in ANALYSTS |-> <<w[a], 1>>]

(* _round_exact: what rounding leaves goes to the largest weight, the      *)
(* first of equals. *)
Place == [fundamentals |-> 1, news |-> 2, technical |-> 3]
RoundExact(w) ==
    LET rounded  == [a \in ANALYSTS |-> (2 * w[a][1] + w[a][2]) \div (2 * w[a][2])]
        largest  == CHOOSE a \in ANALYSTS : \A b \in ANALYSTS \ {a} :
                      \/ rounded[a] > rounded[b]
                      \/ rounded[a] = rounded[b] /\ Place[a] < Place[b]
    IN  [rounded EXCEPT ![largest] = @ + WeightUnit - Sum(rounded)]

(* The bounds of the week: the floor and the largest move, and when they   *)
(* cannot be met (the floor was raised) only the floor.                    *)
Lowest(prev)  == [a \in ANALYSTS |-> Max({WeightFloor, prev[a] - MaxShift})]
Highest(prev) == [a \in ANALYSTS |-> prev[a] + MaxShift]
Feasible(prev) ==
    /\ Sum(Lowest(prev)) <= WeightUnit
    /\ Sum(Highest(prev)) >= WeightUnit
    /\ \A a \in ANALYSTS : Lowest(prev)[a] <= Highest(prev)[a]

ProjectWeights(target, prev) ==
    LET lo == IF Feasible(prev) THEN Lowest(prev) ELSE [a \in ANALYSTS |-> WeightFloor]
        hi == IF Feasible(prev) THEN Highest(prev) ELSE [a \in ANALYSTS |-> WeightUnit]
        w  == [a \in ANALYSTS |-> Clip(target[a], lo[a], hi[a])]
    IN  RoundExact(Redistribute(w, lo, hi))

(* compute_adaptive_weights behind resolve_analyst_weights: the anchor is  *)
(* what the last decision used, if that was nearly a distribution.         *)
Anchor(static, last) ==
    IF /\ last # <<>>
       /\ \A a \in ANALYSTS : last[1][a] > 0
       /\ 99 * WeightUnit < 100 * Sum(last[1]) /\ 100 * Sum(last[1]) < 101 * WeightUnit
      THEN last[1] ELSE static

ResolveWeights(static, target, last, series) ==
    IF \E a \in ANALYSTS : ValidWeeks(series[a]) < MinHistory
      THEN [weights |-> static, mode |-> "static"]
      ELSE [weights |-> ProjectWeights(target, Anchor(static, last)), mode |-> "adaptive"]
=============================================================================
