------------------------ MODULE BacktestStatistics -------------------------
(***************************************************************************)
(* The statistics of a finished backtest (backtest/analytics.py), the      *)
(* noise floor and the verdicts an experiment hands out                    *)
(* (backtest/statistics.py, experiment.py, scripts/probe_noise.py) and the *)
(* days the screening-only backtest visits (backtest/vectorized.py).       *)
(*                                                                         *)
(* Levels, prices and quantities are integers.  A ratio is a pair          *)
(* <<numerator, denominator>> compared by cross-multiplication; a standard *)
(* deviation appears as its square, scaled by n (n - 1).  Powers           *)
(* (annualised figures) and the ratios built on them are left out.         *)
(* Sigma thresholds are thousandths.                                       *)
(***************************************************************************)
EXTENDS Integers, Sequences, FiniteSets, SequencesExt, FiniteSetsExt

Total(s) == SumFunction(s)
Over(f, g) == f[1] * g[2] > g[1] * f[2]

\* n times the sum of squares less the square of the sum: n (n - 1) s^2.
Spread(values) ==
    Len(values) * Total([i \in DOMAIN values |-> values[i] * values[i]]) - Total(values) * Total(values)

-----------------------------------------------------------------------------
(* PerformanceCalculator *)

\* A peak that is only replaced by one at least two above it.
Bug_Descend(acc, nav) ==
    LET peak == IF nav > acc.peak + 1 THEN nav ELSE acc.peak
        days == IF nav > acc.peak + 1 THEN 0 ELSE acc.days + 1
        fall == <<peak - nav, peak>>
    IN [peak |-> peak, days |-> days, worst |-> IF Over(fall, acc.worst) THEN fall ELSE acc.worst,
        longest |-> Max({days, acc.longest})]

\* One day of the drawdown: the peak so far, the days since it, the worst fall.
Descend(acc, nav) ==
    LET peak == IF nav > acc.peak THEN nav ELSE acc.peak
        days == IF nav > acc.peak THEN 0 ELSE acc.days + 1
        fall == <<peak - nav, peak>>
    IN [peak |-> peak, days |-> days, worst |-> IF Over(fall, acc.worst) THEN fall ELSE acc.worst,
        longest |-> Max({days, acc.longest})]

Drawdown(navs) ==
    LET after[i \in 0 .. Len(navs)] ==
          IF i = 0 THEN [peak |-> navs[1], days |-> 0, worst |-> <<0, 1>>, longest |-> 0]
                   ELSE Descend(after[i - 1], navs[i])
    IN  after[Len(navs)]

Side(trades, symbol, side) ==
    SelectSeq(trades, LAMBDA t : t.symbol = symbol /\ t.side = side)

\* The i-th buy of a symbol meets its i-th sell, at the quantity bought.
PairedResults(trades) ==
    LET PairsOf(s) == LET buys == Side(trades, s, "buy")
                          sells == Side(trades, s, "sell")
                      IN [i \in 1..Min({Len(buys), Len(sells)}) |->
                             (sells[i].price - buys[i].price) * buys[i].quantity]
    IN FoldLeft(LAMBDA acc, s : acc \o PairsOf(s), <<>>, SetToSeq({t.symbol : t \in ToSet(trades)}))

TradeMetrics(trades) ==
    LET results == PairedResults(trades)
        profits == SelectSeq(results, LAMBDA r : r > 0)
        losses == SelectSeq(results, LAMBDA r : r <= 0)
    IN [total |-> Len(results), wins |-> Len(profits),
        grossProfit |-> Total(profits), grossLoss |-> -Total(losses)]

\* Of at least two snapshots [nav, return, positions, exposure].
ComputeMetrics(snapshots, trades) ==
    LET n == Len(snapshots)
        navs == [i \in 1..n |-> snapshots[i].nav]
        returns == [i \in 1..n |-> snapshots[i].return]
        sorted == SortSeq(returns, <)
        valueAtRisk == sorted[(n * 5) \div 100 + 1]
        tail == SelectSeq(sorted, LAMBDA r : r <= valueAtRisk)
        fall == Drawdown(navs)
    IN [totalReturn   |-> <<navs[n] - navs[1], navs[1]>>,
        variance      |-> <<Spread(returns), n * (n - 1)>>,
        maxDrawdown   |-> fall.worst,
        drawdownDays  |-> fall.longest,
        trades        |-> TradeMetrics(trades),
        avgPositions  |-> <<Total([i \in 1..n |-> snapshots[i].positions]), n>>,
        maxPositions  |-> Max({s.positions : s \in ToSet(snapshots)}),
        valueAtRisk   |-> valueAtRisk,
        conditional   |-> <<Total(tail), Len(tail)>>]

Metrics(snapshots, trades) ==
    IF Len(snapshots) < 2 THEN <<>> ELSE <<ComputeMetrics(snapshots, trades)>>

\* Daily returns in percent.
Returns(levels) == [i \in 1..(Len(levels) - 1) |-> (100 * levels[i + 1]) \div levels[i] - 100]

\* Strategy and benchmark returns are lined up by position, not by date.
BenchmarkComparison(navs, closes) ==
    LET n == Min({Len(navs), Len(closes)}) - 1
        s == SubSeq(Returns(navs), 1, n)
        b == SubSeq(Returns(closes), 1, n)
        active == [i \in 1..n |-> s[i] - b[i]]
        cov == n * Total([i \in 1..n |-> s[i] * b[i]]) - Total(s) * Total(b)
        On(days, r) == Total([i \in 1..n |-> IF i \in days THEN r[i] ELSE 0])
        Capture(days) == IF On(days, b) = 0 THEN <<0, 1>> ELSE <<100 * On(days, s), On(days, b)>>
    IN [beta        |-> IF n <= 1 \/ Spread(b) = 0 \/ (Spread(s) = 0 /\ Total(s) = Total(b))
                        THEN <<1, 1>> ELSE <<cov, Spread(b)>>,
        tracking    |-> IF n <= 1 THEN 0 ELSE Spread(active),
        drawdown    |-> Drawdown(closes).worst,
        upCapture   |-> Capture({i \in 1..n : b[i] > 0}),
        downCapture |-> Capture({i \in 1..n : b[i] < 0})]

-----------------------------------------------------------------------------
(* Noise floor and verdicts.  A run is [bundle, metrics, benchmarks], metrics  *)
(* <<>> or <<[name -> value]>>, benchmarks a function symbol -> alpha.          *)

MinProbes == 3

MetricFloor(values) == [n |-> Len(values), values |-> values]

NoiseFloor(runs, bundle) ==
    LET shared == {s \in UNION {DOMAIN r.benchmarks : r \in ToSet(runs)} :
                      \A r \in ToSet(runs) : s \in DOMAIN r.benchmarks}
        names == DOMAIN runs[1].metrics[1]
    IN [bundle |-> bundle, n |-> Len(runs),
        metrics |-> [m \in names \cup shared |->
                        MetricFloor([i \in DOMAIN runs |->
                            IF m \in names THEN runs[i].metrics[1][m] ELSE runs[i].benchmarks[m]])]]

\* Two-sided critical values of Student's t for 2 to 29 degrees of freedom.
TCritical005 == <<4303, 3182, 2776, 2571, 2447, 2365, 2306, 2262, 2228, 2201, 2179, 2160, 2145, 2131,
                  2120, 2110, 2101, 2093, 2086, 2080, 2074, 2069, 2064, 2060, 2056, 2052, 2048, 2045>>
TCritical032 == <<1386, 1250, 1190, 1156, 1134, 1119, 1108, 1100, 1093, 1088, 1083, 1079, 1076, 1074,
                  1071, 1069, 1067, 1066, 1064, 1063, 1061, 1060, 1059, 1058, 1058, 1057, 1056, 1055>>

Thresholds(n, corrected) ==
    IF corrected /\ n - 1 \in 2..29 THEN <<TCritical005[n - 2], TCritical032[n - 2]>> ELSE <<2000, 1000>>

\* |delta| / stddev > threshold / 1000, squared.
Exceeds(delta, floor, threshold) ==
    (delta * delta) * (floor.n * (floor.n - 1)) * 1000000 > threshold * threshold * Spread(floor.values)

ZeroNoise(delta, floor) == Spread(floor.values) = 0 /\ delta # 0

Label(delta, floor, thresholds) ==
    IF Spread(floor.values) = 0 THEN "WITHIN NOISE"
    ELSE IF Exceeds(delta, floor, thresholds[1]) THEN "LIKELY SIGNAL"
    ELSE IF Exceeds(delta, floor, thresholds[2]) THEN "POSSIBLE SIGNAL"
    ELSE "WITHIN NOISE"

\* deltas: [metric -> difference].  <<>> when a constant metric moved.
Verdicts(deltas, nf, corrected) ==
    LET judged == DOMAIN deltas \cap DOMAIN nf.metrics
        thresholds == Thresholds(nf.n, corrected)
    IN IF \E m \in judged : ZeroNoise(deltas[m], nf.metrics[m]) THEN <<>>
       ELSE <<[m \in judged |-> Label(deltas[m], nf.metrics[m], thresholds)]>>

\* probe_noise: fresh runs only, and never over a floor that exists.
ProbeNoise(existing, runs, bundle, force) ==
    IF Len(runs) < MinProbes THEN [exit |-> 1, stored |-> existing]
    ELSE IF existing # <<>> /\ ~force THEN [exit |-> 0, stored |-> existing]
    ELSE IF \E r \in ToSet(runs) : r.metrics = <<>> THEN [exit |-> 2, stored |-> existing]
    ELSE [exit |-> 0, stored |-> <<NoiseFloor(runs, bundle)>>]

StaleAfterDays == 30

Experiment(stored, age, baseline, treatment, corrected) ==
    IF stored = <<>> THEN [outcome |-> "noFloor"]
    ELSE LET both == IF <<>> \in {baseline.metrics, treatment.metrics} THEN {}
                     ELSE DOMAIN baseline.metrics[1] \cap DOMAIN treatment.metrics[1]
             shared == DOMAIN baseline.benchmarks \cap DOMAIN treatment.benchmarks
             deltas == [m \in both \cup shared |->
                           IF m \in both THEN treatment.metrics[1][m] - baseline.metrics[1][m]
                           ELSE treatment.benchmarks[m] - baseline.benchmarks[m]]
             verdicts == Verdicts(deltas, stored[1], corrected)
         IN [outcome |-> IF verdicts = <<>> THEN "zeroNoise" ELSE "judged",
             verdicts |-> verdicts, stale |-> age > StaleAfterDays,
             bundleMismatch |-> stored[1].bundle # baseline.bundle]

-----------------------------------------------------------------------------
(* Calendars.  Day 0 is a Monday. *)
Weekday(d) == d % 7 < 5

StepDays == [weekly |-> 7, biweekly |-> 14, monthly |-> 30]

CountRebalanceDays(start, end, frequency) ==
    LET step == IF frequency = "daily" THEN 1 ELSE StepDays[frequency]
        hits == Cardinality({d \in start..end : (d - start) % step = 0 /\ Weekday(d)})
    IN IF frequency = "daily" THEN hits ELSE Max({hits, 1})

TradingSteps == [daily |-> 1, weekly |-> 5, biweekly |-> 10, monthly |-> 21]

RebalanceSchedule(days, frequency) ==
    {days[i] : i \in {j \in DOMAIN days : (j - 1) % TradingSteps[frequency] = 0}}

\* costPerCall in thousandths of a dollar, by analyst.
ExperimentCost(topN, rebalances, costPerCall, runs) ==
    [calls |-> topN * rebalances * Cardinality(DOMAIN costPerCall) * runs,
     cost |-> topN * rebalances * runs
                * FoldSet(LAMBDA a, acc : costPerCall[a] + acc, 0, DOMAIN costPerCall)]

\* The day that is step weekdays after d.
VisitAfter(d, step) ==
    CHOOSE e \in d..(d + 2 * step + 2) :
        /\ Weekday(e)
        /\ Cardinality({x \in (d + 1)..e : Weekday(x)}) = step

FirstWeekday(d) == CHOOSE e \in d..(d + 2) : Weekday(e) /\ \A x \in d..(e - 1) : ~Weekday(x)

\* The days the screening-only backtest visits.
ScreeningDays(start, end, step) ==
    LET visit[k \in Nat] == IF k = 0 THEN FirstWeekday(start) ELSE VisitAfter(visit[k - 1], step)
    IN {d \in {visit[k] : k \in 0..(end - start)} : d <= end}
=============================================================================
