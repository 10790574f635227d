---------------------------- MODULE WorkedCases ----------------------------
(***************************************************************************)
(* Worked cases of the pure parts of the system: every reachable state     *)
(* holds one case of one topic, and the properties say what must hold of   *)
(* it.  Here are all the cases and the properties that are proved for any  *)
(* input; Calculations adds the others.                                    *)
(***************************************************************************)
EXTENDS AnalystWeights, PointInTime, Screening, PortfolioDecision, Scoring, BacktestStatistics

CONSTANT Depth      \* the length of the sequences tried

ASSUME CasesAssumption == Quarter \in Nat /\ Depth \in Nat \ {0}

VARIABLE case

NoCase == case = [topic |-> "none"]

Topic(t) == case.topic = t

-----------------------------------------------------------------------------
(* What may be known on a day: the universe, and the filings of a company *)

Reports == {10, 20, 30, 40}
Lists == {<<>>, <<1, 2>>, <<3>>}

PickUniverse ==
    /\ Topic("none")
    /\ \E dates \in SUBSET Reports : \E snapshots \in [dates -> Lists], day \in {15, 20, 25, 40} :
         case' = [topic |-> "universe", snapshots |-> snapshots, day |-> day]

\* The branch's list: as it was on any day of the backtest, and as it is now.
BranchThen == <<8, 9>>
BranchNow == <<9, 3>>

\* If the latest report up to a day has holdings, the universe of the day is
\* what the reports up to it say, whatever came after and whatever the branch
\* lists now, and it is within what was loaded beforehand if the report is of
\* the period.  Without one the universe is what the branch lists now: there
\* the backtest looks ahead.
UniverseAsOf ==
    Topic("universe") =>
        LET all == case.snapshots
            known == [d \in {e \in DOMAIN all : e <= case.day} |-> all[d]]
            latest == Max(DOMAIN known)
            today == Holdings(all, BranchNow, case.day, 2)
        IN  IF known # <<>> /\ known[latest] # <<>>
            THEN /\ today = Holdings(known, BranchThen, case.day, 2)
                 /\ latest >= 15 => ToSet(today) \subseteq Preloaded(all, BranchNow, 15, 40, 2)
            ELSE today = Heaviest(BranchNow, 2)

\* Quarters 1 to 6, the fourth reported annually, and two later repeats of the
\* second, one poorer and one richer.
Filed(p, lag, form, v) == [period |-> p, filed |-> p * Quarter + lag, form |-> form, values |-> v]
Figures(n) == [revenue |-> 100 + n, netIncome |-> 10 * n, grossProfit |-> 40 - n, eps |-> n,
               operatingCash |-> 20, equity |-> 50, liabilities |-> 30, shares |-> 2]
Richer(n) == [key \in DOMAIN Figures(n) \cup {"capex"} |-> IF key = "capex" THEN 3 ELSE Figures(n)[key]]
Pool == {Filed(1, 20, "10-Q", Figures(1)), Filed(2, 20, "10-Q", Figures(2)),
         Filed(3, 20, "10-Q", Figures(3)), Filed(4, 40, "10-K", Figures(9)),
         Filed(5, 20, "10-Q", Figures(4)), Filed(6, 20, "10-Q", Figures(6)),
         Filed(2, 150, "10-Q", [revenue |-> 7, equity |-> 1]),
         Filed(2, 160, "10-Q", Richer(5))}
Closes == [d \in {Quarter * k + 5 : k \in 1 .. 7} |-> 20 + (d % 7)]

PickFilings ==
    /\ Topic("none")
    /\ \E filings \in SUBSET Pool, k \in 2 .. 6, r \in {19, 20} :
         case' = [topic |-> "filings", filings |-> filings, day |-> Quarter * k + r]

\* A later filing that repeats a period with more figures replaces, for all
\* days, the one that was public first.
Replaced(filings, day) ==
    \E f, g \in filings : /\ f.period = g.period /\ f.form = g.form
                          /\ f.filed <= day /\ g.filed > day
                          /\ Cardinality(DOMAIN g.values) > Cardinality(DOMAIN f.values)

KnowsOnly(filings, day) ==
    LET public == {f \in filings : f.filed <= day}
        known == [d \in {e \in DOMAIN Closes : e <= day} |-> Closes[d]]
        quarters == {f \in Kept(public) : f.form = "10-Q" /\ "revenue" \in DOMAIN f.values}
        annual == {f \in public : f.form = "10-K"}
    IN  /\ MetricsAsOf(filings, Closes, day, 4 * Quarter) = MetricsAsOf(public, known, day, 4 * Quarter)
        /\ annual = {} /\ Cardinality({f.period : f \in quarters}) < 4 =>
             ComputeTtm(filings, "revenue", day) = NoFigure

FilingsAsOf ==
    Topic("filings") /\ ~Replaced(case.filings, case.day) => KnowsOnly(case.filings, case.day)

\* What a backtest decides on a day, the universe and the figures of a
\* company, is what it would decide knowing nothing that came later, except
\* for today's list of a branch without a report by then, and for a period
\* repeated later with more figures (provider.py refresh, xbrl_mapping.py
\* compute_ttm).
LookAheadConfined == UniverseAsOf /\ FilingsAsOf

-----------------------------------------------------------------------------
(* Weights: of the analysts, of the positions, and the score of a decision *)

PickWeights ==
    /\ Topic("none")
    /\ \E target \in [ANALYSTS -> {1, 2, 3, 4, 7, 11, 15}], prev \in [ANALYSTS -> {1, 2, 4, 7, 11, 15, 18}] :
         /\ Sum(target) \in 18 .. 22 /\ Sum(prev) = WeightUnit
         /\ case' = [topic |-> "weights", target |-> target, prev |-> prev]

PickBook ==
    /\ Topic("none")
    /\ \E conviction \in [1 .. 4 -> {0, 10, 30, 60, 90}], held \in SUBSET (1 .. 4) :
         case' = [topic |-> "book", conviction |-> conviction, held |-> held]

KnownOrNot == {<<>>, <<-10>>, <<0>>, <<25>>}

PickBasket ==
    /\ Topic("none")
    /\ \E weights \in [1 .. 3 -> 1 .. 3], returns \in [1 .. 3 -> KnownOrNot] :
         case' = [topic |-> "basket", weights |-> weights, returns |-> returns]

PickCorrelation ==
    /\ Topic("none")
    /\ \E scores, returns \in [1 .. (Depth - 1) -> 1 .. 3] :
         case' = [topic |-> "correlation", scores |-> scores, returns |-> returns]

\* The weights of a week sum to exactly one and respect the floor, and as
\* long as the bounds of the week can be met none moves further than they
\* allow, but for the one that takes the unit rounding leaves.
MovesSlowly(target, prev) ==
    LET w == ProjectWeights(target, prev)
    IN  /\ Sum(w) = WeightUnit
        /\ \A a \in ANALYSTS : w[a] >= WeightFloor
        /\ Feasible(prev) =>
             \E taker \in ANALYSTS :
                /\ w[taker] - prev[taker] \in -(MaxShift + 1) .. MaxShift + 1
                /\ \A a \in ANALYSTS \ {taker} : w[a] - prev[a] \in -MaxShift .. MaxShift

WeightsMoveSlowly == Topic("weights") => MovesSlowly(case.target, case.prev)

\* A book has at most as many names as it may hold, none above the cap, never
\* more than the capital less the buffer, and more conviction never means a
\* smaller position.
WithinLimits(scores, held) ==
    LET chosen == Selected(scores, held)
        w == SizePositions(scores, chosen)
    IN  /\ Cardinality(chosen) <= MaxHoldings
        /\ SumFunction(w) <= Unit - CashBuffer
        /\ \A s, t \in chosen :
             /\ Unit * w[s] <= PositionCap * (Unit - CashBuffer)
             /\ scores[s].conviction > scores[t].conviction => w[s] >= w[t]

BookWithinLimits ==
    Topic("book") =>
        WithinLimits([s \in 1 .. 4 |-> [score |-> case.conviction[s], conviction |-> case.conviction[s]]],
                     case.held)

\* The return of a decision is an average of the returns of its priced stocks.
IsAverage(weights, returns) ==
    LET r == BasketReturn(weights, returns)
        known == {returns[s][1] : s \in Priced(weights, returns)}
    IN  known # {} => /\ r[1] >= Min(known) * r[2]
                      /\ r[1] <= Max(known) * r[2]

BasketIsAnAverage == Topic("basket") => IsAverage(case.weights, case.returns)

\* A rank correlation lies within -1 and 1, does not depend on which of the
\* two is called first, and is 1 of a sequence with itself.
Correlates(scores, returns) ==
    LET r == Spearman(scores, returns)
        self == Spearman(scores, scores)
    IN  /\ r # <<>> => /\ r[1] * r[1] <= r[2] * r[3]
                       /\ r = <<Spearman(returns, scores)[1], r[2], r[3]>>
        /\ self # <<>> => self[1] = self[2]

CorrelationSound == Topic("correlation") => Correlates(case.scores, case.returns)

\* The weights a decision uses and the measure it is judged by keep their
\* bounds whatever comes in (adaptive_weights.py project_weights,
\* portfolio_manager.py size_positions, attribution.py compute_report).
WeightsSound == WeightsMoveSlowly /\ BookWithinLimits /\ BasketIsAnAverage /\ CorrelationSound

-----------------------------------------------------------------------------
(* Screening *)

Stocks == <<1, 2, 3>>
Sound == [volume |-> 60, marketCap |-> 30, daysSinceEarnings |-> 40, volatility |-> 20,
          debtToEquity |-> 100, revenueGrowth |-> 10, earningsGrowth |-> 10, surprise |-> 0,
          return6m |-> 5, decliningQuarters |-> 0, peg |-> 100, pe |-> 15, pb |-> 2, fcfYield |-> 4,
          dividendYield |-> 2, roe |-> 12, price |-> 150, high |-> 200, low |-> 100]
Levels == {Missing, -20, 0, 55, 600}
LowerIsBetter == {"daysSinceEarnings", "volatility", "debtToEquity", "decliningQuarters", "pe", "pb"}
HigherIsBetter == {"volume", "marketCap", "revenueGrowth", "earningsGrowth", "surprise", "return6m",
                   "fcfYield", "dividendYield", "roe"}

PickScreen ==
    /\ Topic("none")
    /\ \E branch \in {"growth", "value"}, key \in LowerIsBetter \cup HigherIsBetter,
          level \in [1 .. 3 -> Levels] :
         case' = [topic |-> "screen", branch |-> branch, key |-> key,
                  metrics |-> [s \in 1 .. 3 |-> [Sound EXCEPT ![key] = level[s]]]]

-----------------------------------------------------------------------------
(* Scoring *)

Names == 1 .. 6
Reversed == [s \in Names |-> 7 - s]
Straight == [s \in Names |-> s]

PickScores ==
    /\ Topic("none")
    /\ \E n \in {4, 5, 6} : \E scores \in [1 .. n -> {2, 5, 8}] :
         case' = [topic |-> "scores", scores |-> scores]

PickAnswer ==
    /\ Topic("none")
    /\ \/ \E answer \in UNION {[1 .. k -> 1 .. 6] : k \in {4, 5}} :
            case' = [topic |-> "answer", answer |-> answer, scores |-> [s \in 1 .. 5 |-> s + 3]]
       \/ \E turn \in 0 .. 9, length \in 7 .. 10 :
            case' = [topic |-> "answer", scores |-> [s \in 1 .. 10 |-> 4],
                     answer |-> [i \in 1 .. length |-> ((i + turn) % 10) + 1]]

Story(n, p, scope) == [story |-> n, published |-> p, scope |-> scope]

PickNews ==
    /\ Topic("none")
    /\ \E company \in [1 .. 3 -> {Story(n, p, "c") : n \in 1 .. 3, p \in 1 .. 2}],
          manual \in {<<>>, <<Story(1, 1, "market")>>, <<Story(2, 1, "ACME"), Story(3, 1, "OTHER")>>},
          market \in {<<>>, <<Story(3, 1, "m"), Story(4, 1, "m")>>} :
         case' = [topic |-> "news", company |-> company, manual |-> manual, market |-> market]

Rates == {Unknown, -30, -5, 0, 6, 25, 60}
PickRules ==
    /\ Topic("none")
    /\ \E change, growth \in Rates, age \in {10, 60, 90}, up \in BOOLEAN, gain, loss \in {0, 3, 9} :
         case' = [topic |-> "rules", change |-> change, growth |-> growth, age |-> age,
                  up |-> up, gain |-> gain, loss |-> loss]

\* Ranks follow the scores and nothing else; a small universe stays unranked.
FollowsScores(scores, order, other) ==
    LET rank == DeterministicRank(scores, order)
    IN  /\ rank = DeterministicRank(scores, other)
        /\ \A s, t \in DOMAIN scores :
             /\ scores[s] = scores[t] => rank[s] = rank[t]
             /\ scores[s] > scores[t] => rank[s] >= rank[t]
             /\ rank[s] \in 1 .. 10

RanksFollowScores == Topic("scores") => FollowsScores(case.scores, Straight, Reversed)

\* Better figures never lower the score of a rule-based analyst.
NeverLowers(worse, better, c) ==
    LET fundamentals(g) == FundamentalsSignal(<<[revenueGrowth |-> g, roe |-> g]>>).score
        news(g) == NewsSignal(g, c.age, c.growth).score
        technical(g, above) == TechnicalSignal(<<[return |-> g, gain |-> c.gain, loss |-> c.loss,
                                                  above50 |-> above, volatility |-> 20]>>).score
    IN  /\ fundamentals(better) >= fundamentals(worse)
        /\ news(better) >= news(worse)
        /\ technical(better, TRUE) >= technical(worse, c.up)
        /\ {fundamentals(better), news(better), technical(better, TRUE)} \subseteq 1 .. 10

RulesMonotone ==
    Topic("rules") /\ case.change # Unknown =>
        \A better \in Rates \ {Unknown} : better >= case.change => NeverLowers(case.change, better, case)

\* From figures to scores, ranks, weights and positions, order and bounds are
\* kept, and nothing but the figures decides (quantitative_analysts.py,
\* ranker.py DeterministicRanker, and WeightsSound).
ScoringSound == RanksFollowScores /\ RulesMonotone /\ WeightsSound

-----------------------------------------------------------------------------
(* Comparison of two runs *)

Cells == {<<1, 1, 1>>, <<1, 2, 1>>}
Signals == UNION {[1 .. n -> [key : Cells, score : {3, 7}, confidence : {2, 5}]] : n \in 0 .. 2}
RunOf(signals, skills) ==
    [config |-> [start |-> 1, end |-> 9, topN |-> 5, frequency |-> "weekly", branch |-> "growth", callCap |-> 9],
     sha |-> "a", skills |-> skills, agents |-> <<>>, metrics |-> <<[sharpe |-> Len(signals)]>>,
     benchmarks |-> <<>>, signals |-> signals]

PickRuns ==
    /\ Topic("none")
    /\ \E b, t \in Signals, floor \in {0, 3} :
         case' = [topic |-> "runs", baseline |-> RunOf(b, "old"), treatment |-> RunOf(t, "new"), floor |-> floor]

-----------------------------------------------------------------------------
(* Statistics of a run *)

PickNavs ==
    /\ Topic("none")
    /\ \E navs \in [1 .. Depth -> {8, 9, 10, 12}] : case' = [topic |-> "navs", navs |-> navs]

PickTrips ==
    /\ Topic("none")
    /\ \E prices \in [1 .. 4 -> 1 .. 3], qty \in [1 .. 2 -> 1 .. 2], symbols \in [1 .. 2 -> 1 .. 2] :
         case' = [topic |-> "trips",
                  trades |-> [i \in 1 .. 4 |-> [symbol |-> symbols[(i + 1) \div 2],
                                                side |-> IF i % 2 = 1 THEN "buy" ELSE "sell",
                                                quantity |-> qty[(i + 1) \div 2], price |-> prices[i]]]]

PickProbes ==
    /\ Topic("none")
    /\ \E n \in {3, 4}, corrected \in BOOLEAN : \E values \in [1 .. n -> 0 .. 4] :
         case' = [topic |-> "probes", values |-> values, corrected |-> corrected]

PickCalendar ==
    /\ Topic("none")
    /\ \E start \in 0 .. 13, length \in 0 .. 40, frequency \in {"daily", "weekly", "biweekly"} :
         case' = [topic |-> "calendar", start |-> start, end |-> start + length, frequency |-> frequency]

\* The one-pass drawdown is the worst fall between any two days, and as long
\* as the longest time without a new peak.
IsWorstFall(navs, fall) ==
    LET days == DOMAIN navs
        quiet == {p \in days \X days : /\ p[1] <= p[2]
                                       /\ \A k \in p[1] .. p[2] : \E j \in 1 .. k :
                                            navs[j] >= navs[k] /\ (j < k \/ k = 1)}
    IN  /\ \A i, j \in days : i <= j => ~Over(<<navs[i] - navs[j], navs[i]>>, fall.worst)
        /\ \E i, j \in days : i <= j /\ ~Over(fall.worst, <<navs[i] - navs[j], navs[i]>>)
        /\ fall.longest = Max({0} \cup {p[2] - p[1] + 1 : p \in quiet})

\* A benchmark set against itself has beta one and nothing left to track.
TracksItself(navs, factor) ==
    LET self == BenchmarkComparison([i \in DOMAIN navs |-> factor * navs[i]], navs)
    IN  /\ self.beta[1] = self.beta[2] /\ self.tracking = 0
        /\ self.upCapture[1] = 100 * self.upCapture[2] \/ self.upCapture = <<0, 1>>

DrawdownIsWorstFall ==
    Topic("navs") => IsWorstFall(case.navs, Drawdown(case.navs)) /\ TracksItself(case.navs, 3)

\* Two of the probes themselves, runs of the same prompts, are never a likely
\* signal, and the correction for few probes never strengthens a verdict.
ProbeRun(v) == [bundle |-> "live", metrics |-> <<[sharpe |-> v]>>, benchmarks |-> [spy \in {"SPY"} |-> v]]
Strong(label) == CASE label = "LIKELY SIGNAL" -> 2 [] label = "POSSIBLE SIGNAL" -> 1 [] OTHER -> 0

StaysNoise(values, corrected) ==
    LET n == Len(values)
        probe == ProbeNoise(<<>>, [i \in 1 .. n |-> ProbeRun(values[i])], "live", FALSE)
        judge(i, j, c) == Experiment(probe.stored, 0, ProbeRun(values[i]), ProbeRun(values[j]), c).verdicts
    IN  \A i, j \in 1 .. n :
          LET plain == judge(i, j, FALSE)
              careful == judge(i, j, TRUE)
          IN  /\ plain # <<>> /\ careful # <<>>
              /\ n = 3 \/ corrected => judge(i, j, corrected)[1]["sharpe"] # "LIKELY SIGNAL"
              /\ \A m \in {"sharpe", "SPY"} : Strong(careful[1][m]) <= Strong(plain[1][m])
              /\ judge(j, i, TRUE) = careful

NoiseIsNotSignal == Topic("probes") => StaysNoise(case.values, case.corrected)

\* The worst fall reported of a backtest is the worst there was, and what is
\* called a signal stands out from the noise (analytics.py compute_metrics,
\* statistics.py compute_verdicts).
StatisticsSound == DrawdownIsWorstFall /\ NoiseIsNotSignal

-----------------------------------------------------------------------------
PickCase ==
    \/ PickScreen \/ PickUniverse \/ PickFilings \/ PickScores \/ PickAnswer \/ PickNews \/ PickRules
    \/ PickWeights \/ PickBook \/ PickBasket \/ PickCorrelation \/ PickRuns
    \/ PickNavs \/ PickTrips \/ PickProbes \/ PickCalendar

Cases == NoCase /\ [][PickCase]_case
=============================================================================
