--------------------------- MODULE RunComparison ---------------------------
(***************************************************************************)
(* The comparison of two saved backtest runs (backtest/comparison.py) and  *)
(* the command that prints it (scripts/compare_runs.py).  A run is a       *)
(* record                                                                  *)
(*   config     [start, end, topN, frequency, branch, callCap]             *)
(*   sha, skills                                                           *)
(*   agents     <<>> (a legacy run) or <<[analyst -> [model, temperature]]>>*)
(*   metrics    <<>> (None) or <<[metric -> value]>>                       *)
(*   benchmarks a sequence of [symbol, values]                             *)
(*   signals    a sequence of [key, score, confidence], a key being        *)
(*              <<date, symbol, analyst>> in numbers so that keys sort.    *)
(* Rendering of the numbers is left out; what a report shows is kept.      *)
(***************************************************************************)
EXTENDS Integers, Sequences, FiniteSets, SequencesExt, FiniteSetsExt

ConfigFields == <<"start", "end", "topN", "frequency", "branch", "callCap">>

\* Why the deltas may not be the prompts' doing; warnings, never errors.
CompatibilityWarnings(b, t) ==
    { <<"config", f>> : f \in {g \in ToSet(ConfigFields) : b.config[g] # t.config[g]} }
    \cup (IF b.sha # t.sha THEN {<<"sha">>} ELSE {})
    \cup (IF b.skills = t.skills THEN {<<"nothingToAttribute">>} ELSE {})
    \cup (IF <<>> \in {b.agents, t.agents} THEN {<<"agentsUnknown">>}
          ELSE {p \in (DOMAIN b.agents[1]) \X {"model", "temperature"} :
                  b.agents[1][p[1]][p[2]] # t.agents[1][p[1]][p[2]]})

Deltas(name, b, t) == {[name |-> Append(name, f), delta |-> t[f] - b[f]] : f \in DOMAIN b}

BenchmarkSymbols(run) == {bm.symbol : bm \in ToSet(run.benchmarks)}

\* The dict comprehension keeps the last entry of a symbol.
Benchmark(run, s) == run.benchmarks[Max({i \in DOMAIN run.benchmarks : run.benchmarks[i].symbol = s})]

MetricDeltas(b, t) ==
    (IF <<>> \in {b.metrics, t.metrics} THEN {} ELSE Deltas(<<>>, b.metrics[1], t.metrics[1]))
    \cup UNION {Deltas(<<s>>, Benchmark(b, s).values, Benchmark(t, s).values) :
                   s \in BenchmarkSymbols(b) \cap BenchmarkSymbols(t)}

\* A join on <<date, symbol, analyst>>; of signals that repeat a key the last counts.
Keys(run) == {s.key : s \in ToSet(run.signals)}
SignalAt(run, k) == run.signals[Max({i \in DOMAIN run.signals : run.signals[i].key = k})]

Before(a, b) == \E i \in DOMAIN a : a[i] < b[i] /\ \A j \in 1..(i - 1) : a[j] = b[j]
ByImpact(rows) == SetToSortSeq(rows, LAMBDA x, y : Before(<<-x.impact>> \o x.key, <<-y.impact>> \o y.key))

Both(b, t, k) == <<SignalAt(b, k), SignalAt(t, k)>>
Magnitude(n) == IF n < 0 THEN -n ELSE n

\* A row weighed by the treatment's confidence only.
Bug_DivergenceRow(b, t, k) ==
    LET p == Both(b, t, k)
    IN [key |-> k, delta |-> p[2].score - p[1].score, conviction |-> p[2].confidence,
        impact |-> Magnitude(p[2].score - p[1].score) * p[2].confidence]

DivergenceRow(b, t, k) ==
    LET p == Both(b, t, k)
        conviction == Max({p[1].confidence, p[2].confidence})
    IN [key |-> k, delta |-> p[2].score - p[1].score, conviction |-> conviction,
        impact |-> Magnitude(p[2].score - p[1].score) * conviction]

SignalDivergences(b, t, minConfidence) ==
    ByImpact({r \in {DivergenceRow(b, t, k) : k \in Keys(b) \cap Keys(t)} :
                 r.delta # 0 /\ r.conviction >= minConfidence})

ConvictionShifts(b, t) ==
    LET moved == {k \in Keys(b) \cap Keys(t) :
                     /\ SignalAt(b, k).score = SignalAt(t, k).score
                     /\ SignalAt(b, k).confidence # SignalAt(t, k).confidence}
    IN ByImpact({[key |-> k, delta |-> 0,
                  impact |-> Magnitude(SignalAt(t, k).confidence - SignalAt(b, k).confidence)
                               * SignalAt(b, k).score] : k \in moved})

\* Cells that only one of the runs has, in key order.
UniverseDrift(b, t) ==
    SetToSortSeq({<<k, "baseline">> : k \in Keys(b) \ Keys(t)}
                   \cup {<<k, "treatment">> : k \in Keys(t) \ Keys(b)},
                 LAMBDA x, y : Before(x[1], y[1]))

TotalUniqueSignals(b, t) == Cardinality(Keys(b) \cup Keys(t))

\* Strictly more than a tenth of all cells.
HighDrift(drift, total) == total # 0 /\ Len(drift) * 10 > total

CompareRuns(b, t, minConfidence, withShifts) ==
    LET drift == UniverseDrift(b, t)
    IN [warnings    |-> CompatibilityWarnings(b, t),
        deltas      |-> MetricDeltas(b, t),
        divergences |-> SignalDivergences(b, t, minConfidence),
        shifts      |-> IF withShifts THEN ConvictionShifts(b, t) ELSE <<>>,
        drift       |-> drift,
        highDrift   |-> HighDrift(drift, TotalUniqueSignals(b, t)),
        total       |-> TotalUniqueSignals(b, t)]

-----------------------------------------------------------------------------
\* What the reports show of a comparison.
Top(rows, n) == SubSeq(rows, 1, Min({n, Len(rows)}))

TextReport(cmp, metricsOnly, topN, showDrift) ==
    [banner    |-> cmp.highDrift,
     warnings  |-> cmp.warnings,
     metrics   |-> cmp.deltas,
     drilldown |-> IF metricsOnly THEN <<>> ELSE Top(cmp.divergences, topN) \o Top(cmp.shifts, topN),
     driftSize |-> Len(cmp.drift),
     driftList |-> IF showDrift THEN cmp.drift ELSE <<>>]

JsonReport(cmp) ==
    [warnings    |-> cmp.warnings,
     metrics     |-> cmp.deltas,
     divergences |-> cmp.divergences,
     shifts      |-> cmp.shifts,
     drift       |-> cmp.drift,
     driftShare  |-> IF cmp.total = 0 THEN 0 ELSE (100 * Len(cmp.drift)) \div cmp.total]

NoOverlap(b, t) == b.config.end < t.config.start \/ t.config.end < b.config.start

\* The command: exit code and report.  A side is <<>> when its file is missing.
CompareCommand(baseline, treatment, options) ==
    IF <<>> \in {baseline, treatment} THEN [exit |-> 1, report |-> <<>>]
    ELSE IF NoOverlap(baseline[1], treatment[1]) THEN [exit |-> 2, report |-> <<>>]
    ELSE LET cmp == CompareRuns(baseline[1], treatment[1], options.minConfidence, options.shifts)
         IN [exit |-> 0,
             report |-> <<IF options.json THEN JsonReport(cmp)
                          ELSE TextReport(cmp, options.metricsOnly, options.topN, options.showDrift)>>]
=============================================================================
