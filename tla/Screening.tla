------------------------------- MODULE Screening -------------------------------
(***************************************************************************)
(* Which stocks a run looks at: the universe of a branch on a day          *)
(* (app/modules/equities/universe/provider.py) and the filters it goes     *)
(* through (universe/screener.py, composed by _build_screener in           *)
(* equities/service.py).                                                   *)
(*                                                                         *)
(* A metric is an integer, a ratio or rate in percent, or Missing; a       *)
(* universe is a sequence of symbols, heaviest first, and a filter keeps   *)
(* the order.  A snapshot directory is a function from report dates to     *)
(* universes.                                                              *)
(*                                                                         *)
(* An operator named Bug_X is a wrong variant of X that no definition      *)
(* uses: a mistake that one of the properties has to catch.                *)
(***************************************************************************)
EXTENDS Integers, Sequences, FiniteSets, FiniteSetsExt, SequencesExt

Missing == -999

(* _get_metric: the metric of a stock, the default when it is missing or   *)
(* the data service raised. *)
Metric(m, s, key, default) == IF m[s][key] = Missing THEN default ELSE m[s][key]

Keep(stocks, passing) == SelectSeq(stocks, LAMBDA s : s \in passing)

-----------------------------------------------------------------------------
(* The kinds of filter *)

(* At least the bound; a missing metric counts zero. *)
AtLeast(stocks, m, key, bound) ==
    Keep(stocks, {s \in ToSet(stocks) : Metric(m, s, key, 0) >= bound})

(* The cutoff of a percentile filter: the value at an index, from 0, of the *)
(* sorted values of the stocks that have one. *)
Known(stocks, m, key) == {s \in ToSet(stocks) : m[s][key] # Missing}
Nth(S, m, key, i) ==
    LET values == SetToSortSeq({<<Metric(m, s, key, 0), s>> : s \in S},
                      LAMBDA x, y : x[1] <= y[1])
    IN  values[i + 1][1]

(* PEFilter and PBFilter: stocks without the metric are out, and the cutoff *)
(* is one past the percentile.                                              *)
Bug_CheapestShare(stocks, m, key, percentile) ==
    LET n     == Len(stocks)
        index == Min({(n * percentile) \div 100, n - 1})
    IN  IF n = 0 THEN <<>>
        ELSE Keep(stocks, {s \in ToSet(stocks) :
                             Metric(m, s, key, 0) <= Nth(ToSet(stocks), m, key, index)})

CheapestShare(stocks, m, key, percentile) ==
    LET valid == Known(stocks, m, key)
        n     == Cardinality(valid)
        index == Min({(n * percentile) \div 100, n - 1})
    IN  IF n = 0 THEN <<>>
        ELSE Keep(stocks, {s \in valid : m[s][key] <= Nth(valid, m, key, index)})

-----------------------------------------------------------------------------
(* The filters, with the bounds of ScreeningConfig *)

LiquidityFilter(stocks, m) == AtLeast(stocks, m, "volume", 50)
MarketCapFilter(stocks, m) == AtLeast(stocks, m, "marketCap", 20)

EarningsRecencyFilter(stocks, m) ==
    Keep(stocks, {s \in Known(stocks, m, "daysSinceEarnings") : m[s].daysSinceEarnings <= 120})

(* Keeps the share of a percentile, at least one stock, and every tie with *)
(* the last one kept.                                                      *)
VolatilityFilter(stocks, m) ==
    LET all  == ToSet(stocks)
        n    == Len(stocks)
        kept == Max({1, (n * 95) \div 100})
    IN  IF n = 0 \/ kept >= n THEN stocks
        ELSE Keep(stocks, {s \in all : Metric(m, s, "volatility", 0)
                             <= Nth(all, m, "volatility", kept - 1)})

LeverageFilter(stocks, m) ==
    Keep(stocks, {s \in ToSet(stocks) : m[s].debtToEquity = Missing \/ m[s].debtToEquity <= 500})

RevenueGrowthFilter(stocks, m)    == AtLeast(stocks, m, "revenueGrowth", 5)
EarningsGrowthFilter(stocks, m)   == AtLeast(stocks, m, "earningsGrowth", 0)
EarningsSurpriseFilter(stocks, m) == AtLeast(stocks, m, "surprise", -5)
MomentumFilter(stocks, m)         == AtLeast(stocks, m, "return6m", -10)

GrossMarginTrendFilter(stocks, m) ==
    Keep(stocks, {s \in ToSet(stocks) : m[s].decliningQuarters = Missing \/ m[s].decliningQuarters < 2})

PEGFilter(stocks, m) ==
    Keep(stocks, {s \in Known(stocks, m, "peg") : m[s].peg \in 0 .. 300})

PEFilter(stocks, m) == CheapestShare(stocks, m, "pe", 60)
PBFilter(stocks, m) == CheapestShare(stocks, m, "pb", 60)

FCFYieldFilter(stocks, m)      == AtLeast(stocks, m, "fcfYield", 0)
DividendYieldFilter(stocks, m) == AtLeast(stocks, m, "dividendYield", 1)
ROEFilter(stocks, m)           == AtLeast(stocks, m, "roe", 8)

(* The place of the price in its 52-week range, which must have one. *)
PriceRangeFilter(stocks, m) ==
    Keep(stocks, {s \in Known(stocks, m, "price") \cap Known(stocks, m, "high") \cap Known(stocks, m, "low") :
                    /\ m[s].high # m[s].low
                    /\ (m[s].price - m[s].low) * 100 <= 90 * (m[s].high - m[s].low)})

SharedFilters(stocks, m) ==
    LeverageFilter(VolatilityFilter(EarningsRecencyFilter(MarketCapFilter(
        LiquidityFilter(stocks, m), m), m), m), m)

GrowthFilters(stocks, m) ==
    PEGFilter(MomentumFilter(EarningsSurpriseFilter(GrossMarginTrendFilter(EarningsGrowthFilter(
        RevenueGrowthFilter(stocks, m), m), m), m), m), m)

ValueFilters(stocks, m) ==
    PriceRangeFilter(ROEFilter(DividendYieldFilter(FCFYieldFilter(PBFilter(
        PEFilter(stocks, m), m), m), m), m), m)

(* _build_screener and Screener.screen. *)
Screen(branch, stocks, m) ==
    IF branch = "growth" THEN GrowthFilters(SharedFilters(stocks, m), m)
                         ELSE ValueFilters(SharedFilters(stocks, m), m)

-----------------------------------------------------------------------------
(* UniverseProvider *)

Heaviest(stocks, topN) == SubSeq(stocks, 1, Min({Len(stocks), topN}))

(* _find_snapshot_csv: the latest report on or before the day. *)
Bug_SnapshotFor(snapshots, day) == {d \in DOMAIN snapshots : \A e \in DOMAIN snapshots : e <= d}

SnapshotFor(snapshots, day) ==
    {d \in DOMAIN snapshots : d <= day /\ \A e \in DOMAIN snapshots : e <= day => e <= d}

(* refresh with an as-of day: a snapshot that is not empty, else csv, the  *)
(* list of the branch as it is when the code runs, whatever the day.       *)
Holdings(snapshots, csv, day, topN) ==
    LET found == {d \in SnapshotFor(snapshots, day) : snapshots[d] # <<>>}
    IN  Heaviest(IF found = {} THEN csv ELSE snapshots[CHOOSE d \in found : TRUE], topN)

(* get_snapshot_symbols, and the symbols BacktestContext.build preloads.  *)
SnapshotSymbols(snapshots, first, last, topN) ==
    UNION {ToSet(Heaviest(snapshots[d], topN)) : d \in DOMAIN snapshots \cap (first .. last)}

Preloaded(snapshots, csv, first, last, topN) ==
    LET found == SnapshotSymbols(snapshots, first, last, topN)
    IN  IF found = {} THEN ToSet(csv) ELSE found
=============================================================================
