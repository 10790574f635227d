------------------------------ MODULE PointInTime ------------------------------
(***************************************************************************)
(* What a backtest may know of a company on a day: the metrics computed    *)
(* from its filings and closes (backtest/adapters/xbrl_mapping.py and      *)
(* historical_fundamentals.py).                                            *)
(*                                                                         *)
(* A filing is [period, filed, form, values]: the quarter it reports, the  *)
(* day it was filed, "10-K" or "10-Q", and the reported figures, a         *)
(* function on some of the keys.  closes is a function from days to        *)
(* closes.  Periods count quarters and Quarter is their length in days;    *)
(* ratios are percentages, rounded down.                                   *)
(*                                                                         *)
(* An operator named Bug_X is a wrong variant of X that no definition      *)
(* uses.                                                                   *)
(***************************************************************************)
EXTENDS Integers, Sequences, FiniteSets, FiniteSetsExt, SequencesExt

CONSTANTS
    Quarter,         \* the days of a quarter
    YearCloses,      \* closes looked at for the range (252)
    HalfCloses       \* closes looked at for the return (126)

ASSUME ClosesAssumption == YearCloses \in Nat \ {0} /\ HalfCloses \in Nat \ {0}

NoFigure == -99999

FlowItems  == {"revenue", "netIncome", "grossProfit", "operatingCash", "capex", "eps", "dividends"}
StockItems == {"assets", "liabilities", "equity", "longTermDebt", "shares"}

-----------------------------------------------------------------------------
(* build_quarterly_snapshots *)

Sooner(f, g) == f.filed < g.filed \/ (f.filed = g.filed /\ f.period < g.period)
Repeats(filings, f) == {g \in filings : g.period = f.period /\ g.form = f.form}

(* Of the filings that repeat a period in the same form, the first of      *)
(* those with the most figures is kept.                                    *)
Kept(filings) ==
    {f \in filings : \A g \in Repeats(filings, f) \ {f} :
        LET richer == Cardinality(DOMAIN g.values) - Cardinality(DOMAIN f.values)
        IN  richer < 0 \/ (richer = 0 /\ Sooner(f, g))}

(* The order of the snapshots: by filing day, and for one day in the order *)
(* in which their period and form first appeared.                          *)
FirstOf(filings, f) == CHOOSE g \in Repeats(filings, f) : \A h \in Repeats(filings, f) \ {g} : Sooner(g, h)
Later(filings, f, g) ==
    \/ f.filed > g.filed
    \/ f.filed = g.filed /\ Sooner(FirstOf(filings, g), FirstOf(filings, f))

LatestFirst(filings, S) ==
    LET place(f) == 1 + Cardinality({g \in S : Later(filings, g, f)})
    IN  [k \in 1 .. Cardinality(S) |-> CHOOSE f \in S : place(f) = k]

Bug_Available(filings, keys, day) ==
    LatestFirst(filings, {f \in Kept(filings) : f.period * Quarter <= day /\ keys \subseteq DOMAIN f.values})

Available(filings, keys, day) ==
    LatestFirst(filings, {f \in Kept(filings) : f.filed <= day /\ keys \subseteq DOMAIN f.values})

-----------------------------------------------------------------------------
(* compute_ttm: going back from the latest filing, an annual one is the    *)
(* answer, and so is the sum of four different quarters.                   *)
Walk(available, key) ==
    FoldLeft(LAMBDA acc, f :
               IF acc.done \/ f.period \in acc.seen THEN acc
               ELSE IF f.form = "10-K" THEN [acc EXCEPT !.sum = f.values[key], !.done = TRUE]
               ELSE [sum  |-> acc.sum + f.values[key],
                     seen |-> acc.seen \cup {f.period},
                     done |-> Cardinality(acc.seen) = 3],
             [sum |-> 0, seen |-> {}, done |-> FALSE], available)

ComputeTtm(filings, key, day) ==
    LET walk == Walk(Available(filings, {key}, day), key)
    IN  IF walk.done THEN walk.sum ELSE NoFigure

LatestStockValue(filings, key, day) ==
    LET available == Available(filings, {key}, day)
    IN  IF available = <<>> THEN NoFigure ELSE available[1].values[key]

YoyGrowth(filings, key, day) ==
    LET now  == ComputeTtm(filings, key, day)
        then == ComputeTtm(filings, key, day - 4 * Quarter)
    IN  IF now = NoFigure \/ then \in {NoFigure, 0} THEN NoFigure
        ELSE (100 * (now - then)) \div (IF then < 0 THEN -then ELSE then)

(* get_latest_eps: the latest earnings per share, those of the same        *)
(* quarter of the year before, and when they were filed.                   *)
EpsIn(available) ==
    LET before == SelectSeq(available, LAMBDA f : f.period = available[1].period - 4)
    IN  IF available = <<>> THEN [latest |-> NoFigure, prior |-> NoFigure, filed |-> NoFigure]
        ELSE [latest |-> available[1].values.eps,
              prior  |-> IF before = <<>> THEN NoFigure ELSE before[1].values.eps,
              filed  |-> available[1].filed]

LatestEps(filings, day) == EpsIn(Available(filings, {"eps"}, day))

EpsChange(eps) ==
    IF eps.latest = NoFigure \/ eps.prior \in {NoFigure, 0} THEN NoFigure
    ELSE (100 * (eps.latest - eps.prior)) \div (IF eps.prior < 0 THEN -eps.prior ELSE eps.prior)

DaysSinceLastFiling(filings, day) ==
    LET available == Available(filings, {}, day)
    IN  IF available = <<>> THEN NoFigure ELSE day - available[1].filed

(* How many of the latest margins in a row are lower than the one before. *)
DecliningIn(available) ==
    LET usable  == SelectSeq(available, LAMBDA f : f.values.revenue # 0)
        falls(i) == usable[i].values.grossProfit * usable[i + 1].values.revenue
                    < usable[i + 1].values.grossProfit * usable[i].values.revenue
        run(k)   == \A i \in 1 .. k : falls(i)
    IN  Max({k \in 0 .. Max({0, Len(usable) - 1}) : run(k)})

DecliningQuarters(filings, day) == DecliningIn(Available(filings, {"grossProfit", "revenue"}, day))

-----------------------------------------------------------------------------
(* _compute_price_derived_metrics, over the closes of a window of days.    *)
Window(closes, day, length) == {d \in DOMAIN closes : d \in (day - length) .. day}

LastOf(days, n) == {d \in days : Cardinality({e \in days : e > d}) < n}

PriceMetrics(closes, day, length) ==
    LET days == Window(closes, day, length)
        year == LastOf(days, YearCloses)
        half == LastOf(days, HalfCloses)
    IN  IF days = {} THEN [high |-> NoFigure, low |-> NoFigure, return |-> NoFigure]
        ELSE [high   |-> Max({closes[d] : d \in year}),
              low    |-> Min({closes[d] : d \in year}),
              return |-> IF Cardinality(days) < 2 THEN NoFigure
                         ELSE (100 * (closes[Max(days)] - closes[Min(half)])) \div closes[Min(half)]]

(* The closes of the store up to the day (get_latest_close).               *)
CurrentPrice(closes, day) ==
    LET known == {d \in DOMAIN closes : d <= day}
    IN  IF known = {} THEN NoFigure ELSE closes[Max(known)]

(* _safe_div behind the truth tests of its callers: zero counts as absent. *)
Ratio(a, b) ==
    IF a \in {NoFigure, 0} \/ b \in {NoFigure, 0} THEN NoFigure
    ELSE IF b > 0 THEN (100 * a) \div b ELSE (-100 * a) \div (-b)

OrZero(figure) == IF figure = NoFigure THEN 0 ELSE figure

(* What is known of a company on a day, and the metrics that follow.       *)
KnownOn(filings, closes, day, length) ==
    [raw |-> [key \in FlowItems \cup StockItems |->
                IF key \in FlowItems THEN ComputeTtm(filings, key, day)
                                     ELSE LatestStockValue(filings, key, day)],
     price             |-> CurrentPrice(closes, day),
     revenueGrowth     |-> YoyGrowth(filings, "revenue", day),
     earningsGrowth    |-> YoyGrowth(filings, "eps", day),
     surprise          |-> EpsChange(LatestEps(filings, day)),
     daysSinceEarnings |-> DaysSinceLastFiling(filings, day),
     decliningQuarters |-> DecliningQuarters(filings, day),
     window            |-> PriceMetrics(closes, day, length)]

MetricsFrom(known) ==
    LET raw   == known.raw
        price == known.price
        cap   == IF price = NoFigure \/ raw.shares <= 0 THEN NoFigure ELSE price * raw.shares
        free  == IF raw.operatingCash = NoFigure THEN NoFigure ELSE raw.operatingCash - OrZero(raw.capex)
        pe    == Ratio(price, raw.eps)
    IN  IF \A key \in DOMAIN raw : raw[key] = NoFigure THEN <<>>
        ELSE <<[f \in DOMAIN known \ {"raw"} |-> known[f]]
             @@ [marketCap     |-> cap,
                 pe            |-> pe,
                 pb            |-> IF raw.shares <= 0 THEN NoFigure ELSE Ratio(cap, raw.equity),
                 roe           |-> Ratio(raw.netIncome, raw.equity),
                 debtToEquity  |-> IF raw.liabilities \in {NoFigure, 0} \/ raw.equity \in {NoFigure, 0}
                                     THEN NoFigure
                                   ELSE OrZero(Ratio(raw.longTermDebt, raw.equity)),
                 fcfYield      |-> IF free = NoFigure \/ cap = NoFigure THEN NoFigure
                                   ELSE (100 * free) \div cap,
                 dividendYield |-> Ratio(raw.dividends, price),
                 peg           |-> IF pe = NoFigure \/ known.earningsGrowth <= 0 THEN NoFigure
                                   ELSE pe \div known.earningsGrowth]>>

MetricsAsOf(filings, closes, day, length) == MetricsFrom(KnownOn(filings, closes, day, length))
=============================================================================
