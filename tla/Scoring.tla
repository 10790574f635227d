-------------------------------- MODULE Scoring --------------------------------
(***************************************************************************)
(* What the analysts see and how their scores become ranks: the merge of   *)
(* the news of a stock (equities/agents/news_scope.py, graph.py), the      *)
(* rule-based analysts of a backtest (backtest/quantitative_analysts.py)   *)
(* and the two rankers (equities/agents/ranker.py).                        *)
(*                                                                         *)
(* Figures are percentages.  An operator named Bug_X is a wrong variant of *)
(* X that no definition uses.                                              *)
(***************************************************************************)
EXTENDS Integers, Sequences, FiniteSets, FiniteSetsExt, SequencesExt

Unknown == -999

-----------------------------------------------------------------------------
(* The news of one stock.  An article is [story, published, scope]: the    *)
(* story stands for the key of _dedupe_key, the URL or else the title.     *)

Articles(stock, context) ==
    [manual  |-> SelectSeq(context.manual,
                   LAMBDA a : a.scope \in {"market", stock.sector, stock.symbol}),
     company |-> context.company, sector |-> context.sector, market |-> context.market]

(* sorted by publication, newest first, stable. *)
NewestFirst(articles) ==
    LET before(i, j) == \/ articles[i].published > articles[j].published
                        \/ /\ articles[i].published = articles[j].published
                           /\ i < j
        place(i) == 1 + Cardinality({j \in DOMAIN articles : before(j, i)})
    IN  [k \in DOMAIN articles |-> articles[CHOOSE i \in DOMAIN articles : place(i) = k]]

Stories(merged) == {merged[i].story : i \in DOMAIN merged}

TakeAll(merged, articles, scope) ==
    FoldLeft(LAMBDA acc, a : IF a.story \in Stories(acc) THEN acc
                             ELSE Append(acc, [story |-> a.story, under |-> scope]),
             merged, articles)

(* An article dropped by the cap does not claim its story. *)
Full(merged, cap) == Cardinality({i \in DOMAIN merged : merged[i].under = "company"}) >= cap

Bug_TakeCompany(merged, articles, cap) == TakeAll(merged, SubSeq(articles, 1, Min({cap, Len(articles)})), "company")

TakeCompany(merged, articles, cap) ==
    FoldLeft(LAMBDA acc, a : IF a.story \in Stories(acc) \/ Full(acc, cap) THEN acc
                             ELSE Append(acc, [story |-> a.story, under |-> "company"]),
             merged, articles)

MergeAndDedupe(news, cap) ==
    TakeAll(TakeAll(TakeCompany(TakeAll(<<>>, news.manual, "manual"),
                                NewestFirst(news.company), cap),
                    news.sector, "sector"),
            news.market, "market")

-----------------------------------------------------------------------------
(* The rule-based analysts *)

Clipped(x, lo, hi) == Max({lo, Min({x, hi})})
Signal(score, confidence) == [score |-> score, confidence |-> confidence]

(* _neutral_fallback: what every analyst answers when its data raises. *)
Fallback == Signal(5, 1)

(* The earnings surprise against the same quarter a year before; without   *)
(* one, the growth of earnings.                                            *)
NewsSignal(change, age, growth) ==
    IF change # Unknown
      THEN Signal(CASE change > 20 -> 8 [] change \in 6 .. 20 -> 7 [] change \in -4 .. 5 -> 5
                    [] change \in -19 .. -5 -> 4 [] OTHER -> 3,
                  IF age <= 30 THEN 5 ELSE IF age <= 60 THEN 4 ELSE 3)
      ELSE IF growth # Unknown
        THEN Signal(CASE growth > 10 -> 7 [] growth \in -4 .. 10 -> 5 [] OTHER -> 4, 3)
        ELSE Signal(5, 2)

(* metrics holds the one record of the data service, or nothing.  A figure *)
(* it lacks takes its default; the sum of the scaled figures is rounded    *)
(* half up and clipped.  The common denominator is 1700.                   *)
Figure(m, key, default) == IF key \in DOMAIN m THEN m[key] ELSE default

FundamentalsSignal(metrics) ==
    LET m     == metrics[1]
        cash  == Figure(m, "fcfYield", 0)
        total == 1700 * (1 + (IF cash > 10 THEN 2 ELSE IF cash > 5 THEN 1 ELSE 0)) + 850
                 + 170 * Figure(m, "revenueGrowth", 0) + 204 * Figure(m, "roe", 0)
                 + 20 * (200 - Figure(m, "debtToEquity", 100)) + 85 * Figure(m, "earningsGrowth", 0)
    IN  IF metrics = <<>> THEN Signal(5, 6) ELSE Signal(Clipped((total + 850) \div 1700, 1, 10), 6)

(* history holds what the closes of the stock show, or nothing: the        *)
(* six-month return, the volatility, the gains and losses of the last      *)
(* fourteen closes, and whether the price is above its averages; a short   *)
(* history lacks some.  The common denominator is 60.                      *)
Overbought(gain, loss) == loss = 0 \/ 100 * gain > 70 * (gain + loss)
Oversold(gain, loss)   == loss > 0 /\ 100 * gain < 30 * (gain + loss)

TechnicalSignal(history) ==
    LET h          == history[1]
        volatility == Clipped(30 - 5 * (Figure(h, "volatility", 20) - 20), -120, 30)
        rsi        == IF "gain" \notin DOMAIN h THEN 0
                      ELSE IF Overbought(h.gain, h.loss) THEN -60
                      ELSE IF Oversold(h.gain, h.loss) THEN 60 ELSE 0
        average(key) == IF key \notin DOMAIN h THEN 0 ELSE IF h[key] THEN 30 ELSE -30
        total      == 300 + 6 * Figure(h, "return", 0)
                      + (IF "volatility" \in DOMAIN h THEN volatility ELSE 0)
                      + rsi + average("above50") + average("above200")
    IN  IF history = <<>> THEN Signal(5, 5) ELSE Signal(Clipped((total + 30) \div 60, 1, 10), 5)

-----------------------------------------------------------------------------
(* The rankers.  Signals are a function from symbols to stage-1 scores.    *)

MinRankUniverse == 5

DecileScore(i, n) == IF n <= 1 THEN 10 ELSE 1 + ((n - 1 - i) * 9) \div (n - 1)

(* Equal scores share the rounded mean of the deciles of their places. *)
Bug_DeterministicRank(scores, order) ==
    [s \in DOMAIN scores |->
       LET ahead == {t \in DOMAIN scores :
                     scores[t] > scores[s] \/ (scores[t] = scores[s] /\ order[t] < order[s])}
       IN  DecileScore(Cardinality(ahead), Cardinality(DOMAIN scores))]

DeterministicRank(scores, order) ==
    LET n     == Cardinality(DOMAIN scores)
        share(s) ==
          LET ahead == Cardinality({t \in DOMAIN scores : scores[t] > scores[s]})
              tied  == Cardinality({t \in DOMAIN scores : scores[t] = scores[s]})
              sum   == SumFunction([k \in 1 .. tied |-> DecileScore(ahead + k - 1, n)])
          IN  (2 * sum + tied) \div (2 * tied)
    IN  IF n < MinRankUniverse THEN scores
        ELSE [s \in DOMAIN scores |-> Clipped(share(s), 1, 10)]

(* _parse_ranking: the known symbols of the answer, each at its first      *)
(* place; an answer that cannot be read is empty.                          *)
Parsed(answer, symbols) ==
    FoldLeft(LAMBDA acc, s : IF s \in symbols \ ToSet(acc) THEN Append(acc, s) ELSE acc, <<>>, answer)

ApplyRanking(scores, ordered) ==
    [s \in DOMAIN scores |->
       IF s \in ToSet(ordered)
         THEN DecileScore((CHOOSE i \in DOMAIN ordered : ordered[i] = s) - 1, Len(ordered))
         ELSE scores[s]]

(* A ranking that leaves out more than a tenth is not used at all. *)
Bug_Required(n) == MinRankUniverse
Required(n) == Max({MinRankUniverse, (9 * n + 9) \div 10})

CrossSectionalRank(scores, answer) ==
    LET n       == Cardinality(DOMAIN scores)
        ordered == Parsed(answer, DOMAIN scores)
    IN  IF n < MinRankUniverse \/ Len(ordered) < Required(n) THEN scores
        ELSE ApplyRanking(scores, ordered)
=============================================================================
