---------------------------- MODULE Calculations ----------------------------
(***************************************************************************)
(* The pure parts of the system against reference definitions, for the     *)
(* parts of the topics that WorkedCases leaves open: screens, answers of   *)
(* the model, news, comparisons, round trips and calendars.                *)
(***************************************************************************)
EXTENDS WorkedCases

C  == INSTANCE RunComparison

Ascending(s) == \A i \in 1 .. (Len(s) - 1) : s[i] <= s[i + 1]

-----------------------------------------------------------------------------
(* Screening and scoring *)

\* A better figure keeps a stock whose worse neighbour is kept, and a stock
\* passes a percentile filter iff few enough stocks are strictly cheaper.
ScreenSound ==
    Topic("screen") =>
        LET m == case.metrics
            key == case.key
            Better(s, t) == /\ Missing \notin {m[s][key], m[t][key]}
                            /\ IF key \in LowerIsBetter THEN m[s][key] <= m[t][key]
                                                        ELSE m[s][key] >= m[t][key]
            kept == Screen(case.branch, Stocks, m)
            known == Known(Stocks, m, key)
        IN  /\ Ascending(kept)
            /\ \A s, t \in 1 .. 3 : Better(s, t) /\ t \in ToSet(kept) => s \in ToSet(kept)
            /\ key \in {"pe", "pb"} =>
                 ToSet(CheapestShare(Stocks, m, key, 60)) =
                   {s \in known : 100 * Cardinality({t \in known : m[t][key] < m[s][key]})
                                    <= 60 * Cardinality(known)}

\* An answer of the model is used only when it covers nine tenths of the
\* universe; then its first is the 10, its last the 1, no symbol counts twice
\* and what it left out keeps its score.
AnswersCover ==
    Topic("answer") =>
        LET rank == CrossSectionalRank(case.scores, case.answer)
            n == Len(case.scores)
            covered == ToSet(case.answer) \cap (1 .. n)
        IN  IF 10 * Cardinality(covered) < 9 * n THEN rank = case.scores
            ELSE /\ {1, 10} \subseteq {rank[s] : s \in covered}
                 /\ \A s \in (1 .. n) \ covered : rank[s] = case.scores[s]
                 /\ \A i, j \in DOMAIN case.answer :
                      i < j /\ {case.answer[i], case.answer[j]} \subseteq 1 .. n
                        /\ (\A k \in 1 .. (j - 1) : case.answer[k] # case.answer[j])
                        => /\ rank[case.answer[i]] >= rank[case.answer[j]]
                           /\ n <= 9 => rank[case.answer[i]] > rank[case.answer[j]]

Cap == 1
\* Every story once, the manual ones always, and of the company's own the
\* newest that nothing before them told.
NewsMerged ==
    Topic("news") =>
        LET stock == [sector |-> "tech", symbol |-> "ACME"]
            news == Articles(stock, [manual |-> case.manual, company |-> case.company,
                                       sector |-> <<>>, market |-> case.market])
            merged == MergeAndDedupe(news, Cap)
            under(scope) == {merged[i].story : i \in {j \in DOMAIN merged : merged[j].under = scope}}
            told == {a.story : a \in ToSet(news.manual)}
            fresh == {a \in ToSet(case.company) : a.story \notin told}
            newest == {a.story : a \in {b \in fresh : \A c \in fresh : c.published <= b.published}}
        IN  /\ Cardinality(Stories(merged)) = Len(merged)
            /\ under("manual") = told
            /\ Cardinality(under("company")) = Min({Cap, Cardinality({a.story : a \in fresh})})
            /\ under("company") \subseteq newest
            /\ {a.story : a \in ToSet(case.market)} \subseteq Stories(merged)

\* What a run looks at depends on figures, answers and news alone: no tie is
\* broken by position, no story counted twice, no partial answer of the model
\* used (screener.py, ranker.py, news_scope.py).
SelectionSound == ScreenSound /\ AnswersCover /\ NewsMerged

-----------------------------------------------------------------------------
(* Comparison of two runs *)

RowKeys(rows) == {rows[i].key : i \in DOMAIN rows}

\* Every cell of two runs is counted once: the runs disagree on the score, on
\* the confidence alone, on neither, or only one of them has the cell, which
\* is never taken for a disagreement.  Calling the runs the other way round
\* turns the signs and moves no row (comparison.py compare_runs).
ComparisonPartition ==
    Topic("runs") =>
        LET b == case.baseline
            t == case.treatment
            there == C!CompareRuns(b, t, 0, TRUE)
            back == C!CompareRuns(t, b, 0, TRUE)
            alone == {there.drift[i][1] : i \in DOMAIN there.drift}
            agree == {k \in C!Keys(b) \cap C!Keys(t) : C!SignalAt(b, k) = C!SignalAt(t, k)}
            strict == C!CompareRuns(b, t, case.floor, FALSE)
        IN  /\ RowKeys(there.divergences) \cup RowKeys(there.shifts) \cup agree \cup alone
                 = C!Keys(b) \cup C!Keys(t)
            /\ Len(there.divergences) + Len(there.shifts) + Cardinality(agree) + Len(there.drift)
                 = there.total
            /\ Len(back.divergences) = Len(there.divergences)
            /\ \A i \in DOMAIN there.divergences :
                 back.divergences[i] = [there.divergences[i] EXCEPT !.delta = -@]
            /\ back.shifts = there.shifts
            /\ {d.delta : d \in back.deltas} = {-d.delta : d \in there.deltas}
            /\ strict.divergences = SelectSeq(there.divergences, LAMBDA r : r.conviction >= case.floor)
            /\ C!CompareRuns(b, b, 0, TRUE).divergences = <<>>
            /\ C!CompareCommand(<<b>>, <<t>>, [minConfidence |-> 0, shifts |-> TRUE, json |-> TRUE]).exit = 0

-----------------------------------------------------------------------------
(* Statistics of a run *)

\* Of whole round trips the results add up to the money they made.
TripsAddUp ==
    Topic("trips") =>
        LET t == case.trades
            made == Total([i \in DOMAIN t |-> t[i].quantity * t[i].price
                                                 * (IF t[i].side = "sell" THEN 1 ELSE -1)])
            result == TradeMetrics(t)
        IN  result.total = 2 /\ result.grossProfit - result.grossLoss = made

\* The cost estimate counts the rebalances the engine will make when the
\* period starts on a trading day, and the screening-only backtest visits
\* weekdays only, a fixed number of them apart.
CalendarsAgree ==
    Topic("calendar") =>
        LET days == SelectSeq([i \in 1 .. (case.end - case.start + 1) |-> case.start + i - 1], Weekday)
            visits == ScreeningDays(case.start, case.end, 5)
        IN  /\ Weekday(case.start) =>
                 CountRebalanceDays(case.start, case.end, case.frequency)
                   = Cardinality(RebalanceSchedule(days, case.frequency))
            /\ visits = RebalanceSchedule(days, "weekly")

\* Nothing is counted twice and nothing is left out: no cell of two runs, no
\* round trip, no rebalance (comparison.py, analytics.py, statistics.py).
CountedOnce == ComparisonPartition /\ TripsAddUp /\ CalendarsAgree
=============================================================================
