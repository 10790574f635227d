--------------------------- MODULE EquitiesPipeline ---------------------------
(***************************************************************************)
(* One run of the equities pipeline of a branch: run_pipeline in           *)
(* app/modules/equities/service.py and the agent graph it invokes          *)
(* (agents/graph.py), from the portfolio it reads to the orders it submits *)
(* and the account it gives of them.                                       *)
(*                                                                         *)
(* The graph runs in supersteps (langgraph, external): the nodes of a step *)
(* run concurrently, and the next step starts when all of them are done,   *)
(* with every node one of whose edges was completed.  Inside an analyst    *)
(* node one model call per stock is under way, at most MaxConcurrent at a  *)
(* time, in the order of the stocks; in a backtest the analysts share one  *)
(* call cap (backtest/llm_analyst_cache.py), which a live run does not     *)
(* have.  Orders are submitted one after the other.                        *)
(*                                                                         *)
(* An analyst with enough signals has one more model call rank them        *)
(* (agents/ranker.py), which goes to the client past the counter.          *)
(*                                                                         *)
(* A live run has one database session, and everything it writes is in one *)
(* transaction.  An error of the database kills that transaction: every    *)
(* later statement raises and the commit at the end rolls back, without an *)
(* error of its own.  Where the pipeline swallows an exception it goes on  *)
(* over a session that may be dead.                                        *)
(***************************************************************************)
EXTENDS PortfolioDecision

CONSTANTS
    Symbols,         \* stocks: those of the universe and those only held
    Universe,        \* holdings of the branch's index
    Answers,         \* what a model answers: records [score, conf]
    MaxConcurrent,   \* max_concurrent_analyses
    MaxCalls,        \* max_llm_calls_per_rebalance
    RankMin,         \* DEFAULT_MIN_RANK_UNIVERSE
    HeldQty,         \* size of a position held at the start, in fine units
    Price,           \* price of one fine unit
    Cash,            \* cash at the start
    Share,           \* fine units in one share
    MaxFailures      \* bound: calls and submissions that fail

ASSUME EquitiesPipelineAssumption ==
    /\ Symbols \subseteq Nat /\ IsFiniteSet(Symbols)
    /\ Universe \subseteq Symbols
    /\ Answers \subseteq [score : 1 .. 10, conf : 1 .. 10]
    /\ MaxConcurrent \in Nat \ {0} /\ MaxCalls \in Nat /\ MaxFailures \in Nat
    /\ RankMin \in Nat \ {0}
    /\ HeldQty \in Nat \ {0} /\ Price \in Nat \ {0} /\ Share \in Nat \ {0}
    /\ Cash \in Nat
    \* A held position weighs at least a basis point; the code's weights are floats.
    /\ HeldQty * Price * Unit >= Cash + HeldQty * Price * Cardinality(Symbols)

VARIABLES
    stage,      \* "read" -> "upsert" -> "graph" -> "done" -> "closed", or "failed"
    before,     \* the book the run reads: [held, nav, weights]
    known,      \* symbols with an instrument id
    active,     \* nodes of the current superstep
    finished,   \* those of them that are done
    reported,   \* analysts that have handed in their signals
    fired,      \* how often each node has run
    screened,   \* stocks the screener let through
    calling,    \* stocks each analyst has a model call under way for
    answer,     \* the signals each analyst has so far, by stock
    ranked,     \* analysts whose ranking call has been made
    llmCalls,   \* the shared counter of calls this rebalance
    made,       \* auxiliary: calls for a signal handed to the client of the model
    plan,       \* the last decision: [targets, orders, skips]
    retrying,   \* the current order raised once
    results,    \* order_results
    rows,       \* order rows written: [order, status, qty]
    book,       \* the book now: [held, cash]
    broken,     \* the transaction of the run is dead
    flow,       \* the order flow of the finished run
    alerts,     \* the alerts on that flow
    failures

graphVars == <<active, finished, reported, fired, screened>>
callVars  == <<calling, answer, ranked, llmCalls, made>>
orderVars == <<plan, retrying, results, rows, book, broken>>
endVars   == <<flow, alerts>>
vars == <<stage, before, known, graphVars, callVars, orderVars, endVars, failures>>

Nodes == Analysts \cup {"fetch_universe", "screen_stocks", "prefetch_news",
                        "portfolio_decision", "execute_trades"}
Edges == {<<"fetch_universe", "screen_stocks">>, <<"screen_stocks", "prefetch_news">>,
          <<"prefetch_news", "news">>, <<"screen_stocks", "fundamentals">>,
          <<"screen_stocks", "technical">>, <<"portfolio_decision", "execute_trades">>}
NoPlan  == [targets |-> <<>>, orders |-> <<>>, skips |-> {}]
NoFlow  == [generated |-> 0, filled |-> 0, rejected |-> 0, dropped |-> 0,
            rejections |-> {}, skips |-> {}]
Neutral == [score |-> 5, conf |-> 1]
None    == [s \in {} |-> 0]      \* the empty map

(* read_portfolio_state: a position is weighed at the current price, and at *)
(* its cost, the same here, when there is none; the NAV is the one stored   *)
(* with the book.                                                           *)
Read(held) ==
    LET nav == Cash + Price * SumFunction(held)
    IN  [held |-> held, nav |-> nav,
         weights |-> [s \in {t \in Symbols : held[t] > 0} |-> (held[s] * Price * Unit) \div nav]]

Init ==
    /\ stage = "read"
    /\ \E held \in [Symbols -> {0, HeldQty}] :
         /\ before = Read(held)
         /\ book = [held |-> held, cash |-> Cash]
    /\ known = {}
    /\ active = {} /\ finished = {} /\ reported = {}
    /\ fired = [n \in Nodes |-> 0]
    /\ screened = {}
    /\ calling = [a \in Analysts |-> {}]
    /\ answer = [a \in Analysts |-> None]
    /\ ranked = {} /\ llmCalls = 0 /\ made = 0
    /\ plan = NoPlan /\ retrying = FALSE /\ results = <<>> /\ rows = <<>>
    /\ broken = FALSE
    /\ flow = NoFlow /\ alerts = {}
    /\ failures = 0

Fails == failures < MaxFailures /\ failures' = failures + 1

-----------------------------------------------------------------------------
(* Before the graph *)

ReadPortfolio ==
    /\ stage = "read"
    /\ before.nav > 0
    /\ stage' = "upsert"
    /\ UNCHANGED <<before, known, graphVars, callVars, orderVars, endVars, failures>>

(* No portfolio row, or the read raised. *)
ReadFails ==
    /\ stage = "read"
    /\ Fails
    /\ stage' = "failed"
    /\ UNCHANGED <<before, known, graphVars, callVars, orderVars, endVars>>

(* The symbols in the order they are upserted: the universe, then the held *)
(* names that are not in it. *)
Ascending(S) == Sorted(S, <)
UpsertOrder  == Ascending(Universe) \o Ascending(DOMAIN before.weights \ Universe)

StartGraph ==
    /\ stage' = "graph"
    /\ active' = {"fetch_universe"}
    /\ UNCHANGED <<before, finished, reported, fired, screened, callVars, plan, retrying, results,
                   rows, book, endVars>>

UpsertInstruments ==
    /\ stage = "upsert"
    /\ known' = ToSet(UpsertOrder)
    /\ UNCHANGED <<broken, failures>>
    /\ StartGraph

(* The first failure ends the loop and is swallowed with the map filled so *)
(* far, whether the database raised it or not.                             *)
UpsertFails ==
    /\ stage = "upsert"
    /\ \E n \in 0 .. Len(UpsertOrder) - 1 : known' = ToSet(SubSeq(UpsertOrder, 1, n))
    /\ broken' \in BOOLEAN
    /\ Fails
    /\ StartGraph

(* resolve_analyst_weights swallows a failure of its queries in the same   *)
(* session and falls back to the static weights.                           *)
WeightsFail ==
    /\ stage = "upsert"
    /\ known' = ToSet(UpsertOrder)
    /\ broken' = TRUE
    /\ Fails
    /\ StartGraph

-----------------------------------------------------------------------------
(* The graph *)

Running(n) == stage = "graph" /\ n \in active \ finished

Finish(n) ==
    /\ finished' = finished \cup {n}
    /\ fired' = [fired EXCEPT ![n] = @ + 1]

(* The nodes the next superstep starts with: the targets of single edges   *)
(* whose source has just finished, and the target of the join when all its *)
(* sources have and the last of them just did.                             *)
Joins(just) == just \cap Analysts # {} /\ Analysts \subseteq reported

Bug_Triggered(just) ==
    {e[2] : e \in {f \in Edges : f[1] \in just}}
    \cup (IF just \cap Analysts # {} THEN {"portfolio_decision"} ELSE {})

Triggered(just) ==
    {e[2] : e \in {f \in Edges : f[1] \in just}}
    \cup (IF Joins(just) THEN {"portfolio_decision"} ELSE {})

NextStep ==
    /\ stage = "graph"
    /\ finished = active
    /\ Triggered(active) # {}
    /\ active' = Triggered(active)
    /\ finished' = {}
    /\ UNCHANGED <<stage, before, known, reported, fired, screened, callVars, orderVars,
                   endVars, failures>>

FetchUniverse ==
    /\ Running("fetch_universe")
    /\ Finish("fetch_universe")
    /\ UNCHANGED <<stage, before, known, active, reported, screened, callVars, orderVars,
                   endVars, failures>>

ScreenStocks ==
    /\ Running("screen_stocks")
    /\ screened' \in SUBSET Universe
    /\ Finish("screen_stocks")
    /\ UNCHANGED <<stage, before, known, active, reported, callVars, orderVars, endVars, failures>>

(* A fetch that fails leaves its scope without articles; the node never raises. *)
PrefetchNews ==
    /\ Running("prefetch_news")
    /\ Finish("prefetch_news")
    /\ UNCHANGED <<stage, before, known, active, reported, screened, callVars, orderVars,
                   endVars, failures>>

(* Only these nodes let an exception out; it ends the run. *)
NodeRaises ==
    /\ \E n \in {"fetch_universe", "screen_stocks", "portfolio_decision"} : Running(n)
    /\ Fails
    /\ stage' = "failed"
    /\ UNCHANGED <<before, known, graphVars, callVars, orderVars, endVars>>

-----------------------------------------------------------------------------
(* Inside an analyst: analyze_batch and analyze *)

Waiting(a) == screened \ (calling[a] \cup DOMAIN answer[a])

(* The stock whose turn it is has a place under the analyst's semaphore. *)
Turn(a, s) ==
    /\ Running(a)
    /\ Cardinality(calling[a]) < MaxConcurrent
    /\ s \in Waiting(a) /\ \A t \in Waiting(a) : s <= t

Answered(a, s, signal) ==
    answer' = [answer EXCEPT ![a] = [t \in DOMAIN @ \cup {s} |-> IF t = s THEN signal ELSE @[t]]]

CapReached(a, s) ==
    /\ Turn(a, s)
    /\ llmCalls >= MaxCalls
    /\ Answered(a, s, Neutral)
    /\ UNCHANGED <<stage, before, known, graphVars, calling, ranked, llmCalls, made, orderVars,
                   endVars, failures>>

(* The counter goes up before the call is awaited. *)
Call(a, s) ==
    /\ Turn(a, s)
    /\ llmCalls < MaxCalls
    /\ llmCalls' = llmCalls + 1
    /\ made' = made + 1
    /\ calling' = [calling EXCEPT ![a] = @ \cup {s}]
    /\ UNCHANGED <<stage, before, known, graphVars, answer, ranked, orderVars, endVars, failures>>

CallReturns(a, s) ==
    /\ s \in calling[a]
    /\ \E signal \in Answers : Answered(a, s, signal)
    /\ calling' = [calling EXCEPT ![a] = @ \ {s}]
    /\ UNCHANGED <<stage, before, known, graphVars, ranked, llmCalls, made, orderVars, endVars,
                   failures>>

(* The exception becomes a neutral signal; the call stays counted. *)
Bug_CallFails(a, s) ==
    /\ s \in calling[a]
    /\ Fails
    /\ Answered(a, s, Neutral)
    /\ calling' = [calling EXCEPT ![a] = @ \ {s}]
    /\ llmCalls' = llmCalls - 1
    /\ UNCHANGED <<stage, before, known, graphVars, ranked, made, orderVars, endVars>>

CallFails(a, s) ==
    /\ s \in calling[a]
    /\ Fails
    /\ Answered(a, s, Neutral)
    /\ calling' = [calling EXCEPT ![a] = @ \ {s}]
    /\ UNCHANGED <<stage, before, known, graphVars, ranked, llmCalls, made, orderVars, endVars>>

(* The second stage: the ranker asks the client itself, once, and neither  *)
(* looks at the counter nor raises it.  A failed call, or an answer that   *)
(* leaves out too many, keeps the scores; otherwise the i-th of n ordered  *)
(* stocks gets the decile of its place, and an omitted one keeps its own.  *)
ToRank == Cardinality(screened) >= RankMin

Decile(i, n) == IF n <= 1 THEN 10 ELSE 1 + ((n - i) * 9) \div (n - 1)

Covering == Max({RankMin, (9 * Cardinality(screened) + 9) \div 10})

Orderings ==
    {ordered \in UNION {[1 .. n -> screened] : n \in Covering .. Cardinality(screened)} :
       IsInjective(ordered)}

Ranking(signals, ordered) ==
    [s \in DOMAIN signals |->
       IF \E i \in DOMAIN ordered : ordered[i] = s
         THEN [signals[s] EXCEPT !.score = Decile(CHOOSE i \in DOMAIN ordered : ordered[i] = s,
                                                  Cardinality(DOMAIN ordered))]
         ELSE signals[s]]

RankSignals(a) ==
    /\ Running(a) /\ a \notin ranked
    /\ screened = DOMAIN answer[a] /\ ToRank
    /\ ranked' = ranked \cup {a}
    /\ \/ UNCHANGED answer
       \/ \E ordered \in Orderings : answer' = [answer EXCEPT ![a] = Ranking(@, ordered)]
    /\ UNCHANGED <<stage, before, known, graphVars, calling, llmCalls, made, orderVars, endVars,
                   failures>>

AnalystDone(a) ==
    /\ Running(a)
    /\ screened = DOMAIN answer[a]
    /\ ToRank => a \in ranked
    /\ Finish(a)
    /\ reported' = reported \cup {a}
    /\ UNCHANGED <<stage, before, known, active, screened, callVars, orderVars, endVars, failures>>

-----------------------------------------------------------------------------
(* The decision and the orders *)

(* Each analyst hands in its signals in the order of the stocks, news a *)
(* superstep after the others. *)
HandedIn(a) ==
    LET stocks == Ascending(screened)
    IN  IF a \in reported
        THEN [i \in DOMAIN stocks |-> [sym |-> stocks[i], analyst |-> a,
                 score |-> answer[a][stocks[i]].score, conf |-> answer[a][stocks[i]].conf]]
        ELSE <<>>

Signals == HandedIn("fundamentals") \o HandedIn("technical") \o HandedIn("news")

PortfolioDecision ==
    /\ Running("portfolio_decision")
    /\ \E prices \in [Symbols -> {0, Price}] :
         LET scores  == Composites(Signals, StaticWeight)
             targets == SizePositions(scores, Selected(scores, DOMAIN before.weights))
             result  == GenerateOrders(targets, before.weights, before.held, before.nav, prices)
         IN  plan' = [targets |-> targets, orders |-> result.orders, skips |-> result.skips]
    /\ results' = <<>>
    /\ Finish("portfolio_decision")
    /\ UNCHANGED <<stage, before, known, active, reported, screened, callVars, retrying, rows,
                   book, broken, endVars, failures>>

Current == plan.orders[Len(results) + 1]

Submitting ==
    /\ Running("execute_trades")
    /\ Len(results) < Len(plan.orders)

(* The whole shares of an order, which a second submission asks for. *)
Quantity == IF retrying THEN Current.qty - (Current.qty % Share) ELSE Current.qty

Bug_Row(status) == Append(rows, [order |-> Len(results) + 1, status |-> status, qty |-> Current.qty])

Row(status) == Append(rows, [order |-> Len(results) + 1, status |-> status, qty |-> Quantity])

Settled(result) ==
    /\ results' = Append(results, result)
    /\ retrying' = FALSE
    /\ UNCHANGED <<stage, before, known, graphVars, callVars, plan, endVars>>

(* _execute_trade without an instrument id. *)
NoInstrument ==
    /\ Submitting
    /\ Current.sym \notin known
    /\ Settled("none")
    /\ UNCHANGED <<rows, book, broken, failures>>

(* The order gets through to submit_order, over a session that is alive. *)
Accepted == Submitting /\ Current.sym \in known /\ ~broken

Affordable == Current.side = "buy" => Quantity * Price <= book.cash

Fill ==
    LET sign == IF Current.side = "buy" THEN 1 ELSE -1 IN
    /\ Accepted
    /\ Affordable
    /\ rows' = Row("filled")
    /\ book' = [held |-> [book.held EXCEPT ![Current.sym] = @ + sign * Quantity],
                cash |-> book.cash - sign * Quantity * Price]
    /\ Settled("filled")
    /\ UNCHANGED <<broken, failures>>

RejectOverdraft ==
    /\ Accepted
    /\ ~Affordable
    /\ rows' = Row("rejected")
    /\ Settled("rejected")
    /\ UNCHANGED <<book, broken, failures>>

RejectOther ==
    /\ Accepted
    /\ Fails
    /\ rows' = Row("rejected")
    /\ Settled("rejected")
    /\ UNCHANGED <<book, broken>>

(* submit_order raises, and not because of the database: before it writes  *)
(* the order row, between the order row and the fill, or after the row     *)
(* says filled and before the position is updated.  What it had written    *)
(* stays, and the second submission writes a row of its own.               *)
RaisePoints == {rows, Row("pending"), Row("unapplied")}

RaisesOnce ==
    /\ Accepted
    /\ ~retrying /\ Current.qty >= Share
    /\ Fails
    /\ rows' \in RaisePoints
    /\ retrying' = TRUE
    /\ UNCHANGED <<stage, before, known, graphVars, callVars, plan, results, book, broken, endVars>>

RaisesForGood ==
    /\ Accepted
    /\ retrying \/ Current.qty < Share
    /\ Fails
    /\ rows' \in RaisePoints
    /\ Settled("none")
    /\ UNCHANGED <<book, broken>>

(* The database raises, at any statement of submit_order: the transaction  *)
(* is dead, and the second submission raises as well.                      *)
Breaks ==
    /\ Accepted
    /\ Fails
    /\ broken' = TRUE
    /\ Settled("none")
    /\ UNCHANGED <<rows, book>>

(* Over a dead session both submissions raise at their first statement. *)
SubmitToBroken ==
    /\ Submitting /\ Current.sym \in known /\ broken
    /\ Settled("none")
    /\ UNCHANGED <<rows, book, broken, failures>>

ExecuteDone ==
    /\ Running("execute_trades")
    /\ Len(results) = Len(plan.orders)
    /\ Finish("execute_trades")
    /\ UNCHANGED <<stage, before, known, active, reported, screened, callVars, orderVars,
                   endVars, failures>>

(* After the graph: the order flow, and the alerts on it. *)
Report ==
    /\ stage = "graph"
    /\ finished = active /\ Triggered(active) = {}
    /\ stage' = "done"
    /\ flow' = OrderFlow(plan.orders, results, plan.skips)
    /\ alerts' = FlowAlerts(flow')
    /\ UNCHANGED <<before, known, graphVars, callVars, plan, retrying, results, rows, book>>

FinishRun == Report /\ UNCHANGED <<broken, failures>>

(* The signal events and the run artifacts are written on a best-effort    *)
(* basis, in the session of the trades: a failure is swallowed, and kills  *)
(* the transaction.                                                        *)
RecordFails ==
    /\ Report
    /\ ~broken /\ broken' = TRUE
    /\ Fails

(* The caller leaves the transaction without an exception: a live one is   *)
(* committed, a dead one rolled back.                                      *)
CloseTransaction ==
    /\ stage = "done"
    /\ stage' = "closed"
    /\ \/ ~broken /\ UNCHANGED <<rows, book>>
       \/ broken /\ rows' = <<>> /\ book' = [held |-> before.held, cash |-> Cash]
    /\ UNCHANGED <<before, known, graphVars, callVars, plan, retrying, results, broken, endVars,
                   failures>>

(* Every step before this one brings a run closer to its end, so that a run *)
(* that does not end is a deadlock, which TLC looks for. *)
Ended ==
    /\ stage \in {"closed", "failed"}
    /\ UNCHANGED vars

Next ==
    \/ ReadPortfolio \/ ReadFails \/ UpsertInstruments \/ UpsertFails \/ WeightsFail
    \/ NextStep \/ FetchUniverse \/ ScreenStocks \/ PrefetchNews \/ NodeRaises
    \/ \E a \in Analysts :
         \/ RankSignals(a) \/ AnalystDone(a)
         \/ \E s \in Symbols :
              CapReached(a, s) \/ Call(a, s) \/ CallReturns(a, s) \/ CallFails(a, s)
    \/ PortfolioDecision
    \/ NoInstrument \/ Fill \/ RejectOverdraft \/ RejectOther \/ RaisesOnce \/ RaisesForGood
    \/ Breaks \/ SubmitToBroken
    \/ ExecuteDone \/ FinishRun \/ RecordFails \/ CloseTransaction
    \/ Ended

Spec == Init /\ [][Next]_vars
-----------------------------------------------------------------------------
(* Properties *)

(* The join fires once: whatever the order in which analysts and their     *)
(* calls end, the portfolio is decided at most once, on a signal of every  *)
(* analyst for every screened stock, and no order is submitted twice       *)
(* (graph.py:278-284).                                                     *)
DecidesOnce ==
    /\ fired["portfolio_decision"] <= 1 /\ fired["execute_trades"] <= 1
    /\ fired["portfolio_decision"] = 1 => \A a \in Analysts : DOMAIN answer[a] = screened

(* The cap on the calls for a signal is exact under every schedule of the  *)
(* concurrent analysts: no more than MaxCalls are made, no stock gets the  *)
(* neutral fallback for the cap while one was still to be had, and what a  *)
(* rebalance makes beyond the cap is one ranking call for each analyst,    *)
(* when there are stocks enough to rank, and none otherwise                *)
(* (llm_analyst_cache.py:57-73, service.py:58-59, ranker.py:102-140).      *)
CallCapExact ==
    /\ made <= MaxCalls
    /\ fired["portfolio_decision"] = 1 =>
         /\ made = Min({MaxCalls, Cardinality(Analysts) * Cardinality(screened)})
         /\ ranked = (IF ToRank THEN Analysts ELSE {})

MovedBy(s, kind) ==
    SumFunction([i \in {j \in DOMAIN rows : /\ rows[j].status = "filled"
                                            /\ plan.orders[rows[j].order].sym = s
                                            /\ KindOf(results, rows[j].order) = kind} |->
        (IF plan.orders[rows[i].order].side = "buy" THEN 1 ELSE -1) * rows[i].qty])

(* The order flow of a run reconciles with what its transaction leaves     *)
(* behind: every order generated is counted once, the rows that are kept   *)
(* of the orders counted as filled explain every change of a position to   *)
(* the unit, whichever submissions raised and were repeated, and unless    *)
(* the transaction died every order counted as filled has such a row; if   *)
(* it died the flow counts fills that no longer exist (order_flow.py:1-10, *)
(* service.py:274-304, weekly_runner.py:243-245).                          *)
FlowReconciles ==
    stage = "closed" =>
        /\ flow.generated = flow.filled + flow.rejected + flow.dropped
        /\ {r.sym : r \in flow.rejections} \cup {plan.orders[i].sym : i \in
              {j \in DOMAIN results : results[j] = "filled"}} = {plan.orders[i].sym : i \in DOMAIN plan.orders}
        /\ \A s \in Symbols : book.held[s] - before.held[s] = MovedBy(s, "filled")
        /\ ~broken => \A k \in DOMAIN results : results[k] = "filled" =>
             \E i \in DOMAIN rows : rows[i].order = k /\ rows[i].status = "filled"
        /\ book.cash >= 0

(* A fill of a position that the end of the transaction has undone. *)
Undone(s) ==
    broken /\ \E k \in DOMAIN results : results[k] = "filled" /\ plan.orders[k].sym = s

(* A stuck exit is never silent, but for one reason: a position whose name *)
(* has left the targets is sold down to less than one share, or an alert   *)
(* names it, as a lost order, as a rejected sell or as an exit without a   *)
(* price, or its sale had been filled and the transaction died afterwards  *)
(* (portfolio_manager.py:203-218, risk_checks.py:93-178).                  *)
StuckExitReported ==
    stage = "closed" => \A s \in Symbols \ DOMAIN plan.targets :
        \/ book.held[s] < Share
        \/ \E alert \in alerts : s \in alert.names
        \/ Undone(s)
=============================================================================
