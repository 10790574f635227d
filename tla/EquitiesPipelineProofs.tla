------------------------- MODULE EquitiesPipelineProofs -------------------------
(***************************************************************************)
(* A pipeline run, for any stocks, prices, book and answers of the models, *)
(* any call cap and concurrency, and wherever calls, nodes, submissions    *)
(* and the transaction fail: the portfolio is decided once, the call cap   *)
(* is exact, the order flow reconciles with what the transaction leaves,   *)
(* and no stuck exit is silent unless the transaction undid its sale.      *)
(*                                                                         *)
(* The news analyst is a superstep behind the other two, so the join sees  *)
(* an arriving analyst twice and must fire at the second only.  The        *)
(* invariant follows the supersteps: what runs together, who has reported, *)
(* and that an analyst that has reported has a signal for every screened   *)
(* stock and no call under way that could add to them.                     *)
(***************************************************************************)
EXTENDS EquitiesPipeline, FiniteSetTheorems, TLAPS

(* The supersteps of a run. *)
Early    == {{}, {"fetch_universe"}, {"screen_stocks"}}
Middle   == {"prefetch_news", "fundamentals", "technical"}
Deciding == {"portfolio_decision"}
Trading  == {"execute_trades"}

Superstep ==
    /\ active \in Early \cup {Middle, {"news"}, Deciding, Trading}
    /\ finished \subseteq active
    /\ stage \in {"read", "upsert"} => active = {}

(* Who has reported, and what has run, by superstep. *)
Arrivals ==
    /\ active \in Early => reported = {}
    /\ active = Middle => reported = finished \cap Analysts
    /\ active = {"news"} => reported = {"fundamentals", "technical"} \cup finished
    /\ active \in {Deciding, Trading} => reported = Analysts

Firings ==
    /\ fired \in [Nodes -> Nat]
    /\ active \notin {Deciding, Trading} => fired["portfolio_decision"] = 0
    /\ active = Deciding => fired["portfolio_decision"] = IF finished = {} THEN 0 ELSE 1
    /\ active = Trading => fired["portfolio_decision"] = 1
    /\ fired["execute_trades"] = IF active = Trading /\ finished # {} THEN 1 ELSE 0

(* The calls and answers of the analysts. *)
Signalled ==
    /\ DOMAIN calling = Analysts /\ DOMAIN answer = Analysts
    /\ active \in Early => \A a \in Analysts : calling[a] = {} /\ DOMAIN answer[a] = {}
    /\ \A a \in Analysts : /\ calling[a] \subseteq screened \ DOMAIN answer[a]
                           /\ DOMAIN answer[a] \subseteq screened
    /\ \A a \in reported : DOMAIN answer[a] = screened

(* The inductive invariant. *)
IInv == Superstep /\ Arrivals /\ Firings /\ Signalled

(* What a superstep starts, by the one that has ended. *)
LEMMA Targets ==
    ASSUME NEW just
    PROVE  \A n : n \in {e[2] : e \in {f \in Edges : f[1] \in just}} <=>
             \/ n = "screen_stocks" /\ "fetch_universe" \in just
             \/ n \in Middle /\ "screen_stocks" \in just
             \/ n = "news" /\ "prefetch_news" \in just
             \/ n = "execute_trades" /\ "portfolio_decision" \in just
<1>1. SUFFICES ASSUME NEW n
               PROVE  (\E e \in Edges : e[1] \in just /\ n = e[2]) <=>
                        \/ n = "screen_stocks" /\ "fetch_universe" \in just
                        \/ n \in Middle /\ "screen_stocks" \in just
                        \/ n = "news" /\ "prefetch_news" \in just
                        \/ n = "execute_trades" /\ "portfolio_decision" \in just
  OBVIOUS
<1>2. (\E e \in Edges : e[1] \in just /\ n = e[2]) <=>
        \/ "fetch_universe" \in just /\ n = "screen_stocks"
        \/ "screen_stocks" \in just /\ n = "prefetch_news"
        \/ "prefetch_news" \in just /\ n = "news"
        \/ "screen_stocks" \in just /\ n = "fundamentals"
        \/ "screen_stocks" \in just /\ n = "technical"
        \/ "portfolio_decision" \in just /\ n = "execute_trades"
  BY DEF Edges
<1>3. QED
  BY <1>2 DEF Middle

(* What a superstep triggers, for each set of nodes that it can run. *)
LEMMA FollowsStep ==
    ASSUME IInv, finished = active
    PROVE  /\ active = {} => Triggered(active) = {}
           /\ active = {"fetch_universe"} => Triggered(active) = {"screen_stocks"}
           /\ active = {"screen_stocks"} => Triggered(active) = Middle
           /\ active = Middle => Triggered(active) = {"news"}
           /\ active = {"news"} => Triggered(active) = Deciding
           /\ active = Deciding => Triggered(active) = Trading
           /\ active = Trading => Triggered(active) = {}
<1>1. PICK next : next = {e[2] : e \in {f \in Edges : f[1] \in active}}
  OBVIOUS
<1>2. \A n : n \in next <=> \/ n = "screen_stocks" /\ "fetch_universe" \in active
                            \/ n \in Middle /\ "screen_stocks" \in active
                            \/ n = "news" /\ "prefetch_news" \in active
                            \/ n = "execute_trades" /\ "portfolio_decision" \in active
  BY <1>1, Targets
<1>3. Triggered(active) = next \cup (IF Joins(active) THEN Deciding ELSE {})
  BY <1>1 DEF Triggered, Deciding
<1>4. active = {"news"} => Joins(active)
  BY DEF IInv, Arrivals, Joins, Analysts
<1>5. active # {"news"} => ~Joins(active)
  <2>1. CASE active = Middle
    BY <2>1 DEF IInv, Arrivals, Joins, Analysts, Middle
  <2>2. CASE active \in Early \cup {Deciding, Trading}
    BY <2>2 DEF Joins, Analysts, Early, Deciding, Trading
  <2>3. QED
    BY <2>1, <2>2 DEF IInv, Superstep
<1>6. CASE active = Middle
  BY <1>2, <1>3, <1>5, <1>6 DEF Middle, Deciding, Trading
<1>7. CASE active = {"news"}
  BY <1>2, <1>3, <1>4, <1>7 DEF Middle, Deciding, Trading
<1>8. CASE active \in Early
  BY <1>2, <1>3, <1>5, <1>8 DEF Middle, Deciding, Trading, Early
<1>9. CASE active = Deciding
  BY <1>2, <1>3, <1>5, <1>9 DEF Middle, Deciding, Trading
<1>10. CASE active = Trading
  BY <1>2, <1>3, <1>5, <1>10 DEF Middle, Deciding, Trading
<1>11. QED
  BY <1>6, <1>7, <1>8, <1>9, <1>10 DEF IInv, Superstep

(* The start of a run satisfies the invariant. *)
LEMMA InitIInv == Init => IInv
  BY DEF Init, IInv, Superstep, Arrivals, Firings, Signalled, Early, Middle, Deciding, Trading,
         Nodes, Analysts, None

(* Steps outside the graph that leave it alone, the orders included. *)
LEMMA OutsideKeeps ==
    ASSUME IInv, UNCHANGED <<active, finished, reported, fired, screened, calling, answer>>,
           stage' \in {"read", "upsert"} => stage \in {"read", "upsert"}
    PROVE  IInv'
  BY DEF IInv, Superstep, Arrivals, Firings, Signalled

(* The graph starts with nothing reported, asked or answered. *)
LEMMA StartKeeps == ASSUME IInv, stage = "upsert", StartGraph PROVE IInv'
<1>1. active = {} /\ active' = {"fetch_universe"} /\ stage' = "graph" /\ finished = {}
      /\ UNCHANGED <<finished, reported, fired, screened, calling, answer>>
  BY DEF StartGraph, callVars, IInv, Superstep
<1>2. Superstep'
  BY <1>1 DEF Superstep, Early
<1>3. Arrivals'
  BY <1>1 DEF IInv, Arrivals, Early, Middle, Deciding, Trading
<1>4. Firings'
  BY <1>1 DEF IInv, Firings, Deciding, Trading
<1>5. Signalled'
  BY <1>1 DEF IInv, Signalled, Early
<1>6. QED
  BY <1>2, <1>3, <1>4, <1>5 DEF IInv

(* The next superstep starts when everything in this one has ended. *)
LEMMA NextStepKeeps == ASSUME IInv, NextStep PROVE IInv'
<1>1. /\ stage = "graph" /\ finished = active /\ active' = Triggered(active)
      /\ finished' = {} /\ Triggered(active) # {}
      /\ UNCHANGED <<stage, reported, fired, screened, calling, answer>>
  BY DEF NextStep, callVars
<1>2. CASE active \in {{"fetch_universe"}}
  <2>1. active' = {"screen_stocks"}
    BY <1>1, <1>2, FollowsStep
  <2>2. QED
    BY <1>1, <1>2, <2>1 DEF IInv, Superstep, Arrivals, Firings, Signalled, Early, Middle, Deciding,
                            Trading
<1>3. CASE active = {"screen_stocks"}
  <2>1. active' = Middle
    BY <1>1, <1>3, FollowsStep
  <2>2. QED
    BY <1>1, <1>3, <2>1 DEF IInv, Superstep, Arrivals, Firings, Signalled, Early, Middle, Deciding,
                            Trading
<1>4. CASE active = Middle
  <2>1. active' = {"news"} /\ reported = {"fundamentals", "technical"}
    BY <1>1, <1>4, FollowsStep DEF IInv, Arrivals, Middle, Analysts
  <2>2. QED
    BY <1>1, <1>4, <2>1 DEF IInv, Superstep, Arrivals, Firings, Signalled, Early, Middle, Deciding,
                            Trading
<1>5. CASE active = {"news"}
  <2>1. active' = Deciding /\ reported = Analysts
    BY <1>1, <1>5, FollowsStep DEF IInv, Arrivals, Analysts
  <2>2. QED
    BY <1>1, <1>5, <2>1 DEF IInv, Superstep, Arrivals, Firings, Signalled, Early, Middle, Deciding,
                            Trading
<1>6. CASE active = Deciding
  <2>1. active' = Trading
    BY <1>1, <1>6, FollowsStep
  <2>2. QED
    BY <1>1, <1>6, <2>1 DEF IInv, Superstep, Arrivals, Firings, Signalled, Early, Middle, Deciding,
                            Trading
<1>7. CASE active \in {{}, Trading}
  BY <1>1, <1>7, FollowsStep
<1>8. QED
  BY <1>2, <1>3, <1>4, <1>5, <1>6, <1>7 DEF IInv, Superstep, Early

(* A node that is no analyst ends. *)
LEMMA NodeKeeps ==
    ASSUME IInv, NEW n \in Nodes \ Analysts, Running(n), Finish(n),
           UNCHANGED <<stage, active, reported, calling, answer>>,
           n # "screen_stocks" => UNCHANGED screened
    PROVE  IInv'
<1>1. /\ finished' = finished \cup {n} /\ fired' = [fired EXCEPT ![n] = @ + 1]
      /\ n \in active /\ n \notin finished /\ stage = "graph"
  BY DEF Running, Finish
<1>2. Superstep'
  BY <1>1 DEF IInv, Superstep
<1>3. Arrivals'
  BY <1>1 DEF IInv, Arrivals, Analysts
<1>4. Firings'
  <2>1. fired' \in [Nodes -> Nat] /\ fired'[n] = fired[n] + 1
        /\ \A m \in Nodes \ {n} : fired'[m] = fired[m]
    BY <1>1 DEF IInv, Firings
  <2>2. "portfolio_decision" \in Nodes /\ "execute_trades" \in Nodes
    BY DEF Nodes
  <2>3. CASE n = "portfolio_decision"
    <3>1. active = Deciding /\ finished = {}
      BY <1>1, <2>3 DEF IInv, Superstep, Early, Middle, Deciding, Trading
    <3>2. QED
      BY <1>1, <2>1, <2>2, <2>3, <3>1 DEF IInv, Firings, Deciding, Trading
  <2>4. CASE n = "execute_trades"
    <3>1. active = Trading /\ finished = {}
      BY <1>1, <2>4 DEF IInv, Superstep, Early, Middle, Deciding, Trading
    <3>2. QED
      BY <1>1, <2>1, <2>2, <2>4, <3>1 DEF IInv, Firings, Deciding, Trading
  <2>5. CASE n \notin {"portfolio_decision", "execute_trades"}
    <3>1. active \notin {Deciding, Trading}
      BY <1>1, <2>5 DEF Deciding, Trading
    <3>2. QED
      BY <1>1, <2>1, <2>2, <2>5, <3>1 DEF IInv, Firings
  <2>6. QED
    BY <2>3, <2>4, <2>5
<1>5. Signalled'
  <2>1. CASE n = "screen_stocks"
    <3>1. active = {"screen_stocks"}
      BY <1>1, <2>1 DEF IInv, Superstep, Early, Middle, Deciding, Trading
    <3>2. active \in Early /\ reported = {}
      BY <3>1 DEF IInv, Arrivals, Early
    <3>3. QED
      BY <3>2 DEF IInv, Signalled
  <2>2. CASE n # "screen_stocks"
    BY <2>2 DEF IInv, Signalled
  <2>3. QED
    BY <2>1, <2>2
<1>6. QED
  BY <1>2, <1>3, <1>4, <1>5 DEF IInv

(* Where an analyst can be running, and that it has not reported then. *)
LEMMA AnalystRuns ==
    ASSUME IInv, NEW a \in Analysts, Running(a)
    PROVE  /\ active \in {Middle, {"news"}} /\ a \in active /\ a \notin finished
           /\ a \notin reported
<1>1. a \in active /\ a \notin finished
  BY DEF Running
<1>2. CASE active = Middle
  BY <1>1, <1>2 DEF IInv, Arrivals
<1>3. CASE active = {"news"}
  BY <1>1, <1>3 DEF IInv, Arrivals
<1>4. active \in {Middle, {"news"}}
  BY <1>1 DEF IInv, Superstep, Analysts, Early, Deciding, Trading
<1>5. QED
  BY <1>1, <1>2, <1>3, <1>4

(* An analyst reports when every screened stock has a signal. *)
LEMMA DoneKeeps == ASSUME IInv, NEW a \in Analysts, AnalystDone(a) PROVE IInv'
<1>1. /\ Running(a) /\ screened = DOMAIN answer[a]
      /\ finished' = finished \cup {a} /\ fired' = [fired EXCEPT ![a] = @ + 1]
      /\ reported' = reported \cup {a}
      /\ UNCHANGED <<stage, active, screened, calling, answer>>
  BY DEF AnalystDone, Finish, callVars
<1>2. active \in {Middle, {"news"}} /\ a \in active /\ a \notin finished /\ a \notin reported
  BY <1>1, AnalystRuns
<1>3. Superstep'
  BY <1>1, <1>2 DEF IInv, Superstep
<1>4. active \notin Early \cup {Deciding, Trading}
  BY <1>2 DEF Early, Middle, Deciding, Trading, Analysts
<1>5. Arrivals'
  <2>1. CASE active = Middle
    <3>1. active # {"news"}
      BY <2>1 DEF Middle
    <3>2. QED
      BY <1>1, <1>4, <2>1, <3>1 DEF IInv, Arrivals
  <2>2. CASE active = {"news"}
    <3>1. active # Middle
      BY <2>2 DEF Middle
    <3>2. QED
      BY <1>1, <1>4, <2>2, <3>1 DEF IInv, Arrivals
  <2>3. QED
    BY <1>2, <2>1, <2>2
<1>6. Firings'
  <2>1. a \in Nodes /\ a \notin {"portfolio_decision", "execute_trades"}
    BY DEF Nodes, Analysts
  <2>2. "portfolio_decision" \in Nodes /\ "execute_trades" \in Nodes
    BY DEF Nodes
  <2>3. QED
    BY <1>1, <1>4, <2>1, <2>2 DEF IInv, Firings
<1>7. Signalled'
  BY <1>1, <1>4 DEF IInv, Signalled
<1>8. QED
  BY <1>3, <1>5, <1>6, <1>7 DEF IInv

(* A signal is added for a stock that has none yet. *)
LEMMA AnsweredDomain ==
    ASSUME DOMAIN answer = Analysts, NEW a \in Analysts, NEW s, NEW signal, Answered(a, s, signal)
    PROVE  /\ DOMAIN answer' = Analysts
           /\ DOMAIN answer'[a] = DOMAIN answer[a] \cup {s}
           /\ \A b \in Analysts \ {a} : answer'[b] = answer[b]
<1> DEFINE signals == [t \in DOMAIN answer[a] \cup {s} |-> IF t = s THEN signal ELSE answer[a][t]]
<1>1. answer' = [answer EXCEPT ![a] = signals]
  BY DEF Answered
<1>2. DOMAIN signals = DOMAIN answer[a] \cup {s}
  OBVIOUS
<1>3. QED
  BY <1>1, <1>2

(* An analyst that is running, or has a call under way, has not reported. *)
LEMMA CallsAreLive ==
    ASSUME IInv, NEW a \in Analysts, NEW s, s \in calling[a] \/ Turn(a, s)
    PROVE  /\ a \notin reported /\ active \notin Early
           /\ s \in screened \ DOMAIN answer[a]
<1>1. CASE s \in calling[a]
  BY <1>1 DEF IInv, Signalled
<1>2. CASE Turn(a, s)
  <2>1. Running(a) /\ s \in Waiting(a)
    BY <1>2 DEF Turn
  <2>2. a \notin reported /\ active \in {Middle, {"news"}}
    BY <2>1, AnalystRuns
  <2>3. active \notin Early
    BY <2>2 DEF Early, Middle
  <2>4. QED
    BY <2>1, <2>2, <2>3 DEF Waiting
<1>3. QED
  BY <1>1, <1>2

(* A signal that arrives, from a call or in place of one, is for a stock *)
(* that had none. *)
LEMMA SignalKeeps ==
    ASSUME IInv, NEW a \in Analysts, NEW s, NEW signal, s \in calling[a] \/ Turn(a, s),
           Answered(a, s, signal),
           DOMAIN calling' = Analysts, calling'[a] = calling[a] \ {s},
           \A b \in Analysts \ {a} : calling'[b] = calling[b],
           UNCHANGED <<stage, active, finished, reported, fired, screened>>
    PROVE  IInv'
<1>1. a \notin reported /\ active \notin Early /\ s \in screened \ DOMAIN answer[a]
  BY CallsAreLive
<1>2. /\ DOMAIN answer' = Analysts
      /\ DOMAIN answer'[a] = DOMAIN answer[a] \cup {s}
      /\ \A b \in Analysts \ {a} : answer'[b] = answer[b]
  BY AnsweredDomain DEF IInv, Signalled
<1>3. \A b \in Analysts : /\ calling'[b] \subseteq screened \ DOMAIN answer'[b]
                          /\ DOMAIN answer'[b] \subseteq screened
  <2>1. SUFFICES ASSUME NEW b \in Analysts
                 PROVE  /\ calling'[b] \subseteq screened \ DOMAIN answer'[b]
                        /\ DOMAIN answer'[b] \subseteq screened
    OBVIOUS
  <2>2. calling[b] \subseteq screened \ DOMAIN answer[b] /\ DOMAIN answer[b] \subseteq screened
    BY DEF IInv, Signalled
  <2>3. CASE b = a
    BY <1>1, <1>2, <2>2, <2>3
  <2>4. CASE b # a
    BY <1>2, <2>2, <2>4
  <2>5. QED
    BY <2>3, <2>4
<1>4. \A b \in reported : b \in Analysts \ {a} /\ DOMAIN answer'[b] = screened
  <2>1. reported \subseteq Analysts
    BY DEF IInv, Superstep, Arrivals, Early, Analysts, Middle, Deciding, Trading
  <2>2. QED
    BY <1>1, <1>2, <2>1 DEF IInv, Signalled
<1>5. Signalled'
  BY <1>1, <1>2, <1>3, <1>4 DEF Signalled
<1>6. Superstep' /\ Arrivals' /\ Firings'
  BY DEF IInv, Superstep, Arrivals, Firings
<1>7. QED
  BY <1>5, <1>6 DEF IInv

(* A call that begins is for a stock whose turn it is. *)
LEMMA CallKeeps == ASSUME IInv, NEW a \in Analysts, NEW s, Call(a, s) PROVE IInv'
<1>1. /\ Turn(a, s) /\ calling' = [calling EXCEPT ![a] = @ \cup {s}]
      /\ UNCHANGED <<stage, active, finished, reported, fired, screened, answer>>
  BY DEF Call, graphVars
<1>2. a \notin reported /\ active \notin Early /\ s \in screened \ DOMAIN answer[a]
  BY <1>1, CallsAreLive
<1>3. Signalled'
  BY <1>1, <1>2 DEF IInv, Signalled
<1>4. Superstep' /\ Arrivals' /\ Firings'
  BY <1>1 DEF IInv, Superstep, Arrivals, Firings
<1>5. QED
  BY <1>3, <1>4 DEF IInv

(* A ranking changes scores and adds no signal. *)
LEMMA RankDomains ==
    ASSUME IInv, NEW a \in Analysts, RankSignals(a)
    PROVE  DOMAIN answer' = Analysts /\ \A b \in Analysts : DOMAIN answer'[b] = DOMAIN answer[b]
<1>1. DOMAIN answer = Analysts
  BY DEF IInv, Signalled
<1>2. CASE UNCHANGED answer
  BY <1>1, <1>2
<1>3. ASSUME NEW ordered, answer' = [answer EXCEPT ![a] = Ranking(@, ordered)]
      PROVE  DOMAIN answer' = Analysts /\ \A b \in Analysts : DOMAIN answer'[b] = DOMAIN answer[b]
  <2>1. PICK signals : signals = Ranking(answer[a], ordered)
    OBVIOUS
  <2>2. DOMAIN signals = DOMAIN answer[a]
    BY <2>1 DEF Ranking
  <2>3. answer' = [answer EXCEPT ![a] = signals]
    BY <1>3, <2>1
  <2>4. QED
    BY <1>1, <2>2, <2>3
<1>4. QED
  BY <1>2, <1>3 DEF RankSignals

(* Nor does it touch anything else that the supersteps depend on. *)
LEMMA RankKeeps == ASSUME IInv, NEW a \in Analysts, RankSignals(a) PROVE IInv'
<1>1. UNCHANGED <<stage, active, finished, reported, fired, screened, calling>>
  BY DEF RankSignals, graphVars
<1>2. DOMAIN answer' = Analysts /\ \A b \in Analysts : DOMAIN answer'[b] = DOMAIN answer[b]
  BY RankDomains
<1>3. reported \subseteq Analysts
  BY DEF IInv, Superstep, Arrivals, Early, Analysts, Middle, Deciding, Trading
<1>4. Signalled'
  BY <1>1, <1>2, <1>3 DEF IInv, Signalled
<1>5. Superstep' /\ Arrivals' /\ Firings'
  BY <1>1 DEF IInv, Superstep, Arrivals, Firings
<1>6. QED
  BY <1>4, <1>5 DEF IInv

(* Every step of the pipeline keeps the invariant. *)
LEMMA NextIInv == IInv /\ [Next]_vars => IInv'
<1>1. SUFFICES ASSUME IInv, [Next]_vars PROVE IInv'
  OBVIOUS
<1>2. CASE ReadPortfolio \/ ReadFails \/ NodeRaises \/ FinishRun \/ RecordFails \/ CloseTransaction
           \/ Ended \/ UNCHANGED vars
  BY <1>1, <1>2, OutsideKeeps DEF ReadPortfolio, ReadFails, NodeRaises, FinishRun, RecordFails, Report,
       CloseTransaction, Ended, Running, vars, graphVars, callVars
<1>3. CASE UpsertInstruments \/ UpsertFails \/ WeightsFail
  BY <1>1, <1>3, StartKeeps DEF UpsertInstruments, UpsertFails, WeightsFail
<1>4. CASE NextStep
  BY <1>1, <1>4, NextStepKeeps
<1>5. CASE FetchUniverse \/ ScreenStocks \/ PrefetchNews \/ PortfolioDecision \/ ExecuteDone
  <2>1. {"fetch_universe", "screen_stocks", "prefetch_news", "portfolio_decision",
         "execute_trades"} \subseteq Nodes \ Analysts
    BY DEF Nodes, Analysts
  <2>2. CASE FetchUniverse
    BY <1>1, <2>1, <2>2, NodeKeeps DEF FetchUniverse, callVars
  <2>3. CASE ScreenStocks
    BY <1>1, <2>1, <2>3, NodeKeeps DEF ScreenStocks, callVars
  <2>4. CASE PrefetchNews
    BY <1>1, <2>1, <2>4, NodeKeeps DEF PrefetchNews, callVars
  <2>5. CASE PortfolioDecision
    BY <1>1, <2>1, <2>5, NodeKeeps DEF PortfolioDecision, callVars
  <2>6. CASE ExecuteDone
    BY <1>1, <2>1, <2>6, NodeKeeps DEF ExecuteDone, callVars
  <2>7. QED
    BY <1>5, <2>2, <2>3, <2>4, <2>5, <2>6
<1>6. ASSUME NEW a \in Analysts, RankSignals(a) \/ AnalystDone(a) PROVE IInv'
  BY <1>1, <1>6, RankKeeps, DoneKeeps
<1>7. ASSUME NEW a \in Analysts, NEW s \in Symbols,
             CapReached(a, s) \/ CallReturns(a, s) \/ CallFails(a, s)
      PROVE  IInv'
  <2>1. DOMAIN calling = Analysts
    BY <1>1 DEF IInv, Signalled
  <2>2. CASE CapReached(a, s)
    <3>1. Turn(a, s) /\ Answered(a, s, Neutral) /\ UNCHANGED calling
          /\ UNCHANGED <<stage, active, finished, reported, fired, screened>>
      BY <2>2 DEF CapReached, graphVars
    <3>2. s \notin calling[a]
      BY <3>1 DEF Turn, Waiting
    <3>3. QED
      BY <1>1, <2>1, <3>1, <3>2, SignalKeeps
  <2>3. ASSUME NEW signal, s \in calling[a], Answered(a, s, signal),
               calling' = [calling EXCEPT ![a] = @ \ {s}],
               UNCHANGED <<stage, active, finished, reported, fired, screened>>
        PROVE  IInv'
    <3>1. /\ DOMAIN calling' = Analysts /\ calling'[a] = calling[a] \ {s}
          /\ \A b \in Analysts \ {a} : calling'[b] = calling[b]
      BY <2>1, <2>3
    <3>2. QED
      BY <1>1, <2>3, <3>1, SignalKeeps
  <2>4. CASE CallReturns(a, s)
    BY <2>3, <2>4 DEF CallReturns, graphVars
  <2>5. CASE CallFails(a, s)
    BY <2>3, <2>5 DEF CallFails, graphVars
  <2>6. QED
    BY <1>7, <2>2, <2>4, <2>5
<1>8. ASSUME NEW a \in Analysts, NEW s \in Symbols, Call(a, s) PROVE IInv'
  BY <1>1, <1>8, CallKeeps
<1>9. CASE NoInstrument \/ Fill \/ RejectOverdraft \/ RejectOther \/ RaisesOnce \/ RaisesForGood
           \/ Breaks \/ SubmitToBroken
  BY <1>1, <1>9, OutsideKeeps DEF NoInstrument, Fill, RejectOverdraft, RejectOther, RaisesOnce,
       RaisesForGood, Breaks, SubmitToBroken, Settled, graphVars, callVars
<1>10. QED
  BY <1>1, <1>2, <1>3, <1>4, <1>5, <1>6, <1>7, <1>8, <1>9 DEF Next

(* For any stocks, answers, call cap and concurrency, and wherever calls,  *)
(* nodes and submissions fail, a run decides and trades at most once, and  *)
(* on a signal of every analyst for every screened stock (graph.py, the    *)
(* join before portfolio_decision).                                        *)
THEOREM DecidesOnceAlways == Spec => []DecidesOnce
<1>1. ASSUME IInv PROVE DecidesOnce
  <2>1. fired["execute_trades"] <= 1
    BY <1>1 DEF IInv, Firings
  <2>2. fired["portfolio_decision"] \in {0, 1}
        /\ (fired["portfolio_decision"] = 1 => active \in {Deciding, Trading})
    BY <1>1 DEF IInv, Firings
  <2>3. active \in {Deciding, Trading} => \A a \in Analysts : DOMAIN answer[a] = screened
    BY <1>1 DEF IInv, Arrivals, Signalled
  <2>4. QED
    BY <2>1, <2>2, <2>3 DEF DecidesOnce
<1>2. QED
  BY InitIInv, NextIInv, <1>1, PTL DEF Spec
-----------------------------------------------------------------------------
(* The call cap.  A stock is met by an analyst when its call begins, or    *)
(* when the cap answers in its place; both happen once.  The count of      *)
(* calls follows the stocks met until it reaches the cap, and stays there. *)

Met(a) == calling[a] \cup DOMAIN answer[a]
MetByAll == Cardinality(Met("fundamentals")) + Cardinality(Met("news"))
            + Cardinality(Met("technical"))

Counted ==
    /\ screened \subseteq Universe
    /\ llmCalls \in Nat /\ made = llmCalls /\ made <= MaxCalls
    /\ made <= MetByAll
    /\ made < MaxCalls => made = MetByAll

(* The screened stocks are finitely many, and so are those an analyst met. *)
LEMMA MetFinite ==
    ASSUME IInv, screened \subseteq Universe, NEW a \in Analysts
    PROVE  IsFiniteSet(Met(a)) /\ Cardinality(Met(a)) \in Nat
<1>1. IsFiniteSet(screened)
  <2>1. IsFiniteSet(Symbols) /\ screened \in SUBSET Symbols
    BY EquitiesPipelineAssumption
  <2>2. QED
    BY <2>1, FS_Subset
<1>2. Met(a) \in SUBSET screened
  BY DEF IInv, Signalled, Met
<1>3. IsFiniteSet(Met(a))
  BY <1>1, <1>2, FS_Subset
<1>4. QED
  BY <1>3, FS_CardinalityType

(* The three analysts together have met one stock more when one of them has. *)
LEMMA OneMoreMet ==
    ASSUME IInv, screened \subseteq Universe, NEW a \in Analysts, NEW s, s \notin Met(a),
           Met(a)' = Met(a) \cup {s}, \A b \in Analysts \ {a} : Met(b)' = Met(b)
    PROVE  MetByAll' = MetByAll + 1 /\ MetByAll \in Nat
<1>1. \A b \in Analysts : IsFiniteSet(Met(b)) /\ Cardinality(Met(b)) \in Nat
  BY MetFinite
<1>2. Cardinality(Met(a)') = Cardinality(Met(a)) + 1
  BY <1>1, FS_AddElement
<1>3. \A b \in Analysts \ {a} : Cardinality(Met(b)') = Cardinality(Met(b))
  OBVIOUS
<1>4. PICK f, n, t : f = Cardinality(Met("fundamentals")) /\ n = Cardinality(Met("news"))
                     /\ t = Cardinality(Met("technical"))
  OBVIOUS
<1>5. PICK f1, n1, t1 : f1 = Cardinality(Met("fundamentals")') /\ n1 = Cardinality(Met("news")')
                        /\ t1 = Cardinality(Met("technical")')
  OBVIOUS
<1>6. f \in Nat /\ n \in Nat /\ t \in Nat
  BY <1>1, <1>4 DEF Analysts
<1>7. \/ f1 = f + 1 /\ n1 = n /\ t1 = t
      \/ f1 = f /\ n1 = n + 1 /\ t1 = t
      \/ f1 = f /\ n1 = n /\ t1 = t + 1
  <2>1. CASE a = "fundamentals"
    BY <1>2, <1>3, <1>4, <1>5, <2>1 DEF Analysts
  <2>2. CASE a = "news"
    BY <1>2, <1>3, <1>4, <1>5, <2>2 DEF Analysts
  <2>3. CASE a = "technical"
    BY <1>2, <1>3, <1>4, <1>5, <2>3 DEF Analysts
  <2>4. QED
    BY <2>1, <2>2, <2>3 DEF Analysts
<1>8. MetByAll = f + n + t /\ MetByAll' = f1 + n1 + t1
  BY <1>4, <1>5 DEF MetByAll
<1>9. QED
  BY <1>6, <1>7, <1>8

(* A step that leaves the calls, the signals and the counter alone. *)
LEMMA CountKeeps ==
    ASSUME Counted, UNCHANGED <<calling, answer, llmCalls, made>>, screened' \subseteq Universe
    PROVE  Counted'
  BY DEF Counted, MetByAll, Met

(* A stock whose turn it is has not been met. *)
LEMMA TurnIsNew == ASSUME NEW a, NEW s, Turn(a, s) PROVE s \notin Met(a)
  BY DEF Turn, Waiting, Met

(* The signal of the cap: nothing is counted, for nothing is left. *)
LEMMA CapCounts ==
    ASSUME IInv, Counted, NEW a \in Analysts, NEW s, CapReached(a, s)
    PROVE  Counted'
<1>1. /\ Turn(a, s) /\ llmCalls >= MaxCalls /\ Answered(a, s, Neutral)
      /\ UNCHANGED <<screened, calling, llmCalls, made>>
  BY DEF CapReached, graphVars
<1>2. /\ DOMAIN answer'[a] = DOMAIN answer[a] \cup {s}
      /\ \A b \in Analysts \ {a} : answer'[b] = answer[b]
  BY <1>1, AnsweredDomain DEF IInv, Signalled
<1>3. Met(a)' = Met(a) \cup {s} /\ \A b \in Analysts \ {a} : Met(b)' = Met(b)
  BY <1>1, <1>2 DEF Met
<1>4. MetByAll' = MetByAll + 1 /\ MetByAll \in Nat
  BY <1>1, <1>3, TurnIsNew, OneMoreMet DEF Counted
<1>5. QED
  BY <1>1, <1>4, EquitiesPipelineAssumption DEF Counted

(* A call is counted when it begins, with the stock it is for. *)
LEMMA CallCounts ==
    ASSUME IInv, Counted, NEW a \in Analysts, NEW s, Call(a, s)
    PROVE  Counted'
<1>1. /\ Turn(a, s) /\ llmCalls < MaxCalls /\ llmCalls' = llmCalls + 1 /\ made' = made + 1
      /\ calling' = [calling EXCEPT ![a] = @ \cup {s}]
      /\ UNCHANGED <<screened, answer>>
  BY DEF Call, graphVars
<1>2. /\ calling'[a] = calling[a] \cup {s}
      /\ \A b \in Analysts \ {a} : calling'[b] = calling[b]
  BY <1>1 DEF IInv, Signalled
<1>3. Met(a)' = Met(a) \cup {s} /\ \A b \in Analysts \ {a} : Met(b)' = Met(b)
  BY <1>1, <1>2 DEF Met
<1>4. MetByAll' = MetByAll + 1 /\ MetByAll \in Nat
  BY <1>1, <1>3, TurnIsNew, OneMoreMet DEF Counted
<1>5. QED
  BY <1>1, <1>4, EquitiesPipelineAssumption DEF Counted

(* A call that ends, well or not, was met and counted when it began. *)
LEMMA EndCounts ==
    ASSUME IInv, Counted, NEW a \in Analysts, NEW s, NEW signal, s \in calling[a],
           Answered(a, s, signal), calling' = [calling EXCEPT ![a] = @ \ {s}],
           UNCHANGED <<screened, llmCalls, made>>
    PROVE  Counted'
<1>1. /\ DOMAIN answer'[a] = DOMAIN answer[a] \cup {s}
      /\ \A b \in Analysts \ {a} : answer'[b] = answer[b]
  BY AnsweredDomain DEF IInv, Signalled
<1>2. /\ calling'[a] = calling[a] \ {s}
      /\ \A b \in Analysts \ {a} : calling'[b] = calling[b]
  BY DEF IInv, Signalled
<1>3. Met(a)' = Met(a) /\ \A b \in Analysts \ {a} : Met(b)' = Met(b)
  BY <1>1, <1>2 DEF Met
<1>4. \A b \in Analysts : Met(b)' = Met(b)
  BY <1>3
<1>5. MetByAll' = MetByAll
  BY <1>4 DEF MetByAll, Analysts
<1>6. QED
  BY <1>5 DEF Counted

(* A ranking call is for no stock, and the counter does not see it. *)
LEMMA RankCounts ==
    ASSUME IInv, Counted, NEW a \in Analysts, RankSignals(a)
    PROVE  Counted'
<1>1. UNCHANGED <<screened, calling, llmCalls, made>>
  BY DEF RankSignals, graphVars
<1>2. \A b \in Analysts : Met(b)' = Met(b)
  BY <1>1, RankDomains DEF Met
<1>3. MetByAll' = MetByAll
  BY <1>2 DEF MetByAll, Analysts
<1>4. QED
  BY <1>1, <1>3 DEF Counted

(* Every step keeps the count. *)
LEMMA NextCounted == IInv /\ Counted /\ [Next]_vars => Counted'
<1>1. SUFFICES ASSUME IInv, Counted, [Next]_vars PROVE Counted'
  OBVIOUS
<1>2. screened \subseteq Universe
  BY <1>1 DEF Counted
<1>3. CASE ReadPortfolio \/ ReadFails \/ UpsertInstruments \/ UpsertFails \/ WeightsFail \/ NextStep
           \/ FetchUniverse \/ PrefetchNews \/ NodeRaises \/ PortfolioDecision
           \/ ExecuteDone \/ FinishRun \/ RecordFails \/ CloseTransaction \/ Ended \/ UNCHANGED vars
  BY <1>1, <1>2, <1>3, CountKeeps DEF ReadPortfolio, ReadFails, UpsertInstruments, UpsertFails,
       WeightsFail, StartGraph, NextStep, FetchUniverse, PrefetchNews, NodeRaises, PortfolioDecision,
       ExecuteDone, FinishRun, RecordFails, Report, CloseTransaction, Ended, vars, graphVars, callVars
<1>4. CASE ScreenStocks
  BY <1>1, <1>4, CountKeeps DEF ScreenStocks, callVars
<1>5. CASE \E a \in Analysts : RankSignals(a) \/ AnalystDone(a)
  <2>1. CASE \E a \in Analysts : RankSignals(a)
    BY <1>1, <2>1, RankCounts
  <2>2. CASE \E a \in Analysts : AnalystDone(a)
    BY <1>1, <1>2, <2>2, CountKeeps DEF AnalystDone, callVars
  <2>3. QED
    BY <1>5, <2>1, <2>2
<1>6. CASE NoInstrument \/ Fill \/ RejectOverdraft \/ RejectOther \/ RaisesOnce \/ RaisesForGood
           \/ Breaks \/ SubmitToBroken
  BY <1>1, <1>2, <1>6, CountKeeps DEF NoInstrument, Fill, RejectOverdraft, RejectOther, RaisesOnce,
       RaisesForGood, Breaks, SubmitToBroken, Settled, graphVars, callVars
<1>7. ASSUME NEW a \in Analysts, NEW s \in Symbols,
             CapReached(a, s) \/ Call(a, s) \/ CallReturns(a, s) \/ CallFails(a, s)
      PROVE  Counted'
  <2>1. CASE CapReached(a, s) \/ Call(a, s)
    BY <1>1, <2>1, CapCounts, CallCounts
  <2>2. CASE CallReturns(a, s)
    BY <1>1, <2>2, EndCounts DEF CallReturns, graphVars
  <2>3. CASE CallFails(a, s)
    BY <1>1, <2>3, EndCounts DEF CallFails, graphVars
  <2>4. QED
    BY <1>7, <2>1, <2>2, <2>3
<1>8. QED
  BY <1>1, <1>3, <1>4, <1>5, <1>6, <1>7 DEF Next

(* The start of a run has met and counted nothing. *)
LEMMA InitCounted == Init => Counted
<1>1. SUFFICES ASSUME Init PROVE Counted
  OBVIOUS
<1>2. \A a \in Analysts : Met(a) = {}
  BY <1>1 DEF Init, Met, None
<1>3. MetByAll = 0
  BY <1>2, FS_EmptySet DEF MetByAll, Analysts
<1>4. QED
  BY <1>1, <1>3, EquitiesPipelineAssumption DEF Init, Counted

(* The ranking calls.  None is made before the stocks are screened, and an *)
(* analyst that has reported made its own if there was enough to rank.     *)
RankedOnce ==
    /\ ranked \subseteq Analysts
    /\ active \in Early => ranked = {}
    /\ ranked # {} => ToRank
    /\ \A a \in reported : ToRank => a \in ranked

(* Steps that rank nothing, screen nothing and hand nothing in. *)
LEMMA RankedKeeps ==
    ASSUME RankedOnce, UNCHANGED <<reported, screened, ranked>>,
           active' \in Early => active \in Early
    PROVE  RankedOnce'
  BY DEF RankedOnce, ToRank

(* Every step keeps the ranking calls in order. *)
LEMMA NextRanked == IInv /\ RankedOnce /\ [Next]_vars => RankedOnce'
<1>1. SUFFICES ASSUME IInv, RankedOnce, [Next]_vars PROVE RankedOnce'
  OBVIOUS
<1>2. ASSUME UNCHANGED <<active, reported, screened, ranked>> PROVE RankedOnce'
  BY <1>1, <1>2, RankedKeeps
<1>3. CASE ReadPortfolio \/ ReadFails \/ FetchUniverse \/ PrefetchNews \/ NodeRaises
           \/ PortfolioDecision \/ ExecuteDone \/ FinishRun \/ RecordFails \/ CloseTransaction
           \/ Ended \/ UNCHANGED vars
  BY <1>2, <1>3 DEF ReadPortfolio, ReadFails, FetchUniverse, PrefetchNews, NodeRaises,
       PortfolioDecision, ExecuteDone, FinishRun, RecordFails, Report, CloseTransaction, Ended, vars,
       graphVars, callVars
<1>4. CASE NoInstrument \/ Fill \/ RejectOverdraft \/ RejectOther \/ RaisesOnce \/ RaisesForGood
           \/ Breaks \/ SubmitToBroken
  BY <1>2, <1>4 DEF NoInstrument, Fill, RejectOverdraft, RejectOther, RaisesOnce, RaisesForGood,
       Breaks, SubmitToBroken, Settled, graphVars, callVars
<1>5. CASE \E a \in Analysts : \E s \in Symbols :
             CapReached(a, s) \/ Call(a, s) \/ CallReturns(a, s) \/ CallFails(a, s)
  BY <1>2, <1>5 DEF CapReached, Call, CallReturns, CallFails, graphVars
<1>6. CASE UpsertInstruments \/ UpsertFails \/ WeightsFail
  <2>1. active = {} /\ UNCHANGED <<reported, screened, ranked>>
    BY <1>1, <1>6 DEF UpsertInstruments, UpsertFails, WeightsFail, StartGraph, callVars, IInv, Superstep
  <2>2. QED
    BY <1>1, <2>1, RankedKeeps DEF Early
<1>7. CASE NextStep
  <2>1. finished = active /\ active' = Triggered(active) /\ Triggered(active) # {}
        /\ UNCHANGED <<reported, screened, ranked>>
    BY <1>7 DEF NextStep, callVars
  <2>2. active' \in Early => active \in Early
    <3>1. CASE active \in Early
      BY <3>1
    <3>2. CASE active \in {Middle, {"news"}, Deciding, Trading}
      BY <1>1, <2>1, <3>2, FollowsStep DEF Early, Deciding, Trading
    <3>3. QED
      BY <1>1, <3>1, <3>2 DEF IInv, Superstep
  <2>3. QED
    BY <1>1, <2>1, <2>2, RankedKeeps
<1>8. CASE ScreenStocks
  <2>1. "screen_stocks" \in active /\ UNCHANGED <<active, reported, ranked>>
    BY <1>8 DEF ScreenStocks, Running, callVars
  <2>2. active \in Early
    BY <1>1, <2>1 DEF IInv, Superstep, Early, Middle, Deciding, Trading
  <2>3. ranked = {} /\ reported = {}
    BY <1>1, <2>2 DEF RankedOnce, IInv, Arrivals
  <2>4. QED
    BY <2>1, <2>3 DEF RankedOnce
<1>9. ASSUME NEW a \in Analysts, RankSignals(a) PROVE RankedOnce'
  <2>1. Running(a) /\ ToRank /\ ranked' = ranked \cup {a} /\ UNCHANGED <<active, reported, screened>>
    BY <1>9 DEF RankSignals, graphVars
  <2>2. active \notin Early
    BY <1>1, <2>1, AnalystRuns DEF Early, Middle
  <2>3. QED
    BY <1>1, <2>1, <2>2 DEF RankedOnce, ToRank
<1>10. ASSUME NEW a \in Analysts, AnalystDone(a) PROVE RankedOnce'
  <2>1. /\ ToRank => a \in ranked
        /\ reported' = reported \cup {a} /\ UNCHANGED <<active, ranked, screened>>
    BY <1>10 DEF AnalystDone, callVars
  <2>2. QED
    BY <1>1, <2>1 DEF RankedOnce, ToRank
<1>11. QED
  BY <1>1, <1>3, <1>4, <1>5, <1>6, <1>7, <1>8, <1>9, <1>10 DEF Next

(* For any stocks, cap and concurrency and under every schedule of the     *)
(* analysts, no more calls for a signal than the cap reach the model, and  *)
(* by the time the portfolio is decided as many have as the cap and the    *)
(* screened stocks allow: no stock got the neutral signal while a call was *)
(* to be had; besides them there is one ranking call for each analyst if   *)
(* there are stocks enough to rank, and none otherwise                     *)
(* (llm_analyst_cache.py, the counter raised before the await; service.py, *)
(* build_ranker).                                                          *)
THEOREM CallCapAlwaysExact == Spec => []CallCapExact
<1>1. ASSUME IInv, Counted, RankedOnce PROVE CallCapExact
  <2>1. SUFFICES ASSUME fired["portfolio_decision"] = 1
                 PROVE  /\ made = Min({MaxCalls, Cardinality(Analysts) * Cardinality(screened)})
                        /\ ranked = (IF ToRank THEN Analysts ELSE {})
    BY <1>1 DEF CallCapExact, Counted
  <2>2. active \in {Deciding, Trading}
    BY <1>1, <2>1 DEF IInv, Firings
  <2>3. \A a \in Analysts : Met(a) = screened
    BY <1>1, <2>2 DEF IInv, Arrivals, Signalled, Met
  <2>4. PICK n : n = Cardinality(screened)
    OBVIOUS
  <2>5. n \in Nat
    <3>1. "news" \in Analysts
      BY DEF Analysts
    <3>2. QED
      BY <1>1, <2>3, <2>4, <3>1, MetFinite DEF Counted
  <2>6. MetByAll = 3 * n
    BY <2>3, <2>4, <2>5 DEF MetByAll, Analysts
  <2>7. Cardinality(Analysts) = 3
    <3>1. Cardinality({"fundamentals"}) = 1 /\ IsFiniteSet({"fundamentals"})
      BY FS_Singleton
    <3>2. Cardinality({"fundamentals"} \cup {"news"}) = 2 /\ IsFiniteSet({"fundamentals"} \cup {"news"})
      BY <3>1, FS_AddElement
    <3>3. Cardinality(({"fundamentals"} \cup {"news"}) \cup {"technical"}) = 3
      BY <3>2, FS_AddElement
    <3>4. Analysts = ({"fundamentals"} \cup {"news"}) \cup {"technical"}
      BY DEF Analysts
    <3>5. QED
      BY <3>3, <3>4
  <2>8. PICK most : most = 3 * n
    OBVIOUS
  <2>9. /\ made \in Nat /\ MaxCalls \in Nat /\ most \in Nat
        /\ made <= MaxCalls /\ made <= most /\ (made < MaxCalls => made = most)
    BY <1>1, <2>5, <2>6, <2>8, EquitiesPipelineAssumption DEF Counted
  <2>10. made = Min({MaxCalls, most})
    BY <2>9 DEF Min
  <2>11. ranked = (IF ToRank THEN Analysts ELSE {})
    <3>1. reported = Analysts
      BY <1>1, <2>2 DEF IInv, Arrivals
    <3>2. QED
      BY <1>1, <3>1 DEF RankedOnce
  <2>12. QED
    BY <2>4, <2>7, <2>8, <2>10, <2>11
<1>2. Init => RankedOnce
  BY DEF Init, RankedOnce
<1>3. QED
  BY InitIInv, NextIInv, InitCounted, NextCounted, NextRanked, <1>1, <1>2, PTL DEF Spec
-----------------------------------------------------------------------------
(* Sums over finite sets *)

First(S) == CHOOSE x \in S : TRUE

Iterates(f, D, g) ==
    g = [s \in SUBSET D |-> IF s = {} THEN 0 ELSE f[First(s)] + g[s \ {First(s)}]]

(* The library defines the sum by a function iterated over the subsets. *)
LEMMA SumUnfolds ==
    ASSUME NEW f, NEW S
    PROVE  SumFunctionOnSet(f, S) = (CHOOSE g : Iterates(f, S, g))[S]
  BY DEF SumFunctionOnSet, FoldFunctionOnSet, MapThenFoldSet, Iterates, First

(* In a set of finite sets, a non-empty collection has a member none of whose *)
(* proper subsets is in it. *)
LEMMA SmallestSet ==
    ASSUME NEW S, IsFiniteSet(S), NEW C \in SUBSET SUBSET S, C # {}
    PROVE  \E s \in C : \A t \in SUBSET s : t # s => t \notin C
<1> DEFINE R == StrictSubsetOrdering(S)
<1>1. C \subseteq FiniteSubsetsOf(S)
  BY FS_Subset DEF FiniteSubsetsOf
<1>2. IsWellFoundedOn(R, FiniteSubsetsOf(S))
  BY FS_StrictSubsetOrderingWellFounded
<1>3. PICK s \in C : \A t \in C : ~ (<<t, s>> \in R)
  <2> HIDE DEF R
  <2> QED BY <1>1, <1>2, WFMin, Zenon
<1>4. QED
  BY <1>3 DEF StrictSubsetOrdering

(* Two such iterations agree where both are defined. *)
LEMMA IteratesAgree ==
    ASSUME NEW f, NEW E, IsFiniteSet(E), NEW D \in SUBSET E, NEW g, NEW h,
           Iterates(f, D, g), Iterates(f, E, h)
    PROVE  \A s \in SUBSET D : g[s] = h[s]
<1> DEFINE C == {s \in SUBSET D : g[s] # h[s]}
<1>1. SUFFICES ASSUME C # {} PROVE FALSE
  OBVIOUS
<1>2. PICK s \in C : \A t \in SUBSET s : t # s => t \notin C
  <2>1. C \in SUBSET SUBSET D /\ IsFiniteSet(D)
    BY FS_Subset
  <2> HIDE DEF C
  <2>2. QED
    BY <1>1, <2>1, SmallestSet
<1>3. s \in SUBSET D /\ s \in SUBSET E
  OBVIOUS
<1>4. CASE s = {}
  BY <1>2, <1>3, <1>4 DEF Iterates
<1>5. CASE s # {}
  <2>1. First(s) \in s
    BY <1>5 DEF First
  <2>2. g[s \ {First(s)}] = h[s \ {First(s)}]
    BY <1>2, <1>3, <2>1
  <2>3. QED
    BY <1>2, <1>3, <1>5, <2>2 DEF Iterates
<1>6. QED
  BY <1>4, <1>5

(* The iteration that the library's sum is defined by exists over every *)
(* finite set. *)
LEMMA IterationExists ==
    ASSUME NEW f, NEW S, IsFiniteSet(S)
    PROVE  \E g : Iterates(f, S, g)
<1> DEFINE C == {s \in SUBSET S : ~ \E g : Iterates(f, s, g)}
<1>1. SUFFICES ASSUME C # {} PROVE FALSE
  OBVIOUS
<1>2. PICK E \in C : \A t \in SUBSET E : t # E => t \notin C
  <2>1. C \in SUBSET SUBSET S
    OBVIOUS
  <2> HIDE DEF C
  <2>2. QED
    BY <1>1, <2>1, SmallestSet
<1>3. E \in SUBSET S /\ IsFiniteSet(E)
  BY FS_Subset
<1> DEFINE G(t) == CHOOSE g : Iterates(f, t, g)
           value(s) == IF s = {} THEN 0 ELSE f[First(s)] + G(s \ {First(s)})[s \ {First(s)}]
           h == [s \in SUBSET E |-> value(s)]
<1>4. ASSUME NEW t \in SUBSET E, t # E
      PROVE  Iterates(f, t, G(t)) /\ IsFiniteSet(t)
  <2>1. \E g : Iterates(f, t, g)
    BY <1>2, <1>3, <1>4
  <2>2. QED
    BY <1>3, <2>1, FS_Subset
<1>5. ASSUME NEW t \in SUBSET E, t # E
      PROVE  G(t)[t] = value(t)
  <2>1. Iterates(f, t, G(t))
    BY <1>4, <1>5
  <2>2. CASE t = {}
    BY <2>1, <2>2 DEF Iterates
  <2>3. CASE t # {}
    <3>1. First(t) \in t
      BY <2>3 DEF First
    <3>2. PICK u \in SUBSET t : u = t \ {First(t)}
      OBVIOUS
    <3>3. u \in SUBSET E /\ u # E
      BY <3>1, <3>2
    <3>4. Iterates(f, u, G(u)) /\ IsFiniteSet(t)
      BY <1>4, <1>5, <3>3
    <3>5. PICK gt, gu : gt = G(t) /\ gu = G(u)
      OBVIOUS
    <3>6. Iterates(f, t, gt) /\ Iterates(f, u, gu)
      BY <2>1, <3>4, <3>5
    <3>7. gu[u] = gt[u]
      <4> HIDE DEF G, value, h
      <4> QED BY <3>4, <3>6, IteratesAgree
    <3>8. gt[t] = f[First(t)] + gt[u]
      BY <2>3, <3>2, <3>6 DEF Iterates
    <3>9. QED
      BY <2>3, <3>2, <3>5, <3>7, <3>8
  <2>4. QED
    BY <2>2, <2>3
<1>6. ASSUME NEW s \in SUBSET E, s # {}
      PROVE  h[s] = f[First(s)] + h[s \ {First(s)}]
  <2>1. First(s) \in s
    BY <1>6 DEF First
  <2>2. PICK u \in SUBSET E : u = s \ {First(s)}
    OBVIOUS
  <2>3. u # E
    BY <2>1, <2>2
  <2>4. G(u)[u] = value(u)
    BY <1>5, <2>3
  <2>5. h[u] = value(u) /\ h[s] = value(s)
    OBVIOUS
  <2>6. value(s) = f[First(s)] + G(u)[u]
    BY <1>6, <2>2
  <2>7. QED
    BY <2>2, <2>4, <2>5, <2>6
<1>7. Iterates(f, E, h)
  <2>1. h[{}] = 0 /\ DOMAIN h = SUBSET E
    OBVIOUS
  <2>2. h = [s \in SUBSET E |-> h[s]]
    OBVIOUS
  <2> HIDE DEF h, value, G
  <2>3. \A s \in SUBSET E : h[s] = IF s = {} THEN 0 ELSE f[First(s)] + h[s \ {First(s)}]
    BY <1>6, <2>1
  <2>4. QED
    BY <2>2, <2>3 DEF Iterates
<1>8. QED
  BY <1>2, <1>7

(* The sum over the empty set is zero; over any other finite set it is one *)
(* element, the one CHOOSE takes first, and the sum over the others. *)
LEMMA SumByFirst ==
    ASSUME NEW f, NEW S, IsFiniteSet(S)
    PROVE  /\ S = {} => SumFunctionOnSet(f, S) = 0
           /\ S # {} => /\ First(S) \in S
                       /\ SumFunctionOnSet(f, S)
                            = f[First(S)] + SumFunctionOnSet(f, S \ {First(S)})
<1>1. PICK T \in SUBSET S : T = S \ {First(S)}
  OBVIOUS
<1>2. IsFiniteSet(T)
  BY FS_Subset
<1>3. PICK g : Iterates(f, S, g) /\ SumFunctionOnSet(f, S) = g[S]
  BY IterationExists, SumUnfolds, Zenon
<1>4. PICK h : Iterates(f, T, h) /\ SumFunctionOnSet(f, T) = h[T]
  BY <1>2, IterationExists, SumUnfolds, Zenon
<1>5. h[T] = g[T]
  BY <1>3, <1>4, IteratesAgree
<1>6. S = {} => g[S] = 0
  BY <1>3 DEF Iterates
<1>7. S # {} => g[S] = f[First(S)] + g[T]
  BY <1>1, <1>3 DEF Iterates
<1>8. S # {} => First(S) \in S
  BY DEF First
<1>9. QED
  BY <1>1, <1>3, <1>4, <1>5, <1>6, <1>7, <1>8

(* A sum of integers is an integer. *)
LEMMA SumInt ==
    ASSUME NEW f, NEW S, IsFiniteSet(S), \A x \in S : f[x] \in Int
    PROVE  SumFunctionOnSet(f, S) \in Int
<1> DEFINE C == {s \in SUBSET S : SumFunctionOnSet(f, s) \notin Int}
<1>1. SUFFICES ASSUME C # {} PROVE FALSE
  OBVIOUS
<1>2. PICK s \in C : \A t \in SUBSET s : t # s => t \notin C
  <2>1. C \in SUBSET SUBSET S
    OBVIOUS
  <2> HIDE DEF C
  <2>2. QED
    BY <1>1, <2>1, SmallestSet
<1>3. IsFiniteSet(s)
  BY FS_Subset
<1>4. s # {} /\ First(s) \in s
  <2>1. SumFunctionOnSet(f, s) \notin Int
    BY <1>2
  <2>2. /\ s = {} => SumFunctionOnSet(f, s) = 0
        /\ s # {} => First(s) \in s
    BY <1>3, SumByFirst
  <2>3. QED
    BY <2>1, <2>2
<1>5. SumFunctionOnSet(f, s) = f[First(s)] + SumFunctionOnSet(f, s \ {First(s)})
  BY <1>3, <1>4, SumByFirst
<1>6. SumFunctionOnSet(f, s \ {First(s)}) \in Int
  BY <1>2, <1>4
<1>7. f[First(s)] \in Int
  BY <1>4
<1>8. QED
  BY <1>2, <1>5, <1>6, <1>7

(* Any element may be taken out of a sum, not just the one CHOOSE takes. *)
LEMMA SumByElement ==
    ASSUME NEW f, NEW S, IsFiniteSet(S), \A x \in S : f[x] \in Int, NEW x \in S
    PROVE  SumFunctionOnSet(f, S) = f[x] + SumFunctionOnSet(f, S \ {x})
<1> DEFINE C == {s \in SUBSET S : \E y \in s :
                   SumFunctionOnSet(f, s) # f[y] + SumFunctionOnSet(f, s \ {y})}
<1>1. SUFFICES ASSUME C # {} PROVE FALSE
  OBVIOUS
<1>2. PICK s \in C : \A t \in SUBSET s : t # s => t \notin C
  <2>1. C \in SUBSET SUBSET S
    OBVIOUS
  <2> HIDE DEF C
  <2>2. QED
    BY <1>1, <2>1, SmallestSet
<1>3. PICK y \in s : SumFunctionOnSet(f, s) # f[y] + SumFunctionOnSet(f, s \ {y})
  BY <1>2
<1>4. IsFiniteSet(s) /\ s \in SUBSET S
  BY FS_Subset
<1>5. PICK c \in s : c = First(s)
  BY <1>4, SumByFirst
<1>6. SumFunctionOnSet(f, s) = f[c] + SumFunctionOnSet(f, s \ {c})
  BY <1>4, <1>5, SumByFirst
<1>7. c # y
  BY <1>3, <1>6
<1>8. SumFunctionOnSet(f, s \ {c}) = f[y] + SumFunctionOnSet(f, (s \ {c}) \ {y})
  BY <1>2, <1>4, <1>7
<1>9. SumFunctionOnSet(f, s \ {y}) = f[c] + SumFunctionOnSet(f, (s \ {y}) \ {c})
  BY <1>2, <1>4, <1>7
<1>10. (s \ {y}) \ {c} = (s \ {c}) \ {y}
  OBVIOUS
<1>11. IsFiniteSet((s \ {c}) \ {y})
  BY <1>4, FS_RemoveElement
<1>12. /\ SumFunctionOnSet(f, (s \ {c}) \ {y}) \in Int
       /\ f[c] \in Int /\ f[y] \in Int
  BY <1>4, <1>11, SumInt
<1>13. QED
  BY <1>3, <1>6, <1>8, <1>9, <1>10, <1>12

(* Two functions that agree on a set have the same sum over it. *)
LEMMA SumAgrees ==
    ASSUME NEW f, NEW g, NEW S, IsFiniteSet(S), \A x \in S : f[x] = g[x]
    PROVE  SumFunctionOnSet(f, S) = SumFunctionOnSet(g, S)
<1> DEFINE C == {s \in SUBSET S : SumFunctionOnSet(f, s) # SumFunctionOnSet(g, s)}
<1>1. SUFFICES ASSUME C # {} PROVE FALSE
  OBVIOUS
<1>2. PICK s \in C : \A t \in SUBSET s : t # s => t \notin C
  <2>1. C \in SUBSET SUBSET S
    OBVIOUS
  <2> HIDE DEF C
  <2>2. QED
    BY <1>1, <2>1, SmallestSet
<1>3. IsFiniteSet(s) /\ s \in SUBSET S
  BY FS_Subset
<1>4. SumFunctionOnSet(f, s) # SumFunctionOnSet(g, s)
  BY <1>2
<1>5. s # {}
  BY <1>3, <1>4, SumByFirst
<1>6. PICK c \in s : c = First(s)
  BY <1>3, <1>5, SumByFirst
<1>7. /\ SumFunctionOnSet(f, s) = f[c] + SumFunctionOnSet(f, s \ {c})
      /\ SumFunctionOnSet(g, s) = g[c] + SumFunctionOnSet(g, s \ {c})
  BY <1>3, <1>5, <1>6, SumByFirst
<1>8. SumFunctionOnSet(f, s \ {c}) = SumFunctionOnSet(g, s \ {c})
  BY <1>2, <1>3, <1>6
<1>9. QED
  BY <1>3, <1>4, <1>6, <1>7, <1>8

(* A sum of naturals is a natural. *)
LEMMA SumNat ==
    ASSUME NEW f, NEW S, IsFiniteSet(S), \A x \in S : f[x] \in Nat
    PROVE  SumFunctionOnSet(f, S) \in Nat
<1> DEFINE C == {s \in SUBSET S : SumFunctionOnSet(f, s) \notin Nat}
<1>1. SUFFICES ASSUME C # {} PROVE FALSE
  OBVIOUS
<1>2. PICK s \in C : \A t \in SUBSET s : t # s => t \notin C
  <2>1. C \in SUBSET SUBSET S
    OBVIOUS
  <2> HIDE DEF C
  <2>2. QED
    BY <1>1, <2>1, SmallestSet
<1>3. IsFiniteSet(s)
  BY FS_Subset
<1>4. s # {} /\ First(s) \in s
  <2>1. SumFunctionOnSet(f, s) \notin Nat
    BY <1>2
  <2>2. /\ s = {} => SumFunctionOnSet(f, s) = 0
        /\ s # {} => First(s) \in s
    BY <1>3, SumByFirst
  <2>3. QED
    BY <2>1, <2>2
<1>5. SumFunctionOnSet(f, s) = f[First(s)] + SumFunctionOnSet(f, s \ {First(s)})
  BY <1>3, <1>4, SumByFirst
<1>6. SumFunctionOnSet(f, s \ {First(s)}) \in Nat
  BY <1>2, <1>4
<1>7. f[First(s)] \in Nat
  BY <1>4
<1>8. QED
  BY <1>2, <1>5, <1>6, <1>7

-----------------------------------------------------------------------------
(* Sorting *)

(* Pairs that order a set one after the other. *)
Linear(S, R) ==
    /\ \A x \in S : <<x, x>> \notin R
    /\ \A x, y, z \in S : <<x, y>> \in R /\ <<y, z>> \in R => <<x, z>> \in R
    /\ \A x, y \in S : x # y => <<x, y>> \in R \/ <<y, x>> \in R

Below(S, R, x) == {y \in S : <<y, x>> \in R}
Lists(q, S, R) ==
    /\ DOMAIN q = 1 .. Cardinality(S)
    /\ \A i \in DOMAIN q : q[i] \in S /\ Cardinality(Below(S, R, q[i])) = i - 1

(* What comes later in the order has more elements before it. *)
LEMMA LaterHasMoreBelow ==
    ASSUME NEW S, IsFiniteSet(S), NEW R, Linear(S, R), NEW x \in S, NEW y \in S, <<x, y>> \in R
    PROVE  Cardinality(Below(S, R, x)) < Cardinality(Below(S, R, y))
<1>1. IsFiniteSet(Below(S, R, y)) /\ IsFiniteSet(Below(S, R, x))
  BY FS_Subset DEF Below
<1>2. Below(S, R, x) \in SUBSET Below(S, R, y)
  BY DEF Below, Linear
<1>3. x \in Below(S, R, y) /\ x \notin Below(S, R, x)
  BY DEF Below, Linear
<1>4. /\ Cardinality(Below(S, R, x)) \in Nat /\ Cardinality(Below(S, R, y)) \in Nat
  BY <1>1, FS_CardinalityType
<1>5. /\ Cardinality(Below(S, R, x)) <= Cardinality(Below(S, R, y))
      /\ Cardinality(Below(S, R, y)) = Cardinality(Below(S, R, x)) => Below(S, R, y) = Below(S, R, x)
  BY <1>1, <1>2, FS_Subset
<1>6. QED
  BY <1>3, <1>4, <1>5

(* Every element of an ordered finite set has its place, one each. *)
LEMMA Places ==
    ASSUME NEW S, IsFiniteSet(S), NEW R, Linear(S, R)
    PROVE  /\ Cardinality(S) \in Nat
           /\ \A x \in S : Cardinality(Below(S, R, x)) + 1 \in 1 .. Cardinality(S)
           /\ \A x, y \in S : Cardinality(Below(S, R, x)) = Cardinality(Below(S, R, y)) => x = y
           /\ \A i \in 1 .. Cardinality(S) : \E x \in S : Cardinality(Below(S, R, x)) = i - 1
<1> DEFINE rank == [x \in S |-> Cardinality(Below(S, R, x)) + 1]
<1>1. Cardinality(S) \in Nat
  BY FS_CardinalityType
<1>2. ASSUME NEW x \in S PROVE Cardinality(Below(S, R, x)) + 1 \in 1 .. Cardinality(S)
  <2>1. Below(S, R, x) \in SUBSET S /\ x \notin Below(S, R, x)
    BY DEF Below, Linear
  <2>2. IsFiniteSet(Below(S, R, x)) /\ Cardinality(Below(S, R, x)) <= Cardinality(S)
        /\ (Cardinality(S) = Cardinality(Below(S, R, x)) => S = Below(S, R, x))
    BY <2>1, FS_Subset
  <2>3. Cardinality(Below(S, R, x)) \in Nat
    BY <2>2, FS_CardinalityType
  <2>4. QED
    BY <1>1, <2>1, <2>2, <2>3
<1>3. ASSUME NEW x \in S, NEW y \in S, Cardinality(Below(S, R, x)) = Cardinality(Below(S, R, y))
      PROVE  x = y
  <2>1. SUFFICES ASSUME x # y PROVE FALSE
    OBVIOUS
  <2>2. Cardinality(Below(S, R, x)) \in Nat
    <3>1. IsFiniteSet(Below(S, R, x))
      BY FS_Subset DEF Below
    <3>2. QED
      BY <3>1, FS_CardinalityType
  <2>3. CASE <<x, y>> \in R
    BY <1>3, <2>2, <2>3, LaterHasMoreBelow
  <2>4. CASE <<y, x>> \in R
    BY <1>3, <2>2, <2>4, LaterHasMoreBelow
  <2>5. QED
    BY <2>1, <2>3, <2>4 DEF Linear
<1>4. rank \in Injection(S, 1 .. Cardinality(S))
  <2>1. rank \in [S -> 1 .. Cardinality(S)]
    BY <1>2
  <2>2. ASSUME NEW x \in S, NEW y \in S, rank[x] = rank[y] PROVE x = y
    <3>1. Cardinality(Below(S, R, x)) \in Nat /\ Cardinality(Below(S, R, y)) \in Nat
      BY FS_Subset, FS_CardinalityType DEF Below
    <3>2. Cardinality(Below(S, R, x)) = Cardinality(Below(S, R, y))
      BY <2>2, <3>1
    <3>3. QED
      BY <1>3, <3>2
  <2> HIDE DEF rank
  <2>3. QED
    BY <2>1, <2>2 DEF Injection, IsInjective
<1>5. rank \in Surjection(S, 1 .. Cardinality(S))
  <2>1. IsFiniteSet(1 .. Cardinality(S)) /\ Cardinality(1 .. Cardinality(S)) = Cardinality(S)
    BY <1>1, FS_Interval
  <2> HIDE DEF rank
  <2>2. QED
    BY <1>4, <2>1, FS_Injection
<1>6. ASSUME NEW i \in 1 .. Cardinality(S) PROVE \E x \in S : Cardinality(Below(S, R, x)) = i - 1
  <2>1. PICK x \in S : rank[x] = i
    <3> HIDE DEF rank
    <3> QED BY <1>5 DEF Surjection
  <2>2. Cardinality(Below(S, R, x)) \in Nat
    BY FS_Subset, FS_CardinalityType DEF Below
  <2>3. QED
    BY <1>1, <2>1, <2>2
<1>7. QED
  BY <1>1, <1>2, <1>3, <1>6

(* A sorted set lists all of its elements, each once. *)
LEMMA ListsAll ==
    ASSUME NEW S, IsFiniteSet(S), NEW R, Linear(S, R), NEW q, Lists(q, S, R)
    PROVE  /\ Cardinality(S) \in Nat
           /\ \A x \in S : \E i \in 1 .. Cardinality(S) : q[i] = x
           /\ \A i, j \in 1 .. Cardinality(S) : q[i] = q[j] => i = j
<1>1. PICK n : n = Cardinality(S)
  OBVIOUS
<1>2. n \in Nat
  BY <1>1, Places
<1>3. \A i \in 1 .. n : q[i] \in S /\ Cardinality(Below(S, R, q[i])) = i - 1
  BY <1>1 DEF Lists
<1>4. ASSUME NEW x \in S PROVE \E i \in 1 .. n : q[i] = x
  <2>1. PICK i \in 1 .. n : i = Cardinality(Below(S, R, x)) + 1
    BY <1>1, Places
  <2>2. Cardinality(Below(S, R, x)) \in Nat
    BY FS_Subset, FS_CardinalityType DEF Below
  <2>3. Cardinality(Below(S, R, q[i])) = Cardinality(Below(S, R, x))
    BY <1>3, <2>1, <2>2
  <2>4. QED
    BY <1>3, <2>3, Places
<1>5. ASSUME NEW i \in 1 .. n, NEW j \in 1 .. n, q[i] = q[j] PROVE i = j
  BY <1>2, <1>3, <1>5
<1>6. QED
  BY <1>1, <1>2, <1>4, <1>5

(* The stocks in their order. *)
LEMMA AscendingLists ==
    ASSUME NEW S \in SUBSET Symbols
    PROVE  /\ Cardinality(S) \in Nat /\ DOMAIN Ascending(S) = 1 .. Cardinality(S)
           /\ \A i \in DOMAIN Ascending(S) : Ascending(S)[i] \in S
<1>0. PICK R : R = {p \in S \X S : p[1] < p[2]}
  OBVIOUS
<1>1. IsFiniteSet(S)
  BY EquitiesPipelineAssumption, FS_Subset
<1>2. Linear(S, R)
  <2>1. S \subseteq Nat
    BY EquitiesPipelineAssumption
  <2>2. QED
    BY <1>0, <2>1 DEF Linear
<1>3. \A x \in S : Below(S, R, x) = {y \in S : y < x}
  BY <1>0 DEF Below
<1>4. PICK n : n = Cardinality(S)
  OBVIOUS
<1>5. ASSUME NEW i \in 1 .. n PROVE Ascending(S)[i] \in S
  <2>1. PICK x \in S : Cardinality(Below(S, R, x)) = i - 1
    BY <1>1, <1>2, <1>4, Places
  <2>2. Cardinality({y \in S : y < x}) = i - 1
    BY <1>3, <2>1
  <2>3. Ascending(S)[i] = CHOOSE z \in S : Cardinality({y \in S : y < z}) = i - 1
    BY <1>4 DEF Ascending, Sorted
  <2>4. QED
    BY <2>2, <2>3
<1>6. DOMAIN Ascending(S) = 1 .. n
  BY <1>4 DEF Ascending, Sorted
<1>7. n \in Nat
  BY <1>1, <1>4, FS_CardinalityType
<1>8. QED
  BY <1>4, <1>5, <1>6, <1>7

(* Orders of which no two are for the same stock. *)
OneEach(O) ==
    /\ \A o \in O : o.sym \in Symbols /\ o.side \in {"buy", "sell"}
    /\ \A o, p \in O : o.sym = p.sym => o = p

Precede(O) == {p \in O \X O : Before(p[1], p[2])}

(* There are finitely many of them, and they are ordered, sells first. *)
LEMMA OrdersLinear ==
    ASSUME NEW O, OneEach(O)
    PROVE  IsFiniteSet(O) /\ Linear(O, Precede(O))
<1>1. IsFiniteSet(O)
  <2>1. PICK f : f = [o \in O |-> o.sym]
    OBVIOUS
  <2>2. f \in Injection(O, Symbols)
    BY <2>1 DEF Injection, IsInjective, OneEach
  <2>3. QED
    BY <2>2, FS_Injection, EquitiesPipelineAssumption
<1>2. Linear(O, Precede(O))
  <2>1. \A x, y \in O : <<x, y>> \in Precede(O) <=> Before(x, y)
    BY DEF Precede
  <2>2. \A x \in O : x.sym \in Nat
    BY EquitiesPipelineAssumption DEF OneEach
  <2>3. \A x \in O : ~ Before(x, x)
    BY <2>2 DEF Before
  <2>4. \A x, y, z \in O : Before(x, y) /\ Before(y, z) => Before(x, z)
    BY <2>2 DEF Before, OneEach
  <2>5. \A x, y \in O : x # y => Before(x, y) \/ Before(y, x)
    BY <2>2 DEF Before, OneEach
  <2>6. QED
    BY <2>1, <2>3, <2>4, <2>5 DEF Linear
<1>3. QED
  BY <1>1, <1>2

(* The orders of a plan in their order: all of them, each once. *)
LEMMA OrdersListed ==
    ASSUME NEW O, OneEach(O)
    PROVE  /\ Cardinality(O) \in Nat
           /\ Sorted(O, Before) \in [1 .. Cardinality(O) -> O]
           /\ \A x \in O : \E i \in 1 .. Cardinality(O) : Sorted(O, Before)[i] = x
           /\ \A i, j \in 1 .. Cardinality(O) :
                Sorted(O, Before)[i] = Sorted(O, Before)[j] => i = j
<1>1. IsFiniteSet(O) /\ Linear(O, Precede(O))
  BY OrdersLinear
<1>2. \A x \in O : Below(O, Precede(O), x) = {y \in O : Before(y, x)}
  BY DEF Below, Precede
<1>3. PICK n : n = Cardinality(O)
  OBVIOUS
<1>4. PICK q : q = Sorted(O, Before)
  OBVIOUS
<1>5. ASSUME NEW i \in 1 .. n
      PROVE  q[i] \in O /\ Cardinality(Below(O, Precede(O), q[i])) = i - 1
  <2>1. PICK x \in O : Cardinality(Below(O, Precede(O), x)) = i - 1
    BY <1>1, <1>3, Places
  <2>2. Cardinality({y \in O : Before(y, x)}) = i - 1
    BY <1>2, <2>1
  <2>3. q[i] = CHOOSE z \in O : Cardinality({y \in O : Before(y, z)}) = i - 1
    BY <1>3, <1>4 DEF Sorted
  <2>4. q[i] \in O /\ Cardinality({y \in O : Before(y, q[i])}) = i - 1
    BY <2>2, <2>3
  <2>5. QED
    BY <1>2, <2>4
<1>6. q \in [1 .. n -> O]
  BY <1>3, <1>4, <1>5, Zenon DEF Sorted
<1>7. Lists(q, O, Precede(O))
  BY <1>3, <1>5, <1>6 DEF Lists
<1>8. /\ \A x \in O : \E i \in 1 .. n : q[i] = x
      /\ \A i, j \in 1 .. n : q[i] = q[j] => i = j
  BY <1>1, <1>3, <1>7, ListsAll
<1>9. n \in Nat
  BY <1>1, <1>3, Places
<1>10. QED
  BY <1>3, <1>4, <1>5, <1>6, <1>8, <1>9
-----------------------------------------------------------------------------
(* Scores and weights *)

Weights(D) == [D -> Nat]

(* A round of the cap leaves natural weights. *)
LEMMA ShareExcessTyped ==
    ASSUME NEW D, IsFiniteSet(D), NEW w \in Weights(D), NEW cap \in Nat
    PROVE  ShareExcess(w, cap) \in Weights(D)
<1>1. PICK over \in SUBSET D : over = {s \in DOMAIN w : w[s] > cap}
  BY DEF Weights
<1>2. PICK more : more = [s \in over |-> w[s] - cap]
  OBVIOUS
<1>3. PICK excess : excess = SumFunction(more)
  OBVIOUS
<1>4. PICK room : room = SumFunctionOnSet(w, DOMAIN w \ over)
  OBVIOUS
<1>5. excess \in Nat
  <2>1. IsFiniteSet(over)
    BY FS_Subset
  <2>2. \A s \in over : more[s] \in Nat
    BY <1>1, <1>2 DEF Weights
  <2>3. DOMAIN more = over
    BY <1>2
  <2>4. SumFunctionOnSet(more, over) \in Nat
    BY <2>1, <2>2, SumNat
  <2>5. QED
    BY <1>3, <2>3, <2>4 DEF SumFunction
<1>6. room \in Nat
  <2>1. IsFiniteSet(D \ over)
    BY FS_Subset
  <2>2. \A s \in D \ over : w[s] \in Nat
    BY DEF Weights
  <2>3. SumFunctionOnSet(w, D \ over) \in Nat
    BY <2>1, <2>2, SumNat
  <2>4. QED
    BY <1>4, <2>3 DEF Weights
<1>7. ShareExcess(w, cap) =
        [s \in D |-> IF s \in over THEN cap
                     ELSE IF w[s] < cap /\ room > 0 THEN w[s] + (excess * w[s]) \div room
                     ELSE w[s]]
  BY <1>1, <1>2, <1>3, <1>4 DEF ShareExcess, Weights
<1>8. ASSUME NEW s \in D, room > 0 PROVE w[s] + (excess * w[s]) \div room \in Nat
  <2>1. PICK x \in Nat : x = excess * w[s]
    BY <1>5 DEF Weights
  <2>2. x \div room \in Nat
    BY <1>6, <1>8
  <2>3. w[s] \in Nat
    BY DEF Weights
  <2>4. QED
    BY <2>1, <2>2, <2>3
<1>9. \A s \in D : w[s] \in Nat
  BY DEF Weights
<1>10. QED
  BY <1>7, <1>8, <1>9 DEF Weights

Round(w, last, cap) == IF \E s \in DOMAIN w : last[s] > cap THEN ShareExcess(last, cap) ELSE last
Rounds(w, cap, r) == r = [n \in 0 .. 10 |-> IF n = 0 THEN w ELSE Round(w, r[n - 1], cap)]

(* The ten rounds of the cap exist, and leave natural weights. *)
LEMMA CappedTyped ==
    ASSUME NEW D, IsFiniteSet(D), NEW w \in Weights(D), NEW cap \in Nat
    PROVE  Capped(w, cap) \in Weights(D)
<1>1. ASSUME NEW last \in Weights(D) PROVE Round(w, last, cap) \in Weights(D)
  BY ShareExcessTyped DEF Round
<1>2. \E r : Rounds(w, cap, r)
  <2>1. PICK r1, r2, r3, r4, r5 :
          /\ r1 = Round(w, w, cap) /\ r2 = Round(w, r1, cap) /\ r3 = Round(w, r2, cap)
          /\ r4 = Round(w, r3, cap) /\ r5 = Round(w, r4, cap)
    OBVIOUS
  <2>2. PICK r6, r7, r8, r9, r10 :
          /\ r6 = Round(w, r5, cap) /\ r7 = Round(w, r6, cap) /\ r8 = Round(w, r7, cap)
          /\ r9 = Round(w, r8, cap) /\ r10 = Round(w, r9, cap)
    OBVIOUS
  <2>3. PICK r : r = [n \in 0 .. 10 |->
          IF n = 0 THEN w ELSE IF n = 1 THEN r1 ELSE IF n = 2 THEN r2 ELSE IF n = 3 THEN r3
          ELSE IF n = 4 THEN r4 ELSE IF n = 5 THEN r5 ELSE IF n = 6 THEN r6
          ELSE IF n = 7 THEN r7 ELSE IF n = 8 THEN r8 ELSE IF n = 9 THEN r9 ELSE r10]
    OBVIOUS
  <2>4. /\ r[0] = w /\ r[1] = r1 /\ r[2] = r2 /\ r[3] = r3 /\ r[4] = r4 /\ r[5] = r5
        /\ r[6] = r6 /\ r[7] = r7 /\ r[8] = r8 /\ r[9] = r9 /\ r[10] = r10
    BY <2>3
  <2>5. \A n \in 0 .. 10 : r[n] = IF n = 0 THEN w ELSE Round(w, r[n - 1], cap)
    <3>1. SUFFICES ASSUME NEW n \in 0 .. 10, n # 0 PROVE r[n] = Round(w, r[n - 1], cap)
      BY <2>4
    <3>2. n \in {1, 2, 3, 4, 5, 6, 7, 8, 9, 10}
      BY <3>1
    <3>3. /\ r[1] = Round(w, r[1 - 1], cap) /\ r[2] = Round(w, r[2 - 1], cap)
          /\ r[3] = Round(w, r[3 - 1], cap) /\ r[4] = Round(w, r[4 - 1], cap)
          /\ r[5] = Round(w, r[5 - 1], cap) /\ r[6] = Round(w, r[6 - 1], cap)
          /\ r[7] = Round(w, r[7 - 1], cap) /\ r[8] = Round(w, r[8 - 1], cap)
          /\ r[9] = Round(w, r[9 - 1], cap) /\ r[10] = Round(w, r[10 - 1], cap)
      BY <2>1, <2>2, <2>4
    <3>4. QED
      BY <3>2, <3>3
  <2>6. r = [n \in 0 .. 10 |-> r[n]]
    BY <2>3
  <2>7. Rounds(w, cap, r)
    BY <2>5, <2>6 DEF Rounds
  <2>8. QED
    BY <2>7
<1>3. PICK r : Rounds(w, cap, r) /\ Capped(w, cap) = r[10]
  <2>1. Capped(w, cap) = (CHOOSE r : Rounds(w, cap, r))[10]
    BY DEF Capped, Rounds, Round
  <2>2. QED
    BY <1>2, <2>1, Zenon
<1>4. r[0] = w /\ \A n \in 1 .. 10 : r[n] = Round(w, r[n - 1], cap)
  BY <1>3 DEF Rounds
<1>5. /\ r[1] = Round(w, r[0], cap) /\ r[2] = Round(w, r[1], cap)
      /\ r[3] = Round(w, r[2], cap) /\ r[4] = Round(w, r[3], cap)
      /\ r[5] = Round(w, r[4], cap) /\ r[6] = Round(w, r[5], cap)
      /\ r[7] = Round(w, r[6], cap) /\ r[8] = Round(w, r[7], cap)
      /\ r[9] = Round(w, r[8], cap) /\ r[10] = Round(w, r[9], cap)
  BY <1>4
<1>6. r[10] \in Weights(D)
  <2>1. r[1] \in Weights(D) /\ r[2] \in Weights(D) /\ r[3] \in Weights(D)
    BY <1>1, <1>4, <1>5
  <2>2. r[4] \in Weights(D) /\ r[5] \in Weights(D) /\ r[6] \in Weights(D)
    BY <1>1, <1>5, <2>1
  <2>3. r[7] \in Weights(D) /\ r[8] \in Weights(D) /\ r[9] \in Weights(D)
    BY <1>1, <1>5, <2>2
  <2>4. QED
    BY <1>1, <1>5, <2>3
<1>7. QED
  BY <1>3, <1>6

(* Target weights are natural numbers of basis points. *)
LEMMA SizesTyped ==
    ASSUME NEW chosen, IsFiniteSet(chosen), NEW scores,
           \A s \in chosen : scores[s].conviction \in Nat
    PROVE  SizePositions(scores, chosen) \in Weights(chosen)
<1>1. PICK f : f = [s \in chosen |-> scores[s].conviction]
  OBVIOUS
<1>2. PICK total : total = SumFunction(f)
  OBVIOUS
<1>3. total \in Nat
  <2>1. \A s \in chosen : f[s] \in Nat
    BY <1>1
  <2>2. SumFunctionOnSet(f, chosen) \in Nat
    BY <2>1, SumNat
  <2>3. QED
    BY <1>1, <1>2, <2>2 DEF SumFunction
<1>4. PICK raw : raw = [s \in chosen |-> IF total = 0
                          THEN Min({Unit \div Cardinality(chosen), PositionCap})
                          ELSE (scores[s].conviction * Unit) \div total]
  OBVIOUS
<1>5. raw \in Weights(chosen)
  <2>1. SUFFICES ASSUME NEW s \in chosen PROVE raw[s] \in Nat
    BY <1>4 DEF Weights
  <2>2. CASE total = 0
    <3>1. PICK n : n = Cardinality(chosen)
      OBVIOUS
    <3>2. n \in Nat \ {0}
      BY <3>1, FS_CardinalityType, FS_EmptySet
    <3>3. PICK k : k = Unit \div n
      OBVIOUS
    <3>4. k \in Nat
      BY <3>2, <3>3 DEF Unit
    <3>5. Min({k, PositionCap}) \in Nat
      <4>1. PositionCap \in Nat
        BY PortfolioDecisionAssumption DEF Unit
      <4>2. \E x \in {k, PositionCap} : \A y \in {k, PositionCap} : x <= y
        BY <3>4, <4>1
      <4>3. QED
        BY <3>4, <4>1, <4>2 DEF Min
    <3>6. QED
      BY <1>4, <2>2, <3>1, <3>3, <3>5
  <2>3. CASE total # 0
    <3>1. PICK x \in Nat : x = scores[s].conviction * Unit
      BY DEF Unit
    <3>2. x \div total \in Nat
      BY <1>3, <2>3
    <3>3. QED
      BY <1>4, <2>3, <3>1, <3>2
  <2>4. QED
    BY <2>2, <2>3
<1>6. PICK w : w = IF total = 0 THEN raw ELSE Capped(raw, PositionCap)
  OBVIOUS
<1>7. w \in Weights(chosen)
  <2>1. PositionCap \in Nat
    BY PortfolioDecisionAssumption DEF Unit
  <2>2. Capped(raw, PositionCap) \in Weights(chosen)
    BY <1>5, <2>1, CappedTyped
  <2>3. QED
    BY <1>5, <1>6, <2>2
<1>8. SizePositions(scores, chosen) = [s \in chosen |-> (w[s] * (Unit - CashBuffer)) \div Unit]
  BY <1>1, <1>2, <1>4, <1>6 DEF SizePositions
<1>9. ASSUME NEW s \in chosen PROVE (w[s] * (Unit - CashBuffer)) \div Unit \in Nat
  <2>1. PICK rest \in Nat : rest = Unit - CashBuffer
    BY PortfolioDecisionAssumption DEF Unit
  <2>2. w[s] \in Nat
    BY <1>7 DEF Weights
  <2>3. PICK x \in Nat : x = w[s] * rest
    BY <2>2
  <2>4. x \div Unit \in Nat
    BY DEF Unit
  <2>5. QED
    BY <2>1, <2>3, <2>4
<1>10. QED
  BY <1>8, <1>9 DEF Weights

(* The signals of the analysts, by stock. *)
SignalOf(D) == [sym : D, analyst : Analysts, score : Nat, conf : Nat]

(* A finite set of integers that is not empty has a largest element. *)
LEMMA MaxTaken ==
    ASSUME NEW S \in SUBSET Int, IsFiniteSet(S), S # {}
    PROVE  Max(S) \in S /\ \A y \in S : Max(S) >= y
<1> DEFINE C == {s \in SUBSET S : s # {} /\ ~ \E x \in s : \A y \in s : x >= y}
<1>1. SUFFICES ASSUME C # {} PROVE FALSE
  <2>1. SUFFICES ASSUME C = {} PROVE \E x \in S : \A y \in S : x >= y
    BY DEF Max
  <2>2. QED
    BY <2>1
<1>2. PICK s \in C : \A t \in SUBSET s : t # s => t \notin C
  <2>1. C \in SUBSET SUBSET S
    OBVIOUS
  <2> HIDE DEF C
  <2>2. QED
    BY <1>1, <2>1, SmallestSet
<1>3. PICK x \in s : TRUE
  OBVIOUS
<1>4. s \ {x} = {} \/ \E z \in s \ {x} : \A y \in s \ {x} : z >= y
  BY <1>2, <1>3
<1>5. QED
  BY <1>2, <1>3, <1>4

(* The last signal of an analyst for a stock is one of its signals. *)
LEMMA LastSignalTyped ==
    ASSUME NEW D, NEW signals \in Seq(SignalOf(D)), NEW s, NEW a
    PROVE  LastSignal(signals, s, a).score \in Nat /\ LastSignal(signals, s, a).conf \in Nat
<1>1. PICK n \in Nat : DOMAIN signals = 1 .. n
  BY DEF SignalOf
<1>2. PICK mine : mine = {i \in DOMAIN signals : signals[i].sym = s /\ signals[i].analyst = a}
  OBVIOUS
<1>3. CASE mine = {}
  BY <1>2, <1>3 DEF LastSignal
<1>4. CASE mine # {}
  <2>1. mine \in SUBSET Nat /\ mine \subseteq 1 .. n
    BY <1>1, <1>2
  <2>2. IsFiniteSet(mine)
    <3>1. IsFiniteSet(1 .. n)
      BY FS_Interval
    <3>2. QED
      BY <2>1, <3>1, FS_Subset
  <2>3. Max(mine) \in mine
    BY <1>4, <2>1, <2>2, MaxTaken
  <2>4. signals[Max(mine)] \in SignalOf(D)
    BY <1>2, <2>3
  <2>5. LastSignal(signals, s, a) = signals[Max(mine)]
    BY <1>2, <1>4 DEF LastSignal
  <2>6. QED
    BY <2>4, <2>5 DEF SignalOf
<1>5. QED
  BY <1>3, <1>4

(* Composite scores are for the stocks there are signals for. *)
LEMMA CompositesTyped ==
    ASSUME NEW D, NEW signals \in Seq(SignalOf(D))
    PROVE  /\ DOMAIN Composites(signals, StaticWeight) \subseteq D
           /\ \A s \in DOMAIN Composites(signals, StaticWeight) :
                Composites(signals, StaticWeight)[s].conviction \in Nat
<1>1. ASSUME NEW s PROVE Composite(signals, s, StaticWeight).conviction \in Nat
  <2>1. PICK f : f = [a \in Analysts |-> StaticWeight[a] * LastSignal(signals, s, a).score]
    OBVIOUS
  <2>2. PICK g : g = [a \in Analysts |-> StaticWeight[a] * LastSignal(signals, s, a).conf]
    OBVIOUS
  <2>3. \A a \in Analysts : StaticWeight[a] \in {2, 6}
    BY DEF StaticWeight, Analysts
  <2>4. \A a \in Analysts : f[a] \in Nat /\ g[a] \in Nat
    BY <2>1, <2>2, <2>3, LastSignalTyped
  <2>5. IsFiniteSet(Analysts)
    <3>1. IsFiniteSet({"fundamentals"})
      BY FS_Singleton
    <3>2. IsFiniteSet({"fundamentals"} \cup {"news"})
      BY <3>1, FS_AddElement
    <3>3. IsFiniteSet(({"fundamentals"} \cup {"news"}) \cup {"technical"})
      BY <3>2, FS_AddElement
    <3>4. Analysts = ({"fundamentals"} \cup {"news"}) \cup {"technical"}
      BY DEF Analysts
    <3>5. QED
      BY <3>3, <3>4
  <2>6. SumFunctionOnSet(f, Analysts) \in Nat /\ SumFunctionOnSet(g, Analysts) \in Nat
    BY <2>4, <2>5, SumNat
  <2>7. SumFunction(f) = SumFunctionOnSet(f, Analysts)
        /\ SumFunction(g) = SumFunctionOnSet(g, Analysts)
    BY <2>1, <2>2 DEF SumFunction
  <2>8. Composite(signals, s, StaticWeight).conviction = SumFunction(f) * SumFunction(g)
    BY <2>1, <2>2 DEF Composite
  <2>9. PICK x \in Nat, y \in Nat : x = SumFunction(f) /\ y = SumFunction(g)
    BY <2>6, <2>7
  <2>10. QED
    BY <2>8, <2>9
<1>2. \A i \in DOMAIN signals : signals[i].sym \in D
  <2>1. \A i \in DOMAIN signals : signals[i] \in SignalOf(D)
    OBVIOUS
  <2>2. QED
    BY <2>1 DEF SignalOf
<1>3. QED
  BY <1>1, <1>2 DEF Composites
-----------------------------------------------------------------------------
(* Orders *)

PlanSound(p, s, target, weights, held) ==
    /\ \A o \in p.orders : /\ o.sym = s /\ o.side \in {"buy", "sell"} /\ o.qty \in Nat
                           /\ p.orders = {o}
    /\ At(target, s) = 0 /\ At(weights, s) > 0 /\ At(held, s) > 0 =>
         \/ Skip(s, "unpriced", TRUE) \in p.skips
         \/ Order(s, "sell", held[s]) \in p.orders

(* What the diff of one stock comes to: at most one order, for that stock  *)
(* and of a whole number of units; and for one that is held and no longer  *)
(* wanted, its sale in full or a skip that says it was an exit.            *)
LEMMA PlanForSound ==
    ASSUME NEW s, NEW target, NEW weights, NEW held, NEW nav, NEW prices, nav \in Nat,
           prices[s] \in Nat, At(target, s) \in Nat, At(weights, s) \in Nat, held[s] \in Nat
    PROVE  PlanSound(PlanFor(s, target, weights, held, nav, prices), s, target, weights, held)
<1>1. PICK want \in Nat, have \in Nat : want = At(target, s) /\ have = At(weights, s)
  OBVIOUS
<1>2. PICK delta \in Int : delta = want - have
  OBVIOUS
<1>3. PICK size \in Nat : size = Magnitude(delta)
  BY DEF Magnitude
<1>4. PICK price \in Nat : price = prices[s]
  OBVIOUS
<1>5. PICK qty : qty = (size * nav) \div (Unit * price)
  OBVIOUS
<1>6. price # 0 => qty \in Nat
  <2>1. SUFFICES ASSUME price # 0 PROVE qty \in Nat
    OBVIOUS
  <2>2. PICK x \in Nat : x = size * nav
    OBVIOUS
  <2>3. PICK y \in Nat : y = Unit * price /\ y > 0
    BY <2>1 DEF Unit
  <2>4. x \div y \in Nat
    BY <2>3
  <2>5. QED
    BY <1>5, <2>2, <2>3, <2>4
<1>7. PICK p : p = PlanFor(s, target, weights, held, nav, prices)
  OBVIOUS
<1>8. p = IF want = 0 /\ have > 0 /\ At(held, s) > 0
          THEN IF price = 0 THEN Plan({}, {Skip(s, "unpriced", TRUE)})
               ELSE Plan({Order(s, "sell", held[s])}, {})
          ELSE IF size < (IF have = 0 THEN MinEntry ELSE MinTrade)
          THEN Plan({}, IF have = 0 /\ want > 0
                        THEN {Skip(s, "below_entry_threshold", FALSE)} ELSE {})
          ELSE IF price = 0
          THEN Plan({}, {Skip(s, "unpriced", want = 0 /\ have > 0)})
          ELSE IF qty = 0 THEN Plan({}, {})
          ELSE Plan({Order(s, IF delta > 0 THEN "buy" ELSE "sell", qty)}, {})
  BY <1>1, <1>2, <1>3, <1>4, <1>5, <1>7 DEF PlanFor
<1>9. /\ \/ p.orders = {}
         \/ p.orders = {Order(s, "sell", held[s])}
         \/ /\ p.orders = {Order(s, IF delta > 0 THEN "buy" ELSE "sell", qty)}
            /\ price # 0
      /\ want = 0 /\ have > 0 /\ At(held, s) > 0 =>
           \/ Skip(s, "unpriced", TRUE) \in p.skips
           \/ Order(s, "sell", held[s]) \in p.orders
  BY <1>8 DEF Plan
<1>10. \A o \in p.orders : /\ o.sym = s /\ o.side \in {"buy", "sell"} /\ o.qty \in Nat
                           /\ p.orders = {o}
  BY <1>6, <1>9 DEF Order
<1>11. QED
  BY <1>1, <1>7, <1>9, <1>10 DEF PlanSound

(* A plan whose orders are a sequence, one for each stock at most. *)
OrdersSound(orders) ==
    /\ \E n \in Nat : DOMAIN orders = 1 .. n /\ Len(orders) = n
    /\ \A i \in DOMAIN orders : /\ orders[i].sym \in Symbols
                                /\ orders[i].side \in {"buy", "sell"}
                                /\ orders[i].qty \in Nat
    /\ \A i, j \in DOMAIN orders : orders[i].sym = orders[j].sym => i = j

Exits(orders, skips, held, s) ==
    \/ Skip(s, "unpriced", TRUE) \in skips
    \/ \E i \in DOMAIN orders : orders[i] = Order(s, "sell", held[s])

(* What generate_orders_with_skips reads. *)
Readable(target, weights, held, nav, prices) ==
    /\ DOMAIN target \subseteq Symbols /\ \A s \in DOMAIN target : target[s] \in Nat
    /\ DOMAIN weights \subseteq Symbols /\ \A s \in DOMAIN weights : weights[s] \in Nat
    /\ DOMAIN held = Symbols /\ \A s \in Symbols : held[s] \in Nat
    /\ nav \in Nat
    /\ \A s \in Symbols : prices[s] \in Nat

(* The plan of a rebalance has one order for each stock at most, and an    *)
(* answer for everything held that is no longer wanted.                    *)
LEMMA GeneratedSound ==
    ASSUME NEW target, NEW weights, NEW held, NEW nav, NEW prices, NEW r,
           Readable(target, weights, held, nav, prices),
           r = GenerateOrders(target, weights, held, nav, prices)
    PROVE  /\ OrdersSound(r.orders)
           /\ \A i \in DOMAIN r.orders : r.orders[i].sym \in DOMAIN target \cup DOMAIN weights
           /\ \A s \in DOMAIN weights \ DOMAIN target :
                weights[s] > 0 /\ held[s] > 0 => Exits(r.orders, r.skips, held, s)
<1> DEFINE P(s) == PlanFor(s, target, weights, held, nav, prices)
<1>1. PICK names : names = DOMAIN target \cup DOMAIN weights
  OBVIOUS
<1>2. names \subseteq Symbols
  BY <1>1 DEF Readable
<1>3. ASSUME NEW s \in names
      PROVE  /\ \A o \in P(s).orders : /\ o.sym = s /\ o.side \in {"buy", "sell"} /\ o.qty \in Nat
                                       /\ P(s).orders = {o}
             /\ At(target, s) = 0 /\ At(weights, s) > 0 /\ At(held, s) > 0 =>
                  \/ Skip(s, "unpriced", TRUE) \in P(s).skips
                  \/ Order(s, "sell", held[s]) \in P(s).orders
  <2>1. /\ nav \in Nat /\ prices[s] \in Nat /\ held[s] \in Nat
        /\ At(target, s) \in Nat /\ At(weights, s) \in Nat
    BY <1>2 DEF Readable, At
  <2> HIDE DEF P
  <2>2. PlanSound(P(s), s, target, weights, held)
    BY <2>1, PlanForSound DEF P
  <2>3. QED
    BY <2>2 DEF PlanSound
<1>4. PICK O : O = UNION {p.orders : p \in {P(s) : s \in names}}
  OBVIOUS
<1>5. PICK K : K = UNION {p.skips : p \in {P(s) : s \in names}}
  OBVIOUS
<1>6. r.orders = Sorted(O, Before) /\ r.skips = K
  BY <1>1, <1>4, <1>5 DEF GenerateOrders, Plan
<1> HIDE DEF P
<1>7. \A o : o \in O <=> \E s \in names : o \in P(s).orders
  BY <1>4
<1>8. \A k : k \in K <=> \E s \in names : k \in P(s).skips
  BY <1>5
<1>9. \A o \in O : /\ o.sym \in names /\ o \in P(o.sym).orders
                   /\ o.side \in {"buy", "sell"} /\ o.qty \in Nat
  <2>1. SUFFICES ASSUME NEW o \in O
                 PROVE  /\ o.sym \in names /\ o \in P(o.sym).orders
                        /\ o.side \in {"buy", "sell"} /\ o.qty \in Nat
    OBVIOUS
  <2>2. PICK s \in names : o \in P(s).orders
    BY <1>7
  <2>3. o.sym = s /\ o.side \in {"buy", "sell"} /\ o.qty \in Nat
    BY <1>3, <2>2
  <2>4. QED
    BY <2>2, <2>3
<1>10. OneEach(O)
  <2>1. \A o \in O : o.sym \in Symbols /\ o.side \in {"buy", "sell"}
    BY <1>2, <1>9
  <2>2. ASSUME NEW o \in O, NEW q \in O, o.sym = q.sym PROVE o = q
    <3>1. P(o.sym).orders = {o} /\ P(q.sym).orders = {q}
      BY <1>3, <1>9
    <3>2. QED
      BY <2>2, <3>1
  <2>3. QED
    BY <2>1, <2>2 DEF OneEach
<1>11. PICK n, q : n = Cardinality(O) /\ q = Sorted(O, Before)
  OBVIOUS
<1>12. /\ n \in Nat /\ q \in [1 .. n -> O]
       /\ \A x \in O : \E i \in 1 .. n : q[i] = x
       /\ \A i, j \in 1 .. n : q[i] = q[j] => i = j
  BY <1>10, <1>11, OrdersListed
<1>13. Len(q) = n
  BY <1>12
<1>14. OrdersSound(q)
  <2>1. \A i \in 1 .. n : /\ q[i].sym \in Symbols /\ q[i].side \in {"buy", "sell"}
                          /\ q[i].qty \in Nat
    BY <1>2, <1>9, <1>12
  <2>2. \A i, j \in 1 .. n : q[i].sym = q[j].sym => i = j
    BY <1>10, <1>12 DEF OneEach
  <2>3. QED
    BY <1>12, <1>13, <2>1, <2>2 DEF OrdersSound
<1>15. \A i \in DOMAIN q : q[i].sym \in names
  BY <1>9, <1>12
<1>16. ASSUME NEW s \in DOMAIN weights \ DOMAIN target, weights[s] > 0, held[s] > 0
       PROVE  Exits(q, K, held, s)
  <2>1. s \in names /\ s \in Symbols
    BY <1>1, <1>2
  <2>2. At(target, s) = 0 /\ At(weights, s) > 0 /\ At(held, s) > 0
    BY <1>16, <2>1 DEF At, Readable
  <2>3. CASE Skip(s, "unpriced", TRUE) \in P(s).skips
    BY <1>8, <2>1, <2>3 DEF Exits
  <2>4. CASE Order(s, "sell", held[s]) \in P(s).orders
    <3>1. Order(s, "sell", held[s]) \in O
      BY <1>7, <2>1, <2>4
    <3>2. QED
      BY <1>12, <3>1 DEF Exits
  <2>5. QED
    BY <1>3, <2>1, <2>2, <2>3, <2>4
<1>17. QED
  BY <1>1, <1>6, <1>11, <1>14, <1>15, <1>16
-----------------------------------------------------------------------------
(* The decision *)

(* A sum of numbers up to a bound. *)
LEMMA SumBounded ==
    ASSUME NEW f, NEW S, IsFiniteSet(S), NEW k \in Nat, \A x \in S : f[x] \in 0 .. k
    PROVE  SumFunctionOnSet(f, S) <= k * Cardinality(S)
<1> DEFINE C == {s \in SUBSET S : ~ SumFunctionOnSet(f, s) <= k * Cardinality(s)}
<1>1. SUFFICES ASSUME C # {} PROVE FALSE
  <2>1. SUFFICES ASSUME C = {} PROVE SumFunctionOnSet(f, S) <= k * Cardinality(S)
    OBVIOUS
  <2>2. S \notin C
    BY <2>1
  <2>3. QED
    BY <2>2
<1>2. PICK s \in C : \A t \in SUBSET s : t # s => t \notin C
  <2>1. C \in SUBSET SUBSET S
    OBVIOUS
  <2> HIDE DEF C
  <2>2. QED
    BY <1>1, <2>1, SmallestSet
<1>3. IsFiniteSet(s) /\ s \in SUBSET S
  BY FS_Subset
<1>4. ~ SumFunctionOnSet(f, s) <= k * Cardinality(s)
  BY <1>2
<1>5. s # {}
  <2>1. SUFFICES ASSUME s = {} PROVE FALSE
    OBVIOUS
  <2>2. Cardinality(s) = 0 /\ SumFunctionOnSet(f, s) = 0
    BY <1>3, <2>1, SumByFirst, FS_EmptySet
  <2>3. QED
    BY <1>4, <2>2
<1>6. PICK c \in s : c = First(s)
  BY <1>3, <1>5, SumByFirst
<1>7. PICK t \in SUBSET s : t = s \ {c}
  OBVIOUS
<1>8. SumFunctionOnSet(f, s) = f[c] + SumFunctionOnSet(f, t)
  BY <1>3, <1>5, <1>6, <1>7, SumByFirst
<1>9. IsFiniteSet(t) /\ Cardinality(t) = Cardinality(s) - 1 /\ Cardinality(s) \in Nat
      /\ Cardinality(t) \in Nat
  BY <1>3, <1>7, FS_RemoveElement, FS_CardinalityType
<1>10. SumFunctionOnSet(f, t) <= k * Cardinality(t)
  BY <1>2, <1>3, <1>7
<1>11. SumFunctionOnSet(f, t) \in Nat
  <2>1. \A x \in t : f[x] \in Nat
    BY <1>3, <1>7
  <2>2. QED
    BY <1>9, <2>1, SumNat
<1>12. PICK m \in Nat, n \in Nat, x \in Nat : m = Cardinality(t) /\ n = SumFunctionOnSet(f, t) /\ x = f[c]
  BY <1>3, <1>9, <1>11
<1>13. n <= k * m /\ x <= k
  BY <1>3, <1>10, <1>12
<1>14. k * (m + 1) = k * m + k
  OBVIOUS
<1>15. x + n <= k * (m + 1)
  BY <1>13, <1>14
<1>16. Cardinality(s) = m + 1 /\ SumFunctionOnSet(f, s) = x + n
  BY <1>8, <1>9, <1>12
<1>17. QED
  BY <1>4, <1>15, <1>16

(* What the run has read. *)
ReadSound == before.held \in [Symbols -> {0, HeldQty}] /\ before = Read(before.held)

(* The weights of what is held, none of them nothing. *)
LEMMA ReadWeights ==
    ASSUME ReadSound
    PROVE  /\ before.nav \in Nat
           /\ DOMAIN before.weights = {t \in Symbols : before.held[t] > 0}
           /\ \A s \in DOMAIN before.weights : before.weights[s] \in Nat \ {0}
<1>1. PICK held \in [Symbols -> {0, HeldQty}] : held = before.held
  BY DEF ReadSound
<1>2. PICK units : units = SumFunction(held)
  OBVIOUS
<1>3. PICK nav : nav = Cash + Price * units
  OBVIOUS
<1>4. before.nav = nav
      /\ before.weights = [s \in {t \in Symbols : held[t] > 0} |-> (held[s] * Price * Unit) \div nav]
  <2>1. Read(held) = [held |-> held, nav |-> nav,
          weights |-> [s \in {t \in Symbols : held[t] > 0} |-> (held[s] * Price * Unit) \div nav]]
    BY <1>2, <1>3 DEF Read
  <2>2. before = Read(held)
    BY <1>1 DEF ReadSound
  <2>3. QED
    BY <2>1, <2>2
<1>5. /\ IsFiniteSet(Symbols) /\ HeldQty \in Nat \ {0} /\ Price \in Nat \ {0} /\ Cash \in Nat
      /\ HeldQty * Price * Unit >= Cash + HeldQty * Price * Cardinality(Symbols)
  BY EquitiesPipelineAssumption
<1>6. \A s \in Symbols : held[s] \in Nat /\ held[s] \in 0 .. HeldQty
  BY <1>5
<1>7. units = SumFunctionOnSet(held, Symbols)
  BY <1>2 DEF SumFunction
<1>8. units \in Nat
  BY <1>5, <1>6, <1>7, SumNat
<1>9. nav \in Nat
  <2>1. PICK x \in Nat : x = Price * units
    BY <1>5, <1>8
  <2>2. QED
    BY <1>3, <1>5, <2>1
<1>10. ASSUME NEW s \in Symbols, held[s] > 0
       PROVE  (held[s] * Price * Unit) \div nav \in Nat \ {0}
  <2>1. held[s] = HeldQty
    BY <1>5, <1>10
  <2>2. nav > 0
    <3>1. units = held[s] + SumFunctionOnSet(held, Symbols \ {s})
      <4>1. \A t \in Symbols : held[t] \in Int
        BY <1>6
      <4>2. QED
        BY <1>5, <1>7, <4>1, SumByElement
    <3>2. SumFunctionOnSet(held, Symbols \ {s}) \in Nat
      <4>1. IsFiniteSet(Symbols \ {s})
        BY <1>5, FS_RemoveElement
      <4>2. QED
        BY <1>6, <4>1, SumNat
    <3>3. units \in Nat \ {0}
      BY <1>8, <1>10, <1>6, <3>1, <3>2
    <3>4. Price * units > 0
      BY <1>5, <3>3
    <3>5. PICK x \in Nat : x = Price * units /\ x > 0
      BY <1>5, <3>3, <3>4
    <3>6. QED
      BY <1>3, <1>5, <3>5
  <2>3. PICK most \in Nat : most = HeldQty * Price * Unit
    BY <1>5 DEF Unit
  <2>4. nav <= most
    <3>1. PICK n \in Nat : n = Cardinality(Symbols)
      BY <1>5, FS_CardinalityType
    <3>2. units <= HeldQty * n
      BY <1>5, <1>6, <1>7, <3>1, SumBounded
    <3>3. PICK bound \in Nat : bound = HeldQty * n
      BY <1>5
    <3>4. Price * units <= Price * bound
      BY <1>5, <1>8, <3>2, <3>3
    <3>5. Price * bound = HeldQty * Price * n
      BY <1>5, <3>1, <3>3
    <3>6. Cash + HeldQty * Price * n <= most
      BY <1>5, <2>3, <3>1
    <3>7. PICK x \in Nat, y \in Nat : x = Price * units /\ y = Price * bound
      BY <1>5, <1>8
    <3>8. QED
      BY <1>3, <1>5, <3>4, <3>5, <3>6, <3>7
  <2>5. most \div nav \in Nat \ {0}
    <3>1. nav * (most \div nav) <= most /\ most < nav * ((most \div nav) + 1)
          /\ most \div nav \in Int
      BY <1>9, <2>2
    <3>2. PICK q \in Int : q = most \div nav
      BY <3>1
    <3>3. SUFFICES ASSUME q <= 0 PROVE FALSE
      BY <3>2
    <3>4. nav * (q + 1) <= nav
      BY <1>9, <2>2, <3>3
    <3>5. QED
      BY <1>9, <2>4, <3>1, <3>2, <3>4
  <2>6. QED
    BY <2>1, <2>3, <2>5
<1>11. QED
  BY <1>1, <1>4, <1>9, <1>10

Answered1To10 ==
    \A a \in Analysts : \A s \in DOMAIN answer[a] : answer[a][s] \in [score : Nat, conf : Nat]

(* What the analysts hand in is a signal for each screened stock. *)
LEMMA SignalsTyped ==
    ASSUME IInv, Counted, Answered1To10
    PROVE  Signals \in Seq(SignalOf(screened))
<1>1. PICK stocks : stocks = Ascending(screened)
  OBVIOUS
<1>2. screened \in SUBSET Symbols
  BY EquitiesPipelineAssumption DEF Counted
<1>3. PICK n \in Nat : DOMAIN stocks = 1 .. n
  BY <1>1, <1>2, AscendingLists
<1>4. \A i \in 1 .. n : stocks[i] \in screened
  BY <1>1, <1>2, <1>3, AscendingLists
<1>5. ASSUME NEW a \in Analysts PROVE HandedIn(a) \in Seq(SignalOf(screened))
  <2>1. CASE a \in reported
    <3>1. DOMAIN answer[a] = screened
      BY <2>1 DEF IInv, Signalled
    <3>2. HandedIn(a) = [i \in 1 .. n |-> [sym |-> stocks[i], analyst |-> a,
                           score |-> answer[a][stocks[i]].score, conf |-> answer[a][stocks[i]].conf]]
      BY <1>1, <1>3, <2>1 DEF HandedIn
    <3>3. \A i \in 1 .. n : answer[a][stocks[i]] \in [score : Nat, conf : Nat]
      BY <1>4, <3>1 DEF Answered1To10
    <3>4. HandedIn(a) \in [1 .. n -> SignalOf(screened)]
      BY <1>4, <3>2, <3>3 DEF SignalOf
    <3>5. QED
      BY <1>3, <3>4
  <2>2. CASE a \notin reported
    BY <2>2 DEF HandedIn
  <2>3. QED
    BY <2>1, <2>2
<1>6. /\ HandedIn("fundamentals") \in Seq(SignalOf(screened))
      /\ HandedIn("technical") \in Seq(SignalOf(screened))
      /\ HandedIn("news") \in Seq(SignalOf(screened))
  BY <1>5 DEF Analysts
<1>7. QED
  BY <1>6 DEF Signals

(* Whatever is held and no longer wanted is dealt with, and nothing is *)
(* traded that is neither held nor wanted. *)
ExitsSound(p) ==
    /\ \A s \in Symbols \ DOMAIN p.targets :
         before.held[s] > 0 => Exits(p.orders, p.skips, before.held, s)
    /\ \A i \in DOMAIN p.orders :
         p.orders[i].sym \in DOMAIN p.targets \/ before.held[p.orders[i].sym] > 0

(* A plan is sound whatever the signals and the prices. *)
LEMMA DecisionSound ==
    ASSUME IInv, Counted, Answered1To10, ReadSound, PortfolioDecision
    PROVE  OrdersSound(plan'.orders) /\ ExitsSound(plan')
<1>1. PICK prices \in [Symbols -> {0, Price}] :
        plan' = LET scores  == Composites(Signals, StaticWeight)
                    targets == SizePositions(scores, Selected(scores, DOMAIN before.weights))
                    result  == GenerateOrders(targets, before.weights, before.held, before.nav, prices)
                IN  [targets |-> targets, orders |-> result.orders, skips |-> result.skips]
  BY DEF PortfolioDecision
<1>2. PICK scores : scores = Composites(Signals, StaticWeight)
  OBVIOUS
<1>3. PICK chosen : chosen = Selected(scores, DOMAIN before.weights)
  OBVIOUS
<1>4. PICK targets : targets = SizePositions(scores, chosen)
  OBVIOUS
<1>5. PICK result : result = GenerateOrders(targets, before.weights, before.held, before.nav, prices)
  OBVIOUS
<1>6. plan' = [targets |-> targets, orders |-> result.orders, skips |-> result.skips]
  BY <1>1, <1>2, <1>3, <1>4, <1>5
<1>7. DOMAIN scores \subseteq screened /\ \A s \in DOMAIN scores : scores[s].conviction \in Nat
  BY <1>2, SignalsTyped, CompositesTyped
<1>8. chosen \in SUBSET DOMAIN scores
  BY <1>3 DEF Selected, Eligible
<1>9. chosen \in SUBSET Symbols
  BY <1>7, <1>8, EquitiesPipelineAssumption DEF Counted
<1>10. targets \in Weights(chosen)
  <2>1. IsFiniteSet(chosen)
    BY <1>9, EquitiesPipelineAssumption, FS_Subset
  <2>2. \A s \in chosen : scores[s].conviction \in Nat
    BY <1>7, <1>8
  <2>3. QED
    BY <1>4, <2>1, <2>2, SizesTyped
<1>11. Readable(targets, before.weights, before.held, before.nav, prices)
  <2>1. DOMAIN targets \subseteq Symbols /\ \A s \in DOMAIN targets : targets[s] \in Nat
    BY <1>9, <1>10 DEF Weights
  <2>2. DOMAIN before.weights \subseteq Symbols
        /\ \A s \in DOMAIN before.weights : before.weights[s] \in Nat
    BY ReadWeights
  <2>3. DOMAIN before.held = Symbols /\ \A s \in Symbols : before.held[s] \in Nat
    BY EquitiesPipelineAssumption DEF ReadSound
  <2>4. before.nav \in Nat
    BY ReadWeights
  <2>5. \A s \in Symbols : prices[s] \in Nat
    BY EquitiesPipelineAssumption
  <2>6. QED
    BY <2>1, <2>2, <2>3, <2>4, <2>5 DEF Readable
<1>12. /\ OrdersSound(result.orders)
       /\ \A i \in DOMAIN result.orders :
            result.orders[i].sym \in DOMAIN targets \cup DOMAIN before.weights
       /\ \A s \in DOMAIN before.weights \ DOMAIN targets :
            before.weights[s] > 0 /\ before.held[s] > 0 =>
              Exits(result.orders, result.skips, before.held, s)
  BY <1>5, <1>11, GeneratedSound
<1>13. \A s \in Symbols \ DOMAIN targets : before.held[s] > 0 =>
         Exits(result.orders, result.skips, before.held, s)
  BY <1>12, ReadWeights
<1>14. \A i \in DOMAIN result.orders :
         result.orders[i].sym \in DOMAIN targets \/ before.held[result.orders[i].sym] > 0
  BY <1>12, ReadWeights
<1>15. before' = before
  BY DEF PortfolioDecision
<1>16. QED
  BY <1>6, <1>12, <1>13, <1>14, <1>15 DEF ExitsSound
-----------------------------------------------------------------------------
(* The orders of a run and the book *)

(* What the rows say moved a position, by row. *)
Moves(s) == {j \in DOMAIN rows : /\ rows[j].status = "filled"
                                 /\ plan.orders[rows[j].order].sym = s
                                 /\ KindOf(results, rows[j].order) = "filled"}
Amount(i) == (IF plan.orders[rows[i].order].side = "buy" THEN 1 ELSE -1) * rows[i].qty

OrderRow == [order : Nat, status : {"filled", "rejected", "pending", "unapplied"}, qty : Int]

RowsSound ==
    /\ rows \in Seq(OrderRow)
    /\ \A i \in DOMAIN rows :
         /\ rows[i].order \in DOMAIN plan.orders
         /\ rows[i].status = "filled" =>
              rows[i].order \in DOMAIN results /\ results[rows[i].order] = "filled"

ResultsSound ==
    /\ results \in Seq({"none", "filled", "rejected"})
    /\ Len(results) <= Len(plan.orders)

FilledFor(s) == {k \in DOMAIN results : results[k] = "filled" /\ plan.orders[k].sym = s}

(* What the results say happened is still there. *)
Stands == ~(stage = "closed" /\ broken)

BookSound ==
    /\ book.cash \in Nat
    /\ book.held \in [Symbols -> Int]
    /\ \A s \in Symbols : FilledFor(s) = {} => book.held[s] = before.held[s]
    /\ Stands => \A s \in Symbols : \A k \in FilledFor(s) :
         plan.orders[k] = Order(s, "sell", before.held[s]) => book.held[s] < Share

(* Every result that says filled has the row of its fill. *)
Recorded ==
    Stands => \A k \in DOMAIN results : results[k] = "filled" =>
                \E i \in DOMAIN rows : rows[i].order = k /\ rows[i].status = "filled"

Explained == \A s \in Symbols : book.held[s] - before.held[s] = MovedBy(s, "filled")

Undecided ==
    fired["portfolio_decision"] = 0 =>
        /\ results = <<>> /\ rows = <<>> /\ plan = NoPlan /\ ~retrying
        /\ book.held = before.held

Booked ==
    /\ ReadSound /\ Answered1To10 /\ Undecided
    /\ OrdersSound(plan.orders)
    /\ fired["portfolio_decision"] # 0 => ExitsSound(plan)
    /\ ResultsSound /\ RowsSound /\ BookSound /\ Recorded /\ Explained
    /\ retrying \in BOOLEAN

(* The orders have all been handed over when a run is done, and its account *)
(* of them is that of the code. *)
Accounted ==
    /\ active = {} => stage \in {"read", "upsert", "failed"}
    /\ stage \in {"done", "closed"} => /\ active = Trading
                                       /\ flow = OrderFlow(plan.orders, results, plan.skips)
                                       /\ alerts = FlowAlerts(flow)

(* The rows' account of a position is a sum over its fills. *)
LEMMA MovedIsSum ==
    ASSUME NEW s
    PROVE  MovedBy(s, "filled") = SumFunction([i \in Moves(s) |-> Amount(i)])
  BY DEF MovedBy, Moves, Amount

(* The rows are finitely many, and each moves a number of units. *)
LEMMA MovesFinite ==
    ASSUME RowsSound, NEW s
    PROVE  IsFiniteSet(Moves(s)) /\ \A i \in Moves(s) : Amount(i) \in Int
<1>1. PICK n \in Nat : DOMAIN rows = 1 .. n
  BY DEF RowsSound
<1>2. IsFiniteSet(Moves(s))
  <2>1. IsFiniteSet(1 .. n) /\ Moves(s) \in SUBSET (1 .. n)
    BY <1>1, FS_Interval DEF Moves
  <2>2. QED
    BY <2>1, FS_Subset
<1>3. ASSUME NEW i \in Moves(s) PROVE Amount(i) \in Int
  <2>1. rows[i].qty \in Int
    <3>1. i \in DOMAIN rows
      BY <1>3 DEF Moves
    <3>2. rows[i] \in OrderRow
      BY <3>1 DEF RowsSound
    <3>3. QED
      BY <3>2 DEF OrderRow
  <2>2. PICK x \in Int : x = rows[i].qty
    BY <2>1
  <2>3. (IF plan.orders[rows[i].order].side = "buy" THEN 1 ELSE -1) * x \in Int
    OBVIOUS
  <2>4. QED
    BY <2>2, <2>3 DEF Amount
<1>4. QED
  BY <1>2, <1>3

(* A run starts with its book unmoved. *)
LEMMA InitBooked == Init => Booked /\ Accounted
<1>1. SUFFICES ASSUME Init PROVE Booked /\ Accounted
  OBVIOUS
<1>2. PICK held \in [Symbols -> {0, HeldQty}] :
        before = Read(held) /\ book = [held |-> held, cash |-> Cash]
  BY <1>1 DEF Init
<1>3. before.held = held /\ book.held = held /\ book.cash = Cash
  BY <1>2 DEF Read
<1>4. rows = <<>> /\ results = <<>> /\ plan = NoPlan /\ retrying = FALSE
  BY <1>1 DEF Init
<1>5. ReadSound /\ Undecided
  BY <1>2, <1>3, <1>4 DEF ReadSound, Undecided
<1>6. Answered1To10
  BY <1>1 DEF Init, Answered1To10, None
<1>7. OrdersSound(plan.orders)
  BY <1>4 DEF OrdersSound, NoPlan
<1>8. fired["portfolio_decision"] = 0
  BY <1>1 DEF Init, Nodes
<1>9. ResultsSound
  BY <1>4 DEF ResultsSound, NoPlan
<1>10. RowsSound
  BY <1>4 DEF RowsSound
<1>11. \A s \in Symbols : held[s] \in Int
  BY EquitiesPipelineAssumption
<1>12. BookSound
  <2>1. \A s : FilledFor(s) = {}
    BY <1>4 DEF FilledFor
  <2>2. book.held \in [Symbols -> Int] /\ book.cash \in Nat
    BY <1>3, <1>11, EquitiesPipelineAssumption
  <2>3. QED
    BY <1>3, <2>1, <2>2 DEF BookSound
<1>13. Explained
  <2>1. SUFFICES ASSUME NEW s \in Symbols PROVE book.held[s] - before.held[s] = MovedBy(s, "filled")
    BY DEF Explained
  <2>2. PICK f : f = [i \in Moves(s) |-> Amount(i)]
    OBVIOUS
  <2>3. DOMAIN f = {}
    BY <1>4, <2>2 DEF Moves
  <2>4. SumFunction(f) = 0
    BY <2>3, SumByFirst, FS_EmptySet DEF SumFunction
  <2>5. MovedBy(s, "filled") = 0
    BY <2>2, <2>4, MovedIsSum
  <2>6. QED
    BY <1>3, <1>11, <2>5
<1>14. Accounted
  BY <1>1 DEF Init, Accounted
<1>15. Recorded
  BY <1>4 DEF Recorded
<1>16. QED
  BY <1>4, <1>5, <1>6, <1>7, <1>8, <1>9, <1>10, <1>12, <1>13, <1>14, <1>15 DEF Booked

(* Steps that leave the orders alone, and close no dead transaction. *)
LEMMA OrdersAside ==
    ASSUME Booked, UNCHANGED <<before, plan, retrying, results, rows, book>>, Answered1To10',
           Stands' => Stands,
           fired'["portfolio_decision"] = fired["portfolio_decision"]
    PROVE  Booked'
<1>1. UNCHANGED <<before, plan, retrying, results, rows, book>>
  OBVIOUS
<1>2. ReadSound' /\ Undecided' /\ OrdersSound(plan.orders)' /\ ResultsSound' /\ RowsSound'
  BY <1>1 DEF Booked, ReadSound, Undecided, ResultsSound, RowsSound
<1>3. BookSound' /\ Recorded' /\ Explained'
  BY <1>1 DEF Booked, BookSound, Recorded, FilledFor, Explained, MovedBy
<1>4. fired'["portfolio_decision"] # 0 => ExitsSound(plan)'
  BY <1>1 DEF Booked, ExitsSound
<1>5. QED
  BY <1>1, <1>2, <1>3, <1>4 DEF Booked

(* A signal that arrives is one that a model may give. *)
LEMMA AnswerTyped ==
    ASSUME IInv, Booked, NEW a \in Analysts, NEW s, NEW signal \in [score : Nat, conf : Nat],
           Answered(a, s, signal)
    PROVE  Answered1To10'
<1>1. DOMAIN answer = Analysts
  BY DEF IInv, Signalled
<1>2. PICK signals : signals = [t \in DOMAIN answer[a] \cup {s} |-> IF t = s THEN signal ELSE answer[a][t]]
  OBVIOUS
<1>3. answer' = [answer EXCEPT ![a] = signals]
  BY <1>2 DEF Answered
<1>4. \A t \in DOMAIN signals : signals[t] \in [score : Nat, conf : Nat]
  BY <1>2 DEF Booked, Answered1To10
<1>5. QED
  BY <1>1, <1>3, <1>4 DEF Booked, Answered1To10

(* The decision finds nothing submitted. *)
LEMMA DecisionBooked ==
    ASSUME IInv, Counted, Booked, PortfolioDecision
    PROVE  Booked' /\ results' = <<>>
<1>1. Running("portfolio_decision") /\ results' = <<>> /\ Finish("portfolio_decision")
      /\ UNCHANGED <<before, answer, retrying, rows, book>>
  BY DEF PortfolioDecision, callVars
<1>2. fired["portfolio_decision"] = 0 /\ fired'["portfolio_decision"] = 1
  <2>1. active = Deciding /\ finished = {}
    BY <1>1 DEF Running, IInv, Superstep, Early, Middle, Deciding, Trading
  <2>2. fired \in [Nodes -> Nat] /\ "portfolio_decision" \in Nodes /\ fired["portfolio_decision"] = 0
    BY <2>1 DEF IInv, Firings, Nodes
  <2>3. QED
    BY <1>1, <2>2 DEF Finish
<1>3. OrdersSound(plan'.orders) /\ ExitsSound(plan')
  BY DecisionSound DEF Booked
<1>4. rows = <<>> /\ results = <<>> /\ book.held = before.held /\ ~retrying
  BY <1>2 DEF Booked, Undecided
<1>5. ResultsSound' /\ RowsSound'
  <2>1. Len(plan'.orders) >= 0
    BY <1>3 DEF OrdersSound
  <2>2. QED
    BY <1>1, <1>4, <2>1 DEF ResultsSound, RowsSound
<1>6. BookSound'
  <2>1. \A s : FilledFor(s)' = {}
    BY <1>1 DEF FilledFor
  <2>2. book' = book /\ before' = before
    BY <1>1
  <2>3. QED
    BY <1>4, <2>1, <2>2 DEF Booked, BookSound
<1>7. Recorded'
  BY <1>1 DEF Recorded
<1>8. Explained'
  <2>1. SUFFICES ASSUME NEW s \in Symbols
                 PROVE  (book.held[s] - before.held[s] = MovedBy(s, "filled"))'
    BY DEF Explained
  <2>2. MovedBy(s, "filled") = MovedBy(s, "filled")'
    <3>1. rows' = <<>> /\ rows = <<>>
      BY <1>1, <1>4
    <3>2. PICK f : f = [i \in {} |-> 0]
      OBVIOUS
    <3>3. MovedBy(s, "filled") = SumFunction(f)
      BY <3>1, <3>2 DEF MovedBy
    <3>4. MovedBy(s, "filled")' = SumFunction(f)
      BY <3>1, <3>2 DEF MovedBy
    <3>5. QED
      BY <3>3, <3>4
  <2>3. QED
    BY <1>1, <2>2 DEF Booked, Explained
<1>9. ReadSound' /\ Answered1To10'
  BY <1>1 DEF Booked, ReadSound, Answered1To10
<1>10. QED
  BY <1>1, <1>2, <1>3, <1>4, <1>5, <1>6, <1>7, <1>8, <1>9 DEF Booked, ExitsSound, Undecided
(* Orders are submitted only once the portfolio has been decided. *)
LEMMA TradingNow ==
    ASSUME IInv, Running("execute_trades")
    PROVE  active = Trading /\ fired["portfolio_decision"] = 1
<1>1. "execute_trades" \in active
  BY DEF Running
<1>2. active = Trading
  BY <1>1 DEF IInv, Superstep, Early, Middle, Deciding, Trading
<1>3. QED
  BY <1>2 DEF IInv, Firings

(* The order at hand, and how much of it is asked for. *)
LEMMA CurrentSound ==
    ASSUME Booked, Submitting
    PROVE  /\ Len(results) + 1 \in DOMAIN plan.orders
           /\ Current.sym \in Symbols /\ Current.side \in {"buy", "sell"} /\ Current.qty \in Nat
           /\ Quantity \in Nat /\ Current.qty - Quantity < Share
<1>1. PICK n \in Nat : DOMAIN plan.orders = 1 .. n /\ Len(plan.orders) = n
  BY DEF Booked, OrdersSound
<1>2. PICK m \in Nat : m = Len(results)
  BY DEF Booked, ResultsSound
<1>3. m < n
  BY <1>1, <1>2 DEF Submitting
<1>4. m + 1 \in DOMAIN plan.orders
  BY <1>1, <1>3
<1>5. Current = plan.orders[m + 1]
  BY <1>2 DEF Current
<1>6. Current.sym \in Symbols /\ Current.side \in {"buy", "sell"} /\ Current.qty \in Nat
  BY <1>4, <1>5 DEF Booked, OrdersSound
<1>7. PICK q \in Nat : q = Current.qty
  BY <1>6
<1>8. Share \in Nat \ {0}
  BY EquitiesPipelineAssumption
<1>9. q % Share \in Nat /\ q % Share < Share /\ q % Share <= q
  BY <1>8
<1>10. PICK x : x = Quantity
  OBVIOUS
<1>11. x = IF retrying THEN q - (q % Share) ELSE q
  BY <1>7, <1>10 DEF Quantity
<1>12. x \in Nat /\ q - x < Share
  BY <1>8, <1>9, <1>11
<1>13. QED
  BY <1>2, <1>4, <1>6, <1>7, <1>10, <1>12

(* The results so far stand when one is added. *)
LEMMA ResultAdded ==
    ASSUME Booked, Submitting, NEW r \in {"none", "filled", "rejected"}, results' = Append(results, r)
    PROVE  /\ DOMAIN results' = DOMAIN results \cup {Len(results) + 1}
           /\ Len(results) + 1 \notin DOMAIN results
           /\ \A k \in DOMAIN results : results'[k] = results[k]
           /\ results'[Len(results) + 1] = r
           /\ Len(results') <= Len(plan.orders)
           /\ results' \in Seq({"none", "filled", "rejected"})
<1>1. PICK m \in Nat : DOMAIN results = 1 .. m /\ m = Len(results)
  BY DEF Booked, ResultsSound
<1>2. m + 1 <= Len(plan.orders)
  <2>1. PICK n \in Nat : Len(plan.orders) = n
    BY DEF Booked, OrdersSound
  <2>2. QED
    BY <1>1, <2>1 DEF Submitting
<1>3. results \in Seq({"none", "filled", "rejected"})
  BY DEF Booked, ResultsSound
<1>4. /\ Len(results') = m + 1 /\ DOMAIN results' = 1 .. m + 1
      /\ \A k \in 1 .. m : results'[k] = results[k]
      /\ results'[m + 1] = r
      /\ results' \in Seq({"none", "filled", "rejected"})
  BY <1>1, <1>3
<1>5. QED
  BY <1>1, <1>2, <1>4

(* A row is added for the order at hand. *)
LEMMA RowAdded ==
    ASSUME Booked, Submitting,
           NEW status \in {"filled", "rejected", "pending", "unapplied"}, rows' = Row(status)
    PROVE  /\ DOMAIN rows' = DOMAIN rows \cup {Len(rows) + 1}
           /\ Len(rows) + 1 \notin DOMAIN rows
           /\ \A j \in DOMAIN rows : rows'[j] = rows[j]
           /\ rows'[Len(rows) + 1] = [order |-> Len(results) + 1, status |-> status, qty |-> Quantity]
           /\ rows' \in Seq(OrderRow)
<1>1. PICK m \in Nat : DOMAIN rows = 1 .. m /\ m = Len(rows)
  BY DEF Booked, RowsSound
<1>2. PICK row : row = [order |-> Len(results) + 1, status |-> status, qty |-> Quantity]
  OBVIOUS
<1>3. row \in OrderRow
  <2>1. Len(results) + 1 \in Nat
    BY DEF Booked, ResultsSound
  <2>2. Quantity \in Int
    BY CurrentSound
  <2>3. QED
    BY <1>2, <2>1, <2>2 DEF OrderRow
<1>4. rows \in Seq(OrderRow)
  BY DEF Booked, RowsSound
<1>5. rows' = Append(rows, row)
  BY <1>2 DEF Row
<1>6. /\ Len(rows') = m + 1 /\ DOMAIN rows' = 1 .. m + 1
      /\ \A k \in 1 .. m : rows'[k] = rows[k]
      /\ rows'[m + 1] = row
      /\ rows' \in Seq(OrderRow)
  BY <1>1, <1>3, <1>4, <1>5
<1>7. QED
  BY <1>1, <1>2, <1>6

(* The fills there were stay fills, of the same orders and units. *)
OldMovesStay ==
    /\ DOMAIN rows \subseteq DOMAIN rows' /\ \A j \in DOMAIN rows : rows'[j] = rows[j]
    /\ DOMAIN results \subseteq DOMAIN results' /\ \A k \in DOMAIN results : results'[k] = results[k]
    /\ plan' = plan

(* What moved a position in the old rows is what moved it before. *)
LEMMA OldMoves ==
    ASSUME RowsSound, OldMovesStay, NEW s
    PROVE  /\ Moves(s)' \cap DOMAIN rows = Moves(s)
           /\ \A j \in DOMAIN rows : Amount(j)' = Amount(j)
<1>1. \A j \in DOMAIN rows : j \in DOMAIN rows' /\ rows'[j] = rows[j]
  BY DEF OldMovesStay
<1>2. ASSUME NEW j \in DOMAIN rows, rows[j].status = "filled"
      PROVE  KindOf(results, rows[j].order) = "filled" /\ KindOf(results', rows[j].order) = "filled"
  <2>1. rows[j].order \in DOMAIN results /\ results[rows[j].order] = "filled"
    BY <1>2 DEF RowsSound
  <2>2. rows[j].order \in DOMAIN results' /\ results'[rows[j].order] = "filled"
    BY <2>1 DEF OldMovesStay
  <2>3. QED
    BY <2>1, <2>2 DEF KindOf
<1>3. \A j \in DOMAIN rows : j \in Moves(s)' <=> j \in Moves(s)
  <2>1. SUFFICES ASSUME NEW j \in DOMAIN rows PROVE j \in Moves(s)' <=> j \in Moves(s)
    OBVIOUS
  <2>2. j \in Moves(s) <=> rows[j].status = "filled" /\ plan.orders[rows[j].order].sym = s
    BY <1>2 DEF Moves
  <2>3. j \in Moves(s)' <=> rows[j].status = "filled" /\ plan.orders[rows[j].order].sym = s
    BY <1>1, <1>2 DEF Moves, OldMovesStay
  <2>4. QED
    BY <2>2, <2>3
<1>4. Moves(s) \subseteq DOMAIN rows
  BY DEF Moves
<1>5. \A j \in DOMAIN rows : Amount(j)' = Amount(j)
  BY <1>1 DEF Amount, OldMovesStay
<1>6. QED
  BY <1>3, <1>4, <1>5

(* Without a new fill nothing more has moved. *)
LEMMA NothingMoved ==
    ASSUME RowsSound, OldMovesStay, NEW s, Moves(s)' \subseteq DOMAIN rows
    PROVE  MovedBy(s, "filled")' = MovedBy(s, "filled")
<1>1. Moves(s)' = Moves(s) /\ Moves(s) \subseteq DOMAIN rows
  BY OldMoves DEF Moves
<1>2. [i \in Moves(s)' |-> Amount(i)'] = [i \in Moves(s) |-> Amount(i)]
  BY <1>1, OldMoves
<1>3. MovedBy(s, "filled")' = SumFunction([i \in Moves(s)' |-> Amount(i)'])
  BY DEF MovedBy, Moves, Amount
<1>4. QED
  BY <1>2, <1>3, MovedIsSum

(* With one new fill its units have moved. *)
LEMMA OneFillMoved ==
    ASSUME RowsSound, OldMovesStay, NEW s, NEW x, x \notin DOMAIN rows, Moves(s)' = Moves(s) \cup {x},
           Amount(x)' \in Int
    PROVE  MovedBy(s, "filled")' = MovedBy(s, "filled") + Amount(x)'
<1>1. PICK f, g : f = [i \in Moves(s) |-> Amount(i)] /\ g = [i \in Moves(s)' |-> Amount(i)']
  OBVIOUS
<1>2. PICK S, T : S = Moves(s) /\ T = Moves(s)'
  OBVIOUS
<1>3. T = S \cup {x} /\ x \notin S
  BY <1>2 DEF Moves
<1>4. IsFiniteSet(S) /\ \A i \in S : Amount(i) \in Int
  BY <1>2, MovesFinite
<1>5. IsFiniteSet(T)
  BY <1>3, <1>4, FS_AddElement
<1>6. \A i \in S : g[i] = f[i] /\ f[i] \in Int
  <2>1. S \subseteq DOMAIN rows
    BY <1>2 DEF Moves
  <2>2. QED
    BY <1>1, <1>2, <1>3, <1>4, <2>1, OldMoves
<1>7. PICK a \in Int : a = Amount(x)' /\ g[x] = a
  BY <1>1, <1>2, <1>3
<1>8. \A i \in T : g[i] \in Int
  BY <1>3, <1>6, <1>7
<1>9. SumFunctionOnSet(g, T) = g[x] + SumFunctionOnSet(g, T \ {x})
  BY <1>3, <1>5, <1>8, SumByElement
<1>10. T \ {x} = S
  BY <1>3
<1>11. SumFunctionOnSet(g, S) = SumFunctionOnSet(f, S)
  BY <1>4, <1>6, SumAgrees
<1>12. SumFunctionOnSet(f, S) \in Int
  BY <1>4, <1>6, SumInt
<1>13. MovedBy(s, "filled")' = SumFunction(g) /\ SumFunction(g) = SumFunctionOnSet(g, T)
  BY <1>1, <1>2 DEF MovedBy, Moves, Amount, SumFunction
<1>14. MovedBy(s, "filled") = SumFunction(f) /\ SumFunction(f) = SumFunctionOnSet(f, S)
  BY <1>1, <1>2, MovedIsSum DEF SumFunction
<1>15. PICK b \in Int : b = SumFunctionOnSet(f, S)
  BY <1>12
<1>16. SumFunctionOnSet(g, T) = a + b
  BY <1>7, <1>9, <1>10, <1>11, <1>15
<1>17. MovedBy(s, "filled")' = a + b /\ MovedBy(s, "filled") = b
  BY <1>13, <1>14, <1>15, <1>16
<1>18. QED
  BY <1>7, <1>17
(* A submission that is not filled, or raised, leaves the book alone. *)
LEMMA UnfilledBooked ==
    ASSUME IInv, Booked, Submitting, UNCHANGED <<stage, before, plan, book, fired, answer>>,
           retrying' \in BOOLEAN,
           rows' \in {rows, Row("rejected"), Row("pending"), Row("unapplied")},
           \/ results' = results
           \/ results' = Append(results, "none") \/ results' = Append(results, "rejected")
    PROVE  Booked'
<1>1. fired["portfolio_decision"] = 1
  BY TradingNow DEF Submitting
<1>2. PICK k : k = Len(results) + 1
  OBVIOUS
<1>3. k \in DOMAIN plan.orders
  BY <1>2, CurrentSound
<1>4. /\ ResultsSound'
      /\ DOMAIN results' \subseteq DOMAIN results \cup {k} /\ DOMAIN results \subseteq DOMAIN results'
      /\ \A i \in DOMAIN results : results'[i] = results[i]
      /\ \A i \in DOMAIN results' \ DOMAIN results : results'[i] # "filled"
  <2>1. CASE results' = results
    BY <2>1 DEF Booked, ResultsSound
  <2>2. ASSUME NEW r \in {"none", "rejected"}, results' = Append(results, r)
        PROVE  /\ ResultsSound'
               /\ DOMAIN results' \subseteq DOMAIN results \cup {k} /\ DOMAIN results \subseteq DOMAIN results'
               /\ \A i \in DOMAIN results : results'[i] = results[i]
               /\ \A i \in DOMAIN results' \ DOMAIN results : results'[i] # "filled"
    <3>1. /\ DOMAIN results' = DOMAIN results \cup {k}
          /\ \A i \in DOMAIN results : results'[i] = results[i]
          /\ results'[k] = r
          /\ Len(results') <= Len(plan.orders)
          /\ results' \in Seq({"none", "filled", "rejected"})
      BY <1>2, <2>2, ResultAdded
    <3>2. QED
      BY <3>1 DEF ResultsSound
  <2>3. QED
    BY <2>1, <2>2
<1>5. /\ rows' \in Seq(OrderRow) /\ DOMAIN rows \subseteq DOMAIN rows'
      /\ \A j \in DOMAIN rows : rows'[j] = rows[j]
      /\ \A j \in DOMAIN rows' \ DOMAIN rows : rows'[j].order = k /\ rows'[j].status # "filled"
  <2>1. CASE rows' = rows
    BY <2>1 DEF Booked, RowsSound
  <2>2. ASSUME NEW status \in {"rejected", "pending", "unapplied"}, rows' = Row(status)
        PROVE  /\ rows' \in Seq(OrderRow) /\ DOMAIN rows \subseteq DOMAIN rows'
               /\ \A j \in DOMAIN rows : rows'[j] = rows[j]
               /\ \A j \in DOMAIN rows' \ DOMAIN rows : rows'[j].order = k /\ rows'[j].status # "filled"
    <3>1. /\ DOMAIN rows' = DOMAIN rows \cup {Len(rows) + 1}
          /\ \A j \in DOMAIN rows : rows'[j] = rows[j]
          /\ rows'[Len(rows) + 1] = [order |-> k, status |-> status, qty |-> Quantity]
          /\ rows' \in Seq(OrderRow)
      BY <1>2, <2>2, RowAdded
    <3>2. QED
      BY <3>1
  <2>3. QED
    BY <2>1, <2>2
<1>6. OldMovesStay
  BY <1>4, <1>5 DEF OldMovesStay
<1>7. RowsSound'
  BY <1>3, <1>4, <1>5 DEF Booked, RowsSound
<1>8. \A s : FilledFor(s)' = FilledFor(s)
  <2>1. plan' = plan
    OBVIOUS
  <2>2. QED
    BY <1>4, <2>1 DEF FilledFor
<1>9. Stands /\ Stands'
  BY DEF Submitting, Running, Stands
<1>10. BookSound'
  BY <1>8, <1>9 DEF Booked, BookSound
<1>11. Recorded'
  BY <1>4, <1>5, <1>9 DEF Booked, Recorded
<1>12. Explained'
  <2>1. SUFFICES ASSUME NEW s \in Symbols
                 PROVE  (book.held[s] - before.held[s] = MovedBy(s, "filled"))'
    BY DEF Explained
  <2>2. Moves(s)' \subseteq DOMAIN rows
    BY <1>5 DEF Moves
  <2>3. MovedBy(s, "filled")' = MovedBy(s, "filled")
    BY <1>6, <2>2, NothingMoved DEF Booked
  <2>4. QED
    BY <2>3 DEF Booked, Explained
<1>13. ReadSound' /\ Answered1To10' /\ OrdersSound(plan.orders)' /\ Undecided'
  BY <1>1 DEF Booked, ReadSound, Answered1To10, Undecided
<1>14. ExitsSound(plan)'
  BY <1>1 DEF Booked, ExitsSound
<1>15. QED
  BY <1>4, <1>7, <1>10, <1>12, <1>13, <1>14, <1>11 DEF Booked

(* A fill moves the position and the cash by what its row says. *)
LEMMA FillBooked == ASSUME IInv, Booked, Fill PROVE Booked'
<1>1. Submitting /\ fired["portfolio_decision"] = 1 /\ Affordable
  BY TradingNow DEF Fill, Accepted, Submitting
<1>2. PICK k : k = Len(results) + 1
  OBVIOUS
<1>3. PICK s0 \in Symbols : s0 = Current.sym
  BY <1>1, CurrentSound
<1>4. PICK q \in Nat : q = Quantity
  BY <1>1, CurrentSound
<1>5. PICK sign \in {1, -1} : sign = IF Current.side = "buy" THEN 1 ELSE -1
  OBVIOUS
<1>6. /\ rows' = Row("filled") /\ results' = Append(results, "filled") /\ retrying' = FALSE
      /\ book' = [held |-> [book.held EXCEPT ![s0] = @ + sign * q],
                  cash |-> book.cash - sign * q * Price]
      /\ UNCHANGED <<stage, before, plan, fired, answer>>
  BY <1>3, <1>4, <1>5 DEF Fill, Settled, graphVars, callVars
<1>7. /\ DOMAIN results' = DOMAIN results \cup {k} /\ k \notin DOMAIN results
      /\ \A i \in DOMAIN results : results'[i] = results[i]
      /\ results'[k] = "filled"
      /\ ResultsSound'
  BY <1>1, <1>2, <1>6, ResultAdded DEF ResultsSound
<1>8. PICK x : x = Len(rows) + 1
  OBVIOUS
<1>9. /\ DOMAIN rows' = DOMAIN rows \cup {x} /\ x \notin DOMAIN rows
      /\ \A j \in DOMAIN rows : rows'[j] = rows[j]
      /\ rows'[x] = [order |-> k, status |-> "filled", qty |-> q]
      /\ rows' \in Seq(OrderRow)
  BY <1>1, <1>2, <1>4, <1>6, <1>8, RowAdded
<1>10. k \in DOMAIN plan.orders /\ plan.orders[k] = Current
  BY <1>1, <1>2, CurrentSound DEF Current
<1>11. OldMovesStay
  BY <1>6, <1>7, <1>9 DEF OldMovesStay
<1>12. RowsSound'
  <2>1. \A j \in DOMAIN rows : /\ rows'[j].order \in DOMAIN plan.orders
                               /\ rows'[j].status = "filled" =>
                                    rows'[j].order \in DOMAIN results' /\ results'[rows'[j].order] = "filled"
    BY <1>7, <1>9 DEF Booked, RowsSound
  <2>2. rows'[x].order \in DOMAIN plan.orders /\ rows'[x].order \in DOMAIN results'
        /\ results'[rows'[x].order] = "filled"
    BY <1>7, <1>9, <1>10
  <2>3. QED
    BY <1>6, <1>9, <2>1, <2>2 DEF RowsSound
<1>13. /\ FilledFor(s0) = {} /\ FilledFor(s0)' = {k}
       /\ \A s \in Symbols \ {s0} : FilledFor(s)' = FilledFor(s)
  <2>1. ASSUME NEW i \in DOMAIN results, plan.orders[i].sym = s0 PROVE FALSE
    <3>1. i \in DOMAIN plan.orders
      <4>1. PICK n \in Nat : DOMAIN plan.orders = 1 .. n /\ Len(plan.orders) = n
        BY DEF Booked, OrdersSound
      <4>2. PICK m \in Nat : DOMAIN results = 1 .. m /\ m <= n
        BY <4>1 DEF Booked, ResultsSound
      <4>3. QED
        BY <4>1, <4>2
    <3>2. i = k
      BY <1>3, <1>10, <2>1, <3>1 DEF Booked, OrdersSound
    <3>3. QED
      BY <1>7, <3>2
  <2>2. FilledFor(s0) = {}
    BY <2>1 DEF FilledFor
  <2>3. FilledFor(s0)' = {k}
    BY <1>3, <1>6, <1>7, <1>10, <2>1 DEF FilledFor
  <2>4. \A s \in Symbols \ {s0} : FilledFor(s)' = FilledFor(s)
    BY <1>3, <1>6, <1>7, <1>10 DEF FilledFor
  <2>5. QED
    BY <2>2, <2>3, <2>4
<1>14. /\ book'.held[s0] = book.held[s0] + sign * q
       /\ \A s \in Symbols \ {s0} : book'.held[s] = book.held[s]
       /\ book'.held \in [Symbols -> Int]
  <2>1. book.held \in [Symbols -> Int]
    BY DEF Booked, BookSound
  <2>2. PICK z \in Int : z = sign * q
    OBVIOUS
  <2>3. book'.held = [book.held EXCEPT ![s0] = @ + z]
    BY <1>6, <2>2
  <2>4. QED
    BY <2>1, <2>2, <2>3
<1>15. book'.cash \in Nat
  <2>1. PICK cost \in Nat : cost = q * Price
    BY EquitiesPipelineAssumption
  <2>2. PICK cash \in Nat : cash = book.cash
    BY DEF Booked, BookSound
  <2>3. sign = 1 => cost <= cash
    BY <1>1, <1>4, <1>5, <2>1, <2>2 DEF Affordable
  <2>4. sign * q * Price = IF sign = 1 THEN cost ELSE -cost
    BY <2>1, EquitiesPipelineAssumption
  <2>5. book'.cash = cash - sign * q * Price
    BY <1>6, <2>2
  <2>6. QED
    BY <2>1, <2>2, <2>3, <2>4, <2>5
<1>16. book.held[s0] = before.held[s0]
  BY <1>13 DEF Booked, BookSound
<1>17. Stands /\ Stands'
  BY <1>1, <1>6 DEF Submitting, Running, Stands
<1>18. BookSound'
  <2>1. ASSUME NEW s \in Symbols, FilledFor(s)' = {} PROVE book'.held[s] = before'.held[s]
    <3>1. s # s0
      BY <1>13, <2>1
    <3>2. FilledFor(s) = {}
      BY <1>13, <2>1, <3>1
    <3>3. QED
      BY <1>6, <1>14, <3>1, <3>2 DEF Booked, BookSound
  <2>2. ASSUME NEW s \in Symbols, NEW i \in FilledFor(s)',
               plan'.orders[i] = Order(s, "sell", before'.held[s])
        PROVE  book'.held[s] < Share
    <3>1. CASE s = s0
      <4>1. i = k /\ Current = Order(s0, "sell", before.held[s0])
        BY <1>6, <1>10, <1>13, <2>2, <3>1
      <4>2. PICK b \in Int : b = before.held[s0]
        BY EquitiesPipelineAssumption DEF Booked, ReadSound
      <4>3. Current.side = "sell" /\ Current.qty = b
        BY <4>1, <4>2 DEF Order
      <4>4. sign = -1 /\ b - q < Share
        BY <1>1, <1>4, <1>5, <4>3, CurrentSound
      <4>5. QED
        BY <1>14, <1>16, <3>1, <4>2, <4>4
    <3>2. CASE s # s0
      BY <1>6, <1>13, <1>14, <1>17, <2>2, <3>2 DEF Booked, BookSound
    <3>3. QED
      BY <3>1, <3>2
  <2>3. QED
    BY <1>14, <1>15, <2>1, <2>2 DEF BookSound
<1>19. Recorded'
  <2>1. rows'[x].order = k /\ rows'[x].status = "filled" /\ x \in DOMAIN rows'
    BY <1>9
  <2>2. ASSUME NEW i \in DOMAIN results, results[i] = "filled"
        PROVE  \E j \in DOMAIN rows' : rows'[j].order = i /\ rows'[j].status = "filled"
    BY <1>9, <1>17, <2>2 DEF Booked, Recorded
  <2>3. QED
    BY <1>7, <2>1, <2>2 DEF Recorded
<1>20. Explained'
  <2>1. SUFFICES ASSUME NEW s \in Symbols
                 PROVE  book'.held[s] - before'.held[s] = MovedBy(s, "filled")'
    BY DEF Explained
  <2>2. KindOf(results, k)' = "filled"
    BY <1>7 DEF KindOf
  <2>3. x \in Moves(s)' <=> s = s0
    BY <1>3, <1>6, <1>9, <1>10, <2>2 DEF Moves
  <2>4. Moves(s)' \subseteq DOMAIN rows \cup {x}
    BY <1>9 DEF Moves
  <2>5. Moves(s)' \cap DOMAIN rows = Moves(s)
    BY <1>11, OldMoves DEF Booked
  <2>6. CASE s = s0
    <3>1. Moves(s)' = Moves(s) \cup {x}
      BY <2>3, <2>4, <2>5, <2>6
    <3>2. Amount(x)' = sign * q
      BY <1>5, <1>6, <1>9, <1>10 DEF Amount
    <3>3. PICK z \in Int : z = sign * q
      OBVIOUS
    <3>4. MovedBy(s, "filled")' = MovedBy(s, "filled") + z
      BY <1>9, <1>11, <3>1, <3>2, <3>3, OneFillMoved DEF Booked
    <3>5. PICK a \in Int, b \in Int : a = book.held[s] /\ b = before.held[s]
      BY EquitiesPipelineAssumption DEF Booked, BookSound, ReadSound
    <3>6. MovedBy(s, "filled") = a - b
      BY <3>5 DEF Booked, Explained
    <3>7. book'.held[s] = a + z /\ before'.held[s] = b
      BY <1>6, <1>14, <2>6, <3>3, <3>5
    <3>8. QED
      BY <3>4, <3>6, <3>7
  <2>7. CASE s # s0
    <3>1. Moves(s)' \subseteq DOMAIN rows
      BY <2>3, <2>4, <2>7
    <3>2. MovedBy(s, "filled")' = MovedBy(s, "filled")
      BY <1>11, <3>1, NothingMoved DEF Booked
    <3>3. QED
      BY <1>6, <1>14, <2>7, <3>2 DEF Booked, Explained
  <2>8. QED
    BY <2>6, <2>7
<1>21. ReadSound' /\ Answered1To10' /\ OrdersSound(plan.orders)' /\ Undecided'
  BY <1>1, <1>6 DEF Booked, ReadSound, Answered1To10, Undecided
<1>22. ExitsSound(plan)'
  BY <1>1, <1>6 DEF Booked, ExitsSound
<1>23. retrying' \in BOOLEAN
  BY <1>6
<1>24. QED
  BY <1>7, <1>12, <1>18, <1>20, <1>21, <1>22, <1>23, <1>19 DEF Booked

(* A ranking puts deciles in the place of scores. *)
LEMMA RankTyped ==
    ASSUME IInv, Answered1To10, NEW a \in Analysts, RankSignals(a)
    PROVE  Answered1To10'
<1>1. DOMAIN answer = Analysts
  BY DEF IInv, Signalled
<1>2. CASE UNCHANGED answer
  BY <1>2 DEF Answered1To10
<1>3. ASSUME NEW ordered \in Orderings, answer' = [answer EXCEPT ![a] = Ranking(@, ordered)]
      PROVE  Answered1To10'
  <2>1. PICK signals : signals = Ranking(answer[a], ordered)
    OBVIOUS
  <2>2. answer' = [answer EXCEPT ![a] = signals]
    BY <1>3, <2>1
  <2>3. PICK n \in Int : DOMAIN ordered = 1 .. n
    BY DEF Orderings
  <2>4. ASSUME NEW i \in 1 .. n PROVE Decile(i, Cardinality(1 .. n)) \in Nat
    <3>1. n \in Nat /\ Cardinality(1 .. n) = n
      BY FS_Interval
    <3>2. CASE n <= 1
      BY <3>1, <3>2 DEF Decile
    <3>3. CASE n > 1
      <4>1. PICK x \in Nat, y \in Nat \ {0} : x = (n - i) * 9 /\ y = n - 1
        BY <3>3
      <4>2. x \div y \in Nat
        BY <4>1
      <4>3. Decile(i, n) = 1 + x \div y
        BY <3>3, <4>1 DEF Decile
      <4>4. QED
        BY <3>1, <4>2, <4>3
    <3>4. QED
      BY <3>1, <3>2, <3>3
  <2>5. ASSUME NEW s \in DOMAIN signals PROVE signals[s] \in [score : Nat, conf : Nat]
    <3>1. s \in DOMAIN answer[a]
      BY <2>1 DEF Ranking
    <3>2. PICK old : old = answer[a][s] /\ old \in [score : Nat, conf : Nat]
      BY <3>1 DEF Answered1To10
    <3>3. CASE \E i \in DOMAIN ordered : ordered[i] = s
      <4>1. PICK i : i = CHOOSE k \in DOMAIN ordered : ordered[k] = s
        OBVIOUS
      <4>2. i \in 1 .. n
        BY <2>3, <3>3, <4>1
      <4>3. PICK d : d = Decile(i, Cardinality(1 .. n)) /\ d \in Nat
        BY <2>4, <4>2
      <4>4. signals[s] = [old EXCEPT !.score = d]
        BY <2>1, <2>3, <3>1, <3>2, <3>3, <4>1, <4>3 DEF Ranking
      <4>5. QED
        BY <3>2, <4>3, <4>4
    <3>4. CASE ~\E i \in DOMAIN ordered : ordered[i] = s
      BY <2>1, <3>1, <3>2, <3>4 DEF Ranking
    <3>5. QED
      BY <3>3, <3>4
  <2>6. QED
    BY <1>1, <2>2, <2>5 DEF Answered1To10
<1>4. QED
  BY <1>2, <1>3 DEF RankSignals

(* A dead transaction takes the rows with it, and the book is the one the  *)
(* run read.                                                               *)
LEMMA RolledBackBooked ==
    ASSUME Booked, CloseTransaction, broken
    PROVE  Booked'
<1>1. /\ rows' = <<>> /\ book' = [held |-> before.held, cash |-> Cash]
      /\ stage' = "closed" /\ broken'
      /\ UNCHANGED <<before, plan, retrying, results, fired, answer>>
  BY DEF CloseTransaction, graphVars, callVars
<1>2. ~Stands'
  BY <1>1 DEF Stands
<1>3. book'.held = before.held /\ book'.cash = Cash
  BY <1>1
<1>4. \A s \in Symbols : before.held[s] \in Int
  BY EquitiesPipelineAssumption DEF Booked, ReadSound
<1>5. ReadSound' /\ Answered1To10' /\ OrdersSound(plan.orders)' /\ ResultsSound'
  BY <1>1 DEF Booked, ReadSound, Answered1To10, ResultsSound
<1>6. Undecided' /\ RowsSound' /\ Recorded'
  BY <1>1, <1>2, <1>3 DEF Booked, Undecided, RowsSound, Recorded
<1>7. BookSound'
  <2>1. before.held \in [Symbols -> Int]
    BY <1>4 DEF Booked, ReadSound
  <2>2. QED
    BY <1>1, <1>2, <1>3, <2>1, EquitiesPipelineAssumption DEF BookSound
<1>8. Explained'
  <2>1. SUFFICES ASSUME NEW s \in Symbols
                 PROVE  book'.held[s] - before'.held[s] = MovedBy(s, "filled")'
    BY DEF Explained
  <2>2. PICK f : f = [i \in Moves(s)' |-> Amount(i)']
    OBVIOUS
  <2>3. DOMAIN f = {}
    BY <1>1, <2>2 DEF Moves
  <2>4. SumFunction(f) = 0
    BY <2>3, SumByFirst, FS_EmptySet DEF SumFunction
  <2>5. MovedBy(s, "filled")' = 0
    BY <2>2, <2>4 DEF MovedBy, Moves, Amount
  <2>6. QED
    BY <1>1, <1>3, <1>4, <2>5
<1>9. ExitsSound(plan)' \/ fired'["portfolio_decision"] = 0
  BY <1>1 DEF Booked, ExitsSound
<1>10. QED
  BY <1>1, <1>5, <1>6, <1>7, <1>8, <1>9 DEF Booked

(* Every step keeps the orders and the book together. *)
LEMMA NextBooked == IInv /\ Counted /\ Booked /\ [Next]_vars => Booked'
<1>1. SUFFICES ASSUME IInv, Counted, Booked, [Next]_vars PROVE Booked'
  OBVIOUS
<1>2. Answered1To10
  BY <1>1 DEF Booked
<1>3. UNCHANGED answer => Answered1To10'
  BY <1>2 DEF Answered1To10
<1>4. ASSUME UNCHANGED <<before, plan, retrying, results, rows, book, fired, answer>>,
             stage # "closed" \/ UNCHANGED <<stage, broken>>
      PROVE  Booked'
  BY <1>1, <1>3, <1>4, OrdersAside DEF Stands
<1>5. CASE ReadPortfolio \/ ReadFails \/ UpsertInstruments \/ UpsertFails \/ WeightsFail \/ NextStep
           \/ NodeRaises \/ FinishRun \/ RecordFails \/ Ended \/ UNCHANGED vars
  BY <1>4, <1>5 DEF ReadPortfolio, ReadFails, UpsertInstruments, UpsertFails, WeightsFail,
       StartGraph, NextStep, NodeRaises, Running, FinishRun, RecordFails, Report, Ended, vars,
       graphVars, callVars, orderVars
<1>6. ASSUME NEW n \in Nodes, n # "portfolio_decision", Running(n), Finish(n),
             UNCHANGED <<before, orderVars, answer>>
      PROVE  Booked'
  <2>1. "portfolio_decision" \in Nodes /\ fired \in [Nodes -> Nat]
    BY <1>1 DEF Nodes, IInv, Firings
  <2>2. fired'["portfolio_decision"] = fired["portfolio_decision"]
    BY <1>6, <2>1 DEF Finish
  <2>3. QED
    BY <1>1, <1>3, <1>6, <2>2, OrdersAside DEF Running, Stands, orderVars
<1>7. CASE FetchUniverse \/ ScreenStocks \/ PrefetchNews \/ ExecuteDone
  BY <1>6, <1>7 DEF FetchUniverse, ScreenStocks, PrefetchNews, ExecuteDone, Nodes, callVars
<1>8. CASE \E a \in Analysts : RankSignals(a) \/ AnalystDone(a)
  <2>1. ASSUME NEW a \in Analysts, RankSignals(a) PROVE Booked'
    <3>1. /\ UNCHANGED <<before, plan, retrying, results, rows, book, fired>>
          /\ stage = "graph" /\ UNCHANGED <<stage, broken>>
      BY <2>1 DEF RankSignals, Running, graphVars, orderVars
    <3>2. QED
      BY <1>1, <1>2, <2>1, <3>1, RankTyped, OrdersAside DEF Stands
  <2>2. CASE \E a \in Analysts : AnalystDone(a)
    BY <1>6, <2>2 DEF AnalystDone, Nodes, Analysts, callVars
  <2>3. QED
    BY <1>8, <2>1, <2>2
<1>9. CASE PortfolioDecision
  BY <1>1, <1>9, DecisionBooked
<1>10. ASSUME NEW a \in Analysts, NEW s \in Symbols,
              CapReached(a, s) \/ Call(a, s) \/ CallReturns(a, s) \/ CallFails(a, s)
       PROVE  Booked'
  <2>1. ASSUME NEW signal \in [score : Nat, conf : Nat], Answered(a, s, signal),
               UNCHANGED <<stage, before, orderVars, fired>>
        PROVE  Booked'
    <3>1. Answered1To10'
      BY <1>1, <2>1, AnswerTyped
    <3>2. QED
      BY <1>1, <2>1, <3>1, OrdersAside DEF Stands, orderVars
  <2>2. Neutral \in [score : Nat, conf : Nat] /\ Answers \subseteq [score : Nat, conf : Nat]
    <3>1. [score : 1 .. 10, conf : 1 .. 10] \subseteq [score : Nat, conf : Nat]
      OBVIOUS
    <3>2. QED
      BY <3>1, EquitiesPipelineAssumption DEF Neutral
  <2>3. CASE Call(a, s)
    BY <1>4, <2>3 DEF Call, Turn, Running, graphVars, orderVars
  <2>4. CASE CapReached(a, s)
    BY <2>1, <2>2, <2>4 DEF CapReached, graphVars
  <2>5. CASE CallReturns(a, s)
    BY <2>1, <2>2, <2>5 DEF CallReturns, graphVars
  <2>6. CASE CallFails(a, s)
    BY <2>1, <2>2, <2>6 DEF CallFails, graphVars
  <2>7. QED
    BY <1>10, <2>3, <2>4, <2>5, <2>6
<1>11. CASE NoInstrument \/ RejectOverdraft \/ RejectOther \/ RaisesForGood \/ Breaks \/ SubmitToBroken
  <2>1. /\ Submitting /\ retrying' = FALSE /\ UNCHANGED <<stage, before, plan, book, fired, answer>>
        /\ rows' \in {rows, Row("rejected"), Row("pending"), Row("unapplied")}
        /\ results' = Append(results, "none") \/ results' = Append(results, "rejected")
    BY <1>11 DEF NoInstrument, Accepted, RejectOverdraft, RejectOther, RaisesForGood, Breaks,
         SubmitToBroken, Settled, RaisePoints, graphVars, callVars
  <2>2. QED
    BY <1>1, <2>1, UnfilledBooked
<1>12. CASE RaisesOnce
  <2>1. /\ Submitting /\ retrying' = TRUE /\ UNCHANGED <<stage, before, plan, book, fired, answer>>
        /\ rows' \in {rows, Row("rejected"), Row("pending"), Row("unapplied")}
        /\ results' = results
    BY <1>12 DEF RaisesOnce, Accepted, RaisePoints, graphVars, callVars
  <2>2. QED
    BY <1>1, <2>1, UnfilledBooked
<1>13. CASE Fill
  BY <1>1, <1>13, FillBooked
<1>14. CASE CloseTransaction
  <2>1. CASE ~broken
    BY <1>4, <1>14, <2>1 DEF CloseTransaction, graphVars, callVars
  <2>2. CASE broken
    BY <1>1, <1>14, <2>2, RolledBackBooked
  <2>3. QED
    BY <2>1, <2>2
<1>15. QED
  BY <1>1, <1>5, <1>7, <1>8, <1>9, <1>10, <1>11, <1>12, <1>13, <1>14 DEF Next

(* A run that is done has traded, and its account of that stands. *)
LEMMA NextAccounted == IInv /\ Accounted /\ [Next]_vars => Accounted'
<1>1. SUFFICES ASSUME IInv, Accounted, [Next]_vars PROVE Accounted'
  OBVIOUS
<1>2. CASE stage \in {"read", "upsert"}
  <2>1. stage' \in {"read", "upsert", "failed", "graph"} /\ (stage' = "graph" => active' # {})
    BY <1>1, <1>2 DEF Next, ReadPortfolio, ReadFails, UpsertInstruments, UpsertFails, WeightsFail,
      StartGraph, NextStep, FetchUniverse, ScreenStocks, PrefetchNews, NodeRaises, RankSignals,
      AnalystDone, CapReached, Call, CallReturns, CallFails, PortfolioDecision, NoInstrument, Fill,
      RejectOverdraft, RejectOther, RaisesOnce, RaisesForGood, Breaks, SubmitToBroken, Settled, Accepted,
      Submitting, Running, ExecuteDone, FinishRun, RecordFails, Report, CloseTransaction, Ended, Turn, vars
  <2>2. QED
    BY <2>1 DEF Accounted
<1>3. ASSUME UNCHANGED <<active, plan, results, endVars>>, stage' \in {stage, "failed"}
      PROVE  Accounted'
  BY <1>1, <1>3 DEF Accounted, endVars
<1>4. CASE ReadPortfolio \/ ReadFails \/ UpsertInstruments \/ UpsertFails \/ WeightsFail
  BY <1>2, <1>4 DEF ReadPortfolio, ReadFails, UpsertInstruments, UpsertFails, WeightsFail
<1>5. CASE NextStep
  BY <1>5 DEF NextStep, Accounted
<1>6. CASE FetchUniverse \/ ScreenStocks \/ PrefetchNews \/ NodeRaises \/ ExecuteDone \/ Ended
           \/ UNCHANGED vars
  BY <1>3, <1>6 DEF FetchUniverse, ScreenStocks, PrefetchNews, NodeRaises, ExecuteDone, Ended, vars,
       graphVars, orderVars
<1>7. CASE \E a \in Analysts : RankSignals(a) \/ AnalystDone(a)
  BY <1>3, <1>7 DEF RankSignals, AnalystDone, graphVars, orderVars
<1>8. CASE \E a \in Analysts : \E s \in Symbols :
             CapReached(a, s) \/ Call(a, s) \/ CallReturns(a, s) \/ CallFails(a, s)
  BY <1>3, <1>8 DEF CapReached, Call, CallReturns, CallFails, graphVars, orderVars
<1>9. CASE PortfolioDecision \/ NoInstrument \/ Fill \/ RejectOverdraft \/ RejectOther \/ RaisesOnce
           \/ RaisesForGood \/ Breaks \/ SubmitToBroken
  <2>1. stage = "graph" /\ stage' = "graph" /\ active # {} /\ active' = active
    BY <1>9 DEF PortfolioDecision, NoInstrument, Fill, RejectOverdraft, RejectOther, RaisesOnce,
         RaisesForGood, Breaks, SubmitToBroken, Settled, Accepted, Submitting, Running, graphVars
  <2>2. QED
    BY <2>1 DEF Accounted
<1>10. CASE FinishRun \/ RecordFails
  <2>1. /\ stage = "graph" /\ finished = active /\ Triggered(active) = {} /\ stage' = "done"
        /\ flow' = OrderFlow(plan.orders, results, plan.skips) /\ alerts' = FlowAlerts(flow')
        /\ UNCHANGED <<active, plan, results>>
    BY <1>10 DEF FinishRun, RecordFails, Report, graphVars
  <2>2. active # {}
    BY <1>1, <2>1 DEF Accounted
  <2>3. active = Trading
    BY <1>1, <2>1, <2>2, FollowsStep DEF IInv, Superstep, Early, Middle, Deciding, Trading
  <2>4. QED
    BY <2>1, <2>2, <2>3 DEF Accounted
<1>11. CASE CloseTransaction
  BY <1>1, <1>11 DEF CloseTransaction, Accounted, graphVars, endVars
<1>12. QED
  BY <1>1, <1>4, <1>5, <1>6, <1>7, <1>8, <1>9, <1>10, <1>11 DEF Next
-----------------------------------------------------------------------------
(* What a finished run reports *)

(* The orders that ended in a given way. *)
OfKind(kind) == {i \in DOMAIN plan.orders : KindOf(results, i) = kind}

(* Results are of orders. *)
LEMMA OrdersCounted ==
    ASSUME Booked
    PROVE  /\ \E n \in Nat : DOMAIN plan.orders = 1 .. n /\ Len(plan.orders) = n
           /\ DOMAIN results \subseteq DOMAIN plan.orders
<1>1. PICK n \in Nat : DOMAIN plan.orders = 1 .. n /\ Len(plan.orders) = n
  BY DEF Booked, OrdersSound
<1>2. PICK m \in Nat : DOMAIN results = 1 .. m /\ m <= n
  BY <1>1 DEF Booked, ResultsSound
<1>3. QED
  BY <1>1, <1>2

(* Sets with nothing in common add up. *)
LEMMA DisjointCounts ==
    ASSUME NEW S, IsFiniteSet(S), NEW T, IsFiniteSet(T), S \cap T = {}
    PROVE  IsFiniteSet(S \cup T) /\ Cardinality(S \cup T) = Cardinality(S) + Cardinality(T)
<1>1. Cardinality(S \cap T) = 0
  BY FS_EmptySet
<1>2. PICK m \in Nat, n \in Nat : m = Cardinality(S) /\ n = Cardinality(T)
  BY FS_CardinalityType
<1>3. IsFiniteSet(S \cup T)
      /\ Cardinality(S \cup T) = Cardinality(S) + Cardinality(T) - Cardinality(S \cap T)
  BY FS_Union
<1>4. Cardinality(S \cup T) = m + n - 0
  BY <1>1, <1>2, <1>3
<1>5. QED
  BY <1>2, <1>3, <1>4

(* An order ends in exactly one of three ways. *)
LEMMA KindsPartition ==
    ASSUME Booked
    PROVE  /\ \A kind : IsFiniteSet(OfKind(kind)) /\ Cardinality(OfKind(kind)) \in Nat
           /\ DOMAIN plan.orders = OfKind("filled") \cup OfKind("rejected") \cup OfKind("dropped")
           /\ Len(plan.orders) = Cardinality(OfKind("filled")) + Cardinality(OfKind("rejected"))
                                  + Cardinality(OfKind("dropped"))
<1>1. PICK n \in Nat : DOMAIN plan.orders = 1 .. n /\ Len(plan.orders) = n
  BY OrdersCounted
<1>2. IsFiniteSet(DOMAIN plan.orders) /\ Cardinality(DOMAIN plan.orders) = n
  BY <1>1, FS_Interval
<1>3. ASSUME NEW kind PROVE IsFiniteSet(OfKind(kind)) /\ Cardinality(OfKind(kind)) \in Nat
  <2>1. OfKind(kind) \subseteq DOMAIN plan.orders
    BY DEF OfKind
  <2>2. QED
    BY <1>2, <2>1, FS_Subset, FS_CardinalityType
<1>4. PICK F, R, D : F = OfKind("filled") /\ R = OfKind("rejected") /\ D = OfKind("dropped")
  OBVIOUS
<1>5. DOMAIN plan.orders = F \cup R \cup D
  BY <1>4 DEF OfKind, KindOf
<1>6. F \cap R = {} /\ (F \cup R) \cap D = {}
  BY <1>4 DEF OfKind
<1>7. IsFiniteSet(F) /\ IsFiniteSet(R) /\ IsFiniteSet(D)
  BY <1>3, <1>4
<1>8. IsFiniteSet(F \cup R) /\ Cardinality(F \cup R) = Cardinality(F) + Cardinality(R)
  BY <1>6, <1>7, DisjointCounts
<1>9. Cardinality((F \cup R) \cup D) = Cardinality(F \cup R) + Cardinality(D)
  BY <1>6, <1>7, <1>8, DisjointCounts
<1>10. QED
  BY <1>1, <1>2, <1>3, <1>4, <1>5, <1>8, <1>9

(* The flow of a finished run, by field. *)
LEMMA FlowOfRun ==
    ASSUME Booked, Accounted, stage = "closed"
    PROVE  /\ flow.generated = Len(plan.orders)
           /\ flow.filled = Cardinality(OfKind("filled"))
           /\ flow.rejected = Cardinality(OfKind("rejected"))
           /\ flow.dropped = Cardinality(OfKind("dropped"))
           /\ flow.rejections = {[sym |-> plan.orders[i].sym, side |-> plan.orders[i].side,
                                  kind |-> KindOf(results, i)] :
                                    i \in OfKind("rejected") \cup OfKind("dropped")}
           /\ flow.skips = plan.skips
  BY DEF Accounted, OrderFlow, OfKind

(* An order that was not filled is among the rejections of the flow. *)
LEMMA RejectionListed ==
    ASSUME Booked, Accounted, stage = "closed"
    PROVE  /\ \A i \in OfKind("rejected") \cup OfKind("dropped") :
                \E r \in flow.rejections : /\ r.sym = plan.orders[i].sym
                                            /\ r.side = plan.orders[i].side
                                            /\ r.kind = KindOf(results, i)
           /\ \A r \in flow.rejections :
                \E i \in OfKind("rejected") \cup OfKind("dropped") : r.sym = plan.orders[i].sym
<1>1. PICK rejections : rejections = flow.rejections
  OBVIOUS
<1>2. rejections = {[sym |-> plan.orders[i].sym, side |-> plan.orders[i].side,
                     kind |-> KindOf(results, i)] :
                       i \in OfKind("rejected") \cup OfKind("dropped")}
  BY <1>1, FlowOfRun
<1>3. ASSUME NEW i \in OfKind("rejected") \cup OfKind("dropped")
      PROVE  \E r \in rejections : /\ r.sym = plan.orders[i].sym
                                    /\ r.side = plan.orders[i].side
                                    /\ r.kind = KindOf(results, i)
  <2>1. PICK r : r = [sym |-> plan.orders[i].sym, side |-> plan.orders[i].side,
                      kind |-> KindOf(results, i)]
    OBVIOUS
  <2>2. r \in rejections
    BY <1>2, <1>3, <2>1
  <2>3. r.sym = plan.orders[i].sym /\ r.side = plan.orders[i].side /\ r.kind = KindOf(results, i)
    BY <2>1
  <2>4. QED
    BY <2>2, <2>3
<1>4. ASSUME NEW r \in rejections
      PROVE  \E i \in OfKind("rejected") \cup OfKind("dropped") : r.sym = plan.orders[i].sym
  <2>1. PICK i \in OfKind("rejected") \cup OfKind("dropped") :
          r = [sym |-> plan.orders[i].sym, side |-> plan.orders[i].side, kind |-> KindOf(results, i)]
    BY <1>2, <1>4
  <2>2. r.sym = plan.orders[i].sym
    BY <2>1
  <2>3. QED
    BY <2>2
<1>5. QED
  BY <1>1, <1>3, <1>4

(* For any stocks, prices, answers and book, and whichever submissions     *)
(* raise, are repeated or rejected and wherever the transaction dies, the  *)
(* flow counts every order once, the fills that are kept account for every *)
(* change of a position, and they are all it counts as filled unless the   *)
(* transaction died (order_flow.py, service.py from the graph to the       *)
(* recorded flow, weekly_runner.py around it).                             *)
THEOREM FlowAlwaysReconciles == Spec => []FlowReconciles
<1>1. ASSUME IInv, Booked, Accounted PROVE FlowReconciles
  <2>1. SUFFICES ASSUME stage = "closed"
                 PROVE  /\ flow.generated = flow.filled + flow.rejected + flow.dropped
                        /\ {r.sym : r \in flow.rejections} \cup {plan.orders[i].sym : i \in
                              {j \in DOMAIN results : results[j] = "filled"}}
                              = {plan.orders[i].sym : i \in DOMAIN plan.orders}
                        /\ \A s \in Symbols : book.held[s] - before.held[s] = MovedBy(s, "filled")
                        /\ ~broken => \A k \in DOMAIN results : results[k] = "filled" =>
                             \E i \in DOMAIN rows : rows[i].order = k /\ rows[i].status = "filled"
                        /\ book.cash >= 0
    BY DEF FlowReconciles
  <2>2. flow.generated = flow.filled + flow.rejected + flow.dropped
    BY <1>1, <2>1, FlowOfRun, KindsPartition
  <2>3. {r.sym : r \in flow.rejections}
          = {plan.orders[i].sym : i \in OfKind("rejected") \cup OfKind("dropped")}
    BY <1>1, <2>1, RejectionListed
  <2>4. {j \in DOMAIN results : results[j] = "filled"} = OfKind("filled")
    BY <1>1, OrdersCounted DEF OfKind, KindOf
  <2>5. {r.sym : r \in flow.rejections} \cup {plan.orders[i].sym : i \in OfKind("filled")}
          = {plan.orders[i].sym : i \in DOMAIN plan.orders}
    BY <1>1, <2>3, KindsPartition
  <2>6. book.cash >= 0 /\ \A s \in Symbols : book.held[s] - before.held[s] = MovedBy(s, "filled")
    BY <1>1 DEF Booked, BookSound, Explained
  <2>7. ~broken => \A k \in DOMAIN results : results[k] = "filled" =>
          \E i \in DOMAIN rows : rows[i].order = k /\ rows[i].status = "filled"
    BY <1>1 DEF Booked, Recorded, Stands
  <2>8. QED
    BY <2>2, <2>4, <2>5, <2>6, <2>7
<1>2. QED
  BY InitIInv, NextIInv, InitCounted, NextCounted, InitBooked, NextBooked, NextAccounted, <1>1,
     PTL DEF Spec

(* For any stocks, prices, answers and book, and whichever submissions     *)
(* raise, are repeated or rejected and wherever the transaction dies, a    *)
(* position whose name is no longer wanted is sold down to less than a     *)
(* share, or an alert of the run names it, or its sale had been filled and *)
(* was undone with the transaction (portfolio_manager.py, the exits of the *)
(* diff; risk_checks.py).                                                  *)
THEOREM StuckExitsAlwaysReported == Spec => []StuckExitReported
<1>1. ASSUME IInv, Booked, Accounted PROVE StuckExitReported
  <2>1. SUFFICES ASSUME stage = "closed", NEW s \in Symbols \ DOMAIN plan.targets
                 PROVE  \/ book.held[s] < Share
                        \/ \E alert \in alerts : s \in alert.names
                        \/ Undone(s)
    BY DEF StuckExitReported
  <2>2. ExitsSound(plan) /\ alerts = FlowAlerts(flow)
    BY <1>1, <2>1 DEF IInv, Firings, Booked, Accounted
  <2>3. PICK b : b = before.held[s] /\ b \in Nat
    BY <1>1, EquitiesPipelineAssumption DEF Booked, ReadSound
  <2>4. CASE b = 0
    <3>1. ASSUME NEW k \in FilledFor(s) PROVE FALSE
      <4>1. k \in DOMAIN plan.orders /\ plan.orders[k].sym = s
        BY <1>1, OrdersCounted DEF FilledFor
      <4>2. before.held[s] > 0
        BY <2>1, <2>2, <4>1 DEF ExitsSound
      <4>3. QED
        BY <2>3, <2>4, <4>2
    <3>2. book.held[s] = 0
      BY <1>1, <2>3, <2>4, <3>1 DEF Booked, BookSound
    <3>3. QED
      BY <3>2, EquitiesPipelineAssumption
  <2>5. CASE b > 0
    <3>1. Exits(plan.orders, plan.skips, before.held, s)
      BY <2>2, <2>3, <2>5 DEF ExitsSound
    <3>2. CASE Skip(s, "unpriced", TRUE) \in plan.skips
      <4>1. PICK k \in flow.skips : k.sym = s /\ k.reason = "unpriced" /\ k.exit
        BY <1>1, <2>1, <3>2, FlowOfRun DEF Skip
      <4>2. PICK names : names = {q.sym : q \in {r \in flow.skips : r.reason = "unpriced" /\ r.exit}}
        OBVIOUS
      <4>3. s \in names /\ {q.sym : q \in {r \in flow.skips : r.reason = "unpriced"}} # {}
        BY <4>1, <4>2
      <4>4. Alert("warning", "orders_skipped_unpriced", names) \subseteq FlowAlerts(flow)
        BY <4>2, <4>3 DEF FlowAlerts
      <4>5. QED
        BY <2>2, <4>3, <4>4 DEF Alert
    <3>3. ASSUME NEW i \in DOMAIN plan.orders, plan.orders[i] = Order(s, "sell", before.held[s])
          PROVE  book.held[s] < Share \/ (\E alert \in alerts : s \in alert.names) \/ Undone(s)
      <4>1. plan.orders[i].sym = s /\ plan.orders[i].side = "sell"
        BY <3>3 DEF Order
      <4>2. CASE i \in OfKind("filled")
        <5>1. i \in FilledFor(s)
          BY <4>1, <4>2 DEF OfKind, KindOf, FilledFor
        <5>2. CASE broken
          BY <5>1, <5>2 DEF Undone, FilledFor
        <5>3. CASE ~broken
          BY <1>1, <3>3, <5>1, <5>3 DEF Booked, BookSound, Stands
        <5>4. QED
          BY <5>2, <5>3
      <4>3. CASE i \in OfKind("rejected")
        <5>1. PICK r \in flow.rejections : r.sym = s /\ r.side = "sell" /\ r.kind = "rejected"
          BY <1>1, <2>1, <4>1, <4>3, RejectionListed DEF OfKind
        <5>2. PICK names : names = {q.sym : q \in {p \in flow.rejections : p.kind = "rejected" /\ p.side = "sell"}}
          OBVIOUS
        <5>3. s \in names
          BY <5>1, <5>2
        <5>4. Alert("critical", "orders_rejected_sells", names) \subseteq FlowAlerts(flow)
          BY <5>2, <5>3 DEF FlowAlerts
        <5>5. QED
          BY <2>2, <5>3, <5>4 DEF Alert
      <4>4. CASE i \in OfKind("dropped")
        <5>1. PICK r \in flow.rejections : r.sym = s /\ r.kind = "dropped"
          BY <1>1, <2>1, <4>1, <4>4, RejectionListed DEF OfKind
        <5>2. PICK names : names = {q.sym : q \in {p \in flow.rejections : p.kind = "dropped"}}
          OBVIOUS
        <5>3. s \in names
          BY <5>1, <5>2
        <5>4. flow.dropped > 0
          <6>1. IsFiniteSet(OfKind("dropped")) /\ Cardinality(OfKind("dropped")) \in Nat
            BY <1>1, KindsPartition
          <6>2. Cardinality(OfKind("dropped")) # 0
            BY <4>4, <6>1, FS_EmptySet
          <6>3. QED
            BY <1>1, <2>1, <6>1, <6>2, FlowOfRun
        <5>5. Alert("critical", "orders_lost", names) \subseteq FlowAlerts(flow)
          BY <5>2, <5>4 DEF FlowAlerts
        <5>6. QED
          BY <2>2, <5>3, <5>5 DEF Alert
      <4>5. QED
        BY <1>1, <4>2, <4>3, <4>4, KindsPartition
    <3>4. QED
      BY <3>1, <3>2, <3>3 DEF Exits
  <2>6. QED
    BY <2>3, <2>4, <2>5
<1>2. QED
  BY InitIInv, NextIInv, InitCounted, NextCounted, InitBooked, NextBooked, NextAccounted, <1>1,
     PTL DEF Spec
=============================================================================
