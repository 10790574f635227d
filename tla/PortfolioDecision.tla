--------------------------- MODULE PortfolioDecision ---------------------------
(***************************************************************************)
(* From analyst signals to orders: the deterministic portfolio manager     *)
(* (app/modules/equities/agents/portfolio_manager.py), the accounting of   *)
(* what became of its orders (order_flow.py) and the checks on the result  *)
(* (risk_checks.py).                                                       *)
(*                                                                         *)
(* Scores and confidences are integers from 1 to 10, the weights of the    *)
(* analysts are tenths, so a composite score or confidence counts tenths   *)
(* and a conviction hundredths.  Portfolio weights are basis points, and   *)
(* where the code divides floats a quotient is rounded down to one.  A     *)
(* symbol is a number; the alphabetical order of the code is its order.    *)
(*                                                                         *)
(* An operator named Bug_X is a wrong variant of X that no definition      *)
(* uses: a mistake that one of the properties has to catch.                *)
(***************************************************************************)
EXTENDS Integers, Sequences, FiniteSets, FiniteSetsExt, SequencesExt

CONSTANTS
    TargetHoldings, MaxHoldings,   \* PortfolioConfig.target_holdings, max_holdings
    MinScore, ExitScore,           \* min_composite_score, exit_score_threshold, in tenths
    PositionCap,                   \* max_position_weight
    MinTrade, MinEntry,            \* min_rebalance_threshold, min_entry_weight
    CashBuffer                     \* cash_buffer_pct

Unit == 10000     \* a weight of one

ASSUME PortfolioDecisionAssumption ==
    /\ TargetHoldings \in Nat /\ MaxHoldings \in Nat
    /\ MinScore \in Nat /\ ExitScore \in Nat
    /\ PositionCap \in 1 .. Unit
    /\ MinTrade \in Nat /\ MinEntry \in Nat
    /\ CashBuffer \in 0 .. Unit

(* A set as a sequence in the order "before": the i-th element is the one *)
(* with i - 1 elements before it. *)
Sorted(S, before(_, _)) ==
    [i \in 1 .. Cardinality(S) |-> CHOOSE x \in S : Cardinality({y \in S : before(y, x)}) = i - 1]

Analysts == {"fundamentals", "news", "technical"}
StaticWeight == [fundamentals |-> 6, news |-> 2, technical |-> 2]

-----------------------------------------------------------------------------
(* compute_composite_scores: the last signal of each analyst counts, and an *)
(* analyst without one contributes nothing. *)

LastSignal(signals, s, a) ==
    LET mine == {i \in DOMAIN signals : signals[i].sym = s /\ signals[i].analyst = a}
    IN  IF mine = {} THEN [score |-> 0, conf |-> 0] ELSE signals[Max(mine)]

Composite(signals, s, weight) ==
    LET score == SumFunction([a \in Analysts |-> weight[a] * LastSignal(signals, s, a).score])
        conf  == SumFunction([a \in Analysts |-> weight[a] * LastSignal(signals, s, a).conf])
    IN  [score |-> score, conf |-> conf, conviction |-> score * conf]

Composites(signals, weight) ==
    [s \in {signals[i].sym : i \in DOMAIN signals} |-> Composite(signals, s, weight)]

-----------------------------------------------------------------------------
(* select_stocks: the best by conviction, and held names near the boundary. *)
(* The sort is stable over scores, whose order is that of the symbols. *)

Eligible(scores) == {s \in DOMAIN scores : scores[s].score >= MinScore}

Rank(scores, s) ==
    Cardinality({t \in Eligible(scores) \ {s} :
        \/ scores[t].conviction > scores[s].conviction
        \/ scores[t].conviction = scores[s].conviction /\ t < s})

Bug_Selected(scores, held) ==
    {s \in Eligible(scores) :
        \/ Rank(scores, s) < TargetHoldings
        \/ s \in held /\ scores[s].score >= ExitScore}

Selected(scores, held) ==
    {s \in Eligible(scores) :
        \/ Rank(scores, s) < Min({TargetHoldings, MaxHoldings})
        \/ s \in held /\ scores[s].score >= ExitScore /\ Rank(scores, s) < MaxHoldings}

-----------------------------------------------------------------------------
(* size_positions: conviction shares, with what exceeds the cap shared out *)
(* over the names below it, at most ten times, and the buffer taken off. *)

(* One round.  The shares are proportional to the weights of all names not *)
(* above the cap, those that are exactly at it included. *)
ShareExcess(w, cap) ==
    LET over   == {s \in DOMAIN w : w[s] > cap}
        excess == SumFunction([s \in over |-> w[s] - cap])
        room   == SumFunctionOnSet(w, DOMAIN w \ over)
    IN  [s \in DOMAIN w |->
            IF s \in over THEN cap
            ELSE IF w[s] < cap /\ room > 0 THEN w[s] + (excess * w[s]) \div room
            ELSE w[s]]

Capped(w, cap) ==
    LET round[n \in 0 .. 10] ==
            IF n = 0 THEN w
            ELSE LET last == round[n - 1]
                 IN  IF \E s \in DOMAIN w : last[s] > cap THEN ShareExcess(last, cap) ELSE last
    IN  round[10]

SizePositions(scores, chosen) ==
    LET total == SumFunction([s \in chosen |-> scores[s].conviction])
        raw   == [s \in chosen |-> IF total = 0
                                   THEN Min({Unit \div Cardinality(chosen), PositionCap})
                                   ELSE (scores[s].conviction * Unit) \div total]
        w     == IF total = 0 THEN raw ELSE Capped(raw, PositionCap)
    IN  [s \in chosen |-> (w[s] * (Unit - CashBuffer)) \div Unit]

-----------------------------------------------------------------------------
(* generate_orders_with_skips.  weights and held are those of the positions *)
(* read at the start of the run; a symbol that is in neither map counts     *)
(* zero.  prices has a positive price or 0, for None or unusable.           *)

At(f, s) == IF s \in DOMAIN f THEN f[s] ELSE 0
Magnitude(x) == IF x < 0 THEN -x ELSE x

Order(s, side, qty) == [sym |-> s, side |-> side, qty |-> qty]
Skip(s, reason, exit) == [sym |-> s, reason |-> reason, exit |-> exit]
Plan(orders, skips) == [orders |-> orders, skips |-> skips]

(* What the diff of one symbol gives: an order, a skip, or nothing. *)
PlanFor(s, target, weights, held, nav, prices) ==
    LET want  == At(target, s)
        have  == At(weights, s)
        delta == want - have
        qty   == (Magnitude(delta) * nav) \div (Unit * prices[s])
    IN  IF want = 0 /\ have > 0 /\ At(held, s) > 0
        THEN IF prices[s] = 0 THEN Plan({}, {Skip(s, "unpriced", TRUE)})
             ELSE Plan({Order(s, "sell", held[s])}, {})
        ELSE IF Magnitude(delta) < (IF have = 0 THEN MinEntry ELSE MinTrade)
        THEN Plan({}, IF have = 0 /\ want > 0
                      THEN {Skip(s, "below_entry_threshold", FALSE)} ELSE {})
        ELSE IF prices[s] = 0
        THEN Plan({}, {Skip(s, "unpriced", want = 0 /\ have > 0)})
        ELSE IF qty = 0 THEN Plan({}, {})
        ELSE Plan({Order(s, IF delta > 0 THEN "buy" ELSE "sell", qty)}, {})

(* Sells first, so that their proceeds fund the buys. *)
Before(o, p) == IF o.side = p.side THEN o.sym < p.sym ELSE o.side = "sell"

Bug_GenerateOrders(target, weights, held, nav, prices) ==
    LET names == DOMAIN target
        plans == {PlanFor(s, target, weights, held, nav, prices) : s \in names}
    IN  Plan(Sorted(UNION {p.orders : p \in plans}, Before),
             UNION {p.skips : p \in plans})

GenerateOrders(target, weights, held, nav, prices) ==
    LET names == DOMAIN target \cup DOMAIN weights
        plans == {PlanFor(s, target, weights, held, nav, prices) : s \in names}
    IN  Plan(Sorted(UNION {p.orders : p \in plans}, Before),
             UNION {p.skips : p \in plans})

-----------------------------------------------------------------------------
(* build_order_flow: results[i] is what became of orders[i]; "none" stands  *)
(* for None, which is also what an order without a result counts as.        *)

KindOf(results, i) ==
    IF i \notin DOMAIN results \/ results[i] = "none" THEN "dropped"
    ELSE IF results[i] = "filled" THEN "filled" ELSE "rejected"

OrderFlow(orders, results, skips) ==
    LET of(kind) == {i \in DOMAIN orders : KindOf(results, i) = kind}
    IN  [generated |-> Len(orders), filled |-> Cardinality(of("filled")),
         rejected |-> Cardinality(of("rejected")), dropped |-> Cardinality(of("dropped")),
         rejections |-> {[sym |-> orders[i].sym, side |-> orders[i].side, kind |-> KindOf(results, i)] :
                            i \in of("rejected") \cup of("dropped")},
         skips |-> skips]

-----------------------------------------------------------------------------
(* evaluate_post_run_invariants: [level, metric, names], where names are    *)
(* the symbols the message lists.                                           *)

CashWarn        == 300     \* CASH_PCT_WARN
WeightTolerance == 50      \* POSITION_WEIGHT_TOLERANCE

Alert(level, metric, names) == {[level |-> level, metric |-> metric, names |-> names]}

BookAlerts(cash, nav, weights) ==
    (IF cash < 0 THEN Alert("critical", "cash", {}) ELSE {})
    \cup (IF nav > 0 /\ cash * Unit > CashWarn * nav THEN Alert("warning", "cash_pct", {}) ELSE {})
    \cup UNION {Alert("critical", "position_weight", {s}) :
                  s \in {t \in DOMAIN weights : weights[t] > PositionCap + WeightTolerance}}

FlowAlerts(flow) ==
    LET lost     == {r.sym : r \in {q \in flow.rejections : q.kind = "dropped"}}
        no(side) == {r.sym : r \in {q \in flow.rejections : q.kind = "rejected" /\ q.side = side}}
        unpriced == {k.sym : k \in {q \in flow.skips : q.reason = "unpriced"}}
        stuck    == {k.sym : k \in {q \in flow.skips : q.reason = "unpriced" /\ q.exit}}
    IN  (IF flow.dropped > 0 THEN Alert("critical", "orders_lost", lost) ELSE {})
        \cup (IF no("sell") # {} THEN Alert("critical", "orders_rejected_sells", no("sell")) ELSE {})
        \cup (IF no("buy") # {} THEN Alert("warning", "orders_rejected", no("buy")) ELSE {})
        \cup (IF unpriced # {} THEN Alert("warning", "orders_skipped_unpriced", stuck) ELSE {})
=============================================================================
