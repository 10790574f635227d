------------------------------- MODULE Portfolio -------------------------------
(***************************************************************************)
(* The bookkeeping of one branch portfolio: the pure part of               *)
(* app/modules/portfolio (service.py, repository.py), of the paper broker  *)
(* and of the validation in app/modules/trade_execution/service.py.        *)
(*                                                                         *)
(* A book is the portfolio row together with its position rows.  Money and *)
(* quantities are integers: a quantity counts fine units, Share of which   *)
(* make one share, and Tol of which are FULL_EXIT_QTY_TOLERANCE; a price   *)
(* is the price of one fine unit.  The code computes with floats that the  *)
(* database rounds to NUMERIC(18,2) and NUMERIC(18,8); the only division,  *)
(* the average-cost share of a partial close, is rounded here to a whole   *)
(* unit and, as in the code, the same rounded value is used for the        *)
(* realized P&L and for the remaining basis.                               *)
(*                                                                         *)
(* An operator named Bug_X is a wrong variant of X that no definition      *)
(* uses: a mistake that one of the properties has to catch.                *)
(***************************************************************************)
EXTENDS Integers, FiniteSetsExt

CONSTANTS
    Symbols,      \* instruments; one instruments row per symbol
    Share,        \* fine units in one share
    Tol,          \* FULL_EXIT_QTY_TOLERANCE, in fine units
    Slip,         \* the paper broker's slippage per unit
    Commission,   \* commission_per_trade
    MarginReq     \* margin_requirement of the branch, in whole units of notional

ASSUME PortfolioAssumption ==
    /\ IsFiniteSet(Symbols)
    /\ Share \in Nat \ {0}
    /\ Tol \in Nat
    /\ Tol < Share
    /\ Slip \in Nat
    /\ Commission \in Nat
    /\ MarginReq \in Nat

BuySides  == {"BUY", "COVER"}
SellSides == {"SELL", "SHORT"}
Sides     == BuySides \cup SellSides
NoLimit   == 0   \* limit_price None
NoPrice   == 0   \* None; a price is taken to be positive, which the code does not check

(* A position row that only positive quantities were traded into; a symbol *)
(* without a row reads as Flat. *)
Position == [lq : Nat, lc : Nat, sq : Nat, sc : Int, sm : Int, rl : Int, rs : Int]
Flat     == [lq |-> 0, lc |-> 0, sq |-> 0, sc |-> 0, sm |-> 0, rl |-> 0, rs |-> 0]

NoBook == [open |-> FALSE]
Book   == [open : {TRUE}, cash : Int, nav : Int, long : Int, short : Int, margin : Int,
           unreal : Int, real : Int, rows : SUBSET Symbols, pos : [Symbols -> Position]]
Opened(initial) ==
    [open |-> TRUE, cash |-> initial, nav |-> initial, long |-> 0, short |-> 0,
     margin |-> 0, unreal |-> 0, real |-> 0,
     rows |-> {}, pos |-> [s \in Symbols |-> Flat]]

LongCosts(b)    == [s \in Symbols |-> b.pos[s].lc]
ShortCosts(b)   == [s \in Symbols |-> b.pos[s].sc]
ShortMargins(b) == [s \in Symbols |-> b.pos[s].sm]
LongCost(b)     == SumFunction(LongCosts(b))
ShortCost(b)    == SumFunction(ShortCosts(b))

-----------------------------------------------------------------------------
(* Validation, the clamp of a near-full sell, and the paper broker. *)

Abs(x) == IF x < 0 THEN -x ELSE x

(* A request is a record [sym, side, qty, limit].  Nothing here, in the *)
(* request's type or in the database asks that the quantity be positive. *)
Valid(b, r) ==
    /\ b.open
    /\ r.side = "SELL"  => r.sym \in b.rows /\ r.qty <= b.pos[r.sym].lq + Tol
    /\ r.side = "COVER" => r.sym \in b.rows /\ r.qty <= b.pos[r.sym].sq

NearFullSell(b, r) ==
    /\ r.side = "SELL"
    /\ b.pos[r.sym].lq > 0
    /\ Abs(r.qty - b.pos[r.sym].lq) <= Tol

Bug_Clamp(b, r) == r
Clamp(b, r) == IF NearFullSell(b, r) THEN [r EXCEPT !.qty = b.pos[r.sym].lq] ELSE r

BrokerFills(r, price) ==
    /\ price # NoPrice
    /\ r.limit # NoLimit => IF r.side \in BuySides THEN price <= r.limit
                                                  ELSE price >= r.limit

FillPrice(r, price) ==
    LET bought == price + Slip
        sold   == price - Slip
    IN  IF r.side \in BuySides
        THEN IF r.limit # NoLimit /\ bought > r.limit THEN r.limit ELSE bought
        ELSE IF r.limit # NoLimit /\ sold < r.limit THEN r.limit ELSE sold

TradeOf(r, price) == [sym |-> r.sym, side |-> r.side, qty |-> r.qty, price |-> FillPrice(r, price)]

Cost(t)     == t.price * t.qty + Commission
Proceeds(t) == t.price * t.qty - Commission

Bug_CashCovers(b, t) == t.side = "BUY" => (t.price - Slip) * t.qty <= b.cash
CashCovers(b, t) == t.side = "BUY" => Cost(t) <= b.cash

-----------------------------------------------------------------------------
(* handle_trade_executed *)

(* The part of `total`, held for `held` units, that belongs to `qty` of them. *)
(* The code takes an average of nothing to be zero. *)
Bug_ShareOf(total, qty, held) == total * qty
ShareOf(total, qty, held) == IF held > 0 THEN (total * qty) \div held ELSE 0

(* The guards that make handle_trade_executed raise ValueError. *)
Appliable(p, t) ==
    /\ t.side = "SELL"  => t.qty <= p.lq
    /\ t.side = "COVER" => t.qty <= p.sq

Bug_RealizedBy(p, t) ==
    CASE t.side = "SELL"  -> Proceeds(t) - ShareOf(p.lc, t.qty, p.lq)
      [] t.side = "COVER" -> ShareOf(p.sc, t.qty, p.sq) - Proceeds(t)
      [] OTHER            -> 0
RealizedBy(p, t) ==
    CASE t.side = "SELL"  -> Proceeds(t) - ShareOf(p.lc, t.qty, p.lq)
      [] t.side = "COVER" -> ShareOf(p.sc, t.qty, p.sq) - Cost(t)
      [] OTHER            -> 0

CashDelta(t) == IF t.side \in BuySides THEN -Cost(t) ELSE Proceeds(t)

Bug_PositionAfter(p, t) ==
    CASE t.side = "BUY"   -> [p EXCEPT !.lq = @ + t.qty, !.lc = @ + Cost(t)]
      [] t.side = "SELL"  -> [p EXCEPT !.lq = @ - t.qty,
                                       !.lc = @ - ShareOf(p.lc, t.qty, p.lq)]
      [] t.side = "SHORT" -> [p EXCEPT !.sq = @ + t.qty, !.sc = @ + Proceeds(t),
                                       !.sm = @ + t.price * t.qty * MarginReq]
      [] t.side = "COVER" -> [p EXCEPT !.sq = @ - t.qty,
                                       !.sc = @ - ShareOf(p.sc, t.qty, p.sq),
                                       !.sm = @ - t.price * t.qty * MarginReq]
PositionAfter(p, t) ==
    CASE t.side = "BUY"   -> [p EXCEPT !.lq = @ + t.qty, !.lc = @ + Cost(t)]
      [] t.side = "SELL"  -> [p EXCEPT !.lq = @ - t.qty,
                                       !.lc = @ - ShareOf(p.lc, t.qty, p.lq),
                                       !.rl = @ + RealizedBy(p, t)]
      [] t.side = "SHORT" -> [p EXCEPT !.sq = @ + t.qty, !.sc = @ + Proceeds(t),
                                       !.sm = @ + t.price * t.qty * MarginReq]
      [] t.side = "COVER" -> [p EXCEPT !.sq = @ - t.qty,
                                       !.sc = @ - ShareOf(p.sc, t.qty, p.sq),
                                       !.sm = @ - ShareOf(p.sm, t.qty, p.sq),
                                       !.rs = @ + RealizedBy(p, t)]

(* upsert followed by delete_if_flat *)
Bug_WithPosition(b, s, p) ==
    [b EXCEPT !.rows = @ \cup {s}, !.pos = [@ EXCEPT ![s] = p]]
Bug_WithPositionLong(b, s, p) ==
    IF p.lq = 0
    THEN [b EXCEPT !.rows = @ \ {s}, !.pos = [@ EXCEPT ![s] = Flat]]
    ELSE [b EXCEPT !.rows = @ \cup {s}, !.pos = [@ EXCEPT ![s] = p]]
WithPosition(b, s, p) ==
    IF p.lq = 0 /\ p.sq = 0
    THEN [b EXCEPT !.rows = @ \ {s}, !.pos = [@ EXCEPT ![s] = Flat]]
    ELSE [b EXCEPT !.rows = @ \cup {s}, !.pos = [@ EXCEPT ![s] = p]]

(* The portfolio row is rewritten with absolute values: cash and realized *)
(* from the row read earlier, the exposures from the rows as they are now. *)
Bug_WithTotals(b, cash, real) ==
    [b EXCEPT !.cash = cash, !.real = real,
              !.nav = cash + LongCost(b),
              !.long = LongCost(b), !.short = ShortCost(b),
              !.margin = SumFunction(ShortMargins(b))]
WithTotals(b, cash, real) ==
    [b EXCEPT !.cash = cash, !.real = real, !.unreal = 0,
              !.nav = cash + LongCost(b),
              !.long = LongCost(b), !.short = ShortCost(b),
              !.margin = SumFunction(ShortMargins(b))]

HandleTrade(b, t) ==
    WithTotals(WithPosition(b, t.sym, PositionAfter(b.pos[t.sym], t)),
               b.cash + CashDelta(t),
               b.real + RealizedBy(b.pos[t.sym], t))

-----------------------------------------------------------------------------
(* adjust_cash and mark_to_market *)

CanAdjust(b, amount) == b.open /\ b.cash + amount >= 0

Bug_Adjusted(b, cash) ==
    [b EXCEPT !.cash = cash, !.nav = cash + b.long - b.short + b.unreal]
Adjusted(b, cash) == [b EXCEPT !.cash = cash, !.nav = cash + b.long - b.short]

MarketValue(b, price, s) ==
    IF price[s] = NoPrice THEN b.pos[s].lc ELSE price[s] * b.pos[s].lq

(* Only long positions are repriced; an unpriced one is carried at cost. *)
Marked(b, price) ==
    LET held == {s \in b.rows : b.pos[s].lq > 0}
        mv   == SumFunctionOnSet([s \in Symbols |-> MarketValue(b, price, s)], held)
        cost == SumFunctionOnSet(LongCosts(b), held)
    IN  [b EXCEPT !.nav = b.cash + mv, !.long = mv, !.unreal = mv - cost]
=============================================================================
