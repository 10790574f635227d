------------------------------- MODULE TradeBook -------------------------------
(***************************************************************************)
(* Order execution against one branch's book, one database session at a    *)
(* time: app/modules/trade_execution/service.py (submit_order) on top of   *)
(* app/modules/portfolio/service.py, called from the two places that call  *)
(* it.                                                                     *)
(*                                                                         *)
(*  - An API request is one session: it commits when the handler returns   *)
(*    and rolls back when it raises (app/db/connection.py get_session).    *)
(*    trade_execution/api.py raises HTTPException for every order that was *)
(*    not filled.                                                          *)
(*  - A pipeline run is one session for all its orders (weekly_runner.py,  *)
(*    equities/service.py _execute_trade); a rejected order leaves the     *)
(*    session usable and the next order is submitted.                      *)
(*                                                                         *)
(* `work` is what the open session sees, `db` what is committed.  What two *)
(* sessions do to each other is the subject of LedgerSessions.             *)
(***************************************************************************)
EXTENDS Portfolio, Sequences

CONSTANTS
    Prices,        \* prices the data platform can return; NoPrice when it has none
    Qtys,          \* quantities an API order may ask for: any number, zero and below too
    Limits,        \* limit prices an order may carry; NoLimit is a market order
    OrderSides,    \* sides in use: {"BUY","SELL"} for the equities branches
    InitialCash,   \* initial_cash of create_portfolio
    CashMoves,     \* amounts of adjust_cash
    MaxOrders,     \* bound: order rows ever created
    MaxFunding     \* bound: total cash ever paid in

ASSUME TradeBookAssumption ==
    /\ Prices \subseteq Nat
    /\ \A p \in Prices \ {NoPrice} : p > Slip
    /\ Qtys \subseteq Int
    /\ Limits \subseteq Nat
    /\ OrderSides \subseteq Sides
    /\ InitialCash \in Nat
    /\ CashMoves \subseteq Int
    /\ MaxOrders \in Nat
    /\ MaxFunding \in Nat

(* A sale brings in at least its commission, which is zero by default *)
(* (app/config.py); submit_order gates purchases only. *)
ASSUME CommissionAssumption ==
    \A p \in Prices \ {NoPrice} : Commission <= p - Slip

VARIABLES
    db,         \* the committed tables: book, orders, trades (and funded, below)
    work,       \* the open session's view of them
    pipeline,   \* TRUE while a pipeline session is open
    reply       \* what the last submit_order told its caller

vars == <<db, work, pipeline, reply>>

(* funded is an auxiliary field: the cash ever paid into the branch. *)
EmptyTables == [book |-> NoBook, orders |-> <<>>, trades |-> <<>>, funded |-> 0]
NoReply     == [status |-> "none", order |-> 0]

Request    == [sym : Symbols, side : OrderSides, qty : Qtys, limit : Limits \cup {NoLimit}]
Quotation  == [Symbols -> Prices]

-----------------------------------------------------------------------------
(* Table operations *)

WithOrder(d, r, status) ==
    [d EXCEPT !.orders = Append(@, [sym |-> r.sym, side |-> r.side, qty |-> r.qty,
                                    limit |-> r.limit, status |-> status])]

WithFill(d, r, price) ==
    LET o == WithOrder(d, r, "FILLED")
        t == TradeOf(r, price)
    IN  [o EXCEPT !.trades = Append(@, [order |-> Len(o.orders), sym |-> t.sym, side |-> t.side,
                                        qty |-> t.qty, price |-> t.price]),
                  !.book   = HandleTrade(@, t)]

(* The end of a handler that returns, and of one that raises, in the *)
(* session that is open. *)
Return(d) ==
    /\ work' = d
    /\ db' = IF pipeline THEN db ELSE d

Reject(r) ==
    LET d == WithOrder(work, r, "REJECTED") IN
    /\ reply' = [status |-> "rejected", order |-> Len(d.orders)]
    /\ IF pipeline THEN Return(d) ELSE UNCHANGED <<db, work>>
    /\ UNCHANGED pipeline

-----------------------------------------------------------------------------
(* submit_order, one action per outcome *)

(* The pipeline sends whole or fractional market orders of positive units *)
(* (portfolio_manager.py rounds a magnitude and skips zero), and sells only *)
(* what it read as held (read_portfolio_state). *)
MayAsk(r) ==
    /\ Len(work.orders) < MaxOrders
    /\ pipeline => /\ r.side \in {"BUY", "SELL"}
                   /\ r.limit = NoLimit /\ r.qty > 0
                   /\ r.side = "SELL" => work.book.pos[r.sym].lq > 0

RejectInvalid(r) ==
    /\ MayAsk(r)
    /\ ~Valid(work.book, r)
    /\ Reject(r)

RejectUnfilled(r, price) ==
    /\ MayAsk(r)
    /\ Valid(work.book, r)
    /\ ~BrokerFills(Clamp(work.book, r), price)
    /\ Reject(Clamp(work.book, r))

RejectOverdraft(r, price) ==
    /\ MayAsk(r)
    /\ Valid(work.book, r)
    /\ BrokerFills(Clamp(work.book, r), price)
    /\ ~CashCovers(work.book, TradeOf(Clamp(work.book, r), price))
    /\ Reject(Clamp(work.book, r))

Bug_Fill(r, price) ==
    LET c == Clamp(work.book, r)
        d == WithFill(work, c, price)
    IN
    /\ MayAsk(r)
    /\ Valid(work.book, r)
    /\ BrokerFills(c, price)
    /\ CashCovers(work.book, TradeOf(c, price))
    /\ Appliable(work.book.pos[c.sym], TradeOf(c, price))
    /\ Return([d EXCEPT !.orders[Len(d.orders)].qty = r.qty])
    /\ reply' = [status |-> "filled", order |-> Len(work.orders) + 1]
    /\ UNCHANGED pipeline

Fill(r, price) ==
    LET c == Clamp(work.book, r) IN
    /\ MayAsk(r)
    /\ Valid(work.book, r)
    /\ BrokerFills(c, price)
    /\ CashCovers(work.book, TradeOf(c, price))
    /\ Appliable(work.book.pos[c.sym], TradeOf(c, price))
    /\ Return(WithFill(work, c, price))
    /\ reply' = [status |-> "filled", order |-> Len(work.orders) + 1]
    /\ UNCHANGED pipeline

(* handle_trade_executed raises: the API request ends in an error and its *)
(* session rolls back. *)
FillRaises(r, price) ==
    LET c == Clamp(work.book, r) IN
    /\ MayAsk(r)
    /\ ~pipeline
    /\ Valid(work.book, r)
    /\ BrokerFills(c, price)
    /\ CashCovers(work.book, TradeOf(c, price))
    /\ ~Appliable(work.book.pos[c.sym], TradeOf(c, price))
    /\ reply' = [status |-> "error", order |-> 0]
    /\ UNCHANGED <<db, work, pipeline>>

Submit == \E r \in Request :
    \/ RejectInvalid(r)
    \/ \E price \in Prices :
         RejectUnfilled(r, price) \/ RejectOverdraft(r, price)
           \/ Fill(r, price) \/ FillRaises(r, price)

-----------------------------------------------------------------------------
(* The other operations on the book, each a session of its own *)

CreatePortfolio ==
    /\ ~pipeline
    /\ ~work.book.open
    /\ Return([work EXCEPT !.book = Opened(InitialCash), !.funded = InitialCash])
    /\ UNCHANGED <<pipeline, reply>>

AdjustCash(amount) ==
    /\ ~pipeline
    /\ CanAdjust(work.book, amount)
    /\ work.funded + amount <= MaxFunding
    /\ Return([work EXCEPT !.book = Adjusted(@, @.cash + amount), !.funded = @ + amount])
    /\ UNCHANGED <<pipeline, reply>>

MarkToMarket(price) ==
    /\ ~pipeline
    /\ work.book.open
    /\ Return([work EXCEPT !.book = Marked(@, price)])
    /\ UNCHANGED <<pipeline, reply>>

(* read_portfolio_state refuses to size orders against a missing portfolio *)
(* or a NAV that is not positive. *)
BeginPipeline ==
    /\ ~pipeline
    /\ work.book.open
    /\ work.book.nav > 0
    /\ pipeline' = TRUE
    /\ UNCHANGED <<db, work, reply>>

CommitPipeline ==
    /\ pipeline
    /\ pipeline' = FALSE
    /\ db' = work
    /\ UNCHANGED <<work, reply>>

AbortPipeline ==
    /\ pipeline
    /\ pipeline' = FALSE
    /\ work' = db
    /\ reply' = NoReply
    /\ UNCHANGED db

Init ==
    /\ db = EmptyTables
    /\ work = EmptyTables
    /\ pipeline = FALSE
    /\ reply = NoReply

Next ==
    \/ CreatePortfolio
    \/ \E amount \in CashMoves : AdjustCash(amount)
    \/ \E price \in Quotation : MarkToMarket(price)
    \/ BeginPipeline
    \/ CommitPipeline
    \/ AbortPipeline
    \/ Submit

Spec == Init /\ [][Next]_vars
-----------------------------------------------------------------------------
(* Properties *)

OrderRow == [sym : Symbols, side : Sides, qty : Int, limit : Nat, status : {"FILLED", "REJECTED"}]
TradeRow == [order : Nat, sym : Symbols, side : Sides, qty : Int, price : Int]
Tables(d) == [book : {d.book}, orders : Seq(OrderRow), trades : Seq(TradeRow), funded : Int]

(* No order of zero or fewer units was filled.  Nothing in the code refuses *)
(* one (trade_execution/api.py, common/models/order.py, _validate_order), and *)
(* what such a fill leaves, no identity of the book survives: selling -1 *)
(* unit passes the gate of submit_order, which looks at purchases only, and *)
(* pays cash out below zero. *)
PositiveTrades(d) == \A i \in DOMAIN d.trades : d.trades[i].qty > 0

(* The tables hold rows of their declared types, and no position or basis is *)
(* negative unless an order without positive units was filled. *)
TypeOK ==
    /\ \A d \in {db, work} : /\ d \in Tables(d)
                            /\ PositiveTrades(d) => d.book \in Book \cup {NoBook}
    /\ pipeline \in BOOLEAN
    /\ reply \in [status : {"none", "filled", "rejected", "error"}, order : Nat]

(* The views whose book the identities are about. *)
Ordinary  == {d \in {db, work} : d.book.open /\ PositiveTrades(d)}
OpenBooks == {d.book : d \in Ordinary}

(* Cash can be reconciled with everything else in the book: what was paid *)
(* in, plus the realized P&L, less what the open long positions cost, plus *)
(* what the open shorts brought in.  Realized P&L is accumulated on the *)
(* portfolio row while cost bases live on position rows that are deleted *)
(* when flat (handle_trade_executed), so a miscounted partial close, or a *)
(* row deleted with basis left, shows here. *)
CashIdentity ==
    \A d \in Ordinary :
        d.book.cash = d.funded + d.book.real - LongCost(d.book) + ShortCost(d.book)

(* The trades table explains the positions: replaying the executed trades *)
(* of a symbol gives exactly the long and short quantity of its row, and a *)
(* symbol whose replay is flat has no row (delete_if_flat); of whatever *)
(* quantities the trades are. *)
Filled(d, s, side) ==
    SumFunctionOnSet([i \in DOMAIN d.trades |-> d.trades[i].qty],
                     {i \in DOMAIN d.trades : d.trades[i].sym = s /\ d.trades[i].side = side})
LedgerExplainsPositions ==
    \A d \in {db, work} : d.book.open => \A s \in Symbols :
        /\ d.book.pos[s].lq = Filled(d, s, "BUY") - Filled(d, s, "SELL")
        /\ d.book.pos[s].sq = Filled(d, s, "SHORT") - Filled(d, s, "COVER")
        /\ s \in d.book.rows <=> d.book.pos[s].lq # 0 \/ d.book.pos[s].sq # 0

(* Every filled order has exactly one trade, for the quantity and side the *)
(* order row shows (the clamp happens before the row is written) and never *)
(* worse than its limit; a rejected order has none. *)
OrdersMatchTrades ==
    \A d \in {db, work} : \A o \in DOMAIN d.orders :
        LET row  == d.orders[o]
            mine == {i \in DOMAIN d.trades : d.trades[i].order = o}
        IN  IF row.status = "REJECTED" THEN mine = {}
            ELSE \E i \in DOMAIN d.trades :
                   /\ mine = {i}
                   /\ d.trades[i].sym = row.sym
                   /\ d.trades[i].side = row.side
                   /\ d.trades[i].qty = row.qty
                   /\ row.limit # NoLimit =>
                        IF row.side \in BuySides THEN d.trades[i].price <= row.limit
                                                ELSE d.trades[i].price >= row.limit

(* No sequence of orders for positive units overdraws a branch: the cash *)
(* gate prices a BUY at the exact fill, and adjust_cash refuses to go below *)
(* zero.  A COVER is not gated, nor is a SELL of a negative quantity. *)
NoOverdraft ==
    \A d \in Ordinary :
        (\A i \in DOMAIN d.trades : d.trades[i].side # "COVER") => d.book.cash >= 0

(* A closed side leaves nothing behind: with no units held, no cost basis *)
(* and no margin remain, so an average cost is never computed from the *)
(* leftovers of an earlier round trip. *)
NoStrandedBasis ==
    \A b \in OpenBooks : \A s \in Symbols :
        /\ b.pos[s].lq = 0 => b.pos[s].lc = 0
        /\ b.pos[s].sq = 0 => b.pos[s].sc = 0 /\ b.pos[s].sm = 0

(* Exposure and unrealized P&L move together: the long exposure is the cost *)
(* of the open longs plus the unrealized P&L, after a mark as after the *)
(* trade that reverts it to cost. *)
MarkIdentity ==
    \A b \in OpenBooks : b.long = LongCost(b) + b.unreal

(* With no short open every writer of NAV agrees: adjust_cash, *)
(* handle_trade_executed and mark_to_market, which use different formulas, *)
(* all leave NAV equal to cash plus long exposure, whatever shorts were *)
(* opened and closed before. *)
NavIdentity == \A b \in OpenBooks : b.short = 0 => b.nav = b.cash + b.long

(* A sell never leaves dust: whatever a SELL takes off a long position, the *)
(* rest is zero or more than the full-exit tolerance (the clamp). *)
NoDustAfterSell ==
    [][\A s \in Symbols :
         (work.book.open /\ work'.book.open /\ Len(work'.trades) > Len(work.trades)
            /\ work'.trades[Len(work'.trades)].side = "SELL"
            /\ work'.book.pos[s].lq < work.book.pos[s].lq)
         => work'.book.pos[s].lq \notin 1 .. Tol]_vars

(* A fill that was answered with an order id is in the tables the caller *)
(* will read. *)
FillsTraced ==
    reply.status = "filled" =>
        /\ reply.order \in DOMAIN work.orders
        /\ work.orders[reply.order].status = "FILLED"

(* The books balance after any sequence of orders for positive units, *)
(* deposits, marks and pipelines: every identity an auditor would check between the portfolio *)
(* row, the position rows and what was paid in (portfolio service.py *)
(* handle_trade_executed, mark_to_market, adjust_cash). *)
BooksBalance == TypeOK /\ CashIdentity /\ NoStrandedBasis /\ MarkIdentity /\ NavIdentity

(* The ledger tables explain the book: orders by their trades, positions by *)
(* the trades of their symbol, answers by their rows. *)
LedgerExplainsBook == LedgerExplainsPositions /\ OrdersMatchTrades /\ FillsTraced
=============================================================================
