---------------------------- MODULE TradeBookProofs ----------------------------
(***************************************************************************)
(* Four properties of TradeBook for every set of symbols, prices,          *)
(* quantities and limits and any number of orders: a sell leaves no dust   *)
(* and the ledger explains the book, whatever the quantities; while only   *)
(* positive ones were traded a book is never overdrawn and balances.       *)
(*                                                                         *)
(* None is inductive alone.  A pipeline that is aborted puts back the      *)
(* committed tables, so the invariants are about both views: IInv says     *)
(* that they are one while no pipeline is open, and that the open one has  *)
(* the longer trades table, so that a step that adds a trade is a fill;    *)
(* AInv says that each of them is a view an auditor accepts.               *)
(***************************************************************************)
EXTENDS TradeBook, PortfolioProofs, SequenceTheorems

Asked == [sym : Symbols, side : Sides, qty : Int, limit : Nat]

(* A view of the tables: no book yet or a shaped one, orders and trades. *)
View(d) ==
    /\ d \in [book : {d.book}, orders : Seq(OrderRow), trades : Seq(TradeRow), funded : {d.funded}]
    /\ d.book = NoBook \/ Shaped(d.book)

Covered(d) == \E i \in DOMAIN d.trades : d.trades[i].side = "COVER"
Solvent(d) == d.book.open /\ ~Covered(d) /\ PositiveTrades(d) => d.book.cash >= 0

(* The inductive invariant. *)
IInv ==
    /\ View(db) /\ View(work)
    /\ Solvent(db) /\ Solvent(work)
    /\ ~pipeline => db = work
    /\ Len(db.trades) <= Len(work.trades)

(* What a view of the tables is made of. *)
LEMMA ViewFields ==
    ASSUME NEW d, View(d)
    PROVE  /\ d.trades \in Seq(TradeRow) /\ Len(d.trades) \in Nat
           /\ d.book.open => Shaped(d.book)
           /\ Shaped(d.book) => d.book.open
<1>1. d.trades \in Seq(TradeRow)
  BY DEF View
<1>2. d.book = NoBook => ~d.book.open
  BY DEF NoBook
<1>3. Shaped(d.book) => d.book.open
  BY DEF Shaped
<1>4. QED
  BY <1>1, <1>2, <1>3, LenProperties DEF View

(* A step that leaves a view d of the tables in the open session, and in *)
(* the committed ones unless a pipeline collects it, keeps the invariant if *)
(* the view is sound and has lost no trade. *)
LEMMA ReturnKeeps ==
    ASSUME IInv, NEW d, View(d), Solvent(d), Len(work.trades) <= Len(d.trades),
           Return(d), UNCHANGED pipeline
    PROVE  IInv'
<1>1. work' = d /\ db' = (IF pipeline THEN db ELSE d)
  BY DEF Return
<1>2. Len(db.trades) \in Nat /\ Len(work.trades) \in Nat /\ Len(d.trades) \in Nat
  BY ViewFields DEF IInv
<1>3. CASE pipeline
  BY <1>1, <1>2, <1>3 DEF IInv, View, Solvent, Covered, PositiveTrades
<1>4. CASE ~pipeline
  BY <1>1, <1>2, <1>4 DEF IInv, View, Solvent, Covered, PositiveTrades
<1>5. QED
  BY <1>3, <1>4

(* An order row written leaves the rest of a view as it was. *)
LEMMA OrderWritten ==
    ASSUME NEW d, View(d), NEW r \in Asked, NEW status \in {"FILLED", "REJECTED"}
    PROVE  /\ View(WithOrder(d, r, status))
           /\ WithOrder(d, r, status).book = d.book
           /\ WithOrder(d, r, status).trades = d.trades
<1>1. PICK row \in OrderRow : row = [sym |-> r.sym, side |-> r.side, qty |-> r.qty,
                                    limit |-> r.limit, status |-> status]
  BY DEF OrderRow, Asked
<1>2. PICK orders \in Seq(OrderRow) : orders = Append(d.orders, row)
  BY AppendProperties DEF View
<1>3. WithOrder(d, r, status) = [d EXCEPT !.orders = orders]
  BY <1>1, <1>2 DEF WithOrder, View
<1>4. QED
  BY <1>3 DEF View

(* A rejection writes at most an order row. *)
LEMMA RejectKeeps ==
    ASSUME IInv, NEW r \in Asked, Reject(r)
    PROVE  IInv' /\ work'.trades = work.trades
<1> DEFINE d == WithOrder(work, r, "REJECTED")
<1>1. View(work)
  BY DEF IInv
<1>2. d.book = work.book /\ d.trades = work.trades /\ View(d)
  BY <1>1, OrderWritten
<1>3. Solvent(d) /\ Len(work.trades) <= Len(d.trades)
  BY <1>2, ViewFields DEF IInv, Solvent, Covered, PositiveTrades
<1>4. CASE pipeline
  <2>1. Return(d) /\ UNCHANGED pipeline
    BY <1>4 DEF Reject
  <2>2. IInv'
    BY <1>2, <1>3, <2>1, ReturnKeeps
  <2>3. QED
    BY <1>2, <2>1, <2>2 DEF Return
<1>5. CASE ~pipeline
  BY <1>5 DEF Reject, IInv, View, Solvent, Covered, PositiveTrades
<1>6. QED
  BY <1>4, <1>5

(* The trade of a fill: of the request's side and units, at a price that *)
(* covers the commission when it sells. *)
LEMMA FillPriced ==
    ASSUME NEW r \in Asked, NEW price \in Prices, BrokerFills(r, price)
    PROVE  /\ TradeOf(r, price) \in Trades
           /\ r.qty > 0 => TradeOf(r, price) \in PricedTrades
           /\ TradeOf(r, price).sym = r.sym /\ TradeOf(r, price).side = r.side
           /\ TradeOf(r, price).qty = r.qty
           /\ r.side \in SellSides => Commission <= TradeOf(r, price).price
<1>1. /\ price \in Nat \ {NoPrice} /\ Slip \in Nat /\ Commission \in Nat /\ r.limit \in Nat
      /\ Commission <= price - Slip /\ price > Slip
  BY TradeBookAssumption, CommissionAssumption, PortfolioAssumption DEF BrokerFills, Asked
<1>2. FillPrice(r, price) \in Nat
  <2>1. CASE r.limit = NoLimit
    BY <1>1, <2>1 DEF FillPrice
  <2>2. CASE r.limit # NoLimit /\ r.side \in BuySides
    BY <1>1, <2>2 DEF FillPrice
  <2>3. CASE r.limit # NoLimit /\ r.side \notin BuySides
    BY <1>1, <2>3 DEF FillPrice
  <2>4. QED
    BY <2>1, <2>2, <2>3
<1>3. ASSUME r.side \in SellSides PROVE Commission <= FillPrice(r, price)
  <2>1. r.side \notin BuySides
    BY <1>3 DEF SellSides, BuySides
  <2>2. CASE r.limit = NoLimit
    BY <1>1, <2>1, <2>2 DEF FillPrice
  <2>3. CASE r.limit # NoLimit
    BY <1>1, <2>1, <2>3 DEF FillPrice
  <2>4. QED
    BY <2>2, <2>3
<1>4. QED
  BY <1>2, <1>3 DEF TradeOf, Trades, PricedTrades, Asked

(* The tables after a fill: the book the trade leaves, and the trade. *)
LEMMA FillWritten ==
    ASSUME NEW d, View(d), Shaped(d.book), NEW r \in Asked, NEW price,
           TradeOf(r, price) \in Trades
    PROVE  /\ View(WithFill(d, r, price))
           /\ WithFill(d, r, price).book = HandleTrade(d.book, TradeOf(r, price))
           /\ \E row \in TradeRow : /\ row.side = TradeOf(r, price).side
                                    /\ row.qty = TradeOf(r, price).qty
                                    /\ WithFill(d, r, price).trades = Append(d.trades, row)
<1> DEFINE o == WithOrder(d, r, "FILLED")
           t == TradeOf(r, price)
<1>1. View(o) /\ o.book = d.book /\ o.trades = d.trades
  BY OrderWritten
<1>2. PICK row \in TradeRow : row = [order |-> Len(o.orders), sym |-> t.sym, side |-> t.side,
                                     qty |-> t.qty, price |-> t.price]
  BY <1>1, LenProperties DEF View, TradeRow, Trades
<1>3. PICK trades \in Seq(TradeRow) : trades = Append(o.trades, row)
  BY <1>1, AppendProperties DEF View
<1>4. PICK book : book = HandleTrade(o.book, t)
  OBVIOUS
<1>5. t.sym = r.sym
  BY DEF TradeOf
<1>6. Shaped(book)
  BY <1>1, <1>4, <1>5, HandleTradeEffect
<1>7. WithFill(d, r, price) = [o EXCEPT !.trades = trades, !.book = book]
  BY <1>1, <1>2, <1>3, <1>4 DEF WithFill, View
<1>8. View(WithFill(d, r, price)) /\ WithFill(d, r, price).book = book
      /\ WithFill(d, r, price).trades = trades
  BY <1>1, <1>6, <1>7 DEF View
<1>9. QED
  BY <1>1, <1>2, <1>3, <1>4, <1>8

(* Requests ask for whole quantities and carry natural limits. *)
LEMMA RequestAsked == Request \subseteq Asked
<1>1. OrderSides \subseteq Sides /\ Qtys \subseteq Int /\ Limits \cup {NoLimit} \subseteq Nat
  BY TradeBookAssumption DEF NoLimit
<1>2. QED
  BY <1>1 DEF Request, Asked

(* A fill keeps the book solvent: purchases are gated by what they cost, *)
(* sales of units bring in at least their commission. *)
LEMMA FillKeeps ==
    ASSUME IInv, NEW r \in Request, NEW price \in Prices, Fill(r, price)
    PROVE  /\ IInv'
           /\ work' = WithFill(work, Clamp(work.book, r), price)
<1> DEFINE c == Clamp(work.book, r)
           t == TradeOf(c, price)
           d == WithFill(work, c, price)
<1>1. /\ Valid(work.book, r) /\ BrokerFills(c, price) /\ CashCovers(work.book, t)
      /\ Appliable(work.book.pos[c.sym], t) /\ Return(d) /\ UNCHANGED pipeline
  BY DEF Fill
<1>2. r \in Asked
  BY RequestAsked
<1>3. View(work) /\ Shaped(work.book)
  BY <1>1, ViewFields DEF IInv, Valid
<1>4. c \in Asked
  BY <1>1, <1>2, <1>3, ClampLeavesNoDust DEF Asked
<1>5. /\ t \in Trades /\ t.sym = c.sym /\ t.side = c.side
      /\ c.side \in SellSides => Commission <= t.price
  BY <1>1, <1>4, FillPriced
<1>6. View(d) /\ d.book = HandleTrade(work.book, t)
  BY <1>1, <1>3, <1>4, <1>5, FillWritten
<1>7. PICK row \in TradeRow :
        row.side = t.side /\ row.qty = t.qty /\ d.trades = Append(work.trades, row)
  BY <1>1, <1>3, <1>4, <1>5, FillWritten
<1>8. work.trades \in Seq(TradeRow) /\ Len(work.trades) \in Nat
  BY <1>3, ViewFields
<1>9. Len(d.trades) = Len(work.trades) + 1
  BY <1>7, <1>8, AppendProperties
<1>10. Solvent(d)
  <2>1. SUFFICES ASSUME ~Covered(d), PositiveTrades(d) PROVE d.book.cash >= 0
    BY DEF Solvent
  <2>2. /\ DOMAIN d.trades = 1 .. Len(work.trades) + 1
        /\ d.trades[Len(work.trades) + 1] = row
        /\ DOMAIN work.trades = 1 .. Len(work.trades)
        /\ \A i \in DOMAIN work.trades : d.trades[i] = work.trades[i]
    BY <1>7, <1>8, AppendProperties, LenProperties
  <2>3. ~Covered(work) /\ row.side # "COVER" /\ PositiveTrades(work) /\ row.qty > 0
    BY <1>8, <2>1, <2>2 DEF Covered, PositiveTrades
  <2>4. work.book.cash >= 0
    BY <1>3, <2>3, ViewFields DEF IInv, Solvent
  <2>5. work.book.cash + CashDelta(t) >= 0
    BY <1>1, <1>3, <1>5, <1>7, <2>3, <2>4, GateHolds
  <2>6. QED
    BY <1>1, <1>3, <1>5, <1>6, <2>5, HandleTradeEffect
<1>11. IInv'
  BY <1>1, <1>6, <1>8, <1>9, <1>10, ReturnKeeps
<1>12. QED
  BY <1>1, <1>11 DEF Return

(* Creating, funding and marking a portfolio leave the trades alone, and no *)
(* less than nothing in cash. *)
LEMMA OpenBookKeeps ==
    ASSUME IInv, NEW d, View(d), d.trades = work.trades, d.book.cash >= 0,
           Return(d), UNCHANGED pipeline
    PROVE  IInv'
<1>1. Solvent(d) /\ Len(work.trades) <= Len(d.trades)
  BY ViewFields DEF Solvent
<1>2. QED
  BY <1>1, ReturnKeeps

(* A portfolio is created with cash and records no trade. *)
LEMMA CreateKeeps == ASSUME IInv, CreatePortfolio PROVE IInv' /\ work'.trades = work.trades
<1> DEFINE d == [work EXCEPT !.book = Opened(InitialCash), !.funded = InitialCash]
<1>1. InitialCash \in Nat
  BY TradeBookAssumption
<1>2. PICK book : book = Opened(InitialCash)
  OBVIOUS
<1>3. Shaped(book) /\ book.cash = InitialCash
  BY <1>1, <1>2, OpenedShaped
<1>4. d = [work EXCEPT !.book = book, !.funded = InitialCash]
  BY <1>2
<1>5. View(d) /\ d.book = book /\ d.trades = work.trades
  BY <1>3, <1>4 DEF IInv, View
<1>6. Return(d) /\ UNCHANGED pipeline
  BY DEF CreatePortfolio
<1>7. d.book.cash >= 0
  BY <1>1, <1>3, <1>5
<1>8. IInv'
  BY <1>5, <1>6, <1>7, OpenBookKeeps
<1>9. QED
  BY <1>5, <1>6, <1>8 DEF Return

(* A cash adjustment never leaves the cash negative. *)
LEMMA AdjustKeeps ==
    ASSUME IInv, NEW amount \in CashMoves, AdjustCash(amount)
    PROVE  IInv' /\ work'.trades = work.trades
<1> DEFINE cash == work.book.cash + amount
           d == [work EXCEPT !.book = Adjusted(@, @.cash + amount), !.funded = @ + amount]
<1>1. Shaped(work.book) /\ cash >= 0 /\ Return(d) /\ UNCHANGED pipeline
  BY ViewFields DEF IInv, AdjustCash, CanAdjust
<1>2. cash \in Int
  <2>1. amount \in Int
    BY TradeBookAssumption
  <2>2. work.book.cash \in Int
    BY <1>1 DEF Shaped
  <2>3. QED
    BY <2>1, <2>2
<1>3. PICK book : book = Adjusted(work.book, cash)
  OBVIOUS
<1>4. Shaped(book) /\ book.cash = cash
  BY <1>1, <1>2, <1>3 DEF Adjusted, Shaped
<1>5. PICK funded : funded = work.funded + amount
  OBVIOUS
<1>6. d = [work EXCEPT !.book = book, !.funded = funded]
  BY <1>3, <1>5 DEF IInv, View
<1>7. View(d) /\ d.book = book /\ d.trades = work.trades
  BY <1>4, <1>6 DEF IInv, View
<1>8. IInv'
  BY <1>1, <1>4, <1>7, OpenBookKeeps
<1>9. QED
  BY <1>1, <1>7, <1>8 DEF Return

(* A mark moves no cash. *)
LEMMA MarkKeeps ==
    ASSUME IInv, NEW price, MarkToMarket(price)
    PROVE  IInv' /\ work'.trades = work.trades
<1> DEFINE d == [work EXCEPT !.book = Marked(@, price)]
<1>1. Shaped(work.book) /\ Return(d) /\ UNCHANGED pipeline
  BY ViewFields DEF IInv, MarkToMarket
<1>2. PICK book : book = Marked(work.book, price)
  OBVIOUS
<1>3. Shaped(book) /\ book.cash = work.book.cash
  BY <1>1, <1>2 DEF Marked, Shaped
<1>4. d = [work EXCEPT !.book = book]
  BY <1>2 DEF IInv, View
<1>5. View(d) /\ d.book = book /\ d.trades = work.trades
  BY <1>3, <1>4 DEF IInv, View
<1>6. Solvent(d)
  BY <1>1, <1>3, <1>5, ViewFields DEF IInv, Solvent, Covered, PositiveTrades
<1>7. Len(work.trades) <= Len(d.trades)
  BY <1>5, ViewFields DEF IInv
<1>8. IInv'
  BY <1>1, <1>5, <1>6, <1>7, ReturnKeeps
<1>9. QED
  BY <1>1, <1>5, <1>8 DEF Return

(* The steps that begin and end a pipeline add no trade: a commit keeps the *)
(* open tables, an abort puts back the shorter committed ones. *)
LEMMA PipelineKeeps ==
    ASSUME IInv, BeginPipeline \/ CommitPipeline \/ AbortPipeline
    PROVE  IInv' /\ Len(work'.trades) <= Len(work.trades)
<1>1. Len(db.trades) \in Nat /\ Len(work.trades) \in Nat
  BY ViewFields DEF IInv
<1>2. CASE BeginPipeline
  BY <1>1, <1>2 DEF IInv, BeginPipeline, View, Solvent, Covered, PositiveTrades
<1>3. CASE CommitPipeline
  BY <1>1, <1>3 DEF IInv, CommitPipeline, View, Solvent, Covered, PositiveTrades
<1>4. CASE AbortPipeline
  BY <1>1, <1>4 DEF IInv, AbortPipeline, View, Solvent, Covered, PositiveTrades
<1>5. QED
  BY <1>2, <1>3, <1>4

(* Every step keeps the invariant, and adds a trade only when it is a fill. *)
LEMMA NextKeeps ==
    ASSUME IInv, [Next]_vars
    PROVE  /\ IInv'
           /\ \/ Len(work'.trades) <= Len(work.trades)
              \/ \E r \in Request, price \in Prices : Fill(r, price)
<1>1. Len(work.trades) \in Nat
  BY ViewFields DEF IInv
<1>2. CASE CreatePortfolio
  BY <1>1, <1>2, CreateKeeps
<1>3. ASSUME NEW amount \in CashMoves, AdjustCash(amount)
      PROVE  IInv' /\ Len(work'.trades) <= Len(work.trades)
  BY <1>1, <1>3, AdjustKeeps
<1>4. ASSUME NEW price \in Quotation, MarkToMarket(price)
      PROVE  IInv' /\ Len(work'.trades) <= Len(work.trades)
  BY <1>1, <1>4, MarkKeeps
<1>5. CASE BeginPipeline \/ CommitPipeline \/ AbortPipeline
  BY <1>5, PipelineKeeps
<1>6. ASSUME NEW r \in Request, NEW c \in {r, Clamp(work.book, r)}, Reject(c),
             c = r \/ Valid(work.book, r)
      PROVE  IInv' /\ Len(work'.trades) <= Len(work.trades)
  <2>1. r \in Asked
    BY RequestAsked
  <2>2. Valid(work.book, r) => Shaped(work.book)
    BY ViewFields DEF IInv, Valid
  <2>3. c \in Asked
    BY <1>6, <2>1, <2>2, ClampLeavesNoDust DEF Asked
  <2>4. QED
    BY <1>1, <1>6, <2>3, RejectKeeps
<1>7. ASSUME NEW r \in Request, NEW price \in Prices,
             RejectUnfilled(r, price) \/ RejectOverdraft(r, price)
      PROVE  IInv' /\ Len(work'.trades) <= Len(work.trades)
  BY <1>6, <1>7 DEF RejectUnfilled, RejectOverdraft
<1>8. ASSUME NEW r \in Request, RejectInvalid(r)
      PROVE  IInv' /\ Len(work'.trades) <= Len(work.trades)
  BY <1>6, <1>8 DEF RejectInvalid
<1>9. ASSUME NEW r \in Request, NEW price \in Prices, Fill(r, price) PROVE IInv'
  BY <1>9, FillKeeps
<1>10. ASSUME NEW r \in Request, NEW price \in Prices, FillRaises(r, price)
       PROVE  IInv' /\ Len(work'.trades) <= Len(work.trades)
  BY <1>1, <1>10 DEF FillRaises, IInv, View, Solvent, Covered, PositiveTrades
<1>11. CASE UNCHANGED vars
  BY <1>1, <1>11 DEF vars, IInv, View, Solvent, Covered, PositiveTrades
<1>12. CASE Submit
  BY <1>7, <1>8, <1>9, <1>10, <1>12 DEF Submit
<1>13. QED
  BY <1>2, <1>3, <1>4, <1>5, <1>11, <1>12 DEF Next

(* The empty database satisfies the invariant. *)
LEMMA InitIInv == Init => IInv
<1>1. SUFFICES ASSUME Init PROVE IInv
  OBVIOUS
<1>2. View(EmptyTables) /\ ~EmptyTables.book.open
  BY EmptySeq DEF EmptyTables, View, NoBook
<1>3. QED
  BY <1>1, <1>2, ViewFields DEF Init, IInv, Solvent

(* For any prices and limits and a commission below what a unit sells for, *)
(* no sequence of orders, deposits, withdrawals and pipelines overdraws a *)
(* branch that has covered no short and in which no order of zero or fewer *)
(* units was filled (trade_execution/service.py, the cash gate of *)
(* submit_order).  The code refuses no such order, so the last condition is *)
(* one on its callers. *)
THEOREM NeverOverdrawn == Spec => []NoOverdraft
<1>1. IInv => NoOverdraft
  BY DEF IInv, NoOverdraft, Ordinary, Solvent, Covered
<1>2. IInv /\ [Next]_vars => IInv'
  BY NextKeeps
<1>3. QED
  BY InitIInv, <1>1, <1>2, PTL DEF Spec

(* For any tolerance and any quantities, a SELL that reduces a long position *)
(* leaves nothing or more than the full-exit tolerance of it *)
(* (trade_execution/service.py, the clamp of a near-full sell). *)
THEOREM NeverDust == Spec => NoDustAfterSell
<1>1. ASSUME IInv, [Next]_vars, NEW s \in Symbols,
             work.book.open, work'.book.open, Len(work'.trades) > Len(work.trades),
             work'.trades[Len(work'.trades)].side = "SELL",
             work'.book.pos[s].lq < work.book.pos[s].lq
      PROVE  work'.book.pos[s].lq \notin 1 .. Tol
  <2>1. Len(work.trades) \in Nat /\ Len(work'.trades) \in Nat
    BY <1>1, NextKeeps, ViewFields DEF IInv
  <2>2. PICK r \in Request, price \in Prices : Fill(r, price)
    BY <1>1, <2>1, NextKeeps
  <2> DEFINE c == Clamp(work.book, r)
             t == TradeOf(c, price)
  <2>3. /\ Valid(work.book, r) /\ BrokerFills(c, price)
        /\ work' = WithFill(work, c, price)
    BY <1>1, <2>2, FillKeeps DEF Fill
  <2>4. r \in Asked /\ View(work) /\ Shaped(work.book)
    BY <1>1, RequestAsked, ViewFields DEF IInv
  <2>5. /\ c \in Asked /\ c.sym = r.sym /\ c.side = r.side
        /\ r.side = "SELL" /\ c.qty > 0 => work.book.pos[r.sym].lq - c.qty \notin 1 .. Tol
    BY <2>3, <2>4, ClampLeavesNoDust DEF Asked
  <2>6. t \in Trades /\ t.sym = r.sym /\ t.side = r.side /\ t.qty = c.qty
    BY <2>3, <2>5, FillPriced
  <2>7. /\ work'.book = HandleTrade(work.book, t)
        /\ \E row \in TradeRow : row.side = t.side /\ work'.trades = Append(work.trades, row)
    BY <2>3, <2>4, <2>5, <2>6, FillWritten
  <2>8. /\ work'.book.pos[r.sym].lq = PositionAfter(work.book.pos[r.sym], t).lq
        /\ \A u \in Symbols \ {r.sym} : work'.book.pos[u] = work.book.pos[u]
    BY <2>3, <2>4, <2>5, <2>6, <2>7, HandleTradeEffect
  <2>9. work.book.pos[r.sym] \in PositionRow /\ work.book.pos[s].lq \in Int /\ r.sym \in Symbols
    BY <2>4 DEF Shaped, Asked, PositionRow
  <2>10. s = r.sym
    BY <1>1, <2>8, <2>9
  <2>11. t.side = "SELL"
    <3>1. PICK row \in TradeRow : row.side = t.side /\ work'.trades = Append(work.trades, row)
      BY <2>7
    <3>2. work'.trades[Len(work'.trades)] = row
      BY <2>4, <3>1, ViewFields, AppendProperties
    <3>3. QED
      BY <1>1, <3>1, <3>2
  <2>12. work'.book.pos[r.sym].lq = work.book.pos[r.sym].lq - c.qty /\ c.qty \in Int
    BY <2>5, <2>6, <2>8, <2>9, <2>11, PositionAfterRow DEF Asked
  <2>13. c.qty > 0
    BY <1>1, <2>9, <2>10, <2>12
  <2>14. QED
    BY <2>5, <2>6, <2>10, <2>11, <2>12, <2>13
<1>2. IInv /\ [Next]_vars =>
        [\A s \in Symbols :
           (work.book.open /\ work'.book.open /\ Len(work'.trades) > Len(work.trades)
              /\ work'.trades[Len(work'.trades)].side = "SELL"
              /\ work'.book.pos[s].lq < work.book.pos[s].lq)
           => work'.book.pos[s].lq \notin 1 .. Tol]_vars
  BY <1>1
<1>3. IInv /\ [Next]_vars => IInv'
  BY NextKeeps
<1>4. QED
  BY InitIInv, <1>2, <1>3, PTL DEF Spec, NoDustAfterSell

-----------------------------------------------------------------------------
(* The books balance and the ledger explains them *)

(* What the order table and the trade table say of an order. *)
WithinLimit(row, price) ==
    row.limit # NoLimit => IF row.side \in BuySides THEN price <= row.limit
                                                   ELSE price >= row.limit
TradesFor(d, o) == {i \in DOMAIN d.trades : d.trades[i].order = o}
Answered(d, o) ==
    IF d.orders[o].status = "REJECTED" THEN TradesFor(d, o) = {}
    ELSE \E i \in DOMAIN d.trades :
           /\ TradesFor(d, o) = {i}
           /\ d.trades[i].sym = d.orders[o].sym /\ d.trades[i].side = d.orders[o].side
           /\ d.trades[i].qty = d.orders[o].qty
           /\ WithinLimit(d.orders[o], d.trades[i].price)

(* A view whose trades add up to its positions, one for each filled order, *)
(* and whose book balances while the trades are of positive units.  Trades *)
(* name orders that exist, so that the number of the next order is new; and *)
(* before the book is opened there are none, so that it opens flat. *)
Replayed(d) ==
    \A s \in Symbols :
        /\ d.book.pos[s].lq = Filled(d, s, "BUY") - Filled(d, s, "SELL")
        /\ d.book.pos[s].sq = Filled(d, s, "SHORT") - Filled(d, s, "COVER")
        /\ s \in d.book.rows <=> d.book.pos[s].lq # 0 \/ d.book.pos[s].sq # 0
Matched(d) ==
    /\ \A i \in DOMAIN d.trades : d.trades[i].order \in DOMAIN d.orders
    /\ \A o \in DOMAIN d.orders : Answered(d, o)
Sound(d) == PositiveTrades(d) => Balanced(d.book, d.funded)
Audited(d) ==
    /\ d.funded \in Int
    /\ d.book = NoBook => d.trades = <<>>
    /\ d.book # NoBook => Replayed(d) /\ Sound(d)
    /\ Matched(d)

(* The inductive invariant, on top of IInv. *)
AInv ==
    /\ Audited(db) /\ Audited(work)
    /\ pipeline \in BOOLEAN
    /\ reply \in [status : {"none", "filled", "rejected", "error"}, order : Nat]
    /\ FillsTraced

(* What is filled, for trades a numbered by D. *)
FilledIn(a, D, s, side) ==
    SumFunctionOnSet([i \in D |-> a[i].qty], {i \in D : a[i].sym = s /\ a[i].side = side})

(* b is a with a trade m more, numbered by E. *)
OneMore(b, E, a, D, m) ==
    /\ IsFiniteSet(E) /\ D \subseteq E
    /\ m \in E /\ m \notin D /\ (\A i \in E : i = m \/ i \in D)
    /\ b[m].qty \in Int
    /\ \A i \in D : a[i].qty \in Int /\ b[i] = a[i]

(* A trade more adds its units to those of its symbol and side, and to no *)
(* others. *)
LEMMA FilledInGrows ==
    ASSUME NEW a, NEW b, NEW E, NEW D, NEW m, OneMore(b, E, a, D, m), NEW s, NEW side
    PROVE  /\ FilledIn(a, D, s, side) \in Int
           /\ FilledIn(b, E, s, side)
                = FilledIn(a, D, s, side) + (IF b[m].sym = s /\ b[m].side = side THEN b[m].qty ELSE 0)
<1>1. PICK f, g : f = [i \in D |-> a[i].qty] /\ g = [i \in E |-> b[i].qty]
  OBVIOUS
<1>2. /\ \A i \in D : f[i] \in Int /\ g[i] = f[i]
      /\ g[m] = b[m].qty /\ g[m] \in Int
  BY <1>1 DEF OneMore
<1>3. PICK S : S = {i \in D : a[i].sym = s /\ a[i].side = side}
  OBVIOUS
<1>4. PICK T : T = {i \in E : b[i].sym = s /\ b[i].side = side}
  OBVIOUS
<1>5. /\ FilledIn(a, D, s, side) = SumFunctionOnSet(f, S)
      /\ FilledIn(b, E, s, side) = SumFunctionOnSet(g, T)
  BY <1>1, <1>3, <1>4 DEF FilledIn
<1>6. IsFiniteSet(S) /\ IsFiniteSet(T)
  <2>1. IsFiniteSet(E) /\ S \subseteq E /\ T \subseteq E
    BY <1>3, <1>4 DEF OneMore
  <2>2. QED
    BY <2>1, FS_Subset
<1>7. \A i \in D : a[i].sym = b[i].sym /\ a[i].side = b[i].side
  BY DEF OneMore
<1>8. CASE b[m].sym = s /\ b[m].side = side
  <2>1. Extends(g, T, f, S, m)
    BY <1>2, <1>3, <1>4, <1>6, <1>7, <1>8 DEF OneMore, Extends
  <2>2. /\ SumFunctionOnSet(f, S) \in Int
        /\ SumFunctionOnSet(g, T) = SumFunctionOnSet(f, S) + g[m]
    BY <2>1, SumGrows
  <2>3. QED
    BY <1>2, <1>5, <1>8, <2>2
<1>9. CASE ~(b[m].sym = s /\ b[m].side = side)
  <2>1. T = S
    BY <1>3, <1>4, <1>7, <1>9 DEF OneMore
  <2>2. (\A i \in S : f[i] \in Int) /\ (\A i \in S : g[i] = f[i])
    BY <1>2, <1>3
  <2>3. SumFunctionOnSet(f, S) \in Int /\ SumFunctionOnSet(g, S) = SumFunctionOnSet(f, S)
    BY <1>6, <2>2, SumInt, SumAgrees
  <2>4. QED
    BY <1>5, <1>9, <2>1, <2>3
<1>10. QED
  BY <1>8, <1>9

(* A shaped book is an open one. *)
LEMMA ShapedOpen ==
    ASSUME NEW b, Shaped(b)
    PROVE  b.open /\ b # NoBook
<1>1. b.open = TRUE
  BY DEF Shaped
<1>2. NoBook.open = FALSE
  BY DEF NoBook
<1>3. QED
  BY <1>1, <1>2

(* A balanced book is an open one. *)
LEMMA BalancedOpen ==
    ASSUME NEW b, NEW funded, Balanced(b, funded)
    PROVE  b.open /\ b # NoBook
<1>1. b.open = TRUE
  BY DEF Balanced, Book
<1>2. NoBook.open = FALSE
  BY DEF NoBook
<1>3. QED
  BY <1>1, <1>2

(* A trade added to the trades table adds its units to those filled for its *)
(* symbol and side, and to no others. *)
LEMMA FilledGrows ==
    ASSUME NEW d, d.trades \in Seq(TradeRow), NEW row \in TradeRow,
           NEW e, e.trades = Append(d.trades, row), NEW s, NEW side
    PROVE  /\ Filled(d, s, side) \in Int
           /\ Filled(e, s, side)
                = Filled(d, s, side) + (IF row.sym = s /\ row.side = side THEN row.qty ELSE 0)
<1>1. PICK n \in Nat : n = Len(d.trades)
  BY LenProperties
<1>2. PICK m : m = n + 1
  OBVIOUS
<1>3. PICK D : D = 1 .. n
  OBVIOUS
<1>4. PICK E : E = 1 .. n + 1 /\ IsFiniteSet(E)
  BY FS_Interval
<1>5. /\ D \subseteq E /\ m \in E /\ m \notin D
      /\ \A i \in E : i = m \/ i \in D
  BY <1>2, <1>3, <1>4
<1>6. PICK a, b : a = d.trades /\ b = e.trades
  OBVIOUS
<1>7. /\ DOMAIN a = D /\ DOMAIN b = E
      /\ \A i \in D : b[i] = a[i]
      /\ row = b[m]
  BY <1>1, <1>2, <1>3, <1>4, <1>6, AppendProperties, LenProperties
<1>8. \A i \in D : a[i] \in TradeRow
  BY <1>1, <1>3, <1>6, ElementOfSeq
<1>9. \A t \in TradeRow : t.qty \in Int
  BY DEF TradeRow
<1>10. OneMore(b, E, a, D, m)
  BY <1>4, <1>5, <1>7, <1>8, <1>9 DEF OneMore
<1>11. Filled(d, s, side) = FilledIn(a, D, s, side) /\ Filled(e, s, side) = FilledIn(b, E, s, side)
  BY <1>6, <1>7 DEF Filled, FilledIn
<1>12. /\ FilledIn(a, D, s, side) \in Int
       /\ FilledIn(b, E, s, side)
            = FilledIn(a, D, s, side) + (IF b[m].sym = s /\ b[m].side = side THEN b[m].qty ELSE 0)
  BY <1>10, FilledInGrows
<1>13. QED
  BY <1>7, <1>11, <1>12

(* No trades, nothing filled. *)
LEMMA NothingFilled ==
    ASSUME NEW d, d.trades = <<>>, NEW s, NEW side
    PROVE  Filled(d, s, side) = 0
<1>1. PICK a : a = d.trades
  OBVIOUS
<1>2. DOMAIN a = {}
  BY <1>1
<1>3. {i \in DOMAIN a : a[i].sym = s /\ a[i].side = side} = {}
  BY <1>2
<1>4. PICK f : f = [i \in DOMAIN a |-> a[i].qty]
  OBVIOUS
<1>5. Filled(d, s, side) = SumFunctionOnSet(f, {})
  BY <1>1, <1>3, <1>4 DEF Filled
<1>6. SumFunctionOnSet(f, {}) = 0
  BY SumByFirst, FS_EmptySet
<1>7. QED
  BY <1>5, <1>6

(* What an order row written changes: there is one order more, and it is *)
(* the request's. *)
OneOrderMore(e, d, r, status) ==
    /\ \E row \in OrderRow :
         /\ e.orders = Append(d.orders, row)
         /\ row.sym = r.sym /\ row.side = r.side /\ row.qty = r.qty
         /\ row.limit = r.limit /\ row.status = status
    /\ e.funded = d.funded

(* The rows of a view after one order is written. *)
LEMMA OrderRowWritten ==
    ASSUME NEW d, View(d), NEW r \in Asked, NEW status \in {"FILLED", "REJECTED"},
           NEW e, e = WithOrder(d, r, status)
    PROVE  OneOrderMore(e, d, r, status)
<1>1. PICK row \in OrderRow : row = [sym |-> r.sym, side |-> r.side, qty |-> r.qty,
                                    limit |-> r.limit, status |-> status]
  BY DEF OrderRow, Asked
<1>2. PICK orders : orders = Append(d.orders, row)
  OBVIOUS
<1>3. e = [d EXCEPT !.orders = orders]
  BY <1>1, <1>2 DEF WithOrder, View
<1>4. e.orders = orders /\ e.funded = d.funded
  BY <1>3 DEF View
<1>5. QED
  BY <1>1, <1>2, <1>4 DEF OneOrderMore

(* The order row that was added, by its number, and the rows before it. *)
LEMMA OrderNumbered ==
    ASSUME NEW d, View(d), NEW e, NEW r, NEW status, OneOrderMore(e, d, r, status)
    PROVE  /\ Len(d.orders) \in Nat /\ Len(e.orders) = Len(d.orders) + 1
           /\ Len(e.orders) \notin DOMAIN d.orders
           /\ DOMAIN e.orders = DOMAIN d.orders \cup {Len(e.orders)}
           /\ \A o \in DOMAIN d.orders : e.orders[o] = d.orders[o]
           /\ LET row == e.orders[Len(e.orders)] IN
                /\ row.sym = r.sym /\ row.side = r.side /\ row.qty = r.qty
                /\ row.limit = r.limit /\ row.status = status
<1>1. PICK row \in OrderRow :
        /\ e.orders = Append(d.orders, row)
        /\ row.sym = r.sym /\ row.side = r.side /\ row.qty = r.qty
        /\ row.limit = r.limit /\ row.status = status
  BY DEF OneOrderMore
<1>2. d.orders \in Seq(OrderRow)
  BY DEF View
<1>3. PICK n \in Nat : n = Len(d.orders)
  BY <1>2, LenProperties
<1>4. /\ DOMAIN d.orders = 1 .. n /\ DOMAIN e.orders = 1 .. n + 1 /\ Len(e.orders) = n + 1
      /\ \A o \in 1 .. n : e.orders[o] = d.orders[o]
      /\ e.orders[n + 1] = row
  BY <1>1, <1>2, <1>3, AppendProperties, LenProperties
<1>5. 1 .. n + 1 = 1 .. n \cup {n + 1} /\ n + 1 \notin 1 .. n
  OBVIOUS
<1>6. QED
  BY <1>1, <1>3, <1>4, <1>5

(* An order that was answered stays answered while its row stands and no *)
(* trade of it is added. *)
LEMMA AnswerStands ==
    ASSUME NEW d, NEW e, NEW o, Answered(d, o), e.orders[o] = d.orders[o],
           DOMAIN d.trades \subseteq DOMAIN e.trades,
           \A i \in DOMAIN d.trades : e.trades[i] = d.trades[i],
           \A i \in DOMAIN e.trades \ DOMAIN d.trades : e.trades[i].order # o
    PROVE  Answered(e, o)
<1>1. TradesFor(e, o) = TradesFor(d, o)
  BY DEF TradesFor
<1>2. QED
  BY <1>1 DEF Answered

(* What a view says of its book depends on the book, what was paid in and *)
(* the trades. *)
LEMMA SameBook ==
    ASSUME NEW d, NEW e, e.book = d.book, e.funded = d.funded, e.trades = d.trades
    PROVE  /\ Replayed(d) => Replayed(e)
           /\ Sound(d) => Sound(e)
<1>1. ASSUME NEW s, NEW side PROVE Filled(e, s, side) = Filled(d, s, side)
  BY DEF Filled
<1>2. Replayed(d) => Replayed(e)
  BY <1>1 DEF Replayed
<1>3. QED
  BY <1>2 DEF Sound, PositiveTrades

(* A rejected order: a row without trades. *)
LEMMA RejectionAudited ==
    ASSUME NEW d, View(d), Audited(d), NEW r \in Asked, NEW e, e = WithOrder(d, r, "REJECTED")
    PROVE  Audited(e)
<1>1. /\ e.book = d.book /\ e.trades = d.trades
      /\ OneOrderMore(e, d, r, "REJECTED")
  BY OrderWritten, OrderRowWritten
<1>2. PICK new : new = Len(e.orders)
  OBVIOUS
<1>3. /\ new \notin DOMAIN d.orders
      /\ DOMAIN e.orders = DOMAIN d.orders \cup {new}
      /\ \A o \in DOMAIN d.orders : e.orders[o] = d.orders[o]
      /\ e.orders[new].status = "REJECTED"
  BY <1>1, <1>2, OrderNumbered
<1>4. e.funded = d.funded
  BY <1>1 DEF OneOrderMore
<1>5. \A i \in DOMAIN d.trades : d.trades[i].order \in DOMAIN d.orders
  BY DEF Audited, Matched
<1>6. ASSUME NEW o \in DOMAIN e.orders PROVE Answered(e, o)
  <2>1. CASE o = new
    BY <1>1, <1>3, <1>5, <2>1 DEF Answered, TradesFor
  <2>2. CASE o \in DOMAIN d.orders
    BY <1>1, <1>3, <2>2, AnswerStands DEF Audited, Matched
  <2>3. QED
    BY <1>3, <2>1, <2>2
<1>7. Matched(e)
  BY <1>1, <1>3, <1>5, <1>6 DEF Matched
<1>8. QED
  BY <1>1, <1>4, <1>7, SameBook DEF Audited

(* What a fill writes: the order's row, the book the trade leaves, and a *)
(* trade of that order. *)
LEMMA FillRows ==
    ASSUME NEW d, View(d), NEW r \in Asked, NEW price, NEW t, t = TradeOf(r, price),
           t \in Trades, NEW e, e = WithFill(d, r, price)
    PROVE  /\ OneOrderMore(e, d, r, "FILLED")
           /\ e.book = HandleTrade(d.book, t)
           /\ \E row \in TradeRow :
                /\ row.order = Len(e.orders) /\ row.sym = t.sym /\ row.side = t.side
                /\ row.qty = t.qty /\ row.price = t.price
                /\ e.trades = Append(d.trades, row)
<1>1. PICK o : o = WithOrder(d, r, "FILLED")
  OBVIOUS
<1>2. View(o) /\ o.book = d.book /\ o.trades = d.trades /\ OneOrderMore(o, d, r, "FILLED")
  BY <1>1, OrderWritten, OrderRowWritten
<1>3. Len(o.orders) \in Nat
  BY <1>2, LenProperties DEF View
<1>4. PICK row \in TradeRow : row = [order |-> Len(o.orders), sym |-> t.sym, side |-> t.side,
                                     qty |-> t.qty, price |-> t.price]
  BY <1>3 DEF TradeRow, Trades
<1>5. PICK trades : trades = Append(o.trades, row)
  OBVIOUS
<1>6. PICK book : book = HandleTrade(o.book, t)
  OBVIOUS
<1>7. e = [o EXCEPT !.trades = trades, !.book = book]
  BY <1>1, <1>2, <1>4, <1>5, <1>6 DEF WithFill, View
<1>8. e.trades = trades /\ e.book = book /\ e.orders = o.orders /\ e.funded = o.funded
  BY <1>2, <1>7 DEF View
<1>9. OneOrderMore(e, d, r, "FILLED")
  BY <1>2, <1>8 DEF OneOrderMore
<1>10. QED
  BY <1>2, <1>4, <1>5, <1>6, <1>8, <1>9

(* The broker fills a limit order at its limit or better. *)
LEMMA FilledWithinLimit ==
    ASSUME NEW r \in Asked, NEW price \in Prices, BrokerFills(r, price)
    PROVE  WithinLimit(r, TradeOf(r, price).price)
<1>1. price \in Nat /\ Slip \in Nat /\ r.limit \in Nat
  BY TradeBookAssumption, PortfolioAssumption DEF Asked
<1>2. CASE r.limit = NoLimit
  BY <1>2 DEF WithinLimit
<1>3. CASE r.limit # NoLimit /\ r.side \in BuySides
  BY <1>1, <1>3 DEF WithinLimit, TradeOf, FillPrice
<1>4. CASE r.limit # NoLimit /\ r.side \notin BuySides
  BY <1>1, <1>4 DEF WithinLimit, TradeOf, FillPrice
<1>5. QED
  BY <1>2, <1>3, <1>4

(* The trade moves the position by what it adds to the trades table. *)
LEMMA FillReplayed ==
    ASSUME NEW d, d.trades \in Seq(TradeRow), Replayed(d), Shaped(d.book),
           NEW t \in Trades, NEW e, e.book = HandleTrade(d.book, t),
           NEW row \in TradeRow, row.sym = t.sym, row.side = t.side, row.qty = t.qty,
           e.trades = Append(d.trades, row)
    PROVE  Replayed(e)
<1>1. PICK b, h : b = d.book /\ h = e.book
  OBVIOUS
<1>2. PICK p, q : p = b.pos[t.sym] /\ q = PositionAfter(p, t)
  OBVIOUS
<1>3. /\ h.pos[t.sym].lq = q.lq /\ h.pos[t.sym].sq = q.sq
      /\ t.sym \in h.rows <=> q.lq # 0 \/ q.sq # 0
      /\ \A s \in Symbols \ {t.sym} : h.pos[s] = b.pos[s] /\ (s \in h.rows <=> s \in b.rows)
  BY <1>1, <1>2, HandleTradeEffect
<1>4. p \in PositionRow /\ p.lq \in Int /\ p.sq \in Int
  BY <1>1, <1>2 DEF Shaped, Trades, PositionRow
<1>5. /\ t.side = "BUY" => q.lq = p.lq + t.qty
      /\ t.side = "SELL" => q.lq = p.lq - t.qty
      /\ t.side \in {"SHORT", "COVER"} => q.lq = p.lq
      /\ t.side = "SHORT" => q.sq = p.sq + t.qty
      /\ t.side = "COVER" => q.sq = p.sq - t.qty
      /\ t.side \in {"BUY", "SELL"} => q.sq = p.sq
  BY <1>2, <1>4, PositionAfterRow
<1>6. t.side \in {"BUY", "SELL", "SHORT", "COVER"} /\ t.qty \in Int
  BY DEF Trades, Sides, BuySides, SellSides
<1>7. ASSUME NEW s \in Symbols
      PROVE  /\ h.pos[s].lq = Filled(e, s, "BUY") - Filled(e, s, "SELL")
             /\ h.pos[s].sq = Filled(e, s, "SHORT") - Filled(e, s, "COVER")
             /\ s \in h.rows <=> h.pos[s].lq # 0 \/ h.pos[s].sq # 0
  <2>1. PICK buy \in Int, sell \in Int, short \in Int, cover \in Int :
          /\ buy = Filled(d, s, "BUY") /\ sell = Filled(d, s, "SELL")
          /\ short = Filled(d, s, "SHORT") /\ cover = Filled(d, s, "COVER")
    BY FilledGrows
  <2>2. /\ b.pos[s].lq = buy - sell /\ b.pos[s].sq = short - cover
        /\ s \in b.rows <=> b.pos[s].lq # 0 \/ b.pos[s].sq # 0
    BY <1>1, <2>1 DEF Replayed
  <2>3. /\ Filled(e, s, "BUY") = buy + (IF t.sym = s /\ t.side = "BUY" THEN t.qty ELSE 0)
        /\ Filled(e, s, "SELL") = sell + (IF t.sym = s /\ t.side = "SELL" THEN t.qty ELSE 0)
        /\ Filled(e, s, "SHORT") = short + (IF t.sym = s /\ t.side = "SHORT" THEN t.qty ELSE 0)
        /\ Filled(e, s, "COVER") = cover + (IF t.sym = s /\ t.side = "COVER" THEN t.qty ELSE 0)
    BY <2>1, FilledGrows
  <2>4. CASE s # t.sym
    BY <1>3, <2>2, <2>3, <2>4
  <2>5. CASE s = t.sym
    <3>1. p.lq = buy - sell /\ p.sq = short - cover
      BY <1>2, <2>2, <2>5
    <3>2. CASE t.side = "BUY"
      BY <1>3, <1>5, <1>6, <2>3, <2>5, <3>1, <3>2
    <3>3. CASE t.side = "SELL"
      BY <1>3, <1>5, <1>6, <2>3, <2>5, <3>1, <3>3
    <3>4. CASE t.side = "SHORT"
      BY <1>3, <1>5, <1>6, <2>3, <2>5, <3>1, <3>4
    <3>5. CASE t.side = "COVER"
      BY <1>3, <1>5, <1>6, <2>3, <2>5, <3>1, <3>5
    <3>6. QED
      BY <1>6, <3>2, <3>3, <3>4, <3>5
  <2>6. QED
    BY <2>4, <2>5
<1>8. QED
  BY <1>1, <1>7 DEF Replayed

(* It leaves the book balanced if it is a trade of units among such trades. *)
LEMMA FillSound ==
    ASSUME NEW d, d.trades \in Seq(TradeRow), Sound(d),
           NEW t, t.qty > 0 => t \in PricedTrades, Appliable(d.book.pos[t.sym], t),
           NEW e, e.book = HandleTrade(d.book, t), e.funded = d.funded,
           NEW row \in TradeRow, row.qty = t.qty, e.trades = Append(d.trades, row)
    PROVE  Sound(e)
<1>1. SUFFICES ASSUME PositiveTrades(e) PROVE Balanced(e.book, e.funded)
  BY DEF Sound
<1>2. PICK n \in Nat : n = Len(d.trades)
  BY LenProperties
<1>3. /\ DOMAIN d.trades = 1 .. n /\ DOMAIN e.trades = 1 .. n + 1
      /\ e.trades[n + 1] = row /\ \A i \in 1 .. n : e.trades[i] = d.trades[i]
  BY <1>2, AppendProperties, LenProperties
<1>4. PositiveTrades(d) /\ row.qty > 0
  BY <1>1, <1>3 DEF PositiveTrades
<1>5. Balanced(d.book, d.funded) /\ t \in PricedTrades
  BY <1>4 DEF Sound
<1>6. QED
  BY <1>5, TradeBalances

(* A filled order: a row with one trade, as it was asked for. *)
LEMMA FillMatched ==
    ASSUME NEW d, View(d), Matched(d), NEW e, NEW r, OneOrderMore(e, d, r, "FILLED"),
           NEW row \in TradeRow, row.order = Len(e.orders), row.sym = r.sym, row.side = r.side,
           row.qty = r.qty, WithinLimit(r, row.price), e.trades = Append(d.trades, row)
    PROVE  Matched(e)
<1>1. PICK new : new = Len(e.orders)
  OBVIOUS
<1>2. /\ new \notin DOMAIN d.orders
      /\ DOMAIN e.orders = DOMAIN d.orders \cup {new}
      /\ \A o \in DOMAIN d.orders : e.orders[o] = d.orders[o]
      /\ e.orders[new].sym = r.sym /\ e.orders[new].side = r.side /\ e.orders[new].qty = r.qty
      /\ e.orders[new].limit = r.limit /\ e.orders[new].status = "FILLED"
  BY <1>1, OrderNumbered
<1>3. PICK n \in Nat : n = Len(d.trades)
  BY LenProperties DEF View
<1>4. PICK m : m = n + 1
  OBVIOUS
<1>5. PICK D, E : D = DOMAIN d.trades /\ E = DOMAIN e.trades
  OBVIOUS
<1>6. /\ D = 1 .. n /\ E = 1 .. n + 1
      /\ \A i \in D : e.trades[i] = d.trades[i]
      /\ e.trades[m] = row
  BY <1>3, <1>4, <1>5, AppendProperties, LenProperties DEF View
<1>7. D \subseteq E /\ m \in E /\ m \notin D /\ (\A i \in E : i = m \/ i \in D)
  BY <1>4, <1>6
<1>8. \A i \in D : d.trades[i].order \in DOMAIN d.orders
  BY <1>5 DEF Matched
<1>9. ASSUME NEW o \in DOMAIN e.orders PROVE Answered(e, o)
  <2>1. CASE o = new
    <3>1. TradesFor(e, new) = {m}
      <4>1. \A i \in D : e.trades[i].order # new
        BY <1>2, <1>6, <1>8
      <4>2. e.trades[m].order = new
        BY <1>1, <1>6
      <4>3. \A i \in E : e.trades[i].order = new <=> i = m
        BY <1>7, <4>1, <4>2
      <4>4. {i \in E : e.trades[i].order = new} = {m}
        BY <1>7, <4>3
      <4>5. QED
        BY <1>5, <4>4 DEF TradesFor
    <3>2. WithinLimit(e.orders[new], row.price)
      BY <1>2 DEF WithinLimit
    <3>3. QED
      BY <1>2, <1>5, <1>6, <1>7, <2>1, <3>1, <3>2 DEF Answered
  <2>2. CASE o \in DOMAIN d.orders
    <3>1. \A i \in E \ D : e.trades[i].order # o
      BY <1>1, <1>2, <1>6, <1>7, <2>2
    <3>2. Answered(d, o) /\ e.orders[o] = d.orders[o]
      BY <1>2, <2>2 DEF Matched
    <3>3. QED
      BY <1>5, <1>6, <1>7, <3>1, <3>2, AnswerStands
  <2>3. QED
    BY <1>2, <2>1, <2>2
<1>10. \A i \in E : e.trades[i].order \in DOMAIN e.orders
  BY <1>1, <1>2, <1>6, <1>7, <1>8
<1>11. QED
  BY <1>5, <1>9, <1>10 DEF Matched

(* A fill leaves a view that an auditor accepts. *)
LEMMA FillAudited ==
    ASSUME NEW d, View(d), Audited(d), Shaped(d.book), NEW r \in Asked, NEW price \in Prices,
           BrokerFills(r, price), Appliable(d.book.pos[r.sym], TradeOf(r, price)),
           NEW e, e = WithFill(d, r, price)
    PROVE  Audited(e) /\ OneOrderMore(e, d, r, "FILLED")
<1>1. PICK t \in Trades : t = TradeOf(r, price) /\ (r.qty > 0 => t \in PricedTrades)
  BY FillPriced
<1>2. t \in Trades /\ t.sym = r.sym /\ t.side = r.side /\ t.qty = r.qty
  BY <1>1, FillPriced
<1>3. /\ OneOrderMore(e, d, r, "FILLED")
      /\ e.book = HandleTrade(d.book, t)
      /\ \E row \in TradeRow :
           /\ row.order = Len(e.orders) /\ row.sym = t.sym /\ row.side = t.side
           /\ row.qty = t.qty /\ row.price = t.price
           /\ e.trades = Append(d.trades, row)
  BY <1>1, <1>2, FillRows
<1>4. PICK row \in TradeRow :
        /\ row.order = Len(e.orders) /\ row.sym = t.sym /\ row.side = t.side
        /\ row.qty = t.qty /\ row.price = t.price
        /\ e.trades = Append(d.trades, row)
  BY <1>3
<1>5. WithinLimit(r, row.price)
  BY <1>1, <1>4, FilledWithinLimit
<1>6. Matched(d) /\ Replayed(d) /\ Sound(d) /\ d.trades \in Seq(TradeRow)
  <2>1. d.book # NoBook
    BY ShapedOpen
  <2>2. QED
    BY <2>1 DEF Audited, View
<1>7. Matched(e)
  BY <1>2, <1>3, <1>4, <1>5, <1>6, FillMatched
<1>8. Replayed(e)
  BY <1>2, <1>3, <1>4, <1>6, FillReplayed
<1>9. e.funded = d.funded /\ e.funded \in Int
  BY <1>3 DEF OneOrderMore, Audited
<1>10. Sound(e)
  <2>1. Appliable(d.book.pos[t.sym], t)
    BY <1>1, <1>2
  <2>2. t.qty > 0 => t \in PricedTrades
    BY <1>1, <1>2
  <2>3. QED
    BY <1>3, <1>4, <1>6, <1>9, <2>1, <2>2, FillSound
<1>11. e.book # NoBook
  <2>1. Shaped(e.book)
    BY <1>2, <1>3, HandleTradeEffect
  <2>2. QED
    BY <2>1, ShapedOpen
<1>12. QED
  BY <1>3, <1>7, <1>8, <1>9, <1>10, <1>11 DEF Audited

-----------------------------------------------------------------------------
(* The steps *)

(* A step that leaves an audited view in the open session keeps the *)
(* invariant, if it answers nothing or what the view shows. *)
LEMMA ReturnAudits ==
    ASSUME AInv, NEW d, Audited(d), Return(d), UNCHANGED pipeline,
           reply' \in [status : {"none", "filled", "rejected", "error"}, order : Nat],
           reply'.status = "filled" => /\ reply'.order \in DOMAIN d.orders
                                       /\ d.orders[reply'.order].status = "FILLED"
    PROVE  AInv'
<1>1. work' = d /\ db' = (IF pipeline THEN db ELSE d)
  BY DEF Return
<1>2. FillsTraced'
  BY <1>1 DEF FillsTraced
<1>3. Audited(work')
  BY <1>1
<1>4. Audited(db')
  BY <1>1 DEF AInv
<1>5. QED
  BY <1>2, <1>3, <1>4 DEF AInv

(* The same for a step that neither takes nor answers an order. *)
LEMMA QuietReturnAudits ==
    ASSUME AInv, NEW d, Audited(d), d.orders = work.orders, Return(d), UNCHANGED <<pipeline, reply>>
    PROVE  AInv'
  BY ReturnAudits DEF AInv, FillsTraced

(* A rejection adds an order row, or in a session of its own nothing. *)
LEMMA RejectAudits ==
    ASSUME IInv, AInv, NEW r \in Asked, Reject(r)
    PROVE  AInv'
<1>1. PICK d : d = WithOrder(work, r, "REJECTED")
  OBVIOUS
<1>2. View(work) /\ Audited(work)
  BY DEF IInv, AInv
<1>3. Audited(d) /\ View(d)
  BY <1>1, <1>2, RejectionAudited, OrderWritten
<1>4. Len(d.orders) \in Nat
  BY <1>3, LenProperties DEF View
<1>5. PICK last \in Nat : last = Len(d.orders)
  BY <1>4
<1>6. reply' = [status |-> "rejected", order |-> last] /\ UNCHANGED pipeline
  BY <1>1, <1>5 DEF Reject
<1>7. /\ reply' \in [status : {"none", "filled", "rejected", "error"}, order : Nat]
      /\ reply'.status # "filled"
  BY <1>6
<1>8. CASE pipeline
  BY <1>1, <1>3, <1>6, <1>7, <1>8, ReturnAudits DEF Reject
<1>9. CASE ~pipeline
  <2>1. UNCHANGED <<db, work>>
    BY <1>9 DEF Reject
  <2>2. Audited(db') /\ Audited(work')
    BY <1>2, <2>1 DEF AInv
  <2>3. FillsTraced'
    BY <1>7 DEF FillsTraced
  <2>4. QED
    BY <1>6, <1>7, <2>2, <2>3 DEF AInv
<1>10. QED
  BY <1>8, <1>9

(* A fill answers with the order it wrote. *)
LEMMA FillAudits ==
    ASSUME IInv, AInv, NEW r \in Request, NEW price \in Prices, Fill(r, price)
    PROVE  AInv'
<1> DEFINE c == Clamp(work.book, r)
<1>1. PICK d : d = WithFill(work, c, price)
  OBVIOUS
<1>2. /\ Valid(work.book, r) /\ BrokerFills(c, price)
      /\ Appliable(work.book.pos[c.sym], TradeOf(c, price)) /\ Return(d) /\ UNCHANGED pipeline
      /\ reply' = [status |-> "filled", order |-> Len(work.orders) + 1]
  BY <1>1 DEF Fill
<1>3. View(work) /\ Audited(work) /\ Shaped(work.book)
  BY <1>2, ViewFields DEF IInv, AInv, Valid
<1>5. c \in Asked
  BY <1>2, <1>3, RequestAsked, ClampLeavesNoDust DEF Asked
<1>6. Audited(d) /\ OneOrderMore(d, work, c, "FILLED")
  BY <1>1, <1>2, <1>3, <1>5, FillAudited
<1>7. /\ Len(work.orders) \in Nat /\ Len(d.orders) = Len(work.orders) + 1
      /\ Len(d.orders) \in DOMAIN d.orders
      /\ d.orders[Len(d.orders)].status = "FILLED"
  BY <1>3, <1>6, OrderNumbered
<1>8. PICK last \in Nat : last = Len(work.orders) + 1
  BY <1>7
<1>9. /\ reply' \in [status : {"none", "filled", "rejected", "error"}, order : Nat]
      /\ reply'.order = last
  BY <1>2, <1>8
<1>10. QED
  BY <1>2, <1>6, <1>7, <1>8, <1>9, ReturnAudits

(* A new portfolio: its cash is what was paid in, and nothing was traded. *)
LEMMA CreateAudits == ASSUME IInv, AInv, CreatePortfolio PROVE AInv'
<1>1. InitialCash \in Int
  BY TradeBookAssumption
<1>2. PICK book : book = Opened(InitialCash)
  OBVIOUS
<1>3. PICK d : d = [work EXCEPT !.book = Opened(InitialCash), !.funded = InitialCash]
  OBVIOUS
<1>4. Return(d) /\ UNCHANGED <<pipeline, reply>> /\ ~work.book.open
  BY <1>3 DEF CreatePortfolio
<1>5. View(work) /\ Audited(work)
  BY DEF IInv, AInv
<1>6. d = [work EXCEPT !.book = book, !.funded = InitialCash]
  BY <1>2, <1>3
<1>7. d.book = book /\ d.funded = InitialCash /\ d.orders = work.orders /\ d.trades = work.trades
  BY <1>5, <1>6 DEF View
<1>8. work.book = NoBook
  BY <1>4, <1>5, ViewFields DEF View
<1>9. work.trades = <<>>
  BY <1>5, <1>8 DEF Audited
<1>10. /\ Balanced(book, InitialCash)
       /\ \A s \in Symbols : book.pos[s].lq = 0 /\ book.pos[s].sq = 0
       /\ book.rows = {}
  BY <1>1, <1>2, OpenedBalances
<1>11. Replayed(d)
  BY <1>7, <1>9, <1>10, NothingFilled DEF Replayed
<1>12. Matched(d)
  <2>1. \A o \in DOMAIN d.orders : Answered(d, o)
    BY <1>5, <1>7 DEF Audited, Matched, Answered, TradesFor
  <2>2. QED
    BY <1>5, <1>7, <2>1 DEF Audited, Matched
<1>13. Audited(d)
  BY <1>1, <1>7, <1>10, <1>11, <1>12, BalancedOpen DEF Audited, Sound
<1>14. QED
  BY <1>4, <1>7, <1>13, QuietReturnAudits

(* A view whose book moves no position stays audited, if the new book *)
(* balances where the old one did. *)
LEMMA SamePositionsAudited ==
    ASSUME NEW d, Audited(d), d.book # NoBook, NEW e, e.orders = d.orders, e.trades = d.trades,
           Balanced(d.book, d.funded) => Balanced(e.book, e.funded), e.funded \in Int,
           e.book # NoBook, e.book.pos = d.book.pos, e.book.rows = d.book.rows
    PROVE  Audited(e)
<1>1. ASSUME NEW s, NEW side PROVE Filled(e, s, side) = Filled(d, s, side)
  BY DEF Filled
<1>2. Replayed(e)
  BY <1>1 DEF Audited, Replayed
<1>3. \A o \in DOMAIN e.orders : Answered(e, o)
  BY DEF Audited, Matched, Answered, TradesFor
<1>4. Matched(e)
  BY <1>3 DEF Audited, Matched
<1>5. Sound(e)
  BY DEF Audited, Sound, PositiveTrades
<1>6. QED
  BY <1>2, <1>4, <1>5 DEF Audited

(* A deposit or withdrawal. *)
LEMMA AdjustAudits ==
    ASSUME IInv, AInv, NEW amount \in CashMoves, AdjustCash(amount)
    PROVE  AInv'
<1>1. PICK sum \in Int : sum = amount
  BY TradeBookAssumption
<1>2. PICK book, funded : book = Adjusted(work.book, work.book.cash + amount) /\ funded = work.funded + amount
  OBVIOUS
<1>3. PICK d : d = [work EXCEPT !.book = Adjusted(@, @.cash + amount), !.funded = @ + amount]
  OBVIOUS
<1>4. Return(d) /\ UNCHANGED <<pipeline, reply>> /\ work.book.open
  BY <1>3 DEF AdjustCash, CanAdjust
<1>5. View(work) /\ Audited(work) /\ work.book # NoBook
  BY <1>4 DEF IInv, AInv, NoBook
<1>6. d = [work EXCEPT !.book = book, !.funded = funded]
  BY <1>2, <1>3, <1>5 DEF View
<1>7. d.book = book /\ d.funded = funded /\ d.orders = work.orders /\ d.trades = work.trades
  BY <1>5, <1>6 DEF View
<1>8. Balanced(work.book, work.funded) => Balanced(book, funded)
  <2>1. book = Adjusted(work.book, work.book.cash + sum) /\ funded = work.funded + sum
    BY <1>1, <1>2
  <2>2. Balanced(work.book, work.funded) => Balanced(book, work.funded + sum)
    BY <2>1, AdjustBalances
  <2>3. QED
    BY <2>1, <2>2
<1>9. /\ book.pos = work.book.pos /\ book.rows = work.book.rows /\ book # NoBook
  <2>1. Shaped(work.book)
    BY <1>4, <1>5, ViewFields
  <2>2. book.open /\ book.pos = work.book.pos /\ book.rows = work.book.rows
    BY <1>2, <2>1 DEF Adjusted, Shaped
  <2>3. QED
    BY <2>2 DEF NoBook
<1>10. funded \in Int
  BY <1>1, <1>2, <1>5 DEF Audited
<1>11. Audited(d)
  BY <1>5, <1>7, <1>8, <1>9, <1>10, SamePositionsAudited
<1>12. QED
  BY <1>4, <1>7, <1>11, QuietReturnAudits

(* A mark to market. *)
LEMMA MarkAudits ==
    ASSUME IInv, AInv, NEW price \in Quotation, MarkToMarket(price)
    PROVE  AInv'
<1>1. price \in [Symbols -> Int]
  <2>1. Prices \subseteq Int
    BY TradeBookAssumption
  <2>2. QED
    BY <2>1 DEF Quotation
<1>2. PICK book : book = Marked(work.book, price)
  OBVIOUS
<1>3. PICK d : d = [work EXCEPT !.book = Marked(@, price)]
  OBVIOUS
<1>4. Return(d) /\ UNCHANGED <<pipeline, reply>> /\ work.book.open
  BY <1>3 DEF MarkToMarket
<1>5. View(work) /\ Audited(work) /\ work.book # NoBook
  BY <1>4 DEF IInv, AInv, NoBook
<1>6. d = [work EXCEPT !.book = book]
  BY <1>2, <1>3, <1>5 DEF View
<1>7. d.book = book /\ d.funded = work.funded /\ d.orders = work.orders /\ d.trades = work.trades
  BY <1>5, <1>6 DEF View
<1>8. Balanced(work.book, work.funded) => Balanced(book, work.funded)
  BY <1>1, <1>2, MarkBalances
<1>9. /\ book.pos = work.book.pos /\ book.rows = work.book.rows /\ book # NoBook
  <2>1. Shaped(work.book)
    BY <1>4, <1>5, ViewFields
  <2>2. book.open /\ book.pos = work.book.pos /\ book.rows = work.book.rows
    BY <1>2, <2>1 DEF Marked, Shaped
  <2>3. QED
    BY <2>2 DEF NoBook
<1>10. work.funded \in Int
  BY <1>5 DEF Audited
<1>11. Audited(d)
  BY <1>5, <1>7, <1>8, <1>9, <1>10, SamePositionsAudited
<1>12. QED
  BY <1>4, <1>7, <1>11, QuietReturnAudits

(* A pipeline begins, commits what it wrote or leaves what was there. *)
LEMMA PipelineAudits ==
    ASSUME AInv, BeginPipeline \/ CommitPipeline \/ AbortPipeline
    PROVE  AInv'
<1>1. Audited(db) /\ Audited(work)
  BY DEF AInv
<1>2. /\ db' \in {db, work} /\ work' \in {db, work} /\ pipeline' \in BOOLEAN
      /\ UNCHANGED <<work, reply>> \/ reply' = NoReply
  BY DEF BeginPipeline, CommitPipeline, AbortPipeline
<1>3. Audited(db') /\ Audited(work')
  BY <1>1, <1>2
<1>4. reply' \in [status : {"none", "filled", "rejected", "error"}, order : Nat] /\ FillsTraced'
  BY <1>2 DEF AInv, FillsTraced, NoReply
<1>5. QED
  BY <1>2, <1>3, <1>4 DEF AInv

(* Every step keeps the two invariants. *)
LEMMA NextAudits ==
    ASSUME IInv, AInv, [Next]_vars
    PROVE  AInv'
<1>1. Audited(db) /\ Audited(work)
  BY DEF AInv
<1>2. ASSUME NEW r \in Request, NEW c \in {r, Clamp(work.book, r)}, Reject(c),
             c = r \/ Valid(work.book, r)
      PROVE  AInv'
  <2>1. r \in Asked
    BY RequestAsked
  <2>2. Valid(work.book, r) => Shaped(work.book)
    BY ViewFields DEF IInv, Valid
  <2>3. c \in Asked
    BY <1>2, <2>1, <2>2, ClampLeavesNoDust DEF Asked
  <2>4. QED
    BY <1>2, <2>3, RejectAudits
<1>3. ASSUME NEW r \in Request, NEW price \in Prices, FillRaises(r, price) PROVE AInv'
  <2>1. /\ db' = db /\ work' = work /\ pipeline' = pipeline
        /\ reply' = [status |-> "error", order |-> 0]
    BY <1>3 DEF FillRaises
  <2>2. Audited(db') /\ Audited(work')
    BY <1>1, <2>1
  <2>3. reply' \in [status : {"none", "filled", "rejected", "error"}, order : Nat] /\ FillsTraced'
    BY <2>1 DEF FillsTraced
  <2>4. QED
    BY <2>1, <2>2, <2>3 DEF AInv
<1>4. CASE Submit
  <2>1. PICK r \in Request :
          \/ RejectInvalid(r)
          \/ \E price \in Prices :
               RejectUnfilled(r, price) \/ RejectOverdraft(r, price)
                 \/ Fill(r, price) \/ FillRaises(r, price)
    BY <1>4 DEF Submit
  <2>2. CASE RejectInvalid(r)
    BY <1>2, <2>2 DEF RejectInvalid
  <2>3. ASSUME NEW price \in Prices, RejectUnfilled(r, price) \/ RejectOverdraft(r, price)
        PROVE  AInv'
    BY <1>2, <2>3 DEF RejectUnfilled, RejectOverdraft
  <2>4. QED
    BY <1>3, <2>1, <2>2, <2>3, FillAudits
<1>5. CASE UNCHANGED vars
  <2>1. db' = db /\ work' = work /\ pipeline' = pipeline /\ reply' = reply
    BY <1>5 DEF vars
  <2>2. Audited(db') /\ Audited(work') /\ FillsTraced'
    BY <1>1, <2>1 DEF AInv, FillsTraced
  <2>3. QED
    BY <2>1, <2>2 DEF AInv
<1>6. CASE BeginPipeline \/ CommitPipeline \/ AbortPipeline
  BY <1>6, PipelineAudits
<1>7. QED
  BY <1>4, <1>5, <1>6, CreateAudits, AdjustAudits, MarkAudits DEF Next

(* The empty database is one that an auditor accepts. *)
LEMMA InitAInv == Init => AInv
<1>1. SUFFICES ASSUME Init PROVE AInv
  OBVIOUS
<1>2. DOMAIN <<>> = {}
  OBVIOUS
<1>3. Matched(EmptyTables)
  BY <1>2 DEF Matched, EmptyTables
<1>4. Audited(EmptyTables)
  BY <1>3 DEF Audited, EmptyTables
<1>5. QED
  BY <1>1, <1>4 DEF Init, AInv, FillsTraced, NoReply

(* A view that is sound is made of rows of the declared types. *)
LEMMA ViewTyped ==
    ASSUME NEW d, View(d), Audited(d)
    PROVE  d \in Tables(d) /\ (PositiveTrades(d) => d.book \in Book \cup {NoBook})
<1>1. d.funded \in Int /\ (PositiveTrades(d) => d.book \in Book \cup {NoBook})
  BY DEF Audited, Sound, Balanced
<1>2. d = [book |-> d.book, orders |-> d.orders, trades |-> d.trades, funded |-> d.funded]
  BY DEF View
<1>3. QED
  BY <1>1, <1>2 DEF View, Tables

(* An open book in the tables of a sound view is replayed by its trades, and *)
(* balanced while they are of positive units. *)
LEMMA OpenBalanced ==
    ASSUME NEW d, Audited(d), d.book.open
    PROVE  Replayed(d) /\ Sound(d)
  BY DEF Audited, NoBook

(* For any prices and any number of orders, deposits and marks, in sessions *)
(* that commit or roll back: the rows have their types and, while only *)
(* positive quantities were filled (the code refuses no others), cash is *)
(* what was paid in plus what was realized less what is invested, a closed *)
(* position leaves no basis behind, and exposure and NAV follow from the *)
(* rows (portfolio/service.py handle_trade_executed, adjust_cash and *)
(* mark_to_market). *)
THEOREM BooksAlwaysBalance == Spec => []BooksBalance
<1>1. ASSUME IInv, AInv PROVE BooksBalance
  <2>1. View(db) /\ View(work) /\ Audited(db) /\ Audited(work)
    BY <1>1 DEF IInv, AInv
  <2>2. TypeOK
    BY <1>1, <2>1, ViewTyped DEF TypeOK, AInv
  <2>3. CashIdentity
    BY <2>1, OpenBalanced DEF CashIdentity, Ordinary, Sound, Balanced
  <2>4. \A b \in OpenBooks : \E funded : Balanced(b, funded)
    BY <2>1, OpenBalanced DEF OpenBooks, Ordinary, Sound
  <2>5. NoStrandedBasis
    BY <2>4 DEF NoStrandedBasis, Balanced, Settled
  <2>6. MarkIdentity /\ NavIdentity
    BY <2>4 DEF MarkIdentity, NavIdentity, Balanced
  <2>7. QED
    BY <2>2, <2>3, <2>5, <2>6 DEF BooksBalance
<1>2. IInv /\ AInv /\ [Next]_vars => (IInv /\ AInv)'
  BY NextKeeps, NextAudits
<1>3. QED
  BY InitIInv, InitAInv, <1>1, <1>2, PTL DEF Spec

(* Whatever the quantities, replaying the trades gives the positions, and *)
(* every order is answered by exactly its trade or by none *)
(* (trade_execution/service.py submit_order). *)
THEOREM LedgerAlwaysExplainsBook == Spec => []LedgerExplainsBook
<1>1. ASSUME IInv, AInv PROVE LedgerExplainsBook
  <2>1. Audited(db) /\ Audited(work)
    BY <1>1 DEF AInv
  <2>2. LedgerExplainsPositions
    BY <2>1, OpenBalanced DEF LedgerExplainsPositions, Replayed
  <2>3. ASSUME NEW d \in {db, work}, NEW o \in DOMAIN d.orders PROVE Answered(d, o)
    BY <2>1 DEF Audited, Matched
  <2>4. OrdersMatchTrades
    BY <2>3 DEF OrdersMatchTrades, Answered, TradesFor, WithinLimit
  <2>5. QED
    BY <1>1, <2>2, <2>4 DEF LedgerExplainsBook, AInv
<1>2. IInv /\ AInv /\ [Next]_vars => (IInv /\ AInv)'
  BY NextKeeps, NextAudits
<1>3. QED
  BY InitIInv, InitAInv, <1>1, <1>2, PTL DEF Spec
=============================================================================
