---------------------------- MODULE BacktestEngine ----------------------------
(***************************************************************************)
(* The day loop of a backtest (app/modules/backtest/engine.py              *)
(* _run_simulation): the live order path and portfolio service over        *)
(* in-memory repositories, historical prices and a broker that fills at    *)
(* the next day's open (adapters/backtest_broker.py).                      *)
(*                                                                         *)
(* A day is: advance the clock, mark the positions at the close, accrue    *)
(* interest on cash, rebalance if scheduled, record a snapshot.  Trading   *)
(* days are 1 .. Days: the benchmark has a bar on each of them, while a    *)
(* symbol may miss days or disappear.  What the analysts want is left      *)
(* open; what reaches the broker is a full exit, a partial sell of what is *)
(* held or a buy, sells first, each side in alphabetical order.  The       *)
(* broker's slippage, which grows with the order's share of the volume, is *)
(* one amount here; prices are those of whole shares.                      *)
(*                                                                         *)
(* An operator named Bug_X is a wrong variant of X that no definition      *)
(* uses: a mistake that one of the properties has to catch.                *)
(***************************************************************************)
EXTENDS Portfolio, Sequences

CONSTANTS
    Days,          \* trading days of the backtest
    Bars,          \* the bars, [open, close], a symbol can have on each day; a
                   \* share pays the commission (commission_per_trade is 0.0)
    NoBar,         \* no bar for the symbol that day
    Step,          \* rebalance every Step days
    MaxStale,      \* max_stale_days of get_latest_close_with_staleness
    YieldUnit,     \* cash that earns 1 of interest per day
    MaxPart,       \* largest order the volume of a day allows
    Qtys,          \* quantities of buys and partial sells
    Alphabetical,  \* the symbols in order
    InitialCash    \* initial_capital

ASSUME BacktestAssumption ==
    /\ Days \in Nat \ {0} /\ Step \in Nat \ {0} /\ YieldUnit \in Nat \ {0}
    /\ MaxStale \in Nat /\ MaxPart \in Nat /\ InitialCash \in Nat \ {0}
    /\ Bars \in [1 .. Days -> SUBSET [open : Nat, close : Nat]]
    /\ \A d \in 1 .. Days :
         /\ NoBar \notin Bars[d]
         /\ \A b \in Bars[d] : b.open > Slip /\ b.open - Slip >= Commission
    /\ Qtys \subseteq Nat \ {0}
    /\ Symbols = {Alphabetical[i] : i \in DOMAIN Alphabetical}

VARIABLES
    store,      \* HistoricalPriceStore: the bar of each symbol on each day
    day,        \* today, by the simulated clock
    step,       \* next step of the day
    book,       \* the in-memory portfolio and positions
    todo,       \* orders of today's rebalance still to be executed
    trades,     \* the trade repository, with the day and what the fill was based on
    snapshots,  \* daily snapshots
    status,     \* of the run
    earned      \* auxiliary: interest accrued so far

vars == <<store, day, step, book, todo, trades, snapshots, status, earned>>

Stores        == [1 .. Days -> [Symbols -> UNION {Bars[d] : d \in 1 .. Days} \cup {NoBar}]]
RebalanceDays == {d \in 1 .. Days : (d - 1) % Step = 0}

(* Symbols that had not traded when the backtest starts are excluded. *)
Init ==
    /\ store \in {h \in Stores : \A s \in Symbols :
                    h[1][s] # NoBar /\ \A d \in 1 .. Days : h[d][s] \in Bars[d] \cup {NoBar}}
    /\ day = 1
    /\ step = "mark"
    /\ book = Opened(InitialCash)
    /\ todo = <<>>
    /\ trades = <<>>
    /\ snapshots = <<>>
    /\ status = "running"
    /\ earned = 0

-----------------------------------------------------------------------------
(* Historical prices *)

BarDays(s)    == {d \in 1 .. Days : store[d][s] # NoBar}
LastBar(s, d) == Max({e \in BarDays(s) : e <= d})

LatestClose(s, d) == store[LastBar(s, d)][s].close

(* The mark of a position: nothing once the symbol has been silent for *)
(* more than MaxStale trading days, as _mark_to_market says.  The price *)
(* store's own docstring has the position liquidated at the last known *)
(* price, and the plan marks at the latest close however old; nothing in *)
(* the code does either. *)
Bug_MarkPrice(s, d) == LatestClose(s, d)
MarkPrice(s, d) == IF d - LastBar(s, d) > MaxStale THEN 0 ELSE LatestClose(s, d)

(* The open the broker fills at: of the symbol's next bar, whenever it is. *)
(* The plan has fills at the close of the day itself. *)
Bug_NextOpen(s, d) == store[LastBar(s, d)][s].open
NextOpen(s, d) ==
    LET later == {e \in BarDays(s) : e > d}
    IN  IF later = {} THEN NoPrice ELSE store[Min(later)][s].open

-----------------------------------------------------------------------------
(* The day *)

MarkedAtClose(b, d) ==
    LET held == {s \in b.rows : b.pos[s].lq > 0}
        long == SumFunctionOnSet([s \in Symbols |-> MarkPrice(s, d) * b.pos[s].lq], held)
    IN  [b EXCEPT !.nav = b.cash + long, !.long = long, !.unreal = long - LongCost(b)]

MarkToMarket ==
    /\ status = "running"
    /\ step = "mark"
    /\ book' = MarkedAtClose(book, day)
    /\ step' = "accrue"
    /\ UNCHANGED <<store, day, todo, trades, snapshots, status, earned>>

Interest(b) == IF b.cash > 0 THEN b.cash \div YieldUnit ELSE 0

Bug_AccrueCashYield ==
    /\ status = "running"
    /\ step = "accrue"
    /\ book' = [book EXCEPT !.nav = @ + Interest(book)]
    /\ earned' = earned + Interest(book)
    /\ step' = IF day \in RebalanceDays THEN "decide" ELSE "snapshot"
    /\ UNCHANGED <<store, day, todo, trades, snapshots, status>>
AccrueCashYield ==
    /\ status = "running"
    /\ step = "accrue"
    /\ book' = [book EXCEPT !.cash = @ + Interest(book), !.nav = @ + Interest(book)]
    /\ earned' = earned + Interest(book)
    /\ step' = IF day \in RebalanceDays THEN "decide" ELSE "snapshot"
    /\ UNCHANGED <<store, day, todo, trades, snapshots, status>>

(* generate_orders: at most one order per symbol; a name with no target is *)
(* sold whole, stale or not (its latest close still prices it). *)
Order(s, side, qty) == [sym |-> s, side |-> side, qty |-> qty, limit |-> NoLimit]

Orders(s) ==
    LET held == book.pos[s].lq IN
    {Order(s, "BUY", q) : q \in Qtys}
      \cup {Order(s, "SELL", q) : q \in {x \in Qtys : x < held} \cup ({held} \ {0})}

(* Sells first, so that their proceeds fund the buys; each side by symbol. *)
Before(r1, r2) ==
    \/ r1.side = "SELL" /\ r2.side = "BUY"
    \/ /\ r1.side = r2.side
       /\ \E i, j \in DOMAIN Alphabetical :
            i < j /\ Alphabetical[i] = r1.sym /\ Alphabetical[j] = r2.sym

Plan(q) == \A i, j \in DOMAIN q : i < j => q[i].sym # q[j].sym /\ Before(q[i], q[j])

(* read_portfolio_state refuses a NAV that is not positive; any other *)
(* failure of the pipeline ends the run as well. *)
Decide ==
    /\ status = "running"
    /\ step = "decide"
    /\ book.nav > 0
    /\ \E n \in 0 .. Cardinality(Symbols) :
         \E q \in [1 .. n -> UNION {Orders(s) : s \in Symbols}] : Plan(q) /\ todo' = q
    /\ step' = "execute"
    /\ UNCHANGED <<store, day, book, trades, snapshots, status, earned>>

Bug_PipelineFails ==
    /\ status = "running"
    /\ step = "decide"
    /\ step' = "snapshot"
    /\ status' = "failed"
    /\ snapshots' = Append(snapshots, [day |-> day, nav |-> book.nav, cash |-> book.cash])
    /\ UNCHANGED <<store, day, book, todo, trades, earned>>
PipelineFails ==
    /\ status = "running"
    /\ step = "decide"
    /\ status' = "failed"
    /\ UNCHANGED <<store, day, step, book, todo, trades, snapshots, earned>>

-----------------------------------------------------------------------------
(* execute_trades: submit_order for each order, against the backtest broker *)

(* Orders beyond the participation limit of today's volume are rejected; a *)
(* day without a bar has no volume to compare with. *)
VolumeAllows(r) == store[day][r.sym] = NoBar \/ r.qty <= MaxPart

Fills(r) ==
    LET price == NextOpen(r.sym, day) IN
    /\ Valid(book, r)
    /\ VolumeAllows(r)
    /\ BrokerFills(r, price)
    /\ CashCovers(book, TradeOf(r, price))

InHand == Clamp(book, Head(todo))

Fill ==
    /\ status = "running"
    /\ step = "execute"
    /\ todo # <<>>
    /\ Fills(InHand)
    /\ LET t == TradeOf(InHand, NextOpen(InHand.sym, day)) IN
         /\ book' = HandleTrade(book, t)
         /\ trades' = Append(trades, [day |-> day, sym |-> t.sym, side |-> t.side,
                                      qty |-> t.qty, price |-> t.price])
    /\ todo' = Tail(todo)
    /\ UNCHANGED <<store, day, step, snapshots, status, earned>>

Bug_Reject ==
    /\ status = "running"
    /\ step = "execute"
    /\ todo # <<>>
    /\ ~Fills(InHand)
    /\ todo' = Append(Tail(todo), Head(todo))
    /\ UNCHANGED <<store, day, step, book, trades, snapshots, status, earned>>
Reject ==
    /\ status = "running"
    /\ step = "execute"
    /\ todo # <<>>
    /\ ~Fills(InHand)
    /\ todo' = Tail(todo)
    /\ UNCHANGED <<store, day, step, book, trades, snapshots, status, earned>>

Executed ==
    /\ status = "running"
    /\ step = "execute"
    /\ todo = <<>>
    /\ step' = "snapshot"
    /\ UNCHANGED <<store, day, book, todo, trades, snapshots, status, earned>>

-----------------------------------------------------------------------------
(* The end of a day *)

RecordSnapshot ==
    /\ status = "running"
    /\ step = "snapshot"
    /\ snapshots' = Append(snapshots, [day |-> day, nav |-> book.nav, cash |-> book.cash])
    /\ IF day = Days THEN status' = "completed" /\ UNCHANGED <<day, step>>
                     ELSE day' = day + 1 /\ step' = "mark" /\ UNCHANGED status
    /\ UNCHANGED <<store, book, todo, trades, earned>>

(* The cancellation event is looked at before a day begins. *)
Cancelled ==
    /\ status = "running"
    /\ step = "mark"
    /\ status' = "cancelled"
    /\ UNCHANGED <<store, day, step, book, todo, trades, snapshots, earned>>

Next ==
    \/ MarkToMarket \/ AccrueCashYield
    \/ Decide \/ PipelineFails
    \/ Fill \/ Reject \/ Executed
    \/ RecordSnapshot \/ Cancelled

Spec     == Init /\ [][Next]_vars
FairSpec == Spec /\ WF_vars(Next)

-----------------------------------------------------------------------------
(* Properties *)

(* Every variable has its type. *)
TypeOK ==
    /\ day \in 1 .. Days
    /\ step \in {"mark", "accrue", "decide", "execute", "snapshot"}
    /\ status \in {"running", "completed", "failed", "cancelled"}
    /\ book.pos \in [Symbols -> Position] /\ book.rows \subseteq Symbols
    /\ \A i \in DOMAIN trades : trades[i].qty > 0 /\ trades[i].price > 0

(* Two code paths write cash, the fills and the interest accrual, and the *)
(* marks in between must touch neither: cash is always the initial capital *)
(* plus interest plus realized P&L less the cost of what is held. *)
CashExplained == book.cash = InitialCash + earned + book.real - LongCost(book)

(* No fill of a simulated day overdraws the book, although interest, sells *)
(* and buys of the day all change the cash the gate looks at. *)
NoOverdraft == book.cash >= 0

(* The simulated book keeps its cash in order whatever mixes on a day. *)
CashSound == TypeOK /\ CashExplained /\ NoOverdraft

Held(s, d) ==
    LET qty(side) == SumFunctionOnSet([i \in DOMAIN trades |-> trades[i].qty],
                       {i \in DOMAIN trades : trades[i].sym = s /\ trades[i].side = side /\ trades[i].day <= d})
    IN  qty("BUY") - qty("SELL")
Close(s, d) ==
    IF \E e \in BarDays(s) : e \in d - MaxStale .. d THEN store[LastBar(s, d)][s].close ELSE 0
AtClose(i) == snapshots[i].cash + SumFunction([s \in Symbols |-> Close(s, i) * Held(s, i)])
TradedOn(d) == \E i \in DOMAIN trades : trades[i].day = d

(* On a day without fills the recorded NAV is cash plus the positions that *)
(* the trades add up to, at the day's close, with a symbol silent for too *)
(* long at nothing (engine.py _mark_to_market) and not at its last known *)
(* price, as historical_data.py:78 has it. *)
QuietDayAtClose ==
    \A i \in DOMAIN snapshots : ~TradedOn(i) => snapshots[i].nav = AtClose(i)

(* Trades happen on rebalance days, once per symbol and day, at the open of *)
(* a bar that lies after the day of the decision, slipped against the fund; *)
(* so nothing that has stopped trading is ever traded.  The open is what *)
(* backtest_broker.py submit_order takes, against the plan's close. *)
TradesAtLaterOpen ==
    \A i \in DOMAIN trades :
        LET t == trades[i] IN
        /\ t.day \in RebalanceDays
        /\ \E d \in t.day + 1 .. Days :
             /\ store[d][t.sym] # NoBar
             /\ t.price = store[d][t.sym].open + (IF t.side = "BUY" THEN Slip ELSE -Slip)
        /\ \A j \in DOMAIN trades : trades[j].day = t.day /\ trades[j].sym = t.sym => j = i

(* The snapshots are those of a prefix of the trading days, one each: all *)
(* days exactly when the run completed, the days before the last one when *)
(* it stopped early; a day without a snapshot leaves no trades behind. *)
SnapshotsArePrefix ==
    /\ \A i \in DOMAIN snapshots : snapshots[i].day = i
    /\ status = "completed" <=> Len(snapshots) = Days
    /\ status \in {"failed", "cancelled"} => Len(snapshots) = day - 1
    /\ status # "running" => \A i \in DOMAIN trades : trades[i].day <= Len(snapshots)

(* A simulation ends. *)
Finishes == <>(status # "running")
=============================================================================
