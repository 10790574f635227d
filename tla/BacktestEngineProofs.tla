-------------------------- MODULE BacktestEngineProofs --------------------------
(***************************************************************************)
(* The day loop of a backtest, for any number of days, any symbols, price  *)
(* histories and plans, and whenever it fails or is cancelled: what it     *)
(* records is a prefix of its days, its cash is sound, its trades are at   *)
(* later opens, and its NAV is that of the close.                          *)
(*                                                                         *)
(* The four arguments are layered: IInv is about days and lists alone;     *)
(* HistoryKept and CashKept add the prices and the book; OrdersKept and    *)
(* MarksKept rest on both.                                                 *)
(***************************************************************************)
EXTENDS BacktestEngine, PortfolioProofs, SequenceTheorems

(* A list, whatever its elements are. *)
Listed(s) == \E S : s \in Seq(S)

(* How many days are recorded: those before today, and today itself only *)
(* when the run completed with it. *)
Recorded == IF status = "completed" THEN Days ELSE day - 1

(* The inductive invariant.  Trades of today exist only from the execution *)
(* of today's orders on, and a run that stops early stops before it: this *)
(* is why a day without a snapshot leaves no trades. *)
IInv ==
    /\ day \in 1 .. Days
    /\ step \in {"mark", "accrue", "decide", "execute", "snapshot"}
    /\ status \in {"running", "completed", "failed", "cancelled"}
    /\ status \in {"failed", "cancelled"} => step \in {"mark", "decide"}
    /\ Listed(snapshots) /\ Listed(trades)
    /\ Len(snapshots) = Recorded
    /\ \A i \in DOMAIN snapshots : snapshots[i].day = i
    /\ \A i \in DOMAIN trades :
         /\ trades[i].day \in 1 .. day
         /\ status # "completed" /\ trades[i].day = day => step \in {"execute", "snapshot"}

(* A list grows by one element, at its end. *)
LEMMA ListedAppend ==
    ASSUME NEW s, Listed(s), NEW e
    PROVE  /\ Listed(Append(s, e))
           /\ Len(s) \in Nat /\ Len(Append(s, e)) = Len(s) + 1
           /\ DOMAIN s = 1 .. Len(s) /\ DOMAIN Append(s, e) = 1 .. Len(s) + 1
           /\ \A i \in 1 .. Len(s) : Append(s, e)[i] = s[i]
           /\ Append(s, e)[Len(s) + 1] = e
<1>1. PICK S : s \in Seq(S)
  BY DEF Listed
<1>2. PICK T : T = S \cup {e}
  OBVIOUS
<1>3. s \in Seq(T) /\ e \in T
  BY <1>1, <1>2, LenProperties
<1>4. QED
  BY <1>3, AppendProperties, LenProperties DEF Listed

(* The start of a backtest satisfies the invariant. *)
LEMMA InitIInv == Init => IInv
<1>1. SUFFICES ASSUME Init PROVE IInv
  OBVIOUS
<1>2. <<>> \in Seq({}) /\ Len(<<>>) = 0
  BY EmptySeq
<1>3. Listed(<<>>) /\ DOMAIN <<>> = {}
  BY <1>2, LenProperties DEF Listed
<1>4. day = 1 /\ Days \in Nat \ {0}
  BY <1>1, BacktestAssumption DEF Init
<1>5. QED
  BY <1>1, <1>2, <1>3, <1>4 DEF Init, IInv, Recorded

(* Marking, accruing, deciding, failing, rejecting and cancelling neither *)
(* record nor trade; they leave the days alone and move the step on. *)
LEMMA QuietKeeps ==
    ASSUME IInv, UNCHANGED <<day, snapshots, trades>>, status = "running",
           \/ status' = "running" /\ step' \in {"mark", "accrue", "decide", "execute", "snapshot"}
              /\ (step \in {"execute", "snapshot"} => step' \in {"execute", "snapshot"})
           \/ status' \in {"failed", "cancelled"} /\ step' = step /\ step \in {"mark", "decide"}
    PROVE  IInv'
<1>1. Recorded' = Recorded
  BY DEF Recorded
<1>2. QED
  BY <1>1 DEF IInv

(* A fill happens on the day of its decision. *)
LEMMA FillKeeps == ASSUME IInv, Fill PROVE IInv'
<1>1. /\ status = "running" /\ step = "execute" /\ UNCHANGED <<day, step, snapshots, status>>
      /\ \E t : trades' = Append(trades, t) /\ t.day = day
  BY DEF Fill
<1>2. PICK t : trades' = Append(trades, t) /\ t.day = day
  BY <1>1
<1>3. /\ Listed(trades') /\ DOMAIN trades = 1 .. Len(trades) /\ Len(trades) \in Nat
      /\ DOMAIN trades' = 1 .. Len(trades) + 1
      /\ \A i \in 1 .. Len(trades) : trades'[i] = trades[i]
      /\ trades'[Len(trades) + 1] = t
  BY <1>2, ListedAppend DEF IInv
<1>4. \A i \in DOMAIN trades' : trades'[i].day \in 1 .. day
  <2>1. SUFFICES ASSUME NEW i \in 1 .. Len(trades) + 1 PROVE trades'[i].day \in 1 .. day
    BY <1>3
  <2>2. CASE i \in 1 .. Len(trades)
    BY <1>3, <2>2 DEF IInv
  <2>3. CASE i = Len(trades) + 1
    BY <1>2, <1>3, <2>3 DEF IInv
  <2>4. QED
    BY <1>3, <2>2, <2>3
<1>5. Recorded' = Recorded
  BY <1>1 DEF Recorded
<1>6. QED
  BY <1>1, <1>3, <1>4, <1>5 DEF IInv

(* A snapshot closes its day. *)
LEMMA RecordKeeps == ASSUME IInv, RecordSnapshot PROVE IInv'
<1> DEFINE n == Len(snapshots)
<1>1. /\ status = "running" /\ step = "snapshot" /\ UNCHANGED trades
      /\ \/ day = Days /\ status' = "completed" /\ UNCHANGED <<day, step>>
         \/ day # Days /\ day' = day + 1 /\ step' = "mark" /\ UNCHANGED status
  BY DEF RecordSnapshot
<1>2. PICK s : snapshots' = Append(snapshots, s) /\ s.day = day
  BY DEF RecordSnapshot
<1>3. /\ Listed(snapshots') /\ n \in Nat /\ Len(snapshots') = n + 1
      /\ DOMAIN snapshots = 1 .. n /\ DOMAIN snapshots' = 1 .. n + 1
      /\ \A i \in 1 .. n : snapshots'[i] = snapshots[i]
      /\ snapshots'[n + 1] = s
  BY <1>2, ListedAppend DEF IInv
<1>4. n = day - 1 /\ day \in 1 .. Days /\ Days \in Nat \ {0}
  BY <1>1, BacktestAssumption DEF IInv, Recorded
<1>5. \A i \in DOMAIN snapshots' : snapshots'[i].day = i
  <2>1. SUFFICES ASSUME NEW i \in 1 .. n + 1 PROVE snapshots'[i].day = i
    BY <1>3
  <2>2. CASE i \in 1 .. n
    BY <1>3, <2>2 DEF IInv
  <2>3. CASE i = n + 1
    BY <1>2, <1>3, <1>4, <2>3
  <2>4. QED
    BY <1>3, <2>2, <2>3
<1>6. CASE day = Days /\ status' = "completed" /\ UNCHANGED <<day, step>>
  <2>1. Len(snapshots') = Recorded'
    BY <1>3, <1>4, <1>6 DEF Recorded
  <2>2. QED
    BY <1>1, <1>3, <1>5, <1>6, <2>1 DEF IInv
<1>7. CASE day # Days /\ day' = day + 1 /\ step' = "mark" /\ UNCHANGED status
  <2>1. Len(snapshots') = Recorded' /\ day' \in 1 .. Days
    BY <1>1, <1>3, <1>4, <1>7 DEF Recorded
  <2>2. \A i \in DOMAIN trades' : trades'[i].day \in 1 .. day' /\ trades'[i].day # day'
    BY <1>1, <1>4, <1>7 DEF IInv
  <2>3. QED
    BY <1>1, <1>3, <1>5, <1>7, <2>1, <2>2 DEF IInv
<1>8. QED
  BY <1>1, <1>6, <1>7

(* Every step of the day loop keeps the invariant. *)
LEMMA NextKeeps == IInv /\ [Next]_vars => IInv'
<1>1. SUFFICES ASSUME IInv, [Next]_vars PROVE IInv'
  OBVIOUS
<1>2. CASE MarkToMarket
  BY <1>1, <1>2, QuietKeeps DEF MarkToMarket
<1>3. CASE AccrueCashYield
  BY <1>1, <1>3, QuietKeeps DEF AccrueCashYield
<1>4. CASE Decide
  BY <1>1, <1>4, QuietKeeps DEF Decide
<1>5. CASE PipelineFails
  BY <1>1, <1>5, QuietKeeps DEF PipelineFails
<1>6. CASE Fill
  BY <1>1, <1>6, FillKeeps
<1>7. CASE Reject
  BY <1>1, <1>7, QuietKeeps DEF Reject
<1>8. CASE Executed
  BY <1>1, <1>8, QuietKeeps DEF Executed
<1>9. CASE RecordSnapshot
  BY <1>1, <1>9, RecordKeeps
<1>10. CASE Cancelled
  BY <1>1, <1>10, QuietKeeps DEF Cancelled
<1>11. CASE UNCHANGED vars
  BY <1>1, <1>11 DEF vars, IInv, Recorded
<1>12. QED
  BY <1>1, <1>2, <1>3, <1>4, <1>5, <1>6, <1>7, <1>8, <1>9, <1>10, <1>11 DEF Next

(* For any number of days and any way a run ends, its snapshots are one for *)
(* each day of a prefix of the period, the whole of it exactly when the run *)
(* completed, and no trade lies behind the last one (engine.py, the day *)
(* loop of _run_simulation). *)
THEOREM RecordsAPrefix == Spec => []SnapshotsArePrefix
<1>1. ASSUME IInv PROVE SnapshotsArePrefix
  <2>1. Days \in Nat \ {0} /\ day \in 1 .. Days /\ Len(snapshots) = Recorded
    BY <1>1, BacktestAssumption DEF IInv
  <2>2. status = "completed" <=> Len(snapshots) = Days
    BY <2>1 DEF Recorded
  <2>3. status \in {"failed", "cancelled"} => Len(snapshots) = day - 1
    BY <2>1 DEF Recorded
  <2>4. ASSUME status # "running", NEW i \in DOMAIN trades
        PROVE  trades[i].day <= Len(snapshots)
    <3>1. trades[i].day \in 1 .. day
      BY <1>1 DEF IInv
    <3>2. CASE status = "completed"
      BY <2>1, <3>1, <3>2 DEF Recorded
    <3>3. CASE status # "completed"
      <4>1. trades[i].day # day
        BY <1>1, <2>4, <3>3 DEF IInv
      <4>2. QED
        BY <2>1, <3>1, <3>3, <4>1 DEF Recorded
    <3>4. QED
      BY <3>2, <3>3
  <2>5. QED
    BY <1>1, <2>2, <2>3, <2>4 DEF IInv, SnapshotsArePrefix
<1>2. QED
  BY InitIInv, NextKeeps, <1>1, PTL DEF Spec
-----------------------------------------------------------------------------
(* The inductive invariants of the book and of the prices *)

BacktestOrders == [sym : Symbols, side : {"BUY", "SELL"}, qty : Nat \ {0}, limit : {NoLimit}]

(* The price history: every bar is one its day can have, and every symbol *)
(* trades on the first day. *)
HistoryKept ==
    /\ \A d \in 1 .. Days : \A s \in Symbols : store[d][s] \in Bars[d] \cup {NoBar}
    /\ \A s \in Symbols : store[1][s] # NoBar

(* The book: balanced with what was paid in and what interest added, in *)
(* cash, and long only; the orders in hand are market orders to buy or sell. *)
CashKept ==
    /\ earned \in Int
    /\ Balanced(book, InitialCash + earned)
    /\ book.cash >= 0
    /\ \A s \in Symbols : book.pos[s].sq = 0
    /\ Listed(todo)
    /\ \A i \in DOMAIN todo : todo[i] \in BacktestOrders
    /\ \A i \in DOMAIN trades :
         /\ trades[i].sym \in Symbols /\ trades[i].side \in {"BUY", "SELL"}
         /\ trades[i].qty \in Nat \ {0} /\ trades[i].price \in Nat \ {0}

(* The price of a trade: the open of a later bar, slipped against the fund. *)
AtLaterOpen(t) ==
    \E d \in t.day + 1 .. Days :
      /\ store[d][t.sym] # NoBar
      /\ t.price = store[d][t.sym].open + (IF t.side = "BUY" THEN Slip ELSE -Slip)

(* The orders in hand are for different symbols, none of which was traded *)
(* today; so no symbol is traded twice on a day. *)
OrdersKept ==
    /\ step \in {"decide", "execute"} => day \in RebalanceDays
    /\ \A i, j \in DOMAIN todo : i < j => todo[i].sym # todo[j].sym
    /\ \A i \in DOMAIN trades :
         /\ trades[i].day \in RebalanceDays /\ AtLaterOpen(trades[i])
         /\ \A j \in DOMAIN todo : trades[i].day = day => trades[i].sym # todo[j].sym
         /\ \A j \in DOMAIN trades :
              trades[j].day = trades[i].day /\ trades[j].sym = trades[i].sym => j = i

MarkValue(b, d) == SumFunctionOnSet([s \in Symbols |-> MarkPrice(s, d) * b.pos[s].lq], Symbols)

(* The positions are what the trades add up to; from the mark on, a day *)
(* without fills keeps the NAV at the close. *)
MarksKept ==
    /\ \A s \in Symbols : book.pos[s].lq = Held(s, Days)
    /\ step # "mark" /\ ~TradedOn(day) => book.nav = book.cash + MarkValue(book, day)
    /\ \A i \in DOMAIN snapshots : ~TradedOn(i) => snapshots[i].nav = AtClose(i)

-----------------------------------------------------------------------------
(* Historical prices *)

(* A finite set of integers that is not empty has a largest element. *)
LEMMA MaxTaken ==
    ASSUME NEW S \in SUBSET Int, IsFiniteSet(S), S # {}
    PROVE  Max(S) \in S /\ \A y \in S : Max(S) >= y
<1> DEFINE C == {s \in SUBSET S : s # {} /\ ~ \E x \in s : \A y \in s : x >= y}
<1>1. SUFFICES ASSUME C # {} PROVE FALSE
  <2>1. SUFFICES ASSUME C = {} PROVE \E x \in S : \A y \in S : x >= y
    BY DEF Max
  <2>2. QED
    BY <2>1
<1>2. PICK s \in C : \A t \in SUBSET s : t # s => t \notin C
  <2>1. C \in SUBSET SUBSET S
    OBVIOUS
  <2> HIDE DEF C
  <2>2. QED
    BY <1>1, <2>1, SmallestSet
<1>3. PICK x \in s : TRUE
  OBVIOUS
<1>4. s \ {x} = {} \/ \E z \in s \ {x} : \A y \in s \ {x} : z >= y
  BY <1>2, <1>3
<1>5. QED
  BY <1>2, <1>3, <1>4

(* And a smallest one. *)
LEMMA MinTaken ==
    ASSUME NEW S \in SUBSET Int, IsFiniteSet(S), S # {}
    PROVE  Min(S) \in S /\ \A y \in S : Min(S) =< y
<1> DEFINE C == {s \in SUBSET S : s # {} /\ ~ \E x \in s : \A y \in s : x =< y}
<1>1. SUFFICES ASSUME C # {} PROVE FALSE
  <2>1. SUFFICES ASSUME C = {} PROVE \E x \in S : \A y \in S : x =< y
    BY DEF Min
  <2>2. QED
    BY <2>1
<1>2. PICK s \in C : \A t \in SUBSET s : t # s => t \notin C
  <2>1. C \in SUBSET SUBSET S
    OBVIOUS
  <2> HIDE DEF C
  <2>2. QED
    BY <1>1, <2>1, SmallestSet
<1>3. PICK x \in s : TRUE
  OBVIOUS
<1>4. s \ {x} = {} \/ \E z \in s \ {x} : \A y \in s \ {x} : z =< y
  BY <1>2, <1>3
<1>5. QED
  BY <1>2, <1>3, <1>4

(* The days of a backtest are finitely many. *)
LEMMA DaysFinite ==
    ASSUME NEW S \in SUBSET (1 .. Days)
    PROVE  IsFiniteSet(S)
<1>1. Days \in Int /\ 1 \in Int
  BY BacktestAssumption
<1>2. IsFiniteSet(1 .. Days)
  BY <1>1, FS_Interval
<1>3. QED
  BY <1>2, FS_Subset

(* Every symbol has a last bar, on any day. *)
LEMMA LastBarTaken ==
    ASSUME HistoryKept, NEW s \in Symbols, NEW d \in 1 .. Days
    PROVE  LastBar(s, d) \in BarDays(s) /\ LastBar(s, d) \in 1 .. d
<1>1. Days \in Nat \ {0}
  BY BacktestAssumption
<1>2. PICK bars \in SUBSET (1 .. Days) : bars = {e \in BarDays(s) : e <= d}
  BY DEF BarDays
<1>3. IsFiniteSet(bars)
  BY DaysFinite
<1>4. 1 \in bars
  BY <1>1, <1>2 DEF HistoryKept, BarDays
<1>5. Max(bars) \in bars
  BY <1>3, <1>4, MaxTaken
<1>6. QED
  BY <1>1, <1>2, <1>5 DEF LastBar

(* A mark is a number, and what Close says of the trades' symbols. *)
LEMMA MarkIsClose ==
    ASSUME HistoryKept, NEW s \in Symbols, NEW d \in 1 .. Days
    PROVE  MarkPrice(s, d) \in Nat /\ Close(s, d) = MarkPrice(s, d)
<1>1. Days \in Nat \ {0} /\ MaxStale \in Nat
  BY BacktestAssumption
<1>2. PICK e \in 1 .. Days : e = LastBar(s, d) /\ e \in BarDays(s) /\ e <= d
  BY LastBarTaken, <1>1 DEF BarDays
<1>3. store[e][s] \in Bars[e]
  BY <1>2 DEF HistoryKept, BarDays
<1>4. store[e][s].close \in Nat
  BY <1>3, BacktestAssumption
<1>5. \A x \in BarDays(s) : x <= d => x <= e
  <2>1. PICK bars \in SUBSET (1 .. Days) : bars = {x \in BarDays(s) : x <= d}
    BY DEF BarDays
  <2>2. IsFiniteSet(bars) /\ bars # {}
    BY <1>2, <2>1, DaysFinite
  <2>3. \A x \in bars : Max(bars) >= x
    BY <2>2, MaxTaken
  <2>4. Max(bars) = e
    BY <1>2, <2>1 DEF LastBar
  <2>5. QED
    BY <1>1, <2>1, <2>3, <2>4
<1>6. (\E x \in BarDays(s) : x \in d - MaxStale .. d) <=> d - e <= MaxStale
  <2>1. \A x \in BarDays(s) : x \in Int
    BY <1>1 DEF BarDays
  <2>2. QED
    BY <1>1, <1>2, <1>5, <2>1
<1>7. QED
  BY <1>1, <1>2, <1>4, <1>6 DEF MarkPrice, Close, LatestClose

(* The broker fills at the open of a later bar, and what a share fetches *)
(* pays the commission. *)
LEMMA NextOpenTaken ==
    ASSUME HistoryKept, NEW s \in Symbols, NEW d \in 1 .. Days, NextOpen(s, d) # NoPrice
    PROVE  /\ \E e \in d + 1 .. Days : store[e][s] # NoBar /\ NextOpen(s, d) = store[e][s].open
           /\ NextOpen(s, d) \in Nat
           /\ NextOpen(s, d) > Slip /\ NextOpen(s, d) - Slip >= Commission
<1>1. Days \in Nat \ {0}
  BY BacktestAssumption
<1>2. PICK later \in SUBSET (1 .. Days) : later = {e \in BarDays(s) : e > d}
  BY DEF BarDays
<1>3. later # {} /\ NextOpen(s, d) = store[Min(later)][s].open
  BY <1>2 DEF NextOpen
<1>4. PICK e \in later : e = Min(later)
  <2>1. IsFiniteSet(later) /\ later \in SUBSET Int
    BY <1>1, DaysFinite
  <2>2. QED
    BY <1>3, <2>1, MinTaken
<1>5. e \in d + 1 .. Days /\ store[e][s] # NoBar /\ e \in 1 .. Days
  BY <1>1, <1>2, <1>4 DEF BarDays
<1>6. store[e][s] \in Bars[e]
  BY <1>5 DEF HistoryKept
<1>7. store[e][s].open \in Nat /\ store[e][s].open > Slip /\ store[e][s].open - Slip >= Commission
  BY <1>5, <1>6, BacktestAssumption
<1>8. QED
  BY <1>3, <1>4, <1>5, <1>7

-----------------------------------------------------------------------------
(* The book *)

(* Taking the first element off a list. *)
LEMMA ListedTail ==
    ASSUME NEW s, Listed(s), s # <<>>
    PROVE  /\ Listed(Tail(s)) /\ Len(s) \in Nat \ {0}
           /\ DOMAIN s = 1 .. Len(s) /\ DOMAIN Tail(s) = 1 .. Len(s) - 1
           /\ Head(s) = s[1]
           /\ \A i \in 1 .. Len(s) - 1 : Tail(s)[i] = s[i + 1]
<1>1. PICK S : s \in Seq(S)
  BY DEF Listed
<1>2. Len(s) \in Nat \ {0} /\ DOMAIN s = 1 .. Len(s)
  BY <1>1, EmptySeq, LenProperties
<1>3. Tail(s) \in Seq(S) /\ Len(Tail(s)) = Len(s) - 1
      /\ \A i \in 1 .. Len(Tail(s)) : Tail(s)[i] = s[i + 1]
  BY <1>1, HeadTailProperties
<1>4. Head(s) = s[1]
  BY <1>1
<1>5. QED
  BY <1>2, <1>3, <1>4, LenProperties DEF Listed

(* A balanced book is a shaped one. *)
LEMMA BalancedShaped ==
    ASSUME NEW b, NEW funded, Balanced(b, funded)
    PROVE  Shaped(b)
<1>1. b \in Book
  BY DEF Balanced
<1>2. Position \subseteq PositionRow
  BY DEF Position, PositionRow
<1>3. b.pos \in [Symbols -> PositionRow]
  BY <1>1, <1>2 DEF Book
<1>4. QED
  BY <1>1, <1>3 DEF Shaped, Book

(* The clamp of an order that validation then passes, in a book without *)
(* shorts: it is for the same symbol and sells no more than what is held. *)
LEMMA ClampSellsHeld ==
    ASSUME NEW b, NEW funded, Balanced(b, funded), \A s \in Symbols : b.pos[s].sq = 0,
           NEW r \in BacktestOrders, NEW c, c = Clamp(b, r), Valid(b, c)
    PROVE  /\ c \in BacktestOrders /\ c.sym = r.sym /\ c.side = r.side
           /\ c.side = "SELL" => c.qty <= b.pos[c.sym].lq
<1>1. /\ r.sym \in Symbols /\ r.qty \in Nat \ {0} /\ Tol \in Nat
      /\ b.pos[r.sym].lq \in Nat /\ b.pos[r.sym].sq = 0
  BY PortfolioAssumption DEF BacktestOrders, Balanced, Book, Position
<1>2. CASE NearFullSell(b, r)
  <2>1. c = [r EXCEPT !.qty = b.pos[r.sym].lq] /\ b.pos[r.sym].lq > 0
    BY <1>2 DEF Clamp, NearFullSell
  <2>2. QED
    BY <1>1, <2>1 DEF BacktestOrders
<1>3. CASE ~NearFullSell(b, r)
  <2>1. c = r
    BY <1>3 DEF Clamp
  <2>2. ASSUME r.side = "SELL"
        PROVE  r.qty <= b.pos[r.sym].lq
    <3>1. r.sym \in b.rows /\ r.qty <= b.pos[r.sym].lq + Tol
      BY <2>1, <2>2 DEF Valid
    <3>2. b.pos[r.sym].lq > 0
      BY <1>1, <3>1 DEF Balanced
    <3>3. Abs(r.qty - b.pos[r.sym].lq) > Tol
      BY <1>1, <1>3, <2>2, <3>2 DEF NearFullSell, Abs
    <3>4. QED
      BY <1>1, <3>1, <3>3 DEF Abs
  <2>3. QED
    BY <2>1, <2>2
<1>4. QED
  BY <1>2, <1>3

(* The trade of a market order: priced at the open and slipped against the *)
(* fund. *)
LEMMA MarketPrice ==
    ASSUME NEW r \in BacktestOrders, NEW open \in Nat, open > Slip, NEW t, t = TradeOf(r, open)
    PROVE  /\ t \in PricedTrades /\ t.sym = r.sym /\ t.side = r.side /\ t.qty = r.qty
           /\ t.price = open + (IF r.side = "BUY" THEN Slip ELSE -Slip) /\ t.price > 0
<1>1. r.sym \in Symbols /\ r.side \in {"BUY", "SELL"} /\ r.qty \in Nat \ {0} /\ r.limit = NoLimit
  BY DEF BacktestOrders
<1>2. Slip \in Nat
  BY PortfolioAssumption
<1>3. PICK price \in Nat : price = open + (IF r.side = "BUY" THEN Slip ELSE -Slip) /\ price > 0
  BY <1>1, <1>2
<1>4. FillPrice(r, open) = price
  BY <1>1, <1>3 DEF FillPrice, BuySides
<1>5. t = [sym |-> r.sym, side |-> r.side, qty |-> r.qty, price |-> price]
  BY <1>4 DEF TradeOf
<1>6. QED
  BY <1>1, <1>3, <1>5 DEF PricedTrades, Sides, BuySides, SellSides

(* What a fill does: a trade that the position can bear and the cash covers, *)
(* for the symbol of the first order in hand, at a later open. *)
FillOf(t) ==
    /\ t \in PricedTrades /\ t.side \in {"BUY", "SELL"} /\ t.price > 0
    /\ t.sym = todo[1].sym
    /\ t.side = "SELL" => t.price >= Commission
    /\ AtLaterOpen([day |-> day, sym |-> t.sym, side |-> t.side, qty |-> t.qty, price |-> t.price])
    /\ Appliable(book.pos[t.sym], t) /\ CashCovers(book, t)
    /\ book' = HandleTrade(book, t)
    /\ trades' = Append(trades, [day |-> day, sym |-> t.sym, side |-> t.side,
                                 qty |-> t.qty, price |-> t.price])

(* Every fill of the backtest broker is such a trade. *)
LEMMA FillTakes ==
    ASSUME day \in 1 .. Days, HistoryKept, CashKept, Fill
    PROVE  \E t : FillOf(t)
<1>1. todo # <<>> /\ Head(todo) = todo[1] /\ todo[1] \in BacktestOrders
  BY ListedTail DEF Fill, CashKept
<1>2. PICK r : r = InHand
  OBVIOUS
<1>3. PICK open : open = NextOpen(r.sym, day)
  OBVIOUS
<1>4. PICK t : t = TradeOf(r, open)
  OBVIOUS
<1>5. /\ Valid(book, r) /\ BrokerFills(r, open) /\ CashCovers(book, t)
      /\ book' = HandleTrade(book, t)
      /\ trades' = Append(trades, [day |-> day, sym |-> t.sym, side |-> t.side,
                                   qty |-> t.qty, price |-> t.price])
  BY <1>2, <1>3, <1>4 DEF Fill, Fills
<1>6. /\ r \in BacktestOrders /\ r.sym = todo[1].sym /\ r.side = todo[1].side
      /\ r.side = "SELL" => r.qty <= book.pos[r.sym].lq
  <2>1. r = Clamp(book, todo[1])
    BY <1>1, <1>2 DEF InHand
  <2>2. Balanced(book, InitialCash + earned) /\ \A s \in Symbols : book.pos[s].sq = 0
    BY DEF CashKept
  <2>3. QED
    BY <1>1, <1>5, <2>1, <2>2, ClampSellsHeld
<1>7. r.sym \in Symbols /\ open # NoPrice
  BY <1>5, <1>6 DEF BrokerFills, BacktestOrders
<1>8. /\ \E e \in day + 1 .. Days : store[e][r.sym] # NoBar /\ open = store[e][r.sym].open
      /\ open \in Nat /\ open > Slip /\ open - Slip >= Commission
  BY <1>3, <1>7, NextOpenTaken
<1>9. /\ t \in PricedTrades /\ t.sym = r.sym /\ t.side = r.side /\ t.qty = r.qty
      /\ t.price = open + (IF r.side = "BUY" THEN Slip ELSE -Slip) /\ t.price > 0
  BY <1>4, <1>6, <1>8, MarketPrice
<1>10. Appliable(book.pos[t.sym], t)
  BY <1>6, <1>9 DEF Appliable, BacktestOrders
<1>11. t.side = "SELL" => t.price >= Commission
  BY <1>8, <1>9, PortfolioAssumption
<1>12. AtLaterOpen([day |-> day, sym |-> t.sym, side |-> t.side, qty |-> t.qty, price |-> t.price])
  BY <1>8, <1>9 DEF AtLaterOpen
<1>13. QED
  BY <1>5, <1>6, <1>9, <1>10, <1>11, <1>12 DEF FillOf, BacktestOrders

(* Every bar stays what it was, so nothing changes the price history. *)
LEMMA HistoryStays ==
    ASSUME HistoryKept, store' = store
    PROVE  HistoryKept'
  BY DEF HistoryKept

(* A mark leaves the NAV at cash plus the marked value of all positions. *)
LEMMA MarkedBalances ==
    ASSUME HistoryKept, NEW b, NEW funded, Balanced(b, funded), NEW d \in 1 .. Days,
           NEW c, c = MarkedAtClose(b, d)
    PROVE  /\ Balanced(c, funded) /\ c.pos = b.pos /\ c.cash = b.cash
           /\ c.nav = c.cash + MarkValue(c, d)
<1>1. b \in Book /\ b.pos \in [Symbols -> Position] /\ b.rows \subseteq Symbols
  BY DEF Balanced, Book
<1>2. PICK held \in SUBSET Symbols : held = {s \in b.rows : b.pos[s].lq > 0}
  BY <1>1
<1>3. PICK f : f = [s \in Symbols |-> MarkPrice(s, d) * b.pos[s].lq]
  OBVIOUS
<1>4. ASSUME NEW s \in Symbols
      PROVE  f[s] \in Int /\ (s \notin held => f[s] = 0)
  <2>1. MarkPrice(s, d) \in Nat /\ b.pos[s].lq \in Nat /\ b.pos[s].sq \in Nat
    BY <1>1, MarkIsClose DEF Position
  <2>2. s \notin held => b.pos[s].lq = 0
    BY <1>2, <2>1 DEF Balanced
  <2>3. f[s] = MarkPrice(s, d) * b.pos[s].lq
    BY <1>3
  <2>4. QED
    BY <2>1, <2>2, <2>3
<1>5. SumFunctionOnSet(f, Symbols) = SumFunctionOnSet(f, held)
  BY <1>4, SumOfSupport, PortfolioAssumption
<1>6. PICK value \in Int : value = SumFunctionOnSet(f, held)
  <2>1. IsFiniteSet(held)
    BY FS_Subset, PortfolioAssumption
  <2>2. SumFunctionOnSet(f, held) \in Int
    BY <1>4, <2>1, SumInt
  <2>3. QED
    BY <2>2
<1>7. c = Revalued(b, value)
  BY <1>2, <1>3, <1>6 DEF MarkedAtClose, Revalued
<1>8. /\ Balanced(c, funded) /\ c.pos = b.pos /\ c.cash = b.cash /\ c.nav = b.cash + value
  BY <1>7, RevaluedBalances
<1>9. MarkValue(c, d) = SumFunctionOnSet(f, Symbols)
  BY <1>3, <1>8 DEF MarkValue
<1>10. QED
  BY <1>5, <1>6, <1>8, <1>9

Accrued(b, interest) == [b EXCEPT !.cash = @ + interest, !.nav = @ + interest]

(* Interest is paid in: it moves cash and NAV alike. *)
LEMMA InterestBalances ==
    ASSUME NEW b, NEW funded \in Int, NEW interest \in Int, Balanced(b, funded)
    PROVE  /\ Balanced(Accrued(b, interest), funded + interest)
           /\ Accrued(b, interest).pos = b.pos
           /\ Accrued(b, interest).cash = b.cash + interest
           /\ Accrued(b, interest).nav = b.nav + interest
<1>0. PICK c : c = Accrued(b, interest)
  OBVIOUS
<1>1. /\ b \in Book /\ b.cash \in Int /\ b.nav \in Int /\ b.long \in Int /\ funded \in Int
      /\ b.pos \in [Symbols -> Position] /\ b.real \in Int
  BY DEF Balanced, Book
<1>2. PICK cash \in Int, nav \in Int : cash = b.cash + interest /\ nav = b.nav + interest
  BY <1>1
<1>3. c = [b EXCEPT !.cash = cash, !.nav = nav]
  BY <1>0, <1>1, <1>2 DEF Accrued, Book
<1>4. /\ c \in Book /\ c.pos = b.pos /\ c.rows = b.rows /\ c.cash = cash /\ c.nav = nav
      /\ c.real = b.real /\ c.unreal = b.unreal /\ c.long = b.long /\ c.short = b.short
  BY <1>1, <1>3 DEF Book
<1>5. LongCost(c) = LongCost(b) /\ ShortCost(c) = ShortCost(b)
  BY <1>4, SamePositions
<1>6. LongCost(b) \in Int /\ ShortCost(b) \in Int
  BY <1>1, CostsAreInts
<1>7. cash = funded + interest + b.real - LongCost(b) + ShortCost(b)
  BY <1>1, <1>2, <1>6 DEF Balanced
<1>8. b.short = 0 => nav = cash + b.long
  BY <1>1, <1>2 DEF Balanced
<1>9. funded + interest \in Int
  BY <1>1
<1>10. QED
  BY <1>0, <1>2, <1>4, <1>5, <1>7, <1>8, <1>9 DEF Balanced

(* Interest is a number, and there is none on debt. *)
LEMMA InterestPaid ==
    ASSUME NEW b, b.cash \in Int
    PROVE  Interest(b) \in Nat
  BY BacktestAssumption DEF Interest

(* Interest keeps the cash sound: it is counted in earned as it is paid in. *)
LEMMA AccrueKeepsCash ==
    ASSUME CashKept, AccrueCashYield
    PROVE  CashKept'
<1>1. PICK funded \in Int : funded = InitialCash + earned /\ Balanced(book, funded)
  BY BacktestAssumption DEF CashKept
<1>2. PICK i \in Int : i = Interest(book) /\ i >= 0
  BY <1>1, InterestPaid DEF Balanced, Book
<1>3. /\ book' = Accrued(book, i) /\ earned' = earned + i
      /\ UNCHANGED <<todo, trades>>
  BY <1>2 DEF AccrueCashYield, Accrued
<1>4. PICK c : c = Accrued(book, i)
  OBVIOUS
<1>5. /\ Balanced(c, funded + i) /\ c.pos = book.pos /\ c.cash = book.cash + i
  <2>1. Balanced(book, funded)
    BY <1>1
  <2>2. QED
    BY <1>4, <2>1, InterestBalances
<1>6. earned' \in Int /\ InitialCash + earned' = funded + i
  BY <1>1, <1>3, BacktestAssumption DEF CashKept
<1>7. book.cash \in Int
  BY <1>1 DEF Balanced, Book
<1>8. book'.cash >= 0 /\ \A s \in Symbols : book'.pos[s].sq = 0
  BY <1>2, <1>3, <1>4, <1>5, <1>7 DEF CashKept
<1>9. Balanced(book', InitialCash + earned')
  BY <1>3, <1>4, <1>5, <1>6
<1>10. QED
  BY <1>3, <1>6, <1>8, <1>9 DEF CashKept

(* A mark moves no cash. *)
LEMMA MarkKeepsCash ==
    ASSUME day \in 1 .. Days, HistoryKept, CashKept, MarkToMarket
    PROVE  CashKept'
<1>1. Balanced(book, InitialCash + earned)
  BY DEF CashKept
<1>2. PICK c : c = MarkedAtClose(book, day)
  OBVIOUS
<1>3. Balanced(c, InitialCash + earned) /\ c.pos = book.pos /\ c.cash = book.cash
  BY <1>1, <1>2, MarkedBalances
<1>4. book' = c /\ UNCHANGED <<todo, trades, earned>>
  BY <1>2 DEF MarkToMarket
<1>5. QED
  BY <1>3, <1>4 DEF CashKept

(* What the orders of a rebalance are. *)
LEMMA OrdersTyped ==
    ASSUME book \in Book, NEW s \in Symbols
    PROVE  Orders(s) \subseteq BacktestOrders
<1>1. book.pos[s].lq \in Nat /\ Qtys \subseteq Nat \ {0}
  BY BacktestAssumption DEF Book, Position
<1>2. QED
  BY <1>1 DEF Orders, Order, BacktestOrders

(* A plan is a list of market orders and moves no cash. *)
LEMMA DecideKeepsCash ==
    ASSUME CashKept, Decide
    PROVE  CashKept'
<1>0. PICK n \in 0 .. Cardinality(Symbols) :
        \E q \in [1 .. n -> UNION {Orders(s) : s \in Symbols}] : Plan(q) /\ todo' = q
  BY DEF Decide
<1>1. PICK q \in [1 .. n -> UNION {Orders(s) : s \in Symbols}] : Plan(q) /\ todo' = q
  BY <1>0
<1>2. book \in Book
  BY DEF CashKept, Balanced
<1>3. \A i \in 1 .. n : q[i] \in BacktestOrders
  BY <1>2, OrdersTyped
<1>4. Cardinality(Symbols) \in Nat
  BY PortfolioAssumption, FS_CardinalityType
<1>5. Listed(q) /\ DOMAIN q = 1 .. n
  <2>1. n \in Nat /\ q \in Seq(UNION {Orders(s) : s \in Symbols})
    BY <1>1, <1>4
  <2>2. QED
    BY <2>1 DEF Listed
<1>6. UNCHANGED <<book, trades, earned>>
  BY DEF Decide
<1>7. QED
  BY <1>1, <1>3, <1>5, <1>6 DEF CashKept


(* A fill is paid from the cash there is, and settles the position. *)
LEMMA FillKeepsCash ==
    ASSUME Listed(trades), CashKept, NEW t, FillOf(t), UNCHANGED earned, todo' = Tail(todo), todo # <<>>
    PROVE  CashKept'
<1> DEFINE funded == InitialCash + earned
<1>1. /\ Balanced(book, funded) /\ book.cash >= 0 /\ \A s \in Symbols : book.pos[s].sq = 0
      /\ Listed(todo) /\ \A i \in DOMAIN todo : todo[i] \in BacktestOrders
      /\ earned \in Int
  BY DEF CashKept
<1>2. /\ t \in PricedTrades /\ t.side \in {"BUY", "SELL"} /\ t.price > 0
      /\ t.side = "SELL" => t.price >= Commission
      /\ Appliable(book.pos[t.sym], t) /\ CashCovers(book, t)
  BY DEF FillOf
<1>3. t.sym \in Symbols /\ t.qty \in Nat \ {0} /\ t.qty > 0 /\ t.price \in Nat \ {0} /\ t \in Trades
  BY <1>2 DEF PricedTrades, Trades
<1>4. PICK h : h = HandleTrade(book, t)
  OBVIOUS
<1>5. /\ Balanced(h, funded) /\ h.cash = book.cash + CashDelta(t)
      /\ h.pos[t.sym].sq = PositionAfter(book.pos[t.sym], t).sq
      /\ \A s \in Symbols \ {t.sym} : h.pos[s] = book.pos[s]
  BY <1>1, <1>2, <1>4, TradeBalances
<1>6. PositionAfter(book.pos[t.sym], t).sq = book.pos[t.sym].sq
  <2>1. Settled(book.pos[t.sym])
    BY <1>1, <1>3 DEF Balanced
  <2>2. QED
    BY <1>2, <2>1, TradeSettles
<1>7. \A s \in Symbols : h.pos[s].sq = 0
  BY <1>1, <1>3, <1>5, <1>6
<1>8. h.cash >= 0
  <2>1. Shaped(book)
    BY <1>1, BalancedShaped
  <2>2. t.side # "COVER" /\ (t.side \in SellSides => Commission <= t.price)
    BY <1>2, <1>3, PortfolioAssumption DEF SellSides
  <2>3. QED
    BY <1>1, <1>2, <1>3, <1>5, <2>1, <2>2, GateHolds
<1>9. Listed(todo') /\ \A i \in DOMAIN todo' : todo'[i] \in BacktestOrders
  BY <1>1, ListedTail
<1>10. PICK row : row = [day |-> day, sym |-> t.sym, side |-> t.side, qty |-> t.qty, price |-> t.price]
  OBVIOUS
<1>11. trades' = Append(trades, row) /\ book' = h
  BY <1>4, <1>10 DEF FillOf
<1>12. /\ DOMAIN trades' = 1 .. Len(trades) + 1 /\ DOMAIN trades = 1 .. Len(trades)
       /\ \A i \in 1 .. Len(trades) : trades'[i] = trades[i]
       /\ trades'[Len(trades) + 1] = row /\ Len(trades) \in Nat
  BY <1>11, ListedAppend
<1>13. ASSUME NEW i \in DOMAIN trades'
       PROVE  /\ trades'[i].sym \in Symbols /\ trades'[i].side \in {"BUY", "SELL"}
              /\ trades'[i].qty \in Nat \ {0} /\ trades'[i].price \in Nat \ {0}
  <2>1. CASE i \in 1 .. Len(trades)
    BY <1>12, <2>1 DEF CashKept
  <2>2. CASE i = Len(trades) + 1
    BY <1>2, <1>3, <1>10, <1>12, <2>2
  <2>3. QED
    BY <1>12, <2>1, <2>2
<1>14. Balanced(book', InitialCash + earned')
  BY <1>5, <1>11
<1>15. QED
  BY <1>1, <1>7, <1>8, <1>9, <1>11, <1>13, <1>14 DEF CashKept

(* A rejected order moves no cash. *)
LEMMA RejectKeepsCash ==
    ASSUME CashKept, Reject
    PROVE  CashKept'
<1>1. todo # <<>> /\ todo' = Tail(todo) /\ UNCHANGED <<book, trades, earned>>
  BY DEF Reject
<1>2. Listed(todo') /\ \A i \in DOMAIN todo' : todo'[i] \in BacktestOrders
  BY <1>1, ListedTail DEF CashKept
<1>3. QED
  BY <1>1, <1>2 DEF CashKept

(* A backtest starts with its initial capital and no position. *)
LEMMA InitKeepsCash == Init => HistoryKept /\ CashKept
<1>1. SUFFICES ASSUME Init PROVE HistoryKept /\ CashKept
  OBVIOUS
<1>2. HistoryKept
  BY <1>1 DEF Init, HistoryKept
<1>3. PICK cash \in Int : cash = InitialCash + earned /\ cash = InitialCash /\ cash >= 0
  BY <1>1, BacktestAssumption DEF Init
<1>4. /\ Balanced(Opened(cash), cash) /\ Opened(cash).cash = cash
      /\ \A s \in Symbols : Opened(cash).pos[s].sq = 0
  BY OpenedBalances
<1>5. Listed(<<>>) /\ DOMAIN <<>> = {}
  <2>1. <<>> \in Seq({})
    BY EmptySeq
  <2>2. QED
    BY <2>1 DEF Listed
<1>6. book = Opened(cash)
  BY <1>1, <1>3 DEF Init
<1>7. /\ Balanced(book, InitialCash + earned) /\ book.cash >= 0
      /\ \A s \in Symbols : book.pos[s].sq = 0
  BY <1>3, <1>4, <1>6
<1>8. QED
  BY <1>1, <1>2, <1>5, <1>7 DEF Init, CashKept

(* The price history never changes. *)
LEMMA NextKeepsHistory == HistoryKept /\ [Next]_vars => HistoryKept'
<1>1. ASSUME [Next]_vars PROVE store' = store
  BY <1>1 DEF Next, vars, MarkToMarket, AccrueCashYield, Decide, PipelineFails, Fill, Reject,
              Executed, RecordSnapshot, Cancelled
<1>2. QED
  BY <1>1, HistoryStays

(* Every step of the day loop keeps the cash sound. *)
LEMMA NextKeepsCash == IInv /\ HistoryKept /\ CashKept /\ [Next]_vars => CashKept'
<1>1. SUFFICES ASSUME IInv, HistoryKept, CashKept, [Next]_vars PROVE CashKept'
  OBVIOUS
<1>2. CASE MarkToMarket
  BY <1>1, <1>2, MarkKeepsCash DEF IInv
<1>3. CASE AccrueCashYield
  BY <1>1, <1>3, AccrueKeepsCash
<1>4. CASE Decide
  BY <1>1, <1>4, DecideKeepsCash
<1>5. CASE Fill
  <2>1. day \in 1 .. Days /\ Listed(trades)
    BY <1>1 DEF IInv
  <2>2. PICK t : FillOf(t)
    BY <1>1, <1>5, <2>1, FillTakes
  <2>3. UNCHANGED earned /\ todo' = Tail(todo) /\ todo # <<>>
    BY <1>5 DEF Fill
  <2>4. QED
    BY <1>1, <2>1, <2>2, <2>3, FillKeepsCash
<1>6. CASE Reject
  BY <1>1, <1>6, RejectKeepsCash
<1>7. CASE UNCHANGED <<book, todo, trades, earned>>
  BY <1>1, <1>7 DEF CashKept
<1>8. QED
  BY <1>1, <1>2, <1>3, <1>4, <1>5, <1>6, <1>7
     DEF Next, vars, PipelineFails, Executed, RecordSnapshot, Cancelled

(* A book without shorts carries no short cost. *)
LEMMA NoShortCost ==
    ASSUME NEW b, NEW funded, Balanced(b, funded), \A s \in Symbols : b.pos[s].sq = 0
    PROVE  ShortCost(b) = 0
<1>1. b.pos \in [Symbols -> Position]
  BY DEF Balanced, Book
<1>2. PICK f : f = ShortCosts(b)
  OBVIOUS
<1>3. \A s \in Symbols : f[s] = 0
  BY <1>1, <1>2 DEF Balanced, Settled, ShortCosts
<1>4. SumFunctionOnSet(f, Symbols) = SumFunctionOnSet(f, {})
  <2>1. {} \in SUBSET Symbols /\ IsFiniteSet(Symbols)
    BY PortfolioAssumption
  <2>2. QED
    BY <1>3, <2>1, SumOfSupport
<1>5. SumFunctionOnSet(f, {}) = 0
  BY FS_EmptySet, SumByFirst
<1>6. QED
  BY <1>1, <1>2, <1>4, <1>5, CostsAreInts

(* The cash of a simulated book: for any bars, plans, mixes of interest, *)
(* sells and buys, it is never negative and always the initial capital plus *)
(* interest plus realized P&L less the cost of what is held (engine.py *)
(* _accrue_cash_yield and the fills of trade_execution/service.py). *)
THEOREM CashAlwaysSound == Spec => []CashSound
<1>1. ASSUME IInv, CashKept PROVE CashSound
  <2>1. /\ Balanced(book, InitialCash + earned) /\ book.cash >= 0
        /\ \A s \in Symbols : book.pos[s].sq = 0
    BY <1>1 DEF CashKept
  <2>2. TypeOK
    <3>1. book.pos \in [Symbols -> Position] /\ book.rows \subseteq Symbols
      BY <2>1 DEF Balanced, Book
    <3>2. \A i \in DOMAIN trades : trades[i].qty > 0 /\ trades[i].price > 0
      BY <1>1 DEF CashKept
    <3>3. QED
      BY <1>1, <3>1, <3>2 DEF IInv, TypeOK
  <2>3. PICK funded \in Int : funded = InitialCash + earned
    BY <1>1, BacktestAssumption DEF CashKept
  <2>4. /\ book.cash = funded + book.real - LongCost(book) + ShortCost(book)
        /\ book.cash \in Int /\ book.real \in Int /\ LongCost(book) \in Int
    BY <2>1, <2>3, CostsAreInts DEF Balanced, Book
  <2>5. book.cash = funded + book.real - LongCost(book)
    BY <2>1, <2>4, NoShortCost
  <2>6. CashExplained
    BY <2>3, <2>5 DEF CashExplained
  <2>7. QED
    BY <2>1, <2>2, <2>6 DEF CashSound, NoOverdraft
<1>2. QED
  BY InitIInv, InitKeepsCash, NextKeeps, NextKeepsHistory, NextKeepsCash, <1>1, PTL DEF Spec

-----------------------------------------------------------------------------
(* The orders of a rebalance and the trades they become *)

(* A trade recorded after the others. *)
OneTradeMore(ts, us, t) ==
    /\ Len(ts) \in Nat /\ DOMAIN ts = 1 .. Len(ts) /\ DOMAIN us = 1 .. Len(ts) + 1
    /\ \A i \in 1 .. Len(ts) : us[i] = ts[i]
    /\ us[Len(ts) + 1] = t

(* Appending to the trade repository records one trade more. *)
LEMMA TradeRecorded ==
    ASSUME NEW ts, Listed(ts), NEW t
    PROVE  OneTradeMore(ts, Append(ts, t), t)
  BY ListedAppend DEF OneTradeMore

(* A plan leaves no order of an earlier day and names no symbol twice. *)
LEMMA DecideKeepsOrders ==
    ASSUME IInv, OrdersKept, Decide
    PROVE  OrdersKept'
<1>1. PICK n \in 0 .. Cardinality(Symbols) :
        \E q \in [1 .. n -> UNION {Orders(s) : s \in Symbols}] : Plan(q) /\ todo' = q
  BY DEF Decide
<1>2. Plan(todo') /\ DOMAIN todo' = 1 .. n /\ n \in Int
  <2>1. n \in Int
    BY <1>1
  <2>2. QED
    BY <1>1, <2>1
<1>3. \A i, j \in DOMAIN todo' : i < j => todo'[i].sym # todo'[j].sym
  BY <1>2 DEF Plan
<1>4. /\ step = "decide" /\ step' = "execute" /\ status = "running"
      /\ UNCHANGED <<store, day, trades>>
  BY DEF Decide
<1>5. \A i \in DOMAIN trades : trades[i].day # day
  BY <1>4 DEF IInv
<1>6. \A t : AtLaterOpen(t)' <=> AtLaterOpen(t)
  BY <1>4 DEF AtLaterOpen
<1>7. day \in RebalanceDays
  BY <1>4 DEF OrdersKept
<1>8. QED
  BY <1>3, <1>4, <1>5, <1>6, <1>7 DEF OrdersKept

(* Taking the first order off the list. *)
LEMMA OrdersLeft ==
    ASSUME Listed(todo), todo # <<>>, todo' = Tail(todo), OrdersKept
    PROVE  /\ \A i, j \in DOMAIN todo' : i < j => todo'[i].sym # todo'[j].sym
           /\ \A j \in DOMAIN todo' : todo'[j].sym # todo[1].sym
           /\ \A j \in DOMAIN todo' : \E k \in DOMAIN todo : todo'[j] = todo[k]
<1>1. /\ Len(todo) \in Nat \ {0} /\ DOMAIN todo = 1 .. Len(todo)
      /\ DOMAIN todo' = 1 .. Len(todo) - 1
      /\ \A i \in 1 .. Len(todo) - 1 : todo'[i] = todo[i + 1]
  BY ListedTail
<1>2. \A i, j \in 1 .. Len(todo) : i < j => todo[i].sym # todo[j].sym
  BY <1>1 DEF OrdersKept
<1>3. \A j \in DOMAIN todo' : j + 1 \in 1 .. Len(todo) /\ todo'[j] = todo[j + 1] /\ 1 < j + 1
  BY <1>1
<1>4. ASSUME NEW i \in DOMAIN todo', NEW j \in DOMAIN todo', i < j
      PROVE  todo'[i].sym # todo'[j].sym
  <2>1. i \in Int /\ j \in Int
    BY <1>1
  <2>2. i + 1 < j + 1
    BY <1>4, <2>1
  <2>3. QED
    BY <1>2, <1>3, <2>2
<1>5. ASSUME NEW j \in DOMAIN todo'
      PROVE  todo'[j].sym # todo[1].sym
  <2>1. 1 \in 1 .. Len(todo)
    BY <1>1
  <2>2. QED
    BY <1>2, <1>3, <2>1
<1>6. QED
  BY <1>1, <1>3, <1>4, <1>5

(* A rejected order leaves the others in hand. *)
LEMMA RejectKeepsOrders ==
    ASSUME CashKept, OrdersKept, Reject
    PROVE  OrdersKept'
<1>1. /\ UNCHANGED <<store, day, step, trades>> /\ todo # <<>> /\ todo' = Tail(todo)
  BY DEF Reject
<1>2. /\ \A i, j \in DOMAIN todo' : i < j => todo'[i].sym # todo'[j].sym
      /\ \A j \in DOMAIN todo' : \E k \in DOMAIN todo : todo'[j] = todo[k]
  BY <1>1, OrdersLeft DEF CashKept
<1>3. \A t : AtLaterOpen(t)' <=> AtLaterOpen(t)
  BY <1>1 DEF AtLaterOpen
<1>4. \A i \in DOMAIN trades : \A j \in DOMAIN todo' :
        trades[i].day = day => trades[i].sym # todo'[j].sym
  BY <1>2 DEF OrdersKept
<1>5. QED
  BY <1>1, <1>2, <1>3, <1>4 DEF OrdersKept

(* A fill takes its symbol out of the orders in hand. *)
LEMMA FillKeepsOrders ==
    ASSUME IInv, CashKept, OrdersKept, Fill, NEW t, FillOf(t)
    PROVE  OrdersKept'
<1>1. /\ UNCHANGED <<store, day, step>> /\ step = "execute" /\ todo # <<>> /\ todo' = Tail(todo)
  BY DEF Fill
<1>2. PICK row : row = [day |-> day, sym |-> t.sym, side |-> t.side, qty |-> t.qty, price |-> t.price]
  OBVIOUS
<1>3. PICK n \in Nat : n = Len(trades)
  BY ListedAppend DEF IInv
<1>4. /\ DOMAIN trades = 1 .. n /\ DOMAIN trades' = 1 .. n + 1
      /\ \A i \in 1 .. n : trades'[i] = trades[i]
      /\ trades'[n + 1] = row
  <2>1. OneTradeMore(trades, trades', row)
    BY <1>2, TradeRecorded DEF IInv, FillOf
  <2>2. QED
    BY <1>3, <2>1 DEF OneTradeMore
<1>5. /\ \A i, j \in DOMAIN todo' : i < j => todo'[i].sym # todo'[j].sym
      /\ \A j \in DOMAIN todo' : todo'[j].sym # todo[1].sym
      /\ \A j \in DOMAIN todo' : \E k \in DOMAIN todo : todo'[j] = todo[k]
  BY <1>1, OrdersLeft DEF CashKept
<1>6. row.day = day /\ row.sym = todo[1].sym /\ AtLaterOpen(row) /\ day \in RebalanceDays
  BY <1>1, <1>2 DEF FillOf, OrdersKept
<1>7. \A r : AtLaterOpen(r)' <=> AtLaterOpen(r)
  BY <1>1 DEF AtLaterOpen
<1>8. ASSUME NEW i \in 1 .. n
      PROVE  /\ trades[i].day \in RebalanceDays /\ AtLaterOpen(trades[i])
             /\ \A j \in DOMAIN todo' : trades[i].day = day => trades[i].sym # todo'[j].sym
             /\ trades[i].day = day => trades[i].sym # todo[1].sym
  <2>1. 1 \in DOMAIN todo
    BY <1>1, ListedTail DEF CashKept
  <2>2. QED
    BY <1>4, <1>5, <2>1 DEF OrdersKept
<1>9. ASSUME NEW i \in DOMAIN trades', NEW j \in DOMAIN trades',
             trades'[j].day = trades'[i].day, trades'[j].sym = trades'[i].sym
      PROVE  j = i
  <2>1. CASE i \in 1 .. n /\ j \in 1 .. n
    BY <1>4, <1>9, <2>1 DEF OrdersKept
  <2>2. CASE i \in 1 .. n /\ j = n + 1
    BY <1>4, <1>6, <1>8, <1>9, <2>2
  <2>3. CASE i = n + 1 /\ j \in 1 .. n
    BY <1>4, <1>6, <1>8, <1>9, <2>3
  <2>4. QED
    BY <1>4, <2>1, <2>2, <2>3
<1>10. ASSUME NEW i \in DOMAIN trades'
       PROVE  /\ trades'[i].day \in RebalanceDays /\ AtLaterOpen(trades'[i])
              /\ \A j \in DOMAIN todo' : trades'[i].day = day => trades'[i].sym # todo'[j].sym
  <2>1. CASE i \in 1 .. n
    BY <1>4, <1>8, <2>1
  <2>2. CASE i = n + 1
    BY <1>4, <1>5, <1>6, <2>2
  <2>3. QED
    BY <1>4, <2>1, <2>2
<1>11. RebalanceDays' = RebalanceDays
  BY DEF RebalanceDays
<1>12. QED
  BY <1>1, <1>5, <1>6, <1>7, <1>9, <1>10, <1>11 DEF OrdersKept

(* The other steps leave the orders and the trades alone; a new day has no *)
(* trades yet. *)
LEMMA NextKeepsOrders == IInv /\ HistoryKept /\ CashKept /\ OrdersKept /\ [Next]_vars => OrdersKept'
<1>1. SUFFICES ASSUME IInv, HistoryKept, CashKept, OrdersKept, [Next]_vars PROVE OrdersKept'
  OBVIOUS
<1>2. CASE Decide
  BY <1>1, <1>2, DecideKeepsOrders
<1>3. CASE Fill
  <2>1. PICK t : FillOf(t)
    BY <1>1, <1>3, FillTakes DEF IInv
  <2>2. QED
    BY <1>1, <1>3, <2>1, FillKeepsOrders
<1>4. CASE Reject
  BY <1>1, <1>4, RejectKeepsOrders
<1>5. CASE RecordSnapshot
  <2>1. /\ step = "snapshot" /\ UNCHANGED <<store, todo, trades>>
        /\ \/ UNCHANGED <<day, step>>
           \/ day' = day + 1 /\ step' = "mark"
    BY <1>5 DEF RecordSnapshot
  <2>2. \A t : AtLaterOpen(t)' <=> AtLaterOpen(t)
    BY <2>1 DEF AtLaterOpen
  <2>3. \A i \in DOMAIN trades : trades[i].day \in 1 .. day /\ day \in Int
    BY <1>1, BacktestAssumption DEF IInv
  <2>4. day' # day => \A i \in DOMAIN trades : trades[i].day # day'
    BY <2>1, <2>3
  <2>5. QED
    BY <1>1, <2>1, <2>2, <2>4 DEF OrdersKept, RebalanceDays
<1>6. CASE UNCHANGED <<store, day, todo, trades>>
           /\ (step' \in {"decide", "execute"} => day \in RebalanceDays)
  <2>1. \A t : AtLaterOpen(t)' <=> AtLaterOpen(t)
    BY <1>6 DEF AtLaterOpen
  <2>2. QED
    BY <1>1, <1>6, <2>1 DEF OrdersKept, RebalanceDays
<1>7. CASE MarkToMarket \/ AccrueCashYield \/ Executed
  BY <1>6, <1>7 DEF MarkToMarket, AccrueCashYield, Executed
<1>8. CASE PipelineFails \/ Cancelled \/ UNCHANGED vars
  <2>1. UNCHANGED <<store, day, todo, trades, step>>
    BY <1>8 DEF PipelineFails, Cancelled, vars
  <2>2. QED
    BY <1>1, <1>6, <2>1 DEF OrdersKept
<1>9. QED
  BY <1>1, <1>2, <1>3, <1>4, <1>5, <1>7, <1>8 DEF Next

(* A backtest starts without orders and trades. *)
LEMMA InitKeepsOrders == Init => OrdersKept
<1>1. DOMAIN <<>> = {}
  OBVIOUS
<1>2. QED
  BY <1>1 DEF Init, OrdersKept

(* For any price history and any plans, a trade happens on a rebalance day, *)
(* at most one per symbol and day, at the slipped open of a bar that lies *)
(* after the day it was decided on: no look-ahead, and nothing delisted is *)
(* traded (engine.py compute_rebalance_schedule, backtest_broker.py).       *)
THEOREM TradesAlwaysAtLaterOpen == Spec => []TradesAtLaterOpen
<1>1. ASSUME OrdersKept PROVE TradesAtLaterOpen
  BY <1>1 DEF OrdersKept, AtLaterOpen, TradesAtLaterOpen
<1>2. QED
  BY InitIInv, InitKeepsCash, InitKeepsOrders, NextKeeps, NextKeepsHistory, NextKeepsCash,
     NextKeepsOrders, <1>1, PTL DEF Spec

-----------------------------------------------------------------------------
(* Positions and marks *)

(* The units of s that trades up to day d bought or sold. *)
Units(ts, side, s, d) ==
    SumFunctionOnSet([i \in DOMAIN ts |-> ts[i].qty],
                     {i \in DOMAIN ts : ts[i].sym = s /\ ts[i].side = side /\ ts[i].day <= d})

HeldIn(ts, s, d) == Units(ts, "BUY", s, d) - Units(ts, "SELL", s, d)

Countable(ts) == \A i \in DOMAIN ts : ts[i].qty \in Int /\ ts[i].day \in Int

(* A trade adds its units to those of its symbol and side, from its day on, *)
(* and to no others. *)
LEMMA UnitsFollow ==
    ASSUME NEW ts, NEW us, NEW t, OneTradeMore(ts, us, t), Countable(us), NEW side, NEW s,
           NEW d \in Int
    PROVE  /\ Units(ts, side, s, d) \in Int
           /\ t.sym = s /\ t.side = side /\ t.day <= d
                => Units(us, side, s, d) = Units(ts, side, s, d) + t.qty
           /\ ~(t.sym = s /\ t.side = side /\ t.day <= d)
                => Units(us, side, s, d) = Units(ts, side, s, d)
<1>1. PICK n \in Nat : n = Len(ts)
  BY DEF OneTradeMore
<1>2. /\ DOMAIN ts = 1 .. n /\ DOMAIN us = 1 .. n + 1
      /\ \A i \in 1 .. n : us[i] = ts[i]
      /\ us[n + 1] = t
  BY <1>1 DEF OneTradeMore
<1>3. PICK f : f = [i \in DOMAIN ts |-> ts[i].qty]
  OBVIOUS
<1>4. PICK g : g = [i \in DOMAIN us |-> us[i].qty]
  OBVIOUS
<1>5. PICK S \in SUBSET (1 .. n) :
        S = {i \in DOMAIN ts : ts[i].sym = s /\ ts[i].side = side /\ ts[i].day <= d}
  BY <1>2
<1>6. PICK T \in SUBSET (1 .. n + 1) :
        T = {i \in DOMAIN us : us[i].sym = s /\ us[i].side = side /\ us[i].day <= d}
  BY <1>2
<1>7. IsFiniteSet(S) /\ IsFiniteSet(T)
  <2>1. IsFiniteSet(1 .. n) /\ IsFiniteSet(1 .. n + 1)
    BY FS_Interval
  <2>2. QED
    BY <2>1, FS_Subset
<1>8. \A i \in 1 .. n : f[i] \in Int /\ g[i] = f[i]
  BY <1>2, <1>3, <1>4 DEF Countable
<1>9. \A i \in 1 .. n : i \in S <=> i \in T
  BY <1>2, <1>5, <1>6
<1>10. g[n + 1] = t.qty /\ t.qty \in Int
  BY <1>2, <1>4 DEF Countable
<1>11. /\ Units(ts, side, s, d) = SumFunctionOnSet(f, S)
       /\ Units(us, side, s, d) = SumFunctionOnSet(g, T)
  BY <1>3, <1>4, <1>5, <1>6 DEF Units
<1>12. SumFunctionOnSet(f, S) \in Int
  BY <1>7, <1>8, SumInt
<1>13. ASSUME t.sym = s, t.side = side, t.day <= d
       PROVE  SumFunctionOnSet(g, T) = SumFunctionOnSet(f, S) + t.qty
  <2>1. PICK m : m = n + 1
    OBVIOUS
  <2>2. m \in T /\ m \notin S
    BY <1>2, <1>5, <1>6, <1>13, <2>1
  <2>3. \A i \in T : i = m \/ i \in S
    BY <1>9, <2>1
  <2>4. S \subseteq T
    BY <1>9
  <2>5. \A i \in S : f[i] \in Int /\ g[i] = f[i]
    BY <1>8
  <2>6. g[m] \in Int
    BY <1>10, <2>1
  <2>7. Extends(g, T, f, S, m)
    BY <1>7, <2>2, <2>3, <2>4, <2>5, <2>6 DEF Extends
  <2>8. SumFunctionOnSet(g, T) = SumFunctionOnSet(f, S) + g[m]
    BY <2>7, SumGrows
  <2>9. QED
    BY <1>10, <2>1, <2>8
<1>14. ASSUME ~(t.sym = s /\ t.side = side /\ t.day <= d)
       PROVE  SumFunctionOnSet(g, T) = SumFunctionOnSet(f, S)
  <2>1. n + 1 \notin T
    BY <1>2, <1>6, <1>14
  <2>2. S = T
    <3>1. \A i \in T : i \in 1 .. n
      BY <2>1
    <3>2. QED
      BY <1>9, <3>1
  <2>3. \A i \in S : f[i] = g[i]
    BY <1>8
  <2>4. QED
    BY <1>7, <2>2, <2>3, SumAgrees
<1>15. QED
  BY <1>11, <1>12, <1>13, <1>14

(* So a trade moves its symbol's holding by its units. *)
LEMMA HeldFollows ==
    ASSUME NEW ts, NEW us, NEW t, OneTradeMore(ts, us, t), Countable(us), NEW s, NEW d \in Int,
           t.qty \in Int
    PROVE  /\ t.sym = s /\ t.side = "BUY" /\ t.day <= d => HeldIn(us, s, d) = HeldIn(ts, s, d) + t.qty
           /\ t.sym = s /\ t.side = "SELL" /\ t.day <= d => HeldIn(us, s, d) = HeldIn(ts, s, d) - t.qty
           /\ t.sym # s \/ ~(t.day <= d) => HeldIn(us, s, d) = HeldIn(ts, s, d)
<1>1. PICK bought \in Int, sold \in Int :
        bought = Units(ts, "BUY", s, d) /\ sold = Units(ts, "SELL", s, d)
  BY UnitsFollow
<1>2. HeldIn(ts, s, d) = bought - sold
  BY <1>1 DEF HeldIn
<1>3. ASSUME t.sym = s, t.side = "BUY", t.day <= d
      PROVE  HeldIn(us, s, d) = HeldIn(ts, s, d) + t.qty
  <2>1. Units(us, "BUY", s, d) = bought + t.qty /\ Units(us, "SELL", s, d) = sold
    BY <1>1, <1>3, UnitsFollow
  <2>2. QED
    BY <1>2, <2>1 DEF HeldIn
<1>4. ASSUME t.sym = s, t.side = "SELL", t.day <= d
      PROVE  HeldIn(us, s, d) = HeldIn(ts, s, d) - t.qty
  <2>1. Units(us, "BUY", s, d) = bought /\ Units(us, "SELL", s, d) = sold + t.qty
    BY <1>1, <1>4, UnitsFollow
  <2>2. QED
    BY <1>2, <2>1 DEF HeldIn
<1>5. ASSUME t.sym # s \/ ~(t.day <= d)
      PROVE  HeldIn(us, s, d) = HeldIn(ts, s, d)
  <2>1. Units(us, "BUY", s, d) = bought /\ Units(us, "SELL", s, d) = sold
    BY <1>1, <1>5, UnitsFollow
  <2>2. QED
    BY <1>2, <2>1 DEF HeldIn
<1>6. QED
  BY <1>3, <1>4, <1>5

(* Without trades nothing is held. *)
LEMMA NothingHeld ==
    ASSUME NEW ts, DOMAIN ts = {}, NEW s, NEW d
    PROVE  HeldIn(ts, s, d) = 0
<1>1. \A side : Units(ts, side, s, d) = 0
  <2>1. SUFFICES ASSUME NEW side PROVE Units(ts, side, s, d) = 0
    OBVIOUS
  <2>2. PICK f, S : /\ f = [i \in DOMAIN ts |-> ts[i].qty]
                    /\ S = {i \in DOMAIN ts : ts[i].sym = s /\ ts[i].side = side /\ ts[i].day <= d}
    OBVIOUS
  <2>3. S = {} /\ IsFiniteSet(S)
    BY <2>2, FS_EmptySet
  <2>4. SumFunctionOnSet(f, S) = 0
    BY <2>3, SumByFirst
  <2>5. QED
    BY <2>2, <2>4 DEF Units
<1>2. QED
  BY <1>1 DEF HeldIn

(* What is held is what the trades of this state add up to. *)
LEMMA HeldOfTrades == ASSUME NEW s, NEW d PROVE Held(s, d) = HeldIn(trades, s, d)
  BY DEF Held, HeldIn, Units

(* The marked value of a book depends on its positions alone. *)
LEMMA MarkValueOf ==
    ASSUME NEW b, NEW c, c.pos = b.pos, NEW d
    PROVE  MarkValue(c, d) = MarkValue(b, d)
  BY DEF MarkValue

(* The recorded NAV at the close, of any trades and snapshot. *)
ClosedAt(snap, ts, d) ==
    snap.cash + SumFunction([s \in Symbols |-> Close(s, d) * HeldIn(ts, s, d)])

(* And the NAV at the close is that of the recorded snapshot. *)
LEMMA AtCloseOf == ASSUME NEW i PROVE AtClose(i) = ClosedAt(snapshots[i], trades, i)
<1>1. \A s : Held(s, i) = HeldIn(trades, s, i)
  BY HeldOfTrades
<1>2. QED
  BY <1>1 DEF AtClose, ClosedAt

(* The trades of other days do not matter for a day. *)
LEMMA ClosedAtFollows ==
    ASSUME NEW ts, NEW us, NEW t, OneTradeMore(ts, us, t), Countable(us), NEW snap, NEW d \in Int,
           ~(t.day <= d), t.qty \in Int
    PROVE  ClosedAt(snap, us, d) = ClosedAt(snap, ts, d)
<1>1. \A s : HeldIn(us, s, d) = HeldIn(ts, s, d)
  BY HeldFollows
<1>2. QED
  BY <1>1 DEF ClosedAt

(* Marks and closes depend on the price history alone. *)
LEMMA PricesStay ==
    ASSUME store' = store
    PROVE  /\ \A s, d : Close(s, d)' = Close(s, d)
           /\ \A b, d : MarkValue(b, d)' = MarkValue(b, d)
<1>1. \A s, d : LastBar(s, d)' = LastBar(s, d) /\ BarDays(s)' = BarDays(s)
  BY DEF LastBar, BarDays
<1>2. \A s, d : Close(s, d)' = Close(s, d) /\ MarkPrice(s, d)' = MarkPrice(s, d)
  BY <1>1 DEF Close, MarkPrice, LatestClose
<1>3. QED
  BY <1>2 DEF MarkValue

(* What is held, marked and traded on a day, of the next state. *)
LEMMA MarksPrimed ==
    ASSUME store' = store
    PROVE  /\ \A s, d : Held(s, d)' = HeldIn(trades', s, d)
           /\ MarkValue(book, day)' = MarkValue(book', day')
           /\ \A i : AtClose(i)' = ClosedAt(snapshots'[i], trades', i)
           /\ \A i : TradedOn(i)' <=> \E j \in DOMAIN trades' : trades'[j].day = i
<1>1. \A s, d : Held(s, d)' = HeldIn(trades', s, d)
  BY DEF Held, HeldIn, Units
<1>2. \A s, d : Close(s, d)' = Close(s, d)
  BY PricesStay
<1>3. \A i : AtClose(i)' = ClosedAt(snapshots'[i], trades', i)
  BY <1>1, <1>2 DEF AtClose, ClosedAt
<1>4. MarkValue(book, day)' = MarkValue(book', day')
  <2>1. \A b, d : MarkValue(b, d)' = MarkValue(b, d)
    BY PricesStay
  <2>2. QED
    BY <2>1
<1>5. QED
  BY <1>1, <1>3, <1>4 DEF TradedOn

(* The mark of the day puts the NAV at the close. *)
LEMMA MarkKeepsMarks ==
    ASSUME IInv, HistoryKept, CashKept, MarksKept, MarkToMarket
    PROVE  MarksKept'
<1>1. PICK c : c = MarkedAtClose(book, day)
  OBVIOUS
<1>2. /\ book' = c /\ UNCHANGED <<store, day, trades, snapshots>>
  BY <1>1 DEF MarkToMarket
<1>3. c.pos = book.pos /\ c.nav = c.cash + MarkValue(c, day)
  <2>1. Balanced(book, InitialCash + earned) /\ day \in 1 .. Days
    BY DEF CashKept, IInv
  <2>2. QED
    BY <1>1, <2>1, MarkedBalances
<1>4. \A s \in Symbols : c.pos[s].lq = HeldIn(trades, s, Days)
  BY <1>3, HeldOfTrades DEF MarksKept
<1>5. \A i \in DOMAIN snapshots : ~TradedOn(i) => snapshots[i].nav = ClosedAt(snapshots[i], trades, i)
  BY AtCloseOf DEF MarksKept
<1>6. QED
  BY <1>2, <1>3, <1>4, <1>5, MarksPrimed DEF MarksKept, TradedOn

(* Interest moves cash and NAV alike, so the NAV stays at the close. *)
LEMMA AccrueKeepsMarks ==
    ASSUME IInv, HistoryKept, CashKept, MarksKept, AccrueCashYield
    PROVE  MarksKept'
<1>1. PICK funded \in Int : funded = InitialCash + earned /\ Balanced(book, funded)
  BY BacktestAssumption DEF CashKept
<1>2. book.cash \in Int /\ book.nav \in Int
  BY <1>1 DEF Balanced, Book
<1>3. PICK i \in Int : i = Interest(book)
  BY <1>2, InterestPaid
<1>4. PICK c : c = Accrued(book, i)
  OBVIOUS
<1>5. book' = c /\ step = "accrue" /\ UNCHANGED <<store, day, trades, snapshots>>
  BY <1>3, <1>4 DEF AccrueCashYield, Accrued
<1>6. c.pos = book.pos /\ c.cash = book.cash + i /\ c.nav = book.nav + i
  <2>1. Balanced(book, funded)
    BY <1>1
  <2>2. QED
    BY <1>4, <2>1, InterestBalances
<1>7. ASSUME ~TradedOn(day)
      PROVE  c.nav = c.cash + MarkValue(c, day)
  <2>1. book.nav = book.cash + MarkValue(book, day)
    BY <1>5, <1>7 DEF MarksKept
  <2>2. MarkValue(c, day) = MarkValue(book, day)
    BY <1>6, MarkValueOf
  <2>3. PICK v : v = MarkValue(book, day)
    OBVIOUS
  <2>4. v \in Int
    <3>1. PICK f : f = [s \in Symbols |-> MarkPrice(s, day) * book.pos[s].lq]
      OBVIOUS
    <3>2. \A s \in Symbols : MarkPrice(s, day) \in Int /\ book.pos[s].lq \in Int
      BY <1>1, MarkIsClose DEF IInv, Balanced, Book, Position
    <3>3. \A s \in Symbols : f[s] \in Int
      BY <3>1, <3>2
    <3>4. QED
      BY <2>3, <3>1, <3>3, SumInt, PortfolioAssumption DEF MarkValue
  <2>5. QED
    BY <1>2, <1>6, <2>1, <2>2, <2>3, <2>4
<1>8. \A s \in Symbols : c.pos[s].lq = HeldIn(trades, s, Days)
  BY <1>6, HeldOfTrades DEF MarksKept
<1>9. \A j \in DOMAIN snapshots : ~TradedOn(j) => snapshots[j].nav = ClosedAt(snapshots[j], trades, j)
  BY AtCloseOf DEF MarksKept
<1>10. QED
  BY <1>5, <1>7, <1>8, <1>9, MarksPrimed DEF MarksKept, TradedOn

(* A step that leaves book, day, trades and snapshots alone keeps them *)
(* consistent, provided that it does not skip the mark. *)
LEMMA QuietKeepsMarks ==
    ASSUME MarksKept, UNCHANGED <<store, day, book, trades, snapshots>>,
           step = "mark" => step' = "mark"
    PROVE  MarksKept'
<1>1. \A s \in Symbols : book.pos[s].lq = HeldIn(trades, s, Days)
  BY HeldOfTrades DEF MarksKept
<1>2. \A j \in DOMAIN snapshots : ~TradedOn(j) => snapshots[j].nav = ClosedAt(snapshots[j], trades, j)
  BY AtCloseOf DEF MarksKept
<1>3. step' # "mark" /\ ~TradedOn(day) => book.nav = book.cash + MarkValue(book, day)
  BY DEF MarksKept
<1>4. QED
  BY <1>1, <1>2, <1>3, MarksPrimed DEF MarksKept, TradedOn

(* A fill moves the position of its symbol as it moves what the trades add *)
(* up to, and belongs to a day that is not recorded yet. *)
LEMMA FillKeepsMarks ==
    ASSUME IInv, CashKept, MarksKept, Fill, NEW t, FillOf(t)
    PROVE  MarksKept'
<1>1. UNCHANGED <<store, day, step, snapshots>> /\ status = "running" /\ step = "execute"
  BY DEF Fill
<1>2. /\ t \in PricedTrades /\ t.side \in {"BUY", "SELL"} /\ Appliable(book.pos[t.sym], t)
      /\ t.sym \in Symbols /\ t.qty \in Nat \ {0}
  BY DEF FillOf, PricedTrades
<1>3. PICK row : row = [day |-> day, sym |-> t.sym, side |-> t.side, qty |-> t.qty, price |-> t.price]
  OBVIOUS
<1>4. OneTradeMore(trades, trades', row)
  BY <1>3, TradeRecorded DEF IInv, FillOf
<1>5. row.sym = t.sym /\ row.side = t.side /\ row.qty = t.qty /\ row.day = day
  BY <1>3
<1>6. Days \in Nat \ {0} /\ day \in 1 .. Days
  BY BacktestAssumption DEF IInv
<1>7. Countable(trades')
  <2>1. \A i \in DOMAIN trades : trades[i].qty \in Int /\ trades[i].day \in Int
    BY <1>6 DEF CashKept, IInv
  <2>2. SUFFICES ASSUME NEW i \in DOMAIN trades' PROVE trades'[i].qty \in Int /\ trades'[i].day \in Int
    BY DEF Countable
  <2>3. (i \in DOMAIN trades /\ trades'[i] = trades[i]) \/ trades'[i] = row
    BY <1>4 DEF OneTradeMore
  <2>4. QED
    BY <1>2, <1>5, <1>6, <2>1, <2>3
<1>8. PICK h : h = HandleTrade(book, t) /\ book' = h
  BY DEF FillOf
<1>9. /\ h.pos[t.sym].lq = PositionAfter(book.pos[t.sym], t).lq
      /\ \A s \in Symbols \ {t.sym} : h.pos[s] = book.pos[s]
      /\ t.side = "BUY" => PositionAfter(book.pos[t.sym], t).lq = book.pos[t.sym].lq + t.qty
      /\ t.side = "SELL" => PositionAfter(book.pos[t.sym], t).lq = book.pos[t.sym].lq - t.qty
  <2>1. Balanced(book, InitialCash + earned)
    BY DEF CashKept
  <2>2. Settled(book.pos[t.sym])
    BY <1>2, <2>1 DEF Balanced
  <2>3. QED
    BY <1>2, <1>8, <2>1, <2>2, TradeBalances, TradeSettles
<1>10. ASSUME NEW s \in Symbols
       PROVE  h.pos[s].lq = HeldIn(trades', s, Days)
  <2>1. book.pos[s].lq = HeldIn(trades, s, Days)
    BY HeldOfTrades DEF MarksKept
  <2>2. Days \in Int /\ row.qty \in Int /\ row.day <= Days
    BY <1>2, <1>5, <1>6
  <2>3. CASE s # t.sym
    <3>1. HeldIn(trades', s, Days) = HeldIn(trades, s, Days)
      BY <1>4, <1>5, <1>7, <2>2, <2>3, HeldFollows
    <3>2. QED
      BY <1>9, <2>1, <2>3, <3>1
  <2>4. CASE s = t.sym /\ t.side = "BUY"
    <3>1. HeldIn(trades', s, Days) = HeldIn(trades, s, Days) + row.qty
      BY <1>4, <1>5, <1>7, <2>2, <2>4, HeldFollows
    <3>2. QED
      BY <1>5, <1>9, <2>1, <2>4, <3>1
  <2>5. CASE s = t.sym /\ t.side = "SELL"
    <3>1. HeldIn(trades', s, Days) = HeldIn(trades, s, Days) - row.qty
      BY <1>4, <1>5, <1>7, <2>2, <2>5, HeldFollows
    <3>2. QED
      BY <1>5, <1>9, <2>1, <2>5, <3>1
  <2>6. QED
    BY <1>2, <2>3, <2>4, <2>5
<1>11. \E j \in DOMAIN trades' : trades'[j].day = day
  BY <1>4, <1>5 DEF OneTradeMore
<1>12. ASSUME NEW i \in DOMAIN snapshots, ~ \E j \in DOMAIN trades' : trades'[j].day = i
       PROVE  snapshots[i].nav = ClosedAt(snapshots[i], trades', i)
  <2>1. ~TradedOn(i)
    BY <1>4, <1>12 DEF OneTradeMore, TradedOn
  <2>2. snapshots[i].nav = ClosedAt(snapshots[i], trades, i)
    BY <2>1, AtCloseOf DEF MarksKept
  <2>3. i \in Int /\ ~(row.day <= i) /\ row.qty \in Int
    <3>1. Len(snapshots) = day - 1 /\ DOMAIN snapshots = 1 .. Len(snapshots)
      BY <1>1, ListedAppend DEF IInv, Recorded
    <3>2. QED
      BY <1>2, <1>5, <1>6, <3>1
  <2>4. QED
    BY <1>4, <1>7, <2>2, <2>3, ClosedAtFollows
<1>13. QED
  BY <1>1, <1>8, <1>10, <1>11, <1>12, MarksPrimed DEF MarksKept

(* The snapshot of a day without fills records what its positions are worth *)
(* at the close; the next day starts with a mark. *)
LEMMA RecordKeepsMarks ==
    ASSUME IInv, HistoryKept, CashKept, MarksKept, RecordSnapshot
    PROVE  MarksKept'
<1> DEFINE n == Len(snapshots)
<1>1. /\ status = "running" /\ step = "snapshot" /\ UNCHANGED <<store, book, trades>>
      /\ (day' = day /\ step' = step) \/ step' = "mark"
  BY DEF RecordSnapshot
<1>2. PICK snap : /\ snap = [day |-> day, nav |-> book.nav, cash |-> book.cash]
                  /\ snapshots' = Append(snapshots, snap)
  BY DEF RecordSnapshot
<1>3. /\ n \in Nat /\ DOMAIN snapshots = 1 .. n /\ DOMAIN snapshots' = 1 .. n + 1
      /\ \A i \in 1 .. n : snapshots'[i] = snapshots[i]
      /\ snapshots'[n + 1] = snap
  BY <1>2, ListedAppend DEF IInv
<1>4. n + 1 = day /\ day \in 1 .. Days /\ Days \in Nat \ {0}
  <2>1. n = day - 1 /\ day \in 1 .. Days /\ Days \in Nat \ {0}
    BY <1>1, BacktestAssumption DEF IInv, Recorded
  <2>2. QED
    BY <2>1
<1>5. \A s \in Symbols : book.pos[s].lq = HeldIn(trades, s, Days)
  BY HeldOfTrades DEF MarksKept
<1>6. ASSUME ~TradedOn(day)
      PROVE  snap.nav = ClosedAt(snap, trades, day)
  <2>1. book.nav = book.cash + MarkValue(book, day)
    BY <1>1, <1>6 DEF MarksKept
  <2>2. ASSUME NEW s \in Symbols
        PROVE  Close(s, day) * HeldIn(trades, s, day) = MarkPrice(s, day) * book.pos[s].lq
    <3>1. HeldIn(trades, s, day) = HeldIn(trades, s, Days)
      <4>1. \A i \in DOMAIN trades : trades[i].day <= day /\ trades[i].day <= Days
        BY <1>4 DEF IInv
      <4>2. \A side : {i \in DOMAIN trades : trades[i].sym = s /\ trades[i].side = side /\ trades[i].day <= day}
                    = {i \in DOMAIN trades : trades[i].sym = s /\ trades[i].side = side /\ trades[i].day <= Days}
        BY <4>1
      <4>3. QED
        BY <4>2 DEF HeldIn, Units
    <3>2. Close(s, day) = MarkPrice(s, day)
      BY <1>4, MarkIsClose
    <3>3. QED
      BY <1>5, <3>1, <3>2
  <2>3. MarkValue(book, day) = SumFunction([s \in Symbols |-> Close(s, day) * HeldIn(trades, s, day)])
    <3>1. PICK f : f = [s \in Symbols |-> MarkPrice(s, day) * book.pos[s].lq]
      OBVIOUS
    <3>2. f = [s \in Symbols |-> Close(s, day) * HeldIn(trades, s, day)]
      BY <2>2, <3>1
    <3>3. DOMAIN f = Symbols
      BY <3>1
    <3>4. MarkValue(book, day) = SumFunction(f)
      BY <3>1, <3>3 DEF MarkValue, SumFunction
    <3>5. QED
      BY <3>2, <3>4
  <2>4. QED
    BY <1>2, <2>1, <2>3 DEF ClosedAt
<1>7. ASSUME NEW i \in DOMAIN snapshots', ~TradedOn(i)
      PROVE  snapshots'[i].nav = ClosedAt(snapshots'[i], trades, i)
  <2>1. CASE i \in 1 .. n
    BY <1>3, <1>7, <2>1, AtCloseOf DEF MarksKept
  <2>2. CASE i = n + 1
    <3>1. i = day /\ snapshots'[i] = snap
      BY <1>3, <1>4, <2>2
    <3>2. QED
      BY <1>6, <1>7, <3>1
  <2>3. QED
    BY <1>3, <2>1, <2>2
<1>8. step' # "mark" /\ ~TradedOn(day) => book.nav = book.cash + MarkValue(book, day)
  BY <1>1 DEF MarksKept
<1>9. QED
  BY <1>1, <1>5, <1>7, <1>8, MarksPrimed DEF MarksKept, TradedOn

(* Every step of the day loop keeps positions and marks consistent. *)
LEMMA NextKeepsMarks == IInv /\ HistoryKept /\ CashKept /\ MarksKept /\ [Next]_vars => MarksKept'
<1>1. SUFFICES ASSUME IInv, HistoryKept, CashKept, MarksKept, [Next]_vars PROVE MarksKept'
  OBVIOUS
<1>2. CASE MarkToMarket
  BY <1>1, <1>2, MarkKeepsMarks
<1>3. CASE AccrueCashYield
  BY <1>1, <1>3, AccrueKeepsMarks
<1>4. CASE Fill
  <2>1. PICK t : FillOf(t)
    BY <1>1, <1>4, FillTakes DEF IInv
  <2>2. QED
    BY <1>1, <1>4, <2>1, FillKeepsMarks
<1>5. CASE RecordSnapshot
  BY <1>1, <1>5, RecordKeepsMarks
<1>6. CASE Decide \/ PipelineFails \/ Reject \/ Executed \/ Cancelled \/ UNCHANGED vars
  BY <1>1, <1>6, QuietKeepsMarks DEF Decide, PipelineFails, Reject, Executed, Cancelled, vars
<1>7. QED
  BY <1>1, <1>2, <1>3, <1>4, <1>5, <1>6 DEF Next

(* A backtest starts with nothing held and nothing recorded. *)
LEMMA InitKeepsMarks == Init => MarksKept
<1>1. SUFFICES ASSUME Init PROVE MarksKept
  OBVIOUS
<1>2. DOMAIN trades = {} /\ DOMAIN snapshots = {} /\ step = "mark" /\ book = Opened(InitialCash)
  BY <1>1 DEF Init
<1>3. \A s \in Symbols : Held(s, Days) = 0
  BY <1>2, HeldOfTrades, NothingHeld
<1>4. \A s \in Symbols : Opened(InitialCash).pos[s].lq = 0
  BY BacktestAssumption, OpenedBalances
<1>5. QED
  BY <1>2, <1>3, <1>4 DEF MarksKept

(* For any price history, gaps and delistings included, and any trades: the *)
(* NAV recorded on a day without fills is cash plus what the trades add up *)
(* to, at the day's close, with a symbol silent for too long at nothing *)
(* (engine.py _mark_to_market and the snapshot at the end of the day loop). *)
THEOREM QuietDaysAlwaysAtClose == Spec => []QuietDayAtClose
<1>1. ASSUME MarksKept PROVE QuietDayAtClose
  BY <1>1 DEF MarksKept, QuietDayAtClose
<1>2. QED
  BY InitIInv, InitKeepsCash, InitKeepsMarks, NextKeeps, NextKeepsHistory, NextKeepsCash,
     NextKeepsMarks, <1>1, PTL DEF Spec
=============================================================================
