---------------------------- MODULE LedgerSessions ----------------------------
(***************************************************************************)
(* Several database sessions at work on one branch: API orders, cash       *)
(* adjustments, marks (snapshot jobs) and pipeline runs, each a            *)
(* transaction of its own at READ COMMITTED.                               *)
(*                                                                         *)
(* Every await that touches the tables is a step.  A read sees the         *)
(* session's own writes and otherwise what is committed at that moment.    *)
(* The services compute absolute values from what they read and write      *)
(* them later (portfolio/repository.py has no FOR UPDATE and no version    *)
(* column); the UPDATE locks its row until the transaction ends, so a      *)
(* second writer waits, and then overwrites the columns it has changed     *)
(* from what it read.  An upsert that finds, at its flush, a row deleted   *)
(* or inserted by somebody else fails, and PostgreSQL breaks a deadlock by *)
(* aborting a waiter; a failed flush rolls the whole session back.         *)
(*                                                                         *)
(* An operator named Bug_X is a wrong variant of X that no definition      *)
(* uses: a mistake that one of the properties has to catch.                *)
(***************************************************************************)
EXTENDS Portfolio, Sequences, SequencesExt

CONSTANTS
    Sessions,     \* database sessions; each runs one job
    Price,        \* current price of each symbol
    InitialCash,  \* cash of the branch at the start
    Held,         \* long quantity of each symbol at the start
    Qtys,         \* quantities of API orders
    CashMoves,    \* amounts of adjust_cash
    PlanSize,     \* bound: orders of one pipeline run
    Kinds         \* jobs in play, of {"order", "cash", "mark", "pipeline"}

ASSUME LedgerSessionsAssumption ==
    /\ Price \in [Symbols -> Nat] /\ \A s \in Symbols : Price[s] > Slip
    /\ InitialCash \in Nat /\ Held \in [Symbols -> Nat]
    /\ CashMoves \subseteq Int /\ PlanSize \in Nat
    /\ Kinds \subseteq {"order", "cash", "mark", "pipeline"}

(* The sessions here ask for positive quantities only.  The code does not: *)
(* an API order of zero or fewer units is accepted, and what it does to a *)
(* book is in TradeBook. *)
ASSUME QuantityAssumption == Qtys \subseteq Nat \ {0}

(* A sale brings in at least its commission, which is zero by default *)
(* (app/config.py); submit_order gates purchases only. *)
ASSUME SaleAssumption == \A s \in Symbols : Commission <= Price[s] - Slip

VARIABLES
    book,     \* committed portfolio row and position rows
    orders,   \* committed orders, with the auxiliary mark `applied`
    pc,       \* next step of each session
    kind,     \* the job of each session
    todo,     \* requests the session has still to submit
    cur,      \* the request in hand, after the clamp
    stash,    \* values computed from what was read, to be written later
    dirty,    \* rows the session has written, and so locked
    copy,     \* its versions of those rows
    rows,     \* its order rows
    ops,      \* auxiliary: what the session did to the book, in order
    overlap   \* auxiliary: two sessions have been open at the same time

vars == <<book, orders, pc, kind, todo, cur, stash, dirty, copy, rows, ops, overlap>>
job   == <<kind, overlap>>
local == <<job, todo, cur, stash, dirty, copy, rows, ops>>

Pf == "portfolio"   \* the portfolio row, next to the position rows

Request(sides, qtys) == [sym : Symbols, side : sides, qty : qtys, limit : {NoLimit}]
NoRequest == [side |-> "none"]
NoStash   == [exists |-> FALSE]

InitialBook ==
    LET b == [Opened(InitialCash) EXCEPT
                !.rows = {s \in Symbols : Held[s] > 0},
                !.pos  = [s \in Symbols |-> [Flat EXCEPT !.lq = Held[s], !.lc = Held[s] * Price[s]]]]
    IN  WithTotals(b, InitialCash, 0)

Init ==
    /\ book = InitialBook
    /\ orders = <<>>
    /\ pc = [s \in Sessions |-> "idle"]
    /\ kind = [s \in Sessions |-> "none"]
    /\ todo = [s \in Sessions |-> <<>>]
    /\ cur = [s \in Sessions |-> NoRequest]
    /\ stash = [s \in Sessions |-> NoStash]
    /\ dirty = [s \in Sessions |-> {}]
    /\ copy = [s \in Sessions |-> NoBook]
    /\ rows = [s \in Sessions |-> <<>>]
    /\ ops = [s \in Sessions |-> <<>>]
    /\ overlap = FALSE

-----------------------------------------------------------------------------
(* Rows as a session sees them *)

Overwrite(b, fields) == [f \in DOMAIN b |-> IF f \in DOMAIN fields THEN fields[f] ELSE b[f]]

(* An ORM update: only the columns that differ from the loaded ones. *)
Update(b, seen, new) ==
    Overwrite(b, [f \in {g \in DOMAIN new : new[g] # seen[g]} |-> new[f]])

(* What is to be written to the portfolio row read as b. *)
Pending(b, new) == [new |-> new, seen |-> [f \in DOMAIN new |-> b[f]]]

View(s) ==
    LET own == dirty[s] \cap Symbols
        b   == IF Pf \in dirty[s] THEN copy[s] ELSE book
    IN  Overwrite(b, [rows |-> (book.rows \ own) \cup (copy[s].rows \cap own),
                      pos  |-> [x \in Symbols |-> IF x \in own THEN copy[s].pos[x] ELSE book.pos[x]]])

LockedFor(s, row) == \E q \in Sessions \ {s} : row \in dirty[q]

Write(s, row, b) ==
    /\ dirty' = [dirty EXCEPT ![s] = @ \cup {row}]
    /\ copy' = [copy EXCEPT ![s] = b]

Goto(s, step) == pc' = [pc EXCEPT ![s] = step]

(* The end of a session: its rows become visible, or vanish. *)
Bug_Close(s) ==
    /\ Goto(s, "done")
    /\ todo' = [todo EXCEPT ![s] = <<>>]
    /\ cur' = [cur EXCEPT ![s] = NoRequest]
    /\ stash' = [stash EXCEPT ![s] = NoStash]
    /\ rows' = [rows EXCEPT ![s] = <<>>]
    /\ ops' = [ops EXCEPT ![s] = <<>>]
    /\ UNCHANGED <<job, dirty, copy>>

Close(s) ==
    /\ Goto(s, "done")
    /\ todo' = [todo EXCEPT ![s] = <<>>]
    /\ cur' = [cur EXCEPT ![s] = NoRequest]
    /\ stash' = [stash EXCEPT ![s] = NoStash]
    /\ dirty' = [dirty EXCEPT ![s] = {}]
    /\ copy' = [copy EXCEPT ![s] = NoBook]
    /\ rows' = [rows EXCEPT ![s] = <<>>]
    /\ ops' = [ops EXCEPT ![s] = <<>>]
    /\ UNCHANGED job

Rollback(s) == Close(s) /\ UNCHANGED <<book, orders>>

Commit(s) ==
    /\ pc[s] = "commit"
    /\ book' = View(s)
    /\ orders' = orders \o rows[s]
    /\ Close(s)

-----------------------------------------------------------------------------
(* Starting a job *)

MayStart(s, k) ==
    /\ pc[s] = "idle"
    /\ k \in Kinds
    /\ overlap' = (overlap \/ \E q \in Sessions : pc[q] \notin {"idle", "done"})

Begin(s, k, requests, step) ==
    /\ kind' = [kind EXCEPT ![s] = k]
    /\ todo' = [todo EXCEPT ![s] = requests]
    /\ copy' = [copy EXCEPT ![s] = book]
    /\ Goto(s, step)
    /\ UNCHANGED <<book, orders, cur, stash, dirty, rows, ops>>

StartOrder(s) ==
    /\ MayStart(s, "order")
    /\ \E r \in Request({"BUY", "SELL"}, Qtys) : Begin(s, "order", <<r>>, "validate")

(* The orders of a run are decided from the positions read at its start, *)
(* one per symbol at most: full exits and reductions of what is held first, *)
(* then buys. *)
Lists(S) == UNION {[1 .. n -> S] : n \in 0 .. PlanSize}

Exits == {[sym |-> x, side |-> "SELL", qty |-> book.pos[x].lq, limit |-> NoLimit] :
            x \in {y \in Symbols : book.pos[y].lq > 0}}

Reductions == {r \in Request({"SELL"}, Qtys) : r.qty < book.pos[r.sym].lq}

StartPipeline(s) ==
    /\ MayStart(s, "pipeline")
    /\ book.nav > 0
    /\ \E sells \in Lists(Exits \cup Reductions), buys \in Lists(Request({"BUY"}, Qtys)) :
         LET plan == sells \o buys IN
         /\ Len(plan) \in 1 .. PlanSize
         /\ \A i, j \in DOMAIN plan : i # j => plan[i].sym # plan[j].sym
         /\ Begin(s, "pipeline", plan, "validate")

(* adjust_cash and mark_to_market read the row (and, for a mark, the *)
(* positions) and write absolute values in a later step. *)
StartCash(s) ==
    /\ MayStart(s, "cash")
    /\ \E amount \in CashMoves :
         LET b == Adjusted(book, book.cash + amount) IN
         /\ CanAdjust(book, amount)
         /\ stash' = [stash EXCEPT ![s] = Pending(book, [cash |-> b.cash, nav |-> b.nav])]
         /\ ops' = [ops EXCEPT ![s] = <<[op |-> "cash", amount |-> amount]>>]
    /\ kind' = [kind EXCEPT ![s] = "cash"]
    /\ copy' = [copy EXCEPT ![s] = book]
    /\ Goto(s, "flushPortfolio")
    /\ UNCHANGED <<book, orders, todo, cur, dirty, rows>>

StartMark(s) ==
    /\ MayStart(s, "mark")
    /\ LET b == Marked(book, Price) IN
         stash' = [stash EXCEPT ![s] =
                     Pending(book, [nav |-> b.nav, long |-> b.long, unreal |-> b.unreal])]
    /\ ops' = [ops EXCEPT ![s] = <<[op |-> "mark"]>>]
    /\ kind' = [kind EXCEPT ![s] = "mark"]
    /\ copy' = [copy EXCEPT ![s] = book]
    /\ Goto(s, "flushPortfolio")
    /\ UNCHANGED <<book, orders, todo, cur, dirty, rows>>

-----------------------------------------------------------------------------
(* submit_order, await by await *)

(* The order in hand is done with; the pipeline goes on to the next. *)
NextOrder(s) ==
    /\ todo' = [todo EXCEPT ![s] = Tail(@)]
    /\ Goto(s, IF Len(todo[s]) > 1 THEN "validate" ELSE "commit")

AddRow(s, r, status) ==
    rows' = [rows EXCEPT ![s] = Append(@, [sym |-> r.sym, side |-> r.side, qty |-> r.qty,
                                           status |-> status, applied |-> FALSE])]

(* A rejection ends an API session in HTTPException; a pipeline keeps it. *)
RejectOrder(s, r) ==
    IF kind[s] = "order" THEN Rollback(s)
    ELSE /\ AddRow(s, r, "REJECTED")
         /\ NextOrder(s)
         /\ UNCHANGED <<book, orders, job, cur, stash, dirty, copy, ops>>

Validate(s) ==
    /\ pc[s] = "validate"
    /\ IF Valid(View(s), Head(todo[s]))
       THEN Goto(s, "clamp") /\ UNCHANGED <<book, orders, local>>
       ELSE RejectOrder(s, Head(todo[s]))

ClampQuantity(s) ==
    /\ pc[s] = "clamp"
    /\ cur' = [cur EXCEPT ![s] = Clamp(View(s), Head(todo[s]))]
    /\ Goto(s, "cashGate")
    /\ UNCHANGED <<book, orders, job, todo, stash, dirty, copy, rows, ops>>

TradeInHand(s) == TradeOf(cur[s], Price[cur[s].sym])

(* The order row turns FILLED and the trade row is inserted before the *)
(* portfolio is told. *)
CashGate(s) ==
    /\ pc[s] = "cashGate"
    /\ IF CashCovers(View(s), TradeInHand(s))
       THEN /\ AddRow(s, cur[s], "FILLED")
            /\ Goto(s, "apply")
            /\ UNCHANGED <<book, orders, job, todo, cur, stash, dirty, copy, ops>>
       ELSE RejectOrder(s, cur[s])

(* handle_trade_executed reads portfolio and position, and computes. *)
Computed(s, from) ==
    LET t == TradeInHand(s)
        p == View(s).pos[t.sym]
    IN  [pos  |-> PositionAfter(p, t),
         cash |-> from.cash + CashDelta(t),
         real |-> from.real + RealizedBy(p, t),
         seen |-> Flat, exists |-> FALSE]

Bug_ApplyStale(s) ==
    /\ pc[s] = "apply"
    /\ Appliable(View(s).pos[cur[s].sym], TradeInHand(s))
    /\ stash' = [stash EXCEPT ![s] = Computed(s, book)]
    /\ Goto(s, "upsert")
    /\ UNCHANGED <<book, orders, job, todo, cur, dirty, copy, rows, ops>>
Bug_ApplyHeldOnly(s) ==
    /\ pc[s] = "apply"
    /\ IF cur[s].sym \in View(s).rows
       THEN /\ Goto(s, "upsert")
            /\ stash' = [stash EXCEPT ![s] = Computed(s, View(s))]
            /\ UNCHANGED todo
       ELSE NextOrder(s) /\ UNCHANGED stash
    /\ UNCHANGED <<book, orders, job, cur, dirty, copy, rows, ops>>

Apply(s) ==
    /\ pc[s] = "apply"
    /\ Appliable(View(s).pos[cur[s].sym], TradeInHand(s))
    /\ stash' = [stash EXCEPT ![s] = Computed(s, View(s))]
    /\ Goto(s, "upsert")
    /\ UNCHANGED <<book, orders, job, todo, cur, dirty, copy, rows, ops>>

(* It raises ValueError: the API request rolls back; _execute_trade retries *)
(* the requested quantity once in whole shares, in the same session, and *)
(* otherwise drops the order. *)
WholeShares(r) == [r EXCEPT !.qty = (@ \div Share) * Share]

ApplyRaises(s) ==
    LET r == Head(todo[s]) IN
    /\ pc[s] = "apply"
    /\ ~Appliable(View(s).pos[cur[s].sym], TradeInHand(s))
    /\ IF kind[s] = "order" THEN Rollback(s)
       ELSE /\ IF "retried" \notin DOMAIN r /\ WholeShares(r).qty > 0
               THEN /\ todo' = [todo EXCEPT ![s][1] =
                                  [sym |-> r.sym, side |-> r.side, limit |-> r.limit,
                                   qty |-> WholeShares(r).qty, retried |-> TRUE]]
                    /\ Goto(s, "validate")
               ELSE NextOrder(s)
            /\ UNCHANGED <<book, orders, job, cur, stash, dirty, copy, rows, ops>>

(* upsert looks for the row, and then updates or inserts. *)
Upsert(s) ==
    /\ pc[s] = "upsert"
    /\ stash' = [stash EXCEPT ![s].exists = cur[s].sym \in View(s).rows,
                              ![s].seen = View(s).pos[cur[s].sym]]
    /\ Goto(s, "flushPosition")
    /\ UNCHANGED <<book, orders, job, todo, cur, dirty, copy, rows, ops>>

FlushPosition(s) ==
    LET sym == cur[s].sym IN
    /\ pc[s] = "flushPosition"
    /\ ~LockedFor(s, sym)
    /\ IF stash[s].exists = (sym \in View(s).rows)
       THEN /\ Write(s, sym, WithPosition(View(s), sym,
                                Update(View(s).pos[sym], stash[s].seen, stash[s].pos)))
            /\ Goto(s, "totals")
            /\ UNCHANGED <<book, orders, job, todo, cur, stash, rows, ops>>
       ELSE Rollback(s)

Totals(s) ==
    LET b == WithTotals(View(s), stash[s].cash, stash[s].real) IN
    /\ pc[s] = "totals"
    /\ stash' = [stash EXCEPT ![s] = Pending(View(s),
                    [cash |-> b.cash, nav |-> b.nav, long |-> b.long, short |-> b.short,
                     margin |-> b.margin, unreal |-> b.unreal, real |-> b.real])]
    /\ Goto(s, "flushPortfolio")
    /\ UNCHANGED <<book, orders, job, todo, cur, dirty, copy, rows, ops>>

FlushPortfolio(s) ==
    /\ pc[s] = "flushPortfolio"
    /\ ~LockedFor(s, Pf)
    /\ Write(s, Pf, Update(View(s), stash[s].seen, stash[s].new))
    /\ stash' = [stash EXCEPT ![s] = NoStash]
    /\ IF kind[s] \in {"cash", "mark"}
       THEN Goto(s, "commit") /\ UNCHANGED <<todo, rows, ops>>
       ELSE /\ NextOrder(s)
            /\ rows' = [rows EXCEPT ![s][Len(rows[s])].applied = TRUE]
            /\ ops' = [ops EXCEPT ![s] = Append(@, [op |-> "trade", trade |-> TradeInHand(s)])]
    /\ UNCHANGED <<book, orders, job, cur>>

-----------------------------------------------------------------------------
(* Locks *)

WaitsFor(s, q) ==
    \/ pc[s] = "flushPosition" /\ cur[s].sym \in dirty[q]
    \/ pc[s] = "flushPortfolio" /\ Pf \in dirty[q]

(* Every cycle of waits has length two: a session that waits for a position *)
(* row while holding another row holds the portfolio row. *)
DeadlockVictim(s) ==
    /\ \E q \in Sessions \ {s} : WaitsFor(s, q) /\ WaitsFor(q, s)
    /\ Rollback(s)

Step(s) ==
    \/ Validate(s) \/ ClampQuantity(s) \/ CashGate(s)
    \/ Apply(s) \/ ApplyRaises(s)
    \/ Upsert(s) \/ FlushPosition(s) \/ Totals(s) \/ FlushPortfolio(s)
    \/ Commit(s) \/ DeadlockVictim(s)

(* A job that dies takes its transaction with it. *)
Abort(s) == pc[s] \notin {"idle", "done"} /\ Rollback(s)

Next == \E s \in Sessions :
    \/ StartOrder(s) \/ StartPipeline(s) \/ StartCash(s) \/ StartMark(s)
    \/ Step(s) \/ Abort(s)

Spec == Init /\ [][Next]_vars
FairSpec == Spec /\ \A s \in Sessions : WF_vars(Step(s))

-----------------------------------------------------------------------------
(* Properties *)

(* Rows and sessions have the shape of the schema; no committed or pending *)
(* position has a negative quantity or a negative long cost. *)
TypeOK ==
    /\ \A b \in {book} \cup {View(s) : s \in {q \in Sessions : dirty[q] # {}}} :
         b.pos \in [Symbols -> Position] /\ b.rows \subseteq Symbols /\ b.cash \in Int
    /\ \A s \in Sessions : dirty[s] \subseteq Symbols \cup {Pf}

Replay(b, done) ==
    FoldLeft(LAMBDA x, o : CASE o.op = "cash"  -> Adjusted(x, x.cash + o.amount)
                             [] o.op = "mark"  -> Marked(x, Price)
                             [] o.op = "trade" -> HandleTrade(x, o.trade),
             b, done)

(* As long as sessions do not overlap, what a session commits is what its *)
(* operations do, one after the other, to the book it commits into: nothing *)
(* the session read is stale when it writes, its own earlier orders *)
(* included. *)
CommitIsSerial ==
    [][\A s \in Sessions : Commit(s) /\ ~overlap => book' = Replay(book, ops[s])]_vars

(* A committed FILLED order has moved the position and the cash *)
(* (PHASE1-SHARED-INFRASTRUCTURE.md:2190, "Force an error in *)
(* `handle_trade_executed` -> trade and order both rolled back"). *)
FilledIsApplied == \A i \in DOMAIN orders : orders[i].status = "FILLED" => orders[i].applied

(* The cash gate keeps the branch out of the red (service.py:114-115, "a *)
(* BUY that would overdraw the portfolio is rejected, not filled"). *)
NoOverdraft == book.cash >= 0

(* Rows keep their types, and both promises hold for the jobs of a branch *)
(* that never overlap and order positive quantities. *)
SoundAlone == TypeOK /\ (~overlap => FilledIsApplied /\ NoOverdraft)

(* Even when updates are lost a position row is consistent in itself: *)
(* column-wise writes of two sessions never leave a cost basis without *)
(* units, and a flat row never stays. *)
PositionRowsWhole ==
    \A s \in Symbols :
        /\ book.pos[s].lq = 0 => book.pos[s].lc = 0
        /\ s \in book.rows <=> book.pos[s].lq + book.pos[s].sq > 0

(* Sessions end, although they lock position rows and the portfolio row in *)
(* conflicting orders. *)
SessionsEnd == \A s \in Sessions : pc[s] # "idle" ~> pc[s] = "done"
=============================================================================
