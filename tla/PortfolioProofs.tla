---------------------------- MODULE PortfolioProofs ----------------------------
(***************************************************************************)
(* What handle_trade_executed does to a book, for every book and every     *)
(* trade it applies: the facts that the proofs about TradeBook, about      *)
(* LedgerSessions and about BacktestEngine rest on.                        *)
(*                                                                         *)
(* A book's totals are sums over its positions.  What the library's fold   *)
(* gives is proved first, by smallest counterexample; Shaped then types    *)
(* the cash and the positions only, and Balanced relates the totals.       *)
(***************************************************************************)
EXTENDS Portfolio, FiniteSetTheorems, TLAPS

-----------------------------------------------------------------------------
(* Sums over finite sets *)

First(S) == CHOOSE x \in S : TRUE

Iterates(f, D, g) ==
    g = [s \in SUBSET D |-> IF s = {} THEN 0 ELSE f[First(s)] + g[s \ {First(s)}]]

(* The library defines the sum by a function iterated over the subsets. *)
LEMMA SumUnfolds ==
    ASSUME NEW f, NEW S
    PROVE  SumFunctionOnSet(f, S) = (CHOOSE g : Iterates(f, S, g))[S]
  BY DEF SumFunctionOnSet, FoldFunctionOnSet, MapThenFoldSet, Iterates, First

(* In a set of finite sets, a non-empty collection has a member none of whose *)
(* proper subsets is in it. *)
LEMMA SmallestSet ==
    ASSUME NEW S, IsFiniteSet(S), NEW C \in SUBSET SUBSET S, C # {}
    PROVE  \E s \in C : \A t \in SUBSET s : t # s => t \notin C
<1> DEFINE R == StrictSubsetOrdering(S)
<1>1. C \subseteq FiniteSubsetsOf(S)
  BY FS_Subset DEF FiniteSubsetsOf
<1>2. IsWellFoundedOn(R, FiniteSubsetsOf(S))
  BY FS_StrictSubsetOrderingWellFounded
<1>3. PICK s \in C : \A t \in C : ~ (<<t, s>> \in R)
  <2> HIDE DEF R
  <2> QED BY <1>1, <1>2, WFMin, Zenon
<1>4. QED
  BY <1>3 DEF StrictSubsetOrdering

(* Two such iterations agree where both are defined. *)
LEMMA IteratesAgree ==
    ASSUME NEW f, NEW E, IsFiniteSet(E), NEW D \in SUBSET E, NEW g, NEW h,
           Iterates(f, D, g), Iterates(f, E, h)
    PROVE  \A s \in SUBSET D : g[s] = h[s]
<1> DEFINE C == {s \in SUBSET D : g[s] # h[s]}
<1>1. SUFFICES ASSUME C # {} PROVE FALSE
  OBVIOUS
<1>2. PICK s \in C : \A t \in SUBSET s : t # s => t \notin C
  <2>1. C \in SUBSET SUBSET D /\ IsFiniteSet(D)
    BY FS_Subset
  <2> HIDE DEF C
  <2>2. QED
    BY <1>1, <2>1, SmallestSet
<1>3. s \in SUBSET D /\ s \in SUBSET E
  OBVIOUS
<1>4. CASE s = {}
  BY <1>2, <1>3, <1>4 DEF Iterates
<1>5. CASE s # {}
  <2>1. First(s) \in s
    BY <1>5 DEF First
  <2>2. g[s \ {First(s)}] = h[s \ {First(s)}]
    BY <1>2, <1>3, <2>1
  <2>3. QED
    BY <1>2, <1>3, <1>5, <2>2 DEF Iterates
<1>6. QED
  BY <1>4, <1>5

(* The iteration that the library's sum is defined by exists over every *)
(* finite set. *)
LEMMA IterationExists ==
    ASSUME NEW f, NEW S, IsFiniteSet(S)
    PROVE  \E g : Iterates(f, S, g)
<1> DEFINE C == {s \in SUBSET S : ~ \E g : Iterates(f, s, g)}
<1>1. SUFFICES ASSUME C # {} PROVE FALSE
  OBVIOUS
<1>2. PICK E \in C : \A t \in SUBSET E : t # E => t \notin C
  <2>1. C \in SUBSET SUBSET S
    OBVIOUS
  <2> HIDE DEF C
  <2>2. QED
    BY <1>1, <2>1, SmallestSet
<1>3. E \in SUBSET S /\ IsFiniteSet(E)
  BY FS_Subset
<1> DEFINE G(t) == CHOOSE g : Iterates(f, t, g)
           value(s) == IF s = {} THEN 0 ELSE f[First(s)] + G(s \ {First(s)})[s \ {First(s)}]
           h == [s \in SUBSET E |-> value(s)]
<1>4. ASSUME NEW t \in SUBSET E, t # E
      PROVE  Iterates(f, t, G(t)) /\ IsFiniteSet(t)
  <2>1. \E g : Iterates(f, t, g)
    BY <1>2, <1>3, <1>4
  <2>2. QED
    BY <1>3, <2>1, FS_Subset
<1>5. ASSUME NEW t \in SUBSET E, t # E
      PROVE  G(t)[t] = value(t)
  <2>1. Iterates(f, t, G(t))
    BY <1>4, <1>5
  <2>2. CASE t = {}
    BY <2>1, <2>2 DEF Iterates
  <2>3. CASE t # {}
    <3>1. First(t) \in t
      BY <2>3 DEF First
    <3>2. PICK u \in SUBSET t : u = t \ {First(t)}
      OBVIOUS
    <3>3. u \in SUBSET E /\ u # E
      BY <3>1, <3>2
    <3>4. Iterates(f, u, G(u)) /\ IsFiniteSet(t)
      BY <1>4, <1>5, <3>3
    <3>5. PICK gt, gu : gt = G(t) /\ gu = G(u)
      OBVIOUS
    <3>6. Iterates(f, t, gt) /\ Iterates(f, u, gu)
      BY <2>1, <3>4, <3>5
    <3>7. gu[u] = gt[u]
      <4> HIDE DEF G, value, h
      <4> QED BY <3>4, <3>6, IteratesAgree
    <3>8. gt[t] = f[First(t)] + gt[u]
      BY <2>3, <3>2, <3>6 DEF Iterates
    <3>9. QED
      BY <2>3, <3>2, <3>5, <3>7, <3>8
  <2>4. QED
    BY <2>2, <2>3
<1>6. ASSUME NEW s \in SUBSET E, s # {}
      PROVE  h[s] = f[First(s)] + h[s \ {First(s)}]
  <2>1. First(s) \in s
    BY <1>6 DEF First
  <2>2. PICK u \in SUBSET E : u = s \ {First(s)}
    OBVIOUS
  <2>3. u # E
    BY <2>1, <2>2
  <2>4. G(u)[u] = value(u)
    BY <1>5, <2>3
  <2>5. h[u] = value(u) /\ h[s] = value(s)
    OBVIOUS
  <2>6. value(s) = f[First(s)] + G(u)[u]
    BY <1>6, <2>2
  <2>7. QED
    BY <2>2, <2>4, <2>5, <2>6
<1>7. Iterates(f, E, h)
  <2>1. h[{}] = 0 /\ DOMAIN h = SUBSET E
    OBVIOUS
  <2>2. h = [s \in SUBSET E |-> h[s]]
    OBVIOUS
  <2> HIDE DEF h, value, G
  <2>3. \A s \in SUBSET E : h[s] = IF s = {} THEN 0 ELSE f[First(s)] + h[s \ {First(s)}]
    BY <1>6, <2>1
  <2>4. QED
    BY <2>2, <2>3 DEF Iterates
<1>8. QED
  BY <1>2, <1>7

(* The sum over the empty set is zero; over any other finite set it is one *)
(* element, the one CHOOSE takes first, and the sum over the others. *)
LEMMA SumByFirst ==
    ASSUME NEW f, NEW S, IsFiniteSet(S)
    PROVE  /\ S = {} => SumFunctionOnSet(f, S) = 0
           /\ S # {} => /\ First(S) \in S
                       /\ SumFunctionOnSet(f, S)
                            = f[First(S)] + SumFunctionOnSet(f, S \ {First(S)})
<1>1. PICK T \in SUBSET S : T = S \ {First(S)}
  OBVIOUS
<1>2. IsFiniteSet(T)
  BY FS_Subset
<1>3. PICK g : Iterates(f, S, g) /\ SumFunctionOnSet(f, S) = g[S]
  BY IterationExists, SumUnfolds, Zenon
<1>4. PICK h : Iterates(f, T, h) /\ SumFunctionOnSet(f, T) = h[T]
  BY <1>2, IterationExists, SumUnfolds, Zenon
<1>5. h[T] = g[T]
  BY <1>3, <1>4, IteratesAgree
<1>6. S = {} => g[S] = 0
  BY <1>3 DEF Iterates
<1>7. S # {} => g[S] = f[First(S)] + g[T]
  BY <1>1, <1>3 DEF Iterates
<1>8. S # {} => First(S) \in S
  BY DEF First
<1>9. QED
  BY <1>1, <1>3, <1>4, <1>5, <1>6, <1>7, <1>8

(* A sum of integers is an integer. *)
LEMMA SumInt ==
    ASSUME NEW f, NEW S, IsFiniteSet(S), \A x \in S : f[x] \in Int
    PROVE  SumFunctionOnSet(f, S) \in Int
<1> DEFINE C == {s \in SUBSET S : SumFunctionOnSet(f, s) \notin Int}
<1>1. SUFFICES ASSUME C # {} PROVE FALSE
  OBVIOUS
<1>2. PICK s \in C : \A t \in SUBSET s : t # s => t \notin C
  <2>1. C \in SUBSET SUBSET S
    OBVIOUS
  <2> HIDE DEF C
  <2>2. QED
    BY <1>1, <2>1, SmallestSet
<1>3. IsFiniteSet(s)
  BY FS_Subset
<1>4. s # {} /\ First(s) \in s
  <2>1. SumFunctionOnSet(f, s) \notin Int
    BY <1>2
  <2>2. /\ s = {} => SumFunctionOnSet(f, s) = 0
        /\ s # {} => First(s) \in s
    BY <1>3, SumByFirst
  <2>3. QED
    BY <2>1, <2>2
<1>5. SumFunctionOnSet(f, s) = f[First(s)] + SumFunctionOnSet(f, s \ {First(s)})
  BY <1>3, <1>4, SumByFirst
<1>6. SumFunctionOnSet(f, s \ {First(s)}) \in Int
  BY <1>2, <1>4
<1>7. f[First(s)] \in Int
  BY <1>4
<1>8. QED
  BY <1>2, <1>5, <1>6, <1>7

(* Any element may be taken out of a sum, not just the one CHOOSE takes. *)
LEMMA SumByElement ==
    ASSUME NEW f, NEW S, IsFiniteSet(S), \A x \in S : f[x] \in Int, NEW x \in S
    PROVE  SumFunctionOnSet(f, S) = f[x] + SumFunctionOnSet(f, S \ {x})
<1> DEFINE C == {s \in SUBSET S : \E y \in s :
                   SumFunctionOnSet(f, s) # f[y] + SumFunctionOnSet(f, s \ {y})}
<1>1. SUFFICES ASSUME C # {} PROVE FALSE
  OBVIOUS
<1>2. PICK s \in C : \A t \in SUBSET s : t # s => t \notin C
  <2>1. C \in SUBSET SUBSET S
    OBVIOUS
  <2> HIDE DEF C
  <2>2. QED
    BY <1>1, <2>1, SmallestSet
<1>3. PICK y \in s : SumFunctionOnSet(f, s) # f[y] + SumFunctionOnSet(f, s \ {y})
  BY <1>2
<1>4. IsFiniteSet(s) /\ s \in SUBSET S
  BY FS_Subset
<1>5. PICK c \in s : c = First(s)
  BY <1>4, SumByFirst
<1>6. SumFunctionOnSet(f, s) = f[c] + SumFunctionOnSet(f, s \ {c})
  BY <1>4, <1>5, SumByFirst
<1>7. c # y
  BY <1>3, <1>6
<1>8. SumFunctionOnSet(f, s \ {c}) = f[y] + SumFunctionOnSet(f, (s \ {c}) \ {y})
  BY <1>2, <1>4, <1>7
<1>9. SumFunctionOnSet(f, s \ {y}) = f[c] + SumFunctionOnSet(f, (s \ {y}) \ {c})
  BY <1>2, <1>4, <1>7
<1>10. (s \ {y}) \ {c} = (s \ {c}) \ {y}
  OBVIOUS
<1>11. IsFiniteSet((s \ {c}) \ {y})
  BY <1>4, FS_RemoveElement
<1>12. /\ SumFunctionOnSet(f, (s \ {c}) \ {y}) \in Int
       /\ f[c] \in Int /\ f[y] \in Int
  BY <1>4, <1>11, SumInt
<1>13. QED
  BY <1>3, <1>6, <1>8, <1>9, <1>10, <1>12

(* Two functions that agree on a set have the same sum over it. *)
LEMMA SumAgrees ==
    ASSUME NEW f, NEW g, NEW S, IsFiniteSet(S), \A x \in S : f[x] = g[x]
    PROVE  SumFunctionOnSet(f, S) = SumFunctionOnSet(g, S)
<1> DEFINE C == {s \in SUBSET S : SumFunctionOnSet(f, s) # SumFunctionOnSet(g, s)}
<1>1. SUFFICES ASSUME C # {} PROVE FALSE
  OBVIOUS
<1>2. PICK s \in C : \A t \in SUBSET s : t # s => t \notin C
  <2>1. C \in SUBSET SUBSET S
    OBVIOUS
  <2> HIDE DEF C
  <2>2. QED
    BY <1>1, <2>1, SmallestSet
<1>3. IsFiniteSet(s) /\ s \in SUBSET S
  BY FS_Subset
<1>4. SumFunctionOnSet(f, s) # SumFunctionOnSet(g, s)
  BY <1>2
<1>5. s # {}
  BY <1>3, <1>4, SumByFirst
<1>6. PICK c \in s : c = First(s)
  BY <1>3, <1>5, SumByFirst
<1>7. /\ SumFunctionOnSet(f, s) = f[c] + SumFunctionOnSet(f, s \ {c})
      /\ SumFunctionOnSet(g, s) = g[c] + SumFunctionOnSet(g, s \ {c})
  BY <1>3, <1>5, <1>6, SumByFirst
<1>8. SumFunctionOnSet(f, s \ {c}) = SumFunctionOnSet(g, s \ {c})
  BY <1>2, <1>3, <1>6
<1>9. QED
  BY <1>3, <1>4, <1>6, <1>7, <1>8

(* When a function changes at one element, its sum changes by as much. *)
LEMMA SumChanges ==
    ASSUME NEW f, NEW g, NEW S, IsFiniteSet(S), NEW x \in S,
           \A y \in S : f[y] \in Int, g[x] \in Int, \A y \in S \ {x} : g[y] = f[y]
    PROVE  SumFunctionOnSet(g, S) = SumFunctionOnSet(f, S) - f[x] + g[x]
<1>1. IsFiniteSet(S \ {x})
  BY FS_RemoveElement
<1>2. \A y \in S : g[y] \in Int
  OBVIOUS
<1>3. SumFunctionOnSet(f, S) = f[x] + SumFunctionOnSet(f, S \ {x})
  BY SumByElement
<1>4. SumFunctionOnSet(g, S) = g[x] + SumFunctionOnSet(g, S \ {x})
  BY <1>2, SumByElement
<1>5. SumFunctionOnSet(g, S \ {x}) = SumFunctionOnSet(f, S \ {x})
  BY <1>1, SumAgrees
<1>6. SumFunctionOnSet(f, S \ {x}) \in Int
  BY <1>1, SumInt
<1>7. QED
  BY <1>3, <1>4, <1>5, <1>6

(* Elements that contribute nothing may be left out of a sum. *)
LEMMA SumOfSupport ==
    ASSUME NEW f, NEW S, IsFiniteSet(S), NEW T \in SUBSET S, \A x \in S : f[x] \in Int,
           \A x \in S \ T : f[x] = 0
    PROVE  SumFunctionOnSet(f, S) = SumFunctionOnSet(f, T)
<1> DEFINE C == {s \in SUBSET S : T \subseteq s /\ SumFunctionOnSet(f, s) # SumFunctionOnSet(f, T)}
<1>1. SUFFICES ASSUME C # {} PROVE FALSE
  OBVIOUS
<1>2. PICK s \in C : \A t \in SUBSET s : t # s => t \notin C
  <2>1. C \in SUBSET SUBSET S
    OBVIOUS
  <2> HIDE DEF C
  <2>2. QED
    BY <1>1, <2>1, SmallestSet
<1>3. IsFiniteSet(s) /\ s \in SUBSET S /\ T \subseteq s
  BY <1>2, FS_Subset
<1>4. PICK x \in s : x \notin T
  <2>1. s # T
    BY <1>2
  <2>2. QED
    BY <1>3, <2>1
<1>5. SumFunctionOnSet(f, s) = f[x] + SumFunctionOnSet(f, s \ {x})
  BY <1>3, SumByElement
<1>6. SumFunctionOnSet(f, s \ {x}) \in Int
  <2>1. IsFiniteSet(s \ {x})
    BY <1>3, FS_RemoveElement
  <2>2. QED
    BY <1>3, <2>1, SumInt
<1>7. SumFunctionOnSet(f, s \ {x}) = SumFunctionOnSet(f, T)
  BY <1>2, <1>3, <1>4
<1>8. f[x] = 0
  BY <1>3, <1>4
<1>9. QED
  BY <1>2, <1>5, <1>6, <1>7, <1>8

(* g is f with an element m more, in the finite set T. *)
Extends(g, T, f, S, m) ==
    /\ IsFiniteSet(T) /\ S \subseteq T
    /\ m \in T /\ m \notin S /\ (\A x \in T : x = m \/ x \in S)
    /\ g[m] \in Int
    /\ \A x \in S : f[x] \in Int /\ g[x] = f[x]

(* An element added to a set adds its value to the sum over it. *)
LEMMA SumGrows ==
    ASSUME NEW f, NEW g, NEW S, NEW T, NEW m, Extends(g, T, f, S, m)
    PROVE  /\ SumFunctionOnSet(f, S) \in Int
           /\ SumFunctionOnSet(g, T) = SumFunctionOnSet(f, S) + g[m]
<1>1. T \ {m} = S /\ IsFiniteSet(T) /\ m \in T
  BY DEF Extends
<1>2. IsFiniteSet(S)
  BY <1>1, FS_RemoveElement
<1>3. \A x \in T : g[x] \in Int
  BY DEF Extends
<1>4. SumFunctionOnSet(g, T) = g[m] + SumFunctionOnSet(g, T \ {m})
  BY <1>1, <1>3, SumByElement
<1>5. (\A x \in S : f[x] \in Int) /\ (\A x \in S : g[x] = f[x])
  BY DEF Extends
<1>6. SumFunctionOnSet(f, S) \in Int /\ SumFunctionOnSet(g, S) = SumFunctionOnSet(f, S)
  BY <1>2, <1>5, SumInt, SumAgrees
<1>7. PICK sum \in Int, v \in Int : sum = SumFunctionOnSet(f, S) /\ v = g[m]
  BY <1>1, <1>3, <1>6
<1>8. SumFunctionOnSet(g, T) = v + sum
  BY <1>1, <1>4, <1>6, <1>7
<1>9. v + sum = sum + v
  OBVIOUS
<1>10. QED
  BY <1>6, <1>7, <1>8, <1>9

-----------------------------------------------------------------------------
(* Positions and trades *)

(* Whatever quantities are traded, units and money stay whole numbers. *)
PositionRow == [lq : Int, lc : Int, sq : Int, sc : Int, sm : Int, rl : Int, rs : Int]

(* An open book whose cash is a number and whose positions are position rows. *)
Shaped(b) ==
    b \in [open : {TRUE}, cash : Int, nav : {b.nav}, long : {b.long}, short : {b.short},
           margin : {b.margin}, unreal : {b.unreal}, real : {b.real}, rows : {b.rows},
           pos : [Symbols -> PositionRow]]

Trades == [sym : Symbols, side : Sides, qty : Int, price : Int]

(* A book opened with some cash is shaped and flat. *)
LEMMA OpenedShaped ==
    ASSUME NEW initial \in Int
    PROVE  Shaped(Opened(initial)) /\ Opened(initial).cash = initial
  BY DEF Opened, Shaped, Flat, PositionRow

(* The average-cost share of a partial close is a number. *)
LEMMA ShareOfInt ==
    ASSUME NEW total \in Int, NEW qty \in Int, NEW held \in Int
    PROVE  ShareOf(total, qty, held) \in Int
<1>1. total * qty \in Int
  OBVIOUS
<1>2. QED
  BY <1>1 DEF ShareOf

(* A book keeps its shape when its totals are rewritten. *)
LEMMA TotalsRewritten ==
    ASSUME NEW b, Shaped(b), NEW cash \in Int, NEW real
    PROVE  /\ Shaped(WithTotals(b, cash, real))
           /\ WithTotals(b, cash, real).pos = b.pos
           /\ WithTotals(b, cash, real).rows = b.rows
           /\ WithTotals(b, cash, real).cash = cash
  BY DEF Shaped, WithTotals

(* A trade leaves a position row, with the units bought or sold on its side. *)
LEMMA PositionAfterRow ==
    ASSUME NEW p \in PositionRow, NEW t \in Trades
    PROVE  /\ PositionAfter(p, t) \in PositionRow
           /\ t.side = "BUY" => PositionAfter(p, t).lq = p.lq + t.qty
           /\ t.side = "SELL" => PositionAfter(p, t).lq = p.lq - t.qty
           /\ t.side \in {"SHORT", "COVER"} => PositionAfter(p, t).lq = p.lq
           /\ t.side = "SHORT" => PositionAfter(p, t).sq = p.sq + t.qty
           /\ t.side = "COVER" => PositionAfter(p, t).sq = p.sq - t.qty
           /\ t.side \in {"BUY", "SELL"} => PositionAfter(p, t).sq = p.sq
<1> DEFINE notional == t.price * t.qty
<1>1. /\ t.qty \in Int /\ t.price \in Int /\ t.side \in Sides
      /\ p.lq \in Int /\ p.sq \in Int
      /\ p.lc \in Int /\ p.sc \in Int /\ p.sm \in Int /\ p.rl \in Int /\ p.rs \in Int
  BY DEF Trades, PositionRow
<1>2. notional \in Int /\ notional * MarginReq \in Int /\ Commission \in Int
  BY <1>1, PortfolioAssumption
<1>3. Cost(t) \in Int /\ Proceeds(t) \in Int
  BY <1>2 DEF Cost, Proceeds
<1>4. CASE t.side = "BUY"
  <2>1. PICK lq \in Int, lc \in Int : lq = p.lq + t.qty /\ lc = p.lc + Cost(t)
    BY <1>1, <1>3
  <2>2. PositionAfter(p, t) = [p EXCEPT !.lq = lq, !.lc = lc]
    BY <1>4, <2>1 DEF PositionAfter, PositionRow
  <2>3. QED
    BY <1>4, <2>1, <2>2 DEF PositionRow
<1>5. CASE t.side = "SELL"
  <2>2. ShareOf(p.lc, t.qty, p.lq) \in Int
    BY <1>1, ShareOfInt
  <2>3. RealizedBy(p, t) \in Int
    BY <1>3, <1>5, <2>2 DEF RealizedBy
  <2>4. PICK lq \in Int, lc \in Int, rl \in Int :
          /\ lq = p.lq - t.qty /\ lc = p.lc - ShareOf(p.lc, t.qty, p.lq)
          /\ rl = p.rl + RealizedBy(p, t)
    BY <1>1, <2>2, <2>3
  <2>5. PositionAfter(p, t) = [p EXCEPT !.lq = lq, !.lc = lc, !.rl = rl]
    BY <1>5, <2>4 DEF PositionAfter, PositionRow
  <2>6. QED
    BY <1>5, <2>4, <2>5 DEF PositionRow
<1>6. CASE t.side = "SHORT"
  <2>1. PICK sq \in Int, sc \in Int, sm \in Int :
          sq = p.sq + t.qty /\ sc = p.sc + Proceeds(t) /\ sm = p.sm + notional * MarginReq
    BY <1>1, <1>2, <1>3
  <2>2. PositionAfter(p, t) = [p EXCEPT !.sq = sq, !.sc = sc, !.sm = sm]
    BY <1>6, <2>1 DEF PositionAfter, PositionRow
  <2>3. QED
    BY <1>6, <2>1, <2>2 DEF PositionRow
<1>7. CASE t.side = "COVER"
  <2>2. ShareOf(p.sc, t.qty, p.sq) \in Int /\ ShareOf(p.sm, t.qty, p.sq) \in Int
    BY <1>1, ShareOfInt
  <2>3. RealizedBy(p, t) \in Int
    BY <1>3, <1>7, <2>2 DEF RealizedBy
  <2>4. PICK sq \in Int, sc \in Int, sm \in Int, rs \in Int :
          /\ sq = p.sq - t.qty /\ sc = p.sc - ShareOf(p.sc, t.qty, p.sq)
          /\ sm = p.sm - ShareOf(p.sm, t.qty, p.sq) /\ rs = p.rs + RealizedBy(p, t)
    BY <1>1, <2>2, <2>3
  <2>5. PositionAfter(p, t) = [p EXCEPT !.sq = sq, !.sc = sc, !.sm = sm, !.rs = rs]
    BY <1>7, <2>4 DEF PositionAfter, PositionRow
  <2>6. QED
    BY <1>7, <2>4, <2>5 DEF PositionRow
<1>8. QED
  BY <1>1, <1>4, <1>5, <1>6, <1>7 DEF Sides, BuySides, SellSides

(* handle_trade_executed moves cash by what the trade costs or brings, and *)
(* touches no position but the trade's. *)
LEMMA HandleTradeEffect ==
    ASSUME NEW b, Shaped(b), NEW t \in Trades
    PROVE  /\ Shaped(HandleTrade(b, t))
           /\ HandleTrade(b, t).cash = b.cash + CashDelta(t)
           /\ HandleTrade(b, t).pos[t.sym].lq = PositionAfter(b.pos[t.sym], t).lq
           /\ HandleTrade(b, t).pos[t.sym].sq = PositionAfter(b.pos[t.sym], t).sq
           /\ t.sym \in HandleTrade(b, t).rows
                <=> \/ PositionAfter(b.pos[t.sym], t).lq # 0
                    \/ PositionAfter(b.pos[t.sym], t).sq # 0
           /\ \A s \in Symbols \ {t.sym} :
                /\ HandleTrade(b, t).pos[s] = b.pos[s]
                /\ s \in HandleTrade(b, t).rows <=> s \in b.rows
<1> DEFINE p == PositionAfter(b.pos[t.sym], t)
           w == WithPosition(b, t.sym, p)
           h == HandleTrade(b, t)
<1>1. /\ t.sym \in Symbols /\ b.pos[t.sym] \in PositionRow
      /\ b.pos \in [Symbols -> PositionRow] /\ b.cash \in Int
  BY DEF Shaped, Trades
<1>2. p \in PositionRow
  BY <1>1, PositionAfterRow
<1>3. /\ Shaped(w)
      /\ w.pos[t.sym].lq = p.lq /\ w.pos[t.sym].sq = p.sq
      /\ t.sym \in w.rows <=> p.lq # 0 \/ p.sq # 0
      /\ \A s \in Symbols \ {t.sym} : w.pos[s] = b.pos[s] /\ (s \in w.rows <=> s \in b.rows)
  <2>1. Flat \in PositionRow /\ Flat.lq = 0 /\ Flat.sq = 0
    BY DEF Flat, PositionRow
  <2>2. CASE p.lq = 0 /\ p.sq = 0
    <3>1. PICK pos \in [Symbols -> PositionRow] : pos = [b.pos EXCEPT ![t.sym] = Flat]
      BY <1>1, <2>1
    <3>2. PICK rows : rows = b.rows \ {t.sym}
      OBVIOUS
    <3>3. w = [b EXCEPT !.rows = rows, !.pos = pos]
      BY <2>2, <3>1, <3>2 DEF WithPosition, Shaped
    <3>4. Shaped(w) /\ w.pos = pos /\ w.rows = rows
      BY <3>3 DEF Shaped
    <3>5. pos[t.sym] = Flat /\ \A s \in Symbols \ {t.sym} : pos[s] = b.pos[s]
      BY <1>1, <3>1
    <3> HIDE DEF w, p
    <3>6. QED
      BY <2>1, <2>2, <3>2, <3>4, <3>5
  <2>3. CASE ~(p.lq = 0 /\ p.sq = 0)
    <3>1. PICK pos \in [Symbols -> PositionRow] : pos = [b.pos EXCEPT ![t.sym] = p]
      BY <1>1, <1>2
    <3>2. PICK rows : rows = b.rows \cup {t.sym}
      OBVIOUS
    <3>3. w = [b EXCEPT !.rows = rows, !.pos = pos]
      BY <2>3, <3>1, <3>2 DEF WithPosition, Shaped
    <3>4. Shaped(w) /\ w.pos = pos /\ w.rows = rows
      BY <3>3 DEF Shaped
    <3>5. pos[t.sym] = p /\ \A s \in Symbols \ {t.sym} : pos[s] = b.pos[s]
      BY <1>1, <3>1
    <3> HIDE DEF w, p
    <3>6. QED
      BY <2>3, <3>2, <3>4, <3>5
  <2>4. QED
    BY <2>2, <2>3
<1>4. CashDelta(t) \in Int
  BY PortfolioAssumption DEF Trades, CashDelta, Cost, Proceeds
<1>5. b.cash + CashDelta(t) \in Int
  BY <1>1, <1>4
<1>6. h = WithTotals(w, b.cash + CashDelta(t), b.real + RealizedBy(b.pos[t.sym], t))
  BY DEF HandleTrade
<1>7. Shaped(h) /\ h.pos = w.pos /\ h.rows = w.rows /\ h.cash = b.cash + CashDelta(t)
  BY <1>3, <1>5, <1>6, TotalsRewritten
<1> HIDE DEF p, w, h
<1>8. /\ h.pos[t.sym].lq = p.lq /\ h.pos[t.sym].sq = p.sq
      /\ t.sym \in h.rows <=> p.lq # 0 \/ p.sq # 0
      /\ \A s \in Symbols \ {t.sym} : h.pos[s] = b.pos[s] /\ (s \in h.rows <=> s \in b.rows)
  BY <1>3, <1>7
<1>9. QED
  BY <1>7, <1>8 DEF p, h

(* A sale of units at no less than the commission each does not cost cash. *)
LEMMA SaleBrings ==
    ASSUME NEW t \in Trades, t.qty > 0, t.side \in SellSides, Commission <= t.price
    PROVE  CashDelta(t) >= 0
<1>1. t.qty \in Nat \ {0} /\ t.price \in Nat /\ Commission \in Nat
  BY PortfolioAssumption DEF Trades
<1>2. t.price * (t.qty - 1) \in Nat
  BY <1>1
<1>3. t.price * t.qty = t.price * (t.qty - 1) + t.price
  BY <1>1
<1>4. t.price * t.qty - Commission >= 0
  BY <1>1, <1>2, <1>3
<1>5. QED
  BY <1>4 DEF CashDelta, Proceeds, BuySides, SellSides

(* What a gated trade leaves: a BUY no more than the cash there is. *)
LEMMA GateHolds ==
    ASSUME NEW b, Shaped(b), b.cash >= 0, NEW t \in Trades, t.qty > 0, CashCovers(b, t),
           t.side # "COVER", t.side \in SellSides => Commission <= t.price
    PROVE  b.cash + CashDelta(t) >= 0
<1>1. b.cash \in Int /\ Cost(t) \in Int /\ Proceeds(t) \in Int
  BY PortfolioAssumption DEF Shaped, Trades, Cost, Proceeds
<1>2. CASE t.side = "BUY"
  BY <1>1, <1>2 DEF CashCovers, CashDelta, BuySides
<1>3. CASE t.side \in SellSides
  <2>1. CashDelta(t) >= 0 /\ CashDelta(t) \in Int
    BY <1>1, <1>3, SaleBrings DEF CashDelta
  <2>2. QED
    BY <1>1, <2>1
<1>4. QED
  BY <1>2, <1>3 DEF Trades, Sides, BuySides, SellSides

(* The clamp: what a SELL of units takes off a position leaves nothing or *)
(* more than the full-exit tolerance. *)
LEMMA ClampLeavesNoDust ==
    ASSUME NEW b, Shaped(b), NEW r \in [sym : Symbols, side : Sides, qty : Int, limit : Nat],
           Valid(b, r)
    PROVE  /\ Clamp(b, r) \in [sym : Symbols, side : Sides, qty : Int, limit : Nat]
           /\ Clamp(b, r).sym = r.sym /\ Clamp(b, r).side = r.side /\ Clamp(b, r).limit = r.limit
           /\ r.side = "SELL" /\ Clamp(b, r).qty > 0
                => b.pos[r.sym].lq - Clamp(b, r).qty \notin 1 .. Tol
<1>1. b.pos[r.sym].lq \in Int /\ r.qty \in Int /\ Tol \in Nat
  BY PortfolioAssumption DEF Shaped, PositionRow
<1>2. CASE NearFullSell(b, r)
  <2>1. Clamp(b, r) = [r EXCEPT !.qty = b.pos[r.sym].lq] /\ b.pos[r.sym].lq > 0
    BY <1>2 DEF Clamp, NearFullSell
  <2>2. QED
    BY <1>1, <2>1
<1>3. CASE ~NearFullSell(b, r)
  <2>1. Clamp(b, r) = r
    BY <1>3 DEF Clamp
  <2>2. ASSUME r.side = "SELL", r.qty > 0
        PROVE  b.pos[r.sym].lq - r.qty \notin 1 .. Tol
    <3>1. r.qty <= b.pos[r.sym].lq + Tol
      BY <2>2 DEF Valid
    <3>2. CASE b.pos[r.sym].lq <= 0
      BY <1>1, <2>2, <3>1, <3>2
    <3>3. CASE b.pos[r.sym].lq > 0
      <4>1. Abs(r.qty - b.pos[r.sym].lq) > Tol
        BY <1>1, <1>3, <2>2, <3>3 DEF NearFullSell, Abs
      <4>2. QED
        BY <1>1, <3>1, <4>1 DEF Abs
    <3>4. QED
      BY <1>1, <3>2, <3>3
  <2>3. QED
    BY <2>1, <2>2
<1>4. QED
  BY <1>2, <1>3

-----------------------------------------------------------------------------
(* The totals of a balanced book *)

(* A position that keeps no basis for units it does not hold. *)
Settled(p) ==
    /\ p \in Position
    /\ p.lq = 0 => p.lc = 0
    /\ p.sq = 0 => p.sc = 0 /\ p.sm = 0

(* What an auditor would check of a book into which `funded` was paid: the *)
(* rows are those of the held symbols, no closed side has leftovers, cash *)
(* follows from what was paid in, earned and spent, and the exposure and *)
(* the NAV follow from the rows. *)
Balanced(b, funded) ==
    /\ b \in Book
    /\ funded \in Int
    /\ \A s \in Symbols : s \in b.rows <=> b.pos[s].lq + b.pos[s].sq > 0
    /\ \A s \in Symbols : Settled(b.pos[s])
    /\ b.cash = funded + b.real - LongCost(b) + ShortCost(b)
    /\ b.long = LongCost(b) + b.unreal
    /\ b.short = 0 => b.nav = b.cash + b.long

PricedTrades == [sym : Symbols, side : Sides, qty : Nat \ {0}, price : Nat]

(* The share of a part is at most the whole, and the share of all is all. *)
LEMMA ShareOfPart ==
    ASSUME NEW total \in Int, NEW held \in Nat \ {0}, NEW qty \in 0 .. held
    PROVE  /\ total \in Nat => ShareOf(total, qty, held) \in 0 .. total
           /\ qty = held => ShareOf(total, qty, held) = total
<1>1. PICK n \in Int : n = total * qty
  OBVIOUS
<1>2. PICK q \in Int : q = ShareOf(total, qty, held)
  <2>1. qty \in Int /\ held \in Int
    OBVIOUS
  <2>2. ShareOf(total, qty, held) \in Int
    BY <2>1, ShareOfInt
  <2>3. QED
    BY <2>2
<1>3. q = n \div held
  BY <1>1, <1>2 DEF ShareOf
<1>4. held * q <= n /\ n < held * q + held
  BY <1>1, <1>2, <1>3
<1>5. ASSUME total \in Nat PROVE q \in 0 .. total
  <2>1. n <= total * held /\ n >= 0
    BY <1>1, <1>5
  <2>2. ASSUME q < 0 PROVE FALSE
    <3>1. held * (q + 1) <= 0
      BY <1>2, <2>2
    <3>2. QED
      BY <1>2, <1>4, <2>1, <3>1
  <2>3. ASSUME q > total PROVE FALSE
    <3>1. held * (q - total - 1) >= 0
      BY <1>2, <1>5, <2>3
    <3>2. held * (q - total - 1) = held * q - total * held - held
      BY <1>2, <1>5
    <3>3. QED
      BY <1>2, <1>4, <1>5, <2>1, <3>1, <3>2
  <2>4. QED
    BY <1>2, <1>5, <2>2, <2>3
<1>6. ASSUME qty = held PROVE q = total
  <2>1. n = held * total
    BY <1>1, <1>6
  <2>2. held * (total - q) >= 0 /\ held * (total - q) < held
    BY <1>2, <1>4, <2>1
  <2>3. ASSUME total - q >= 1 PROVE FALSE
    <3>1. held * (total - q - 1) >= 0
      BY <1>2, <2>3
    <3>2. QED
      BY <1>2, <2>2, <3>1
  <2>4. ASSUME total - q <= -1 PROVE FALSE
    <3>1. held * (q - total) >= held
      BY <1>2, <2>4
    <3>2. QED
      BY <1>2, <2>2, <3>1
  <2>5. QED
    BY <1>2, <2>3, <2>4
<1>7. QED
  BY <1>2, <1>5, <1>6

(* A trade leaves a position settled, and the cash it moves is what it *)
(* realizes, less what it adds to the basis of the longs, plus what it adds *)
(* to that of the shorts. *)
LEMMA TradeSettles ==
    ASSUME NEW p, Settled(p), NEW t \in PricedTrades, Appliable(p, t)
    PROVE  /\ Settled(PositionAfter(p, t))
           /\ t.side = "BUY" => PositionAfter(p, t).lq = p.lq + t.qty
           /\ t.side = "SELL" => PositionAfter(p, t).lq = p.lq - t.qty
           /\ t.side \in {"SHORT", "COVER"} => PositionAfter(p, t).lq = p.lq
           /\ t.side = "SHORT" => PositionAfter(p, t).sq = p.sq + t.qty
           /\ t.side = "COVER" => PositionAfter(p, t).sq = p.sq - t.qty
           /\ t.side \in {"BUY", "SELL"} => PositionAfter(p, t).sq = p.sq
           /\ RealizedBy(p, t) \in Int
           /\ CashDelta(t) = RealizedBy(p, t) - (PositionAfter(p, t).lc - p.lc)
                                              + (PositionAfter(p, t).sc - p.sc)
<1>1. /\ t.qty \in Nat \ {0} /\ t.price \in Nat /\ t.side \in Sides
      /\ p.lq \in Nat /\ p.sq \in Nat
      /\ p.lc \in Nat /\ p.sc \in Int /\ p.sm \in Int /\ p.rl \in Int /\ p.rs \in Int
  BY DEF PricedTrades, Settled, Position
<1>2. PICK n \in Nat : n = t.price * t.qty
  BY <1>1
<1>3. n * MarginReq \in Int /\ Commission \in Nat
  BY PortfolioAssumption
<1>4. /\ Cost(t) \in Nat /\ Proceeds(t) \in Int
      /\ p \in Position
  BY <1>2, <1>3 DEF Cost, Proceeds, Settled
<1>5. CASE t.side = "BUY"
  <2>1. PICK lq \in Nat \ {0}, lc \in Nat : lq = p.lq + t.qty /\ lc = p.lc + Cost(t)
    BY <1>1, <1>4
  <2>2. PositionAfter(p, t) = [p EXCEPT !.lq = lq, !.lc = lc]
    BY <1>5, <2>1 DEF PositionAfter, Position
  <2>3. /\ RealizedBy(p, t) = 0 /\ CashDelta(t) = -Cost(t)
    BY <1>5 DEF RealizedBy, CashDelta, BuySides
  <2>4. /\ PositionAfter(p, t) \in Position
        /\ PositionAfter(p, t).lq = lq /\ PositionAfter(p, t).lc = lc
        /\ PositionAfter(p, t).sq = p.sq /\ PositionAfter(p, t).sc = p.sc
        /\ PositionAfter(p, t).sm = p.sm
    BY <1>4, <2>1, <2>2 DEF Position
  <2>5. QED
    BY <1>1, <1>4, <1>5, <2>1, <2>3, <2>4 DEF Settled
<1>6. CASE t.side = "SELL"
  <2>1. t.qty <= p.lq /\ p.lq \in Nat \ {0} /\ t.qty \in 0 .. p.lq
    BY <1>1, <1>6 DEF Appliable
  <2>2. PICK share \in 0 .. p.lc :
          share = ShareOf(p.lc, t.qty, p.lq) /\ (t.qty = p.lq => share = p.lc)
    BY <1>1, <2>1, ShareOfPart
  <2>3. PICK r \in Int : r = RealizedBy(p, t)
    BY <1>1, <1>4, <1>6, <2>2 DEF RealizedBy
  <2>4. PICK lq \in Nat, lc \in Nat, rl \in Int :
          lq = p.lq - t.qty /\ lc = p.lc - share /\ rl = p.rl + r
    BY <1>1, <2>1, <2>2
  <2>5. PositionAfter(p, t) = [p EXCEPT !.lq = lq, !.lc = lc, !.rl = rl]
    BY <1>6, <2>2, <2>3, <2>4 DEF PositionAfter, Position
  <2>6. CashDelta(t) = Proceeds(t) /\ r = Proceeds(t) - share
    BY <1>6, <2>2, <2>3 DEF RealizedBy, CashDelta, BuySides
  <2>7. /\ PositionAfter(p, t) \in Position
        /\ PositionAfter(p, t).lq = lq /\ PositionAfter(p, t).lc = lc
        /\ PositionAfter(p, t).sq = p.sq /\ PositionAfter(p, t).sc = p.sc
        /\ PositionAfter(p, t).sm = p.sm
    BY <1>4, <2>4, <2>5 DEF Position
  <2>8. lq = 0 => lc = 0
    BY <1>1, <2>1, <2>2, <2>4
  <2>9. Proceeds(t) = r - (lc - p.lc) + (p.sc - p.sc)
    BY <1>1, <1>4, <2>2, <2>4, <2>6
  <2>10. QED
    BY <1>6, <2>3, <2>4, <2>6, <2>7, <2>8, <2>9 DEF Settled
<1>7. CASE t.side = "SHORT"
  <2>1. PICK sq \in Nat \ {0}, sc \in Int, sm \in Int :
          sq = p.sq + t.qty /\ sc = p.sc + Proceeds(t) /\ sm = p.sm + n * MarginReq
    BY <1>1, <1>3, <1>4
  <2>2. PositionAfter(p, t) = [p EXCEPT !.sq = sq, !.sc = sc, !.sm = sm]
    BY <1>2, <1>7, <2>1 DEF PositionAfter, Position
  <2>3. /\ RealizedBy(p, t) = 0 /\ CashDelta(t) = Proceeds(t)
    BY <1>7 DEF RealizedBy, CashDelta, BuySides
  <2>4. /\ PositionAfter(p, t) \in Position
        /\ PositionAfter(p, t).lq = p.lq /\ PositionAfter(p, t).lc = p.lc
        /\ PositionAfter(p, t).sq = sq /\ PositionAfter(p, t).sc = sc
    BY <1>4, <2>1, <2>2 DEF Position
  <2>5. QED
    BY <1>1, <1>4, <1>7, <2>1, <2>3, <2>4 DEF Settled
<1>8. CASE t.side = "COVER"
  <2>1. t.qty <= p.sq /\ p.sq \in Nat \ {0} /\ t.qty \in 0 .. p.sq
    BY <1>1, <1>8 DEF Appliable
  <2>2. PICK share \in Int, margin \in Int :
          /\ share = ShareOf(p.sc, t.qty, p.sq) /\ (t.qty = p.sq => share = p.sc)
          /\ margin = ShareOf(p.sm, t.qty, p.sq) /\ (t.qty = p.sq => margin = p.sm)
    <3>1. t.qty \in Int /\ p.sq \in Int
      BY <1>1
    <3>2. ShareOf(p.sc, t.qty, p.sq) \in Int /\ ShareOf(p.sm, t.qty, p.sq) \in Int
      BY <1>1, <3>1, ShareOfInt
    <3>3. /\ t.qty = p.sq => ShareOf(p.sc, t.qty, p.sq) = p.sc
          /\ t.qty = p.sq => ShareOf(p.sm, t.qty, p.sq) = p.sm
      BY <1>1, <2>1, ShareOfPart
    <3>4. QED
      BY <3>2, <3>3
  <2>3. PICK r \in Int : r = RealizedBy(p, t)
    BY <1>1, <1>4, <1>8, <2>2 DEF RealizedBy
  <2>4. PICK sq \in Nat, sc \in Int, sm \in Int, rs \in Int :
          sq = p.sq - t.qty /\ sc = p.sc - share /\ sm = p.sm - margin /\ rs = p.rs + r
    BY <1>1, <2>1, <2>2
  <2>5. PositionAfter(p, t) = [p EXCEPT !.sq = sq, !.sc = sc, !.sm = sm, !.rs = rs]
    BY <1>8, <2>2, <2>3, <2>4 DEF PositionAfter, Position
  <2>6. CashDelta(t) = -Cost(t) /\ r = share - Cost(t)
    BY <1>8, <2>2, <2>3 DEF RealizedBy, CashDelta, BuySides
  <2>7. /\ PositionAfter(p, t) \in Position
        /\ PositionAfter(p, t).lq = p.lq /\ PositionAfter(p, t).lc = p.lc
        /\ PositionAfter(p, t).sq = sq /\ PositionAfter(p, t).sc = sc
        /\ PositionAfter(p, t).sm = sm
    BY <1>4, <2>4, <2>5 DEF Position
  <2>8. sq = 0 => sc = 0 /\ sm = 0
    BY <1>1, <2>1, <2>2, <2>4
  <2>9. -Cost(t) = r - (p.lc - p.lc) + (sc - p.sc)
    BY <1>1, <1>4, <2>2, <2>4, <2>6
  <2>10. (p.lq = 0 => p.lc = 0) /\ (p.sq = 0 => p.sc = 0 /\ p.sm = 0)
    BY DEF Settled
  <2>11. QED
    BY <1>8, <2>3, <2>4, <2>6, <2>7, <2>8, <2>9, <2>10 DEF Settled
<1>9. QED
  BY <1>1, <1>5, <1>6, <1>7, <1>8 DEF Sides, BuySides, SellSides

(* The totals over the positions are numbers. *)
LEMMA CostsAreInts ==
    ASSUME NEW b, b.pos \in [Symbols -> Position]
    PROVE  /\ LongCost(b) = SumFunctionOnSet(LongCosts(b), Symbols)
           /\ ShortCost(b) = SumFunctionOnSet(ShortCosts(b), Symbols)
           /\ LongCost(b) \in Int /\ ShortCost(b) \in Int
           /\ SumFunction(ShortMargins(b)) \in Int
<1>1. IsFiniteSet(Symbols)
  BY PortfolioAssumption
<1>2. \A s \in Symbols : LongCosts(b)[s] \in Int /\ ShortCosts(b)[s] \in Int /\ ShortMargins(b)[s] \in Int
  BY DEF LongCosts, ShortCosts, ShortMargins, Position
<1>3. DOMAIN LongCosts(b) = Symbols /\ DOMAIN ShortCosts(b) = Symbols /\ DOMAIN ShortMargins(b) = Symbols
  BY DEF LongCosts, ShortCosts, ShortMargins
<1>4. /\ SumFunctionOnSet(LongCosts(b), Symbols) \in Int
      /\ SumFunctionOnSet(ShortCosts(b), Symbols) \in Int
      /\ SumFunctionOnSet(ShortMargins(b), Symbols) \in Int
  BY <1>1, <1>2, SumInt
<1>5. QED
  BY <1>3, <1>4 DEF LongCost, ShortCost, SumFunction

(* A change of one position changes the totals by as much. *)
LEMMA CostsFollow ==
    ASSUME NEW b, b.pos \in [Symbols -> Position], NEW c, c.pos \in [Symbols -> Position],
           NEW x \in Symbols, \A s \in Symbols \ {x} : c.pos[s] = b.pos[s]
    PROVE  /\ LongCost(c) = LongCost(b) - b.pos[x].lc + c.pos[x].lc
           /\ ShortCost(c) = ShortCost(b) - b.pos[x].sc + c.pos[x].sc
<1>1. IsFiniteSet(Symbols)
  BY PortfolioAssumption
<1>2. PICK f, g : f = LongCosts(b) /\ g = LongCosts(c)
  OBVIOUS
<1>3. PICK h, k : h = ShortCosts(b) /\ k = ShortCosts(c)
  OBVIOUS
<1>4. \A s \in Symbols : /\ f[s] = b.pos[s].lc /\ g[s] = c.pos[s].lc
                         /\ h[s] = b.pos[s].sc /\ k[s] = c.pos[s].sc
                         /\ f[s] \in Int /\ g[s] \in Int /\ h[s] \in Int /\ k[s] \in Int
  BY <1>2, <1>3 DEF LongCosts, ShortCosts, Position
<1>5. SumFunctionOnSet(g, Symbols) = SumFunctionOnSet(f, Symbols) - f[x] + g[x]
  <2>1. \A s \in Symbols \ {x} : g[s] = f[s]
    BY <1>4
  <2>2. QED
    BY <1>1, <1>4, <2>1, SumChanges
<1>6. SumFunctionOnSet(k, Symbols) = SumFunctionOnSet(h, Symbols) - h[x] + k[x]
  <2>1. \A s \in Symbols \ {x} : k[s] = h[s]
    BY <1>4
  <2>2. QED
    BY <1>1, <1>4, <2>1, SumChanges
<1>7. QED
  BY <1>2, <1>3, <1>4, <1>5, <1>6, CostsAreInts

(* What the position's row holds after it is written or deleted. *)
LEMMA PositionWritten ==
    ASSUME NEW b \in Book, NEW x \in Symbols, NEW p, Settled(p),
           NEW w, w = WithPosition(b, x, p)
    PROVE  /\ w \in Book /\ w.real = b.real
           /\ w.pos[x].lq = p.lq /\ w.pos[x].lc = p.lc
           /\ w.pos[x].sq = p.sq /\ w.pos[x].sc = p.sc
           /\ w.pos[x] \in {p, Flat}
           /\ x \in w.rows <=> p.lq + p.sq > 0
           /\ \A s \in Symbols \ {x} : w.pos[s] = b.pos[s] /\ (s \in w.rows <=> s \in b.rows)
<1>1. b.pos \in [Symbols -> Position] /\ b.rows \subseteq Symbols /\ p \in Position
  BY DEF Book, Settled
<1>2. p.lq \in Nat /\ p.sq \in Nat
  BY <1>1 DEF Position
<1>3. Flat \in Position /\ Settled(Flat)
  BY DEF Flat, Position, Settled
<1>4. CASE p.lq = 0 /\ p.sq = 0
  <2>1. PICK pos \in [Symbols -> Position] : pos = [b.pos EXCEPT ![x] = Flat]
    BY <1>1, <1>3
  <2>2. PICK rows \in SUBSET Symbols : rows = b.rows \ {x}
    BY <1>1
  <2>3. w = [b EXCEPT !.rows = rows, !.pos = pos]
    BY <1>4, <2>1, <2>2 DEF WithPosition, Book
  <2>4. w \in Book /\ w.pos = pos /\ w.rows = rows /\ w.real = b.real
    BY <2>3 DEF Book
  <2>5. pos[x] = Flat /\ \A s \in Symbols \ {x} : pos[s] = b.pos[s]
    BY <1>1, <2>1
  <2>6. /\ Flat.lq = p.lq /\ Flat.lc = p.lc /\ Flat.sq = p.sq /\ Flat.sc = p.sc
    BY <1>4 DEF Settled, Flat
  <2>7. QED
    BY <1>2, <1>3, <1>4, <2>2, <2>4, <2>5, <2>6
<1>5. CASE ~(p.lq = 0 /\ p.sq = 0)
  <2>1. PICK pos \in [Symbols -> Position] : pos = [b.pos EXCEPT ![x] = p]
    BY <1>1
  <2>2. PICK rows \in SUBSET Symbols : rows = b.rows \cup {x}
    BY <1>1
  <2>3. w = [b EXCEPT !.rows = rows, !.pos = pos]
    BY <1>5, <2>1, <2>2 DEF WithPosition, Book
  <2>4. w \in Book /\ w.pos = pos /\ w.rows = rows /\ w.real = b.real
    BY <2>3 DEF Book
  <2>5. pos[x] = p /\ \A s \in Symbols \ {x} : pos[s] = b.pos[s]
    BY <1>1, <2>1
  <2>6. QED
    BY <1>2, <1>5, <2>2, <2>4, <2>5
<1>6. QED
  BY <1>4, <1>5

(* What the portfolio row holds after its totals are rewritten. *)
LEMMA TotalsWritten ==
    ASSUME NEW b \in Book, NEW cash \in Int, NEW real \in Int,
           NEW w, w = WithTotals(b, cash, real)
    PROVE  /\ w \in Book /\ w.pos = b.pos /\ w.rows = b.rows
           /\ w.cash = cash /\ w.real = real /\ w.unreal = 0
           /\ w.nav = cash + LongCost(b) /\ w.long = LongCost(b)
<1>1. b.pos \in [Symbols -> Position]
  BY DEF Book
<1>2. PICK long \in Int, short \in Int, margin \in Int, nav \in Int :
        /\ long = LongCost(b) /\ short = ShortCost(b) /\ margin = SumFunction(ShortMargins(b))
        /\ nav = cash + LongCost(b)
  BY <1>1, CostsAreInts
<1>3. PICK a : a = [b EXCEPT !.cash = cash, !.real = real]
  OBVIOUS
<1>4. /\ a \in Book /\ a.pos = b.pos /\ a.rows = b.rows
      /\ a.cash = cash /\ a.real = real
  BY <1>3 DEF Book
<1>5. PICK c : c = [a EXCEPT !.unreal = 0, !.nav = nav]
  OBVIOUS
<1>6. /\ c \in Book /\ c.pos = b.pos /\ c.rows = b.rows
      /\ c.cash = cash /\ c.real = real /\ c.unreal = 0 /\ c.nav = nav
  <2>1. PICK zero \in Int : zero = 0
    OBVIOUS
  <2>2. c = [a EXCEPT !.unreal = zero, !.nav = nav]
    BY <1>5, <2>1
  <2>3. /\ c \in Book /\ c.pos = b.pos /\ c.rows = b.rows
        /\ c.cash = cash /\ c.real = real /\ c.unreal = zero /\ c.nav = nav
    BY <1>4, <2>2 DEF Book
  <2>4. QED
    BY <2>1, <2>3
<1>7. PICK d : d = [c EXCEPT !.long = long, !.short = short]
  OBVIOUS
<1>8. /\ d \in Book /\ d.pos = b.pos /\ d.rows = b.rows
      /\ d.cash = cash /\ d.real = real /\ d.unreal = 0 /\ d.nav = nav /\ d.long = long
  BY <1>6, <1>7 DEF Book
<1>9. PICK e : e = [d EXCEPT !.margin = margin]
  OBVIOUS
<1>10. /\ e \in Book /\ e.pos = b.pos /\ e.rows = b.rows
       /\ e.cash = cash /\ e.real = real /\ e.unreal = 0 /\ e.nav = nav /\ e.long = long
  BY <1>8, <1>9 DEF Book
<1>11. w = e
  BY <1>2, <1>3, <1>5, <1>7, <1>9 DEF WithTotals
<1>12. QED
  BY <1>2, <1>10, <1>11

(* handle_trade_executed keeps a balanced book balanced, moves the trade's *)
(* units and touches no other position. *)
LEMMA TradeBalances ==
    ASSUME NEW b, NEW funded, Balanced(b, funded), NEW t \in PricedTrades,
           Appliable(b.pos[t.sym], t), NEW h, h = HandleTrade(b, t)
    PROVE  /\ Balanced(h, funded)
           /\ h.cash = b.cash + CashDelta(t)
           /\ h.pos[t.sym].lq = PositionAfter(b.pos[t.sym], t).lq
           /\ h.pos[t.sym].sq = PositionAfter(b.pos[t.sym], t).sq
           /\ \A s \in Symbols \ {t.sym} : h.pos[s] = b.pos[s]
<1> DEFINE x == t.sym
           p == PositionAfter(b.pos[x], t)
<1>1. b \in Book /\ x \in Symbols /\ funded \in Int /\ Settled(b.pos[x]) /\ b.pos[x] \in Position
  BY DEF Balanced, PricedTrades, Book
<1>2. PICK real \in Int : real = RealizedBy(b.pos[x], t)
  BY <1>1, TradeSettles
<1>3. PICK q : q = p
  OBVIOUS
<1>4. Settled(q) /\ CashDelta(t) = real - (q.lc - b.pos[x].lc) + (q.sc - b.pos[x].sc)
  BY <1>1, <1>2, <1>3, TradeSettles
<1>5. PICK v : v = WithPosition(b, x, q)
  OBVIOUS
<1>6. /\ v \in Book /\ v.real = b.real
      /\ v.pos[x].lq = q.lq /\ v.pos[x].lc = q.lc /\ v.pos[x].sq = q.sq /\ v.pos[x].sc = q.sc
      /\ Settled(v.pos[x])
      /\ x \in v.rows <=> q.lq + q.sq > 0
      /\ \A s \in Symbols \ {x} : v.pos[s] = b.pos[s] /\ (s \in v.rows <=> s \in b.rows)
  <2>1. b \in Book /\ Settled(q) /\ x \in Symbols
    BY <1>1, <1>4
  <2>2. /\ v \in Book /\ v.real = b.real
        /\ v.pos[x].lq = q.lq /\ v.pos[x].lc = q.lc /\ v.pos[x].sq = q.sq /\ v.pos[x].sc = q.sc
        /\ v.pos[x] \in {q, Flat}
        /\ x \in v.rows <=> q.lq + q.sq > 0
        /\ \A s \in Symbols \ {x} : v.pos[s] = b.pos[s] /\ (s \in v.rows <=> s \in b.rows)
    BY <1>5, <2>1, PositionWritten
  <2>3. Settled(Flat)
    BY DEF Flat, Position, Settled
  <2>4. QED
    BY <2>1, <2>2, <2>3
<1>7. /\ b.pos \in [Symbols -> Position] /\ v.pos \in [Symbols -> Position]
      /\ b.cash \in Int /\ b.real \in Int /\ v.rows \subseteq Symbols
      /\ \A s \in Symbols : b.pos[s].lc \in Int /\ b.pos[s].sc \in Int
      /\ q.lc \in Int /\ q.sc \in Int
  BY <1>1, <1>4, <1>6 DEF Book, Position, Settled
<1>8. /\ LongCost(v) = LongCost(b) - b.pos[x].lc + q.lc
      /\ ShortCost(v) = ShortCost(b) - b.pos[x].sc + q.sc
      /\ LongCost(b) \in Int /\ ShortCost(b) \in Int
      /\ LongCost(v) \in Int /\ ShortCost(v) \in Int /\ SumFunction(ShortMargins(v)) \in Int
  BY <1>1, <1>6, <1>7, CostsFollow, CostsAreInts
<1>9. PICK delta \in Int : delta = CashDelta(t)
  BY <1>1, <1>2, <1>4, <1>7
<1>10. PICK cash \in Int, gain \in Int : cash = b.cash + delta /\ gain = b.real + real
  BY <1>7
<1>12. h = WithTotals(v, cash, gain)
  <2>1. h = WithTotals(v, b.cash + CashDelta(t), b.real + RealizedBy(b.pos[x], t))
    BY <1>3, <1>5 DEF HandleTrade
  <2>2. QED
    BY <1>2, <1>9, <1>10, <2>1
<1>13. /\ h \in Book /\ h.pos = v.pos /\ h.rows = v.rows
       /\ h.cash = cash /\ h.real = gain /\ h.unreal = 0
       /\ h.nav = cash + LongCost(v) /\ h.long = LongCost(v)
  BY <1>6, <1>12, TotalsWritten
<1>14. LongCost(h) = LongCost(v) /\ ShortCost(h) = ShortCost(v)
  BY <1>13 DEF LongCost, ShortCost, LongCosts, ShortCosts
<1>15. cash = funded + gain - LongCost(v) + ShortCost(v)
  <2>1. b.cash = funded + b.real - LongCost(b) + ShortCost(b)
    BY DEF Balanced
  <2>2. QED
    BY <1>1, <1>4, <1>7, <1>8, <1>9, <1>10, <2>1
<1>16. ASSUME NEW s \in Symbols
       PROVE  (s \in v.rows <=> v.pos[s].lq + v.pos[s].sq > 0) /\ Settled(v.pos[s])
  BY <1>6, <1>16 DEF Balanced
<1>17. Balanced(h, funded)
  BY <1>1, <1>8, <1>13, <1>14, <1>15, <1>16 DEF Balanced
<1>18. QED
  BY <1>3, <1>6, <1>9, <1>10, <1>13, <1>17

(* A symbol that holds nothing long adds nothing to the long cost, so the *)
(* held rows account for all of it. *)
LEMMA HeldCost ==
    ASSUME NEW b, NEW funded, Balanced(b, funded)
    PROVE  SumFunctionOnSet(LongCosts(b), {s \in b.rows : b.pos[s].lq > 0}) = LongCost(b)
<1>1. PICK held \in SUBSET Symbols : held = {s \in b.rows : b.pos[s].lq > 0}
  BY DEF Balanced, Book
<1>2. PICK f : f = LongCosts(b)
  OBVIOUS
<1>3. b.pos \in [Symbols -> Position]
  BY DEF Balanced, Book
<1>4. \A s \in Symbols : f[s] = b.pos[s].lc /\ f[s] \in Int
  BY <1>2, <1>3 DEF LongCosts, Position
<1>5. ASSUME NEW s \in Symbols \ held PROVE f[s] = 0
  <2>1. b.pos[s].lq \in Nat /\ b.pos[s].sq \in Nat
    BY <1>3 DEF Position
  <2>2. b.pos[s].lq = 0
    BY <1>1, <2>1 DEF Balanced
  <2>3. QED
    BY <1>4, <2>2 DEF Balanced, Settled
<1>6. SumFunctionOnSet(f, Symbols) = SumFunctionOnSet(f, held)
  BY <1>4, <1>5, SumOfSupport, PortfolioAssumption
<1>7. QED
  BY <1>1, <1>2, <1>3, <1>6, CostsAreInts

(* The totals depend on the positions alone. *)
LEMMA SamePositions ==
    ASSUME NEW b, NEW c, c.pos = b.pos
    PROVE  LongCost(c) = LongCost(b) /\ ShortCost(c) = ShortCost(b)
  BY DEF LongCost, ShortCost, LongCosts, ShortCosts

(* A book opened with some cash is balanced. *)
LEMMA OpenedBalances ==
    ASSUME NEW initial \in Int, NEW b, b = Opened(initial)
    PROVE  /\ Balanced(b, initial)
           /\ b.cash = initial /\ b.rows = {}
           /\ \A s \in Symbols : b.pos[s].lq = 0 /\ b.pos[s].sq = 0
<1>1. Flat \in Position /\ Settled(Flat)
  BY DEF Flat, Position, Settled
<1>2. /\ b \in Book /\ b.cash = initial /\ b.nav = initial /\ b.long = 0 /\ b.short = 0
      /\ b.unreal = 0 /\ b.real = 0 /\ b.rows = {}
      /\ \A s \in Symbols : b.pos[s] = Flat
  BY <1>1 DEF Opened, Book
<1>3. b.pos \in [Symbols -> Position]
  BY <1>2 DEF Book
<1>4. \A s \in Symbols : LongCosts(b)[s] = 0 /\ ShortCosts(b)[s] = 0
  BY <1>2 DEF LongCosts, ShortCosts, Flat
<1>5. /\ SumFunctionOnSet(LongCosts(b), Symbols) = 0
      /\ SumFunctionOnSet(ShortCosts(b), Symbols) = 0
  <2>1. {} \in SUBSET Symbols /\ IsFiniteSet(Symbols) /\ IsFiniteSet({})
    BY PortfolioAssumption, FS_EmptySet
  <2>2. PICK f, g : f = LongCosts(b) /\ g = ShortCosts(b)
    OBVIOUS
  <2>3. \A s \in Symbols : f[s] = 0 /\ g[s] = 0
    BY <1>4, <2>2
  <2>4. /\ SumFunctionOnSet(f, Symbols) = SumFunctionOnSet(f, {})
        /\ SumFunctionOnSet(g, Symbols) = SumFunctionOnSet(g, {})
    BY <2>1, <2>3, SumOfSupport
  <2>5. SumFunctionOnSet(f, {}) = 0 /\ SumFunctionOnSet(g, {}) = 0
    BY <2>1, SumByFirst
  <2>6. QED
    BY <2>2, <2>4, <2>5
<1>6. LongCost(b) = 0 /\ ShortCost(b) = 0
  BY <1>3, <1>5, CostsAreInts
<1>7. \A s \in Symbols : b.pos[s].lq = 0 /\ b.pos[s].sq = 0 /\ Settled(b.pos[s])
  BY <1>1, <1>2 DEF Flat
<1>8. QED
  BY <1>2, <1>6, <1>7 DEF Balanced

(* adjust_cash keeps a book balanced, with what it paid in or out. *)
LEMMA AdjustBalances ==
    ASSUME NEW b, NEW funded, Balanced(b, funded), NEW amount \in Int,
           NEW c, c = Adjusted(b, b.cash + amount)
    PROVE  Balanced(c, funded + amount) /\ c.pos = b.pos /\ c.rows = b.rows
<1>1. /\ b \in Book /\ b.cash \in Int /\ b.long \in Int /\ b.short \in Int /\ funded \in Int
      /\ b.pos \in [Symbols -> Position] /\ b.real \in Int /\ b.unreal \in Int
  BY DEF Balanced, Book
<1>2. PICK cash \in Int, nav \in Int : cash = b.cash + amount /\ nav = cash + b.long - b.short
  BY <1>1
<1>3. c = [b EXCEPT !.cash = cash, !.nav = nav]
  BY <1>2 DEF Adjusted
<1>4. /\ c \in Book /\ c.pos = b.pos /\ c.rows = b.rows /\ c.cash = cash /\ c.nav = nav
      /\ c.real = b.real /\ c.unreal = b.unreal /\ c.long = b.long /\ c.short = b.short
  BY <1>1, <1>3 DEF Book
<1>5. LongCost(c) = LongCost(b) /\ ShortCost(c) = ShortCost(b)
  BY <1>4, SamePositions
<1>6. LongCost(b) \in Int /\ ShortCost(b) \in Int
  BY <1>1, CostsAreInts
<1>7. cash = funded + amount + b.real - LongCost(b) + ShortCost(b)
  BY <1>1, <1>2, <1>6 DEF Balanced
<1>8. b.short = 0 => nav = cash + b.long
  BY <1>1, <1>2
<1>9. funded + amount \in Int
  BY <1>1
<1>10. QED
  BY <1>4, <1>5, <1>7, <1>8, <1>9 DEF Balanced

Revalued(b, value) ==
    [b EXCEPT !.nav = b.cash + value, !.long = value, !.unreal = value - LongCost(b)]

(* A mark that takes the exposure from the rows keeps a book balanced, *)
(* whatever the positions are valued at. *)
LEMMA RevaluedBalances ==
    ASSUME NEW b, NEW funded, Balanced(b, funded), NEW value \in Int,
           NEW c, c = Revalued(b, value)
    PROVE  /\ Balanced(c, funded) /\ c.pos = b.pos /\ c.rows = b.rows
           /\ c.cash = b.cash /\ c.real = b.real /\ c.nav = b.cash + value
<1>1. /\ b \in Book /\ b.cash \in Int /\ b.pos \in [Symbols -> Position]
  BY DEF Balanced, Book
<1>2. LongCost(b) \in Int
  BY <1>1, CostsAreInts
<1>3. PICK nav \in Int, unreal \in Int : nav = b.cash + value /\ unreal = value - LongCost(b)
  BY <1>1, <1>2
<1>4. PICK d : d = [b EXCEPT !.nav = nav, !.long = value]
  OBVIOUS
<1>5. /\ d \in Book /\ d.pos = b.pos /\ d.rows = b.rows /\ d.cash = b.cash /\ d.nav = nav
      /\ d.real = b.real /\ d.long = value /\ d.short = b.short
  BY <1>1, <1>4 DEF Book
<1>6. c = [d EXCEPT !.unreal = unreal]
  BY <1>3, <1>4 DEF Revalued
<1>7. /\ c \in Book /\ c.pos = b.pos /\ c.rows = b.rows /\ c.cash = b.cash /\ c.nav = nav
      /\ c.real = b.real /\ c.unreal = unreal /\ c.long = value /\ c.short = b.short
  BY <1>5, <1>6 DEF Book
<1>8. LongCost(c) = LongCost(b) /\ ShortCost(c) = ShortCost(b)
  BY <1>7, SamePositions
<1>9. value = LongCost(b) + unreal
  BY <1>2, <1>3
<1>10. QED
  BY <1>3, <1>7, <1>8, <1>9 DEF Balanced

(* mark_to_market keeps a book balanced whatever the prices. *)
LEMMA MarkBalances ==
    ASSUME NEW b, NEW funded, Balanced(b, funded), NEW price \in [Symbols -> Int],
           NEW c, c = Marked(b, price)
    PROVE  Balanced(c, funded) /\ c.pos = b.pos /\ c.rows = b.rows
<1> DEFINE held == {s \in b.rows : b.pos[s].lq > 0}
           mv == SumFunctionOnSet([s \in Symbols |-> MarketValue(b, price, s)], held)
<1>1. b \in Book /\ b.pos \in [Symbols -> Position] /\ b.rows \subseteq Symbols
  BY DEF Balanced, Book
<1>2. PICK f : f = [s \in Symbols |-> MarketValue(b, price, s)]
  OBVIOUS
<1>3. \A s \in held : f[s] \in Int
  BY <1>1, <1>2 DEF MarketValue, Position
<1>4. IsFiniteSet(held)
  BY <1>1, FS_Subset, PortfolioAssumption
<1>5. PICK value \in Int : value = mv
  <2>1. SumFunctionOnSet(f, held) \in Int
    <3> HIDE DEF held
    <3> QED BY <1>3, <1>4, SumInt
  <2>2. QED
    BY <1>2, <2>1
<1>6. SumFunctionOnSet(LongCosts(b), held) = LongCost(b)
  BY HeldCost
<1>7. c = Revalued(b, value)
  BY <1>5, <1>6 DEF Marked, Revalued
<1>8. QED
  BY <1>7, RevaluedBalances
=============================================================================
