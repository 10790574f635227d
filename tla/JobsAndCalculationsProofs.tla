--------------------- MODULE JobsAndCalculationsProofs ---------------------
(***************************************************************************)
(* Two modules that share no state: the calculations, of which all but the *)
(* selection and the counting are proved for any input (PointInTime,       *)
(* Screening, AnalystWeights, PortfolioDecision, Scoring,                  *)
(* BacktestStatistics), and the jobs of the backtest API.                  *)
(*                                                                         *)
(* The calculations.  Sums over finite sets come first: of a combination,  *)
(* a multiple, a part, and of shares rounded down.  That a backtest does   *)
(* not look ahead rests on one fact about the filings that are kept: those *)
(* public on a day are the ones kept of what was public, unless a later    *)
(* one replaced its period.  Everything else picks from them by a choice   *)
(* or a walk that a later filing cannot disturb.  The weights rest on a    *)
(* bound for every step that makes them: clipping, sharing out, rounding,  *)
(* and the ten rounds of the cap, after n of which at least n names are at *)
(* the cap or none is above it.                                            *)
(*                                                                         *)
(* Ranks keep the order of the scores because the share of those who tie   *)
(* is between the deciles of their first and last place, and deciles go    *)
(* down along the places.  The drawdown is right because its accumulator   *)
(* is, after each day, about the days so far.  Two of the probes are never *)
(* a likely signal because n times the square of their difference is at    *)
(* most twice n times the spread of all n.  A worked case then meets its   *)
(* part of the property because the general theorem does.                  *)
(*                                                                         *)
(* The jobs.  For any number of runs, any length and any rebalance         *)
(* schedule, the inductive invariant says, for each place the background   *)
(* task can be in, what the record, the context and the row look like      *)
(* there; above all, that during a pipeline the event is set exactly when  *)
(* the record says cancelled, because a cancel that comes before the       *)
(* context exists is passed on when it does.                               *)
(***************************************************************************)
EXTENDS BacktestJobs, WorkedCases, PortfolioProofs, SequenceTheorems

-----------------------------------------------------------------------------
(* Sums *)

(* h is p times f and q times g on X. *)
Combines(h, f, g, X, p, q) ==
    /\ p \in Int /\ q \in Int
    /\ \A x \in X : f[x] \in Int /\ g[x] \in Int /\ h[x] = p * f[x] + q * g[x]

(* The sum of a combination is the combination of the sums. *)
LEMMA SumCombines ==
    ASSUME NEW f, NEW g, NEW h, NEW X, IsFiniteSet(X), NEW p, NEW q, Combines(h, f, g, X, p, q)
    PROVE  SumFunctionOnSet(h, X) = p * SumFunctionOnSet(f, X) + q * SumFunctionOnSet(g, X)
<1> DEFINE Combined(s) == SumFunctionOnSet(h, s) = p * SumFunctionOnSet(f, s) + q * SumFunctionOnSet(g, s)
           Bad == {s \in SUBSET X : ~ Combined(s)}
<1>1. SUFFICES ASSUME Bad # {} PROVE FALSE
  OBVIOUS
<1>2. PICK s \in Bad : \A t \in SUBSET s : t # s => t \notin Bad
  <2>1. Bad \in SUBSET SUBSET X
    OBVIOUS
  <2> HIDE DEF Bad
  <2>2. QED
    BY <1>1, <2>1, SmallestSet
<1>3. IsFiniteSet(s) /\ s \in SUBSET X /\ ~ Combined(s)
  BY FS_Subset
<1>4. CASE s = {}
  <2>1. SumFunctionOnSet(f, s) = 0 /\ SumFunctionOnSet(g, s) = 0 /\ SumFunctionOnSet(h, s) = 0
    BY <1>3, <1>4, SumByFirst
  <2>2. p * 0 + q * 0 = 0
    BY DEF Combines
  <2>3. QED
    BY <1>3, <2>1, <2>2
<1>5. CASE s # {}
  <2>1. PICK x \in s : x = First(s)
    BY <1>3, <1>5, SumByFirst
  <2>2. PICK t \in SUBSET s : t = s \ {x}
    OBVIOUS
  <2>3. IsFiniteSet(t) /\ t # s
    BY <1>3, <2>1, <2>2, FS_Subset
  <2>4. /\ SumFunctionOnSet(f, s) = f[x] + SumFunctionOnSet(f, t)
        /\ SumFunctionOnSet(g, s) = g[x] + SumFunctionOnSet(g, t)
        /\ SumFunctionOnSet(h, s) = h[x] + SumFunctionOnSet(h, t)
    BY <1>3, <1>5, <2>1, <2>2, SumByFirst
  <2>5. Combined(t)
    BY <1>2, <1>3, <2>2, <2>3
  <2>6. PICK F \in Int, G \in Int : F = SumFunctionOnSet(f, t) /\ G = SumFunctionOnSet(g, t)
    <3>1. \A y \in t : f[y] \in Int /\ g[y] \in Int
      BY <1>3 DEF Combines
    <3>2. QED
      BY <2>3, <3>1, SumInt
  <2>7. PICK a \in Int, b \in Int : a = f[x] /\ b = g[x] /\ h[x] = p * a + q * b
    BY <1>3 DEF Combines
  <2>7a. p \in Int /\ q \in Int
    BY DEF Combines
  <2>8. SumFunctionOnSet(h, s) = (p * a + q * b) + (p * F + q * G)
    BY <2>4, <2>5, <2>6, <2>7
  <2>9. (p * a + q * b) + (p * F + q * G) = p * (a + F) + q * (b + G)
    BY <2>7a
  <2>10. QED
    BY <1>3, <2>4, <2>6, <2>7, <2>8, <2>9
<1>6. QED
  BY <1>4, <1>5

(* What is never negative has no negative sum. *)
LEMMA SumNatural ==
    ASSUME NEW f, NEW X, IsFiniteSet(X), \A x \in X : f[x] \in Nat
    PROVE  SumFunctionOnSet(f, X) \in Nat
<1> DEFINE Bad == {s \in SUBSET X : SumFunctionOnSet(f, s) \notin Nat}
<1>1. SUFFICES ASSUME Bad # {} PROVE FALSE
  OBVIOUS
<1>2. PICK s \in Bad : \A t \in SUBSET s : t # s => t \notin Bad
  <2>1. Bad \in SUBSET SUBSET X
    OBVIOUS
  <2> HIDE DEF Bad
  <2>2. QED
    BY <1>1, <2>1, SmallestSet
<1>3. IsFiniteSet(s) /\ s \in SUBSET X /\ SumFunctionOnSet(f, s) \notin Nat
  BY FS_Subset
<1>4. s # {}
  <2>1. s = {} => SumFunctionOnSet(f, s) = 0
    BY <1>3, SumByFirst
  <2>2. 0 \in Nat
    OBVIOUS
  <2>3. QED
    BY <1>3, <2>1, <2>2
<1>5. PICK x \in s : x = First(s)
  BY <1>3, <1>4, SumByFirst
<1>6. SumFunctionOnSet(f, s) = f[x] + SumFunctionOnSet(f, s \ {x})
  BY <1>3, <1>4, <1>5, SumByFirst
<1>7. SumFunctionOnSet(f, s \ {x}) \in Nat
  BY <1>2, <1>3
<1>8. QED
  BY <1>3, <1>6, <1>7

(* A sum of terms that are smaller is smaller. *)
LEMMA SumLeq ==
    ASSUME NEW f, NEW g, NEW X, IsFiniteSet(X), \A x \in X : f[x] \in Int /\ g[x] \in Int /\ f[x] <= g[x]
    PROVE  SumFunctionOnSet(f, X) <= SumFunctionOnSet(g, X)
<1>1. PICK h : h = [x \in X |-> g[x] - f[x]]
  OBVIOUS
<1>2. PICK p \in Int, q \in Int : p = -1 /\ q = 1
  OBVIOUS
<1>3. \A x \in X : h[x] \in Nat /\ h[x] \in Int /\ h[x] = p * f[x] + q * g[x]
  BY <1>1, <1>2
<1>4. SumFunctionOnSet(h, X) = p * SumFunctionOnSet(f, X) + q * SumFunctionOnSet(g, X)
  <2>1. Combines(h, f, g, X, p, q)
    BY <1>3 DEF Combines
  <2>2. QED
    BY <2>1, SumCombines
<1>5. SumFunctionOnSet(h, X) \in Nat
  BY <1>3, SumNatural
<1>6. SumFunctionOnSet(f, X) \in Int /\ SumFunctionOnSet(g, X) \in Int
  BY SumInt
<1>7. QED
  BY <1>2, <1>4, <1>5, <1>6

(* A multiple may be taken out of a sum. *)
LEMMA SumScales ==
    ASSUME NEW f, NEW h, NEW X, IsFiniteSet(X), NEW p \in Int,
           \A x \in X : f[x] \in Int /\ h[x] = p * f[x]
    PROVE  SumFunctionOnSet(h, X) = p * SumFunctionOnSet(f, X)
<1>1. PICK z \in Int : z = 0
  OBVIOUS
<1>2. ASSUME NEW x \in X PROVE f[x] \in Int /\ h[x] \in Int /\ h[x] = p * f[x] + z * f[x]
  <2>1. PICK a \in Int : a = f[x]
    OBVIOUS
  <2>2. h[x] = p * a
    BY <2>1
  <2>3. QED
    BY <1>1, <2>1, <2>2
<1>3. SumFunctionOnSet(h, X) = p * SumFunctionOnSet(f, X) + z * SumFunctionOnSet(f, X)
  <2>1. Combines(h, f, f, X, p, z)
    BY <1>2 DEF Combines
  <2>2. QED
    BY <2>1, SumCombines
<1>4. PICK F \in Int : F = SumFunctionOnSet(f, X)
  BY SumInt
<1>5. QED
  BY <1>1, <1>3, <1>4

(* A sum may be taken in two parts. *)
LEMMA SumSplits ==
    ASSUME NEW f, NEW X, IsFiniteSet(X), NEW Y \in SUBSET X, \A x \in X : f[x] \in Int
    PROVE  SumFunctionOnSet(f, X) = SumFunctionOnSet(f, Y) + SumFunctionOnSet(f, X \ Y)
<1>1. PICK g, h : g = [x \in X |-> IF x \in Y THEN f[x] ELSE 0] /\ h = [x \in X |-> IF x \in Y THEN 0 ELSE f[x]]
  OBVIOUS
<1>0. PICK p \in Int : p = 1
  OBVIOUS
<1>2. \A x \in X : g[x] \in Int /\ h[x] \in Int /\ f[x] = p * g[x] + p * h[x]
  BY <1>0, <1>1
<1>3. SumFunctionOnSet(f, X) = p * SumFunctionOnSet(g, X) + p * SumFunctionOnSet(h, X)
  <2>1. Combines(f, g, h, X, p, p)
    BY <1>2 DEF Combines
  <2>2. QED
    BY <2>1, SumCombines
<1>4. SumFunctionOnSet(g, X) = SumFunctionOnSet(f, Y)
  <2>1. SumFunctionOnSet(g, X) = SumFunctionOnSet(g, Y)
    BY <1>1, <1>2, SumOfSupport
  <2>2. SumFunctionOnSet(g, Y) = SumFunctionOnSet(f, Y)
    <3>1. IsFiniteSet(Y) /\ \A x \in Y : g[x] = f[x]
      BY <1>1, FS_Subset
    <3>2. QED
      BY <3>1, SumAgrees
  <2>3. QED
    BY <2>1, <2>2
<1>5. SumFunctionOnSet(h, X) = SumFunctionOnSet(f, X \ Y)
  <2>0. X \ Y \in SUBSET X /\ \A x \in X \ (X \ Y) : h[x] = 0
    BY <1>1
  <2>1. SumFunctionOnSet(h, X) = SumFunctionOnSet(h, X \ Y)
    BY <1>2, <2>0, SumOfSupport
  <2>2. SumFunctionOnSet(h, X \ Y) = SumFunctionOnSet(f, X \ Y)
    <3>1. IsFiniteSet(X \ Y) /\ \A x \in X \ Y : h[x] = f[x]
      BY <1>1, FS_Subset
    <3>2. QED
      BY <3>1, SumAgrees
  <2>3. QED
    BY <2>1, <2>2
<1>6. SumFunctionOnSet(g, X) \in Int /\ SumFunctionOnSet(h, X) \in Int
  BY <1>2, SumInt
<1>7. QED
  BY <1>0, <1>3, <1>4, <1>5, <1>6

(* A product of two whose first is positive has the sign of the second. *)
LEMMA SignOfProduct ==
    \A r \in Nat \ {0}, k \in Int : (r * k >= 0 => k >= 0) /\ (k >= 0 => r * k >= 0)
  OBVIOUS

(* Rounded-down shares of an amount are never more than the amount. *)
LEMMA SharesFit ==
    ASSUME NEW w, NEW X, IsFiniteSet(X), \A x \in X : w[x] \in Nat, NEW e \in Nat, NEW r \in Nat \ {0},
           SumFunctionOnSet(w, X) <= r, NEW f, \A x \in X : f[x] = (e * w[x]) \div r
    PROVE  /\ \A x \in X : f[x] \in Nat
           /\ SumFunctionOnSet(f, X) <= e
<1>1. ASSUME NEW x \in X PROVE f[x] \in Nat /\ r * f[x] <= e * w[x]
  <2>1. PICK m \in Nat : m = e * w[x]
    OBVIOUS
  <2>2. m \div r \in Nat /\ r * (m \div r) <= m
    OBVIOUS
  <2>3. QED
    BY <2>1, <2>2
<1>2. PICK lo, hi : lo = [x \in X |-> r * f[x]] /\ hi = [x \in X |-> e * w[x]]
  OBVIOUS
<1>3. \A x \in X : lo[x] \in Int /\ hi[x] \in Int /\ lo[x] <= hi[x]
  <2>1. ASSUME NEW x \in X PROVE lo[x] \in Int /\ hi[x] \in Int /\ lo[x] <= hi[x]
    <3>1. r * f[x] \in Int /\ e * w[x] \in Int
      BY <1>1
    <3>2. QED
      BY <1>1, <1>2, <3>1
  <2>2. QED
    BY <2>1
<1>4. SumFunctionOnSet(lo, X) <= SumFunctionOnSet(hi, X)
  BY <1>3, SumLeq
<1>5. PICK total \in Nat, parts \in Nat : total = SumFunctionOnSet(w, X) /\ parts = SumFunctionOnSet(f, X)
  BY <1>1, SumNatural
<1>6. SumFunctionOnSet(lo, X) = r * parts
  <2>1. \A x \in X : f[x] \in Int /\ lo[x] = r * f[x]
    BY <1>1, <1>2
  <2>2. r \in Int
    OBVIOUS
  <2>3. QED
    BY <1>5, <2>1, <2>2, SumScales
<1>7. SumFunctionOnSet(hi, X) = e * total
  <2>1. \A x \in X : w[x] \in Int /\ hi[x] = e * w[x]
    BY <1>2
  <2>2. e \in Int
    OBVIOUS
  <2>3. QED
    BY <1>5, <2>1, <2>2, SumScales
<1>8. r * parts <= e * total /\ total <= r
  BY <1>4, <1>5, <1>6, <1>7
<1>9. e * total <= e * r
  BY <1>8
<1>10. r * (e - parts) >= 0
  <2>1. r * parts \in Int /\ e * total \in Int /\ e * r \in Int
    OBVIOUS
  <2>2. r * (e - parts) = e * r - r * parts
    OBVIOUS
  <2>3. QED
    BY <1>8, <1>9, <2>1, <2>2
<1>11. parts <= e
  BY <1>10, SignOfProduct
<1>12. QED
  BY <1>1, <1>5, <1>11

(* Filings as they come: typed, with finitely many figures each. *)
Filing(f) ==
    /\ f.period \in Int /\ f.filed \in Int
    /\ IsFiniteSet(DOMAIN f.values)

(* What was public on a day. *)
Public(filings, asOf) == {f \in filings : f.filed <= asOf}

(* Of two repeats, the one that is kept has more figures, or came sooner. *)
Beats(f, g) ==
    LET richer == Cardinality(DOMAIN g.values) - Cardinality(DOMAIN f.values)
    IN  richer < 0 \/ (richer = 0 /\ Sooner(f, g))

(* The filings that are kept beat all their repeats. *)
LEMMA KeptBeats ==
    ASSUME NEW filings
    PROVE  Kept(filings) = {f \in filings : \A g \in Repeats(filings, f) \ {f} : Beats(f, g)}
  BY DEF Kept, Beats

(* The filings kept of those public on a day are the ones kept of all, as *)
(* far as they are public. *)
LEMMA KeptAsOf ==
    ASSUME NEW filings, \A f \in filings : Filing(f), NEW asOf \in Int, ~ Replaced(filings, asOf)
    PROVE  {f \in Kept(filings) : f.filed <= asOf} = Kept(Public(filings, asOf))
<1> DEFINE AtHand == Public(filings, asOf)
<1>1. ASSUME NEW f \in filings, f.filed <= asOf
      PROVE  f \in Kept(filings) <=> f \in Kept(AtHand)
  <2>1. f \in AtHand /\ Repeats(AtHand, f) = {g \in Repeats(filings, f) : g.filed <= asOf}
    BY <1>1 DEF Repeats, Public
  <2>2. f \in Kept(filings) => f \in Kept(AtHand)
    BY <2>1, KeptBeats
  <2>3. ASSUME f \in Kept(AtHand), NEW g \in Repeats(filings, f) \ {f}, ~ g.filed <= asOf
        PROVE  Beats(f, g)
    <3>1. g \in filings /\ f.period = g.period /\ f.form = g.form
      BY <2>3 DEF Repeats
    <3>2. f.filed \in Int /\ g.filed \in Int /\ f.filed <= asOf /\ g.filed > asOf
      BY <1>1, <2>3, <3>1 DEF Filing
    <3>3. ~ Cardinality(DOMAIN g.values) > Cardinality(DOMAIN f.values)
      BY <3>1, <3>2 DEF Replaced
    <3>4. Cardinality(DOMAIN g.values) \in Nat /\ Cardinality(DOMAIN f.values) \in Nat
      BY <3>1, FS_CardinalityType DEF Filing
    <3>5. f.filed < g.filed
      BY <3>2
    <3>6. QED
      BY <3>3, <3>4, <3>5 DEF Sooner, Beats
  <2>4. f \in Kept(AtHand) => f \in Kept(filings)
    BY <2>1, <2>3, KeptBeats
  <2>5. QED
    BY <2>2, <2>4
<1>2. Kept(AtHand) \subseteq {f \in filings : f.filed <= asOf}
  BY KeptBeats DEF Public
<1>3. Kept(filings) \subseteq filings
  BY KeptBeats
<1>4. QED
  BY <1>1, <1>2, <1>3

(* The first of the repeats of a public filing is public. *)
LEMMA FirstAsOf ==
    ASSUME NEW filings, \A f \in filings : Filing(f), NEW asOf \in Int, NEW f \in filings, f.filed <= asOf
    PROVE  FirstOf(filings, f) = FirstOf(Public(filings, asOf), f)
<1> DEFINE all == Repeats(filings, f)
           some == Repeats(Public(filings, asOf), f)
           First1(g) == g \in all /\ \A h \in all \ {g} : Sooner(g, h)
           First2(g) == g \in some /\ \A h \in some \ {g} : Sooner(g, h)
<1>1. f \in some /\ some = {g \in all : g.filed <= asOf} /\ all \subseteq filings
  BY DEF Repeats, Public
<1>2. ASSUME NEW g PROVE First1(g) <=> First2(g)
  <2>1. ASSUME First1(g) PROVE First2(g)
    <3>1. g = f \/ Sooner(g, f)
      BY <1>1, <2>1
    <3>2. g.filed <= asOf
      BY <1>1, <2>1, <3>1 DEF Filing, Sooner
    <3>3. QED
      BY <1>1, <2>1, <3>2
  <2>2. ASSUME First2(g) PROVE First1(g)
    <3>1. ASSUME NEW h \in all \ {g}, h \notin some PROVE Sooner(g, h)
      <4>1. h.filed \in Int /\ g.filed \in Int /\ g.filed <= asOf /\ ~ h.filed <= asOf
        BY <1>1, <2>2, <3>1 DEF Filing
      <4>2. QED
        BY <4>1 DEF Sooner
    <3>2. QED
      BY <1>1, <2>2, <3>1
  <2>3. QED
    BY <2>1, <2>2
<1>3. (CHOOSE g : First1(g)) = (CHOOSE g : First2(g))
  BY <1>2, Zenon
<1>4. QED
  BY <1>3 DEF FirstOf

(* What is available on a day, newest first, is the same list. *)
LEMMA AvailableAsOf ==
    ASSUME NEW filings, \A f \in filings : Filing(f), NEW asOf \in Int, ~ Replaced(filings, asOf),
           NEW keys, NEW d \in Int, d <= asOf
    PROVE  Available(filings, keys, d) = Available(Public(filings, asOf), keys, d)
<1> DEFINE AtHand == Public(filings, asOf)
           Rows == {f \in Kept(filings) : f.filed <= d /\ keys \subseteq DOMAIN f.values}
<1>1. ASSUME NEW f \in Kept(filings), f.filed <= d
      PROVE  f \in filings /\ f.filed \in Int /\ f.filed <= asOf
  BY <1>1, KeptBeats DEF Filing
<1>2. Rows = {f \in Kept(AtHand) : f.filed <= d /\ keys \subseteq DOMAIN f.values}
  <2>1. Kept(AtHand) = {f \in Kept(filings) : f.filed <= asOf}
    BY KeptAsOf
  <2>2. QED
    BY <1>1, <2>1
<1>3. PICK X : X = Rows
  OBVIOUS
<1>4. \A f \in X : FirstOf(filings, f) = FirstOf(AtHand, f)
  <2>1. \A f \in X : f \in filings /\ f.filed <= asOf
    BY <1>1, <1>3
  <2>2. QED
    BY <2>1, FirstAsOf
<1>5. \A f, g \in X : Later(filings, f, g) <=> Later(AtHand, f, g)
  BY <1>4 DEF Later
<1>6. LatestFirst(filings, X) = LatestFirst(AtHand, X)
  <2> DEFINE place(F, f) == 1 + Cardinality({g \in X : Later(F, g, f)})
             At1(k) == CHOOSE f \in X : place(filings, f) = k
             At2(k) == CHOOSE f \in X : place(AtHand, f) = k
  <2>1. \A f \in X : place(filings, f) = place(AtHand, f)
    <3>1. \A f \in X : {g \in X : Later(filings, g, f)} = {g \in X : Later(AtHand, g, f)}
      BY <1>5
    <3>2. QED
      BY <3>1
  <2>2. \A k : At1(k) = At2(k)
    <3> HIDE DEF place
    <3> QED BY <2>1
  <2>3. PICK n : n = Cardinality(X)
    OBVIOUS
  <2>4. LatestFirst(filings, X) = [k \in 1 .. n |-> At1(k)]
    BY <2>3 DEF LatestFirst
  <2>5. LatestFirst(AtHand, X) = [k \in 1 .. n |-> At2(k)]
    BY <2>3 DEF LatestFirst
  <2>6. QED
    <3> HIDE DEF At1, At2
    <3> QED BY <2>2, <2>4, <2>5
<1>7. Available(filings, keys, d) = LatestFirst(filings, X)
  BY <1>3 DEF Available
<1>8. Available(AtHand, keys, d) = LatestFirst(AtHand, X)
  BY <1>2, <1>3 DEF Available
<1>9. QED
  BY <1>6, <1>7, <1>8

(* The figures that follow from what is available. *)
LEMMA FiguresAsOf ==
    ASSUME NEW filings, \A f \in filings : Filing(f), NEW asOf \in Int, ~ Replaced(filings, asOf)
    PROVE  LET AtHand == Public(filings, asOf)
           IN  /\ \A key : ComputeTtm(filings, key, asOf) = ComputeTtm(AtHand, key, asOf)
               /\ \A key : LatestStockValue(filings, key, asOf) = LatestStockValue(AtHand, key, asOf)
               /\ \A key : YoyGrowth(filings, key, asOf) = YoyGrowth(AtHand, key, asOf)
               /\ LatestEps(filings, asOf) = LatestEps(AtHand, asOf)
               /\ DaysSinceLastFiling(filings, asOf) = DaysSinceLastFiling(AtHand, asOf)
               /\ DecliningQuarters(filings, asOf) = DecliningQuarters(AtHand, asOf)
<1>0. PICK AtHand : AtHand = Public(filings, asOf)
  OBVIOUS
<1>1. \A keys : Available(filings, keys, asOf) = Available(AtHand, keys, asOf)
  BY <1>0, AvailableAsOf
<1>2. asOf - 4 * Quarter \in Int /\ asOf - 4 * Quarter <= asOf
  BY CasesAssumption
<1>3. \A keys : Available(filings, keys, asOf - 4 * Quarter) = Available(AtHand, keys, asOf - 4 * Quarter)
  BY <1>0, <1>2, AvailableAsOf
<1>4. \A key : /\ ComputeTtm(filings, key, asOf) = ComputeTtm(AtHand, key, asOf)
               /\ ComputeTtm(filings, key, asOf - 4 * Quarter) = ComputeTtm(AtHand, key, asOf - 4 * Quarter)
  BY <1>1, <1>3 DEF ComputeTtm
<1>5. \A key : YoyGrowth(filings, key, asOf) = YoyGrowth(AtHand, key, asOf)
  BY <1>4 DEF YoyGrowth
<1>6. \A key : LatestStockValue(filings, key, asOf) = LatestStockValue(AtHand, key, asOf)
  BY <1>1 DEF LatestStockValue
<1>7. LatestEps(filings, asOf) = LatestEps(AtHand, asOf)
  BY <1>1 DEF LatestEps
<1>8. DaysSinceLastFiling(filings, asOf) = DaysSinceLastFiling(AtHand, asOf)
  BY <1>1 DEF DaysSinceLastFiling
<1>9. DecliningQuarters(filings, asOf) = DecliningQuarters(AtHand, asOf)
  BY <1>1 DEF DecliningQuarters
<1>10. QED
  BY <1>0, <1>4, <1>5, <1>6, <1>7, <1>8, <1>9
(* A finite set of numbers has a greatest one and a least one. *)
LEMMA MaxInSet ==
    ASSUME NEW X \in SUBSET Int, IsFiniteSet(X), X # {}
    PROVE  Max(X) \in X /\ \A y \in X : Max(X) >= y
<1> DEFINE Greatest(s, x) == x \in s /\ \A y \in s : x >= y
           Bad == {s \in SUBSET X : s # {} /\ ~ \E x \in s : Greatest(s, x)}
<1>1. SUFFICES ASSUME Bad # {} PROVE FALSE
  <2>1. X \notin Bad
    BY <1>1
  <2>2. PICK x \in X : \A y \in X : x >= y
    BY <2>1
  <2>3. QED
    BY <2>2 DEF Max
<1>2. PICK s \in Bad : \A t \in SUBSET s : t # s => t \notin Bad
  <2>1. Bad \in SUBSET SUBSET X
    OBVIOUS
  <2> HIDE DEF Bad
  <2>2. QED
    BY <1>1, <2>1, SmallestSet
<1>3. s \in SUBSET Int /\ s # {} /\ ~ \E x \in s : Greatest(s, x)
  BY <1>2
<1>4. PICK x \in s : TRUE
  BY <1>3
<1>5. PICK t \in SUBSET s : t = s \ {x}
  OBVIOUS
<1>6. t # s /\ t \in SUBSET X
  BY <1>4, <1>5
<1>7. CASE t = {}
  <2>1. s = {x} /\ x \in Int
    BY <1>3, <1>4, <1>5, <1>7
  <2>2. Greatest(s, x)
    BY <2>1
  <2>3. QED
    BY <1>3, <2>2
<1>8. CASE t # {}
  <2>1. PICK m \in t : Greatest(t, m)
    BY <1>2, <1>6, <1>8
  <2>2. m \in Int /\ x \in Int /\ m \in s
    BY <1>3, <1>5
  <2>3. CASE m >= x
    <3>1. Greatest(s, m)
      BY <1>5, <2>1, <2>2, <2>3
    <3>2. QED
      BY <1>3, <2>2, <3>1
  <2>4. CASE ~ m >= x
    <3>1. Greatest(s, x)
      BY <1>3, <1>5, <2>1, <2>2, <2>4
    <3>2. QED
      BY <1>3, <3>1
  <2>5. QED
    BY <2>3, <2>4
<1>9. QED
  BY <1>7, <1>8

(* The least of a finite set of integers is one of them. *)
LEMMA MinInSet ==
    ASSUME NEW X \in SUBSET Int, IsFiniteSet(X), X # {}
    PROVE  Min(X) \in X /\ \A y \in X : Min(X) <= y
<1> DEFINE neg == [x \in X |-> -x]
<1>1. PICK Y : Y = {-x : x \in X}
  OBVIOUS
<1>2. Y \in SUBSET Int /\ Y # {}
  <2>1. \A y \in Y : y \in Int
    BY <1>1
  <2>2. QED
    BY <1>1, <2>1
<1>3. IsFiniteSet(Y)
  <2>1. neg \in Surjection(X, Y)
    BY <1>1 DEF Surjection
  <2> HIDE DEF neg
  <2>2. QED
    BY <2>1, FS_Surjection
<1>4. PICK m \in X : -m = Max(Y)
  BY <1>1, <1>2, <1>3, MaxInSet
<1>5. \A y \in X : m <= y
  <2>1. \A y \in X : Max(Y) >= -y
    BY <1>1, <1>2, <1>3, MaxInSet
  <2>2. QED
    BY <1>4, <2>1
<1>6. QED
  BY <1>4, <1>5 DEF Min

(* The prices of a day and of the window before it. *)
LEMMA PricesAsOf ==
    ASSUME NEW closes, DOMAIN closes \in SUBSET Int, IsFiniteSet(DOMAIN closes),
           NEW asOf \in Int, NEW length \in Nat
    PROVE  LET known == [d \in {e \in DOMAIN closes : e <= asOf} |-> closes[d]]
           IN  /\ CurrentPrice(closes, asOf) = CurrentPrice(known, asOf)
               /\ PriceMetrics(closes, asOf, length) = PriceMetrics(known, asOf, length)
<1>1. PICK before : before = {e \in DOMAIN closes : e <= asOf}
  OBVIOUS
<1>2. PICK known : known = [d \in before |-> closes[d]]
  OBVIOUS
<1>3. /\ DOMAIN known = before /\ before \subseteq DOMAIN closes
      /\ \A d \in before : known[d] = closes[d]
  BY <1>1, <1>2
<1>4. \A X \in SUBSET before : X # {} => Max(X) \in X /\ Min(X) \in X
  <2>1. SUFFICES ASSUME NEW X \in SUBSET before, X # {} PROVE Max(X) \in X /\ Min(X) \in X
    OBVIOUS
  <2>2. X \in SUBSET Int /\ IsFiniteSet(X)
    BY <1>3, FS_Subset
  <2>3. Max(X) \in X /\ Min(X) \in X
    BY <2>1, <2>2, MaxInSet, MinInSet
  <2>4. QED
    BY <2>3
<1>5. CurrentPrice(closes, asOf) = CurrentPrice(known, asOf)
  <2>1. {d \in DOMAIN closes : d <= asOf} = before /\ {d \in DOMAIN known : d <= asOf} = before
    BY <1>1, <1>3
  <2>2. before # {} => closes[Max(before)] = known[Max(before)]
    BY <1>3, <1>4
  <2>3. QED
    BY <2>1, <2>2 DEF CurrentPrice
<1>6. PICK days : days = Window(closes, asOf, length)
  OBVIOUS
<1>7. days = Window(known, asOf, length) /\ days \in SUBSET before
  BY <1>1, <1>3, <1>6 DEF Window
<1>8. PriceMetrics(closes, asOf, length) = PriceMetrics(known, asOf, length)
  <2>1. CASE days = {}
    BY <1>6, <1>7, <2>1 DEF PriceMetrics
  <2>2. CASE days # {}
    <3>1. PICK year, half : year = LastOf(days, YearCloses) /\ half = LastOf(days, HalfCloses)
      OBVIOUS
    <3>2. year \in SUBSET days /\ half \in SUBSET days
      BY <3>1 DEF LastOf
    <3>3. half # {}
      <4>1. PICK m \in days : m = Max(days) /\ \A e \in days : m >= e
        BY <1>3, <1>7, <2>2, FS_Subset, MaxInSet
      <4>2. {e \in days : e > m} = {}
        BY <1>3, <1>7, <4>1
      <4>3. Cardinality({e \in days : e > m}) < HalfCloses
        BY <4>2, FS_EmptySet, ClosesAssumption
      <4>4. QED
        BY <3>1, <4>3 DEF LastOf
    <3>4. {closes[d] : d \in year} = {known[d] : d \in year}
      BY <1>3, <1>7, <3>2
    <3>5. closes[Max(days)] = known[Max(days)] /\ closes[Min(half)] = known[Min(half)]
      BY <1>3, <1>4, <1>7, <2>2, <3>2, <3>3
    <3>6. PICK high, low, last, first, n :
             /\ high = Max({closes[d] : d \in year}) /\ low = Min({closes[d] : d \in year})
             /\ last = closes[Max(days)] /\ first = closes[Min(half)] /\ n = Cardinality(days)
      OBVIOUS
    <3>7. PriceMetrics(closes, asOf, length) =
            [high |-> high, low |-> low,
             return |-> IF n < 2 THEN NoFigure ELSE (100 * (last - first)) \div first]
      <4>1. PriceMetrics(closes, asOf, length) =
              [high   |-> Max({closes[d] : d \in year}), low |-> Min({closes[d] : d \in year}),
               return |-> IF Cardinality(days) < 2 THEN NoFigure
                          ELSE (100 * (closes[Max(days)] - closes[Min(half)])) \div closes[Min(half)]]
        BY <1>6, <2>2, <3>1, Zenon DEF PriceMetrics
      <4>2. QED
        BY <3>6, <4>1, Zenon
    <3>8. PriceMetrics(known, asOf, length) =
            [high |-> high, low |-> low,
             return |-> IF n < 2 THEN NoFigure ELSE (100 * (last - first)) \div first]
      <4>1. PriceMetrics(known, asOf, length) =
              [high   |-> Max({known[d] : d \in year}), low |-> Min({known[d] : d \in year}),
               return |-> IF Cardinality(days) < 2 THEN NoFigure
                          ELSE (100 * (known[Max(days)] - known[Min(half)])) \div known[Min(half)]]
        BY <1>7, <2>2, <3>1, Zenon DEF PriceMetrics
      <4>2. QED
        BY <3>4, <3>5, <3>6, <4>1, Zenon
    <3>9. QED
      BY <3>7, <3>8
  <2>3. QED
    BY <2>1, <2>2
<1>9. QED
  BY <1>1, <1>2, <1>5, <1>8

(* The metrics a backtest computes for a company on a day follow from the     *)
(* filings public then and the closes up to then, unless a richer repeat of a *)
(* period replaced its first filing (historical_fundamentals.py               *)
(* get_metrics_as_of, xbrl_mapping.py build_quarterly_snapshots).             *)
THEOREM MetricsIgnoreTheFuture ==
    ASSUME NEW filings, \A f \in filings : Filing(f), NEW asOf \in Int, ~ Replaced(filings, asOf),
           NEW closes, DOMAIN closes \in SUBSET Int, IsFiniteSet(DOMAIN closes), NEW length \in Nat
    PROVE  MetricsAsOf(filings, closes, asOf, length)
             = MetricsAsOf(Public(filings, asOf), [d \in {e \in DOMAIN closes : e <= asOf} |-> closes[d]],
                             asOf, length)
<1>1. PICK AtHand : AtHand = Public(filings, asOf)
  OBVIOUS
<1>2. PICK known : known = [d \in {e \in DOMAIN closes : e <= asOf} |-> closes[d]]
  OBVIOUS
<1>3. /\ \A key : ComputeTtm(filings, key, asOf) = ComputeTtm(AtHand, key, asOf)
      /\ \A key : LatestStockValue(filings, key, asOf) = LatestStockValue(AtHand, key, asOf)
      /\ \A key : YoyGrowth(filings, key, asOf) = YoyGrowth(AtHand, key, asOf)
      /\ LatestEps(filings, asOf) = LatestEps(AtHand, asOf)
      /\ DaysSinceLastFiling(filings, asOf) = DaysSinceLastFiling(AtHand, asOf)
      /\ DecliningQuarters(filings, asOf) = DecliningQuarters(AtHand, asOf)
  BY <1>1, FiguresAsOf
<1>4. /\ CurrentPrice(closes, asOf) = CurrentPrice(known, asOf)
      /\ PriceMetrics(closes, asOf, length) = PriceMetrics(known, asOf, length)
  BY <1>2, PricesAsOf
<1>5. KnownOn(filings, closes, asOf, length) = KnownOn(AtHand, known, asOf, length)
  BY <1>3, <1>4 DEF KnownOn
<1>6. MetricsAsOf(filings, closes, asOf, length) = MetricsAsOf(AtHand, known, asOf, length)
  BY <1>5 DEF MetricsAsOf
<1>7. QED
  BY <1>1, <1>2, <1>6

-----------------------------------------------------------------------------
(* The twelve months before a day *)

(* Pairs that order a set one after the other. *)
Linear(X, R) ==
    /\ \A x \in X : <<x, x>> \notin R
    /\ \A x, y, z \in X : <<x, y>> \in R /\ <<y, z>> \in R => <<x, z>> \in R
    /\ \A x, y \in X : x # y => <<x, y>> \in R \/ <<y, x>> \in R

(* Those before x. *)
Below(X, R, x) == {y \in X : <<y, x>> \in R}

(* What comes later in the order has more elements before it. *)
LEMMA LaterHasMoreBelow ==
    ASSUME NEW X, IsFiniteSet(X), NEW R, Linear(X, R), NEW x \in X, NEW y \in X, <<x, y>> \in R
    PROVE  Cardinality(Below(X, R, x)) < Cardinality(Below(X, R, y))
<1>1. IsFiniteSet(Below(X, R, y)) /\ IsFiniteSet(Below(X, R, x))
  BY FS_Subset DEF Below
<1>2. Below(X, R, x) \in SUBSET Below(X, R, y)
  BY DEF Below, Linear
<1>3. x \in Below(X, R, y) /\ x \notin Below(X, R, x)
  BY DEF Below, Linear
<1>4. /\ Cardinality(Below(X, R, x)) \in Nat /\ Cardinality(Below(X, R, y)) \in Nat
  BY <1>1, FS_CardinalityType
<1>5. /\ Cardinality(Below(X, R, x)) <= Cardinality(Below(X, R, y))
      /\ Cardinality(Below(X, R, y)) = Cardinality(Below(X, R, x)) => Below(X, R, y) = Below(X, R, x)
  BY <1>1, <1>2, FS_Subset
<1>6. QED
  BY <1>3, <1>4, <1>5

(* Every element of an ordered finite set has its place, one each. *)
LEMMA OnePlaceEach ==
    ASSUME NEW X, IsFiniteSet(X), NEW R, Linear(X, R)
    PROVE  /\ Cardinality(X) \in Nat
           /\ \A x \in X : Cardinality(Below(X, R, x)) + 1 \in 1 .. Cardinality(X)
           /\ \A x, y \in X : Cardinality(Below(X, R, x)) = Cardinality(Below(X, R, y)) => x = y
           /\ \A i \in 1 .. Cardinality(X) : \E x \in X : Cardinality(Below(X, R, x)) = i - 1
<1> DEFINE rank == [x \in X |-> Cardinality(Below(X, R, x)) + 1]
<1>1. Cardinality(X) \in Nat
  BY FS_CardinalityType
<1>2. ASSUME NEW x \in X PROVE Cardinality(Below(X, R, x)) + 1 \in 1 .. Cardinality(X)
  <2>1. Below(X, R, x) \in SUBSET X /\ x \notin Below(X, R, x)
    BY DEF Below, Linear
  <2>2. IsFiniteSet(Below(X, R, x)) /\ Cardinality(Below(X, R, x)) <= Cardinality(X)
        /\ (Cardinality(X) = Cardinality(Below(X, R, x)) => X = Below(X, R, x))
    BY <2>1, FS_Subset
  <2>3. Cardinality(Below(X, R, x)) \in Nat
    BY <2>2, FS_CardinalityType
  <2>4. QED
    BY <1>1, <2>1, <2>2, <2>3
<1>3. ASSUME NEW x \in X, NEW y \in X, Cardinality(Below(X, R, x)) = Cardinality(Below(X, R, y))
      PROVE  x = y
  <2>1. SUFFICES ASSUME x # y PROVE FALSE
    OBVIOUS
  <2>2. Cardinality(Below(X, R, x)) \in Nat
    <3>1. IsFiniteSet(Below(X, R, x))
      BY FS_Subset DEF Below
    <3>2. QED
      BY <3>1, FS_CardinalityType
  <2>3. CASE <<x, y>> \in R
    BY <1>3, <2>2, <2>3, LaterHasMoreBelow
  <2>4. CASE <<y, x>> \in R
    BY <1>3, <2>2, <2>4, LaterHasMoreBelow
  <2>5. QED
    BY <2>1, <2>3, <2>4 DEF Linear
<1>4. rank \in Injection(X, 1 .. Cardinality(X))
  <2>1. rank \in [X -> 1 .. Cardinality(X)]
    BY <1>2
  <2>2. ASSUME NEW x \in X, NEW y \in X, rank[x] = rank[y] PROVE x = y
    <3>1. Cardinality(Below(X, R, x)) \in Nat /\ Cardinality(Below(X, R, y)) \in Nat
      BY FS_Subset, FS_CardinalityType DEF Below
    <3>2. Cardinality(Below(X, R, x)) = Cardinality(Below(X, R, y))
      BY <2>2, <3>1
    <3>3. QED
      BY <1>3, <3>2
  <2> HIDE DEF rank
  <2>3. QED
    BY <2>1, <2>2 DEF Injection, IsInjective
<1>5. rank \in Surjection(X, 1 .. Cardinality(X))
  <2>1. IsFiniteSet(1 .. Cardinality(X)) /\ Cardinality(1 .. Cardinality(X)) = Cardinality(X)
    BY <1>1, FS_Interval
  <2> HIDE DEF rank
  <2>2. QED
    BY <1>4, <2>1, FS_Injection
<1>6. ASSUME NEW i \in 1 .. Cardinality(X) PROVE \E x \in X : Cardinality(Below(X, R, x)) = i - 1
  <2>1. PICK x \in X : rank[x] = i
    <3> HIDE DEF rank
    <3> QED BY <1>5 DEF Surjection
  <2>2. Cardinality(Below(X, R, x)) \in Nat
    BY FS_Subset, FS_CardinalityType DEF Below
  <2>3. QED
    BY <1>1, <2>1, <2>2
<1>7. QED
  BY <1>1, <1>2, <1>3, <1>6

(* One filing of the walk back through the filings. *)
WalkStep(key, acc, f) ==
    IF acc.done \/ f.period \in acc.seen THEN acc
    ELSE IF f.form = "10-K" THEN [acc EXCEPT !.sum = f.values[key], !.done = TRUE]
    ELSE [sum  |-> acc.sum + f.values[key],
          seen |-> acc.seen \cup {f.period},
          done |-> Cardinality(acc.seen) = 3]

(* Where a walk starts, and what it has collected after the places of a set. *)
Start == [sum |-> 0, seen |-> {}, done |-> FALSE]
Walks(key, q, D0, g) ==
    g = [s \in SUBSET D0 |-> IF s = {} THEN Start ELSE WalkStep(key, g[s \ {Max(s)}], q[Max(s)])]

(* The library defines the walk by a function iterated over sets of places. *)
LEMMA WalkUnfolds ==
    ASSUME NEW key, NEW q
    PROVE  Walk(q, key) = (CHOOSE g : Walks(key, q, DOMAIN q, g))[DOMAIN q]
  BY DEF Walk, FoldLeft, MapThenFoldSet, Walks, WalkStep, Start

(* The greatest of a finite set of integers is one of them. *)
LEMMA LatestInSet ==
    ASSUME NEW X \in SUBSET Int, IsFiniteSet(X), X # {}
    PROVE  Max(X) \in X /\ \A y \in X : Max(X) >= y
  BY MaxInSet

(* Two walks agree on the places where their filings do. *)
LEMMA WalksAgree ==
    ASSUME NEW key, NEW q, NEW r, NEW E \in SUBSET Int, IsFiniteSet(E), NEW D0 \in SUBSET E,
           \A i \in D0 : q[i] = r[i], NEW g, NEW h, Walks(key, q, D0, g), Walks(key, r, E, h)
    PROVE  \A s \in SUBSET D0 : g[s] = h[s]
<1> DEFINE Bad == {s \in SUBSET D0 : g[s] # h[s]}
<1>1. SUFFICES ASSUME Bad # {} PROVE FALSE
  OBVIOUS
<1>2. PICK s \in Bad : \A t \in SUBSET s : t # s => t \notin Bad
  <2>1. Bad \in SUBSET SUBSET D0 /\ IsFiniteSet(D0)
    BY FS_Subset
  <2> HIDE DEF Bad
  <2>2. QED
    BY <1>1, <2>1, SmallestSet
<1>3. s \in SUBSET D0 /\ s \in SUBSET E
  OBVIOUS
<1>4. CASE s = {}
  BY <1>2, <1>3, <1>4 DEF Walks
<1>5. CASE s # {}
  <2>1. IsFiniteSet(s) /\ s \in SUBSET Int
    BY <1>3, FS_Subset
  <2>2. PICK m \in s : m = Max(s)
    BY <1>5, <2>1, LatestInSet
  <2>3. g[s \ {m}] = h[s \ {m}] /\ q[m] = r[m]
    BY <1>2, <1>3, <2>2
  <2>4. g[s] = WalkStep(key, g[s \ {m}], q[m]) /\ h[s] = WalkStep(key, h[s \ {m}], r[m])
    BY <1>3, <1>5, <2>2 DEF Walks
  <2>5. QED
    BY <1>2, <2>3, <2>4
<1>6. QED
  BY <1>4, <1>5

(* The walk over a finite set of places exists. *)
LEMMA WalkExists ==
    ASSUME NEW key, NEW q, NEW X \in SUBSET Int, IsFiniteSet(X)
    PROVE  \E g : Walks(key, q, X, g)
<1> DEFINE Bad == {s \in SUBSET X : ~ \E g : Walks(key, q, s, g)}
<1>1. SUFFICES ASSUME Bad # {} PROVE FALSE
  OBVIOUS
<1>2. PICK E \in Bad : \A t \in SUBSET E : t # E => t \notin Bad
  <2>1. Bad \in SUBSET SUBSET X
    OBVIOUS
  <2> HIDE DEF Bad
  <2>2. QED
    BY <1>1, <2>1, SmallestSet
<1>3. E \in SUBSET X /\ IsFiniteSet(E) /\ E \in SUBSET Int
  BY FS_Subset
<1> DEFINE G(t) == CHOOSE g : Walks(key, q, t, g)
           value(s) == IF s = {} THEN Start ELSE WalkStep(key, G(s \ {Max(s)})[s \ {Max(s)}], q[Max(s)])
           h == [s \in SUBSET E |-> value(s)]
<1>4. ASSUME NEW t \in SUBSET E, t # E
      PROVE  Walks(key, q, t, G(t)) /\ IsFiniteSet(t)
  <2>1. \E g : Walks(key, q, t, g)
    BY <1>2, <1>3, <1>4
  <2>2. QED
    BY <1>3, <2>1, FS_Subset
<1>5. ASSUME NEW t \in SUBSET E, t # E
      PROVE  G(t)[t] = value(t)
  <2>1. Walks(key, q, t, G(t)) /\ IsFiniteSet(t) /\ t \in SUBSET Int
    BY <1>3, <1>4, <1>5
  <2>2. CASE t = {}
    BY <2>1, <2>2 DEF Walks
  <2>3. CASE t # {}
    <3>1. PICK m \in t : m = Max(t)
      BY <2>1, <2>3, LatestInSet
    <3>2. PICK u \in SUBSET t : u = t \ {m}
      OBVIOUS
    <3>3. u \in SUBSET E /\ u # E
      BY <3>1, <3>2
    <3>4. Walks(key, q, u, G(u))
      BY <1>4, <3>3
    <3>5. PICK gt, gu : gt = G(t) /\ gu = G(u)
      OBVIOUS
    <3>6. Walks(key, q, t, gt) /\ Walks(key, q, u, gu)
      BY <2>1, <3>4, <3>5
    <3>7. gu[u] = gt[u]
      <4> HIDE DEF G, value, h
      <4> QED BY <2>1, <3>6, WalksAgree
    <3>8. gt[t] = WalkStep(key, gt[u], q[m])
      BY <2>3, <3>1, <3>2, <3>6 DEF Walks
    <3>9. value(t) = WalkStep(key, gu[u], q[m])
      BY <2>3, <3>1, <3>2, <3>5
    <3>10. QED
      BY <3>5, <3>7, <3>8, <3>9
  <2>4. QED
    BY <2>2, <2>3
<1>6. ASSUME NEW s \in SUBSET E, s # {}
      PROVE  h[s] = WalkStep(key, h[s \ {Max(s)}], q[Max(s)])
  <2>1. IsFiniteSet(s) /\ s \in SUBSET Int
    BY <1>3, FS_Subset
  <2>2. PICK m \in s : m = Max(s)
    BY <1>6, <2>1, LatestInSet
  <2>3. PICK u \in SUBSET E : u = s \ {m}
    OBVIOUS
  <2>4. u # E
    BY <2>2, <2>3
  <2>5. G(u)[u] = value(u)
    BY <1>5, <2>4
  <2>6. h[u] = value(u) /\ h[s] = value(s)
    OBVIOUS
  <2>7. value(s) = WalkStep(key, G(u)[u], q[m])
    BY <1>6, <2>2, <2>3
  <2>8. h[s] = WalkStep(key, h[u], q[m])
    BY <2>5, <2>6, <2>7
  <2>9. QED
    BY <2>2, <2>3, <2>8
<1>7. Walks(key, q, E, h)
  <2>1. h[{}] = Start /\ DOMAIN h = SUBSET E
    OBVIOUS
  <2>2. h = [s \in SUBSET E |-> h[s]]
    OBVIOUS
  <2> HIDE DEF h, value, G
  <2>3. \A s \in SUBSET E : h[s] = IF s = {} THEN Start ELSE WalkStep(key, h[s \ {Max(s)}], q[Max(s)])
    BY <1>6, <2>1
  <2>4. QED
    BY <2>2, <2>3 DEF Walks
<1>8. QED
  BY <1>2, <1>7


(* Without an annual filing, and with fewer than four quarters, the walk ends *)
(* without an answer. *)
LEMMA WalkUnfinished ==
    ASSUME NEW key, NEW q, DOMAIN q \in SUBSET Int, IsFiniteSet(DOMAIN q),
           NEW periods, IsFiniteSet(periods), Cardinality(periods) < 4,
           \A i \in DOMAIN q : q[i].period \in periods /\ q[i].form # "10-K"
    PROVE  ~ Walk(q, key).done
<1>1. PICK places : places = DOMAIN q
  OBVIOUS
<1>2. PICK g : Walks(key, q, places, g) /\ Walk(q, key) = g[places]
  BY <1>1, WalkExists, WalkUnfolds, Zenon
<1> DEFINE Unfinished(s) == g[s].done = FALSE /\ g[s].seen \in SUBSET periods
           Bad == {s \in SUBSET places : ~ Unfinished(s)}
<1>3. SUFFICES ASSUME Bad # {} PROVE FALSE
  <2>1. Unfinished(places)
    BY <1>3
  <2>2. QED
    BY <1>2, <2>1
<1>4. PICK s \in Bad : \A t \in SUBSET s : t # s => t \notin Bad
  <2>1. Bad \in SUBSET SUBSET places
    OBVIOUS
  <2> HIDE DEF Bad
  <2>2. QED
    BY <1>1, <1>3, <2>1, SmallestSet
<1>5. s \in SUBSET places /\ ~ Unfinished(s)
  OBVIOUS
<1>6. g[s] = IF s = {} THEN Start ELSE WalkStep(key, g[s \ {Max(s)}], q[Max(s)])
  BY <1>2, <1>5 DEF Walks
<1>7. CASE s = {}
  BY <1>5, <1>6, <1>7 DEF Start
<1>8. CASE s # {}
  <2>1. PICK m \in s : m = Max(s)
    BY <1>1, <1>5, <1>8, LatestInSet, FS_Subset
  <2>2. PICK acc : acc = g[s \ {m}]
    OBVIOUS
  <2>3. acc.done = FALSE /\ acc.seen \in SUBSET periods
    <3>1. s \ {m} \in SUBSET s /\ s \ {m} # s /\ s \ {m} \in SUBSET places
      BY <1>5
    <3>2. Unfinished(s \ {m})
      BY <1>4, <3>1
    <3>3. QED
      BY <2>2, <3>2
  <2>4. PICK f : f = q[m] /\ f.period \in periods /\ f.form # "10-K"
    BY <1>1, <1>5
  <2>5. g[s] = WalkStep(key, acc, f)
    BY <1>6, <1>8, <2>1, <2>2, <2>4
  <2>6. CASE f.period \in acc.seen
    <3>1. g[s] = acc
      BY <2>5, <2>6 DEF WalkStep
    <3>2. QED
      BY <1>5, <2>3, <3>1
  <2>7. CASE f.period \notin acc.seen
    <3>1. g[s] = [sum |-> acc.sum + f.values[key], seen |-> acc.seen \cup {f.period},
                  done |-> Cardinality(acc.seen) = 3]
      BY <2>3, <2>4, <2>5, <2>7 DEF WalkStep
    <3>2. PICK more : more = acc.seen \cup {f.period}
      OBVIOUS
    <3>3. more \in SUBSET periods
      BY <2>3, <2>4, <3>2
    <3>4. IsFiniteSet(acc.seen) /\ Cardinality(more) <= Cardinality(periods)
      BY <2>3, <3>3, FS_Subset
    <3>5. Cardinality(more) = Cardinality(acc.seen) + 1
      BY <2>7, <3>2, <3>4, FS_AddElement
    <3>6. Cardinality(acc.seen) \in Nat /\ Cardinality(periods) \in Nat
      BY <3>4, FS_CardinalityType
    <3>7. Cardinality(acc.seen) # 3
      BY <3>4, <3>5, <3>6
    <3>8. Cardinality(acc.seen) # 3
      BY <3>7
    <3>8a. g[s].done = FALSE /\ g[s].seen = more
      <4>1. PICK last : last = (Cardinality(acc.seen) = 3)
        OBVIOUS
      <4>2. last = FALSE
        BY <3>8, <4>1
      <4>3. g[s].done = last /\ g[s].seen = more
        BY <3>1, <3>2, <4>1
      <4>4. QED
        BY <4>2, <4>3
    <3>9. QED
      BY <1>5, <3>3, <3>8a
  <2>8. QED
    BY <2>6, <2>7
<1>9. QED
  BY <1>7, <1>8

(* A company files for a period once a day at most. *)
OneADay(filings) == \A f, g \in filings : f.period = g.period /\ f.filed = g.filed => f = g

(* Filings are ordered by the day, and those of a day by their period. *)
LEMMA SoonerOrders ==
    ASSUME NEW filings, \A f \in filings : Filing(f), OneADay(filings)
    PROVE  /\ \A f \in filings : ~ Sooner(f, f)
           /\ \A f, g, h \in filings : Sooner(f, g) /\ Sooner(g, h) => Sooner(f, h)
           /\ \A f, g \in filings : f # g => Sooner(f, g) \/ Sooner(g, f)
<1>1. \A f \in filings : f.filed \in Int /\ f.period \in Int
  BY DEF Filing
<1>2. \A f, g \in filings : f # g => f.period # g.period \/ f.filed # g.filed
  BY DEF OneADay
<1>3. \A f, g : Sooner(f, g) <=> f.filed < g.filed \/ (f.filed = g.filed /\ f.period < g.period)
  BY DEF Sooner
<1>4. QED
  BY <1>1, <1>2, <1>3

(* The repeats of a filing have a first. *)
LEMMA FirstExists ==
    ASSUME NEW filings, IsFiniteSet(filings), \A f \in filings : Filing(f), OneADay(filings), NEW f \in filings
    PROVE  FirstOf(filings, f) \in Repeats(filings, f)
<1>1. PICK X : X = Repeats(filings, f)
  OBVIOUS
<1>2. X \in SUBSET filings /\ f \in X /\ IsFiniteSet(X)
  BY <1>1, FS_Subset DEF Repeats
<1>3. PICK R : R = {p \in X \X X : Sooner(p[1], p[2])}
  OBVIOUS
<1>4. \A g, h \in X : <<g, h>> \in R <=> Sooner(g, h)
  BY <1>3
<1>5. Linear(X, R)
  BY <1>2, <1>4, SoonerOrders DEF Linear
<1>6. PICK g \in X : Cardinality(Below(X, R, g)) = 0
  <2>1. Cardinality(X) \in Nat /\ Cardinality(X) # 0
    BY <1>2, FS_CardinalityType, FS_EmptySet
  <2>2. 1 \in 1 .. Cardinality(X)
    BY <2>1
  <2>3. \E g \in X : Cardinality(Below(X, R, g)) = 1 - 1
    BY <1>2, <1>5, <2>2, OnePlaceEach
  <2>4. QED
    BY <2>3
<1>7. Below(X, R, g) = {}
  BY <1>2, <1>6, FS_Subset, FS_EmptySet DEF Below
<1>8. \A h \in X \ {g} : Sooner(g, h)
  BY <1>4, <1>5, <1>7 DEF Below, Linear
<1>9. FirstOf(filings, f) = CHOOSE z \in X : \A h \in X \ {z} : Sooner(z, h)
  BY <1>1 DEF FirstOf
<1>10. QED
  BY <1>1, <1>8, <1>9

(* The filings kept are ordered, the latest first. *)
LEMMA KeptOrdered ==
    ASSUME NEW filings, IsFiniteSet(filings), \A f \in filings : Filing(f), OneADay(filings),
           NEW X \in SUBSET Kept(filings)
    PROVE  Linear(X, {p \in X \X X : Later(filings, p[1], p[2])}) /\ IsFiniteSet(X)
<1>1. X \in SUBSET filings /\ IsFiniteSet(X)
  BY KeptBeats, FS_Subset
<1> DEFINE first(f) == FirstOf(filings, f)
<1>2. \A f \in X : first(f) \in filings /\ first(f).period = f.period /\ first(f).form = f.form
  BY <1>1, FirstExists DEF Repeats
<1>3. ASSUME NEW f \in X, NEW g \in X, f # g PROVE first(f) # first(g)
  <2>1. SUFFICES ASSUME f.period = g.period /\ f.form = g.form PROVE FALSE
    BY <1>2, <1>3
  <2>2. f \in Repeats(filings, g) \ {g} /\ g \in Repeats(filings, f) \ {f}
    BY <1>1, <1>3, <2>1 DEF Repeats
  <2>3. Beats(f, g) /\ Beats(g, f)
    BY <2>2, KeptBeats
  <2>4. Cardinality(DOMAIN f.values) \in Nat /\ Cardinality(DOMAIN g.values) \in Nat
    BY <1>1, FS_CardinalityType DEF Filing
  <2>5. Sooner(f, g) /\ Sooner(g, f)
    BY <2>3, <2>4 DEF Beats
  <2>6. QED
    BY <1>1, <2>5, SoonerOrders
<1>4. PICK R : R = {p \in X \X X : Later(filings, p[1], p[2])}
  OBVIOUS
<1>5. \A f, g \in X :
        <<f, g>> \in R <=> (f.filed > g.filed \/ (f.filed = g.filed /\ Sooner(first(g), first(f))))
  <2>1. \A f, g \in X : <<f, g>> \in R <=> Later(filings, f, g)
    BY <1>4
  <2>2. \A f, g : Later(filings, f, g)
                  <=> (f.filed > g.filed \/ (f.filed = g.filed /\ Sooner(first(g), first(f))))
    BY DEF Later
  <2> HIDE DEF first
  <2>3. QED
    BY <2>1, <2>2
<1>6. \A f \in X : f.filed \in Int
  BY <1>1 DEF Filing
<1>7. \A f \in X : ~ Sooner(first(f), first(f))
  BY <1>2, SoonerOrders
<1>8. \A f, g, h \in X : Sooner(first(h), first(g)) /\ Sooner(first(g), first(f)) => Sooner(first(h), first(f))
  BY <1>2, SoonerOrders
<1>9. \A f, g \in X : f # g => Sooner(first(f), first(g)) \/ Sooner(first(g), first(f))
  BY <1>2, <1>3, SoonerOrders
<1> HIDE DEF first
<1>10. \A f \in X : <<f, f>> \notin R
  BY <1>5, <1>6, <1>7
<1>11. ASSUME NEW f \in X, NEW g \in X, NEW h \in X, <<f, g>> \in R, <<g, h>> \in R PROVE <<f, h>> \in R
  <2>1. f.filed \in Int /\ g.filed \in Int /\ h.filed \in Int
    BY <1>6
  <2>2. f.filed > g.filed \/ (f.filed = g.filed /\ Sooner(first(g), first(f)))
    BY <1>5, <1>11
  <2>3. g.filed > h.filed \/ (g.filed = h.filed /\ Sooner(first(h), first(g)))
    BY <1>5, <1>11
  <2>4. f.filed > h.filed \/ (f.filed = h.filed /\ Sooner(first(h), first(f)))
    BY <1>8, <2>1, <2>2, <2>3
  <2>5. QED
    BY <1>5, <2>4
<1>12. ASSUME NEW f \in X, NEW g \in X, f # g PROVE <<f, g>> \in R \/ <<g, f>> \in R
  <2>1. f.filed \in Int /\ g.filed \in Int
    BY <1>6
  <2>2. f.filed > g.filed \/ g.filed > f.filed \/ f.filed = g.filed
    BY <2>1
  <2>3. Sooner(first(f), first(g)) \/ Sooner(first(g), first(f))
    BY <1>9, <1>12
  <2>4. QED
    BY <1>5, <2>2, <2>3
<1>13. QED
  BY <1>1, <1>4, <1>10, <1>11, <1>12 DEF Linear

(* What is listed as available was available. *)
LEMMA ListedOnce ==
    ASSUME NEW filings, IsFiniteSet(filings), \A f \in filings : Filing(f), OneADay(filings),
           NEW X \in SUBSET Kept(filings)
    PROVE  /\ DOMAIN LatestFirst(filings, X) = 1 .. Cardinality(X) /\ Cardinality(X) \in Nat
           /\ \A k \in DOMAIN LatestFirst(filings, X) : LatestFirst(filings, X)[k] \in X
<1>1. PICK R : R = {p \in X \X X : Later(filings, p[1], p[2])}
  OBVIOUS
<1>2. Linear(X, R) /\ IsFiniteSet(X)
  BY <1>1, KeptOrdered
<1>3. PICK n \in Nat : n = Cardinality(X)
  BY <1>2, FS_CardinalityType
<1> DEFINE ahead(f) == Cardinality({g \in X : Later(filings, g, f)})
<1>4. \A f \in X : ahead(f) = Cardinality(Below(X, R, f))
  <2>1. \A f \in X : {g \in X : Later(filings, g, f)} = Below(X, R, f)
    BY <1>1 DEF Below
  <2>2. QED
    BY <2>1
<1>5. ASSUME NEW k \in 1 .. n PROVE (CHOOSE f \in X : 1 + ahead(f) = k) \in X
  <2>1. PICK f \in X : Cardinality(Below(X, R, f)) = k - 1
    BY <1>2, <1>3, OnePlaceEach
  <2>2. 1 + ahead(f) = k
    BY <1>4, <2>1
  <2> HIDE DEF ahead
  <2>3. QED
    BY <2>2
<1>6. LatestFirst(filings, X) = [k \in 1 .. n |-> CHOOSE f \in X : 1 + ahead(f) = k]
  <2>1. n = Cardinality(X)
    BY <1>3
  <2>2. QED
    BY <2>1 DEF LatestFirst
<1>7. QED
  <2> HIDE DEF ahead
  <2>1. \A k \in 1 .. n : LatestFirst(filings, X)[k] \in X
    BY <1>5, <1>6
  <2>2. DOMAIN LatestFirst(filings, X) = 1 .. n
    BY <1>6
  <2>3. QED
    BY <1>3, <2>1, <2>2

(* With fewer than four quarters and no annual filing public, a company has no *)
(* figure for the last twelve months: the sum of fewer is never shown as one   *)
(* (xbrl_mapping.py compute_ttm).                                              *)
THEOREM TtmNeedsFourQuarters ==
    ASSUME NEW filings, IsFiniteSet(filings), \A f \in filings : Filing(f), OneADay(filings),
           \A f \in filings : f.form \in {"10-K", "10-Q"},
           NEW asOf \in Int, ~ Replaced(filings, asOf), NEW key,
           {f \in Public(filings, asOf) : f.form = "10-K"} = {},
           Cardinality({f.period : f \in {g \in Kept(Public(filings, asOf)) :
                                            g.form = "10-Q" /\ key \in DOMAIN g.values}}) < 4
    PROVE  ComputeTtm(filings, key, asOf) = NoFigure
<1>1. PICK X : X = {f \in Kept(filings) : f.filed <= asOf /\ {key} \subseteq DOMAIN f.values}
  OBVIOUS
<1>2. PICK periods : periods = {f.period : f \in X}
  OBVIOUS
<1>3. X = {g \in Kept(Public(filings, asOf)) : g.form = "10-Q" /\ key \in DOMAIN g.values}
  <2>1. Kept(Public(filings, asOf)) = {f \in Kept(filings) : f.filed <= asOf}
    BY KeptAsOf
  <2>2. \A f \in Kept(filings) : f \in filings
    BY KeptBeats
  <2>3. \A f \in Kept(filings) : f.filed <= asOf => f.form = "10-Q"
    BY <2>2 DEF Public
  <2>4. QED
    BY <1>1, <2>1, <2>3
<1>4. X \in SUBSET Kept(filings) /\ X \in SUBSET filings /\ IsFiniteSet(X)
  BY <1>1, KeptBeats, FS_Subset
<1>5. IsFiniteSet(periods) /\ Cardinality(periods) < 4
  <2>1. PICK f : f = [x \in X |-> x.period]
    OBVIOUS
  <2>2. f \in Surjection(X, periods)
    BY <1>2, <2>1 DEF Surjection
  <2>3. IsFiniteSet(periods)
    BY <1>4, <2>2, FS_Surjection
  <2>4. QED
    BY <1>2, <1>3, <2>3
<1>6. PICK q : q = LatestFirst(filings, X)
  OBVIOUS
<1>7. /\ DOMAIN q = 1 .. Cardinality(X) /\ Cardinality(X) \in Nat
      /\ \A i \in DOMAIN q : q[i] \in X
  BY <1>4, <1>6, ListedOnce
<1>8. DOMAIN q \in SUBSET Int /\ IsFiniteSet(DOMAIN q)
  BY <1>7, FS_Interval
<1>9. \A i \in DOMAIN q : q[i].period \in periods /\ q[i].form # "10-K"
  BY <1>2, <1>3, <1>7
<1>10. ~ Walk(q, key).done
  BY <1>5, <1>8, <1>9, WalkUnfinished
<1>11. Available(filings, {key}, asOf) = q
  BY <1>1, <1>6 DEF Available
<1>12. QED
  BY <1>10, <1>11 DEF ComputeTtm

-----------------------------------------------------------------------------
(* The universe of a day *)

(* Finitely many reports by date, and those of them known on a day.         *)
Dated(all, asOf) == DOMAIN all \in SUBSET Int /\ IsFiniteSet(DOMAIN all) /\ asOf \in Int
DatesBy(all, asOf) == {e \in DOMAIN all : e <= asOf}
Reported(all, asOf) == DatesBy(all, asOf) # {} /\ all[Max(DatesBy(all, asOf))] # <<>>

(* The latest of the reports known on a day.                                *)
LEMMA LatestReport ==
    ASSUME NEW all, NEW asOf, Dated(all, asOf), DatesBy(all, asOf) # {}
    PROVE  /\ Max(DatesBy(all, asOf)) \in DatesBy(all, asOf)
           /\ SnapshotFor(all, asOf) = {Max(DatesBy(all, asOf))}
<1>1. PICK dates, m : dates = DatesBy(all, asOf) /\ m = Max(dates)
  OBVIOUS
<1>2. m \in dates /\ \A d \in dates : m >= d
  <2>1. dates \in SUBSET Int /\ IsFiniteSet(dates)
    BY <1>1, FS_Subset DEF Dated, DatesBy
  <2>2. QED
    BY <1>1, <2>1, MaxInSet
<1>3. ASSUME NEW d \in SnapshotFor(all, asOf) PROVE d = m
  <2>1. d \in Int /\ m \in Int /\ d <= asOf /\ m <= d /\ d \in DOMAIN all
    BY <1>1, <1>2, <1>3 DEF SnapshotFor, Dated, DatesBy
  <2>2. QED
    BY <1>1, <1>2, <2>1 DEF DatesBy
<1>4. m \in SnapshotFor(all, asOf)
  BY <1>1, <1>2 DEF SnapshotFor, DatesBy
<1>5. QED
  BY <1>1, <1>2, <1>3, <1>4

(* A latest report with holdings decides the universe, whatever the branch  *)
(* lists now (provider.py refresh).                                         *)
THEOREM UniverseOfTheReport ==
    ASSUME NEW all, NEW asOf, Dated(all, asOf), Reported(all, asOf), NEW csv, NEW topN
    PROVE  Holdings(all, csv, asOf, topN) = Heaviest(all[Max(DatesBy(all, asOf))], topN)
<1>1. PICK m : m = Max(DatesBy(all, asOf))
  OBVIOUS
<1>2. PICK found : found = {d \in SnapshotFor(all, asOf) : all[d] # <<>>}
  OBVIOUS
<1>3. found = {m}
  BY <1>1, <1>2, LatestReport DEF Reported
<1>4. (CHOOSE d \in found : TRUE) = m
  BY <1>3
<1>5. QED
  BY <1>1, <1>2, <1>3, <1>4 DEF Holdings

(* If the latest report known on a day has holdings, the universe of the    *)
(* day ignores later reports and the branch's list; otherwise it is the     *)
(* list as it is now (provider.py refresh).                                 *)
THEOREM UniverseIgnoresTheFuture ==
    ASSUME NEW all, NEW asOf, Dated(all, asOf), NEW csv, NEW then, NEW topN
    PROVE  IF Reported(all, asOf)
           THEN Holdings(all, csv, asOf, topN)
                  = Holdings([d \in DatesBy(all, asOf) |-> all[d]], then, asOf, topN)
           ELSE Holdings(all, csv, asOf, topN) = Heaviest(csv, topN)
<1>1. CASE Reported(all, asOf)
  <2>1. PICK known : known = [d \in DatesBy(all, asOf) |-> all[d]]
    OBVIOUS
  <2>2. DatesBy(known, asOf) = DatesBy(all, asOf)
    BY <2>1 DEF DatesBy
  <2>3. Dated(known, asOf)
    <3>1. DatesBy(all, asOf) \in SUBSET DOMAIN all
      BY DEF DatesBy
    <3>2. IsFiniteSet(DatesBy(all, asOf))
      BY <3>1, FS_Subset DEF Dated
    <3>3. QED
      BY <2>1, <3>1, <3>2 DEF Dated
  <2>4. known[Max(DatesBy(all, asOf))] = all[Max(DatesBy(all, asOf))]
    BY <1>1, <2>1, LatestReport DEF Reported
  <2>5. Reported(known, asOf)
    BY <1>1, <2>2, <2>4 DEF Reported
  <2>6. Holdings(known, then, asOf, topN) = Heaviest(known[Max(DatesBy(known, asOf))], topN)
    BY <2>3, <2>5, UniverseOfTheReport
  <2>7. Holdings(all, csv, asOf, topN) = Heaviest(all[Max(DatesBy(all, asOf))], topN)
    BY <1>1, UniverseOfTheReport
  <2>8. QED
    BY <1>1, <2>1, <2>2, <2>4, <2>6, <2>7
<1>2. CASE ~ Reported(all, asOf)
  <2>1. PICK found : found = {d \in SnapshotFor(all, asOf) : all[d] # <<>>}
    OBVIOUS
  <2>2. found = {}
    <3>1. DatesBy(all, asOf) = {} => SnapshotFor(all, asOf) = {}
      BY DEF SnapshotFor, DatesBy
    <3>2. DatesBy(all, asOf) # {} => SnapshotFor(all, asOf) = {Max(DatesBy(all, asOf))}
      BY LatestReport
    <3>3. QED
      BY <1>2, <2>1, <3>1, <3>2 DEF Reported
  <2>3. Holdings(all, csv, asOf, topN) = Heaviest(csv, topN)
    BY <2>1, <2>2 DEF Holdings
  <2>4. QED
    BY <1>2, <2>3
<1>3. QED
  BY <1>1, <1>2

(* A latest report with holdings, if it is of the period, is within what    *)
(* was loaded beforehand (context.py BacktestContext.build).                *)
THEOREM UniverseWasLoaded ==
    ASSUME NEW all, NEW asOf, Dated(all, asOf), Reported(all, asOf), NEW csv, NEW topN,
           NEW first \in Int, NEW last \in Int, asOf <= last,
           Max(DatesBy(all, asOf)) >= first
    PROVE  ToSet(Holdings(all, csv, asOf, topN)) \subseteq Preloaded(all, csv, first, last, topN)
<1>1. PICK m : m = Max(DatesBy(all, asOf))
  OBVIOUS
<1>2. m \in DOMAIN all /\ m \in Int /\ asOf \in Int /\ m <= asOf
  BY <1>1, LatestReport DEF Reported, DatesBy, Dated
<1>3. m \in DOMAIN all \cap (first .. last)
  BY <1>1, <1>2
<1>4. Holdings(all, csv, asOf, topN) = Heaviest(all[m], topN)
  BY <1>1, UniverseOfTheReport
<1>5. PICK loaded : loaded = SnapshotSymbols(all, first, last, topN)
  OBVIOUS
<1>6. ToSet(Heaviest(all[m], topN)) \subseteq loaded
  BY <1>3, <1>5 DEF SnapshotSymbols
<1>7. Preloaded(all, csv, first, last, topN) = IF loaded = {} THEN ToSet(csv) ELSE loaded
  BY <1>5 DEF Preloaded
<1>8. QED
  BY <1>4, <1>6, <1>7
-----------------------------------------------------------------------------
(* The worked cases *)

(* A set of eight is finite. *)
LEMMA FewAreFinite == \A a, b, c, d, e, f, g, h : IsFiniteSet({a, b, c, d, e, f, g, h})
<1>1. TAKE a, b, c, d, e, f, g, h
<1>2. IsFiniteSet({a, b}) /\ IsFiniteSet({c, d}) /\ IsFiniteSet({e, f}) /\ IsFiniteSet({g, h})
  <2>1. ASSUME NEW x, NEW y PROVE IsFiniteSet({x, y})
    <3>1. PICK pair : pair = {x} \cup {y}
      OBVIOUS
    <3>2. IsFiniteSet(pair)
      BY <3>1, FS_Singleton, FS_Union
    <3>3. pair = {x, y}
      BY <3>1
    <3>4. QED
      BY <3>2, <3>3
  <2>2. QED
    BY <2>1
<1>3. IsFiniteSet({a, b} \cup {c, d}) /\ IsFiniteSet({e, f} \cup {g, h})
  BY <1>2, FS_Union
<1>4. IsFiniteSet(({a, b} \cup {c, d}) \cup ({e, f} \cup {g, h}))
  BY <1>3, FS_Union
<1>5. ({a, b} \cup {c, d}) \cup ({e, f} \cup {g, h}) = {a, b, c, d, e, f, g, h}
  OBVIOUS
<1>6. QED
  BY <1>4, <1>5

(* The filings tried are filings as they come. *)
LEMMA PoolProper ==
    /\ IsFiniteSet(Pool) /\ OneADay(Pool)
    /\ \A f \in Pool : Filing(f) /\ f.form \in {"10-K", "10-Q"}
<1>1. Quarter \in Nat
  BY CasesAssumption
<1>2. \A p, lag, form, v : /\ Filed(p, lag, form, v).period = p /\ Filed(p, lag, form, v).filed = p * Quarter + lag
                           /\ Filed(p, lag, form, v).form = form /\ Filed(p, lag, form, v).values = v
  BY DEF Filed
<1>3. \A n : IsFiniteSet(DOMAIN Figures(n))
  <2>1. \A n : DOMAIN Figures(n) = {"revenue", "netIncome", "grossProfit", "eps", "operatingCash", "equity", "liabilities", "shares"}
    BY DEF Figures
  <2>2. IsFiniteSet({"revenue", "netIncome", "grossProfit", "eps", "operatingCash", "equity", "liabilities", "shares"})
    BY FewAreFinite
  <2>3. QED
    BY <2>1, <2>2
<1>4. PICK few : few = [revenue |-> 7, equity |-> 1]
  OBVIOUS
<1>5. PICK more : more = Richer(5)
  OBVIOUS
<1>6. IsFiniteSet(DOMAIN few) /\ IsFiniteSet(DOMAIN more)
  <2>1. DOMAIN few = {"revenue", "equity"} /\ DOMAIN more = {"capex"} \cup DOMAIN Figures(5)
    BY <1>4, <1>5 DEF Richer
  <2>2. IsFiniteSet({"revenue"} \cup {"equity"}) /\ IsFiniteSet({"capex"} \cup DOMAIN Figures(5))
    BY <1>3, FS_Singleton, FS_Union
  <2>3. QED
    BY <2>1, <2>2
<1>7. PICK f1, f2, f3, f4, f5, f6, f7, f8 :
        /\ f1 = Filed(1, 20, "10-Q", Figures(1)) /\ f2 = Filed(2, 20, "10-Q", Figures(2))
        /\ f3 = Filed(3, 20, "10-Q", Figures(3)) /\ f4 = Filed(4, 40, "10-K", Figures(9))
        /\ f5 = Filed(5, 20, "10-Q", Figures(4)) /\ f6 = Filed(6, 20, "10-Q", Figures(6))
        /\ f7 = Filed(2, 150, "10-Q", few) /\ f8 = Filed(2, 160, "10-Q", more)
  OBVIOUS
<1>8. Pool = {f1, f2, f3, f4, f5, f6, f7, f8}
  BY <1>4, <1>5, <1>7 DEF Pool
<1>9. IsFiniteSet(Pool)
  BY <1>8, FewAreFinite
<1>10. /\ f1.period = 1 /\ f2.period = 2 /\ f3.period = 3 /\ f4.period = 4
       /\ f5.period = 5 /\ f6.period = 6 /\ f7.period = 2 /\ f8.period = 2
       /\ f1.filed = 1 * Quarter + 20 /\ f2.filed = 2 * Quarter + 20 /\ f3.filed = 3 * Quarter + 20
       /\ f4.filed = 4 * Quarter + 40 /\ f5.filed = 5 * Quarter + 20 /\ f6.filed = 6 * Quarter + 20
       /\ f7.filed = 2 * Quarter + 150 /\ f8.filed = 2 * Quarter + 160
  BY <1>2, <1>7
<1>11. \A f \in Pool : f.period \in Int /\ f.filed \in Int
  BY <1>1, <1>8, <1>10
<1>12. \A f \in Pool : IsFiniteSet(DOMAIN f.values) /\ f.form \in {"10-K", "10-Q"}
  BY <1>2, <1>3, <1>6, <1>7, <1>8
<1>13. OneADay(Pool)
  <2>1. f2.filed # f7.filed /\ f2.filed # f8.filed /\ f7.filed # f8.filed
    BY <1>1, <1>10
  <2>2. QED
    BY <1>8, <1>10, <2>1 DEF OneADay
<1>14. QED
  BY <1>9, <1>11, <1>12, <1>13 DEF Filing

(* The closes tried are of finitely many days. *)
LEMMA ClosesProper == DOMAIN Closes \in SUBSET Int /\ IsFiniteSet(DOMAIN Closes)
<1>1. PICK f : f = [k \in 1 .. 7 |-> Quarter * k + 5]
  OBVIOUS
<1>2. DOMAIN Closes = {Quarter * k + 5 : k \in 1 .. 7}
  BY DEF Closes
<1>3. f \in Surjection(1 .. 7, DOMAIN Closes)
  BY <1>1, <1>2 DEF Surjection
<1>4. IsFiniteSet(1 .. 7)
  <2>1. 1 \in Int /\ 7 \in Int
    OBVIOUS
  <2>2. QED
    BY <2>1, FS_Interval
<1>5. \A k \in 1 .. 7 : Quarter * k + 5 \in Int
  BY CasesAssumption
<1>6. QED
  BY <1>2, <1>3, <1>4, <1>5, FS_Surjection

(* A case of the topic keeps its part of the property. *)
LEMMA FilingsCase ==
    ASSUME NEW filings \in SUBSET Pool, NEW asOf \in Int, ~ Replaced(filings, asOf)
    PROVE  KnowsOnly(filings, asOf)
<1>1. /\ \A f \in filings : Filing(f) /\ f.form \in {"10-K", "10-Q"}
      /\ IsFiniteSet(filings) /\ OneADay(filings)
  BY PoolProper, FS_Subset DEF OneADay
<1>2. 4 * Quarter \in Nat
  BY CasesAssumption
<1>3. MetricsAsOf(filings, Closes, asOf, 4 * Quarter)
        = MetricsAsOf(Public(filings, asOf), [d \in {e \in DOMAIN Closes : e <= asOf} |-> Closes[d]],
                        asOf, 4 * Quarter)
  BY <1>1, <1>2, ClosesProper, MetricsIgnoreTheFuture
<1>4. PICK public : public = Public(filings, asOf)
  OBVIOUS
<1>5. PICK periods : periods = {f.period : f \in {g \in Kept(public) : g.form = "10-Q" /\ "revenue" \in DOMAIN g.values}}
  OBVIOUS
<1>6. {f \in public : f.form = "10-K"} = {} /\ Cardinality(periods) < 4
        => ComputeTtm(filings, "revenue", asOf) = NoFigure
  BY <1>1, <1>4, <1>5, TtmNeedsFourQuarters
<1>7. QED
  BY <1>3, <1>4, <1>5, <1>6 DEF Public, KnowsOnly

(* A case of the universe keeps its part of the property. *)
LEMMA UniverseCase ==
    ASSUME NEW dates \in SUBSET Reports, NEW all \in [dates -> Lists], NEW asOf \in {15, 20, 25, 40}
    PROVE  LET known == [d \in {e \in DOMAIN all : e <= asOf} |-> all[d]]
               latest == Max(DOMAIN known)
               today == Holdings(all, BranchNow, asOf, 2)
           IN  IF known # <<>> /\ known[latest] # <<>>
               THEN /\ today = Holdings(known, BranchThen, asOf, 2)
                    /\ latest >= 15 => ToSet(today) \subseteq Preloaded(all, BranchNow, 15, 40, 2)
               ELSE today = Heaviest(BranchNow, 2)
<1>1. DOMAIN all \in SUBSET Int /\ IsFiniteSet(DOMAIN all)
  <2>1. \A a : a \in Reports => a \in Int
    BY DEF Reports
  <2>2. IsFiniteSet(Reports)
    <3>1. IsFiniteSet({10, 20, 30, 40, 40, 40, 40, 40})
      BY FewAreFinite
    <3>2. {10, 20, 30, 40, 40, 40, 40, 40} = Reports
      BY DEF Reports
    <3>3. QED
      BY <3>1, <3>2
  <2>3. QED
    BY <2>1, <2>2, FS_Subset
<1>2. asOf \in Int /\ 15 \in Int /\ 40 \in Int /\ asOf <= 40
  OBVIOUS
<1>3. Dated(all, asOf)
  BY <1>1, <1>2 DEF Dated
<1>4. PICK known : known = [d \in DatesBy(all, asOf) |-> all[d]]
  OBVIOUS
<1>5. DOMAIN known = DatesBy(all, asOf) /\ (known # <<>> <=> DatesBy(all, asOf) # {})
  <2>1. DOMAIN known = DatesBy(all, asOf)
    BY <1>4
  <2>2. DatesBy(all, asOf) = {} => known = <<>>
    BY <1>4
  <2>3. DOMAIN <<>> = {}
    OBVIOUS
  <2>4. QED
    BY <2>1, <2>2, <2>3
<1>6. DatesBy(all, asOf) # {} => known[Max(DatesBy(all, asOf))] = all[Max(DatesBy(all, asOf))]
  BY <1>3, <1>4, LatestReport
<1>7. known # <<>> /\ known[Max(DOMAIN known)] # <<>> <=> Reported(all, asOf)
  BY <1>5, <1>6 DEF Reported
<1>8. IF Reported(all, asOf)
      THEN Holdings(all, BranchNow, asOf, 2) = Holdings(known, BranchThen, asOf, 2)
      ELSE Holdings(all, BranchNow, asOf, 2) = Heaviest(BranchNow, 2)
  BY <1>3, <1>4, UniverseIgnoresTheFuture
<1>9. Reported(all, asOf) /\ Max(DatesBy(all, asOf)) >= 15
        => ToSet(Holdings(all, BranchNow, asOf, 2)) \subseteq Preloaded(all, BranchNow, 15, 40, 2)
  BY <1>2, <1>3, UniverseWasLoaded
<1>10. known = [d \in {e \in DOMAIN all : e <= asOf} |-> all[d]]
  BY <1>4 DEF DatesBy
<1>11. QED
  BY <1>5, <1>7, <1>8, <1>9, <1>10

(* A decision of a backtest rests on what came after its day only through   *)
(* today's list of a branch without a report by then and through a period   *)
(* repeated later with more figures (provider.py and xbrl_mapping.py), for  *)
(* every length of a quarter.                                               *)
THEOREM LookAheadIsConfined == Cases => []LookAheadConfined
<1>1. NoCase => LookAheadConfined
  BY DEF NoCase, LookAheadConfined, UniverseAsOf, FilingsAsOf, Topic
<1>2. LookAheadConfined /\ [PickCase]_case => LookAheadConfined'
  <2>1. CASE UNCHANGED case
    BY <2>1 DEF LookAheadConfined, UniverseAsOf, FilingsAsOf, Topic
  <2>2. CASE PickUniverse
    <3>1. PICK dates \in SUBSET Reports : \E snapshots \in [dates -> Lists], asOf \in {15, 20, 25, 40} :
             case' = [topic |-> "universe", snapshots |-> snapshots, day |-> asOf]
      BY <2>2 DEF PickUniverse
    <3>2. PICK snapshots \in [dates -> Lists], asOf \in {15, 20, 25, 40} :
             case' = [topic |-> "universe", snapshots |-> snapshots, day |-> asOf]
      BY <3>1
    <3>3. case'.topic = "universe" /\ case'.snapshots = snapshots /\ case'.day = asOf
      BY <3>2
    <3>4. FilingsAsOf'
      BY <3>3 DEF FilingsAsOf, Topic
    <3>5. UniverseAsOf'
      BY <3>3, UniverseCase DEF UniverseAsOf, Topic
    <3>6. QED
      BY <3>4, <3>5 DEF LookAheadConfined
  <2>3. CASE PickFilings
    <3>1. PICK filings \in SUBSET Pool, k \in 2 .. 6, r \in {19, 20} :
             case' = [topic |-> "filings", filings |-> filings, day |-> Quarter * k + r]
      BY <2>3 DEF PickFilings
    <3>1a. PICK asOf : asOf = Quarter * k + r
      OBVIOUS
    <3>2. case'.topic = "filings" /\ case'.filings = filings /\ case'.day = asOf
      BY <3>1, <3>1a
    <3>3. asOf \in Int
      BY <3>1a, CasesAssumption
    <3>4. UniverseAsOf'
      BY <3>2 DEF UniverseAsOf, Topic
    <3>5. FilingsAsOf'
      BY <3>2, <3>3, FilingsCase DEF FilingsAsOf, Topic
    <3>6. QED
      BY <3>4, <3>5 DEF LookAheadConfined
  <2>4. ASSUME case'.topic \notin {"universe", "filings"} PROVE LookAheadConfined'
    BY <2>4 DEF LookAheadConfined, UniverseAsOf, FilingsAsOf, Topic
  <2>5. ASSUME PickScreen \/ PickScores \/ PickAnswer \/ PickNews \/ PickRules \/ PickWeights \/ PickBook
               \/ PickBasket \/ PickCorrelation \/ PickRuns \/ PickNavs \/ PickTrips \/ PickProbes \/ PickCalendar
        PROVE  case'.topic \notin {"universe", "filings"}
    <3>1. CASE PickScreen
      BY <3>1 DEF PickScreen
    <3>2. CASE PickScores
      BY <3>2 DEF PickScores
    <3>3. CASE PickAnswer
      BY <3>3 DEF PickAnswer
    <3>4. CASE PickNews
      BY <3>4 DEF PickNews
    <3>5. CASE PickRules
      BY <3>5 DEF PickRules
    <3>6. CASE PickWeights
      BY <3>6 DEF PickWeights
    <3>7. CASE PickBook
      BY <3>7 DEF PickBook
    <3>8. CASE PickBasket
      BY <3>8 DEF PickBasket
    <3>9. CASE PickCorrelation
      BY <3>9 DEF PickCorrelation
    <3>10. CASE PickRuns
      BY <3>10 DEF PickRuns
    <3>11. CASE PickNavs
      BY <3>11 DEF PickNavs
    <3>12. CASE PickTrips
      BY <3>12 DEF PickTrips
    <3>13. CASE PickProbes
      BY <3>13 DEF PickProbes
    <3>14. CASE PickCalendar
      BY <3>14 DEF PickCalendar
    <3>15. QED
      BY <2>5, <3>1, <3>2, <3>3, <3>4, <3>5, <3>6, <3>7, <3>8, <3>9, <3>10, <3>11, <3>12, <3>13, <3>14
  <2>6. QED
    BY <2>1, <2>2, <2>3, <2>4, <2>5 DEF PickCase
<1>3. QED
  BY <1>1, <1>2, PTL DEF Cases

(* A return is known or not. *)
Return(r) == r = <<>> \/ \E x \in Int : r = <<x>>

(* The return by which a decision is judged lies between the least and the  *)
(* greatest return of its priced stocks, if one of them has some weight     *)
(* (attribution.py compute_report).                                         *)
THEOREM BasketAverages ==
    ASSUME NEW weights, NEW returns, IsFiniteSet(DOMAIN weights),
           \A s \in DOMAIN weights : weights[s] \in Nat /\ Return(returns[s]),
           \E s \in Priced(weights, returns) : weights[s] > 0
    PROVE  IsAverage(weights, returns)
<1>1. PICK priced : priced = Priced(weights, returns)
  OBVIOUS
<1>2. IsFiniteSet(priced) /\ priced \in SUBSET DOMAIN weights
  BY <1>1, FS_Subset DEF Priced
<1>3. PICK ret : ret = [s \in priced |-> returns[s][1]]
  OBVIOUS
<1>4. ASSUME NEW s \in priced PROVE ret[s] \in Int
  <2>1. returns[s] # <<>> /\ Return(returns[s])
    BY <1>1, <1>2 DEF Priced
  <2>2. PICK x \in Int : returns[s] = <<x>>
    BY <2>1 DEF Return
  <2>3. returns[s][1] = x
    BY <2>2
  <2>4. QED
    BY <1>3, <2>3
<1>5. PICK known : known = {returns[s][1] : s \in priced}
  OBVIOUS
<1>6. /\ known \in SUBSET Int /\ known # {} /\ IsFiniteSet(known)
      /\ \A s \in priced : ret[s] \in known
  <2>1. \A s \in priced : ret[s] \in known
    BY <1>3, <1>5
  <2>2. \A x \in known : \E s \in priced : x = ret[s]
    BY <1>3, <1>5
  <2>3. ret \in Surjection(priced, known)
    BY <1>3, <2>1, <2>2 DEF Surjection
  <2>4. IsFiniteSet(known)
    BY <1>2, <2>3, FS_Surjection
  <2>5. QED
    BY <1>1, <1>4, <2>1, <2>2, <2>4
<1>7. PICK lo \in Int, hi \in Int : lo = Min(known) /\ hi = Max(known) /\ \A s \in priced : lo <= ret[s] /\ ret[s] <= hi
  BY <1>6, MinInSet, MaxInSet
<1>8. PICK total \in Nat : total = SumFunctionOnSet(weights, priced)
  BY <1>2, SumNatural
<1>9. total # 0
  <2>1. PICK s \in priced : weights[s] > 0 /\ weights[s] \in Nat
    BY <1>1, <1>2
  <2>2. \A x \in priced : weights[x] \in Int
    BY <1>2
  <2>3. total = weights[s] + SumFunctionOnSet(weights, priced \ {s})
    BY <1>2, <1>8, <2>2, SumByElement
  <2>4. IsFiniteSet(priced \ {s})
    BY <1>2, FS_RemoveElement
  <2>5. SumFunctionOnSet(weights, priced \ {s}) \in Nat
    BY <1>2, <2>4, SumNatural
  <2>6. QED
    BY <2>1, <2>3, <2>5
<1>10. PICK f : f = [s \in priced |-> weights[s] * returns[s][1]]
  OBVIOUS
<1>11. PICK least, most : least = [s \in priced |-> lo * weights[s]] /\ most = [s \in priced |-> hi * weights[s]]
  OBVIOUS
<1>12. ASSUME NEW s \in priced
       PROVE  /\ f[s] \in Int /\ least[s] \in Int /\ most[s] \in Int
              /\ least[s] <= f[s] /\ f[s] <= most[s]
  <2>1. PICK w \in Nat, x \in Int : w = weights[s] /\ x = ret[s]
    BY <1>2, <1>4
  <2>2. f[s] = w * x /\ least[s] = lo * w /\ most[s] = hi * w
    BY <1>3, <1>10, <1>11, <2>1
  <2>3. lo <= x /\ x <= hi
    BY <1>7, <2>1
  <2>4. w * (x - lo) \in Nat /\ w * (hi - x) \in Nat
    <3>1. x - lo \in Nat /\ hi - x \in Nat
      BY <2>3
    <3>2. \A a, b \in Nat : a * b \in Nat
      OBVIOUS
    <3>3. QED
      BY <3>1, <3>2
  <2>5. w * (x - lo) = w * x - lo * w /\ w * (hi - x) = hi * w - w * x
    OBVIOUS
  <2>6. w * x \in Int /\ lo * w \in Int /\ hi * w \in Int
    OBVIOUS
  <2>7. QED
    BY <2>2, <2>4, <2>5, <2>6
<1>13. SumFunctionOnSet(least, priced) <= SumFunctionOnSet(f, priced) /\ SumFunctionOnSet(f, priced) <= SumFunctionOnSet(most, priced)
  BY <1>2, <1>12, SumLeq
<1>14. SumFunctionOnSet(least, priced) = lo * total /\ SumFunctionOnSet(most, priced) = hi * total
  <2>1. \A s \in priced : weights[s] \in Int /\ least[s] = lo * weights[s] /\ most[s] = hi * weights[s]
    BY <1>2, <1>11
  <2>2. QED
    BY <1>2, <1>8, <2>1, SumScales
<1>15. PICK sum \in Int : sum = SumFunctionOnSet(f, priced)
  BY <1>2, <1>12, SumInt
<1>16. BasketReturn(weights, returns) = <<sum, total>>
  <2>1. SumFunction(f) = sum
    BY <1>10, <1>15 DEF SumFunction
  <2>2. QED
    BY <1>1, <1>8, <1>9, <1>10, <2>1 DEF BasketReturn
<1>17. PICK r : r = <<sum, total>>
  OBVIOUS
<1>18. r[1] = sum /\ r[2] = total
  BY <1>17
<1>19. r[1] >= lo * r[2] /\ r[1] <= hi * r[2]
  BY <1>13, <1>14, <1>15, <1>18
<1>20. QED
  BY <1>1, <1>5, <1>7, <1>16, <1>17, <1>19 DEF IsAverage

(* A square is never negative. *)
LEMMA Square == \A k \in Int : k * k \in Nat
  OBVIOUS

(* The square of a difference of two products. *)
LEMMA SquareOfDifference ==
    \A a, b, x, y \in Int :
       (b * y - a * x) * (b * y - a * x)
         = ((b * b) * (y * y) + (0 - 2 * (a * b)) * (x * y)) + (a * a) * (x * x)
  OBVIOUS

(* What is left of that sum, once the sums of squares are put in. *)
LEMMA SumOfThree ==
    \A a, b, v \in Int :
       ((b * b) * v + (0 - 2 * (a * b)) * a) + (a * a) * b = b * (b * v - a * a)
  OBVIOUS

(* The inequality of Cauchy and Schwarz. *)
LEMMA ProductsBounded ==
    ASSUME NEW X, IsFiniteSet(X), NEW d \in [X -> Int], NEW e \in [X -> Int],
           NEW dd, dd = [x \in X |-> d[x] * d[x]], NEW ee, ee = [x \in X |-> e[x] * e[x]],
           NEW de, de = [x \in X |-> d[x] * e[x]],
           SumFunctionOnSet(dd, X) # 0
    PROVE  SumFunctionOnSet(de, X) * SumFunctionOnSet(de, X)
             <= SumFunctionOnSet(dd, X) * SumFunctionOnSet(ee, X)
<1>1. \A x \in X : dd[x] \in Nat /\ ee[x] \in Nat /\ de[x] \in Int
  <2>1. ASSUME NEW x \in X PROVE dd[x] \in Nat /\ ee[x] \in Nat /\ de[x] \in Int
    <3>1. PICK a \in Int, b \in Int : a = d[x] /\ b = e[x]
      OBVIOUS
    <3>2. dd[x] = a * a /\ ee[x] = b * b /\ de[x] = a * b
      BY <3>1
    <3>3. QED
      BY <3>2, Square
  <2>2. QED
    BY <2>1
<1>2. PICK b \in Nat : b = SumFunctionOnSet(dd, X)
  BY <1>1, SumNatural
<1>3. PICK v \in Nat : v = SumFunctionOnSet(ee, X)
  BY <1>1, SumNatural
<1>4. PICK a \in Int : a = SumFunctionOnSet(de, X)
  BY <1>1, SumInt
<1>5. PICK p \in Int, q \in Int, r \in Int, one \in Int : p = b * b /\ q = 0 - 2 * (a * b) /\ r = a * a /\ one = 1
  OBVIOUS
<1>6. PICK g, h : /\ g = [x \in X |-> p * ee[x] + q * de[x]]
                  /\ h = [x \in X |-> one * g[x] + r * dd[x]]
  OBVIOUS
<1>7. ASSUME NEW x \in X PROVE g[x] \in Int /\ h[x] \in Nat
  <2>1. PICK i \in Int, j \in Int : i = d[x] /\ j = e[x]
    OBVIOUS
  <2>2. dd[x] = i * i /\ ee[x] = j * j /\ de[x] = i * j
    BY <2>1
  <2>3. g[x] = p * (j * j) + q * (i * j)
    BY <1>6, <2>2
  <2>4. g[x] \in Int
    BY <2>3
  <2>5. h[x] = g[x] + r * (i * i)
    BY <1>5, <1>6, <2>2, <2>4
  <2>6. h[x] = (b * j - a * i) * (b * j - a * i)
    BY <1>5, <2>3, <2>5, SquareOfDifference
  <2>7. b * j - a * i \in Int
    OBVIOUS
  <2>8. QED
    BY <2>4, <2>6, <2>7, Square
<1>8. SumFunctionOnSet(g, X) = p * v + q * a
  <2>1. Combines(g, ee, de, X, p, q)
    BY <1>1, <1>6 DEF Combines
  <2>2. QED
    BY <1>3, <1>4, <2>1, SumCombines
<1>9. SumFunctionOnSet(h, X) = one * (p * v + q * a) + r * b
  <2>1. Combines(h, g, dd, X, one, r)
    BY <1>1, <1>6, <1>7 DEF Combines
  <2>2. QED
    BY <1>2, <1>8, <2>1, SumCombines
<1>10. SumFunctionOnSet(h, X) = b * (b * v - a * a)
  <2>1. p * v + q * a \in Int
    OBVIOUS
  <2>2. SumFunctionOnSet(h, X) = (p * v + q * a) + r * b
    BY <1>5, <1>9, <2>1
  <2>3. QED
    BY <1>5, <2>2, SumOfThree
<1>11. SumFunctionOnSet(h, X) \in Nat
  BY <1>7, SumNatural
<1>12. PICK k \in Int : k = b * v - a * a
  OBVIOUS
<1>13. b * k >= 0 /\ b \in Nat \ {0}
  BY <1>2, <1>10, <1>11, <1>12
<1>14. k >= 0
  BY <1>13, SignOfProduct
<1>15. a * a \in Int /\ b * v \in Int
  OBVIOUS
<1>16. a * a <= b * v
  BY <1>12, <1>14, <1>15
<1>17. QED
  BY <1>2, <1>3, <1>4, <1>16

(* The deviations of a rank are numbers. *)
LEMMA DeviationInt ==
    ASSUME NEW n \in Nat, NEW xs \in [1 .. n -> Int], NEW i \in 1 .. n
    PROVE  Deviation(xs, i) \in Int
<1>1. IsFiniteSet(1 .. n)
  <2>1. 1 \in Int
    OBVIOUS
  <2>2. QED
    BY <2>1, FS_Interval
<1>2. PICK less, same : /\ less = {j \in DOMAIN xs : xs[j] < xs[i]}
                        /\ same = {j \in DOMAIN xs : xs[j] = xs[i]}
  OBVIOUS
<1>3. less \in SUBSET (1 .. n) /\ same \in SUBSET (1 .. n)
  BY <1>2
<1>4. Cardinality(less) \in Nat /\ Cardinality(same) \in Nat
  BY <1>1, <1>3, FS_Subset, FS_CardinalityType
<1>5. Ranks(xs)[i] = 2 * Cardinality(less) + Cardinality(same) + 1
  BY <1>2 DEF Ranks
<1>6. Len(xs) = n
  BY LenProperties
<1>7. QED
  BY <1>4, <1>5, <1>6 DEF Deviation

(* The rank correlation by which an analyst is weighed lies within -1 and 1, *)
(* is symmetric and is 1 of a sequence with itself (attribution.py).         *)
THEOREM CorrelationsBounded ==
    ASSUME NEW n \in Nat, NEW scores \in [1 .. n -> Int], NEW returns \in [1 .. n -> Int]
    PROVE  Correlates(scores, returns)
<1>1. PICK X : X = 1 .. n
  OBVIOUS
<1>2. IsFiniteSet(X) /\ DOMAIN scores = X /\ DOMAIN returns = X
  <2>1. 1 \in Int
    OBVIOUS
  <2>2. QED
    BY <1>1, <2>1, FS_Interval
<1>3. PICK d \in [X -> Int] : d = [i \in X |-> Deviation(scores, i)]
  BY <1>1, DeviationInt
<1>4. PICK e \in [X -> Int] : e = [i \in X |-> Deviation(returns, i)]
  BY <1>1, DeviationInt
<1>5. PICK dd, ee, de :
        dd = [i \in X |-> d[i] * d[i]] /\ ee = [i \in X |-> e[i] * e[i]] /\ de = [i \in X |-> d[i] * e[i]]
  OBVIOUS
<1>6. dd = [i \in DOMAIN scores |-> Deviation(scores, i) * Deviation(scores, i)]
  BY <1>2, <1>3, <1>5
<1>7. ee = [i \in DOMAIN returns |-> Deviation(returns, i) * Deviation(returns, i)]
  BY <1>2, <1>4, <1>5
<1>8. de = [i \in DOMAIN scores |-> Deviation(scores, i) * Deviation(returns, i)]
  BY <1>2, <1>3, <1>4, <1>5
<1>9. de = [i \in DOMAIN returns |-> Deviation(returns, i) * Deviation(scores, i)]
  <2>1. \A i \in X : Deviation(scores, i) \in Int /\ Deviation(returns, i) \in Int
    BY <1>1, DeviationInt
  <2>2. \A a, b \in Int : a * b = b * a
    OBVIOUS
  <2>3. \A i \in X : Deviation(scores, i) * Deviation(returns, i) = Deviation(returns, i) * Deviation(scores, i)
    BY <2>1, <2>2
  <2>4. QED
    BY <1>2, <1>8, <2>3
<1>10. /\ Covariance(scores, scores) = SumFunctionOnSet(dd, X)
       /\ Covariance(returns, returns) = SumFunctionOnSet(ee, X)
       /\ Covariance(scores, returns) = SumFunctionOnSet(de, X)
       /\ Covariance(returns, scores) = SumFunctionOnSet(de, X)
  <2>1. DOMAIN dd = X /\ DOMAIN ee = X /\ DOMAIN de = X
    BY <1>5
  <2>2. /\ SumFunction(dd) = SumFunctionOnSet(dd, X) /\ SumFunction(ee) = SumFunctionOnSet(ee, X)
        /\ SumFunction(de) = SumFunctionOnSet(de, X)
    BY <2>1 DEF SumFunction
  <2>3. Covariance(scores, scores) = SumFunction(dd)
    BY <1>6 DEF Covariance
  <2>4. Covariance(returns, returns) = SumFunction(ee)
    BY <1>7 DEF Covariance
  <2>5. Covariance(scores, returns) = SumFunction(de)
    BY <1>8 DEF Covariance
  <2>6. Covariance(returns, scores) = SumFunction(de)
    BY <1>9 DEF Covariance
  <2>7. QED
    BY <2>2, <2>3, <2>4, <2>5, <2>6
<1>11. PICK vx, vy, cov : /\ vx = SumFunctionOnSet(dd, X) /\ vy = SumFunctionOnSet(ee, X)
                          /\ cov = SumFunctionOnSet(de, X)
  OBVIOUS
<1>12. vx # 0 => cov * cov <= vx * vy
  BY <1>2, <1>5, <1>11, ProductsBounded
<1>13. Len(scores) = n /\ Len(returns) = n
  BY LenProperties
<1>14. /\ Spearman(scores, returns) = IF n < 2 \/ vx = 0 \/ vy = 0 THEN <<>> ELSE <<cov, vx, vy>>
       /\ Spearman(returns, scores) = IF n < 2 \/ vy = 0 \/ vx = 0 THEN <<>> ELSE <<cov, vy, vx>>
       /\ Spearman(scores, scores) = IF n < 2 \/ vx = 0 \/ vx = 0 THEN <<>> ELSE <<vx, vx, vx>>
  BY <1>10, <1>11, <1>13 DEF Spearman
<1>15. ASSUME Spearman(scores, returns) # <<>>
       PROVE  LET r == Spearman(scores, returns)
              IN  r[1] * r[1] <= r[2] * r[3] /\ r = <<Spearman(returns, scores)[1], r[2], r[3]>>
  <2>1. vx # 0 /\ Spearman(scores, returns) = <<cov, vx, vy>> /\ Spearman(returns, scores) = <<cov, vy, vx>>
    BY <1>14, <1>15
  <2>2. PICK r, back : r = <<cov, vx, vy>> /\ back = <<cov, vy, vx>>
    OBVIOUS
  <2>3. r[1] = cov /\ r[2] = vx /\ r[3] = vy /\ back[1] = cov
    BY <2>2
  <2>4. QED
    BY <1>12, <2>1, <2>2, <2>3
<1>16. ASSUME Spearman(scores, scores) # <<>> PROVE Spearman(scores, scores)[1] = Spearman(scores, scores)[2]
  <2>1. Spearman(scores, scores) = <<vx, vx, vx>>
    BY <1>14, <1>16
  <2>2. QED
    BY <2>1
<1>17. QED
  BY <1>15, <1>16 DEF Correlates

(* The sum of a function is the sum over its domain. *)
LEMMA SumOverDomain ==
    ASSUME NEW f
    PROVE  SumFunction(f) = SumFunctionOnSet(f, DOMAIN f)
  BY DEF SumFunction

(* Multiplying by a share and dividing rounded down keeps the order. *)
LEMMA SharesOrdered ==
    ASSUME NEW a \in Nat, NEW b \in Nat, a <= b, NEW e \in Nat, NEW r \in Nat \ {0}
    PROVE  /\ (e * a) \div r \in Nat /\ (e * b) \div r \in Nat
           /\ (e * a) \div r <= (e * b) \div r
<1>1. PICK m \in Nat, n \in Nat : m = e * a /\ n = e * b
  OBVIOUS
<1>2. m <= n
  <2>1. b - a \in Nat
    OBVIOUS
  <2>2. \A i, j \in Nat : i * j \in Nat
    OBVIOUS
  <2>3. e * (b - a) \in Nat
    BY <2>1, <2>2
  <2>4. e * (b - a) = e * b - e * a
    OBVIOUS
  <2>5. QED
    BY <1>1, <2>3, <2>4
<1>3. PICK x \in Nat, y \in Nat : x = m \div r /\ y = n \div r
  OBVIOUS
<1>4. r * x <= m /\ n < r * y + r
  BY <1>3
<1>5. r * (y - x) + r > 0
  <2>1. r * x \in Int /\ r * y \in Int
    OBVIOUS
  <2>2. r * (y - x) = r * y - r * x
    OBVIOUS
  <2>3. QED
    BY <1>2, <1>4, <2>1, <2>2
<1>6. y - x >= 0
  <2>1. PICK k \in Int : k = y - x
    OBVIOUS
  <2>2. r * k + r > 0
    BY <1>5, <2>1
  <2>3. r * k + r = r * (k + 1)
    OBVIOUS
  <2>4. r * (k + 1) > 0
    BY <2>2, <2>3
  <2>5. k + 1 > 0
    <3>1. SUFFICES ASSUME ~ k + 1 > 0 PROVE FALSE
      OBVIOUS
    <3>2. -(k + 1) \in Nat
      BY <3>1
    <3>3. r * (-(k + 1)) >= 0
      BY <3>2, SignOfProduct
    <3>4. r * (-(k + 1)) = -(r * (k + 1))
      OBVIOUS
    <3>5. r * (k + 1) \in Int
      OBVIOUS
    <3>6. QED
      BY <2>4, <3>3, <3>4, <3>5
  <2>6. QED
    BY <2>1, <2>5
<1>7. QED
  BY <1>1, <1>3, <1>6

(* A constant is summed as often as there are elements. *)
LEMMA SumConstant ==
    ASSUME NEW X, IsFiniteSet(X), NEW c \in Int, NEW f, \A x \in X : f[x] = c
    PROVE  SumFunctionOnSet(f, X) = c * Cardinality(X)
<1> DEFINE Bad == {s \in SUBSET X : SumFunctionOnSet(f, s) # c * Cardinality(s)}
<1>1. SUFFICES ASSUME Bad # {} PROVE FALSE
  OBVIOUS
<1>2. PICK s \in Bad : \A t \in SUBSET s : t # s => t \notin Bad
  <2>1. Bad \in SUBSET SUBSET X
    OBVIOUS
  <2> HIDE DEF Bad
  <2>2. QED
    BY <1>1, <2>1, SmallestSet
<1>3. IsFiniteSet(s) /\ s \in SUBSET X /\ SumFunctionOnSet(f, s) # c * Cardinality(s)
  BY FS_Subset
<1>4. s # {}
  <2>1. SUFFICES ASSUME s = {} PROVE FALSE
    OBVIOUS
  <2>2. SumFunctionOnSet(f, s) = 0
    BY <1>3, <2>1, SumByFirst
  <2>3. Cardinality(s) = 0
    BY <2>1, FS_EmptySet
  <2>4. QED
    BY <1>3, <2>2, <2>3
<1>5. PICK x \in s : x = First(s)
  BY <1>3, <1>4, SumByFirst
<1>6. PICK t \in SUBSET s : t = s \ {x}
  OBVIOUS
<1>7. SumFunctionOnSet(f, s) = c + SumFunctionOnSet(f, t)
  BY <1>3, <1>4, <1>5, <1>6, SumByFirst
<1>8. IsFiniteSet(t) /\ t # s /\ t \in SUBSET X
  BY <1>3, <1>5, <1>6, FS_Subset
<1>9. SumFunctionOnSet(f, t) = c * Cardinality(t)
  BY <1>2, <1>8
<1>10. Cardinality(t) = Cardinality(s) - 1
  BY <1>3, <1>6, FS_RemoveElement
<1>11. PICK k \in Int : k = Cardinality(t) /\ Cardinality(s) = k + 1
  BY <1>3, <1>8, <1>10, FS_CardinalityType
<1>12. c + c * k = c * (k + 1)
  OBVIOUS
<1>13. QED
  BY <1>3, <1>7, <1>9, <1>11, <1>12

-----------------------------------------------------------------------------
(* Selection *)

(* What the ranking hands to the decision. *)
ScoreBook(scores) ==
    /\ IsFiniteSet(DOMAIN scores) /\ DOMAIN scores \subseteq Int
    /\ \A s \in DOMAIN scores : scores[s].conviction \in Nat

(* No more names are selected than may be held. *)
LEMMA SelectedFew ==
    ASSUME NEW scores, ScoreBook(scores), NEW held
    PROVE  LET chosen == Selected(scores, held)
           IN  /\ chosen \in SUBSET DOMAIN scores /\ IsFiniteSet(chosen)
               /\ Cardinality(chosen) <= MaxHoldings
<1>1. PICK E : E = Eligible(scores)
  OBVIOUS
<1>2. E \in SUBSET DOMAIN scores /\ IsFiniteSet(E)
  BY <1>1, FS_Subset DEF Eligible, ScoreBook
<1>3. \A s \in E : s \in Int /\ scores[s].conviction \in Nat
  BY <1>2 DEF ScoreBook
<1>4. PICK R : R = {p \in E \X E : \/ scores[p[1]].conviction > scores[p[2]].conviction
                                   \/ (scores[p[1]].conviction = scores[p[2]].conviction /\ p[1] < p[2])}
  OBVIOUS
<1>5. \A s, t \in E : <<t, s>> \in R <=> (\/ scores[t].conviction > scores[s].conviction
                                         \/ (scores[t].conviction = scores[s].conviction /\ t < s))
  BY <1>4
<1>6. Linear(E, R)
  BY <1>3, <1>5 DEF Linear
<1>7. ASSUME NEW s \in E PROVE Rank(scores, s) = Cardinality(Below(E, R, s))
  <2>1. Below(E, R, s) = {t \in E \ {s} : \/ scores[t].conviction > scores[s].conviction
                                          \/ scores[t].conviction = scores[s].conviction /\ t < s}
    BY <1>3, <1>5 DEF Below
  <2>2. QED
    BY <1>1, <2>1 DEF Rank
<1>8. PICK chosen : chosen = Selected(scores, held)
  OBVIOUS
<1>9. chosen \in SUBSET E
  BY <1>1, <1>8 DEF Selected
<1>10. TargetHoldings \in Nat /\ MaxHoldings \in Nat
  BY PortfolioDecisionAssumption
<1>11. Min({TargetHoldings, MaxHoldings}) <= MaxHoldings /\ Min({TargetHoldings, MaxHoldings}) \in Int
  <2>1. IsFiniteSet({TargetHoldings} \cup {MaxHoldings})
    <3>1. IsFiniteSet({TargetHoldings}) /\ IsFiniteSet({MaxHoldings})
      BY FS_Singleton
    <3>2. QED
      BY <3>1, FS_Union
  <2>2. /\ {TargetHoldings} \cup {MaxHoldings} = {TargetHoldings, MaxHoldings}
        /\ {TargetHoldings, MaxHoldings} \in SUBSET Int
    BY <1>10
  <2>3. Min({TargetHoldings, MaxHoldings}) \in Int /\ Min({TargetHoldings, MaxHoldings}) <= MaxHoldings
    BY <2>1, <2>2, MinInSet
  <2>4. QED
    BY <2>3
<1>12. ASSUME NEW s \in chosen
       PROVE  Cardinality(Below(E, R, s)) \in Nat /\ Cardinality(Below(E, R, s)) < MaxHoldings
  <2>1. s \in E /\ Cardinality(Below(E, R, s)) \in Nat
    BY <1>2, <1>9, FS_Subset, FS_CardinalityType DEF Below
  <2>2. Rank(scores, s) < Min({TargetHoldings, MaxHoldings}) \/ Rank(scores, s) < MaxHoldings
    BY <1>8 DEF Selected
  <2>3. QED
    BY <1>7, <1>10, <1>11, <2>1, <2>2
<1>13. PICK place : place = [s \in chosen |-> Cardinality(Below(E, R, s)) + 1]
  OBVIOUS
<1>14. place \in Injection(chosen, 1 .. MaxHoldings)
  <2>1. place \in [chosen -> 1 .. MaxHoldings]
    BY <1>10, <1>12, <1>13
  <2>2. ASSUME NEW s \in chosen, NEW t \in chosen, place[s] = place[t] PROVE s = t
    <3>1. Cardinality(Below(E, R, s)) = Cardinality(Below(E, R, t))
      BY <1>12, <1>13, <2>2
    <3>2. QED
      BY <1>2, <1>6, <1>9, <3>1, OnePlaceEach
  <2>3. QED
    BY <2>1, <2>2 DEF Injection, IsInjective
<1>15. IsFiniteSet(1 .. MaxHoldings) /\ Cardinality(1 .. MaxHoldings) = MaxHoldings
  <2>1. 1 \in Int
    OBVIOUS
  <2>2. QED
    BY <1>10, <2>1, FS_Interval
<1>16. Cardinality(chosen) <= MaxHoldings
  BY <1>14, <1>15, FS_Injection
<1>17. QED
  BY <1>2, <1>8, <1>9, <1>16, FS_Subset

(* A round of the cap puts what has reached the cap at the cap, never     *)
(* shares out more than it took, and lets no weight overtake another.     *)
LEMMA RoundSound ==
    ASSUME NEW X, IsFiniteSet(X), NEW w \in [X -> Nat], NEW cap \in Nat,
           NEW v, v = ShareExcess(w, cap)
    PROVE  /\ v \in [X -> Nat]
           /\ SumFunctionOnSet(v, X) <= SumFunctionOnSet(w, X)
           /\ \A s \in X : w[s] >= cap => v[s] = cap
           /\ \A s, t \in X : w[s] >= w[t] \/ w[s] >= cap => v[s] >= v[t] \/ v[s] >= cap
<1>1. PICK over \in SUBSET X : over = {s \in DOMAIN w : w[s] > cap}
  OBVIOUS
<1>2. PICK rest \in SUBSET X : rest = DOMAIN w \ over
  OBVIOUS
<1>3. IsFiniteSet(over) /\ IsFiniteSet(rest) /\ rest = X \ over
  BY <1>2, FS_Subset
<1>4. PICK more : more = [s \in over |-> w[s] - cap]
  OBVIOUS
<1>5. \A s \in over : more[s] \in Nat
  BY <1>1, <1>4
<1>6. PICK excess \in Nat : excess = SumFunctionOnSet(more, over) /\ excess = SumFunction(more)
  <2>1. DOMAIN more = over
    BY <1>4
  <2>2. SumFunctionOnSet(more, over) \in Nat
    BY <1>3, <1>5, SumNatural
  <2>3. QED
    BY <2>1, <2>2, SumOverDomain
<1>7. PICK room \in Nat : room = SumFunctionOnSet(w, rest)
  <2>1. \A s \in rest : w[s] \in Nat
    OBVIOUS
  <2>2. QED
    BY <1>3, <2>1, SumNatural
<1>8. v = [s \in X |-> IF s \in over THEN cap
                       ELSE IF w[s] < cap /\ room > 0 THEN w[s] + (excess * w[s]) \div room
                       ELSE w[s]]
  BY <1>1, <1>2, <1>4, <1>6, <1>7 DEF ShareExcess
<1>9. PICK part : part = [s \in rest |-> IF room > 0 THEN (excess * w[s]) \div room ELSE 0]
  OBVIOUS
<1>10. (\A s \in rest : part[s] \in Nat) /\ SumFunctionOnSet(part, rest) <= excess
  <2>1. CASE room > 0
    <3>1. room \in Nat \ {0}
      BY <2>1
    <3>2. \A s \in rest : w[s] \in Nat /\ part[s] = (excess * w[s]) \div room
      BY <1>9, <2>1
    <3>3. SumFunctionOnSet(w, rest) <= room
      BY <1>7
    <3>4. QED
      BY <1>3, <3>1, <3>2, <3>3, SharesFit
  <2>2. CASE ~ room > 0
    <3>1. \A s \in rest : part[s] = 0
      BY <1>9, <2>2
    <3>2. PICK none \in SUBSET rest : none = {}
      OBVIOUS
    <3>3. \A s \in rest : part[s] \in Int
      BY <3>1
    <3>4. SumFunctionOnSet(part, rest) = SumFunctionOnSet(part, none)
      BY <1>3, <3>1, <3>2, <3>3, SumOfSupport
    <3>5. SumFunctionOnSet(part, none) = 0
      BY <3>2, FS_EmptySet, SumByFirst
    <3>6. QED
      BY <3>1, <3>4, <3>5
  <2>3. QED
    BY <2>1, <2>2
<1>11. ASSUME NEW s \in X
       PROVE  /\ v[s] \in Nat
              /\ s \in over => v[s] = cap
              /\ s \in rest => v[s] <= w[s] + part[s] /\ v[s] >= w[s] /\ w[s] <= cap
              /\ s \in rest /\ w[s] < cap => v[s] = w[s] + part[s]
              /\ w[s] >= cap => v[s] = cap
  <2>1. CASE s \in over
    <3>1. w[s] \in Nat /\ w[s] > cap /\ s \notin rest
      BY <1>1, <1>3, <2>1
    <3>2. QED
      BY <1>8, <2>1, <3>1
  <2>2. CASE s \notin over
    <3>1. s \in rest /\ w[s] \in Nat /\ w[s] <= cap
      BY <1>1, <1>3, <2>2
    <3>2. PICK a \in Nat, b \in Nat : a = w[s] /\ b = part[s]
      BY <1>10, <3>1
    <3>3. room > 0 => b = (excess * w[s]) \div room
      BY <1>9, <3>1, <3>2
    <3>4. ~ room > 0 => b = 0
      BY <1>9, <3>1, <3>2
    <3>5. v[s] = IF a < cap /\ room > 0 THEN a + b ELSE a
      BY <1>8, <2>2, <3>2, <3>3
    <3>6. QED
      BY <2>2, <3>1, <3>2, <3>4, <3>5
  <2>3. QED
    BY <2>1, <2>2
<1>12. v \in [X -> Nat]
  BY <1>8, <1>11
<1>13. SumFunctionOnSet(v, over) = SumFunctionOnSet(w, over) - excess
  <2>1. PICK p \in Int, q \in Int : p = 1 /\ q = -1
    OBVIOUS
  <2>2. Combines(v, w, more, over, p, q)
    <3>1. ASSUME NEW s \in over PROVE w[s] \in Int /\ more[s] \in Int /\ v[s] = p * w[s] + q * more[s]
      <4>1. PICK a \in Nat : a = w[s]
        OBVIOUS
      <4>2. v[s] = cap /\ more[s] = a - cap
        BY <1>4, <1>11, <4>1
      <4>3. QED
        BY <2>1, <4>1, <4>2
    <3>2. QED
      BY <3>1 DEF Combines
  <2>2a. SumFunctionOnSet(v, over) = p * SumFunctionOnSet(w, over) + q * SumFunctionOnSet(more, over)
    <3>1. IsFiniteSet(over)
      BY <1>3
    <3>2. QED
      BY <2>2, <3>1, SumCombines
  <2>3. SumFunctionOnSet(v, over) = p * SumFunctionOnSet(w, over) + q * excess
    BY <1>6, <2>2a
  <2>4. SumFunctionOnSet(w, over) \in Int
    BY <1>3, SumInt
  <2>5. QED
    BY <2>1, <2>3, <2>4
<1>14. SumFunctionOnSet(v, rest) <= room + excess
  <2>1. PICK most : most = [s \in rest |-> w[s] + part[s]]
    OBVIOUS
  <2>2. PICK one \in Int : one = 1
    OBVIOUS
  <2>3. ASSUME NEW s \in rest PROVE w[s] \in Int /\ part[s] \in Int /\ most[s] = one * w[s] + one * part[s]
    <3>1. PICK a \in Nat, b \in Nat : a = w[s] /\ b = part[s]
      BY <1>10
    <3>2. QED
      BY <2>1, <2>2, <3>1
  <2>4. Combines(most, w, part, rest, one, one)
    BY <2>2, <2>3 DEF Combines
  <2>4a. SumFunctionOnSet(most, rest) = one * SumFunctionOnSet(w, rest) + one * SumFunctionOnSet(part, rest)
    <3>1. IsFiniteSet(rest)
      BY <1>3
    <3>2. QED
      BY <2>4, <3>1, SumCombines
  <2>5. SumFunctionOnSet(most, rest) = one * room + one * SumFunctionOnSet(part, rest)
    BY <1>7, <2>4a
  <2>6. \A s \in rest : v[s] \in Int /\ most[s] \in Int /\ v[s] <= most[s]
    BY <1>10, <1>11, <2>1
  <2>7. SumFunctionOnSet(v, rest) <= SumFunctionOnSet(most, rest)
    BY <1>3, <2>6, SumLeq
  <2>8. SumFunctionOnSet(part, rest) \in Nat /\ SumFunctionOnSet(v, rest) \in Int
    BY <1>3, <1>10, <2>6, SumNatural, SumInt
  <2>9. QED
    BY <1>10, <2>2, <2>5, <2>7, <2>8
<1>15. SumFunctionOnSet(v, X) <= SumFunctionOnSet(w, X)
  <2>1. \A s \in X : v[s] \in Int /\ w[s] \in Int
    BY <1>11
  <2>1a. /\ SumFunctionOnSet(v, X) = SumFunctionOnSet(v, over) + SumFunctionOnSet(v, X \ over)
         /\ SumFunctionOnSet(w, X) = SumFunctionOnSet(w, over) + SumFunctionOnSet(w, X \ over)
    BY <2>1, SumSplits
  <2>2. /\ SumFunctionOnSet(v, X) = SumFunctionOnSet(v, over) + SumFunctionOnSet(v, rest)
        /\ SumFunctionOnSet(w, X) = SumFunctionOnSet(w, over) + room
    BY <1>3, <1>7, <2>1a
  <2>3. /\ SumFunctionOnSet(v, over) \in Int /\ SumFunctionOnSet(v, rest) \in Int
        /\ SumFunctionOnSet(w, over) \in Int
    BY <1>3, <2>1, SumInt
  <2>4. QED
    BY <1>13, <1>14, <2>2, <2>3
<1>16. ASSUME NEW s \in X, NEW t \in X, w[s] >= w[t] \/ w[s] >= cap
       PROVE  v[s] >= v[t] \/ v[s] >= cap
  <2>1. PICK a \in Nat, b \in Nat : a = w[s] /\ b = w[t]
    OBVIOUS
  <2>2. CASE a >= cap
    BY <1>11, <2>1, <2>2
  <2>3. CASE ~ a >= cap
    <3>1. a >= b /\ b < cap /\ a < cap
      BY <1>16, <2>1, <2>3
    <3>2. s \in rest /\ t \in rest
      BY <1>1, <1>3, <2>1, <3>1
    <3>3. v[s] = a + part[s] /\ v[t] = b + part[t]
      BY <1>11, <2>1, <3>1, <3>2
    <3>4. part[s] \in Nat /\ part[t] \in Nat /\ part[t] <= part[s]
      <4>1. CASE room > 0
        <5>1. room \in Nat \ {0}
          BY <4>1
        <5>2. part[s] = (excess * a) \div room /\ part[t] = (excess * b) \div room
          BY <1>9, <2>1, <3>2, <4>1
        <5>3. b <= a
          BY <3>1
        <5>4. /\ (excess * b) \div room \in Nat /\ (excess * a) \div room \in Nat
              /\ (excess * b) \div room <= (excess * a) \div room
          BY <5>1, <5>3, SharesOrdered
        <5>5. QED
          BY <5>2, <5>4
      <4>2. CASE ~ room > 0
        BY <1>9, <3>2, <4>2
      <4>3. QED
        BY <4>1, <4>2
    <3>5. QED
      BY <3>1, <3>3, <3>4
  <2>4. QED
    BY <2>2, <2>3
<1>17. QED
  BY <1>11, <1>12, <1>15, <1>16

(* One round of the cap, and the ten of them. *)
Round(w, last, cap) == IF \E s \in DOMAIN w : last[s] > cap THEN ShareExcess(last, cap) ELSE last
Rounds(w, cap, r) == r = [n \in 0 .. 10 |-> IF n = 0 THEN w ELSE Round(w, r[n - 1], cap)]

(* The ten rounds of the cap exist. *)
LEMMA CappedByRounds ==
    ASSUME NEW w, NEW cap
    PROVE  \E r : Rounds(w, cap, r) /\ Capped(w, cap) = r[10]
<1>1. PICK r1, r2, r3, r4, r5 :
        /\ r1 = Round(w, w, cap) /\ r2 = Round(w, r1, cap) /\ r3 = Round(w, r2, cap)
        /\ r4 = Round(w, r3, cap) /\ r5 = Round(w, r4, cap)
  OBVIOUS
<1>2. PICK r6, r7, r8, r9, r10 :
        /\ r6 = Round(w, r5, cap) /\ r7 = Round(w, r6, cap) /\ r8 = Round(w, r7, cap)
        /\ r9 = Round(w, r8, cap) /\ r10 = Round(w, r9, cap)
  OBVIOUS
<1>3. PICK r : r = [n \in 0 .. 10 |->
        IF n = 0 THEN w ELSE IF n = 1 THEN r1 ELSE IF n = 2 THEN r2 ELSE IF n = 3 THEN r3
        ELSE IF n = 4 THEN r4 ELSE IF n = 5 THEN r5 ELSE IF n = 6 THEN r6
        ELSE IF n = 7 THEN r7 ELSE IF n = 8 THEN r8 ELSE IF n = 9 THEN r9 ELSE r10]
  OBVIOUS
<1>4. /\ r[0] = w /\ r[1] = r1 /\ r[2] = r2 /\ r[3] = r3 /\ r[4] = r4 /\ r[5] = r5
      /\ r[6] = r6 /\ r[7] = r7 /\ r[8] = r8 /\ r[9] = r9 /\ r[10] = r10
  BY <1>3
<1>5. \A n \in 0 .. 10 : r[n] = IF n = 0 THEN w ELSE Round(w, r[n - 1], cap)
  <2>1. SUFFICES ASSUME NEW n \in 0 .. 10, n # 0 PROVE r[n] = Round(w, r[n - 1], cap)
    BY <1>4
  <2>2. n \in {1, 2, 3, 4, 5, 6, 7, 8, 9, 10}
    BY <2>1
  <2>3. /\ r[1] = Round(w, r[1 - 1], cap) /\ r[2] = Round(w, r[2 - 1], cap)
        /\ r[3] = Round(w, r[3 - 1], cap) /\ r[4] = Round(w, r[4 - 1], cap)
        /\ r[5] = Round(w, r[5 - 1], cap) /\ r[6] = Round(w, r[6 - 1], cap)
        /\ r[7] = Round(w, r[7 - 1], cap) /\ r[8] = Round(w, r[8 - 1], cap)
        /\ r[9] = Round(w, r[9 - 1], cap) /\ r[10] = Round(w, r[10 - 1], cap)
    BY <1>1, <1>2, <1>4
  <2>4. QED
    BY <2>2, <2>3
<1>6. r = [n \in 0 .. 10 |-> r[n]]
  BY <1>3
<1>7. Rounds(w, cap, r)
  BY <1>5, <1>6 DEF Rounds
<1>8. Capped(w, cap) = (CHOOSE q : Rounds(w, cap, q))[10]
  BY DEF Capped, Rounds, Round
<1>9. QED
  BY <1>7, <1>8, Zenon

(* After n rounds: natural weights with no greater sum and in no other     *)
(* order, none above the cap or at least n of them exactly at it.          *)
After(n, X, w, cap, last) ==
    /\ last \in [X -> Nat]
    /\ SumFunctionOnSet(last, X) <= SumFunctionOnSet(w, X)
    /\ \A s, t \in X : w[s] >= w[t] => last[s] >= last[t] \/ last[s] >= cap
    /\ \/ \A s \in X : last[s] <= cap
       \/ \E T \in SUBSET X : Cardinality(T) = n /\ \A s \in T : last[s] = cap

(* A round keeps what held before it, and brings one more name to the cap. *)
LEMMA RoundTaken ==
    ASSUME NEW X, IsFiniteSet(X), NEW w \in [X -> Nat], NEW cap \in Nat,
           NEW n \in Nat, NEW last, After(n, X, w, cap, last)
    PROVE  After(n + 1, X, w, cap, Round(w, last, cap))
<1>1. CASE \A s \in X : last[s] <= cap
  <2>1. Round(w, last, cap) = last
    <3>1. \A s \in X : ~ last[s] > cap
      BY <1>1 DEF After
    <3>2. QED
      BY <3>1 DEF Round
  <2>2. QED
    BY <1>1, <2>1 DEF After
<1>2. CASE ~ \A s \in X : last[s] <= cap
  <2>1. PICK x \in X : last[x] > cap
    BY <1>2 DEF After
  <2>2. PICK v : v = ShareExcess(last, cap)
    OBVIOUS
  <2>3. Round(w, last, cap) = v
    BY <2>1, <2>2 DEF Round
  <2>4. last \in [X -> Nat]
    BY DEF After
  <2>5. /\ v \in [X -> Nat]
        /\ SumFunctionOnSet(v, X) <= SumFunctionOnSet(last, X)
        /\ \A s \in X : last[s] >= cap => v[s] = cap
        /\ \A s, t \in X : last[s] >= last[t] \/ last[s] >= cap => v[s] >= v[t] \/ v[s] >= cap
    BY <2>2, <2>4, RoundSound
  <2>6. PICK T \in SUBSET X : Cardinality(T) = n /\ \A s \in T : last[s] = cap
    BY <1>2 DEF After
  <2>7. PICK T2 \in SUBSET X : T2 = T \cup {x}
    OBVIOUS
  <2>8. x \notin T /\ IsFiniteSet(T)
    <3>1. last[x] # cap
      BY <2>1, <2>4
    <3>2. QED
      BY <2>6, <3>1, FS_Subset
  <2>9. Cardinality(T2) = n + 1
    BY <2>6, <2>7, <2>8, FS_AddElement
  <2>10. \A s \in T2 : v[s] = cap
    <3>1. \A s \in T2 : last[s] >= cap
      BY <2>1, <2>4, <2>6, <2>7
    <3>2. QED
      BY <2>5, <3>1
  <2>11. SumFunctionOnSet(v, X) <= SumFunctionOnSet(w, X)
    <3>1. /\ SumFunctionOnSet(v, X) \in Nat /\ SumFunctionOnSet(last, X) \in Nat
          /\ SumFunctionOnSet(w, X) \in Nat
      BY <2>4, <2>5, SumNatural
    <3>2. QED
      BY <2>5, <3>1 DEF After
  <2>12. \A s, t \in X : w[s] >= w[t] => v[s] >= v[t] \/ v[s] >= cap
    BY <2>5 DEF After
  <2>13. QED
    BY <2>3, <2>5, <2>9, <2>10, <2>11, <2>12 DEF After
<1>3. QED
  BY <1>1, <1>2

(* Ten rounds are enough for ten names, or for a cap of more than an       *)
(* eleventh.                                                               *)
LEMMA CappedSound ==
    ASSUME NEW X, IsFiniteSet(X), NEW w \in [X -> Nat], NEW cap \in Nat,
           Cardinality(X) <= 10 \/ 11 * cap > SumFunctionOnSet(w, X),
           NEW v, v = Capped(w, cap)
    PROVE  /\ v \in [X -> Nat]
           /\ SumFunctionOnSet(v, X) <= SumFunctionOnSet(w, X)
           /\ \A s \in X : v[s] <= cap
           /\ \A s, t \in X : w[s] >= w[t] => v[s] >= v[t]
<1>1. PICK r : Rounds(w, cap, r) /\ v = r[10]
  BY CappedByRounds
<1>2. /\ r[0] = w
      /\ \A n \in 0 .. 9 : r[n + 1] = Round(w, r[n], cap)
  <2>1. r[0] = w /\ \A n \in 1 .. 10 : r[n] = Round(w, r[n - 1], cap)
    BY <1>1 DEF Rounds
  <2>2. ASSUME NEW n \in 0 .. 9 PROVE r[n + 1] = Round(w, r[n], cap)
    <3>1. n + 1 \in 1 .. 10 /\ (n + 1) - 1 = n
      OBVIOUS
    <3>2. QED
      BY <2>1, <3>1
  <2>3. QED
    BY <2>1, <2>2
<1> DEFINE Holds(n) == After(n, X, w, cap, r[n])
<1>3. Holds(0)
  <2>1. PICK T \in SUBSET X : T = {}
    OBVIOUS
  <2>2. Cardinality(T) = 0 /\ \A s \in T : w[s] = cap
    BY <2>1, FS_EmptySet
  <2>3. SumFunctionOnSet(w, X) \in Nat
    BY SumNatural
  <2>4. QED
    BY <1>2, <2>2, <2>3 DEF After
<1>4. ASSUME NEW n \in 0 .. 9, Holds(n) PROVE Holds(n + 1)
  BY <1>2, <1>4, RoundTaken
<1>5. Holds(10)
  <2>1. Holds(1)
    BY <1>3, <1>4
  <2>2. Holds(2)
    BY <2>1, <1>4
  <2>3. Holds(3)
    BY <2>2, <1>4
  <2>4. Holds(4)
    BY <2>3, <1>4
  <2>5. Holds(5)
    BY <2>4, <1>4
  <2>6. Holds(6)
    BY <2>5, <1>4
  <2>7. Holds(7)
    BY <2>6, <1>4
  <2>8. Holds(8)
    BY <2>7, <1>4
  <2>9. Holds(9)
    BY <2>8, <1>4
  <2>10. QED
    BY <2>9, <1>4
<1>6. After(10, X, w, cap, v)
  BY <1>1, <1>5
<1>7. v \in [X -> Nat] /\ SumFunctionOnSet(v, X) <= SumFunctionOnSet(w, X)
  BY <1>6 DEF After
<1>8. \A s \in X : v[s] <= cap
  <2>1. SUFFICES ASSUME NEW x \in X, v[x] > cap PROVE FALSE
    BY <1>7
  <2>2. PICK T \in SUBSET X : Cardinality(T) = 10 /\ \A s \in T : v[s] = cap
    <3>1. ~ v[x] <= cap
      BY <1>7, <2>1
    <3>2. QED
      BY <1>6, <3>1 DEF After
  <2>3. PICK T2 \in SUBSET X : T2 = T \cup {x}
    OBVIOUS
  <2>4. x \notin T /\ IsFiniteSet(T) /\ IsFiniteSet(T2)
    <3>1. v[x] # cap
      BY <1>7, <2>1
    <3>2. QED
      BY <2>2, <3>1, FS_Subset
  <2>5. Cardinality(T2) = 11
    <3>1. Cardinality(T2) = 10 + 1
      BY <2>2, <2>3, <2>4, FS_AddElement
    <3>2. QED
      BY <3>1
  <2>6. Cardinality(X) \in Nat /\ 11 <= Cardinality(X)
    BY <2>5, FS_Subset, FS_CardinalityType
  <2>7. PICK least : least = [s \in T2 |-> cap]
    OBVIOUS
  <2>8. SumFunctionOnSet(least, T2) = cap * 11
    <3>1. \A s \in T2 : least[s] = cap
      BY <2>7
    <3>2. cap \in Int
      OBVIOUS
    <3>3. QED
      BY <2>4, <2>5, <3>1, <3>2, SumConstant
  <2>9. SumFunctionOnSet(least, T2) <= SumFunctionOnSet(v, T2)
    <3>1. \A s \in T2 : least[s] \in Int /\ v[s] \in Int /\ least[s] <= v[s]
      BY <1>7, <2>1, <2>2, <2>3, <2>7
    <3>2. QED
      BY <2>4, <3>1, SumLeq
  <2>10. SumFunctionOnSet(v, X) = SumFunctionOnSet(v, T2) + SumFunctionOnSet(v, X \ T2)
    <3>1. \A s \in X : v[s] \in Int
      BY <1>7
    <3>2. QED
      BY <3>1, SumSplits
  <2>11. SumFunctionOnSet(v, X \ T2) \in Nat /\ SumFunctionOnSet(v, T2) \in Nat /\ SumFunctionOnSet(w, X) \in Nat
    <3>1. IsFiniteSet(X \ T2) /\ (\A s \in X \ T2 : v[s] \in Nat) /\ (\A s \in T2 : v[s] \in Nat)
      BY <1>7, FS_Subset
    <3>2. QED
      BY <2>4, <3>1, SumNatural
  <2>12. 11 * cap <= SumFunctionOnSet(w, X)
    BY <1>7, <2>8, <2>9, <2>10, <2>11
  <2>13. QED
    BY <2>6, <2>11, <2>12
<1>9. ASSUME NEW s \in X, NEW t \in X, w[s] >= w[t] PROVE v[s] >= v[t]
  <2>1. v[s] \in Nat /\ v[t] \in Nat /\ v[t] <= cap
    BY <1>7, <1>8
  <2>2. v[s] >= v[t] \/ v[s] >= cap
    BY <1>6, <1>9 DEF After
  <2>3. QED
    BY <2>1, <2>2
<1>10. QED
  BY <1>7, <1>8, <1>9

(* One, the cap and the buffer. *)
LEMMA UnitValue == Unit = 10000 /\ Unit \in Nat \ {0} /\ PositionCap \in Nat /\ Unit - CashBuffer \in Nat
  BY PortfolioDecisionAssumption DEF Unit

(* The buffer is taken off every weight in proportion. *)
LEMMA BufferedSound ==
    ASSUME NEW X, IsFiniteSet(X), NEW w \in [X -> Nat], SumFunctionOnSet(w, X) <= Unit,
           \A s \in X : w[s] <= PositionCap,
           NEW f, f = [s \in X |-> (w[s] * (Unit - CashBuffer)) \div Unit]
    PROVE  /\ SumFunction(f) <= Unit - CashBuffer
           /\ \A s \in X : Unit * f[s] <= PositionCap * (Unit - CashBuffer)
           /\ \A s, t \in X : w[s] >= w[t] => f[s] >= f[t]
<1>1. PICK e \in Nat, r \in Nat \ {0} : e = Unit - CashBuffer /\ r = Unit
  BY UnitValue
<1>2. \A s \in X : w[s] \in Nat /\ f[s] = (e * w[s]) \div r
  <2>1. ASSUME NEW s \in X PROVE w[s] \in Nat /\ f[s] = (e * w[s]) \div r
    <3>1. PICK a \in Nat : a = w[s]
      OBVIOUS
    <3>2. a * e = e * a
      OBVIOUS
    <3>3. f[s] = (a * e) \div r
      BY <1>1, <3>1
    <3>4. QED
      BY <3>1, <3>2, <3>3
  <2>2. QED
    BY <2>1
<1>3. (\A s \in X : f[s] \in Nat) /\ SumFunctionOnSet(f, X) <= e
  <2>1. SumFunctionOnSet(w, X) <= r
    BY <1>1
  <2>2. QED
    BY <1>2, <2>1, SharesFit
<1>4. SumFunction(f) = SumFunctionOnSet(f, X)
  BY DEF SumFunction
<1>5. ASSUME NEW s \in X PROVE r * f[s] <= PositionCap * e
  <2>1. PICK a \in Nat, c \in Nat : a = w[s] /\ c = PositionCap /\ a <= c
    BY UnitValue
  <2>2. PICK m \in Nat : m = e * a
    OBVIOUS
  <2>3. f[s] = m \div r
    BY <1>2, <2>1, <2>2
  <2>4. r * (m \div r) <= m
    OBVIOUS
  <2>5. e * a <= c * e
    <3>1. c - a \in Nat
      BY <2>1
    <3>2. \A i, j \in Nat : i * j \in Nat
      OBVIOUS
    <3>3. e * (c - a) \in Nat
      BY <3>1, <3>2
    <3>4. e * (c - a) = c * e - e * a
      OBVIOUS
    <3>5. c * e \in Int /\ e * a \in Int
      OBVIOUS
    <3>6. QED
      BY <3>3, <3>4, <3>5
  <2>6. c * e \in Int /\ r * (m \div r) \in Int
    OBVIOUS
  <2>7. QED
    BY <2>1, <2>2, <2>3, <2>4, <2>5, <2>6
<1>6. ASSUME NEW s \in X, NEW t \in X, w[s] >= w[t] PROVE f[s] >= f[t]
  <2>1. PICK a \in Nat, b \in Nat : a = w[t] /\ b = w[s] /\ a <= b
    BY <1>6
  <2>2. f[t] = (e * a) \div r /\ f[s] = (e * b) \div r
    BY <1>2, <2>1
  <2>3. /\ (e * a) \div r \in Nat /\ (e * b) \div r \in Nat
        /\ (e * a) \div r <= (e * b) \div r
    BY <2>1, SharesOrdered
  <2>4. QED
    BY <2>2, <2>3
<1>7. QED
  BY <1>1, <1>3, <1>4, <1>5, <1>6

(* The book a decision aims at is within its limits: names, cap, capital     *)
(* less the buffer, and more conviction never means less.  The rounds that   *)
(* apply the cap are ten (portfolio_manager.py size_positions), which is     *)
(* enough for ten names or a cap of more than an eleventh.                   *)
THEOREM BooksWithinLimits ==
    ASSUME NEW scores, ScoreBook(scores), NEW held,
           Cardinality(Selected(scores, held)) <= 10 \/ 11 * PositionCap > Unit
    PROVE  WithinLimits(scores, held)
<1>1. PICK X : X = Selected(scores, held)
  OBVIOUS
<1>2. X \in SUBSET DOMAIN scores /\ IsFiniteSet(X) /\ Cardinality(X) <= MaxHoldings
  BY <1>1, SelectedFew
<1>3. PICK conv : conv = [s \in X |-> scores[s].conviction]
  OBVIOUS
<1>4. \A s \in X : conv[s] \in Nat /\ scores[s].conviction \in Nat
  BY <1>2, <1>3 DEF ScoreBook
<1>5. PICK total \in Nat : total = SumFunction(conv) /\ total = SumFunctionOnSet(conv, X)
  <2>1. SumFunctionOnSet(conv, X) \in Nat
    BY <1>2, <1>4, SumNatural
  <2>2. DOMAIN conv = X
    BY <1>3
  <2>3. QED
    BY <2>1, <2>2, SumOverDomain
<1>6. PICK raw : raw = [s \in X |-> IF total = 0
                                   THEN Min({Unit \div Cardinality(X), PositionCap})
                                   ELSE (scores[s].conviction * Unit) \div total]
  OBVIOUS
<1>7. PICK w : w = IF total = 0 THEN raw ELSE Capped(raw, PositionCap)
  OBVIOUS
<1>8. PICK f : f = [s \in X |-> (w[s] * (Unit - CashBuffer)) \div Unit]
  OBVIOUS
<1>9. f = SizePositions(scores, X)
  BY <1>3, <1>5, <1>6, <1>7, <1>8 DEF SizePositions
<1>10. /\ w \in [X -> Nat]
       /\ SumFunctionOnSet(w, X) <= Unit
       /\ \A s \in X : w[s] <= PositionCap
       /\ \A s, t \in X : scores[s].conviction > scores[t].conviction => w[s] >= w[t]
  <2>1. CASE total = 0
    <3>1. w = raw
      BY <1>7, <2>1
    <3>2. CASE X = {}
      <4>1. w \in [X -> Nat]
        BY <1>6, <3>1, <3>2
      <4>2. SumFunctionOnSet(w, X) = 0
        BY <1>2, <3>2, SumByFirst
      <4>3. 0 <= Unit
        BY UnitValue
      <4>4. QED
        BY <3>2, <4>1, <4>2, <4>3
    <3>3. CASE X # {}
      <4>1. PICK k \in Nat \ {0} : k = Cardinality(X)
        BY <1>2, <3>3, FS_CardinalityType, FS_EmptySet
      <4>2. PICK one \in Nat : one = Unit \div k /\ k * one <= Unit
        BY UnitValue
      <4>3. PICK m : m = Min({one, PositionCap})
        OBVIOUS
      <4>4. m \in Nat /\ m <= one /\ m <= PositionCap
        <5>1. IsFiniteSet({one} \cup {PositionCap})
          <6>1. IsFiniteSet({one}) /\ IsFiniteSet({PositionCap})
            BY FS_Singleton
          <6>2. QED
            BY <6>1, FS_Union
        <5>2. {one} \cup {PositionCap} = {one, PositionCap} /\ {one, PositionCap} \in SUBSET Int
          BY UnitValue
        <5>3. Min({one, PositionCap}) \in {one, PositionCap} /\ \A y \in {one, PositionCap} : Min({one, PositionCap}) <= y
          BY <5>1, <5>2, MinInSet
        <5>4. QED
          BY <4>3, <5>3, UnitValue
      <4>5. w = [s \in X |-> m]
        BY <1>6, <2>1, <3>1, <4>1, <4>2, <4>3
      <4>6. SumFunctionOnSet(w, X) = m * k
        <5>1. \A s \in X : w[s] = m
          BY <4>5
        <5>2. m \in Int
          BY <4>4
        <5>3. QED
          BY <1>2, <4>1, <5>1, <5>2, SumConstant
      <4>7. m * k <= Unit
        <5>1. PICK mm \in Nat : mm = m
          BY <4>4
        <5>2. one - mm \in Nat
          BY <4>4, <5>1
        <5>3. \A i, j \in Nat : i * j \in Nat
          OBVIOUS
        <5>4. k * (one - mm) \in Nat
          BY <5>2, <5>3
        <5>5. k * (one - mm) = k * one - mm * k
          OBVIOUS
        <5>6. k * one \in Int /\ mm * k \in Int
          OBVIOUS
        <5>7. QED
          BY <4>2, <5>1, <5>4, <5>5, <5>6, UnitValue
      <4>8. QED
        BY <4>4, <4>5, <4>6, <4>7
    <3>4. QED
      BY <3>2, <3>3
  <2>2. CASE total # 0
    <3>1. w = Capped(raw, PositionCap)
      BY <1>7, <2>2
    <3>2. PICK e \in Nat, r \in Nat \ {0} : e = Unit /\ r = total
      BY <2>2, UnitValue
    <3>3. \A s \in X : raw[s] = (e * conv[s]) \div r
      <4>1. ASSUME NEW s \in X PROVE raw[s] = (e * conv[s]) \div r
        <5>1. PICK a \in Nat : a = conv[s] /\ a = scores[s].conviction
          BY <1>3, <1>4
        <5>2. a * e = e * a
          OBVIOUS
        <5>3. raw[s] = (a * e) \div r
          BY <1>6, <2>2, <3>2, <5>1
        <5>4. QED
          BY <5>1, <5>2, <5>3
      <4>2. QED
        BY <4>1
    <3>4. (\A s \in X : raw[s] \in Nat) /\ SumFunctionOnSet(raw, X) <= e
      <4>1. SumFunctionOnSet(conv, X) <= r
        BY <1>5, <3>2
      <4>2. QED
        BY <1>2, <1>4, <3>3, <4>1, SharesFit
    <3>5. raw \in [X -> Nat]
      BY <1>6, <3>4
    <3>6. Cardinality(X) <= 10 \/ 11 * PositionCap > SumFunctionOnSet(raw, X)
      <4>1. SumFunctionOnSet(raw, X) \in Nat
        BY <1>2, <3>4, SumNatural
      <4>2. QED
        BY <1>1, <3>2, <3>4, <4>1, UnitValue
    <3>7. /\ w \in [X -> Nat]
          /\ SumFunctionOnSet(w, X) <= SumFunctionOnSet(raw, X)
          /\ \A s \in X : w[s] <= PositionCap
          /\ \A s, t \in X : raw[s] >= raw[t] => w[s] >= w[t]
      <4>1. PositionCap \in Nat
        BY UnitValue
      <4>2. QED
        BY <1>2, <3>1, <3>5, <3>6, <4>1, CappedSound
    <3>8. SumFunctionOnSet(w, X) <= Unit
      <4>1. SumFunctionOnSet(raw, X) \in Nat /\ SumFunctionOnSet(w, X) \in Nat
        BY <1>2, <3>4, <3>7, SumNatural
      <4>2. QED
        BY <3>2, <3>4, <3>7, <4>1
    <3>9. ASSUME NEW s \in X, NEW t \in X, scores[s].conviction > scores[t].conviction
          PROVE  raw[s] >= raw[t]
      <4>1. PICK a \in Nat, b \in Nat : a = conv[t] /\ b = conv[s] /\ a <= b
        BY <1>3, <1>4, <3>9
      <4>2. (e * a) \div r <= (e * b) \div r
        BY <4>1, SharesOrdered
      <4>3. raw[t] = (e * a) \div r /\ raw[s] = (e * b) \div r
        BY <3>3, <4>1
      <4>4. QED
        BY <3>4, <4>2, <4>3
    <3>10. QED
      BY <3>7, <3>8, <3>9
  <2>3. QED
    BY <2>1, <2>2
<1>11. /\ SumFunction(f) <= Unit - CashBuffer
       /\ \A s \in X : Unit * f[s] <= PositionCap * (Unit - CashBuffer)
       /\ \A s, t \in X : w[s] >= w[t] => f[s] >= f[t]
  BY <1>2, <1>8, <1>10, BufferedSound
<1>12. \A s, t \in X : scores[s].conviction > scores[t].conviction => f[s] >= f[t]
  BY <1>10, <1>11
<1>13. QED
  BY <1>1, <1>2, <1>9, <1>11, <1>12 DEF WithinLimits

(* The sum over the three analysts. *)
LEMMA SumOfAnalysts ==
    ASSUME NEW w \in [ANALYSTS -> Int]
    PROVE  Sum(w) = w["fundamentals"] + w["news"] + w["technical"]
<1>1. PICK X : X = ANALYSTS
  OBVIOUS
<1>2. PICK Y \in SUBSET X, Z \in SUBSET X, none \in SUBSET X :
         Y = {"news", "technical"} /\ Z = {"technical"} /\ none = {}
  BY <1>1 DEF ANALYSTS
<1>3. IsFiniteSet(X) /\ IsFiniteSet(Y) /\ IsFiniteSet(Z) /\ IsFiniteSet(none)
  <2>1. IsFiniteSet({"fundamentals"}) /\ IsFiniteSet({"news"}) /\ IsFiniteSet({"technical"})
    BY FS_Singleton
  <2>2. IsFiniteSet({"news"} \cup {"technical"})
    BY <2>1, FS_Union
  <2>3. {"news"} \cup {"technical"} = Y
    BY <1>2
  <2>4. IsFiniteSet({"fundamentals"} \cup Y)
    BY <2>1, <2>2, <2>3, FS_Union
  <2>5. {"fundamentals"} \cup Y = X
    BY <1>1, <1>2 DEF ANALYSTS
  <2>6. QED
    BY <2>4, <2>5, FS_Subset
<1>4. \A x \in X : w[x] \in Int
  BY <1>1
<1>5. "fundamentals" \in X /\ "news" \in Y /\ "technical" \in Z
  BY <1>1, <1>2 DEF ANALYSTS
<1>6. X \ {"fundamentals"} = Y /\ Y \ {"news"} = Z /\ Z \ {"technical"} = none
  BY <1>1, <1>2 DEF ANALYSTS
<1>7. SumFunctionOnSet(w, X) = w["fundamentals"] + SumFunctionOnSet(w, Y)
  BY <1>3, <1>4, <1>5, <1>6, SumByElement
<1>8. SumFunctionOnSet(w, Y) = w["news"] + SumFunctionOnSet(w, Z)
  BY <1>3, <1>4, <1>5, <1>6, SumByElement
<1>9. SumFunctionOnSet(w, Z) = w["technical"] + SumFunctionOnSet(w, none)
  BY <1>3, <1>4, <1>5, <1>6, SumByElement
<1>10. SumFunctionOnSet(w, none) = 0
  BY <1>2, <1>3, SumByFirst
<1>11. Sum(w) = SumFunctionOnSet(w, X)
  BY <1>1 DEF Sum, SumFunction
<1>12. w["fundamentals"] \in Int /\ w["news"] \in Int /\ w["technical"] \in Int
  BY <1>1, <1>2, <1>4, <1>5
<1>13. QED
  BY <1>7, <1>8, <1>9, <1>10, <1>11, <1>12

(* A number can be clipped between two bounds that are in order. *)
LEMMA ClipBetween ==
    ASSUME NEW x \in Int, NEW lo \in Int, NEW hi \in Int, lo <= hi
    PROVE  Clip(x, lo, hi) \in Int /\ lo <= Clip(x, lo, hi) /\ Clip(x, lo, hi) <= hi
<1>1. ASSUME NEW i \in Int, NEW j \in Int
      PROVE  /\ Max({i, j}) \in {i, j} /\ Max({i, j}) >= i /\ Max({i, j}) >= j
             /\ Min({i, j}) \in {i, j} /\ Min({i, j}) <= i /\ Min({i, j}) <= j
  <2>1. PICK pair \in SUBSET Int : pair = {i, j}
    OBVIOUS
  <2>2. IsFiniteSet({i} \cup {j})
    <3>1. IsFiniteSet({i}) /\ IsFiniteSet({j})
      BY FS_Singleton
    <3>2. QED
      BY <3>1, FS_Union
  <2>3. {i} \cup {j} = pair /\ pair # {}
    BY <2>1
  <2>4. IsFiniteSet(pair)
    BY <2>2, <2>3
  <2>5. /\ Max(pair) \in pair /\ \A y \in pair : Max(pair) >= y
        /\ Min(pair) \in pair /\ \A y \in pair : Min(pair) <= y
    BY <2>3, <2>4, MaxInSet, MinInSet
  <2>6. QED
    BY <2>1, <2>5
<1>2. PICK m \in Int : m = Max({x, lo}) /\ m >= lo
  BY <1>1
<1>3. PICK k \in Int : k = Min({m, hi}) /\ (k = m \/ k = hi) /\ k <= hi
  BY <1>1
<1>4. Clip(x, lo, hi) = k
  BY <1>2, <1>3 DEF Clip
<1>5. QED
  BY <1>2, <1>3, <1>4

-----------------------------------------------------------------------------
(* Exact shares, over a common denominator *)

(* Bounds between which a distribution of one exists. *)
Bounds(lo, hi) ==
    /\ lo \in [ANALYSTS -> Int] /\ hi \in [ANALYSTS -> Int]
    /\ \A a \in ANALYSTS : lo[a] <= hi[a]
    /\ Sum(lo) <= WeightUnit /\ WeightUnit <= Sum(hi)

(* num over d is a distribution between the bounds. *)
Exact(num, d, lo, hi) ==
    /\ d \in Nat \ {0} /\ num \in [ANALYSTS -> Int]
    /\ \A a \in ANALYSTS : d * lo[a] <= num[a] /\ num[a] <= d * hi[a]
    /\ num["fundamentals"] + num["news"] + num["technical"] = d * WeightUnit

(* A share raised by a part m / d of its room stays between its bounds. *)
LEMMA TakenUp ==
    ASSUME NEW w \in Int, NEW lo \in Int, NEW hi \in Int, lo <= w, w <= hi,
           NEW d \in Nat, NEW m \in Nat, m <= d
    PROVE  /\ d * lo <= w * d + m * (hi - w)
           /\ w * d + m * (hi - w) <= d * hi
<1>1. \A i, j \in Nat : i * j \in Nat
  OBVIOUS
<1>2. w - lo \in Nat /\ hi - w \in Nat /\ d - m \in Nat
  OBVIOUS
<1>3. d * (w - lo) \in Nat /\ m * (hi - w) \in Nat /\ (d - m) * (hi - w) \in Nat
  BY <1>1, <1>2
<1>4. d * (w - lo) = w * d - d * lo
  OBVIOUS
<1>5. (d - m) * (hi - w) = (d * hi - w * d) - m * (hi - w)
  OBVIOUS
<1>6. w * d \in Int /\ d * lo \in Int /\ d * hi \in Int /\ m * (hi - w) \in Int
  OBVIOUS
<1>7. QED
  BY <1>3, <1>4, <1>5, <1>6

(* A share lowered by a part m / d of its room stays between its bounds. *)
LEMMA GivenUp ==
    ASSUME NEW w \in Int, NEW lo \in Int, NEW hi \in Int, lo <= w, w <= hi,
           NEW d \in Nat, NEW m \in Int, m <= 0, -m <= d
    PROVE  /\ d * lo <= w * d + m * (w - lo)
           /\ w * d + m * (w - lo) <= d * hi
<1>1. \A i, j \in Nat : i * j \in Nat
  OBVIOUS
<1>2. w - lo \in Nat /\ hi - w \in Nat /\ d + m \in Nat /\ -m \in Nat
  OBVIOUS
<1>3. d * (hi - w) \in Nat /\ (-m) * (w - lo) \in Nat /\ (d + m) * (w - lo) \in Nat
  BY <1>1, <1>2
<1>4. d * (hi - w) = d * hi - w * d /\ (-m) * (w - lo) = -(m * (w - lo))
  OBVIOUS
<1>5. (d + m) * (w - lo) = (w * d - d * lo) + m * (w - lo)
  OBVIOUS
<1>6. w * d \in Int /\ d * lo \in Int /\ d * hi \in Int /\ m * (w - lo) \in Int
  OBVIOUS
<1>7. QED
  BY <1>3, <1>4, <1>5, <1>6

(* Three shares raised in proportion to their rooms are one in all. *)
LEMMA ThreeShares ==
    \A a, b, c, x, y, z, d, m, u \in Int :
       d = x + y + z /\ m = u - (a + b + c)
         => (a * d + m * x) + (b * d + m * y) + (c * d + m * z) = d * u
<1>1. TAKE a, b, c, x, y, z, d, m, u \in Int
<1>2. HAVE d = x + y + z /\ m = u - (a + b + c)
<1>3. (a * d + m * x) + (b * d + m * y) + (c * d + m * z) = (a + b + c) * d + m * (x + y + z)
  OBVIOUS
<1>4. (a + b + c) * d + m * d = ((a + b + c) + m) * d
  OBVIOUS
<1>5. (a + b + c) + m = u
  BY <1>2
<1>6. u * d = d * u
  OBVIOUS
<1>7. QED
  BY <1>2, <1>3, <1>4, <1>5, <1>6

(* What is missing is taken from the headroom, what is too much from the  *)
(* down, so that the shares add up and stay within the bounds.            *)
LEMMA RedistributeExact ==
    ASSUME NEW lo, NEW hi, Bounds(lo, hi), NEW w \in [ANALYSTS -> Int],
           \A a \in ANALYSTS : lo[a] <= w[a] /\ w[a] <= hi[a]
    PROVE  \E num, d : /\ Exact(num, d, lo, hi)
                       /\ Redistribute(w, lo, hi) = [a \in ANALYSTS |-> <<num[a], d>>]
<1>1. /\ lo \in [ANALYSTS -> Int] /\ hi \in [ANALYSTS -> Int]
      /\ Sum(lo) <= WeightUnit /\ WeightUnit <= Sum(hi)
  BY DEF Bounds
<1>2. WeightUnit \in Nat
  BY WeightsAssumption
<1>3. PICK head \in [ANALYSTS -> Int], slack \in [ANALYSTS -> Int] :
         head = [a \in ANALYSTS |-> hi[a] - w[a]] /\ slack = [a \in ANALYSTS |-> w[a] - lo[a]]
  <2>1. \A a \in ANALYSTS : hi[a] - w[a] \in Int /\ w[a] - lo[a] \in Int
    BY <1>1
  <2>2. PICK head, slack : head = [a \in ANALYSTS |-> hi[a] - w[a]] /\ slack = [a \in ANALYSTS |-> w[a] - lo[a]]
    OBVIOUS
  <2>3. head \in [ANALYSTS -> Int] /\ slack \in [ANALYSTS -> Int]
    BY <2>1, <2>2
  <2>4. QED
    BY <2>2, <2>3
<1>4. {"fundamentals", "news", "technical"} = ANALYSTS
  BY DEF ANALYSTS
<1>5. /\ Sum(w) = w["fundamentals"] + w["news"] + w["technical"]
      /\ Sum(lo) = lo["fundamentals"] + lo["news"] + lo["technical"]
      /\ Sum(hi) = hi["fundamentals"] + hi["news"] + hi["technical"]
      /\ Sum(head) = head["fundamentals"] + head["news"] + head["technical"]
      /\ Sum(slack) = slack["fundamentals"] + slack["news"] + slack["technical"]
  BY <1>1, SumOfAnalysts
<1>6. \A a \in ANALYSTS : /\ w[a] \in Int /\ lo[a] \in Int /\ hi[a] \in Int
                          /\ head[a] = hi[a] - w[a] /\ slack[a] = w[a] - lo[a]
  BY <1>1, <1>3
<1>7. Sum(head) = Sum(hi) - Sum(w) /\ Sum(slack) = Sum(w) - Sum(lo)
  BY <1>4, <1>5, <1>6
<1>8. Sum(w) \in Int /\ Sum(lo) \in Int /\ Sum(hi) \in Int /\ Sum(head) \in Int /\ Sum(slack) \in Int
  BY <1>4, <1>5, <1>6, <1>7
<1>9. PICK m \in Int : m = WeightUnit - Sum(w)
  BY <1>2, <1>8
<1>10. CASE m > 0
  <2>1. PICK d \in Nat : d = Sum(head) /\ m <= d
    BY <1>1, <1>2, <1>7, <1>8, <1>9, <1>10
  <2>2. PICK num : num = [a \in ANALYSTS |-> w[a] * d + m * head[a]]
    OBVIOUS
  <2>3. ASSUME NEW a \in ANALYSTS
        PROVE  /\ num[a] = w[a] * d + m * (hi[a] - w[a]) /\ num[a] \in Int
               /\ d * lo[a] <= num[a] /\ num[a] <= d * hi[a]
    <3>1. PICK x \in Int, l \in Int, h \in Int : x = w[a] /\ l = lo[a] /\ h = hi[a] /\ l <= x /\ x <= h
      BY <1>6
    <3>2. num[a] = x * d + m * (h - x)
      BY <1>6, <2>2, <3>1
    <3>3. x * d + m * (h - x) \in Int
      OBVIOUS
    <3>4. m \in Nat
      BY <1>10
    <3>5. d * l <= x * d + m * (h - x) /\ x * d + m * (h - x) <= d * h
      BY <2>1, <3>1, <3>4, TakenUp
    <3>6. QED
      BY <3>1, <3>2, <3>3, <3>5
  <2>4. num["fundamentals"] + num["news"] + num["technical"] = d * WeightUnit
    <3>1. PICK a \in Int, b \in Int, c \in Int, x \in Int, y \in Int, z \in Int :
            /\ a = w["fundamentals"] /\ b = w["news"] /\ c = w["technical"]
            /\ x = head["fundamentals"] /\ y = head["news"] /\ z = head["technical"]
      BY <1>4, <1>6
    <3>2. d = x + y + z /\ m = WeightUnit - (a + b + c)
      BY <1>5, <1>9, <2>1, <3>1
    <3>3. num["fundamentals"] = a * d + m * x /\ num["news"] = b * d + m * y /\ num["technical"] = c * d + m * z
      BY <1>4, <2>2, <3>1
    <3>4. (a * d + m * x) + (b * d + m * y) + (c * d + m * z) = d * WeightUnit
      BY <1>2, <3>2, ThreeShares
    <3>5. QED
      BY <3>3, <3>4
  <2>5. Exact(num, d, lo, hi)
    <3>1. num \in [ANALYSTS -> Int] /\ d \in Nat \ {0}
      BY <1>10, <2>1, <2>2, <2>3
    <3>2. QED
      BY <2>3, <2>4, <3>1 DEF Exact
  <2>6. Redistribute(w, lo, hi) = [a \in ANALYSTS |-> <<num[a], d>>]
    <3>1. Redistribute(w, lo, hi) = [a \in ANALYSTS |-> <<w[a] * d + m * head[a], d>>]
      <4>1. ~ m < 0
        BY <1>10
      <4>2. QED
        BY <1>3, <1>9, <1>10, <2>1, <4>1 DEF Redistribute
    <3>2. QED
      BY <2>2, <3>1
  <2>7. QED
    BY <2>5, <2>6
<1>11. CASE m < 0
  <2>1. PICK d \in Nat : d = Sum(slack) /\ -m <= d
    BY <1>1, <1>2, <1>7, <1>8, <1>9, <1>11
  <2>2. PICK num : num = [a \in ANALYSTS |-> w[a] * d + m * slack[a]]
    OBVIOUS
  <2>3. ASSUME NEW a \in ANALYSTS
        PROVE  /\ num[a] = w[a] * d + m * (w[a] - lo[a]) /\ num[a] \in Int
               /\ d * lo[a] <= num[a] /\ num[a] <= d * hi[a]
    <3>1. PICK x \in Int, l \in Int, h \in Int : x = w[a] /\ l = lo[a] /\ h = hi[a] /\ l <= x /\ x <= h
      BY <1>6
    <3>2. num[a] = x * d + m * (x - l)
      BY <1>6, <2>2, <3>1
    <3>3. x * d + m * (x - l) \in Int
      OBVIOUS
    <3>4. m <= 0
      BY <1>11
    <3>5. d * l <= x * d + m * (x - l) /\ x * d + m * (x - l) <= d * h
      BY <2>1, <3>1, <3>4, GivenUp
    <3>6. QED
      BY <3>1, <3>2, <3>3, <3>5
  <2>4. num["fundamentals"] + num["news"] + num["technical"] = d * WeightUnit
    <3>1. PICK a \in Int, b \in Int, c \in Int, x \in Int, y \in Int, z \in Int :
            /\ a = w["fundamentals"] /\ b = w["news"] /\ c = w["technical"]
            /\ x = slack["fundamentals"] /\ y = slack["news"] /\ z = slack["technical"]
      BY <1>4, <1>6
    <3>2. d = x + y + z /\ m = WeightUnit - (a + b + c)
      BY <1>5, <1>9, <2>1, <3>1
    <3>3. num["fundamentals"] = a * d + m * x /\ num["news"] = b * d + m * y /\ num["technical"] = c * d + m * z
      BY <1>4, <2>2, <3>1
    <3>4. (a * d + m * x) + (b * d + m * y) + (c * d + m * z) = d * WeightUnit
      BY <1>2, <3>2, ThreeShares
    <3>5. QED
      BY <3>3, <3>4
  <2>5. Exact(num, d, lo, hi)
    <3>1. num \in [ANALYSTS -> Int] /\ d \in Nat \ {0}
      BY <1>11, <2>1, <2>2, <2>3
    <3>2. QED
      BY <2>3, <2>4, <3>1 DEF Exact
  <2>6. Redistribute(w, lo, hi) = [a \in ANALYSTS |-> <<num[a], d>>]
    BY <1>3, <1>9, <1>11, <2>1, <2>2 DEF Redistribute
  <2>7. QED
    BY <2>5, <2>6
<1>12. CASE m = 0
  <2>1. Redistribute(w, lo, hi) = [a \in ANALYSTS |-> <<w[a], 1>>]
    BY <1>9, <1>12 DEF Redistribute
  <2>2. Exact(w, 1, lo, hi)
    <3>1. \A a \in ANALYSTS : 1 * lo[a] <= w[a] /\ w[a] <= 1 * hi[a]
      BY <1>6
    <3>2. w["fundamentals"] + w["news"] + w["technical"] = 1 * WeightUnit
      BY <1>2, <1>5, <1>8, <1>9, <1>12
    <3>3. QED
      BY <3>1, <3>2 DEF Exact
  <2>3. QED
    BY <2>1, <2>2
<1>13. QED
  BY <1>10, <1>11, <1>12

(* Rounding to the nearest keeps between whole bounds and moves by half a *)
(* unit at most. *)
LEMMA RoundedBetween ==
    ASSUME NEW n \in Int, NEW d \in Nat \ {0}, NEW lo \in Int, NEW hi \in Int, d * lo <= n, n <= d * hi,
           NEW r, r = (2 * n + d) \div (2 * d)
    PROVE  /\ r \in Int /\ lo <= r /\ r <= hi
           /\ d * (2 * r) <= 2 * n + d /\ 2 * n < d * (2 * r) + d
<1>1. PICK m \in Int, e \in Nat \ {0} : m = 2 * n + d /\ e = 2 * d
  OBVIOUS
<1>2. PICK q \in Int : q = m \div e
  OBVIOUS
<1>3. e * q <= m /\ m < e * q + e
  BY <1>2
<1>4. r = q
  BY <1>1, <1>2
<1>5. e * q = d * (2 * q)
  BY <1>1
<1>6. PICK p \in Int : p = d * (2 * q)
  OBVIOUS
<1>7. p <= 2 * n + d /\ 2 * n < p + d
  BY <1>1, <1>3, <1>5, <1>6
<1>8. lo <= q
  <2>1. SUFFICES ASSUME ~ lo <= q PROVE FALSE
    OBVIOUS
  <2>2. d * (2 * (lo - q) - 1) >= 0
    <3>1. 2 * (lo - q) - 1 \in Nat
      BY <2>1
    <3>2. QED
      BY <3>1, SignOfProduct
  <2>3. d * (2 * (lo - q) - 1) = 2 * (d * lo) - p - d
    BY <1>6
  <2>4. PICK k \in Int : k = d * lo
    OBVIOUS
  <2>5. QED
    BY <1>7, <2>2, <2>3, <2>4
<1>9. q <= hi
  <2>1. SUFFICES ASSUME ~ q <= hi PROVE FALSE
    OBVIOUS
  <2>2. 2 * (q - hi) - 2 \in Nat
    BY <2>1
  <2>3. d * (2 * (q - hi) - 2) >= 0
    BY <2>2, SignOfProduct
  <2>4. d * (2 * (q - hi) - 2) = p - 2 * (d * hi) - 2 * d
    BY <1>6
  <2>5. PICK k \in Int : k = d * hi
    OBVIOUS
  <2>6. QED
    BY <1>7, <2>3, <2>4, <2>5
<1>10. QED
  BY <1>4, <1>6, <1>7, <1>8, <1>9

(* The three rounded weights miss the unit by one at most. *)
LEMMA ResidualSmall ==
    ASSUME NEW d \in Nat \ {0}, NEW u \in Nat, NEW i \in Int, NEW j \in Int, NEW k \in Int, i + j + k = d * u,
           NEW x \in Int, NEW y \in Int, NEW z \in Int,
           d * (2 * x) <= 2 * i + d, 2 * i < d * (2 * x) + d,
           d * (2 * y) <= 2 * j + d, 2 * j < d * (2 * y) + d,
           d * (2 * z) <= 2 * k + d, 2 * k < d * (2 * z) + d
    PROVE  u - (x + y + z) \in {-1, 0, 1}
<1>1. PICK a \in Int, b \in Int, c \in Int, v \in Int :
         a = d * (2 * x) /\ b = d * (2 * y) /\ c = d * (2 * z) /\ v = d * u
  OBVIOUS
<1>2. a + b + c <= 2 * v + 3 * d /\ 2 * v < a + b + c + 3 * d
  BY <1>1
<1>3. PICK t \in Int : t = u - (x + y + z)
  OBVIOUS
<1>4. d * (2 * t) = 2 * v - (a + b + c)
  <2>1. d * (2 * t) = 2 * (d * u) - (d * (2 * x) + d * (2 * y) + d * (2 * z))
    BY <1>3
  <2>2. QED
    BY <1>1, <2>1
<1>5. PICK w \in Int : w = d * (2 * t)
  OBVIOUS
<1>6. w >= -(3 * d) /\ w < 3 * d
  BY <1>2, <1>4, <1>5
<1>7. t <= 1
  <2>1. SUFFICES ASSUME ~ t <= 1 PROVE FALSE
    OBVIOUS
  <2>2. 2 * t - 4 \in Nat
    BY <2>1
  <2>3. d * (2 * t - 4) >= 0
    BY <2>2, SignOfProduct
  <2>4. d * (2 * t - 4) = w - 4 * d
    BY <1>5
  <2>5. QED
    BY <1>6, <2>3, <2>4
<1>8. t >= -1
  <2>1. SUFFICES ASSUME ~ t >= -1 PROVE FALSE
    OBVIOUS
  <2>2. -4 - 2 * t \in Nat
    BY <2>1
  <2>3. d * (-4 - 2 * t) >= 0
    BY <2>2, SignOfProduct
  <2>4. d * (-4 - 2 * t) = -(4 * d) - w
    BY <1>5
  <2>5. QED
    BY <1>6, <2>3, <2>4
<1>9. QED
  BY <1>3, <1>7, <1>8

(* The analyst that takes the residual of the rounding. *)
Largest(rounded, a) ==
    \A b \in ANALYSTS \ {a} : \/ rounded[a] > rounded[b]
                              \/ (rounded[a] = rounded[b] /\ Place[a] < Place[b])

TakerOf(rounded) == CHOOSE a \in ANALYSTS : Largest(rounded, a)

(* There is one whose share is the largest. *)
LEMMA LargestExists ==
    ASSUME NEW rounded \in [ANALYSTS -> Int]
    PROVE  \E a \in ANALYSTS : Largest(rounded, a)
<1>1. PICK x \in Int, y \in Int, z \in Int :
        x = rounded["fundamentals"] /\ y = rounded["news"] /\ z = rounded["technical"]
  BY DEF ANALYSTS
<1>2. Place["fundamentals"] = 1 /\ Place["news"] = 2 /\ Place["technical"] = 3
  BY DEF Place
<1>3. /\ "fundamentals" \in ANALYSTS /\ "news" \in ANALYSTS /\ "technical" \in ANALYSTS
      /\ \A a \in ANALYSTS : a = "fundamentals" \/ a = "news" \/ a = "technical"
  BY DEF ANALYSTS
<1>4. CASE x >= y /\ x >= z
  BY <1>1, <1>2, <1>3, <1>4 DEF Largest
<1>5. CASE ~ x >= y /\ y >= z
  <2>1. Largest(rounded, "news")
    BY <1>1, <1>2, <1>3, <1>5 DEF Largest
  <2>2. QED
    BY <1>3, <2>1
<1>6. CASE ~ x >= z /\ ~ y >= z
  <2>1. Largest(rounded, "technical")
    BY <1>1, <1>2, <1>3, <1>6 DEF Largest
  <2>2. QED
    BY <1>3, <2>1
<1>7. QED
  BY <1>4, <1>5, <1>6

(* A distribution above the floor of which at most one weight is one off *)
(* its bounds. *)
Distribution(w, lo, hi, floor) ==
    /\ w \in [ANALYSTS -> Int] /\ Sum(w) = WeightUnit
    /\ \A a \in ANALYSTS : floor <= w[a]
    /\ \E taker \in ANALYSTS :
          /\ lo[taker] - 1 <= w[taker] /\ w[taker] <= hi[taker] + 1
          /\ \A a \in ANALYSTS \ {taker} : lo[a] <= w[a] /\ w[a] <= hi[a]

(* Rounding gives a distribution again: every weight is within its bounds, *)
(* but for the largest, which may be one off, and never below the least    *)
(* bound of all.                                                           *)
LEMMA RoundExactSound ==
    ASSUME NEW num, NEW d, NEW lo, NEW hi, Bounds(lo, hi), Exact(num, d, lo, hi),
           NEW floor \in Int, \A a \in ANALYSTS : floor <= lo[a], 3 * floor <= WeightUnit,
           NEW shares, shares = [a \in ANALYSTS |-> <<num[a], d>>], NEW w, w = RoundExact(shares)
    PROVE  Distribution(w, lo, hi, floor)
<1>1. /\ d \in Nat \ {0} /\ num \in [ANALYSTS -> Int]
      /\ \A a \in ANALYSTS : d * lo[a] <= num[a] /\ num[a] <= d * hi[a]
      /\ num["fundamentals"] + num["news"] + num["technical"] = d * WeightUnit
  BY DEF Exact
<1>2. lo \in [ANALYSTS -> Int] /\ hi \in [ANALYSTS -> Int]
  BY DEF Bounds
<1>3. PICK u \in Nat : u = WeightUnit
  BY WeightsAssumption
<1>5. PICK rounded : rounded = [a \in ANALYSTS |-> (2 * shares[a][1] + shares[a][2]) \div (2 * shares[a][2])]
  OBVIOUS
<1>6. ASSUME NEW a \in ANALYSTS
      PROVE  /\ rounded[a] \in Int /\ lo[a] <= rounded[a] /\ rounded[a] <= hi[a]
             /\ d * (2 * rounded[a]) <= 2 * num[a] + d /\ 2 * num[a] < d * (2 * rounded[a]) + d
  <2>1. PICK n \in Int, l \in Int, h \in Int : n = num[a] /\ l = lo[a] /\ h = hi[a]
    BY <1>1, <1>2
  <2>2. rounded[a] = (2 * n + d) \div (2 * d)
    <3>1. PICK s : s = <<n, d>>
      OBVIOUS
    <3>2. s[1] = n /\ s[2] = d
      BY <3>1
    <3>3. shares[a] = s
      BY <2>1, <3>1
    <3>4. QED
      BY <1>5, <3>2, <3>3
  <2>3. d * l <= n /\ n <= d * h
    BY <1>1, <2>1
  <2>4. PICK r : r = (2 * n + d) \div (2 * d)
    OBVIOUS
  <2>5. /\ r \in Int /\ l <= r /\ r <= h
        /\ d * (2 * r) <= 2 * n + d /\ 2 * n < d * (2 * r) + d
    <3>1. d \in Nat \ {0}
      BY <1>1
    <3>2. QED
      BY <2>3, <2>4, <3>1, RoundedBetween
  <2>6. QED
    BY <2>1, <2>2, <2>4, <2>5
<1>7. rounded \in [ANALYSTS -> Int]
  BY <1>5, <1>6
<1>8. PICK t : t = TakerOf(rounded)
  OBVIOUS
<1>9. t \in ANALYSTS /\ Largest(rounded, t)
  BY <1>7, <1>8, LargestExists DEF TakerOf
<1>10. w = [rounded EXCEPT ![t] = @ + WeightUnit - Sum(rounded)]
  <2> DEFINE r == [a \in ANALYSTS |-> (2 * shares[a][1] + shares[a][2]) \div (2 * shares[a][2])]
  <2>1. RoundExact(shares) = [r EXCEPT ![TakerOf(r)] = @ + WeightUnit - Sum(r)]
    BY DEF RoundExact, TakerOf, Largest
  <2>2. r = rounded
    BY <1>5
  <2> HIDE DEF r
  <2>4. QED
    BY <1>8, <2>1, <2>2
<1>11. /\ "fundamentals" \in ANALYSTS /\ "news" \in ANALYSTS /\ "technical" \in ANALYSTS
       /\ \A a \in ANALYSTS : a = "fundamentals" \/ a = "news" \/ a = "technical"
  BY DEF ANALYSTS
<1>12. PICK x \in Int, y \in Int, z \in Int :
         x = rounded["fundamentals"] /\ y = rounded["news"] /\ z = rounded["technical"]
  BY <1>7, <1>11
<1>13. Sum(rounded) = x + y + z
  BY <1>7, <1>12, SumOfAnalysts
<1>14. PICK e \in Int : e = u - (x + y + z)
  OBVIOUS
<1>15. e \in {-1, 0, 1}
  <2>1. PICK i \in Int, j \in Int, k \in Int :
          i = num["fundamentals"] /\ j = num["news"] /\ k = num["technical"]
    BY <1>1, <1>11
  <2>2. i + j + k = d * u
    BY <1>1, <1>3, <2>1
  <2>3. /\ d * (2 * x) <= 2 * i + d /\ 2 * i < d * (2 * x) + d
        /\ d * (2 * y) <= 2 * j + d /\ 2 * j < d * (2 * y) + d
        /\ d * (2 * z) <= 2 * k + d /\ 2 * k < d * (2 * z) + d
    BY <1>6, <1>11, <1>12, <2>1
  <2>4. u - (x + y + z) \in {-1, 0, 1}
    BY <1>1, <2>2, <2>3, ResidualSmall
  <2>5. QED
    BY <1>14, <2>4
<1>16. /\ w \in [ANALYSTS -> Int] /\ w[t] = rounded[t] + e
       /\ \A a \in ANALYSTS \ {t} : w[a] = rounded[a]
  <2>1. rounded[t] \in Int
    BY <1>7, <1>9
  <2>2. rounded[t] + WeightUnit - Sum(rounded) = rounded[t] + e
    BY <1>3, <1>13, <1>14, <2>1
  <2>3. rounded[t] + e \in Int
    BY <2>1
  <2>4. QED
    BY <1>7, <1>9, <1>10, <2>2, <2>3
<1>17. Sum(w) = WeightUnit
  <2>1. Sum(w) = w["fundamentals"] + w["news"] + w["technical"]
    BY <1>16, SumOfAnalysts
  <2>2. t = "fundamentals" \/ t = "news" \/ t = "technical"
    BY <1>9, <1>11
  <2>3. CASE t = "fundamentals"
    BY <1>3, <1>11, <1>12, <1>14, <1>16, <2>1, <2>3
  <2>4. CASE t = "news"
    BY <1>3, <1>11, <1>12, <1>14, <1>16, <2>1, <2>4
  <2>5. CASE t = "technical"
    BY <1>3, <1>11, <1>12, <1>14, <1>16, <2>1, <2>5
  <2>6. QED
    BY <2>2, <2>3, <2>4, <2>5
<1>18. \A a \in ANALYSTS : floor <= rounded[a]
  BY <1>2, <1>6
<1>19. floor <= w[t]
  <2>1. PICK q \in Int : q = rounded[t] /\ floor <= q
    BY <1>7, <1>9, <1>18
  <2>2. CASE e # -1
    BY <1>15, <1>16, <2>1, <2>2
  <2>3. CASE e = -1
    <3>1. x <= q /\ y <= q /\ z <= q
      <4>1. \A a \in ANALYSTS : rounded[a] <= q
        BY <1>7, <1>9, <2>1 DEF Largest
      <4>2. QED
        BY <1>11, <1>12, <4>1
    <3>2. x + y + z = u + 1 /\ 3 * floor <= u
      BY <1>3, <1>14, <2>3
    <3>3. q > floor
      BY <3>1, <3>2
    <3>4. QED
      BY <1>16, <2>1, <2>3, <3>3
  <2>4. QED
    BY <2>2, <2>3
<1>20. \A a \in ANALYSTS : floor <= w[a]
  BY <1>16, <1>18, <1>19
<1>21. lo[t] - 1 <= w[t] /\ w[t] <= hi[t] + 1
  <2>1. PICK q \in Int, l \in Int, h \in Int : q = rounded[t] /\ l = lo[t] /\ h = hi[t] /\ l <= q /\ q <= h
    BY <1>2, <1>6, <1>9
  <2>2. QED
    BY <1>15, <1>16, <2>1
<1>22. \A a \in ANALYSTS \ {t} : lo[a] <= w[a] /\ w[a] <= hi[a]
  BY <1>6, <1>16
<1>23. QED
  BY <1>9, <1>16, <1>17, <1>20, <1>21, <1>22 DEF Distribution

(* The weights of a week sum to one, keep the floor and, as long as the    *)
(* bounds of the week can be met, move no further than they allow but for  *)
(* the unit that rounding leaves (adaptive_weights.py project_weights).    *)
THEOREM ProjectionSound ==
    ASSUME NEW target \in [ANALYSTS -> Int], NEW prev \in [ANALYSTS -> Int]
    PROVE  MovesSlowly(target, prev)
<1>1. /\ WeightUnit \in Nat /\ MaxShift \in Nat /\ WeightFloor \in Nat /\ WeightFloor <= WeightUnit
      /\ 3 * WeightFloor <= WeightUnit
  BY WeightsAssumption
<1>2. PICK lo : lo = IF Feasible(prev) THEN Lowest(prev) ELSE [a \in ANALYSTS |-> WeightFloor]
  OBVIOUS
<1>3. PICK hi : hi = IF Feasible(prev) THEN Highest(prev) ELSE [a \in ANALYSTS |-> WeightUnit]
  OBVIOUS
<1>4. \A a \in ANALYSTS : /\ Lowest(prev)[a] \in Int /\ Lowest(prev)[a] >= WeightFloor
                          /\ Lowest(prev)[a] >= prev[a] - MaxShift
                          /\ Highest(prev)[a] = prev[a] + MaxShift /\ Highest(prev)[a] \in Int
  <2>1. SUFFICES ASSUME NEW a \in ANALYSTS
                 PROVE  /\ Lowest(prev)[a] \in Int /\ Lowest(prev)[a] >= WeightFloor
                        /\ Lowest(prev)[a] >= prev[a] - MaxShift
                        /\ Highest(prev)[a] = prev[a] + MaxShift /\ Highest(prev)[a] \in Int
    OBVIOUS
  <2>2. PICK p \in Int : p = prev[a] - MaxShift
    BY <1>1
  <2>3. PICK pair : pair = {WeightFloor, p}
    OBVIOUS
  <2>4. pair \in SUBSET Int /\ pair # {} /\ IsFiniteSet(pair)
    <3>1. IsFiniteSet({WeightFloor}) /\ IsFiniteSet({p})
      BY FS_Singleton
    <3>2. IsFiniteSet({WeightFloor} \cup {p})
      BY <3>1, FS_Union
    <3>3. {WeightFloor} \cup {p} = pair
      BY <2>3
    <3>4. QED
      BY <1>1, <2>3, <3>2, <3>3
  <2>5. Max(pair) \in Int /\ Max(pair) >= WeightFloor /\ Max(pair) >= p
    BY <2>3, <2>4, MaxInSet
  <2>6. Lowest(prev)[a] = Max(pair)
    BY <2>2, <2>3 DEF Lowest
  <2>7. QED
    BY <1>1, <2>2, <2>5, <2>6 DEF Highest
<1>5. Bounds(lo, hi) /\ \A a \in ANALYSTS : WeightFloor <= lo[a]
  <2>1. CASE Feasible(prev)
    <3>1. lo = Lowest(prev) /\ hi = Highest(prev)
      BY <1>2, <1>3, <2>1
    <3>2. Lowest(prev) \in [ANALYSTS -> Int] /\ Highest(prev) \in [ANALYSTS -> Int]
      BY <1>4 DEF Lowest, Highest
    <3>3. /\ Sum(Lowest(prev)) <= WeightUnit
          /\ Sum(Highest(prev)) >= WeightUnit
          /\ \A a \in ANALYSTS : Lowest(prev)[a] <= Highest(prev)[a]
      BY <2>1 DEF Feasible
    <3>4. Sum(Highest(prev)) \in Int
      <4>1. /\ "fundamentals" \in ANALYSTS /\ "news" \in ANALYSTS /\ "technical" \in ANALYSTS
        BY DEF ANALYSTS
      <4>2. QED
        BY <3>2, <4>1, SumOfAnalysts
    <3>5. WeightUnit <= Sum(Highest(prev))
      BY <1>1, <3>3, <3>4
    <3>6. \A a \in ANALYSTS : WeightFloor <= Lowest(prev)[a]
      BY <1>1, <1>4
    <3>7. QED
      BY <3>1, <3>2, <3>3, <3>5, <3>6 DEF Bounds
  <2>2. CASE ~ Feasible(prev)
    <3>1. lo = [a \in ANALYSTS |-> WeightFloor] /\ hi = [a \in ANALYSTS |-> WeightUnit]
      BY <1>2, <1>3, <2>2
    <3>2. lo \in [ANALYSTS -> Int] /\ hi \in [ANALYSTS -> Int]
      BY <1>1, <3>1
    <3>3. /\ "fundamentals" \in ANALYSTS /\ "news" \in ANALYSTS /\ "technical" \in ANALYSTS
      BY DEF ANALYSTS
    <3>4. Sum(lo) = WeightFloor + WeightFloor + WeightFloor /\ Sum(hi) = WeightUnit + WeightUnit + WeightUnit
      BY <3>1, <3>2, <3>3, SumOfAnalysts
    <3>5. Sum(lo) <= WeightUnit /\ WeightUnit <= Sum(hi)
      BY <1>1, <3>4
    <3>6. \A a \in ANALYSTS : lo[a] <= hi[a] /\ WeightFloor <= lo[a]
      BY <1>1, <3>1
    <3>7. QED
      BY <3>2, <3>5, <3>6 DEF Bounds
  <2>3. QED
    BY <2>1, <2>2
<1>6. lo \in [ANALYSTS -> Int] /\ hi \in [ANALYSTS -> Int] /\ \A a \in ANALYSTS : lo[a] <= hi[a]
  BY <1>5 DEF Bounds
<1>7. PICK c : c = [a \in ANALYSTS |-> Clip(target[a], lo[a], hi[a])]
  OBVIOUS
<1>8. c \in [ANALYSTS -> Int] /\ \A a \in ANALYSTS : lo[a] <= c[a] /\ c[a] <= hi[a]
  <2>1. ASSUME NEW a \in ANALYSTS PROVE c[a] \in Int /\ lo[a] <= c[a] /\ c[a] <= hi[a]
    <3>1. target[a] \in Int /\ lo[a] \in Int /\ hi[a] \in Int /\ lo[a] <= hi[a]
      BY <1>6
    <3>2. QED
      BY <1>7, <3>1, ClipBetween
  <2>2. QED
    BY <1>7, <2>1
<1>9. PICK num, d : /\ Exact(num, d, lo, hi)
                    /\ Redistribute(c, lo, hi) = [a \in ANALYSTS |-> <<num[a], d>>]
  BY <1>5, <1>8, RedistributeExact
<1>10. PICK w : w = ProjectWeights(target, prev)
  OBVIOUS
<1>11. PICK shares : shares = [a \in ANALYSTS |-> <<num[a], d>>] /\ w = RoundExact(shares)
  <2>1. ProjectWeights(target, prev) = RoundExact(Redistribute(c, lo, hi))
    BY <1>2, <1>3, <1>7 DEF ProjectWeights
  <2>2. QED
    BY <1>9, <1>10, <2>1
<1>12. /\ w \in [ANALYSTS -> Int] /\ Sum(w) = WeightUnit
       /\ \A a \in ANALYSTS : WeightFloor <= w[a]
       /\ \E taker \in ANALYSTS :
             /\ lo[taker] - 1 <= w[taker] /\ w[taker] <= hi[taker] + 1
             /\ \A a \in ANALYSTS \ {taker} : lo[a] <= w[a] /\ w[a] <= hi[a]
  <2>1. WeightFloor \in Int
    BY <1>1
  <2>2. Distribution(w, lo, hi, WeightFloor)
    <3>1. Bounds(lo, hi) /\ (\A a \in ANALYSTS : WeightFloor <= lo[a]) /\ 3 * WeightFloor <= WeightUnit
      BY <1>1, <1>5
    <3>2. Exact(num, d, lo, hi)
      BY <1>9
    <3>3. QED
      BY <1>11, <2>1, <3>1, <3>2, RoundExactSound
  <2>3. QED
    BY <2>2 DEF Distribution
<1>13. \A a \in ANALYSTS : w[a] >= WeightFloor
  BY <1>1, <1>12
<1>14. ASSUME Feasible(prev)
       PROVE  \E taker \in ANALYSTS :
                 /\ w[taker] - prev[taker] \in -(MaxShift + 1) .. MaxShift + 1
                 /\ \A a \in ANALYSTS \ {taker} : w[a] - prev[a] \in -MaxShift .. MaxShift
  <2>1. PICK taker \in ANALYSTS : /\ lo[taker] - 1 <= w[taker] /\ w[taker] <= hi[taker] + 1
                                  /\ \A a \in ANALYSTS \ {taker} : lo[a] <= w[a] /\ w[a] <= hi[a]
    BY <1>12
  <2>2. lo = Lowest(prev) /\ hi = Highest(prev)
    BY <1>2, <1>3, <1>14
  <2>3. ASSUME NEW a \in ANALYSTS
        PROVE  /\ w[a] \in Int /\ prev[a] \in Int /\ lo[a] \in Int /\ hi[a] = prev[a] + MaxShift
               /\ lo[a] >= prev[a] - MaxShift
    BY <1>4, <1>12, <2>2
  <2>4. w[taker] - prev[taker] \in -(MaxShift + 1) .. MaxShift + 1
    BY <1>1, <2>1, <2>3
  <2>5. ASSUME NEW a \in ANALYSTS \ {taker} PROVE w[a] - prev[a] \in -MaxShift .. MaxShift
    <3>1. lo[a] <= w[a] /\ w[a] <= hi[a]
      BY <2>1
    <3>2. QED
      BY <1>1, <2>3, <3>1
  <2>6. QED
    BY <2>4, <2>5
<1>15. QED
  BY <1>10, <1>12, <1>13, <1>14 DEF MovesSlowly

(* A case of a book keeps its part of the property. *)
LEMMA BookCase ==
    ASSUME NEW conviction \in [1 .. 4 -> {0, 10, 30, 60, 90}], NEW held
    PROVE  WithinLimits([s \in 1 .. 4 |-> [score |-> conviction[s], conviction |-> conviction[s]]], held)
<1>1. PICK scores : scores = [s \in 1 .. 4 |-> [score |-> conviction[s], conviction |-> conviction[s]]]
  OBVIOUS
<1>2. PICK X : X = 1 .. 4
  OBVIOUS
<1>3. IsFiniteSet(X) /\ Cardinality(X) = 4 /\ X \subseteq Int
  <2>1. 1 \in Int /\ 4 \in Int
    OBVIOUS
  <2>2. IsFiniteSet(1 .. 4) /\ Cardinality(1 .. 4) = IF 1 > 4 THEN 0 ELSE 4 - 1 + 1
    BY <2>1, FS_Interval
  <2>3. QED
    BY <1>2, <2>2
<1>4. DOMAIN scores = X /\ \A s \in X : scores[s].conviction \in Nat
  BY <1>1, <1>2
<1>5. ScoreBook(scores)
  BY <1>3, <1>4 DEF ScoreBook
<1>6. Cardinality(Selected(scores, held)) <= 10
  <2>1. PICK chosen : chosen = Selected(scores, held)
    OBVIOUS
  <2>2. chosen \in SUBSET X /\ IsFiniteSet(chosen)
    BY <1>4, <1>5, <2>1, SelectedFew
  <2>3. Cardinality(chosen) <= 4 /\ Cardinality(chosen) \in Nat
    <3>1. IsFiniteSet(X) /\ Cardinality(X) = 4
      BY <1>3
    <3>2. Cardinality(chosen) <= Cardinality(X)
      BY <2>2, <3>1, FS_Subset
    <3>3. QED
      BY <2>2, <3>1, <3>2, FS_CardinalityType
  <2>4. QED
    BY <2>1, <2>3
<1>7. QED
  BY <1>1, <1>5, <1>6, BooksWithinLimits

(* A case of a basket keeps its part of the property. *)
LEMMA BasketCase ==
    ASSUME NEW weights \in [1 .. 3 -> 1 .. 3], NEW returns \in [1 .. 3 -> KnownOrNot]
    PROVE  IsAverage(weights, returns)
<1>1. PICK X : X = 1 .. 3
  OBVIOUS
<1>2. IsFiniteSet(X) /\ DOMAIN weights = X
  <2>1. 1 \in Int /\ 3 \in Int
    OBVIOUS
  <2>2. QED
    BY <1>1, <2>1, FS_Interval
<1>3. \A s \in X : weights[s] \in Nat /\ weights[s] > 0
  BY <1>1
<1>4. \A s \in X : Return(returns[s])
  <2>1. SUFFICES ASSUME NEW s \in X PROVE Return(returns[s])
    OBVIOUS
  <2>2. -10 \in Int /\ 0 \in Int /\ 25 \in Int
    OBVIOUS
  <2>3. returns[s] \in KnownOrNot
    BY <1>1
  <2>4. QED
    BY <2>2, <2>3 DEF KnownOrNot, Return
<1>5. CASE Priced(weights, returns) = {}
  BY <1>5 DEF IsAverage
<1>6. CASE Priced(weights, returns) # {}
  <2>1. Priced(weights, returns) \subseteq X
    BY <1>2 DEF Priced
  <2>2. \E s \in Priced(weights, returns) : weights[s] > 0
    BY <1>3, <1>6, <2>1
  <2>3. QED
    BY <1>2, <1>3, <1>4, <2>2, BasketAverages
<1>7. QED
  BY <1>5, <1>6

(* The weights a decision uses and the measure it is judged by keep their  *)
(* bounds (adaptive_weights.py, portfolio_manager.py, attribution.py), for *)
(* all values of the configuration.                                        *)
THEOREM WeightsStayBounded == Cases => []WeightsSound
<1>1. NoCase => WeightsSound
  BY DEF NoCase, WeightsSound, WeightsMoveSlowly, BookWithinLimits, BasketIsAnAverage, CorrelationSound, Topic
<1>2. WeightsSound /\ [PickCase]_case => WeightsSound'
  <2>1. CASE UNCHANGED case
    BY <2>1 DEF WeightsSound, WeightsMoveSlowly, BookWithinLimits, BasketIsAnAverage, CorrelationSound, Topic
  <2>2. CASE PickWeights
    <3>1. PICK target \in [ANALYSTS -> {1, 2, 3, 4, 7, 11, 15}], prev \in [ANALYSTS -> {1, 2, 4, 7, 11, 15, 18}] :
             case' = [topic |-> "weights", target |-> target, prev |-> prev]
      BY <2>2 DEF PickWeights
    <3>2. case'.topic = "weights" /\ case'.target = target /\ case'.prev = prev
      BY <3>1
    <3>3. target \in [ANALYSTS -> Int] /\ prev \in [ANALYSTS -> Int]
      OBVIOUS
    <3>4. MovesSlowly(target, prev)
      BY <3>3, ProjectionSound
    <3>5. WeightsMoveSlowly'
      BY <3>2, <3>4 DEF WeightsMoveSlowly
    <3>6. (BookWithinLimits /\ BasketIsAnAverage /\ CorrelationSound)'
      BY <3>2 DEF BookWithinLimits, BasketIsAnAverage, CorrelationSound, Topic
    <3>7. QED
      BY <3>5, <3>6 DEF WeightsSound
  <2>3. CASE PickBook
    <3>1. PICK conviction \in [1 .. 4 -> {0, 10, 30, 60, 90}], held \in SUBSET (1 .. 4) :
             case' = [topic |-> "book", conviction |-> conviction, held |-> held]
      BY <2>3 DEF PickBook
    <3>2. case'.topic = "book" /\ case'.conviction = conviction /\ case'.held = held
      BY <3>1
    <3>3. WithinLimits([s \in 1 .. 4 |-> [score |-> conviction[s], conviction |-> conviction[s]]], held)
      BY BookCase
    <3>4. BookWithinLimits'
      BY <3>2, <3>3 DEF BookWithinLimits
    <3>5. (WeightsMoveSlowly /\ BasketIsAnAverage /\ CorrelationSound)'
      BY <3>2 DEF WeightsMoveSlowly, BasketIsAnAverage, CorrelationSound, Topic
    <3>6. QED
      BY <3>4, <3>5 DEF WeightsSound
  <2>4. CASE PickBasket
    <3>1. PICK weights \in [1 .. 3 -> 1 .. 3], returns \in [1 .. 3 -> KnownOrNot] :
             case' = [topic |-> "basket", weights |-> weights, returns |-> returns]
      BY <2>4 DEF PickBasket
    <3>2. case'.topic = "basket" /\ case'.weights = weights /\ case'.returns = returns
      BY <3>1
    <3>3. IsAverage(weights, returns)
      BY BasketCase
    <3>4. BasketIsAnAverage'
      BY <3>2, <3>3 DEF BasketIsAnAverage
    <3>5. (WeightsMoveSlowly /\ BookWithinLimits /\ CorrelationSound)'
      BY <3>2 DEF WeightsMoveSlowly, BookWithinLimits, CorrelationSound, Topic
    <3>6. QED
      BY <3>4, <3>5 DEF WeightsSound
  <2>5. CASE PickCorrelation
    <3>1. PICK scores \in [1 .. (Depth - 1) -> 1 .. 3], returns \in [1 .. (Depth - 1) -> 1 .. 3] :
             case' = [topic |-> "correlation", scores |-> scores, returns |-> returns]
      BY <2>5 DEF PickCorrelation
    <3>2. case'.topic = "correlation" /\ case'.scores = scores /\ case'.returns = returns
      BY <3>1
    <3>3. PICK n \in Nat : n = Depth - 1
      BY CasesAssumption
    <3>4. scores \in [1 .. n -> Int] /\ returns \in [1 .. n -> Int]
      BY <3>3
    <3>5. Correlates(scores, returns)
      BY <3>4, CorrelationsBounded
    <3>6. CorrelationSound'
      BY <3>2, <3>5 DEF CorrelationSound
    <3>7. (WeightsMoveSlowly /\ BookWithinLimits /\ BasketIsAnAverage)'
      BY <3>2 DEF WeightsMoveSlowly, BookWithinLimits, BasketIsAnAverage, Topic
    <3>8. QED
      BY <3>6, <3>7 DEF WeightsSound
  <2>6. ASSUME case'.topic \notin {"weights", "book", "basket", "correlation"} PROVE WeightsSound'
    BY <2>6 DEF WeightsSound, WeightsMoveSlowly, BookWithinLimits, BasketIsAnAverage, CorrelationSound, Topic
  <2>7. ASSUME PickScreen \/ PickUniverse \/ PickFilings \/ PickScores \/ PickAnswer \/ PickNews \/ PickRules
               \/ PickRuns \/ PickNavs \/ PickTrips \/ PickProbes \/ PickCalendar
        PROVE  case'.topic \notin {"weights", "book", "basket", "correlation"}
    <3>1. CASE PickScreen
      BY <3>1 DEF PickScreen
    <3>2. CASE PickUniverse
      <4>1. PICK dates \in SUBSET Reports : \E snapshots \in [dates -> Lists], asOf \in {15, 20, 25, 40} :
               case' = [topic |-> "universe", snapshots |-> snapshots, day |-> asOf]
        BY <3>2 DEF PickUniverse
      <4>2. QED
        BY <4>1
    <3>3. CASE PickFilings
      BY <3>3 DEF PickFilings
    <3>4. CASE PickScores
      BY <3>4 DEF PickScores
    <3>5. CASE PickAnswer
      BY <3>5 DEF PickAnswer
    <3>6. CASE PickNews
      BY <3>6 DEF PickNews
    <3>7. CASE PickRules
      BY <3>7 DEF PickRules
    <3>8. CASE PickRuns
      BY <3>8 DEF PickRuns
    <3>9. CASE PickNavs
      BY <3>9 DEF PickNavs
    <3>10. CASE PickTrips
      BY <3>10 DEF PickTrips
    <3>11. CASE PickProbes
      BY <3>11 DEF PickProbes
    <3>12. CASE PickCalendar
      BY <3>12 DEF PickCalendar
    <3>13. QED
      BY <2>7, <3>1, <3>2, <3>3, <3>4, <3>5, <3>6, <3>7, <3>8, <3>9, <3>10, <3>11, <3>12
  <2>8. QED
    BY <2>1, <2>2, <2>3, <2>4, <2>5, <2>6, <2>7 DEF PickCase
<1>3. QED
  BY <1>1, <1>2, PTL DEF Cases
-----------------------------------------------------------------------------
(* Scores, deciles and ranks *)

(* The greater and the lesser of two numbers. *)
LEMMA OfTwo ==
    ASSUME NEW i \in Int, NEW j \in Int
    PROVE  /\ Max({i, j}) = IF i >= j THEN i ELSE j
           /\ Min({i, j}) = IF i <= j THEN i ELSE j
<1>1. PICK pair \in SUBSET Int : pair = {i, j}
  OBVIOUS
<1>2. IsFiniteSet({i} \cup {j})
  <2>1. IsFiniteSet({i}) /\ IsFiniteSet({j})
    BY FS_Singleton
  <2>2. QED
    BY <2>1, FS_Union
<1>3. {i} \cup {j} = pair /\ pair # {}
  BY <1>1
<1>4. IsFiniteSet(pair)
  BY <1>2, <1>3
<1>5. /\ Max(pair) \in pair /\ \A y \in pair : Max(pair) >= y
      /\ Min(pair) \in pair /\ \A y \in pair : Min(pair) <= y
  BY <1>3, <1>4, MaxInSet, MinInSet
<1>6. QED
  BY <1>1, <1>5

(* A clipped score is from one to ten, and clipping keeps the order. *)
LEMMA ClippedOrdered ==
    ASSUME NEW x \in Int, NEW y \in Int
    PROVE  Clipped(x, 1, 10) \in 1 .. 10 /\ (x <= y => Clipped(x, 1, 10) <= Clipped(y, 1, 10))
<1>1. PICK lo \in Int, hi \in Int : lo = 1 /\ hi = 10
  OBVIOUS
<1>2. ASSUME NEW z \in Int
      PROVE  Clipped(z, lo, hi) = IF z <= lo THEN lo ELSE IF z <= hi THEN z ELSE hi
  <2>1. PICK m \in Int : m = Min({z, hi}) /\ m = IF z <= hi THEN z ELSE hi
    BY OfTwo
  <2>1a. Min({z, hi}) = Min({hi, z})
    BY OfTwo
  <2>2. Max({lo, m}) = IF lo >= m THEN lo ELSE m
    BY OfTwo
  <2>3. Clipped(z, lo, hi) = Max({lo, m})
    BY <2>1 DEF Clipped
  <2>4. QED
    BY <1>1, <2>1, <2>2, <2>3
<1>3. QED
  BY <1>1, <1>2

-----------------------------------------------------------------------------
(* Ranks *)

(* Deciles go down along the places. *)
LEMMA DecilesFall ==
    ASSUME NEW n \in Nat, n >= 2, NEW i \in 0 .. n - 1, NEW j \in 0 .. n - 1, i <= j
    PROVE  /\ DecileScore(i, n) \in Int /\ DecileScore(j, n) \in Int
           /\ DecileScore(j, n) <= DecileScore(i, n)
<1>1. PICK a \in Nat, b \in Nat, e \in Nat, r \in Nat \ {0} :
         a = n - 1 - j /\ b = n - 1 - i /\ e = 9 /\ r = n - 1
  OBVIOUS
<1>2. (e * a) \div r \in Nat /\ (e * b) \div r \in Nat /\ (e * a) \div r <= (e * b) \div r
  <2>1. a <= b
    BY <1>1
  <2>2. QED
    BY <2>1, SharesOrdered
<1>3. DecileScore(i, n) = 1 + (b * 9) \div r /\ DecileScore(j, n) = 1 + (a * 9) \div r
  BY <1>1 DEF DecileScore
<1>4. e * a = a * 9 /\ e * b = b * 9
  BY <1>1
<1>5. QED
  BY <1>2, <1>3, <1>4

(* The mean of numbers between two bounds, rounded half up, is between them. *)
LEMMA RoundedMean ==
    ASSUME NEW low \in Int, NEW high \in Int, NEW sum \in Int, NEW T \in Nat \ {0},
           low * T <= sum, sum <= high * T
    PROVE  /\ (2 * sum + T) \div (2 * T) \in Int
           /\ low <= (2 * sum + T) \div (2 * T) /\ (2 * sum + T) \div (2 * T) <= high
<1>1. PICK d \in Nat \ {0}, m \in Int : d = 2 * T /\ m = 2 * sum + T
  OBVIOUS
<1>2. PICK k \in Int : k = m \div d
  OBVIOUS
<1>3. d * k <= m /\ m < d * k + d
  BY <1>2
<1>4. PICK tl \in Int, th \in Int, tk \in Int : tl = low * T /\ th = high * T /\ tk = k * T
  OBVIOUS
<1>5. d * k = 2 * tk
  BY <1>1, <1>4
<1>6. 2 * tk <= 2 * th + T /\ 2 * tl + T < 2 * tk + 2 * T
  BY <1>1, <1>3, <1>4, <1>5
<1>7. tk - th < T /\ tl - tk < T
  BY <1>6
<1>8. (k - high) * T < T /\ (low - k) * T < T
  <2>1. (k - high) * T = k * T - high * T /\ (low - k) * T = low * T - k * T
    OBVIOUS
  <2>2. QED
    BY <1>4, <1>7, <2>1
<1>9. ASSUME NEW x \in Int, x * T < T PROVE x <= 0
  <2>1. SUFFICES ASSUME x >= 1 PROVE FALSE
    OBVIOUS
  <2>2. (x - 1) * T >= 0
    <3>1. x - 1 \in Nat
      BY <2>1
    <3>2. \A i \in Nat, j \in Nat : i * j >= 0
      OBVIOUS
    <3>3. QED
      BY <3>1, <3>2
  <2>3. (x - 1) * T = x * T - T
    OBVIOUS
  <2>4. x * T \in Int
    OBVIOUS
  <2>5. QED
    BY <1>9, <2>2, <2>3, <2>4
<1>10. k - high <= 0 /\ low - k <= 0
  BY <1>8, <1>9
<1>11. QED
  BY <1>1, <1>2, <1>10

(* The share of those who score v, when the scores of D are given. *)
Above(scores, v) == {u \in DOMAIN scores : scores[u] > v}
Level(scores, v) == {u \in DOMAIN scores : scores[u] = v}
ShareAt(scores, v) ==
    LET n == Cardinality(DOMAIN scores)
        a == Cardinality(Above(scores, v))
        T == Cardinality(Level(scores, v))
        sum == SumFunction([k \in 1 .. T |-> DecileScore(a + k - 1, n)])
    IN  (2 * sum + T) \div (2 * T)

(* The rank of a stock is the share of its score. *)
LEMMA RankIsShare ==
    ASSUME NEW scores, NEW order, Cardinality(DOMAIN scores) \in Nat, ~ Cardinality(DOMAIN scores) < MinRankUniverse
    PROVE  DeterministicRank(scores, order) = [s \in DOMAIN scores |-> Clipped(ShareAt(scores, scores[s]), 1, 10)]
  BY DEF DeterministicRank, ShareAt, Above, Level

(* The places of those who score the same, and the share between the deciles *)
(* of the first and the last of them. *)
LEMMA ShareBetween ==
    ASSUME NEW scores, IsFiniteSet(DOMAIN scores), \A u \in DOMAIN scores : scores[u] \in Int,
           NEW s \in DOMAIN scores, NEW n, n = Cardinality(DOMAIN scores), n >= 2,
           NEW a, a = Cardinality(Above(scores, scores[s])), NEW T, T = Cardinality(Level(scores, scores[s]))
    PROVE  /\ n \in Nat /\ a \in Nat /\ T \in Nat \ {0} /\ a + T <= n
           /\ ShareAt(scores, scores[s]) \in Int
           /\ DecileScore(a + T - 1, n) <= ShareAt(scores, scores[s])
           /\ ShareAt(scores, scores[s]) <= DecileScore(a, n)
<1>1. PICK A, L : A = Above(scores, scores[s]) /\ L = Level(scores, scores[s])
  OBVIOUS
<1>2. A \in SUBSET DOMAIN scores /\ L \in SUBSET DOMAIN scores /\ A \cap L = {} /\ s \in L
  BY <1>1 DEF Above, Level
<1>3. IsFiniteSet(A) /\ IsFiniteSet(L) /\ n \in Nat /\ a \in Nat /\ T \in Nat
  BY <1>1, <1>2, FS_Subset, FS_CardinalityType
<1>4. T # 0
  BY <1>1, <1>2, <1>3, FS_EmptySet
<1>5. a + T <= n
  <2>1. Cardinality(A \cup L) = Cardinality(A) + Cardinality(L) - Cardinality(A \cap L)
    BY <1>3, FS_Union
  <2>2. Cardinality(A \cap L) = 0
    BY <1>2, FS_EmptySet
  <2>3. A \cup L \in SUBSET DOMAIN scores
    BY <1>2
  <2>4. Cardinality(A \cup L) <= n
    BY <2>3, FS_Subset
  <2>5. Cardinality(A) = a /\ Cardinality(L) = T
    BY <1>1
  <2>6. Cardinality(A \cup L) = a + T
    BY <1>3, <2>1, <2>2, <2>5
  <2>7. QED
    BY <2>4, <2>6
<1>6. PICK low \in Int, high \in Int : low = DecileScore(a + T - 1, n) /\ high = DecileScore(a, n)
  <2>1. a \in 0 .. n - 1 /\ a + T - 1 \in 0 .. n - 1 /\ a <= a + T - 1
    BY <1>3, <1>4, <1>5
  <2>2. QED
    BY <1>3, <2>1, DecilesFall
<1>7. PICK f : f = [k \in 1 .. T |-> DecileScore(a + k - 1, n)]
  OBVIOUS
<1>8. \A k \in 1 .. T : f[k] \in Int /\ low <= f[k] /\ f[k] <= high
  <2>1. ASSUME NEW k \in 1 .. T PROVE f[k] \in Int /\ low <= f[k] /\ f[k] <= high
    <3>1. PICK p \in 0 .. n - 1 : p = a + k - 1 /\ a <= p /\ p <= a + T - 1
      BY <1>3, <1>4, <1>5
    <3>2. a \in 0 .. n - 1 /\ a + T - 1 \in 0 .. n - 1
      BY <1>3, <1>4, <1>5
    <3>3. f[k] = DecileScore(p, n)
      BY <1>7, <3>1
    <3>4. DecileScore(p, n) \in Int /\ DecileScore(p, n) <= high
      BY <1>3, <1>6, <3>1, <3>2, DecilesFall
    <3>5. low <= DecileScore(p, n)
      BY <1>3, <1>6, <3>1, <3>2, DecilesFall
    <3>6. QED
      BY <3>3, <3>4, <3>5
  <2>2. QED
    BY <2>1
<1>9. PICK X : X = 1 .. T /\ IsFiniteSet(X) /\ Cardinality(X) = T /\ X = DOMAIN f
  <2>1. PICK one \in Int : one = 1
    OBVIOUS
  <2>2. IsFiniteSet(one .. T) /\ Cardinality(one .. T) = T
    BY <1>3, <1>4, <2>1, FS_Interval
  <2>3. QED
    BY <1>7, <2>1, <2>2
<1>10. PICK sum \in Int : sum = SumFunctionOnSet(f, X)
  BY <1>8, <1>9, SumInt
<1>11. low * T <= sum /\ sum <= high * T
  <2>1. PICK fl, fh : fl = [k \in X |-> low] /\ fh = [k \in X |-> high]
    OBVIOUS
  <2>2. SumFunctionOnSet(fl, X) = low * Cardinality(X) /\ SumFunctionOnSet(fh, X) = high * Cardinality(X)
    <3>1. \A x \in X : fl[x] = low
      BY <2>1
    <3>2. \A x \in X : fh[x] = high
      BY <2>1
    <3>3. SumFunctionOnSet(fl, X) = low * Cardinality(X)
      BY <1>9, <3>1, SumConstant
    <3>4. SumFunctionOnSet(fh, X) = high * Cardinality(X)
      BY <1>9, <3>2, SumConstant
    <3>5. QED
      BY <3>3, <3>4
  <2>3. \A x \in X : fl[x] \in Int /\ f[x] \in Int /\ fl[x] <= f[x]
    BY <1>8, <1>9, <2>1
  <2>4. \A x \in X : f[x] \in Int /\ fh[x] \in Int /\ f[x] <= fh[x]
    BY <1>8, <1>9, <2>1
  <2>5. SumFunctionOnSet(fl, X) <= SumFunctionOnSet(f, X)
    BY <1>9, <2>3, SumLeq
  <2>6. SumFunctionOnSet(f, X) <= SumFunctionOnSet(fh, X)
    BY <1>9, <2>4, SumLeq
  <2>7. QED
    BY <1>9, <1>10, <2>2, <2>5, <2>6
<1>12. ShareAt(scores, scores[s]) = (2 * sum + T) \div (2 * T)
  <2>1. SumFunction(f) = sum
    BY <1>9, <1>10, SumOverDomain
  <2>2. QED
    BY <1>7, <2>1 DEF ShareAt
<1>13. /\ (2 * sum + T) \div (2 * T) \in Int
       /\ low <= (2 * sum + T) \div (2 * T) /\ (2 * sum + T) \div (2 * T) <= high
  BY <1>3, <1>4, <1>11, RoundedMean
<1>14. QED
  BY <1>3, <1>4, <1>5, <1>6, <1>12, <1>13

(* For any universe and any scores: the ranks depend on the scores alone,  *)
(* equal scores rank equal, a higher one never ranks lower, and every rank *)
(* is from one to ten (ranker.py DeterministicRanker). *)
THEOREM RanksFollow ==
    ASSUME NEW scores, IsFiniteSet(DOMAIN scores), \A u \in DOMAIN scores : scores[u] \in 1 .. 10,
           NEW order, NEW other
    PROVE  FollowsScores(scores, order, other)
<1>1. PICK D, n : D = DOMAIN scores /\ n = Cardinality(D)
  OBVIOUS
<1>2. n \in Nat
  BY <1>1, FS_CardinalityType
<1>3. CASE n < MinRankUniverse
  <2>1. DeterministicRank(scores, order) = scores /\ DeterministicRank(scores, other) = scores
    BY <1>1, <1>3 DEF DeterministicRank
  <2>2. QED
    BY <2>1 DEF FollowsScores
<1>4. CASE ~ n < MinRankUniverse
  <2>1. PICK rank : rank = [s \in D |-> Clipped(ShareAt(scores, scores[s]), 1, 10)]
    OBVIOUS
  <2>2. DeterministicRank(scores, order) = rank /\ DeterministicRank(scores, other) = rank
    BY <1>1, <1>2, <1>4, <2>1, RankIsShare
  <2>3. n >= 2
    BY <1>2, <1>4 DEF MinRankUniverse
  <2>4. ASSUME NEW s \in D PROVE ShareAt(scores, scores[s]) \in Int /\ rank[s] \in 1 .. 10
    <3>1. ShareAt(scores, scores[s]) \in Int
      BY <1>1, <2>3, ShareBetween
    <3>2. QED
      BY <2>1, <3>1, ClippedOrdered
  <2>5. ASSUME NEW s \in D, NEW t \in D, scores[s] = scores[t] PROVE rank[s] = rank[t]
    BY <2>1, <2>5
  <2>6. ASSUME NEW s \in D, NEW t \in D, scores[s] > scores[t] PROVE rank[s] >= rank[t]
    <3>1. PICK a, b, Ts, Tt :
             /\ a = Cardinality(Above(scores, scores[s])) /\ Ts = Cardinality(Level(scores, scores[s]))
             /\ b = Cardinality(Above(scores, scores[t])) /\ Tt = Cardinality(Level(scores, scores[t]))
      OBVIOUS
    <3>2. /\ a \in Nat /\ Ts \in Nat \ {0} /\ a + Ts <= n /\ ShareAt(scores, scores[s]) \in Int
          /\ DecileScore(a + Ts - 1, n) <= ShareAt(scores, scores[s])
      BY <1>1, <2>3, <3>1, ShareBetween
    <3>3. /\ b \in Nat /\ Tt \in Nat \ {0} /\ b + Tt <= n /\ ShareAt(scores, scores[t]) \in Int
          /\ ShareAt(scores, scores[t]) <= DecileScore(b, n)
      BY <1>1, <2>3, <3>1, ShareBetween
    <3>4. a + Ts <= b
      <4>1. PICK A, L, B : A = Above(scores, scores[s]) /\ L = Level(scores, scores[s]) /\ B = Above(scores, scores[t])
        OBVIOUS
      <4>2. A \cup L \in SUBSET B /\ A \cap L = {} /\ B \in SUBSET D
        BY <1>1, <2>6, <4>1 DEF Above, Level
      <4>3. IsFiniteSet(A) /\ IsFiniteSet(L) /\ IsFiniteSet(B)
        <5>1. A \in SUBSET D /\ L \in SUBSET D
          BY <1>1, <4>1 DEF Above, Level
        <5>2. QED
          BY <1>1, <4>2, <5>1, FS_Subset
      <4>4. Cardinality(A \cup L) = a + Ts - Cardinality(A \cap L)
        BY <3>1, <4>1, <4>3, FS_Union
      <4>5. Cardinality(A \cap L) = 0
        BY <4>2, FS_EmptySet
      <4>6. Cardinality(A \cup L) <= Cardinality(B)
        BY <4>2, <4>3, FS_Subset
      <4>7. Cardinality(B) = b
        BY <3>1, <4>1
      <4>8. Cardinality(A \cup L) = a + Ts
        BY <3>2, <4>4, <4>5
      <4>9. QED
        BY <4>6, <4>7, <4>8
    <3>5. DecileScore(b, n) <= DecileScore(a + Ts - 1, n) /\ DecileScore(b, n) \in Int /\ DecileScore(a + Ts - 1, n) \in Int
      <4>1. a + Ts - 1 \in 0 .. n - 1 /\ b \in 0 .. n - 1 /\ a + Ts - 1 <= b
        <5>1. PICK i \in Nat, k \in Nat, j \in Nat, l \in Nat : i = a /\ k = Ts /\ j = b /\ l = Tt /\ k # 0 /\ l # 0
          BY <3>2, <3>3
        <5>2. PICK m \in Nat : m = n
          BY <1>2
        <5>2a. i + k <= m /\ j + l <= m /\ i + k <= j /\ k >= 1 /\ l >= 1
          BY <3>2, <3>3, <3>4, <5>1, <5>2
        <5>3. i + k - 1 \in 0 .. m - 1 /\ j \in 0 .. m - 1 /\ i + k - 1 <= j
          BY <5>2a
        <5>4. QED
          BY <5>1, <5>2, <5>3
      <4>2. QED
        BY <1>2, <2>3, <4>1, DecilesFall
    <3>6. ShareAt(scores, scores[t]) <= ShareAt(scores, scores[s])
      <4>1. PICK x \in Int, y \in Int, v \in Int, w \in Int :
               /\ x = ShareAt(scores, scores[t]) /\ y = ShareAt(scores, scores[s])
               /\ v = DecileScore(b, n) /\ w = DecileScore(a + Ts - 1, n)
        BY <3>2, <3>3, <3>5
      <4>2. x <= v /\ v <= w /\ w <= y
        BY <3>2, <3>3, <3>5, <4>1
      <4>2a. x <= y
        BY <4>2
      <4>3. QED
        BY <4>1, <4>2a
    <3>7. Clipped(ShareAt(scores, scores[t]), 1, 10) <= Clipped(ShareAt(scores, scores[s]), 1, 10)
      BY <3>2, <3>3, <3>6, ClippedOrdered
    <3>8. rank[s] \in 1 .. 10 /\ rank[t] \in 1 .. 10
      BY <2>4
    <3>9. QED
      BY <2>1, <3>7, <3>8
  <2>7. QED
    BY <1>1, <2>2, <2>4, <2>5, <2>6 DEF FollowsScores
<1>5. QED
  BY <1>3, <1>4
-----------------------------------------------------------------------------
(* The rules of the analysts *)

(* Rounding half up to a multiple and clipping keeps the order. *)
LEMMA RoundedOrdered ==
    ASSUME NEW x \in Int, NEW y \in Int, x <= y, NEW d \in Nat \ {0}
    PROVE  /\ Clipped(x \div d, 1, 10) \in 1 .. 10 /\ Clipped(y \div d, 1, 10) \in 1 .. 10
           /\ Clipped(x \div d, 1, 10) <= Clipped(y \div d, 1, 10)
<1>1. PICK i \in Int, j \in Int : i = x \div d /\ j = y \div d
  OBVIOUS
<1>2. PICK p \in Int, q \in Int : p = d * i /\ q = d * j
  OBVIOUS
<1>3. p <= x /\ y < q + d
  BY <1>1, <1>2
<1>4. p - q < d
  BY <1>3
<1>5. d * (i - j) < d
  <2>1. d * (i - j) = d * i - d * j
    OBVIOUS
  <2>2. QED
    BY <1>2, <1>4, <2>1
<1>6. i <= j
  <2>1. SUFFICES ASSUME i > j PROVE FALSE
    OBVIOUS
  <2>2. i - j - 1 \in Nat
    BY <2>1
  <2>3. d * (i - j - 1) >= 0
    BY <2>2, SignOfProduct
  <2>4. d * (i - j - 1) = d * (i - j) - d
    OBVIOUS
  <2>5. d * (i - j) \in Int
    OBVIOUS
  <2>6. QED
    BY <1>5, <2>3, <2>4, <2>5
<1>7. QED
  BY <1>1, <1>6, ClippedOrdered

(* The scores of the three rules, as what is clipped in each. *)
LEMMA FundamentalsOf ==
    ASSUME NEW g \in Int
    PROVE  FundamentalsSignal(<<[revenueGrowth |-> g, roe |-> g]>>).score
             = Clipped((1700 + 850 + 170 * g + 204 * g + 20 * 100 + 850) \div 1700, 1, 10)
<1>1. PICK m : m = [revenueGrowth |-> g, roe |-> g]
  OBVIOUS
<1>2. DOMAIN m = {"revenueGrowth", "roe"} /\ m.revenueGrowth = g /\ m.roe = g
  BY <1>1
<1>3. /\ Figure(m, "fcfYield", 0) = 0 /\ Figure(m, "revenueGrowth", 0) = g /\ Figure(m, "roe", 0) = g
      /\ Figure(m, "debtToEquity", 100) = 100 /\ Figure(m, "earningsGrowth", 0) = 0
  BY <1>2 DEF Figure
<1>4. PICK k \in Int : k = 170 * g + 204 * g
  OBVIOUS
<1>5. <<m>>[1] = m /\ <<m>> # << >>
  OBVIOUS
<1>6. PICK total \in Int : total = 1700 + 850 + 170 * g + 204 * g + 20 * 100
  OBVIOUS
<1>7. FundamentalsSignal(<<m>>) = Signal(Clipped((total + 850) \div 1700, 1, 10), 6)
  BY <1>3, <1>5, <1>6 DEF FundamentalsSignal
<1>8. total + 850 = 1700 + 850 + 170 * g + 204 * g + 20 * 100 + 850
  BY <1>6
<1>9. QED
  BY <1>1, <1>7, <1>8 DEF Signal

LEMMA NewsOf ==
    ASSUME NEW g \in Int, g # Unknown, NEW h \in Int, h # Unknown, g <= h, NEW age, NEW growth
    PROVE  /\ NewsSignal(g, age, growth).score \in 1 .. 10
           /\ NewsSignal(g, age, growth).score <= NewsSignal(h, age, growth).score
<1>1. ASSUME NEW x \in Int, x # Unknown
      PROVE  NewsSignal(x, age, growth).score
               = IF x > 20 THEN 8 ELSE IF x >= 6 THEN 7 ELSE IF x >= -4 THEN 5 ELSE IF x >= -19 THEN 4 ELSE 3
  <2>1. PICK v : v = IF x > 20 THEN 8 ELSE IF x >= 6 THEN 7 ELSE IF x >= -4 THEN 5 ELSE IF x >= -19 THEN 4 ELSE 3
    OBVIOUS
  <2>2. v = CASE x > 20 -> 8 [] x \in 6 .. 20 -> 7 [] x \in -4 .. 5 -> 5 [] x \in -19 .. -5 -> 4 [] OTHER -> 3
    BY <2>1
  <2>3. PICK c : c = IF age <= 30 THEN 5 ELSE IF age <= 60 THEN 4 ELSE 3
    OBVIOUS
  <2>4. NewsSignal(x, age, growth) = Signal(v, c)
    BY <1>1, <2>2, <2>3 DEF NewsSignal
  <2>5. QED
    BY <2>1, <2>4 DEF Signal
<1>2. QED
  BY <1>1

LEMMA TechnicalOf ==
    ASSUME NEW gain \in Nat, NEW loss \in Nat
    PROVE  \E rest \in Int : \A g \in Int, above \in BOOLEAN :
             TechnicalSignal(<<[return |-> g, gain |-> gain, loss |-> loss,
                                above50 |-> above, volatility |-> 20]>>).score
               = Clipped((rest + 6 * g + (IF above THEN 30 ELSE -30)) \div 60, 1, 10)
<1>1. PICK rsi \in Int : rsi = IF Overbought(gain, loss) THEN -60 ELSE IF Oversold(gain, loss) THEN 60 ELSE 0
  OBVIOUS
<1>2. PICK volatility \in Int : volatility = Clipped(30 - 5 * (20 - 20), -120, 30)
  <2>1. PICK lo \in Int, hi \in Int, x \in Int : lo = -120 /\ hi = 30 /\ x = 30 - 5 * (20 - 20)
    OBVIOUS
  <2>2. PICK m \in Int : m = Min({x, hi})
    BY OfTwo
  <2>3. Max({lo, m}) \in Int
    BY OfTwo
  <2>4. QED
    BY <2>1, <2>2, <2>3 DEF Clipped
<1>3. PICK rest \in Int : rest = 300 + volatility + rsi + 30
  OBVIOUS
<1>4. ASSUME NEW g \in Int, NEW above \in BOOLEAN
      PROVE  TechnicalSignal(<<[return |-> g, gain |-> gain, loss |-> loss,
                                above50 |-> above, volatility |-> 20]>>).score
               = Clipped((rest + 6 * g + (IF above THEN 30 ELSE -30)) \div 60, 1, 10)
  <2>1. PICK h : h = [return |-> g, gain |-> gain, loss |-> loss, above50 |-> above, volatility |-> 20]
    OBVIOUS
  <2>2. /\ DOMAIN h = {"return", "gain", "loss", "above50", "volatility"}
        /\ h["return"] = g /\ h.gain = gain /\ h.loss = loss /\ h["above50"] = above /\ h["volatility"] = 20
    BY <2>1
  <2>3. /\ Figure(h, "return", 0) = g /\ Figure(h, "volatility", 20) = 20
        /\ "gain" \in DOMAIN h /\ "volatility" \in DOMAIN h /\ "above50" \in DOMAIN h /\ "above200" \notin DOMAIN h
    BY <2>2 DEF Figure
  <2>4. <<h>>[1] = h /\ <<h>> # << >>
    OBVIOUS
  <2>5. PICK side \in Int : side = IF above THEN 30 ELSE -30
    OBVIOUS
  <2>6. PICK total \in Int : total = 300 + 6 * g + volatility + rsi + side + 0
    OBVIOUS
  <2>7. TechnicalSignal(<<h>>) = Signal(Clipped((total + 30) \div 60, 1, 10), 5)
    BY <1>1, <1>2, <2>2, <2>3, <2>4, <2>5, <2>6 DEF TechnicalSignal
  <2>8. total + 30 = rest + 6 * g + side
    BY <1>3, <2>6
  <2>9. QED
    BY <2>1, <2>5, <2>7, <2>8 DEF Signal
<1>5. QED
  BY <1>4

(* For any two figures: better ones never lower the score of a rule-based *)
(* analyst, and every score is from one to ten                            *)
(* (quantitative_analysts.py). *)
THEOREM RulesNeverLower ==
    ASSUME NEW worse \in Int, NEW better \in Int, worse <= better, worse # Unknown, better # Unknown,
           NEW c, c.gain \in Nat, c.loss \in Nat, c.up \in BOOLEAN
    PROVE  NeverLowers(worse, better, c)
<1> DEFINE fundamentals(g) == FundamentalsSignal(<<[revenueGrowth |-> g, roe |-> g]>>).score
           news(g) == NewsSignal(g, c.age, c.growth).score
           technical(g, above) == TechnicalSignal(<<[return |-> g, gain |-> c.gain, loss |-> c.loss,
                                                     above50 |-> above, volatility |-> 20]>>).score
<1>1. fundamentals(better) \in 1 .. 10 /\ fundamentals(better) >= fundamentals(worse)
  <2>1. PICK x \in Int, y \in Int, d \in Nat \ {0} :
           /\ x = 1700 + 850 + 170 * worse + 204 * worse + 20 * 100 + 850
           /\ y = 1700 + 850 + 170 * better + 204 * better + 20 * 100 + 850
           /\ d = 1700
    OBVIOUS
  <2>2. x <= y
    BY <2>1
  <2>3. /\ Clipped(x \div d, 1, 10) \in 1 .. 10 /\ Clipped(y \div d, 1, 10) \in 1 .. 10
        /\ Clipped(x \div d, 1, 10) <= Clipped(y \div d, 1, 10)
    BY <2>2, RoundedOrdered
  <2>4. fundamentals(worse) = Clipped(x \div d, 1, 10) /\ fundamentals(better) = Clipped(y \div d, 1, 10)
    BY <2>1, FundamentalsOf
  <2> HIDE DEF fundamentals
  <2>5. QED
    BY <2>3, <2>4
<1>2. news(better) \in 1 .. 10 /\ news(better) >= news(worse)
  <2>1. news(worse) \in 1 .. 10 /\ news(better) \in 1 .. 10 /\ news(worse) <= news(better)
    BY NewsOf
  <2> HIDE DEF news
  <2>2. QED
    BY <2>1
<1>3. technical(better, TRUE) \in 1 .. 10 /\ technical(better, TRUE) >= technical(worse, c.up)
  <2>1. PICK rest \in Int : \A g \in Int, above \in BOOLEAN :
           technical(g, above) = Clipped((rest + 6 * g + (IF above THEN 30 ELSE -30)) \div 60, 1, 10)
    BY TechnicalOf
  <2> HIDE DEF technical
  <2>2. PICK x \in Int, y \in Int, d \in Nat \ {0} :
           /\ x = rest + 6 * worse + (IF c.up THEN 30 ELSE -30)
           /\ y = rest + 6 * better + (IF TRUE THEN 30 ELSE -30)
           /\ d = 60
    OBVIOUS
  <2>3. x <= y
    BY <2>2
  <2>4. /\ Clipped(x \div d, 1, 10) \in 1 .. 10 /\ Clipped(y \div d, 1, 10) \in 1 .. 10
        /\ Clipped(x \div d, 1, 10) <= Clipped(y \div d, 1, 10)
    BY <2>3, RoundedOrdered
  <2>5. technical(worse, c.up) = Clipped(x \div d, 1, 10) /\ technical(better, TRUE) = Clipped(y \div d, 1, 10)
    BY <2>1, <2>2
  <2>6. QED
    BY <2>4, <2>5
<1>4. NeverLowers(worse, better, c) =
        (/\ fundamentals(better) >= fundamentals(worse)
         /\ news(better) >= news(worse)
         /\ technical(better, TRUE) >= technical(worse, c.up)
         /\ {fundamentals(better), news(better), technical(better, TRUE)} \subseteq 1 .. 10)
  BY DEF NeverLowers
<1> HIDE DEF fundamentals, news, technical
<1>5. {fundamentals(better), news(better), technical(better, TRUE)} \subseteq 1 .. 10
  BY <1>1, <1>2, <1>3
<1>6. QED
  BY <1>1, <1>2, <1>3, <1>4, <1>5
-----------------------------------------------------------------------------
(* The drawdown *)

(* The levels of n days, one at least. *)
LevelsOf(navs, n) == n \in Nat /\ n >= 1 /\ navs \in [1 .. n -> Nat \ {0}]

(* The accumulator of the drawdown before the first day, and its history. *)
FirstDay(navs) == [peak |-> navs[1], days |-> 0, worst |-> <<0, 1>>, longest |-> 0]
Unrolls(navs, g, n) ==
    g = [i \in 0 .. n |-> IF i = 0 THEN FirstDay(navs) ELSE Descend(g[i - 1], navs[i])]

(* The drawdown is where a history of the accumulator ends. *)
LEMMA DrawdownUnfolds ==
    ASSUME NEW navs
    PROVE  Drawdown(navs) = (CHOOSE g : Unrolls(navs, g, Len(navs)))[Len(navs)]
  BY DEF Drawdown, Unrolls, FirstDay

(* The least number of a non-empty set of them. *)
LEMMA LeastOf ==
    ASSUME NEW n \in Nat, NEW X \in SUBSET (0 .. n), X # {}
    PROVE  \E m \in X : m \in Nat /\ \A y \in X : m <= y
<1>1. IsFiniteSet(0 .. n)
  <2>1. PICK z \in Int : z = 0
    OBVIOUS
  <2>2. IsFiniteSet(z .. n)
    BY FS_Interval
  <2>3. QED
    BY <2>1, <2>2
<1>2. IsFiniteSet(X) /\ X \in SUBSET Int /\ \A x \in X : x \in Nat
  <2>1. IsFiniteSet(X)
    BY <1>1, FS_Subset
  <2>2. \A x \in 0 .. n : x \in Nat /\ x \in Int
    OBVIOUS
  <2>3. QED
    BY <2>1, <2>2
<1>3. Min(X) \in X /\ \A y \in X : Min(X) <= y
  BY <1>2, MinInSet
<1>4. QED
  BY <1>2, <1>3

(* There is a history of any length. *)
LEMMA HistoryExists ==
    ASSUME NEW navs, NEW n \in Nat
    PROVE  \E g : Unrolls(navs, g, n)
<1> DEFINE Bad == {k \in 0 .. n : ~ \E g : Unrolls(navs, g, k)}
<1>1. SUFFICES ASSUME Bad # {} PROVE FALSE
  OBVIOUS
<1>2. PICK m \in Bad : m \in Nat /\ \A y \in Bad : m <= y
  <2>1. Bad \in SUBSET (0 .. n)
    OBVIOUS
  <2> HIDE DEF Bad
  <2>2. QED
    BY <1>1, <2>1, LeastOf
<1>3. m \in 0 .. n /\ ~ \E g : Unrolls(navs, g, m)
  OBVIOUS
<1>4. CASE m = 0
  <2>1. PICK g : g = [i \in 0 .. 0 |-> FirstDay(navs)]
    OBVIOUS
  <2>2. g = [i \in 0 .. 0 |-> IF i = 0 THEN FirstDay(navs) ELSE Descend(g[i - 1], navs[i])]
    BY <2>1
  <2>3. QED
    BY <1>3, <1>4, <2>2 DEF Unrolls
<1>5. CASE m # 0
  <2>1. m - 1 \in 0 .. n /\ m - 1 \notin Bad
    BY <1>2, <1>3, <1>5
  <2>2. PICK g : Unrolls(navs, g, m - 1)
    BY <2>1
  <2>3. PICK h : h = [i \in 0 .. m |-> IF i = m THEN Descend(g[m - 1], navs[m]) ELSE g[i]]
    OBVIOUS
  <2>4. PICK f : f = [i \in 0 .. m |-> IF i = 0 THEN FirstDay(navs) ELSE Descend(h[i - 1], navs[i])]
    OBVIOUS
  <2>5. ASSUME NEW i \in 0 .. m PROVE h[i] = f[i]
    <3>1. CASE i = m
      <4>1. h[i] = Descend(g[m - 1], navs[m]) /\ f[i] = Descend(h[m - 1], navs[m])
        BY <1>3, <1>5, <2>3, <2>4, <3>1
      <4>2. h[m - 1] = g[m - 1]
        BY <1>3, <1>5, <2>3
      <4>3. QED
        BY <4>1, <4>2
    <3>2. CASE i # m
      <4>1. i \in 0 .. m - 1 /\ h[i] = g[i]
        BY <1>3, <2>3, <3>2
      <4>2. g[i] = IF i = 0 THEN FirstDay(navs) ELSE Descend(g[i - 1], navs[i])
        BY <2>2, <4>1 DEF Unrolls
      <4>3. i # 0 => h[i - 1] = g[i - 1]
        BY <1>3, <2>3, <3>2
      <4>4. QED
        BY <2>4, <4>1, <4>2, <4>3
    <3>3. QED
      BY <3>1, <3>2
  <2>6. h = f
    BY <2>3, <2>4, <2>5
  <2>7. Unrolls(navs, h, m)
    BY <2>4, <2>6 DEF Unrolls
  <2>8. QED
    BY <1>3, <2>7
<1>6. QED
  BY <1>4, <1>5

(* What one day does to the accumulator. *)
LEMMA DescendFields ==
    ASSUME NEW acc, acc.peak \in Int, acc.days \in Int, acc.longest \in Int, NEW nav \in Int,
           NEW next, next = Descend(acc, nav)
    PROVE  /\ next.peak = IF nav > acc.peak THEN nav ELSE acc.peak
           /\ next.days = IF nav > acc.peak THEN 0 ELSE acc.days + 1
           /\ next.worst = IF Over(<<next.peak - nav, next.peak>>, acc.worst)
                             THEN <<next.peak - nav, next.peak>> ELSE acc.worst
           /\ next.longest = IF next.days >= acc.longest THEN next.days ELSE acc.longest
<1>1. PICK peak \in Int, days \in Int : /\ peak = IF nav > acc.peak THEN nav ELSE acc.peak
                                        /\ days = IF nav > acc.peak THEN 0 ELSE acc.days + 1
  OBVIOUS
<1>2. next = [peak |-> peak, days |-> days,
              worst |-> IF Over(<<peak - nav, peak>>, acc.worst) THEN <<peak - nav, peak>> ELSE acc.worst,
              longest |-> Max({days, acc.longest})]
  BY <1>1 DEF Descend
<1>3. Max({days, acc.longest}) = IF days >= acc.longest THEN days ELSE acc.longest
  BY OfTwo
<1>4. QED
  BY <1>1, <1>2, <1>3

-----------------------------------------------------------------------------
(* After i days: the peak is the greatest level so far ... *)
PeakSoFar(navs, i, acc) ==
    /\ acc.peak \in Nat \ {0}
    /\ \A k \in 1 .. i : navs[k] <= acc.peak
    /\ i = 0 => acc.peak = navs[1]
    /\ i > 0 => \E k \in 1 .. i : acc.peak = navs[k]

(* ... no fall so far is over the worst one, which was seen ... *)
IsFall(navs, i, w) == \E k, j \in 1 .. i : k <= j /\ w = <<navs[k] - navs[j], navs[k]>>
WorstSoFar(navs, i, w) ==
    /\ w[1] \in Nat /\ w[2] \in Nat \ {0}
    /\ \A k, j \in 1 .. i : k <= j => ~ Over(<<navs[k] - navs[j], navs[k]>>, w)
    /\ w = <<0, 1>> \/ IsFall(navs, i, w)

(* ... and the days since the last new peak and the most there have been. *)
Quiet(navs, k) == \E j \in 1 .. k : navs[j] >= navs[k] /\ (j < k \/ k = 1)
QuietRun(navs, p, q) == p <= q /\ \A k \in p .. q : Quiet(navs, k)
QuietSoFar(navs, i, days, longest) ==
    /\ days \in 0 .. i /\ longest \in 0 .. i
    /\ \A k \in i - days + 1 .. i : Quiet(navs, k)
    /\ days < i => ~ Quiet(navs, i - days)
    /\ \A p, q \in 1 .. i : QuietRun(navs, p, q) => q - p + 1 <= longest
    /\ longest > 0 => \E p, q \in 1 .. i : QuietRun(navs, p, q) /\ longest = q - p + 1

SoFar(navs, i, acc) ==
    PeakSoFar(navs, i, acc) /\ WorstSoFar(navs, i, acc.worst) /\ QuietSoFar(navs, i, acc.days, acc.longest)

(* Before the first day, what is held of the days so far holds of none. *)
LEMMA FirstDaySoFar ==
    ASSUME NEW navs, NEW n, LevelsOf(navs, n)
    PROVE  SoFar(navs, 0, FirstDay(navs))
<1>1. PICK acc : acc = FirstDay(navs)
  OBVIOUS
<1>2. acc.peak = navs[1] /\ acc.days = 0 /\ acc.worst = <<0, 1>> /\ acc.longest = 0
  BY <1>1 DEF FirstDay
<1>3. PeakSoFar(navs, 0, acc)
  BY <1>2 DEF PeakSoFar, LevelsOf
<1>4. WorstSoFar(navs, 0, acc.worst)
  BY <1>2 DEF WorstSoFar
<1>5. QuietSoFar(navs, 0, acc.days, acc.longest)
  BY <1>2 DEF QuietSoFar
<1>6. QED
  BY <1>1, <1>3, <1>4, <1>5 DEF SoFar

(* A day is quiet when its level is not above the peak before it. *)
LEMMA QuietBelowPeak ==
    ASSUME NEW navs, NEW n, LevelsOf(navs, n), NEW i \in 1 .. n, NEW acc, PeakSoFar(navs, i - 1, acc)
    PROVE  Quiet(navs, i) <=> ~ navs[i] > acc.peak
<1>1. n \in Nat /\ \A k \in 1 .. n : navs[k] \in Nat /\ navs[k] # 0
  BY DEF LevelsOf
<1>2. CASE i = 1
  <2>1. acc.peak = navs[1] /\ navs[1] \in Nat
    BY <1>1, <1>2 DEF PeakSoFar
  <2>2. QED
    BY <1>2, <2>1 DEF Quiet
<1>3. CASE i # 1
  <2>1. PICK k \in 1 .. i - 1 : acc.peak = navs[k]
    BY <1>1, <1>3 DEF PeakSoFar
  <2>2. \A j \in 1 .. i - 1 : navs[j] <= acc.peak
    BY DEF PeakSoFar
  <2>3. navs[i] \in Nat /\ acc.peak \in Nat /\ i \in Nat
    BY <1>1, <2>1
  <2>4. Quiet(navs, i) => ~ navs[i] > acc.peak
    <3>1. SUFFICES ASSUME Quiet(navs, i) PROVE ~ navs[i] > acc.peak
      OBVIOUS
    <3>2. PICK j \in 1 .. i : navs[j] >= navs[i] /\ j < i
      BY <1>3, <3>1 DEF Quiet
    <3>3. j \in 1 .. i - 1 /\ navs[j] \in Nat
      BY <1>1, <2>3, <3>2
    <3>4. QED
      BY <2>2, <2>3, <3>2, <3>3
  <2>5. ~ navs[i] > acc.peak => Quiet(navs, i)
    <3>1. SUFFICES ASSUME ~ navs[i] > acc.peak PROVE Quiet(navs, i)
      OBVIOUS
    <3>2. k \in 1 .. i /\ k < i /\ navs[k] >= navs[i]
      BY <2>1, <2>3, <3>1
    <3>3. QED
      BY <3>2 DEF Quiet
  <2>6. QED
    BY <2>4, <2>5
<1>4. QED
  BY <1>2, <1>3

(* A day keeps the peak the greatest level. *)
LEMMA PeakStep ==
    ASSUME NEW navs, NEW n, LevelsOf(navs, n), NEW i \in 1 .. n, NEW acc, PeakSoFar(navs, i - 1, acc),
           NEW next, next.peak = IF navs[i] > acc.peak THEN navs[i] ELSE acc.peak
    PROVE  PeakSoFar(navs, i, next) /\ navs[i] <= next.peak
<1>1. n \in Nat /\ i \in Nat /\ i >= 1 /\ \A k \in 1 .. n : navs[k] \in Nat /\ navs[k] # 0
  BY DEF LevelsOf
<1>2. acc.peak \in Nat /\ acc.peak # 0 /\ navs[i] \in Nat /\ navs[i] # 0
  BY <1>1 DEF PeakSoFar
<1>3. next.peak \in Nat \ {0} /\ navs[i] <= next.peak /\ acc.peak <= next.peak
  BY <1>2
<1>4. \A k \in 1 .. i : navs[k] <= next.peak
  <2>1. ASSUME NEW k \in 1 .. i PROVE navs[k] <= next.peak
    <3>1. k = i \/ k \in 1 .. i - 1
      BY <1>1
    <3>2. k \in 1 .. i - 1 => navs[k] <= acc.peak
      BY DEF PeakSoFar
    <3>3. navs[k] \in Nat
      BY <1>1
    <3>4. QED
      BY <1>2, <1>3, <3>1, <3>2, <3>3
  <2>2. QED
    BY <2>1
<1>5. \E k \in 1 .. i : next.peak = navs[k]
  <2>1. CASE navs[i] > acc.peak
    <3>1. i \in 1 .. i
      BY <1>1
    <3>2. QED
      BY <2>1, <3>1
  <2>2. CASE ~ navs[i] > acc.peak
    <3>1. CASE i = 1
      <4>1. next.peak = navs[1] /\ 1 \in 1 .. i
        BY <2>2, <3>1 DEF PeakSoFar
      <4>2. QED
        BY <4>1
    <3>2. CASE i # 1
      <4>1. PICK k \in 1 .. i - 1 : acc.peak = navs[k]
        BY <1>1, <3>2 DEF PeakSoFar
      <4>2. QED
        BY <1>1, <2>2, <4>1
    <3>3. QED
      BY <3>1, <3>2
  <2>3. QED
    BY <2>1, <2>2
<1>6. QED
  BY <1>1, <1>3, <1>4, <1>5 DEF PeakSoFar

(* Fractions with positive denominators are ordered. *)
AtMost(a, b, c, d) == a * d <= c * b
LEMMA FractionsOrdered ==
    ASSUME NEW a \in Int, NEW b \in Nat \ {0}, NEW c \in Int, NEW d \in Nat \ {0}, NEW e \in Int, NEW f \in Nat \ {0},
           AtMost(a, b, c, d), AtMost(c, d, e, f)
    PROVE  AtMost(a, b, e, f)
<1>1. PICK x \in Int, y \in Int : x = c * b - a * d /\ y = e * d - c * f /\ x >= 0 /\ y >= 0
  BY DEF AtMost
<1>2. f * x + b * y = d * (e * b - a * f)
  <2>1. f * x = f * (c * b) - f * (a * d)
    BY <1>1
  <2>2. b * y = b * (e * d) - b * (c * f)
    BY <1>1
  <2>3. d * (e * b - a * f) = d * (e * b) - d * (a * f)
    OBVIOUS
  <2>4. f * (c * b) = b * (c * f) /\ b * (e * d) = d * (e * b) /\ f * (a * d) = d * (a * f)
    OBVIOUS
  <2>5. f * (c * b) \in Int /\ f * (a * d) \in Int /\ d * (e * b) \in Int
    OBVIOUS
  <2>6. QED
    BY <2>1, <2>2, <2>3, <2>4, <2>5
<1>3. f * x >= 0 /\ b * y >= 0
  BY <1>1, SignOfProduct
<1>4. PICK k \in Int : k = e * b - a * f
  OBVIOUS
<1>5. d * k >= 0
  <2>1. f * x \in Int /\ b * y \in Int
    OBVIOUS
  <2>2. QED
    BY <1>2, <1>3, <1>4, <2>1
<1>6. k >= 0
  BY <1>5, SignOfProduct
<1>7. a * f \in Int /\ e * b \in Int
  OBVIOUS
<1>8. QED
  BY <1>4, <1>6, <1>7 DEF AtMost

(* The same level is a smaller fall from a lower one. *)
LEMMA LowerFallsLess ==
    ASSUME NEW x \in Nat, NEW a \in Nat \ {0}, NEW p \in Nat \ {0}, a <= p
    PROVE  AtMost(a - x, a, p - x, p)
<1>1. PICK d \in Nat : d = p - a
  OBVIOUS
<1>2. x * d >= 0
  <2>1. \A i, j \in Nat : i * j >= 0
    OBVIOUS
  <2>2. QED
    BY <2>1
<1>3. x * d = x * p - x * a
  BY <1>1
<1>4. (a - x) * p = a * p - x * p /\ (p - x) * a = a * p - x * a
  OBVIOUS
<1>5. a * p \in Int /\ x * p \in Int /\ x * a \in Int
  OBVIOUS
<1>6. QED
  BY <1>2, <1>3, <1>4, <1>5 DEF AtMost

(* What is compared when fractions are. *)
LEMMA OverOrNot ==
    ASSUME NEW a \in Int, NEW b \in Int, NEW w, w[1] \in Int, w[2] \in Int
    PROVE  /\ ~ Over(<<a, b>>, w) <=> AtMost(a, b, w[1], w[2])
           /\ Over(<<a, b>>, w) => AtMost(w[1], w[2], a, b)
<1>1. PICK x \in Int, y \in Int : x = a * w[2] /\ y = w[1] * b
  OBVIOUS
<1>2. Over(<<a, b>>, w) <=> x > y
  BY <1>1 DEF Over
<1>3. AtMost(a, b, w[1], w[2]) <=> x <= y
  BY <1>1 DEF AtMost
<1>4. AtMost(w[1], w[2], a, b) <=> y <= x
  BY <1>1 DEF AtMost
<1>5. QED
  BY <1>1, <1>2, <1>3, <1>4

(* A day keeps the worst fall worst. *)
LEMMA WorstStep ==
    ASSUME NEW navs, NEW n, LevelsOf(navs, n), NEW i \in 1 .. n, NEW peak, NEW w, WorstSoFar(navs, i - 1, w),
           peak \in Nat \ {0}, \A k \in 1 .. i : navs[k] <= peak, \E k \in 1 .. i : peak = navs[k],
           NEW z, z = IF Over(<<peak - navs[i], peak>>, w) THEN <<peak - navs[i], peak>> ELSE w
    PROVE  WorstSoFar(navs, i, z)
<1>1. n \in Nat /\ i \in Nat /\ i >= 1 /\ \A k \in 1 .. n : navs[k] \in Nat \ {0}
  BY DEF LevelsOf
<1>2. PICK x \in Nat \ {0}, p \in Nat \ {0} : x = navs[i] /\ p = peak /\ x <= p
  <2>1. i \in 1 .. i
    BY <1>1
  <2>2. QED
    BY <1>1, <2>1
<1>3. w[1] \in Nat /\ w[2] \in Nat \ {0}
  BY DEF WorstSoFar
<1>4. PICK f : f = <<p - x, p>> /\ f[1] = p - x /\ f[2] = p
  <2>1. PICK d \in Int : d = p - x
    OBVIOUS
  <2>2. <<d, p>>[1] = d /\ <<d, p>>[2] = p
    OBVIOUS
  <2>3. QED
    BY <2>1, <2>2
<1>5. z = IF Over(f, w) THEN f ELSE w
  BY <1>2, <1>4
<1>6. z[1] \in Nat /\ z[2] \in Nat \ {0}
  BY <1>2, <1>3, <1>4, <1>5
<1>7. AtMost(w[1], w[2], z[1], z[2]) /\ AtMost(p - x, p, z[1], z[2])
  <2>1. \A a, b \in Int : AtMost(a, b, a, b)
    BY DEF AtMost
  <2>2. p - x \in Int /\ p \in Int /\ w[1] \in Int /\ w[2] \in Int
    BY <1>2, <1>3
  <2>3. /\ ~ Over(f, w) <=> AtMost(p - x, p, w[1], w[2])
        /\ Over(f, w) => AtMost(w[1], w[2], p - x, p)
    BY <1>4, <2>2, OverOrNot
  <2>4. AtMost(p - x, p, p - x, p) /\ AtMost(w[1], w[2], w[1], w[2])
    BY <2>1, <2>2
  <2>5. CASE Over(f, w)
    BY <1>4, <1>5, <2>3, <2>4, <2>5
  <2>6. CASE ~ Over(f, w)
    BY <1>5, <2>3, <2>4, <2>6
  <2>7. QED
    BY <2>5, <2>6
<1>8. ASSUME NEW k \in 1 .. i, NEW j \in 1 .. i, k <= j
      PROVE  ~ Over(<<navs[k] - navs[j], navs[k]>>, z)
  <2>1. PICK a \in Nat \ {0}, b \in Nat \ {0} : a = navs[k] /\ b = navs[j] /\ a <= p
    <3>1. k \in 1 .. n /\ j \in 1 .. n
      BY <1>1
    <3>2. QED
      BY <1>1, <1>2, <3>1
  <2>2. AtMost(a - b, a, z[1], z[2])
    <3>1. CASE j = i
      <4>1. b = x
        BY <1>2, <2>1, <3>1
      <4>2. AtMost(a - b, a, p - b, p)
        BY <2>1, LowerFallsLess
      <4>3. a - b \in Int /\ p - b \in Int /\ z[1] \in Int
        BY <1>6, <2>1
      <4>4. AtMost(p - b, p, z[1], z[2])
        BY <1>7, <4>1
      <4>5. PICK c \in Int, d \in Int, u \in Int, v \in Nat \ {0} : c = a - b /\ d = p - b /\ u = z[1] /\ v = z[2]
        BY <1>6, <4>3
      <4>6. AtMost(c, a, d, p) /\ AtMost(d, p, u, v)
        BY <4>2, <4>4, <4>5
      <4>7. AtMost(c, a, u, v)
        BY <4>6, FractionsOrdered
      <4>8. QED
        BY <4>5, <4>7
    <3>2. CASE j # i
      <4>1. k \in 1 .. i - 1 /\ j \in 1 .. i - 1
        BY <1>1, <1>8, <3>2
      <4>2. ~ Over(<<navs[k] - navs[j], navs[k]>>, w)
        BY <1>8, <4>1 DEF WorstSoFar
      <4>3. a - b \in Int /\ a \in Int /\ w[1] \in Int /\ w[2] \in Int /\ z[1] \in Int
        BY <1>3, <1>6, <2>1
      <4>4. AtMost(a - b, a, w[1], w[2])
        BY <2>1, <4>2, <4>3, OverOrNot
      <4>5. QED
        BY <1>3, <1>6, <1>7, <4>3, <4>4, FractionsOrdered
    <3>3. QED
      BY <3>1, <3>2
  <2>3. a - b \in Int /\ a \in Int /\ z[1] \in Int /\ z[2] \in Int
    BY <1>6, <2>1
  <2>4. QED
    BY <2>1, <2>2, <2>3, OverOrNot
<1>9. z = <<0, 1>> \/ IsFall(navs, i, z)
  <2>1. CASE Over(f, w)
    <3>1. PICK k \in 1 .. i : peak = navs[k]
      OBVIOUS
    <3>2. k <= i /\ i \in 1 .. i
      BY <1>1
    <3>3. z = <<navs[k] - navs[i], navs[k]>>
      BY <1>2, <1>4, <1>5, <2>1, <3>1
    <3>4. QED
      BY <3>2, <3>3 DEF IsFall
  <2>2. CASE ~ Over(f, w)
    <3>1. z = w
      BY <1>5, <2>2
    <3>2. w = <<0, 1>> \/ IsFall(navs, i - 1, w)
      BY DEF WorstSoFar
    <3>3. IsFall(navs, i - 1, w) => IsFall(navs, i, w)
      <4>1. \A k \in 1 .. i - 1 : k \in 1 .. i
        BY <1>1
      <4>2. QED
        BY <4>1 DEF IsFall
    <3>4. QED
      BY <3>1, <3>2, <3>3
  <2>3. QED
    BY <2>1, <2>2
<1>10. QED
  BY <1>6, <1>8, <1>9 DEF WorstSoFar

(* A day keeps the days without a new peak counted. *)
LEMMA QuietStep ==
    ASSUME NEW navs, NEW i \in Nat \ {0}, NEW days, NEW longest, QuietSoFar(navs, i - 1, days, longest),
           NEW d, d = IF Quiet(navs, i) THEN days + 1 ELSE 0,
           NEW m, m = IF d >= longest THEN d ELSE longest
    PROVE  QuietSoFar(navs, i, d, m)
<1>1. days \in 0 .. i - 1 /\ longest \in 0 .. i - 1
  BY DEF QuietSoFar
<1>2. d \in 0 .. i /\ m \in 0 .. i /\ d <= m /\ longest <= m /\ (m = d \/ m = longest)
  BY <1>1
<1>3. \A k \in i - d + 1 .. i : Quiet(navs, k)
  <2>1. ASSUME NEW k \in i - d + 1 .. i PROVE Quiet(navs, k)
    <3>1. CASE Quiet(navs, i)
      <4>1. d = days + 1
        BY <3>1
      <4>2. k = i \/ k \in (i - 1) - days + 1 .. i - 1
        BY <1>1, <4>1
      <4>3. QED
        BY <3>1, <4>2 DEF QuietSoFar
    <3>2. CASE ~ Quiet(navs, i)
      <4>1. d = 0
        BY <3>2
      <4>2. QED
        BY <2>1, <4>1
    <3>3. QED
      BY <3>1, <3>2
  <2>2. QED
    BY <2>1
<1>4. d < i => ~ Quiet(navs, i - d)
  <2>1. SUFFICES ASSUME d < i PROVE ~ Quiet(navs, i - d)
    OBVIOUS
  <2>2. CASE Quiet(navs, i)
    <3>1. d = days + 1
      BY <2>2
    <3>2. days < i - 1 /\ i - d = (i - 1) - days
      BY <1>1, <2>1, <3>1
    <3>3. QED
      BY <3>2 DEF QuietSoFar
  <2>3. CASE ~ Quiet(navs, i)
    <3>1. d = 0 /\ i - 0 = i
      BY <2>3
    <3>2. QED
      BY <2>3, <3>1
  <2>4. QED
    BY <2>2, <2>3
<1>5. ASSUME NEW p \in 1 .. i, NEW q \in 1 .. i, QuietRun(navs, p, q) PROVE q - p + 1 <= m
  <2>1. p \in Nat /\ q \in Nat /\ p <= q
    BY <1>5 DEF QuietRun
  <2>2. CASE q = i
    <3>1. p > i - d
      <4>1. SUFFICES ASSUME p <= i - d PROVE FALSE
        BY <1>2, <2>1
      <4>2. d < i /\ i - d \in p .. q
        BY <1>2, <2>1, <2>2, <4>1
      <4>3. QED
        BY <1>4, <1>5, <4>2 DEF QuietRun
    <3>2. QED
      BY <1>2, <2>1, <2>2, <3>1
  <2>3. CASE q # i
    <3>1. p \in 1 .. i - 1 /\ q \in 1 .. i - 1
      BY <2>1, <2>3
    <3>2. q - p + 1 <= longest
      BY <1>5, <3>1 DEF QuietSoFar
    <3>3. QED
      BY <1>1, <1>2, <2>1, <3>2
  <2>4. QED
    BY <2>2, <2>3
<1>6. m > 0 => \E p, q \in 1 .. i : QuietRun(navs, p, q) /\ m = q - p + 1
  <2>1. SUFFICES ASSUME m > 0 PROVE \E p, q \in 1 .. i : QuietRun(navs, p, q) /\ m = q - p + 1
    OBVIOUS
  <2>2. CASE m = d
    <3>1. i - d + 1 \in 1 .. i /\ i \in 1 .. i /\ i - d + 1 <= i /\ m = i - (i - d + 1) + 1
      BY <1>2, <2>1, <2>2
    <3>2. QuietRun(navs, i - d + 1, i)
      BY <1>3, <3>1 DEF QuietRun
    <3>3. QED
      BY <3>1, <3>2
  <2>3. CASE m # d
    <3>1. m = longest
      BY <1>2, <2>3
    <3>2. PICK p \in 1 .. i - 1, q \in 1 .. i - 1 : QuietRun(navs, p, q) /\ longest = q - p + 1
      BY <2>1, <3>1 DEF QuietSoFar
    <3>3. p \in 1 .. i /\ q \in 1 .. i
      OBVIOUS
    <3>4. QED
      BY <3>1, <3>2, <3>3
  <2>4. QED
    BY <2>2, <2>3
<1>7. QED
  BY <1>2, <1>3, <1>4, <1>5, <1>6 DEF QuietSoFar

(* A day keeps all of it. *)
LEMMA DescendStep ==
    ASSUME NEW navs, NEW n, LevelsOf(navs, n), NEW i \in 1 .. n, NEW acc, SoFar(navs, i - 1, acc)
    PROVE  SoFar(navs, i, Descend(acc, navs[i]))
<1>1. PICK next : next = Descend(acc, navs[i])
  OBVIOUS
<1>2. n \in Nat /\ i \in Nat /\ i >= 1 /\ navs[i] \in Nat
  BY DEF LevelsOf
<1>3. PeakSoFar(navs, i - 1, acc) /\ WorstSoFar(navs, i - 1, acc.worst) /\ QuietSoFar(navs, i - 1, acc.days, acc.longest)
  BY DEF SoFar
<1>4. acc.peak \in Int /\ acc.days \in Int /\ acc.longest \in Int
  <2>1. acc.days \in 0 .. i - 1 /\ acc.longest \in 0 .. i - 1
    BY <1>3 DEF QuietSoFar
  <2>2. acc.peak \in Int
    BY <1>3 DEF PeakSoFar
  <2>3. QED
    BY <1>2, <2>1, <2>2
<1>5. /\ next.peak = IF navs[i] > acc.peak THEN navs[i] ELSE acc.peak
      /\ next.days = IF navs[i] > acc.peak THEN 0 ELSE acc.days + 1
      /\ next.worst = IF Over(<<next.peak - navs[i], next.peak>>, acc.worst)
                        THEN <<next.peak - navs[i], next.peak>> ELSE acc.worst
      /\ next.longest = IF next.days >= acc.longest THEN next.days ELSE acc.longest
  <2>1. navs[i] \in Int
    BY <1>2
  <2>2. QED
    BY <1>1, <1>4, <2>1, DescendFields
<1>6. PeakSoFar(navs, i, next)
  BY <1>3, <1>5, PeakStep
<1>7. WorstSoFar(navs, i, next.worst)
  <2>1. next.peak \in Nat \ {0} /\ (\A k \in 1 .. i : navs[k] <= next.peak) /\ \E k \in 1 .. i : next.peak = navs[k]
    BY <1>2, <1>6 DEF PeakSoFar
  <2>2. QED
    BY <1>3, <1>5, <2>1, WorstStep
<1>8. QuietSoFar(navs, i, next.days, next.longest)
  <2>1. Quiet(navs, i) <=> ~ navs[i] > acc.peak
    BY <1>3, QuietBelowPeak
  <2>2. next.days = IF Quiet(navs, i) THEN acc.days + 1 ELSE 0
    BY <1>5, <2>1
  <2>3. i \in Nat \ {0}
    BY <1>2
  <2>4. QED
    BY <1>3, <1>5, <2>2, <2>3, QuietStep
<1>9. QED
  BY <1>1, <1>6, <1>7, <1>8 DEF SoFar

(* The accumulator of any day is right about the days so far. *)
LEMMA DrawdownSoFar ==
    ASSUME NEW navs, NEW n, LevelsOf(navs, n), Len(navs) = n
    PROVE  SoFar(navs, n, Drawdown(navs))
<1>1. n \in Nat /\ n >= 1
  BY DEF LevelsOf
<1>2. PICK g : g = CHOOSE h : Unrolls(navs, h, n)
  OBVIOUS
<1>3. Unrolls(navs, g, n)
  BY <1>1, <1>2, HistoryExists
<1>4. Drawdown(navs) = g[n]
  BY <1>2, DrawdownUnfolds
<1> DEFINE Bad == {k \in 0 .. n : ~ SoFar(navs, k, g[k])}
<1>5. Bad = {}
  <2>1. SUFFICES ASSUME Bad # {} PROVE FALSE
    OBVIOUS
  <2>2. PICK m \in Bad : m \in Nat /\ \A y \in Bad : m <= y
    <3>1. Bad \in SUBSET (0 .. n)
      OBVIOUS
    <3> HIDE DEF Bad
    <3>2. QED
      BY <1>1, <2>1, <3>1, LeastOf
  <2>3. m \in 0 .. n /\ ~ SoFar(navs, m, g[m])
    OBVIOUS
  <2>4. g[m] = IF m = 0 THEN FirstDay(navs) ELSE Descend(g[m - 1], navs[m])
    BY <1>3, <2>3 DEF Unrolls
  <2>5. CASE m = 0
    BY <2>3, <2>4, <2>5, FirstDaySoFar
  <2>6. CASE m # 0
    <3>1. m \in 1 .. n /\ m - 1 \in 0 .. n /\ ~ m <= m - 1
      BY <1>1, <2>2, <2>3, <2>6
    <3>2. SoFar(navs, m - 1, g[m - 1])
      BY <2>2, <3>1
    <3>3. SoFar(navs, m, Descend(g[m - 1], navs[m]))
      BY <3>1, <3>2, DescendStep
    <3>4. QED
      BY <2>3, <2>4, <2>6, <3>3
  <2>7. QED
    BY <2>5, <2>6
<1>6. n \in 0 .. n
  BY <1>1
<1>7. QED
  BY <1>4, <1>5, <1>6

(* For any levels: the drawdown computed in one pass is the worst fall from *)
(* a day to a later one, and its length the longest time without a new peak *)
(* (analytics.py compute_metrics). *)
THEOREM DrawdownIsWorst ==
    ASSUME NEW navs, NEW n, LevelsOf(navs, n), Len(navs) = n
    PROVE  IsWorstFall(navs, Drawdown(navs))
<1>1. PICK fall : fall = Drawdown(navs)
  OBVIOUS
<1>2. WorstSoFar(navs, n, fall.worst) /\ QuietSoFar(navs, n, fall.days, fall.longest)
  BY <1>1, DrawdownSoFar DEF SoFar
<1>3. n \in Nat /\ n >= 1 /\ DOMAIN navs = 1 .. n /\ \A k \in 1 .. n : navs[k] \in Nat \ {0}
  BY DEF LevelsOf
<1>4. \A i, j \in DOMAIN navs : i <= j => ~ Over(<<navs[i] - navs[j], navs[i]>>, fall.worst)
  BY <1>2, <1>3 DEF WorstSoFar
<1>5. \E i, j \in DOMAIN navs : i <= j /\ ~ Over(fall.worst, <<navs[i] - navs[j], navs[i]>>)
  <2>1. CASE fall.worst = <<0, 1>>
    <3>1. 1 \in DOMAIN navs /\ navs[1] \in Nat
      BY <1>3
    <3>2. ~ Over(fall.worst, <<navs[1] - navs[1], navs[1]>>)
      BY <2>1, <3>1 DEF Over
    <3>3. QED
      BY <3>1, <3>2
  <2>2. CASE IsFall(navs, n, fall.worst)
    <3>1. PICK i \in 1 .. n, j \in 1 .. n : i <= j /\ fall.worst = <<navs[i] - navs[j], navs[i]>>
      BY <2>2 DEF IsFall
    <3>2. PICK a \in Int, b \in Int : a = navs[i] - navs[j] /\ b = navs[i]
      BY <1>3
    <3>3. ~ Over(<<a, b>>, <<a, b>>)
      BY DEF Over
    <3>4. QED
      BY <1>3, <3>1, <3>2, <3>3
  <2>3. QED
    BY <1>2, <2>1, <2>2 DEF WorstSoFar
<1>6. PICK days : days = DOMAIN navs
  OBVIOUS
<1>7. PICK quiet : quiet = {p \in days \X days : /\ p[1] <= p[2]
                                                 /\ \A k \in p[1] .. p[2] : \E j \in 1 .. k :
                                                      navs[j] >= navs[k] /\ (j < k \/ k = 1)}
  OBVIOUS
<1>8. PICK X : X = {0} \cup {p[2] - p[1] + 1 : p \in quiet}
  OBVIOUS
<1>9. \A p \in quiet : p[1] \in 1 .. n /\ p[2] \in 1 .. n /\ QuietRun(navs, p[1], p[2])
  BY <1>3, <1>6, <1>7 DEF QuietRun, Quiet
<1>10. X \in SUBSET (0 .. n)
  <2>1. \A p \in quiet : p[2] - p[1] + 1 \in 0 .. n
    <3>1. ASSUME NEW p \in quiet PROVE p[2] - p[1] + 1 \in 0 .. n
      <4>1. p[1] \in 1 .. n /\ p[2] \in 1 .. n /\ p[1] <= p[2]
        BY <1>9 DEF QuietRun
      <4>2. QED
        BY <1>3, <4>1
    <3>2. QED
      BY <3>1
  <2>2. 0 \in 0 .. n
    BY <1>3
  <2>3. QED
    BY <1>8, <2>1, <2>2
<1>11. \A x \in X : x <= fall.longest
  <2>1. fall.longest >= 0
    BY <1>2, <1>3 DEF QuietSoFar
  <2>2. \A p \in quiet : p[2] - p[1] + 1 <= fall.longest
    BY <1>2, <1>9 DEF QuietSoFar
  <2>3. QED
    BY <1>8, <2>1, <2>2
<1>12. fall.longest \in X
  <2>1. CASE fall.longest = 0
    BY <1>8, <2>1
  <2>2. CASE fall.longest # 0
    <3>1. fall.longest > 0
      BY <1>2, <1>3, <2>2 DEF QuietSoFar
    <3>2. PICK p \in 1 .. n, q \in 1 .. n : QuietRun(navs, p, q) /\ fall.longest = q - p + 1
      BY <1>2, <3>1 DEF QuietSoFar
    <3>3. PICK r \in days \X days : r = <<p, q>> /\ r[1] = p /\ r[2] = q
      <4>1. p \in days /\ q \in days
        BY <1>3, <1>6
      <4>2. <<p, q>> \in days \X days
        BY <4>1
      <4>3. <<p, q>>[1] = p /\ <<p, q>>[2] = q
        OBVIOUS
      <4>4. QED
        BY <4>2, <4>3
    <3>4. r \in quiet
      BY <1>7, <3>2, <3>3 DEF QuietRun, Quiet
    <3>5. r[2] - r[1] + 1 \in X
      BY <1>8, <3>4
    <3>6. QED
      BY <3>2, <3>3, <3>5
  <2>3. QED
    BY <2>1, <2>2
<1>13. fall.longest = Max(X)
  <2>1. PICK z \in Int : z = 0
    OBVIOUS
  <2>2. IsFiniteSet(z .. n)
    BY <1>3, FS_Interval
  <2>3. IsFiniteSet(X)
    BY <1>10, <2>1, <2>2, FS_Subset
  <2>4. \A x \in X : x \in Int
    BY <1>3, <1>10
  <2>5. X \in SUBSET Int /\ X # {}
    BY <1>12, <2>4
  <2>6. Max(X) \in X /\ \A y \in X : Max(X) >= y
    BY <2>3, <2>5, LatestInSet
  <2>7. QED
    BY <1>11, <1>12, <2>4, <2>6
<1>14. fall.longest = Max({0} \cup {p[2] - p[1] + 1 : p \in quiet})
  BY <1>8, <1>13
<1>15. QED
  BY <1>1, <1>4, <1>5, <1>6, <1>7, <1>14 DEF IsWorstFall
-----------------------------------------------------------------------------
(* A benchmark against itself *)

(* A common factor cancels in a division rounded down. *)
LEMMA FactorCancels ==
    ASSUME NEW x \in Nat, NEW y \in Nat \ {0}, NEW k \in Nat \ {0}
    PROVE  (k * x) \div (k * y) = x \div y
<1>1. PICK q \in Nat, r \in Nat : x = y * q + r /\ r < y /\ q = x \div y
  <2>1. PICK q \in Nat : q = x \div y
    OBVIOUS
  <2>2. y * q <= x /\ x < y * q + y
    BY <2>1
  <2>3. y * q \in Int
    OBVIOUS
  <2>4. QED
    BY <2>1, <2>2, <2>3
<1>2. PICK d \in Nat \ {0}, m \in Nat, e \in Nat : d = k * y /\ m = k * x /\ e = k * r /\ e < d
  <2>1. k * (y - r - 1) >= 0
    <3>1. y - r - 1 \in Nat
      BY <1>1
    <3>2. QED
      BY <3>1, SignOfProduct
  <2>2. k * (y - r - 1) = k * y - k * r - k
    OBVIOUS
  <2>3. k * y \in Int /\ k * r \in Int /\ k * r >= 0 /\ k * x \in Int /\ k * x >= 0
    OBVIOUS
  <2>4. k * r < k * y
    BY <2>1, <2>2, <2>3
  <2>5. QED
    BY <2>3, <2>4
<1>3. m = d * q + e
  <2>1. k * (y * q + r) = k * (y * q) + k * r
    OBVIOUS
  <2>2. k * (y * q) = d * q
    BY <1>2
  <2>3. QED
    BY <1>1, <1>2, <2>1, <2>2
<1>4. PICK z \in Nat : z = m \div d
  OBVIOUS
<1>5. d * z <= m /\ m < d * z + d
  BY <1>4
<1>6. d * (z - q) <= e /\ d * (q - z) < d
  <2>1. d * (z - q) = d * z - d * q /\ d * (q - z) = d * q - d * z
    OBVIOUS
  <2>2. d * z \in Int /\ d * q \in Int
    OBVIOUS
  <2>3. QED
    BY <1>2, <1>3, <1>5, <2>1, <2>2
<1>7. ASSUME NEW v \in Int, d * v < d PROVE v <= 0
  <2>1. SUFFICES ASSUME v >= 1 PROVE FALSE
    OBVIOUS
  <2>2. d * (v - 1) >= 0
    <3>1. v - 1 \in Nat
      BY <2>1
    <3>2. QED
      BY <3>1, SignOfProduct
  <2>3. d * (v - 1) = d * v - d /\ d * v \in Int
    OBVIOUS
  <2>4. QED
    BY <1>7, <2>2, <2>3
<1>8. d * (z - q) < d
  <2>1. d * (z - q) \in Int
    OBVIOUS
  <2>2. QED
    BY <1>2, <1>6, <2>1
<1>9. z - q <= 0 /\ q - z <= 0
  BY <1>6, <1>7, <1>8
<1>10. QED
  BY <1>1, <1>2, <1>4, <1>9

(* Returns do not depend on the scale of the levels. *)
LEMMA ReturnsScaled ==
    ASSUME NEW navs, NEW n, LevelsOf(navs, n), Len(navs) = n, NEW factor \in Nat \ {0},
           NEW scaled, scaled = [i \in DOMAIN navs |-> factor * navs[i]]
    PROVE  /\ Len(scaled) = n
           /\ Returns(scaled) = Returns(navs)
           /\ Returns(navs) \in [1 .. n - 1 -> Int]
<1>1. n \in Nat /\ n >= 1 /\ DOMAIN navs = 1 .. n /\ \A k \in 1 .. n : navs[k] \in Nat \ {0}
  BY DEF LevelsOf
<1>2. Len(scaled) = n
  BY <1>1
<1>3. ASSUME NEW i \in 1 .. n - 1
      PROVE  /\ (100 * scaled[i + 1]) \div scaled[i] - 100 = (100 * navs[i + 1]) \div navs[i] - 100
             /\ (100 * navs[i + 1]) \div navs[i] - 100 \in Int
  <2>1. i \in 1 .. n /\ i + 1 \in 1 .. n
    BY <1>1
  <2>2. PICK a \in Nat \ {0}, b \in Nat \ {0} : a = navs[i] /\ b = navs[i + 1]
    BY <1>1, <2>1
  <2>3. scaled[i] = factor * a /\ scaled[i + 1] = factor * b
    BY <1>1, <2>1, <2>2
  <2>4. PICK x \in Nat : x = 100 * b
    OBVIOUS
  <2>5. 100 * (factor * b) = factor * x
    BY <2>4
  <2>6. (factor * x) \div (factor * a) = x \div a
    BY FactorCancels
  <2>7. x \div a \in Int
    OBVIOUS
  <2>8. (100 * scaled[i + 1]) \div scaled[i] = (factor * x) \div (factor * a)
    BY <2>3, <2>5
  <2>9. (100 * navs[i + 1]) \div navs[i] = x \div a
    BY <2>2, <2>4
  <2>10. (100 * scaled[i + 1]) \div scaled[i] = (100 * navs[i + 1]) \div navs[i]
    BY <2>6, <2>8, <2>9
  <2>11. (100 * navs[i + 1]) \div navs[i] - 100 \in Int
    BY <2>7, <2>9
  <2>12. QED
    BY <2>10, <2>11
<1>4. Returns(scaled) = [i \in 1 .. n - 1 |-> (100 * scaled[i + 1]) \div scaled[i] - 100]
  BY <1>2 DEF Returns
<1>5. Returns(navs) = [i \in 1 .. n - 1 |-> (100 * navs[i + 1]) \div navs[i] - 100]
  BY DEF Returns
<1>6. Returns(scaled) = Returns(navs)
  <2>1. PICK f, g : f = Returns(scaled) /\ g = Returns(navs)
    OBVIOUS
  <2>2. f = [i \in 1 .. n - 1 |-> f[i]] /\ g = [i \in 1 .. n - 1 |-> g[i]]
    BY <1>4, <1>5, <2>1
  <2>3. \A i \in 1 .. n - 1 : f[i] = (100 * scaled[i + 1]) \div scaled[i] - 100
    BY <1>4, <2>1
  <2>4. \A i \in 1 .. n - 1 : g[i] = (100 * navs[i + 1]) \div navs[i] - 100
    BY <1>5, <2>1
  <2>5. ASSUME NEW i \in 1 .. n - 1 PROVE f[i] = g[i]
    <3>1. PICK x, y : x = (100 * scaled[i + 1]) \div scaled[i] - 100 /\ y = (100 * navs[i + 1]) \div navs[i] - 100
      OBVIOUS
    <3>2. f[i] = x /\ g[i] = y
      BY <2>3, <2>4, <3>1
    <3>3. x = y
      BY <1>3, <3>1
    <3>4. QED
      BY <3>2, <3>3
  <2>6. f = g
    BY <2>2, <2>5
  <2>7. QED
    BY <2>1, <2>6
<1>7. Returns(navs) \in [1 .. n - 1 -> Int]
  BY <1>3, <1>5
<1>8. QED
  BY <1>2, <1>6, <1>7

(* For any levels and any scale: set against itself, a benchmark has beta  *)
(* one and nothing is left to track (analytics.py                          *)
(* compute_benchmark_comparison).                                          *)
THEOREM BenchmarkTracksItself ==
    ASSUME NEW navs, NEW n, LevelsOf(navs, n), Len(navs) = n, NEW factor \in Nat \ {0}
    PROVE  TracksItself(navs, factor)
<1>1. PICK scaled : scaled = [i \in DOMAIN navs |-> factor * navs[i]]
  OBVIOUS
<1>2. PICK m \in Nat : m = n - 1
  BY DEF LevelsOf
<1>3. PICK r \in [1 .. m -> Int] : r = Returns(navs) /\ r = Returns(scaled) /\ Len(scaled) = n
  <2>1. Len(scaled) = n /\ Returns(scaled) = Returns(navs) /\ Returns(navs) \in [1 .. n - 1 -> Int]
    BY <1>1, ReturnsScaled
  <2>2. QED
    BY <1>2, <2>1
<1>4. n \in Int
  BY DEF LevelsOf
<1>5. Min({Len(scaled), Len(navs)}) - 1 = m
  <2>1. Min({n, n}) = n
    BY <1>4, OfTwo
  <2>2. QED
    BY <1>2, <1>3, <2>1
<1>6. SubSeq(r, 1, m) = r
  <2>1. Len(r) = m /\ r \in Seq(Int)
    BY <1>2
  <2>2. QED
    BY <1>2, <2>1
<1>7. PICK active : active = [i \in 1 .. m |-> r[i] - r[i]]
  OBVIOUS
<1>8. PICK rr : rr = [i \in 1 .. m |-> r[i] * r[i]]
  OBVIOUS
<1>9. IsFiniteSet(1 .. m)
  <2>1. PICK one \in Int : one = 1
    OBVIOUS
  <2>2. IsFiniteSet(one .. m)
    BY FS_Interval
  <2>3. QED
    BY <2>1, <2>2
<1>10. Spread(active) = 0
  <2>1. PICK z \in Int : z = 0
    OBVIOUS
  <2>2. ASSUME NEW f, f = [i \in 1 .. m |-> z] PROVE Total(f) = z
    <3>1. SumFunctionOnSet(f, 1 .. m) = z * Cardinality(1 .. m)
      BY <1>9, <2>1, <2>2, SumConstant
    <3>2. Cardinality(1 .. m) \in Nat
      BY <1>9, FS_CardinalityType
    <3>3. DOMAIN f = 1 .. m
      BY <2>2
    <3>4. Total(f) = SumFunctionOnSet(f, 1 .. m)
      BY <3>3, SumOverDomain DEF Total
    <3>5. QED
      BY <2>1, <3>1, <3>2, <3>4
  <2>3. PICK f : f = [i \in 1 .. m |-> z]
    OBVIOUS
  <2>4. active = f
    BY <1>7, <2>1, <2>3
  <2>5. [i \in DOMAIN active |-> active[i] * active[i]] = f
    BY <2>1, <2>3, <2>4
  <2>6. Len(active) = m
    BY <2>3, <2>4
  <2>7. Total(f) = 0
    BY <2>1, <2>2, <2>3
  <2>8. Spread(active) = m * 0 - 0 * 0
    BY <2>4, <2>5, <2>6, <2>7 DEF Spread
  <2>9. QED
    BY <2>8
<1>11. PICK self : self = BenchmarkComparison(scaled, navs)
  OBVIOUS
<1>12. Spread(r) = m * Total(rr) - Total(r) * Total(r)
  <2>1. Len(r) = m /\ DOMAIN r = 1 .. m
    OBVIOUS
  <2>2. QED
    BY <1>8, <2>1 DEF Spread
<1>13. self.tracking = 0
  <2>1. self.tracking = IF m <= 1 THEN 0 ELSE Spread(active)
    BY <1>3, <1>5, <1>6, <1>7, <1>11 DEF BenchmarkComparison
  <2>2. QED
    BY <1>10, <2>1
<1>14. self.beta[1] = self.beta[2]
  <2>1. self.beta = IF m <= 1 \/ Spread(r) = 0 \/ (Spread(r) = 0 /\ Total(r) = Total(r))
                      THEN <<1, 1>> ELSE <<m * Total(rr) - Total(r) * Total(r), Spread(r)>>
    BY <1>3, <1>5, <1>6, <1>8, <1>11 DEF BenchmarkComparison
  <2>2. QED
    BY <1>12, <2>1
<1>15. self.upCapture[1] = 100 * self.upCapture[2] \/ self.upCapture = <<0, 1>>
  <2>1. PICK on : on = Total([i \in 1 .. m |-> IF i \in {k \in 1 .. m : r[k] > 0} THEN r[i] ELSE 0])
    OBVIOUS
  <2>2. self.upCapture = IF on = 0 THEN <<0, 1>> ELSE <<100 * on, on>>
    BY <1>3, <1>5, <1>6, <1>11, <2>1 DEF BenchmarkComparison
  <2>3. QED
    BY <2>2
<1>16. QED
  BY <1>1, <1>11, <1>13, <1>14, <1>15 DEF TracksItself
-----------------------------------------------------------------------------
(* Spread and difference *)

(* What the spread is made of, over the places of the values. *)
LEMMA SpreadOf ==
    ASSUME NEW n \in Nat, NEW values \in [1 .. n -> Int], NEW squares, squares = [k \in 1 .. n |-> values[k] * values[k]]
    PROVE  /\ IsFiniteSet(1 .. n) /\ Cardinality(1 .. n) = n
           /\ SumFunctionOnSet(values, 1 .. n) \in Int /\ SumFunctionOnSet(squares, 1 .. n) \in Int
           /\ Spread(values) = n * SumFunctionOnSet(squares, 1 .. n)
                                 - SumFunctionOnSet(values, 1 .. n) * SumFunctionOnSet(values, 1 .. n)
<1>1. IsFiniteSet(1 .. n) /\ Cardinality(1 .. n) = n
  <2>1. PICK one \in Int : one = 1
    OBVIOUS
  <2>2. IsFiniteSet(one .. n) /\ Cardinality(one .. n) = IF one > n THEN 0 ELSE n - one + 1
    BY FS_Interval
  <2>3. QED
    BY <2>1, <2>2
<1>2. \A k \in 1 .. n : squares[k] \in Int
  OBVIOUS
<1>3. SumFunctionOnSet(values, 1 .. n) \in Int /\ SumFunctionOnSet(squares, 1 .. n) \in Int
  BY <1>1, <1>2, SumInt
<1>4. DOMAIN values = 1 .. n /\ DOMAIN squares = 1 .. n /\ Len(values) = n
  OBVIOUS
<1>5. squares = [i \in DOMAIN values |-> values[i] * values[i]]
  BY <1>4
<1>6. Total(values) = SumFunctionOnSet(values, 1 .. n) /\ Total(squares) = SumFunctionOnSet(squares, 1 .. n)
  BY <1>4, SumOverDomain DEF Total
<1>7. Spread(values) = n * Total(squares) - Total(values) * Total(values)
  BY <1>4, <1>5 DEF Spread
<1>8. QED
  BY <1>1, <1>3, <1>6, <1>7

(* The square of a sum is at most as many times the sum of the squares. *)
LEMMA SquareOfSum ==
    ASSUME NEW X, IsFiniteSet(X), Cardinality(X) # 0, NEW e \in [X -> Int], NEW ee, ee = [x \in X |-> e[x] * e[x]]
    PROVE  SumFunctionOnSet(e, X) * SumFunctionOnSet(e, X) <= Cardinality(X) * SumFunctionOnSet(ee, X)
<1>1. PICK one \in Int : one = 1
  OBVIOUS
<1>2. PICK d \in [X -> Int] : d = [x \in X |-> one]
  OBVIOUS
<1>3. PICK dd : dd = [x \in X |-> d[x] * d[x]]
  OBVIOUS
<1>4. PICK de : de = [x \in X |-> d[x] * e[x]]
  OBVIOUS
<1>5. \A x \in X : dd[x] = one /\ de[x] = e[x]
  BY <1>1, <1>2, <1>3, <1>4
<1>6. SumFunctionOnSet(dd, X) = one * Cardinality(X)
  BY <1>5, SumConstant
<1>7. Cardinality(X) \in Nat
  BY FS_CardinalityType
<1>8. SumFunctionOnSet(dd, X) = Cardinality(X)
  BY <1>1, <1>6, <1>7
<1>9. SumFunctionOnSet(de, X) = SumFunctionOnSet(e, X)
  BY <1>5, SumAgrees
<1>10. SumFunctionOnSet(de, X) * SumFunctionOnSet(de, X) <= SumFunctionOnSet(dd, X) * SumFunctionOnSet(ee, X)
  <2>1. SumFunctionOnSet(dd, X) # 0
    BY <1>8
  <2>2. QED
    BY <1>3, <1>4, <2>1, ProductsBounded
<1>11. QED
  BY <1>8, <1>9, <1>10

(* g is f with another value at x. *)
ChangedAt(g, f, X, x) ==
    /\ IsFiniteSet(X) /\ x \in X /\ g[x] \in Int
    /\ \A y \in X : f[y] \in Int
    /\ \A y \in X \ {x} : g[y] = f[y]
LEMMA SumChangedAt ==
    ASSUME NEW f, NEW g, NEW X, NEW x, ChangedAt(g, f, X, x)
    PROVE  SumFunctionOnSet(g, X) = SumFunctionOnSet(f, X) - f[x] + g[x]
<1>1. IsFiniteSet(X) /\ g[x] \in Int
  BY DEF ChangedAt
<1>2. x \in X
  BY DEF ChangedAt
<1>3. \A y \in X : f[y] \in Int
  BY DEF ChangedAt
<1>4. \A y \in X \ {x} : g[y] = f[y]
  BY DEF ChangedAt
<1>5. QED
  BY <1>1, <1>2, <1>3, <1>4, SumChanges

(* Two numbers and their mean. *)
LEMMA Midpoint ==
    \A a, b \in Int :
       2 * ((a + b) * (a + b)) = 2 * ((2 * a) * a) + 2 * ((2 * b) * b) - 2 * ((a - b) * (a - b))
  OBVIOUS

(* Two of n values differ by no more than their spread allows. *)
DiffersWithin(n, delta, spread) == n * (delta * delta) <= 2 * spread
LEMMA DifferenceInSpread ==
    ASSUME NEW n \in Nat, NEW values \in [1 .. n -> Int], NEW i \in 1 .. n, NEW j \in 1 .. n
    PROVE  /\ Spread(values) \in Nat
           /\ DiffersWithin(n, values[j] - values[i], Spread(values))
<1>1. PICK X : X = 1 .. n
  OBVIOUS
<1>2. PICK squares : squares = [k \in X |-> values[k] * values[k]]
  OBVIOUS
<1>3. PICK A \in Int, Q \in Int : A = SumFunctionOnSet(values, X) /\ Q = SumFunctionOnSet(squares, X)
  BY <1>1, <1>2, SpreadOf
<1>4. IsFiniteSet(X) /\ Cardinality(X) = n /\ n # 0
  BY <1>1, <1>2, SpreadOf
<1>5. Spread(values) = n * Q - A * A
  BY <1>1, <1>2, <1>3, SpreadOf
<1>6. PICK spread \in Nat : spread = Spread(values)
  <2>1. A * A <= n * Q
    BY <1>1, <1>2, <1>3, <1>4, SquareOfSum
  <2>2. A * A \in Int /\ n * Q \in Int
    OBVIOUS
  <2>3. QED
    BY <1>5, <2>1, <2>2
<1>7. PICK a \in Int, b \in Int : a = values[i] /\ b = values[j]
  OBVIOUS
<1>8. CASE i = j
  <2>1. b - a = 0
    BY <1>7, <1>8
  <2>2. n * (0 * 0) <= 2 * spread
    OBVIOUS
  <2>3. QED
    BY <1>6, <1>7, <2>1, <2>2 DEF DiffersWithin
<1>9. CASE i # j
  <2>1. PICK f, g, h : /\ f = [k \in X |-> 2 * values[k]]
                       /\ g = [k \in X |-> IF k = i THEN a + b ELSE 2 * values[k]]
                       /\ h = [k \in X |-> IF k = i \/ k = j THEN a + b ELSE 2 * values[k]]
    OBVIOUS
  <2>2. PICK ff, gg, hh : /\ ff = [k \in X |-> (2 * values[k]) * (2 * values[k])]
                          /\ gg = [k \in X |-> IF k = i THEN (a + b) * (a + b) ELSE (2 * values[k]) * (2 * values[k])]
                          /\ hh = [k \in X |-> IF k = i \/ k = j THEN (a + b) * (a + b)
                                                                ELSE (2 * values[k]) * (2 * values[k])]
    OBVIOUS
  <2>3. i \in X /\ j \in X /\ \A k \in X : values[k] \in Int
    BY <1>1
  <2>3a. \A k \in X : 2 * values[k] \in Int
    <3>1. \A v \in Int : 2 * v \in Int
      OBVIOUS
    <3>2. QED
      BY <2>3, <3>1
  <2>4. SumFunctionOnSet(f, X) = 2 * A
    <3>1. PICK two \in Int : two = 2
      OBVIOUS
    <3>2. \A k \in X : values[k] \in Int /\ f[k] = two * values[k]
      BY <2>1, <2>3, <3>1
    <3>3. SumFunctionOnSet(f, X) = two * SumFunctionOnSet(values, X)
      BY <1>4, <3>1, <3>2, SumScales
    <3>4. QED
      BY <1>3, <3>1, <3>3
  <2>5. SumFunctionOnSet(ff, X) = 4 * Q
    <3>1. PICK four \in Int : four = 4
      OBVIOUS
    <3>2. ASSUME NEW k \in X PROVE squares[k] \in Int /\ ff[k] = four * squares[k]
      <4>1. PICK v \in Int : v = values[k]
        BY <2>3
      <4>2. squares[k] = v * v /\ ff[k] = (2 * v) * (2 * v)
        BY <1>2, <2>2, <4>1
      <4>3. (2 * v) * (2 * v) = 4 * (v * v) /\ v * v \in Int
        OBVIOUS
      <4>4. QED
        BY <3>1, <4>2, <4>3
    <3>3. SumFunctionOnSet(ff, X) = four * SumFunctionOnSet(squares, X)
      <4>1. \A k \in X : squares[k] \in Int /\ ff[k] = four * squares[k]
        BY <3>2
      <4>2. QED
        BY <1>4, <4>1, SumScales
    <3>4. QED
      BY <1>3, <3>1, <3>3
  <2>6. PICK s \in Int, aa \in Int, bb \in Int, c \in Int :
           s = (a + b) * (a + b) /\ aa = (2 * a) * (2 * a) /\ bb = (2 * b) * (2 * b) /\ c = a + b
    OBVIOUS
  <2>7. SumFunctionOnSet(g, X) = SumFunctionOnSet(f, X) - 2 * a + c
    <3>1. /\ \A k \in X : f[k] \in Int
          /\ g[i] \in Int
          /\ \A k \in X \ {i} : g[k] = f[k]
          /\ f[i] = 2 * a /\ g[i] = c
      BY <1>7, <2>1, <2>3, <2>3a, <2>6
    <3>2. SumFunctionOnSet(g, X) = SumFunctionOnSet(f, X) - f[i] + g[i]
      <4>1. i \in X
        BY <2>3
      <4>2. ChangedAt(g, f, X, i)
        BY <1>4, <3>1, <4>1 DEF ChangedAt
      <4>3. QED
        BY <4>2, SumChangedAt
    <3>3. QED
      BY <3>1, <3>2
  <2>8. SumFunctionOnSet(h, X) = SumFunctionOnSet(g, X) - 2 * b + c
    <3>1. /\ \A k \in X : g[k] \in Int
          /\ h[j] \in Int
          /\ \A k \in X \ {j} : h[k] = g[k]
          /\ g[j] = 2 * b /\ h[j] = c
      BY <1>7, <1>9, <2>1, <2>3, <2>3a, <2>6
    <3>2. SumFunctionOnSet(h, X) = SumFunctionOnSet(g, X) - g[j] + h[j]
      <4>1. j \in X
        BY <2>3
      <4>2. ChangedAt(h, g, X, j)
        BY <1>4, <3>1, <4>1 DEF ChangedAt
      <4>3. QED
        BY <4>2, SumChangedAt
    <3>3. QED
      BY <3>1, <3>2
  <2>9. SumFunctionOnSet(gg, X) = SumFunctionOnSet(ff, X) - aa + s
    <3>0. \A v \in Int : (2 * v) * (2 * v) \in Int
      OBVIOUS
    <3>1. /\ \A k \in X : ff[k] \in Int
          /\ gg[i] \in Int
          /\ \A k \in X \ {i} : gg[k] = ff[k]
          /\ ff[i] = aa /\ gg[i] = s
      BY <1>7, <2>2, <2>3, <2>6, <3>0
    <3>2. SumFunctionOnSet(gg, X) = SumFunctionOnSet(ff, X) - ff[i] + gg[i]
      <4>1. i \in X
        BY <2>3
      <4>2. ChangedAt(gg, ff, X, i)
        BY <1>4, <3>1, <4>1 DEF ChangedAt
      <4>3. QED
        BY <4>2, SumChangedAt
    <3>3. QED
      BY <3>1, <3>2
  <2>10. SumFunctionOnSet(hh, X) = SumFunctionOnSet(gg, X) - bb + s
    <3>0. \A v \in Int : (2 * v) * (2 * v) \in Int
      OBVIOUS
    <3>1. /\ \A k \in X : gg[k] \in Int
          /\ hh[j] \in Int
          /\ \A k \in X \ {j} : hh[k] = gg[k]
          /\ gg[j] = bb /\ hh[j] = s
      BY <1>7, <1>9, <2>2, <2>3, <2>6, <3>0
    <3>2. SumFunctionOnSet(hh, X) = SumFunctionOnSet(gg, X) - gg[j] + hh[j]
      <4>1. j \in X
        BY <2>3
      <4>2. ChangedAt(hh, gg, X, j)
        BY <1>4, <3>1, <4>1 DEF ChangedAt
      <4>3. QED
        BY <4>2, SumChangedAt
    <3>3. QED
      BY <3>1, <3>2
  <2>11. SumFunctionOnSet(h, X) = 2 * A
    BY <2>4, <2>6, <2>7, <2>8
  <2>12. SumFunctionOnSet(hh, X) = 4 * Q - aa - bb + 2 * s
    BY <2>5, <2>6, <2>9, <2>10
  <2>13. h \in [X -> Int] /\ hh = [k \in X |-> h[k] * h[k]]
    <3>1. h \in [X -> Int]
      BY <2>1, <2>3, <2>6
    <3>2. \A k \in X : hh[k] = h[k] * h[k]
      BY <2>1, <2>2
    <3>3. QED
      BY <2>2, <3>1, <3>2
  <2>14. (2 * A) * (2 * A) <= n * (4 * Q - aa - bb + 2 * s)
    <3>1. SumFunctionOnSet(h, X) * SumFunctionOnSet(h, X) <= Cardinality(X) * SumFunctionOnSet(hh, X)
      BY <1>4, <2>13, SquareOfSum
    <3>2. QED
      BY <1>4, <2>11, <2>12, <3>1
  <2>15. PICK dd \in Int : dd = (b - a) * (b - a)
    OBVIOUS
  <2>16. 2 * s = aa + bb - 2 * dd
    <3>1. (b - a) * (b - a) = (a - b) * (a - b)
      OBVIOUS
    <3>2. (2 * a) * (2 * a) = 2 * ((2 * a) * a) /\ (2 * b) * (2 * b) = 2 * ((2 * b) * b)
      OBVIOUS
    <3>3. QED
      BY <2>6, <2>15, <3>1, <3>2, Midpoint
  <2>17. 4 * Q - aa - bb + 2 * s = 4 * Q - 2 * dd
    BY <2>16
  <2>18. PICK nq \in Int, nd \in Int, sq \in Int : nq = n * Q /\ nd = n * dd /\ sq = A * A
    OBVIOUS
  <2>19. n * (4 * Q - 2 * dd) = 4 * nq - 2 * nd /\ (2 * A) * (2 * A) = 4 * sq
    BY <2>18
  <2>20. 4 * sq <= 4 * nq - 2 * nd
    BY <2>14, <2>17, <2>19
  <2>21. spread = nq - sq
    BY <1>5, <1>6, <2>18
  <2>22. nd <= 2 * spread
    BY <2>20, <2>21
  <2>23. QED
    BY <1>6, <1>7, <2>15, <2>18, <2>22 DEF DiffersWithin
<1>10. QED
  BY <1>8, <1>9
-----------------------------------------------------------------------------
(* Probes of the noise *)

(* The floor that n probes with the given values leave. *)
Probes(values) == [i \in 1 .. Len(values) |-> ProbeRun(values[i])]
LEMMA ProbeFloor ==
    ASSUME NEW n \in Nat, n >= 3, NEW values \in [1 .. n -> Int]
    PROVE  ProbeNoise(<<>>, Probes(values), "live", FALSE).stored
             = <<[bundle |-> "live", n |-> n,
                  metrics |-> [m \in {"sharpe", "SPY"} |-> [n |-> n, values |-> values]]]>>
<1>1. PICK runs : runs = Probes(values)
  OBVIOUS
<1>2. Len(values) = n
  OBVIOUS
<1>3. runs = [i \in 1 .. n |-> ProbeRun(values[i])]
  BY <1>1, <1>2 DEF Probes
<1>4. /\ Len(runs) = n /\ DOMAIN runs = 1 .. n
      /\ \A i \in 1 .. n : runs[i] = ProbeRun(values[i])
  BY <1>3
<1>5. \A v : /\ ProbeRun(v).metrics = <<[sharpe |-> v]>>
             /\ ProbeRun(v).metrics[1] = [sharpe |-> v]
             /\ ProbeRun(v).metrics[1]["sharpe"] = v
             /\ DOMAIN ProbeRun(v).metrics[1] = {"sharpe"}
             /\ ProbeRun(v).metrics # <<>>
             /\ DOMAIN ProbeRun(v).benchmarks = {"SPY"}
             /\ ProbeRun(v).benchmarks["SPY"] = v
  BY DEF ProbeRun
<1>6. \A r \in ToSet(runs) : \E i \in 1 .. n : r = ProbeRun(values[i])
  BY <1>4 DEF ToSet
<1>7. PICK first \in ToSet(runs) : first = ProbeRun(values[1]) /\ first = runs[1]
  <2>1. 1 \in 1 .. n
    OBVIOUS
  <2>2. QED
    BY <1>4, <2>1 DEF ToSet
<1>8. PICK shared : shared = {s \in UNION {DOMAIN r.benchmarks : r \in ToSet(runs)} :
                                \A r \in ToSet(runs) : s \in DOMAIN r.benchmarks}
  OBVIOUS
<1>9. shared = {"SPY"}
  <2>1. \A r \in ToSet(runs) : DOMAIN r.benchmarks = {"SPY"}
    BY <1>5, <1>6
  <2>2. \A s \in shared : s = "SPY"
    BY <1>7, <1>8, <2>1
  <2>3. "SPY" \in shared
    BY <1>7, <1>8, <2>1
  <2>4. QED
    BY <2>2, <2>3
<1>10. DOMAIN runs[1].metrics[1] = {"sharpe"}
  <2>1. PICK v : v = values[1] /\ runs[1] = ProbeRun(v)
    BY <1>7
  <2>2. DOMAIN ProbeRun(v).metrics[1] = {"sharpe"}
    BY <1>5
  <2>3. QED
    BY <2>1, <2>2
<1>11. ASSUME NEW m \in {"sharpe"} \cup {"SPY"}
       PROVE  [i \in DOMAIN runs |-> IF m \in {"sharpe"} THEN runs[i].metrics[1][m] ELSE runs[i].benchmarks[m]] = values
  <2>1. PICK f : f = [i \in DOMAIN runs |-> IF m \in {"sharpe"} THEN runs[i].metrics[1][m] ELSE runs[i].benchmarks[m]]
    OBVIOUS
  <2>2. ASSUME NEW i \in 1 .. n PROVE f[i] = values[i]
    <3>1. f[i] = IF m \in {"sharpe"} THEN runs[i].metrics[1][m] ELSE runs[i].benchmarks[m]
      BY <1>4, <2>1
    <3>2. runs[i] = ProbeRun(values[i])
      BY <1>4
    <3>3. runs[i].metrics[1]["sharpe"] = values[i] /\ runs[i].benchmarks["SPY"] = values[i]
      BY <1>5, <3>2
    <3>4. m = "sharpe" \/ m = "SPY"
      OBVIOUS
    <3>5. QED
      BY <3>1, <3>3, <3>4
  <2>3. f = values
    <3>1. f = [i \in 1 .. n |-> f[i]] /\ values = [i \in 1 .. n |-> values[i]]
      BY <1>4, <2>1
    <3>2. QED
      BY <2>2, <3>1
  <2>4. QED
    BY <2>1, <2>3
<1>12. PICK metrics : metrics = [m \in {"sharpe"} \cup {"SPY"} |->
           MetricFloor([i \in DOMAIN runs |-> IF m \in {"sharpe"} THEN runs[i].metrics[1][m] ELSE runs[i].benchmarks[m]])]
  OBVIOUS
<1>13. metrics = [m \in {"sharpe", "SPY"} |-> [n |-> n, values |-> values]]
  <2>1. ASSUME NEW m \in {"sharpe"} \cup {"SPY"} PROVE metrics[m] = [n |-> n, values |-> values]
    <3>1. PICK f : f = [i \in DOMAIN runs |-> IF m \in {"sharpe"} THEN runs[i].metrics[1][m] ELSE runs[i].benchmarks[m]]
      OBVIOUS
    <3>2. f = values
      BY <1>11, <3>1
    <3>3. metrics[m] = MetricFloor(f)
      BY <1>12, <3>1
    <3>4. QED
      BY <1>2, <3>2, <3>3 DEF MetricFloor
  <2>2. PICK names : names = {"sharpe"} \cup {"SPY"} /\ names = {"sharpe", "SPY"}
    OBVIOUS
  <2>3. metrics = [m \in names |-> metrics[m]]
    BY <1>12, <2>2
  <2>4. \A m \in names : metrics[m] = [n |-> n, values |-> values]
    BY <2>1, <2>2
  <2>5. PICK target : target = [m \in names |-> [n |-> n, values |-> values]]
    OBVIOUS
  <2>6. metrics = target
    BY <2>3, <2>4, <2>5
  <2>7. QED
    BY <2>2, <2>5, <2>6
<1>14. NoiseFloor(runs, "live") = [bundle |-> "live", n |-> n, metrics |-> metrics]
  BY <1>4, <1>8, <1>9, <1>10, <1>12 DEF NoiseFloor
<1>15. ~ Len(runs) < MinProbes
  BY <1>4 DEF MinProbes
<1>16. ~ \E r \in ToSet(runs) : r.metrics = <<>>
  BY <1>5, <1>6
<1>17. ProbeNoise(<<>>, runs, "live", FALSE).stored = <<NoiseFloor(runs, "live")>>
  BY <1>15, <1>16 DEF ProbeNoise
<1>18. QED
  BY <1>1, <1>13, <1>14, <1>17

(* The verdicts on two of the probes, with or without the correction. *)
Judged(values, i, j, c) ==
    Experiment(ProbeNoise(<<>>, Probes(values), "live", FALSE).stored, 0,
               ProbeRun(values[i]), ProbeRun(values[j]), c).verdicts

VerdictOf(label) == <<[m \in {"sharpe", "SPY"} |-> label]>>

(* delta is the difference of two probes, which the floor can judge. *)
Comparable(n, values, i, j, floor, delta) ==
    /\ n \in Nat /\ n >= 3 /\ values \in [1 .. n -> Int] /\ i \in 1 .. n /\ j \in 1 .. n
    /\ floor = [n |-> n, values |-> values] /\ delta = values[j] - values[i]
    /\ ~ ZeroNoise(delta, floor)

LEMMA JudgedIs ==
    ASSUME NEW n, NEW values, NEW i, NEW j, NEW c, NEW floor, NEW delta, Comparable(n, values, i, j, floor, delta)
    PROVE  Judged(values, i, j, c) = VerdictOf(Label(delta, floor, Thresholds(n, c)))
<1>0. /\ n \in Nat /\ n >= 3 /\ values \in [1 .. n -> Int] /\ i \in 1 .. n /\ j \in 1 .. n
      /\ floor = [n |-> n, values |-> values] /\ delta = values[j] - values[i]
      /\ ~ ZeroNoise(delta, floor)
  BY DEF Comparable
<1>1. PICK nf : nf = [bundle |-> "live", n |-> n, metrics |-> [m \in {"sharpe", "SPY"} |-> floor]]
  OBVIOUS
<1>2. ProbeNoise(<<>>, Probes(values), "live", FALSE).stored = <<nf>>
  BY <1>0, <1>1, ProbeFloor
<1>3. nf.n = n /\ DOMAIN nf.metrics = {"sharpe", "SPY"} /\ \A m \in {"sharpe", "SPY"} : nf.metrics[m] = floor
  BY <1>1
<1>4. PICK x, y : x = ProbeRun(values[i]) /\ y = ProbeRun(values[j])
  OBVIOUS
<1>5. /\ x.metrics # <<>> /\ y.metrics # <<>>
      /\ DOMAIN x.metrics[1] = {"sharpe"} /\ DOMAIN y.metrics[1] = {"sharpe"}
      /\ x.metrics[1]["sharpe"] = values[i] /\ y.metrics[1]["sharpe"] = values[j]
      /\ DOMAIN x.benchmarks = {"SPY"} /\ DOMAIN y.benchmarks = {"SPY"}
      /\ x.benchmarks["SPY"] = values[i] /\ y.benchmarks["SPY"] = values[j]
  BY <1>4 DEF ProbeRun
<1>6. PICK both, shared : /\ both = IF <<>> \in {x.metrics, y.metrics} THEN {}
                                    ELSE DOMAIN x.metrics[1] \cap DOMAIN y.metrics[1]
                          /\ shared = DOMAIN x.benchmarks \cap DOMAIN y.benchmarks
  OBVIOUS
<1>7. both = {"sharpe"} /\ shared = {"SPY"}
  BY <1>5, <1>6
<1>8. PICK deltas : deltas = [m \in both \cup shared |->
                                IF m \in both THEN y.metrics[1][m] - x.metrics[1][m]
                                ELSE y.benchmarks[m] - x.benchmarks[m]]
  OBVIOUS
<1>9. DOMAIN deltas = {"sharpe", "SPY"} /\ \A m \in {"sharpe", "SPY"} : deltas[m] = delta
  <2>1. DOMAIN deltas = {"sharpe", "SPY"}
    BY <1>7, <1>8
  <2>2. deltas["sharpe"] = delta
    BY <1>0, <1>5, <1>7, <1>8
  <2>3. deltas["SPY"] = delta
    BY <1>0, <1>5, <1>7, <1>8
  <2>4. QED
    BY <2>1, <2>2, <2>3
<1>10. Judged(values, i, j, c) = Verdicts(deltas, nf, c)
  <2>1. <<nf>> # <<>> /\ <<nf>>[1] = nf
    OBVIOUS
  <2>2. PICK verdicts : verdicts = Verdicts(deltas, nf, c)
    OBVIOUS
  <2>3. Experiment(<<nf>>, 0, x, y, c)
          = [outcome |-> IF verdicts = <<>> THEN "zeroNoise" ELSE "judged",
             verdicts |-> verdicts, stale |-> 0 > StaleAfterDays, bundleMismatch |-> nf.bundle # x.bundle]
    BY <1>6, <1>8, <2>1, <2>2 DEF Experiment
  <2>4. Experiment(<<nf>>, 0, x, y, c).verdicts = verdicts
    BY <2>3
  <2>5. QED
    BY <1>2, <1>4, <2>2, <2>4 DEF Judged
<1>11. PICK judged, t : judged = DOMAIN deltas \cap DOMAIN nf.metrics /\ t = Thresholds(nf.n, c)
  OBVIOUS
<1>12. judged = {"sharpe", "SPY"} /\ t = Thresholds(n, c)
  BY <1>3, <1>9, <1>11
<1>13. ~ \E m \in judged : ZeroNoise(deltas[m], nf.metrics[m])
  BY <1>0, <1>3, <1>9, <1>12
<1>14. Verdicts(deltas, nf, c) = <<[m \in judged |-> Label(deltas[m], nf.metrics[m], t)]>>
  BY <1>11, <1>13 DEF Verdicts
<1>15. [m \in judged |-> Label(deltas[m], nf.metrics[m], t)] = [m \in judged |-> Label(delta, floor, t)]
  BY <1>3, <1>9, <1>12
<1>16. QED
  BY <1>10, <1>12, <1>14, <1>15 DEF VerdictOf

(* What a difference of two probes is judged to be. *)
LEMMA LabelOf ==
    ASSUME NEW n \in {3, 4}, NEW values \in [1 .. n -> Int], NEW i \in 1 .. n, NEW j \in 1 .. n,
           NEW floor, floor = [n |-> n, values |-> values], NEW delta, delta = values[j] - values[i]
    PROVE  /\ ~ ZeroNoise(delta, floor)
           /\ Label(delta, floor, Thresholds(n, TRUE)) # "LIKELY SIGNAL"
           /\ n = 3 => Label(delta, floor, Thresholds(n, FALSE)) # "LIKELY SIGNAL"
           /\ Strong(Label(delta, floor, Thresholds(n, TRUE))) <= Strong(Label(delta, floor, Thresholds(n, FALSE)))
<1>1. n \in Nat /\ floor.n = n /\ floor.values = values /\ delta \in Int
  OBVIOUS
<1>2. PICK S \in Nat, D \in Nat : S = Spread(values) /\ D = delta * delta /\ (D = 0 => delta = 0)
  <2>1. Spread(values) \in Nat
    BY <1>1, DifferenceInSpread
  <2>2. PICK d \in Int : d = delta
    BY <1>1
  <2>3. d * d \in Nat /\ (d * d = 0 => d = 0)
    OBVIOUS
  <2>4. QED
    BY <2>1, <2>2, <2>3
<1>3. n * D <= 2 * S
  <2>1. DiffersWithin(n, delta, Spread(values))
    BY <1>1, DifferenceInSpread
  <2>2. QED
    BY <1>2, <2>1 DEF DiffersWithin
<1>4. ~ ZeroNoise(delta, floor)
  <2>1. SUFFICES ASSUME S = 0 PROVE delta = 0
    BY <1>1, <1>2 DEF ZeroNoise
  <2>2. D = 0
    BY <1>3, <2>1
  <2>3. QED
    BY <1>2, <2>2
<1>5. ASSUME NEW t \in Int
      PROVE  Exceeds(delta, floor, t) <=> (D * (n * (n - 1))) * 1000000 > (t * t) * S
  BY <1>1, <1>2 DEF Exceeds
<1>6. /\ n = 3 => /\ ~ Exceeds(delta, floor, 2000) /\ ~ Exceeds(delta, floor, 4303)
      /\ n = 4 => ~ Exceeds(delta, floor, 3182)
      /\ n = 3 => (Exceeds(delta, floor, 1386) => Exceeds(delta, floor, 1000))
      /\ n = 4 => (Exceeds(delta, floor, 1250) => Exceeds(delta, floor, 1000))
  <2>1. CASE n = 3
    <3>1. D * (n * (n - 1)) = 6 * D /\ 3 * D <= 2 * S
      BY <1>3, <2>1
    <3>2. /\ Exceeds(delta, floor, 2000) <=> (6 * D) * 1000000 > (2000 * 2000) * S
          /\ Exceeds(delta, floor, 4303) <=> (6 * D) * 1000000 > (4303 * 4303) * S
          /\ Exceeds(delta, floor, 1386) <=> (6 * D) * 1000000 > (1386 * 1386) * S
          /\ Exceeds(delta, floor, 1000) <=> (6 * D) * 1000000 > (1000 * 1000) * S
      BY <1>5, <3>1
    <3>3. QED
      BY <2>1, <3>1, <3>2
  <2>2. CASE n = 4
    <3>1. D * (n * (n - 1)) = 12 * D /\ 4 * D <= 2 * S
      BY <1>3, <2>2
    <3>2. /\ Exceeds(delta, floor, 3182) <=> (12 * D) * 1000000 > (3182 * 3182) * S
          /\ Exceeds(delta, floor, 1250) <=> (12 * D) * 1000000 > (1250 * 1250) * S
          /\ Exceeds(delta, floor, 1000) <=> (12 * D) * 1000000 > (1000 * 1000) * S
      BY <1>5, <3>1
    <3>3. QED
      BY <2>2, <3>1, <3>2
  <2>3. QED
    BY <2>1, <2>2
<1>7. \A t : Label(delta, floor, t) = IF S = 0 THEN "WITHIN NOISE"
                                      ELSE IF Exceeds(delta, floor, t[1]) THEN "LIKELY SIGNAL"
                                      ELSE IF Exceeds(delta, floor, t[2]) THEN "POSSIBLE SIGNAL"
                                      ELSE "WITHIN NOISE"
  BY <1>1, <1>2 DEF Label
<1>8. Strong("LIKELY SIGNAL") = 2 /\ Strong("POSSIBLE SIGNAL") = 1 /\ Strong("WITHIN NOISE") = 0
  BY DEF Strong
<1>9. \A t, u : (Exceeds(delta, floor, t[2]) => Exceeds(delta, floor, u[2])) /\ ~ Exceeds(delta, floor, t[1])
                  => Strong(Label(delta, floor, t)) <= Strong(Label(delta, floor, u))
  <2>1. SUFFICES ASSUME NEW t, NEW u, Exceeds(delta, floor, t[2]) => Exceeds(delta, floor, u[2]),
                        ~ Exceeds(delta, floor, t[1])
                 PROVE  Strong(Label(delta, floor, t)) <= Strong(Label(delta, floor, u))
    OBVIOUS
  <2>2. \/ Label(delta, floor, t) = "WITHIN NOISE"
        \/ /\ Label(delta, floor, t) = "POSSIBLE SIGNAL"
           /\ Label(delta, floor, u) \in {"LIKELY SIGNAL", "POSSIBLE SIGNAL"}
    BY <1>7, <2>1
  <2>3. Label(delta, floor, u) \in {"LIKELY SIGNAL", "POSSIBLE SIGNAL", "WITHIN NOISE"}
    BY <1>7
  <2>4. Strong(Label(delta, floor, u)) \in {0, 1, 2}
    BY <1>8, <2>3
  <2>5. CASE Label(delta, floor, t) = "WITHIN NOISE"
    <3>1. PICK x \in Int : x = Strong(Label(delta, floor, u)) /\ x >= 0
      BY <2>4
    <3>2. Strong(Label(delta, floor, t)) = 0
      BY <1>8, <2>5
    <3>3. 0 <= x
      BY <3>1
    <3>4. QED
      BY <3>1, <3>2, <3>3
  <2>6. CASE Label(delta, floor, t) = "POSSIBLE SIGNAL" /\ Label(delta, floor, u) \in {"LIKELY SIGNAL", "POSSIBLE SIGNAL"}
    <3>1. Strong(Label(delta, floor, t)) = 1
      BY <1>8, <2>6
    <3>2. Strong(Label(delta, floor, u)) \in {1, 2}
      BY <1>8, <2>6
    <3>3. QED
      BY <3>1, <3>2
  <2>7. QED
    BY <2>2, <2>5, <2>6
<1>10. PICK t, u : t = Thresholds(n, TRUE) /\ u = Thresholds(n, FALSE)
  OBVIOUS
<1>11. /\ ~ Exceeds(delta, floor, t[1])
       /\ n = 3 => ~ Exceeds(delta, floor, u[1])
       /\ Exceeds(delta, floor, t[2]) => Exceeds(delta, floor, u[2])
  <2>1. u[1] = 2000 /\ u[2] = 1000
    <3>1. u = <<2000, 1000>>
      BY <1>10 DEF Thresholds
    <3>2. QED
      BY <3>1
  <2>1a. n - 1 \in 2 .. 29 /\ t = <<TCritical005[n - 2], TCritical032[n - 2]>>
    <3>1. n - 1 \in 2 .. 29
      OBVIOUS
    <3>2. QED
      BY <1>10, <3>1 DEF Thresholds
  <2>2. CASE n = 3
    <3>1. t[1] = 4303 /\ t[2] = 1386
      <4>1. n - 2 = 1
        BY <2>2
      <4>2. TCritical005[1] = 4303 /\ TCritical032[1] = 1386
        BY DEF TCritical005, TCritical032
      <4>3. t = <<4303, 1386>>
        BY <2>1a, <4>1, <4>2
      <4>4. QED
        BY <4>3
    <3>2. QED
      BY <1>6, <2>1, <2>2, <3>1
  <2>3. CASE n = 4
    <3>1. t[1] = 3182 /\ t[2] = 1250
      <4>1. n - 2 = 2
        BY <2>3
      <4>2. TCritical005[2] = 3182 /\ TCritical032[2] = 1250
        BY DEF TCritical005, TCritical032
      <4>3. t = <<3182, 1250>>
        BY <2>1a, <4>1, <4>2
      <4>4. QED
        BY <4>3
    <3>2. QED
      BY <1>6, <2>1, <2>3, <3>1
  <2>4. QED
    BY <2>2, <2>3
<1>12. Label(delta, floor, t) # "LIKELY SIGNAL"
  BY <1>7, <1>11
<1>13. n = 3 => Label(delta, floor, u) # "LIKELY SIGNAL"
  BY <1>7, <1>11
<1>14. Strong(Label(delta, floor, t)) <= Strong(Label(delta, floor, u))
  BY <1>9, <1>11
<1>15. QED
  BY <1>4, <1>10, <1>12, <1>13, <1>14

(* A difference and its opposite are judged the same. *)
LEMMA OppositeLabel ==
    ASSUME NEW d \in Int, NEW floor, NEW t
    PROVE  Label(-d, floor, t) = Label(d, floor, t)
<1>1. (-d) * (-d) = d * d
  OBVIOUS
<1>2. \A x : Exceeds(-d, floor, x) <=> Exceeds(d, floor, x)
  BY <1>1 DEF Exceeds
<1>3. QED
  BY <1>2 DEF Label

(* For any values of three or four probes: two of them are never a likely *)
(* signal with the correction, of three not even without it; the          *)
(* correction never strengthens a verdict; the order does not matter      *)
(* (statistics.py compute_verdicts). *)
THEOREM ProbesStayNoise ==
    ASSUME NEW n \in {3, 4}, NEW values \in [1 .. n -> Int], NEW corrected \in BOOLEAN
    PROVE  StaysNoise(values, corrected)
<1>1. n \in Nat /\ n >= 3 /\ Len(values) = n
  OBVIOUS
<1>2. PICK floor : floor = [n |-> n, values |-> values]
  OBVIOUS
<1>3. ASSUME NEW i \in 1 .. n, NEW j \in 1 .. n
      PROVE  /\ Judged(values, i, j, FALSE) # <<>> /\ Judged(values, i, j, TRUE) # <<>>
             /\ n = 3 \/ corrected => Judged(values, i, j, corrected)[1]["sharpe"] # "LIKELY SIGNAL"
             /\ \A m \in {"sharpe", "SPY"} : Strong(Judged(values, i, j, TRUE)[1][m])
                                               <= Strong(Judged(values, i, j, FALSE)[1][m])
             /\ Judged(values, j, i, TRUE) = Judged(values, i, j, TRUE)
  <2>1. PICK delta \in Int : delta = values[j] - values[i] /\ -delta = values[i] - values[j]
    OBVIOUS
  <2>2. /\ ~ ZeroNoise(delta, floor)
        /\ Label(delta, floor, Thresholds(n, TRUE)) # "LIKELY SIGNAL"
        /\ n = 3 => Label(delta, floor, Thresholds(n, FALSE)) # "LIKELY SIGNAL"
        /\ Strong(Label(delta, floor, Thresholds(n, TRUE))) <= Strong(Label(delta, floor, Thresholds(n, FALSE)))
    BY <1>2, <2>1, LabelOf
  <2>3. \A c \in BOOLEAN : Judged(values, i, j, c) = VerdictOf(Label(delta, floor, Thresholds(n, c)))
    <3>1. ASSUME NEW c \in BOOLEAN
          PROVE  Judged(values, i, j, c) = VerdictOf(Label(delta, floor, Thresholds(n, c)))
      <4>1. Comparable(n, values, i, j, floor, delta)
        BY <1>1, <1>2, <2>1, <2>2 DEF Comparable
      <4>2. QED
        BY <4>1, JudgedIs
    <3>2. QED
      BY <3>1
  <2>4. ~ ZeroNoise(-delta, floor)
    BY <1>2, <2>1, LabelOf
  <2>5. Judged(values, j, i, TRUE) = VerdictOf(Label(-delta, floor, Thresholds(n, TRUE)))
    <3>1. Comparable(n, values, j, i, floor, -delta)
      BY <1>1, <1>2, <2>1, <2>4 DEF Comparable
    <3>2. ASSUME NEW c \in BOOLEAN
          PROVE  Judged(values, j, i, c) = VerdictOf(Label(-delta, floor, Thresholds(n, c)))
      <4>1. PICK back \in Int : back = -delta
        OBVIOUS
      <4>2. Comparable(n, values, j, i, floor, back)
        BY <3>1, <4>1
      <4>3. Judged(values, j, i, c) = VerdictOf(Label(back, floor, Thresholds(n, c)))
        BY <4>2, JudgedIs
      <4>4. QED
        BY <4>1, <4>3
    <3>3. QED
      BY <3>2
  <2>6. Label(-delta, floor, Thresholds(n, TRUE)) = Label(delta, floor, Thresholds(n, TRUE))
    BY OppositeLabel
  <2>7. PICK L : L = [c \in BOOLEAN |-> Label(delta, floor, Thresholds(n, c))]
    OBVIOUS
  <2>8. \A c \in BOOLEAN : /\ Judged(values, i, j, c) # <<>>
                           /\ \A m \in {"sharpe", "SPY"} : Judged(values, i, j, c)[1][m] = L[c]
    <3>1. ASSUME NEW c \in BOOLEAN
          PROVE  /\ Judged(values, i, j, c) # <<>>
                 /\ \A m \in {"sharpe", "SPY"} : Judged(values, i, j, c)[1][m] = L[c]
      <4>1. PICK v : v = [m \in {"sharpe", "SPY"} |-> L[c]]
        OBVIOUS
      <4>2. Judged(values, i, j, c) = <<v>>
        BY <2>3, <2>7, <4>1 DEF VerdictOf
      <4>3. <<v>> # <<>> /\ <<v>>[1] = v
        OBVIOUS
      <4>4. QED
        BY <4>1, <4>2, <4>3
    <3>2. QED
      BY <3>1
  <2>9. /\ L[TRUE] # "LIKELY SIGNAL" /\ (n = 3 => L[FALSE] # "LIKELY SIGNAL")
        /\ Strong(L[TRUE]) <= Strong(L[FALSE])
    BY <2>2, <2>7
  <2>10. Judged(values, j, i, TRUE) = Judged(values, i, j, TRUE)
    BY <2>3, <2>5, <2>6
  <2>11. n = 3 \/ corrected => Judged(values, i, j, corrected)[1]["sharpe"] # "LIKELY SIGNAL"
    <3>1. CASE corrected = TRUE
      BY <2>8, <2>9, <3>1
    <3>2. CASE corrected = FALSE
      BY <2>8, <2>9, <3>2
    <3>3. QED
      BY <3>1, <3>2
  <2>12. \A m \in {"sharpe", "SPY"} : Strong(Judged(values, i, j, TRUE)[1][m])
                                        <= Strong(Judged(values, i, j, FALSE)[1][m])
    BY <2>8, <2>9
  <2>13. QED
    BY <2>8, <2>10, <2>11, <2>12
<1>4. StaysNoise(values, corrected) =
        \A i, j \in 1 .. Len(values) :
           /\ Judged(values, i, j, FALSE) # <<>> /\ Judged(values, i, j, TRUE) # <<>>
           /\ Len(values) = 3 \/ corrected => Judged(values, i, j, corrected)[1]["sharpe"] # "LIKELY SIGNAL"
           /\ \A m \in {"sharpe", "SPY"} : Strong(Judged(values, i, j, TRUE)[1][m])
                                             <= Strong(Judged(values, i, j, FALSE)[1][m])
           /\ Judged(values, j, i, TRUE) = Judged(values, i, j, TRUE)
  BY DEF StaysNoise, Judged, Probes
<1>5. QED
  BY <1>1, <1>3, <1>4
-----------------------------------------------------------------------------
(* The worked cases of these *)

(* Every pick is of its own topic. *)
LEMMA OtherTopics ==
    ASSUME PickCase
    PROVE  \/ PickScores \/ PickRules \/ PickNavs \/ PickProbes
           \/ case'.topic \notin {"scores", "rules", "navs", "probes"}
<1>1. CASE PickScreen
  BY <1>1 DEF PickScreen
<1>2. CASE PickUniverse
  <2>1. PICK dates \in SUBSET Reports : \E snapshots \in [dates -> Lists], asOf \in {15, 20, 25, 40} :
           case' = [topic |-> "universe", snapshots |-> snapshots, day |-> asOf]
    BY <1>2 DEF PickUniverse
  <2>2. QED
    BY <2>1
<1>3. CASE PickFilings
  BY <1>3 DEF PickFilings
<1>4. CASE PickAnswer
  BY <1>4 DEF PickAnswer
<1>5. CASE PickNews
  BY <1>5 DEF PickNews
<1>6. CASE PickWeights
  BY <1>6 DEF PickWeights
<1>7. CASE PickBook
  BY <1>7 DEF PickBook
<1>8. CASE PickBasket
  BY <1>8 DEF PickBasket
<1>9. CASE PickCorrelation
  BY <1>9 DEF PickCorrelation
<1>10. CASE PickRuns
  BY <1>10 DEF PickRuns
<1>11. CASE PickTrips
  BY <1>11 DEF PickTrips
<1>12. CASE PickCalendar
  BY <1>12 DEF PickCalendar
<1>13. QED
  BY <1>1, <1>2, <1>3, <1>4, <1>5, <1>6, <1>7, <1>8, <1>9, <1>10, <1>11, <1>12 DEF PickCase

(* The integers 1 .. n are a finite set. *)
LEMMA CountingFinite == ASSUME NEW n \in Nat PROVE IsFiniteSet(1 .. n)
<1>1. PICK one \in Int : one = 1
  OBVIOUS
<1>2. IsFiniteSet(one .. n)
  BY FS_Interval
<1>3. QED
  BY <1>1, <1>2

RanksAndRules == RanksFollowScores /\ RulesMonotone

(* Ranks follow the scores and rules the figures, in every worked case. *)
LEMMA RanksAndRulesKept == Cases => []RanksAndRules
<1>1. NoCase => RanksAndRules
  BY DEF NoCase, RanksAndRules, RanksFollowScores, RulesMonotone, Topic
<1>2. RanksAndRules /\ [PickCase]_case => RanksAndRules'
  <2>1. CASE UNCHANGED case
    BY <2>1 DEF RanksAndRules, RanksFollowScores, RulesMonotone, Topic
  <2>2. CASE PickScores
    <3>1. PICK n \in {4, 5, 6} : \E s \in [1 .. n -> {2, 5, 8}] : case' = [topic |-> "scores", scores |-> s]
      BY <2>2 DEF PickScores
    <3>2. PICK scores \in [1 .. n -> {2, 5, 8}] : case' = [topic |-> "scores", scores |-> scores]
      BY <3>1
    <3>3. case'.topic = "scores" /\ case'.scores = scores
      BY <3>2
    <3>4. FollowsScores(scores, Straight, Reversed)
      <4>1. DOMAIN scores = 1 .. n /\ n \in Nat
        OBVIOUS
      <4>2. IsFiniteSet(DOMAIN scores)
        BY <4>1, CountingFinite
      <4>3. \A u \in DOMAIN scores : scores[u] \in 1 .. 10
        BY <4>1
      <4>4. QED
        BY <4>2, <4>3, RanksFollow
    <3>5. RanksFollowScores'
      BY <3>3, <3>4 DEF RanksFollowScores, Straight, Reversed, Names
    <3>6. RulesMonotone'
      BY <3>3 DEF RulesMonotone, Topic
    <3>7. QED
      BY <3>5, <3>6 DEF RanksAndRules
  <2>3. CASE PickRules
    <3>1. PICK change \in Rates, growth \in Rates, age \in {10, 60, 90}, above \in BOOLEAN,
               gain \in {0, 3, 9}, loss \in {0, 3, 9} :
             case' = [topic |-> "rules", change |-> change, growth |-> growth, age |-> age,
                      up |-> above, gain |-> gain, loss |-> loss]
      BY <2>3 DEF PickRules
    <3>2. /\ case'.topic = "rules" /\ case'.change = change
          /\ case'.gain \in Nat /\ case'.loss \in Nat /\ case'.up \in BOOLEAN
      BY <3>1
    <3>3. \A r \in Rates : r \in Int
      BY DEF Rates, Unknown
    <3>4. PICK c : c = case'
      OBVIOUS
    <3>5. c.gain \in Nat /\ c.loss \in Nat /\ c.up \in BOOLEAN
      BY <3>2, <3>4
    <3>6. ASSUME change # Unknown, NEW better \in Rates \ {Unknown}, better >= change
          PROVE  NeverLowers(change, better, c)
      <4>1. change \in Int /\ better \in Int /\ change <= better /\ better # Unknown
        BY <3>3, <3>6
      <4>2. QED
        BY <3>5, <3>6, <4>1, RulesNeverLower
    <3>7. RulesMonotone'
      BY <3>2, <3>4, <3>6 DEF RulesMonotone
    <3>8. RanksFollowScores'
      BY <3>2 DEF RanksFollowScores, Topic
    <3>9. QED
      BY <3>7, <3>8 DEF RanksAndRules
  <2>4. ASSUME case'.topic \notin {"scores", "rules"} PROVE RanksAndRules'
    BY <2>4 DEF RanksAndRules, RanksFollowScores, RulesMonotone, Topic
  <2>5. PickNavs \/ PickProbes => case'.topic \notin {"scores", "rules"}
    BY DEF PickNavs, PickProbes
  <2>6. QED
    BY <2>1, <2>2, <2>3, <2>4, <2>5, OtherTopics
<1>3. QED
  BY <1>1, <1>2, PTL DEF Cases

(* For all values of the configuration: from figures to scores, ranks,     *)
(* weights and positions, order and bounds are kept                        *)
(* (quantitative_analysts.py, ranker.py, adaptive_weights.py,              *)
(* portfolio_manager.py, attribution.py).                                  *)
THEOREM ScoringStaysSound == Cases => []ScoringSound
<1>1. RanksAndRules /\ WeightsSound => ScoringSound
  BY DEF RanksAndRules, ScoringSound
<1>2. QED
  BY <1>1, RanksAndRulesKept, WeightsStayBounded, PTL

(* For any length of the series: the worst fall reported is the worst      *)
(* there was, and what is called a signal stands out from the noise        *)
(* (analytics.py compute_metrics, statistics.py compute_verdicts).         *)
THEOREM StatisticsStaySound == Cases => []StatisticsSound
<1>1. NoCase => StatisticsSound
  BY DEF NoCase, StatisticsSound, DrawdownIsWorstFall, NoiseIsNotSignal, Topic
<1>2. StatisticsSound /\ [PickCase]_case => StatisticsSound'
  <2>1. CASE UNCHANGED case
    BY <2>1 DEF StatisticsSound, DrawdownIsWorstFall, NoiseIsNotSignal, Topic
  <2>2. CASE PickNavs
    <3>1. PICK navs \in [1 .. Depth -> {8, 9, 10, 12}] : case' = [topic |-> "navs", navs |-> navs]
      BY <2>2 DEF PickNavs
    <3>2. case'.topic = "navs" /\ case'.navs = navs
      BY <3>1
    <3>3. LevelsOf(navs, Depth) /\ Len(navs) = Depth
      BY CasesAssumption DEF LevelsOf
    <3>4. PICK factor \in Nat \ {0} : factor = 3
      OBVIOUS
    <3>5. IsWorstFall(navs, Drawdown(navs))
      BY <3>3, DrawdownIsWorst
    <3>6. TracksItself(navs, factor)
      BY <3>3, BenchmarkTracksItself
    <3>7. DrawdownIsWorstFall'
      BY <3>2, <3>4, <3>5, <3>6 DEF DrawdownIsWorstFall
    <3>8. NoiseIsNotSignal'
      BY <3>2 DEF NoiseIsNotSignal, Topic
    <3>9. QED
      BY <3>7, <3>8 DEF StatisticsSound
  <2>3. CASE PickProbes
    <3>1. PICK n \in {3, 4}, corrected \in BOOLEAN : \E v \in [1 .. n -> 0 .. 4] :
             case' = [topic |-> "probes", values |-> v, corrected |-> corrected]
      BY <2>3 DEF PickProbes
    <3>2. PICK values \in [1 .. n -> 0 .. 4] : case' = [topic |-> "probes", values |-> values, corrected |-> corrected]
      BY <3>1
    <3>3. case'.topic = "probes" /\ case'.values = values /\ case'.corrected = corrected
      BY <3>2
    <3>4. values \in [1 .. n -> Int]
      OBVIOUS
    <3>5. StaysNoise(values, corrected)
      BY <3>4, ProbesStayNoise
    <3>6. NoiseIsNotSignal'
      BY <3>3, <3>5 DEF NoiseIsNotSignal
    <3>7. DrawdownIsWorstFall'
      BY <3>3 DEF DrawdownIsWorstFall, Topic
    <3>8. QED
      BY <3>6, <3>7 DEF StatisticsSound
  <2>4. ASSUME case'.topic \notin {"navs", "probes"} PROVE StatisticsSound'
    BY <2>4 DEF StatisticsSound, DrawdownIsWorstFall, NoiseIsNotSignal, Topic
  <2>5. PickScores => case'.topic = "scores"
    BY DEF PickScores
  <2>6. PickRules => case'.topic = "rules"
    BY DEF PickRules
  <2>7. QED
    BY <2>1, <2>2, <2>3, <2>4, <2>5, <2>6, OtherTopics
<1>3. QED
  BY <1>1, <1>2, PTL DEF Cases
-----------------------------------------------------------------------------
Fresh(j)   == result[j] = Nothing /\ row[j] = Nothing
Alive(j)   == Fresh(j) /\ status[j] \in {"running", "cancelled"}
PlaceOK(j) ==
    /\ task[j] = "unused" => Fresh(j) /\ status[j] = "none" /\ event[j] = "absent"
    /\ task[j] \in {"queued", "building"} => Alive(j) /\ event[j] = "absent"
    /\ task[j] = "pipeline" =>
         /\ Alive(j)
         /\ day[j] \in 1 .. Days
         /\ event[j] = IF status[j] = "cancelled" THEN "set" ELSE "clear"
    /\ task[j] = "persisting" =>
         result[j] # Nothing /\ row[j] = Nothing /\ status[j] \in Final
    /\ task[j] = "ended" => status[j] \in Final
    /\ task[j] \in {"lost", "gone"} => result[j] = Nothing /\ status[j] = "none"

IInv == TypeOK /\ RecordMatchesResult /\ \A j \in Jobs : PlaceOK(j)

USE DEF Final, Places, Nothing
-----------------------------------------------------------------------------
(* What a step of one run leaves of the invariant for the others: nothing *)
(* they rest on changes. *)
Same(k) ==
    /\ status'[k] = status[k] /\ result'[k] = result[k] /\ event'[k] = event[k]
    /\ task'[k] = task[k] /\ day'[k] = day[k] /\ row'[k] = row[k]
JobOK(k) ==
    /\ result[k] # Nothing =>
         /\ status[k] = result[k].status
         /\ row[k] \in {Nothing, result[k]}
         /\ result[k].status = "completed" <=> result[k].days = Days
    /\ task[k] = "ended" /\ result[k] = Nothing => status[k] = "failed" /\ row[k] = Nothing
    /\ PlaceOK(k)
Typed ==
    /\ up \in BOOLEAN
    /\ status \in [Jobs -> Final \cup {"none", "running"}]
    /\ result \in [Jobs -> [status : Final \cup {"none"}, days : 0 .. Days]]
    /\ event \in [Jobs -> {"absent", "clear", "set"}]
    /\ task \in [Jobs -> Places]
    /\ day \in [Jobs -> 0 .. Days]
    /\ row \in [Jobs -> [status : Final \cup {"none"}, days : 0 .. Days]]

(* The invariant, run by run. *)
LEMMA JobByJob == IInv <=> Typed /\ \A k \in Jobs : JobOK(k)
BY DEF IInv, Typed, TypeOK, RecordMatchesResult, JobOK, PlaceOK

(* The invariant of the next state holds when it holds of every job. *)
LEMMA JobByJobNext == Typed' /\ (\A k \in Jobs : JobOK(k)') => IInv'
BY DEF IInv, Typed, TypeOK, RecordMatchesResult, JobOK, PlaceOK

(* A step about one job leaves the invariant of the others alone. *)
LEMMA OthersUntouched ==
    ASSUME NEW k \in Jobs, JobOK(k), Same(k)
    PROVE  JobOK(k)'
BY DEF JobOK, PlaceOK, Same, Fresh, Alive

(* A simulation that returns, or raises while computing its metrics. *)
LEMMA EndKeeps ==
    ASSUME NEW j \in Jobs, Typed, JobOK(j), Alive(j), event' \in [Jobs -> {"absent", "clear", "set"}],
           NEW outcome \in Final, NEW n \in 0 .. Days,
           outcome = "completed" <=> n = Days,
           End(j, outcome, n), UNCHANGED <<up, row>>
    PROVE  Typed' /\ JobOK(j)' /\ \A k \in Jobs \ {j} : event'[k] = event[k] => Same(k)
<1>1. CASE /\ result' = [result EXCEPT ![j] = [status |-> outcome, days |-> n]]
           /\ status' = [status EXCEPT ![j] = outcome]
           /\ Goto(j, "persisting")
           /\ UNCHANGED day
  <2>1. Typed'
    BY <1>1 DEF Typed, Goto
  <2>2. /\ result'[j] = [status |-> outcome, days |-> n] /\ status'[j] = outcome
        /\ task'[j] = "persisting" /\ row'[j] = Nothing
    BY <1>1 DEF Typed, Goto, Alive, Fresh
  <2>3. [status |-> outcome, days |-> n] # Nothing
    OBVIOUS
  <2>4. JobOK(j)'
    BY <2>2, <2>3 DEF JobOK, PlaceOK
  <2> QED
    BY <1>1, <2>1, <2>4 DEF Typed, Goto, Same
<1>2. CASE Fail(j) /\ UNCHANGED <<result, day>>
  <2>1. Typed'
    BY <1>2 DEF Typed, Fail, Goto
  <2>2. /\ result'[j] = Nothing /\ row'[j] = Nothing
        /\ status'[j] = "failed" /\ task'[j] = "ended"
    BY <1>2 DEF Typed, Fail, Goto, Alive, Fresh
  <2>3. JobOK(j)'
    BY <2>2 DEF JobOK, PlaceOK
  <2> QED
    BY <1>2, <2>1, <2>3 DEF Typed, Fail, Goto, Same
<1> QED
  BY <1>1, <1>2 DEF End

(* From the top of a day to the next suspension. *)
LEMMA AdvanceKeeps ==
    ASSUME NEW j \in Jobs, Typed, JobOK(j), Alive(j), event' \in [Jobs -> {"absent", "clear", "set"}],
           event'[j] = IF status[j] = "cancelled" THEN "set" ELSE "clear",
           NEW d \in 1 .. Days + 1,
           Advance(j, d, event'[j]), UNCHANGED <<up, row>>
    PROVE  Typed' /\ JobOK(j)' /\ \A k \in Jobs \ {j} : event'[k] = event[k] => Same(k)
<1> USE JobsAssumption
<1>1. CASE d <= Days /\ End(j, "cancelled", d - 1)
  <2>1. d - 1 \in 0 .. Days /\ d - 1 # Days
    BY <1>1
  <2> QED
    BY <1>1, <2>1, EndKeeps
<1>2. CASE End(j, "completed", Days)
  <2>1. Days \in 0 .. Days
    OBVIOUS
  <2> QED
    BY <1>2, <2>1, EndKeeps
<1>3. CASE /\ \E r \in Upcoming(d) : day' = [day EXCEPT ![j] = r]
           /\ Goto(j, "pipeline")
           /\ UNCHANGED <<status, result>>
  <2>1. PICK r \in Upcoming(d) : day' = [day EXCEPT ![j] = r]
    BY <1>3
  <2>2. r \in 1 .. Days
    BY DEF Upcoming
  <2>3. Typed'
    BY <1>3, <2>1, <2>2 DEF Typed, Goto
  <2>4. /\ task'[j] = "pipeline" /\ day'[j] = r /\ status'[j] = status[j]
        /\ result'[j] = Nothing /\ row'[j] = Nothing
    BY <1>3, <2>1 DEF Typed, Goto, Alive, Fresh
  <2>5. JobOK(j)'
    BY <2>2, <2>4 DEF JobOK, PlaceOK, Alive, Fresh
  <2> QED
    BY <1>3, <2>1, <2>3, <2>5 DEF Typed, Goto, Same
<1> QED
  BY <1>1, <1>2, <1>3 DEF Advance

-----------------------------------------------------------------------------
(* The API starts with no job. *)
LEMMA InitOK == Init => IInv
<1> SUFFICES ASSUME Init PROVE Typed /\ \A k \in Jobs : JobOK(k)
  BY JobByJob
<1> USE JobsAssumption
<1> QED
  BY DEF Init, Typed, JobOK, PlaceOK, Fresh

(* A step of one run keeps its own part and does not touch the others. *)
LEMMA TaskStepOK ==
    ASSUME IInv, NEW j \in Jobs, TaskStep(j)
    PROVE  IInv'
<1> USE JobsAssumption
<1>0. Typed /\ \A k \in Jobs : JobOK(k)
  BY JobByJob
<1> SUFFICES Typed' /\ JobOK(j)' /\ \A k \in Jobs \ {j} : Same(k)
  <2>1. \A k \in Jobs \ {j} : JobOK(k)'
    BY <1>0, OthersUntouched
  <2> QED
    BY <2>1, JobByJobNext
<1>1. CASE Build(j)
  BY <1>0, <1>1 DEF Build, Goto, Typed, JobOK, PlaceOK, Same, Alive, Fresh
<1>2. CASE BuildFails(j)
  BY <1>0, <1>2 DEF BuildFails, Fail, Goto, Typed, JobOK, PlaceOK, Same, Alive, Fresh
<1>3. CASE BuildDone(j)
  <2>1. Alive(j)
    BY <1>0, <1>3 DEF BuildDone, JobOK, PlaceOK
  <2>2. /\ event' \in [Jobs -> {"absent", "clear", "set"}]
        /\ event'[j] = IF status[j] = "cancelled" THEN "set" ELSE "clear"
        /\ \A k \in Jobs \ {j} : event'[k] = event[k]
    BY <1>0, <1>3 DEF BuildDone, Typed
  <2>3. 1 \in 1 .. Days + 1
    OBVIOUS
  <2>4. Advance(j, 1, event'[j]) /\ UNCHANGED <<up, row>>
    BY <1>3 DEF BuildDone
  <2> QED
    BY <1>0, <2>1, <2>2, <2>3, <2>4, AdvanceKeeps
<1>4. CASE PipelineDone(j)
  <2>1. /\ Alive(j) /\ day[j] + 1 \in 1 .. Days + 1
        /\ event[j] = IF status[j] = "cancelled" THEN "set" ELSE "clear"
    BY <1>0, <1>4 DEF PipelineDone, JobOK, PlaceOK
  <2>2. Advance(j, day[j] + 1, event'[j]) /\ UNCHANGED <<up, row, event>>
    BY <1>4 DEF PipelineDone
  <2>3. event' \in [Jobs -> {"absent", "clear", "set"}] /\ event'[j] = event[j]
    BY <1>0, <2>2 DEF Typed
  <2> QED
    BY <1>0, <2>1, <2>2, <2>3, AdvanceKeeps
<1>5. CASE PipelineFails(j)
  <2>1. /\ Alive(j) /\ day[j] - 1 \in 0 .. Days /\ day[j] - 1 # Days
    BY <1>0, <1>5 DEF PipelineFails, JobOK, PlaceOK
  <2>2. End(j, "failed", day[j] - 1) /\ UNCHANGED <<up, row, event>>
    BY <1>5 DEF PipelineFails
  <2>3. event' \in [Jobs -> {"absent", "clear", "set"}] /\ \A k \in Jobs : event'[k] = event[k]
    BY <1>0, <2>2 DEF Typed
  <2> QED
    BY <1>0, <2>1, <2>2, <2>3, EndKeeps
<1>6. CASE Persist(j)
  BY <1>0, <1>6 DEF Persist, Goto, Typed, JobOK, PlaceOK, Same, Alive, Fresh
<1>7. CASE PersistFails(j)
  BY <1>0, <1>7 DEF PersistFails, Goto, Typed, JobOK, PlaceOK, Same, Alive, Fresh
<1> QED
  BY <1>1, <1>2, <1>3, <1>4, <1>5, <1>6, <1>7 DEF TaskStep
(* Every step of the API and of its tasks keeps the invariant. *)
LEMMA StepOK == IInv /\ [Next]_vars => IInv'
<1> SUFFICES ASSUME IInv, [Next]_vars PROVE IInv'
  OBVIOUS
<1>0. Typed /\ \A k \in Jobs : JobOK(k)
  BY JobByJob
<1>1. ASSUME NEW j \in Jobs, Run(j) PROVE IInv'
  <2>1. Typed' /\ JobOK(j)'
    BY <1>0, <1>1 DEF Run, Goto, Typed, JobOK, PlaceOK, Alive, Fresh
  <2>2. \A k \in Jobs \ {j} : Same(k)
    BY <1>0, <1>1 DEF Run, Goto, Typed, Same
  <2> QED
    BY <1>0, <2>1, <2>2, OthersUntouched, JobByJobNext
<1>2. ASSUME NEW j \in Jobs, Cancel(j) PROVE IInv'
  <2>1. Typed' /\ JobOK(j)'
    BY <1>0, <1>2 DEF Cancel, Typed, JobOK, PlaceOK, Alive, Fresh
  <2>2. \A k \in Jobs \ {j} : Same(k)
    BY <1>0, <1>2 DEF Cancel, Typed, Same
  <2> QED
    BY <1>0, <2>1, <2>2, OthersUntouched, JobByJobNext
<1>3. ASSUME NEW j \in Jobs, TaskStep(j) PROVE IInv'
  BY <1>3, TaskStepOK
<1>4. CASE Crash
  <2>1. /\ task' \in [Jobs -> {"unused", "lost", "gone"}]
        /\ \A k \in Jobs : task'[k] = "unused" => task[k] = "unused"
    BY <1>0, <1>4 DEF Crash, Typed
  <2>2. \A k \in Jobs : /\ status'[k] = "none" /\ result'[k] = Nothing
                        /\ event'[k] = "absent" /\ row'[k] = row[k]
    BY <1>4 DEF Crash
  <2>3. \A k \in Jobs : JobOK(k)'
    BY <1>0, <2>1, <2>2 DEF JobOK, PlaceOK, Alive, Fresh
  <2>4. Nothing \in [status : Final \cup {"none"}, days : 0 .. Days]
    BY JobsAssumption
  <2>5. result' \in [Jobs -> [status : Final \cup {"none"}, days : 0 .. Days]]
    <3> HIDE DEF Nothing
    <3> QED
      BY <1>4, <2>4 DEF Crash
  <2>6. task' \in [Jobs -> Places] /\ row' = row /\ day' = day /\ up' \in BOOLEAN
    BY <1>4, <2>1 DEF Crash
  <2>7. /\ status' \in [Jobs -> Final \cup {"none", "running"}]
        /\ event' \in [Jobs -> {"absent", "clear", "set"}]
    BY <1>4 DEF Crash
  <2>8. Typed'
    BY <1>0, <2>5, <2>6, <2>7 DEF Typed
  <2> QED
    BY <2>3, <2>8, JobByJobNext
<1>5. CASE Restart
  <2>1. row' = row
    BY <1>0, <1>5 DEF Restart, Typed
  <2> QED
    BY <1>0, <1>5, <2>1, JobByJobNext DEF Restart, Typed, JobOK, PlaceOK, Alive, Fresh
<1>6. CASE UNCHANGED vars
  BY <1>0, <1>6, JobByJobNext DEF vars, Typed, JobOK, PlaceOK, Alive, Fresh
<1> QED
  BY <1>1, <1>2, <1>3, <1>4, <1>5, <1>6 DEF Next

(* The inductive invariant holds throughout. *)
THEOREM Invariant == Spec => []IInv
BY InitOK, StepOK, PTL DEF Spec

(* Types are kept, and record, result and row agree, whatever requests, *)
(* failures and crashes come in between. *)
THEOREM ResultsAgree == Spec => []RecordsSound
<1>1. IInv => RecordsSound
  BY DEF IInv, RecordsSound
<1> QED
  BY <1>1, Invariant, PTL

(* No pipeline of a run starts once its cancellation was accepted. *)
LEMMA NoNewPipeline ==
    ASSUME IInv, [Next]_vars, NEW j \in Jobs, status[j] = "cancelled", task'[j] = "pipeline"
    PROVE  task[j] = "pipeline" /\ day'[j] = day[j]
<1>0. Typed /\ JobOK(j)
  BY JobByJob
<1>1. ASSUME NEW k \in Jobs, TaskStep(k) PROVE task[j] = "pipeline" /\ day'[j] = day[j]
  <2>1. CASE k # j
    BY <1>0, <1>1, <2>1
       DEF Typed, TaskStep, Build, BuildFails, BuildDone, PipelineDone, PipelineFails,
           Persist, PersistFails, Advance, End, Fail, Goto
  <2>2. CASE k = j
    <3>1. ~BuildDone(j)
      <4>1. SUFFICES ASSUME BuildDone(j) PROVE FALSE
        OBVIOUS
      <4>2. event'[j] = "set"
        BY <1>0, <4>1 DEF BuildDone, Typed
      <4> QED
        BY <1>0, <4>1, <4>2, JobsAssumption DEF BuildDone, Advance, End, Fail, Goto, Typed
    <3>2. ~PipelineDone(j)
      <4>1. SUFFICES ASSUME PipelineDone(j) PROVE FALSE
        OBVIOUS
      <4>2. event[j] = "set"
        BY <1>0, <4>1 DEF PipelineDone, JobOK, PlaceOK
      <4> QED
        BY <1>0, <4>1, <4>2, JobsAssumption DEF PipelineDone, Advance, End, Fail, Goto, Typed
    <3> QED
      BY <1>0, <1>1, <2>2, <3>1, <3>2
         DEF Typed, TaskStep, Build, BuildFails, PipelineFails, Persist, PersistFails,
             End, Fail, Goto
  <2> QED
    BY <2>1, <2>2
<1>2. ASSUME NEW k \in Jobs, Run(k) \/ Cancel(k) PROVE task[j] = "pipeline" /\ day'[j] = day[j]
  BY <1>0, <1>2 DEF Run, Cancel, Goto, Typed
<1>3. CASE Crash
  <2>1. task'[j] # "pipeline"
    BY <1>3 DEF Crash
  <2> QED
    BY <2>1
<1>4. CASE Restart \/ UNCHANGED vars
  BY <1>4 DEF Restart, vars
<1> QED
  BY <1>1, <1>2, <1>3, <1>4 DEF Next

(* For any number of jobs: once a cancel was answered, no pipeline of that *)
(* run starts any more, and none that runs simulates another day (api.py *)
(* cancel_backtest and the checks of the run task). *)
THEOREM CancelHonoured == Spec => CancelStops
<1>1. IInv /\ [Next]_vars =>
        [\A j \in Jobs : status[j] = "cancelled" /\ task'[j] = "pipeline"
                            => task[j] = "pipeline" /\ day'[j] = day[j]]_vars
  BY NoNewPipeline
<1> QED
  BY <1>1, Invariant, PTL DEF Spec, CancelStops
=============================================================================
