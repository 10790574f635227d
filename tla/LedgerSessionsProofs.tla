------------------------- MODULE LedgerSessionsProofs -------------------------
(***************************************************************************)
(* Two inductive invariants of the database sessions of one branch.        *)
(*                                                                         *)
(* WholeInv, for any number of overlapping sessions, whatever they trade:  *)
(* lost updates, which the code does not prevent                           *)
(* (portfolio/service.py:303), never leave units without a row, a row      *)
(* without units, or a cost basis without units.  The argument follows a   *)
(* session from copy to commit.  Whatever it sees is sound (ViewSound),    *)
(* because both the committed rows and its own are; a column-wise UPDATE   *)
(* takes each column either from the row as it is or from the values       *)
(* computed at some earlier point (UpdateAt), so units stay naturals       *)
(* although the two may belong to different histories; and what is then    *)
(* written is flat and removed or has units and a row (WrittenSound).      *)
(* Rows of the portfolio table leave positions alone.                      *)
(*                                                                         *)
(* AloneInv, as long as no two sessions have been open at once: the open   *)
(* session sees the committed book with its own operations done to it, one *)
(* after the other, and what it has read and computed, some awaits ago,    *)
(* still follows from that book.  Then an UPDATE restricted to the changed *)
(* columns writes just what was computed (UpdatedFresh, PendingWrites),    *)
(* the flush of the portfolio row completes one operation of the replay    *)
(* (ReplayAppends), a trade past the cash gate neither raises nor          *)
(* overdraws, and the commit publishes the replay.                         *)
(***************************************************************************)
EXTENDS LedgerSessions, PortfolioProofs

-----------------------------------------------------------------------------
(* Replaying operations *)

(* What one operation does to a book. *)
Do(x, o) ==
    CASE o.op = "cash"  -> Adjusted(x, x.cash + o.amount)
      [] o.op = "mark"  -> Marked(x, Price)
      [] o.op = "trade" -> HandleTrade(x, o.trade)

Replays(b, q, D, g) ==
    g = [s \in SUBSET D |-> IF s = {} THEN b ELSE Do(g[s \ {Max(s)}], q[Max(s)])]

(* The library defines a replay by a function iterated over sets of places. *)
LEMMA ReplayUnfolds ==
    ASSUME NEW b, NEW q
    PROVE  Replay(b, q) = (CHOOSE g : Replays(b, q, DOMAIN q, g))[DOMAIN q]
  BY DEF Replay, FoldLeft, MapThenFoldSet, Replays, Do

(* A finite set of numbers has a greatest one. *)
LEMMA MaxInSet ==
    ASSUME NEW S \in SUBSET Int, IsFiniteSet(S), S # {}
    PROVE  Max(S) \in S /\ \A y \in S : Max(S) >= y
<1> DEFINE Greatest(s, x) == x \in s /\ \A y \in s : x >= y
           C == {s \in SUBSET S : s # {} /\ ~ \E x \in s : Greatest(s, x)}
<1>1. SUFFICES ASSUME C # {} PROVE FALSE
  <2>1. S \notin C
    BY <1>1
  <2>2. PICK x \in S : \A y \in S : x >= y
    BY <2>1
  <2>3. QED
    BY <2>2 DEF Max
<1>2. PICK s \in C : \A t \in SUBSET s : t # s => t \notin C
  <2>1. C \in SUBSET SUBSET S
    OBVIOUS
  <2> HIDE DEF C
  <2>2. QED
    BY <1>1, <2>1, SmallestSet
<1>3. s \in SUBSET Int /\ s # {} /\ ~ \E x \in s : Greatest(s, x)
  BY <1>2
<1>4. PICK x \in s : TRUE
  BY <1>3
<1>5. PICK t \in SUBSET s : t = s \ {x}
  OBVIOUS
<1>6. t # s /\ t \in SUBSET S
  BY <1>4, <1>5
<1>7. CASE t = {}
  <2>1. s = {x}
    BY <1>4, <1>5, <1>7
  <2>2. x \in Int
    BY <1>3
  <2>3. Greatest(s, x)
    BY <2>1, <2>2
  <2>4. QED
    BY <1>3, <2>3
<1>8. CASE t # {}
  <2>1. PICK m \in t : Greatest(t, m)
    BY <1>2, <1>6, <1>8
  <2>2. x \in Int /\ m \in Int /\ m \in s
    BY <1>3, <1>5, <2>1
  <2>3. CASE m >= x
    <3>1. Greatest(s, m)
      BY <1>5, <2>1, <2>2, <2>3
    <3>2. QED
      BY <1>3, <2>2, <3>1
  <2>4. CASE x > m
    <3>1. \A y \in s : x >= y
      BY <1>3, <1>5, <2>1, <2>2, <2>4
    <3>2. QED
      BY <1>3, <1>4, <3>1
  <2>5. QED
    BY <2>2, <2>3, <2>4
<1>9. QED
  BY <1>7, <1>8

(* Two replays agree on the places where their operations do. *)
LEMMA ReplaysAgree ==
    ASSUME NEW b, NEW q, NEW r, NEW E \in SUBSET Int, IsFiniteSet(E), NEW D \in SUBSET E,
           \A i \in D : q[i] = r[i], NEW g, NEW h, Replays(b, q, D, g), Replays(b, r, E, h)
    PROVE  \A s \in SUBSET D : g[s] = h[s]
<1> DEFINE C == {s \in SUBSET D : g[s] # h[s]}
<1>1. SUFFICES ASSUME C # {} PROVE FALSE
  OBVIOUS
<1>2. PICK s \in C : \A t \in SUBSET s : t # s => t \notin C
  <2>1. C \in SUBSET SUBSET D /\ IsFiniteSet(D)
    BY FS_Subset
  <2> HIDE DEF C
  <2>2. QED
    BY <1>1, <2>1, SmallestSet
<1>3. s \in SUBSET D /\ s \in SUBSET E
  OBVIOUS
<1>4. CASE s = {}
  BY <1>2, <1>3, <1>4 DEF Replays
<1>5. CASE s # {}
  <2>1. IsFiniteSet(s) /\ s \in SUBSET Int
    BY <1>3, FS_Subset
  <2>2. PICK m \in s : m = Max(s)
    BY <1>5, <2>1, MaxInSet
  <2>3. g[s \ {m}] = h[s \ {m}] /\ q[m] = r[m]
    BY <1>2, <1>3, <2>2
  <2>4. g[s] = Do(g[s \ {m}], q[m]) /\ h[s] = Do(h[s \ {m}], r[m])
    BY <1>3, <1>5, <2>2 DEF Replays
  <2>5. QED
    BY <1>2, <2>3, <2>4
<1>6. QED
  BY <1>4, <1>5

(* The replay of the operations at a finite set of places exists. *)
LEMMA ReplayExists ==
    ASSUME NEW b, NEW q, NEW S \in SUBSET Int, IsFiniteSet(S)
    PROVE  \E g : Replays(b, q, S, g)
<1> DEFINE C == {s \in SUBSET S : ~ \E g : Replays(b, q, s, g)}
<1>1. SUFFICES ASSUME C # {} PROVE FALSE
  OBVIOUS
<1>2. PICK E \in C : \A t \in SUBSET E : t # E => t \notin C
  <2>1. C \in SUBSET SUBSET S
    OBVIOUS
  <2> HIDE DEF C
  <2>2. QED
    BY <1>1, <2>1, SmallestSet
<1>3. E \in SUBSET S /\ IsFiniteSet(E) /\ E \in SUBSET Int
  BY FS_Subset
<1> DEFINE G(t) == CHOOSE g : Replays(b, q, t, g)
           value(s) == IF s = {} THEN b ELSE Do(G(s \ {Max(s)})[s \ {Max(s)}], q[Max(s)])
           h == [s \in SUBSET E |-> value(s)]
<1>4. ASSUME NEW t \in SUBSET E, t # E
      PROVE  Replays(b, q, t, G(t)) /\ IsFiniteSet(t)
  <2>1. \E g : Replays(b, q, t, g)
    BY <1>2, <1>3, <1>4
  <2>2. QED
    BY <1>3, <2>1, FS_Subset
<1>5. ASSUME NEW t \in SUBSET E, t # E
      PROVE  G(t)[t] = value(t)
  <2>1. Replays(b, q, t, G(t)) /\ IsFiniteSet(t) /\ t \in SUBSET Int
    BY <1>3, <1>4, <1>5
  <2>2. CASE t = {}
    BY <2>1, <2>2 DEF Replays
  <2>3. CASE t # {}
    <3>1. PICK m \in t : m = Max(t)
      BY <2>1, <2>3, MaxInSet
    <3>2. PICK u \in SUBSET t : u = t \ {m}
      OBVIOUS
    <3>3. u \in SUBSET E /\ u # E
      BY <3>1, <3>2
    <3>4. Replays(b, q, u, G(u))
      BY <1>4, <3>3
    <3>5. PICK gt, gu : gt = G(t) /\ gu = G(u)
      OBVIOUS
    <3>6. Replays(b, q, t, gt) /\ Replays(b, q, u, gu)
      BY <2>1, <3>4, <3>5
    <3>7. gu[u] = gt[u]
      <4> HIDE DEF G, value, h
      <4> QED BY <2>1, <3>6, ReplaysAgree
    <3>8. gt[t] = Do(gt[u], q[m])
      BY <2>3, <3>1, <3>2, <3>6 DEF Replays
    <3>9. value(t) = Do(gu[u], q[m])
      BY <2>3, <3>1, <3>2, <3>5
    <3>10. QED
      BY <3>5, <3>7, <3>8, <3>9
  <2>4. QED
    BY <2>2, <2>3
<1>6. ASSUME NEW s \in SUBSET E, s # {}
      PROVE  h[s] = Do(h[s \ {Max(s)}], q[Max(s)])
  <2>1. IsFiniteSet(s) /\ s \in SUBSET Int
    BY <1>3, FS_Subset
  <2>2. PICK m \in s : m = Max(s)
    BY <1>6, <2>1, MaxInSet
  <2>3. PICK u \in SUBSET E : u = s \ {m}
    OBVIOUS
  <2>4. u # E
    BY <2>2, <2>3
  <2>5. G(u)[u] = value(u)
    BY <1>5, <2>4
  <2>6. h[u] = value(u) /\ h[s] = value(s)
    OBVIOUS
  <2>7. value(s) = Do(G(u)[u], q[m])
    BY <1>6, <2>2, <2>3
  <2>8. h[s] = Do(h[u], q[m])
    BY <2>5, <2>6, <2>7
  <2>9. QED
    BY <2>2, <2>3, <2>8
<1>7. Replays(b, q, E, h)
  <2>1. h[{}] = b /\ DOMAIN h = SUBSET E
    OBVIOUS
  <2>2. h = [s \in SUBSET E |-> h[s]]
    OBVIOUS
  <2> HIDE DEF h, value, G
  <2>3. \A s \in SUBSET E : h[s] = IF s = {} THEN b ELSE Do(h[s \ {Max(s)}], q[Max(s)])
    BY <1>6, <2>1
  <2>4. QED
    BY <2>2, <2>3 DEF Replays
<1>8. QED
  BY <1>2, <1>7

(* Nothing done leaves the book. *)
LEMMA ReplayNothing ==
    ASSUME NEW b
    PROVE  Replay(b, <<>>) = b
<1>1. DOMAIN <<>> = {} /\ IsFiniteSet({}) /\ {} \in SUBSET Int
  BY FS_EmptySet
<1>2. PICK g : Replays(b, <<>>, {}, g) /\ Replay(b, <<>>) = g[{}]
  BY <1>1, ReplayExists, ReplayUnfolds, Zenon
<1>3. QED
  BY <1>2 DEF Replays

(* An operation added is done last. *)
LEMMA ReplayAppends ==
    ASSUME NEW b, NEW T, NEW q \in Seq(T), NEW o \in T
    PROVE  Replay(b, Append(q, o)) = Do(Replay(b, q), o)
<1>1. PICK n \in Nat : n = Len(q)
  OBVIOUS
<1>2. PICK r : r = Append(q, o)
  OBVIOUS
<1>3. /\ r \in Seq(T) /\ DOMAIN r = 1 .. n + 1 /\ DOMAIN q = 1 .. n
      /\ r[n + 1] = o /\ \A i \in 1 .. n : q[i] = r[i]
  BY <1>1, <1>2
<1>4. PICK D, E : D = 1 .. n /\ E = 1 .. n + 1
  OBVIOUS
<1>4a. D \in SUBSET E /\ E \in SUBSET Int /\ D \in SUBSET Int /\ E # {}
  <2>1. 1 \in E /\ \A i : i \in D => i \in E
    BY <1>4
  <2>2. (\A i : i \in D => i \in Int) /\ (\A i : i \in E => i \in Int)
    BY <1>4
  <2>3. QED
    BY <2>1, <2>2
<1>4b. IsFiniteSet(E) /\ IsFiniteSet(D)
  <2>1. 1 \in Int /\ n \in Int /\ n + 1 \in Int
    OBVIOUS
  <2>2. QED
    BY <1>4, <2>1, FS_Interval
<1>5. PICK g : Replays(b, q, D, g) /\ Replay(b, q) = g[D]
  BY <1>3, <1>4, <1>4a, <1>4b, ReplayExists, ReplayUnfolds, Zenon
<1>6. PICK h : Replays(b, r, E, h) /\ Replay(b, r) = h[E]
  BY <1>3, <1>4, <1>4a, <1>4b, ReplayExists, ReplayUnfolds, Zenon
<1>7. g[D] = h[D]
  <2>1. \A i \in D : q[i] = r[i]
    BY <1>3, <1>4
  <2>2. \A s \in SUBSET D : g[s] = h[s]
    BY <1>4a, <1>4b, <1>5, <1>6, <2>1, ReplaysAgree
  <2>3. QED
    BY <2>2
<1>8. Max(E) = n + 1
  <2>1. PICK m \in E : m = Max(E) /\ \A y \in E : m >= y
    BY <1>4a, <1>4b, MaxInSet
  <2>2. n + 1 \in E
    BY <1>4
  <2>3. QED
    BY <1>4, <2>1, <2>2
<1>9. E \ {n + 1} = D
  BY <1>4
<1>10. h[E] = Do(h[D], r[n + 1])
  BY <1>4a, <1>6, <1>8, <1>9 DEF Replays
<1>11. QED
  BY <1>2, <1>3, <1>5, <1>6, <1>7, <1>10

-----------------------------------------------------------------------------
(* Books and their columns *)

(* A position of a branch that only buys and sells. *)
LongRow(p) == p \in Position /\ p.sq = 0 /\ p.sc = 0 /\ p.sm = 0

(* In book b the position of x has no basis without units, and a row *)
(* exactly when it has units. *)
Whole(b, x) ==
    /\ LongRow(b.pos[x])
    /\ b.pos[x].lq = 0 => b.pos[x].lc = 0
    /\ x \in b.rows <=> b.pos[x].lq > 0

(* A book all of whose positions are whole. *)
Sound(b) == b \in Book /\ \A x \in Symbols : Whole(b, x)

Columns == {"open", "cash", "nav", "long", "short", "margin", "unreal", "real", "rows", "pos"}

(* The columns of a book. *)
LEMMA BookColumns ==
    ASSUME NEW b \in Book
    PROVE  /\ DOMAIN b = Columns /\ b = [f \in Columns |-> b[f]]
           /\ b["open"] = TRUE /\ b["cash"] \in Int /\ b["nav"] \in Int /\ b["long"] \in Int
           /\ b["short"] \in Int /\ b["margin"] \in Int /\ b["unreal"] \in Int /\ b["real"] \in Int
           /\ b["rows"] \in SUBSET Symbols /\ b["pos"] \in [Symbols -> Position]
  BY DEF Book, Columns

(* A record with the columns of a book is one. *)
LEMMA BookOf ==
    ASSUME NEW w, DOMAIN w = Columns, w = [f \in Columns |-> w[f]],
           w["open"] = TRUE, w["cash"] \in Int, w["nav"] \in Int, w["long"] \in Int,
           w["short"] \in Int, w["margin"] \in Int, w["unreal"] \in Int, w["real"] \in Int,
           w["rows"] \in SUBSET Symbols, w["pos"] \in [Symbols -> Position]
    PROVE  w \in Book
  BY DEF Book, Columns

(* Books with the same columns are the same. *)
LEMMA SameBook ==
    ASSUME NEW b \in Book, NEW c \in Book, \A f \in Columns : b[f] = c[f]
    PROVE  b = c
  BY DEF Book, Columns

Fields == {"lq", "lc", "sq", "sc", "sm", "rl", "rs"}

(* The columns of a position row. *)
LEMMA PositionColumns ==
    ASSUME NEW p \in Position
    PROVE  /\ DOMAIN p = Fields /\ p = [f \in Fields |-> p[f]]
           /\ p["lq"] \in Nat /\ p["lc"] \in Nat /\ p["sq"] \in Nat /\ p["sc"] \in Int
           /\ p["sm"] \in Int /\ p["rl"] \in Int /\ p["rs"] \in Int
  BY DEF Position, Fields

(* A record with the columns of a position is one. *)
LEMMA PositionOf ==
    ASSUME NEW p, DOMAIN p = Fields, p = [f \in Fields |-> p[f]],
           p["lq"] \in Nat, p["lc"] \in Nat, p["sq"] \in Nat, p["sc"] \in Int,
           p["sm"] \in Int, p["rl"] \in Int, p["rs"] \in Int
    PROVE  p \in Position
  BY DEF Position, Fields

(* Positions with the same columns are the same. *)
LEMMA SamePosition ==
    ASSUME NEW p \in Position, NEW q \in Position, \A f \in Fields : p[f] = q[f]
    PROVE  p = q
  BY DEF Position, Fields

(* A field of an overwritten record is the new one where there is one. *)
LEMMA OverwriteAt ==
    ASSUME NEW b, NEW fields
    PROVE  /\ DOMAIN Overwrite(b, fields) = DOMAIN b
           /\ Overwrite(b, fields) = [f \in DOMAIN b |-> Overwrite(b, fields)[f]]
           /\ \A f \in DOMAIN b : Overwrite(b, fields)[f]
                = IF f \in DOMAIN fields THEN fields[f] ELSE b[f]
  BY DEF Overwrite

(* A column of an updated row is the session's where the session has changed *)
(* it, and the row's otherwise. *)
LEMMA UpdateAt ==
    ASSUME NEW b, NEW seen, NEW new
    PROVE  /\ DOMAIN Update(b, seen, new) = DOMAIN b
           /\ Update(b, seen, new) = [f \in DOMAIN b |-> Update(b, seen, new)[f]]
           /\ \A f \in DOMAIN b : Update(b, seen, new)[f]
                = IF f \in DOMAIN new /\ new[f] # seen[f] THEN new[f] ELSE b[f]
<1> DEFINE fields == [f \in {g \in DOMAIN new : new[g] # seen[g]} |-> new[f]]
<1>1. /\ \A f : f \in DOMAIN fields <=> f \in DOMAIN new /\ new[f] # seen[f]
      /\ \A f \in DOMAIN fields : fields[f] = new[f]
  OBVIOUS
<1>2. Update(b, seen, new) = Overwrite(b, fields)
  BY DEF Update
<1> HIDE DEF fields
<1>3. QED
  BY <1>1, <1>2, OverwriteAt

(* An ORM update of a long row with computed values gives a long row, *)
(* whatever the session had seen of the row. *)
LEMMA UpdatedHeld ==
    ASSUME NEW p, LongRow(p), NEW seen, NEW new, LongRow(new)
    PROVE  LongRow(Update(p, seen, new))
<1>1. PICK q : q = Update(p, seen, new)
  OBVIOUS
<1>2. p \in Position /\ new \in Position
  BY DEF LongRow
<1>3. DOMAIN p = Fields /\ DOMAIN q = Fields /\ q = [f \in Fields |-> q[f]]
  <2>1. DOMAIN p = Fields
    BY <1>2, PositionColumns
  <2>2. DOMAIN q = DOMAIN p /\ q = [f \in DOMAIN p |-> q[f]]
    BY <1>1, UpdateAt
  <2>3. QED
    BY <2>1, <2>2
<1>4. ASSUME NEW f \in Fields PROVE q[f] = p[f] \/ q[f] = new[f]
  BY <1>1, <1>3, UpdateAt
<1>5. /\ q["lq"] = p["lq"] \/ q["lq"] = new["lq"]
      /\ q["lc"] = p["lc"] \/ q["lc"] = new["lc"]
      /\ q["sq"] = p["sq"] \/ q["sq"] = new["sq"]
      /\ q["sc"] = p["sc"] \/ q["sc"] = new["sc"]
      /\ q["sm"] = p["sm"] \/ q["sm"] = new["sm"]
      /\ q["rl"] = p["rl"] \/ q["rl"] = new["rl"]
      /\ q["rs"] = p["rs"] \/ q["rs"] = new["rs"]
  <2>1. {"lq", "lc", "sq", "sc", "sm", "rl", "rs"} \subseteq Fields
    BY DEF Fields
  <2>2. QED
    BY <1>4, <2>1
<1>6. q \in Position
  <2>1. /\ p["lq"] \in Nat /\ p["lc"] \in Nat /\ p["sq"] \in Nat /\ p["sc"] \in Int
        /\ p["sm"] \in Int /\ p["rl"] \in Int /\ p["rs"] \in Int
    BY <1>2, PositionColumns
  <2>2. /\ new["lq"] \in Nat /\ new["lc"] \in Nat /\ new["sq"] \in Nat /\ new["sc"] \in Int
        /\ new["sm"] \in Int /\ new["rl"] \in Int /\ new["rs"] \in Int
    BY <1>2, PositionColumns
  <2>3. /\ q["lq"] \in Nat /\ q["lc"] \in Nat /\ q["sq"] \in Nat /\ q["sc"] \in Int
        /\ q["sm"] \in Int /\ q["rl"] \in Int /\ q["rs"] \in Int
    BY <1>5, <2>1, <2>2
  <2>4. QED
    BY <1>3, <2>3, PositionOf
<1>7. QED
  BY <1>1, <1>5, <1>6 DEF LongRow

(* An update of a row as it was seen writes exactly what was computed. *)
LEMMA UpdatedFresh ==
    ASSUME NEW p \in Position, NEW new \in Position
    PROVE  Update(p, p, new) = new
<1>1. PICK q : q = Update(p, p, new)
  OBVIOUS
<1>2. DOMAIN p = Fields /\ DOMAIN new = Fields /\ new = [f \in Fields |-> new[f]]
  BY PositionColumns
<1>3. q = [f \in Fields |-> q[f]]
  <2>1. q = [f \in DOMAIN p |-> q[f]]
    BY <1>1, UpdateAt
  <2>2. QED
    BY <1>2, <2>1
<1>4. ASSUME NEW f \in Fields PROVE q[f] = new[f]
  BY <1>1, <1>2, UpdateAt
<1>5. q = new
  BY <1>2, <1>3, <1>4
<1>6. QED
  BY <1>1, <1>5

(* A symbol without a row reads as a long row without units. *)
LEMMA FlatHeld == LongRow(Flat) /\ Flat.lq = 0 /\ Flat.lc = 0
  BY DEF LongRow, Flat, Position

(* upsert followed by delete_if_flat keeps a book sound and touches only the *)
(* rows of the position. *)
LEMMA WrittenSound ==
    ASSUME NEW b, Sound(b), NEW x \in Symbols, NEW p, LongRow(p), NEW w, w = WithPosition(b, x, p)
    PROVE  /\ Sound(w)
           /\ \A f \in Columns \ {"rows", "pos"} : w[f] = b[f]
           /\ \A y \in Symbols \ {x} : w.pos[y] = b.pos[y] /\ (y \in w.rows <=> y \in b.rows)
<1>1. b \in Book /\ b.pos \in [Symbols -> Position] /\ b.rows \in SUBSET Symbols
  BY DEF Sound, Book
<1>2. p \in Position /\ p.lq \in Nat /\ p.sq = 0
  BY DEF LongRow, Position
<1> DEFINE Rewrites(pos, held) ==
             /\ w = [b EXCEPT !.rows = held, !.pos = pos]
             /\ \A y \in Symbols \ {x} : pos[y] = b.pos[y] /\ (y \in held <=> y \in b.rows)
             /\ LongRow(pos[x]) /\ (pos[x].lq = 0 => pos[x].lc = 0) /\ (x \in held <=> pos[x].lq > 0)
<1>3. PICK pos \in [Symbols -> Position], held \in SUBSET Symbols : Rewrites(pos, held)
  <2>1. CASE p.lq = 0
    <3>1. PICK pos : pos = [b.pos EXCEPT ![x] = Flat]
      OBVIOUS
    <3>2. PICK held : held = b.rows \ {x}
      OBVIOUS
    <3>3. w = [b EXCEPT !.rows = held, !.pos = pos]
      BY <1>1, <1>2, <2>1, <3>1, <3>2 DEF WithPosition
    <3>4. pos \in [Symbols -> Position] /\ pos[x] = Flat /\ \A y \in Symbols \ {x} : pos[y] = b.pos[y]
      BY <1>1, <3>1, FlatHeld DEF LongRow
    <3>5. held \in SUBSET Symbols /\ x \notin held /\ \A y \in Symbols \ {x} : y \in held <=> y \in b.rows
      BY <1>1, <3>2
    <3>6. Rewrites(pos, held)
      BY <3>3, <3>4, <3>5, FlatHeld
    <3>7. QED
      <4> HIDE DEF Rewrites
      <4> QED BY <3>4, <3>5, <3>6
  <2>2. CASE p.lq > 0
    <3>1. PICK pos : pos = [b.pos EXCEPT ![x] = p]
      OBVIOUS
    <3>2. PICK held : held = b.rows \cup {x}
      OBVIOUS
    <3>3. w = [b EXCEPT !.rows = held, !.pos = pos]
      BY <1>1, <1>2, <2>2, <3>1, <3>2 DEF WithPosition
    <3>4. pos \in [Symbols -> Position] /\ pos[x] = p /\ \A y \in Symbols \ {x} : pos[y] = b.pos[y]
      BY <1>1, <1>2, <3>1
    <3>5. held \in SUBSET Symbols /\ x \in held /\ \A y \in Symbols \ {x} : y \in held <=> y \in b.rows
      BY <1>1, <3>2
    <3>6. Rewrites(pos, held)
      BY <1>2, <2>2, <3>3, <3>4, <3>5
    <3>7. QED
      <4> HIDE DEF Rewrites
      <4> QED BY <3>4, <3>5, <3>6
  <2>3. p.lq = 0 \/ p.lq > 0
    BY <1>2
  <2>4. QED
    <3> HIDE DEF Rewrites
    <3> QED BY <2>1, <2>2, <2>3
<1>4. w \in Book /\ w.pos = pos /\ w.rows = held
  BY <1>1, <1>3 DEF Book
<1>5. \A f \in Columns \ {"rows", "pos"} : w[f] = b[f]
  BY <1>1, <1>3 DEF Book, Columns
<1>6. ASSUME NEW y \in Symbols PROVE Whole(w, y)
  BY <1>3, <1>4 DEF Sound, Whole
<1>7. QED
  BY <1>3, <1>4, <1>5, <1>6 DEF Sound

(* What somebody sees of the committed book b who has written the rows d of *)
(* c. *)
SeenOf(b, c, d) ==
    LET own == d \cap Symbols
        base == IF Pf \in d THEN c ELSE b
    IN  Overwrite(base, [rows |-> (b.rows \ own) \cup (c.rows \cap own),
                         pos  |-> [x \in Symbols |-> IF x \in own THEN c.pos[x] ELSE b.pos[x]]])

(* A session's view is what it sees of the committed book. *)
LEMMA ViewIs ==
    ASSUME NEW s
    PROVE  View(s) = SeenOf(book, copy[s], dirty[s])
  BY DEF View, SeenOf

(* What is seen of two books is a book, column by column. *)
LEMMA SeenColumns ==
    ASSUME NEW b \in Book, NEW c, NEW d, d # {} => c \in Book, NEW v, v = SeenOf(b, c, d)
    PROVE  /\ v \in Book
           /\ \A f \in Columns \ {"rows", "pos"} : v[f] = IF Pf \in d THEN c[f] ELSE b[f]
           /\ \A x \in Symbols : x \in v.rows <=> IF x \in d THEN x \in c.rows ELSE x \in b.rows
           /\ \A x \in Symbols : v.pos[x] = IF x \in d THEN c.pos[x] ELSE b.pos[x]
<1> DEFINE own == d \cap Symbols
           held == (b.rows \ own) \cup (c.rows \cap own)
           pos == [x \in Symbols |-> IF x \in own THEN c.pos[x] ELSE b.pos[x]]
           base == IF Pf \in d THEN c ELSE b
           fields == [rows |-> held, pos |-> pos]
<1>1. v = Overwrite(base, fields) /\ base \in Book
  BY DEF SeenOf
<1>2. DOMAIN base = Columns
  BY <1>1, BookColumns
<1>3. DOMAIN fields = {"rows", "pos"} /\ fields["rows"] = held /\ fields["pos"] = pos
  OBVIOUS
<1>4. b.pos \in [Symbols -> Position] /\ b.rows \in SUBSET Symbols
  BY DEF Book
<1>5. own # {} => c.pos \in [Symbols -> Position] /\ c.rows \in SUBSET Symbols
  BY DEF Book
<1>6. held \in SUBSET Symbols
  BY <1>4, <1>5
<1>7. pos \in [Symbols -> Position]
  BY <1>4, <1>5
<1>8. \A x \in Symbols : pos[x] = IF x \in d THEN c.pos[x] ELSE b.pos[x]
  OBVIOUS
<1>9. \A x \in Symbols : x \in held <=> IF x \in d THEN x \in c.rows ELSE x \in b.rows
  OBVIOUS
<1>10. /\ DOMAIN v = Columns /\ v = [f \in Columns |-> v[f]]
       /\ v["rows"] = held /\ v["pos"] = pos
       /\ \A f \in Columns \ {"rows", "pos"} : v[f] = base[f]
  <2>1. {"rows", "pos"} \subseteq Columns
    BY DEF Columns
  <2> HIDE DEF base, fields, held, pos
  <2>2. /\ DOMAIN v = DOMAIN base /\ v = [f \in DOMAIN base |-> v[f]]
        /\ \A f \in DOMAIN base : v[f] = IF f \in DOMAIN fields THEN fields[f] ELSE base[f]
    BY <1>1, OverwriteAt
  <2>3. QED
    BY <1>2, <1>3, <2>1, <2>2
<1>11. v \in Book
  <2> HIDE DEF base, fields, held, pos, own
  <2>1. /\ base["open"] = TRUE /\ base["cash"] \in Int /\ base["nav"] \in Int /\ base["long"] \in Int
        /\ base["short"] \in Int /\ base["margin"] \in Int /\ base["unreal"] \in Int
        /\ base["real"] \in Int
    BY <1>1, BookColumns
  <2>2. \A f \in {"open", "cash", "nav", "long", "short", "margin", "unreal", "real"} : v[f] = base[f]
    BY <1>10 DEF Columns
  <2>3. QED
    BY <1>6, <1>7, <1>10, <2>1, <2>2, BookOf
<1>12. \A f \in Columns \ {"rows", "pos"} : v[f] = IF Pf \in d THEN c[f] ELSE b[f]
  BY <1>10
<1>13. QED
  <2> HIDE DEF base, fields, held, pos, own
  <2> QED BY <1>8, <1>9, <1>10, <1>11, <1>12

(* What is seen of two sound books is sound. *)
LEMMA SeenSound ==
    ASSUME NEW b, Sound(b), NEW c, NEW d, d # {} => Sound(c)
    PROVE  Sound(SeenOf(b, c, d))
<1>1. PICK v : v = SeenOf(b, c, d)
  OBVIOUS
<1>2. b \in Book /\ (d # {} => c \in Book)
  BY DEF Sound
<1>3. /\ v \in Book
      /\ \A x \in Symbols : x \in v.rows <=> IF x \in d THEN x \in c.rows ELSE x \in b.rows
      /\ \A x \in Symbols : v.pos[x] = IF x \in d THEN c.pos[x] ELSE b.pos[x]
  BY <1>1, <1>2, SeenColumns
<1>4. ASSUME NEW x \in Symbols PROVE Whole(v, x)
  BY <1>3 DEF Sound, Whole
<1>5. QED
  BY <1>1, <1>3, <1>4 DEF Sound

(* Who has written nothing sees the committed book. *)
LEMMA SeenCommitted ==
    ASSUME NEW b \in Book, NEW c
    PROVE  SeenOf(b, c, {}) = b
<1>1. PICK v, d : v = SeenOf(b, c, d) /\ d = {}
  OBVIOUS
<1>2. /\ v \in Book
      /\ \A f \in Columns \ {"rows", "pos"} : v[f] = b[f]
      /\ \A x \in Symbols : (x \in v.rows <=> x \in b.rows) /\ v.pos[x] = b.pos[x]
  BY <1>1, SeenColumns
<1>3. v.rows \in SUBSET Symbols /\ b.rows \in SUBSET Symbols /\ v.pos \in [Symbols -> Position]
      /\ b.pos \in [Symbols -> Position]
  BY <1>2 DEF Book
<1>4. v["rows"] = b["rows"] /\ v["pos"] = b["pos"]
  BY <1>2, <1>3
<1>5. \A f \in Columns : v[f] = b[f]
  BY <1>2, <1>4
<1>6. QED
  BY <1>1, <1>2, <1>5, SameBook

(* Who writes a row of what he sees then sees what he has written. *)
LEMMA SeenWritten ==
    ASSUME NEW b \in Book, NEW c, NEW d, d # {} => c \in Book, NEW v, v = SeenOf(b, c, d),
           NEW w \in Book, NEW row,
           row = Pf \/ \A f \in Columns \ {"rows", "pos"} : w[f] = v[f],
           \A x \in Symbols : x = row \/ (w.pos[x] = v.pos[x] /\ (x \in w.rows <=> x \in v.rows))
    PROVE  SeenOf(b, w, d \cup {row}) = w
<1>1. PICK e, u : e = d \cup {row} /\ u = SeenOf(b, w, e)
  OBVIOUS
<1>2. /\ u \in Book
      /\ \A f \in Columns \ {"rows", "pos"} : u[f] = IF Pf \in e THEN w[f] ELSE b[f]
      /\ \A x \in Symbols : x \in u.rows <=> IF x \in e THEN x \in w.rows ELSE x \in b.rows
      /\ \A x \in Symbols : u.pos[x] = IF x \in e THEN w.pos[x] ELSE b.pos[x]
  BY <1>1, SeenColumns
<1>3. /\ \A f \in Columns \ {"rows", "pos"} : v[f] = IF Pf \in d THEN c[f] ELSE b[f]
      /\ \A x \in Symbols : x \in v.rows <=> IF x \in d THEN x \in c.rows ELSE x \in b.rows
      /\ \A x \in Symbols : v.pos[x] = IF x \in d THEN c.pos[x] ELSE b.pos[x]
  BY SeenColumns
<1>4. ASSUME NEW f \in Columns \ {"rows", "pos"} PROVE u[f] = w[f]
  BY <1>1, <1>2, <1>3
<1>5. ASSUME NEW x \in Symbols
      PROVE  (x \in u.rows <=> x \in w.rows) /\ u.pos[x] = w.pos[x]
  <2>1. CASE x \in e
    BY <1>2, <2>1
  <2>2. CASE x \notin e
    <3>1. x # row /\ x \notin d
      BY <1>1, <2>2
    <3>2. u.pos[x] = b.pos[x] /\ (x \in u.rows <=> x \in b.rows)
      BY <1>2, <2>2
    <3>3. v.pos[x] = b.pos[x] /\ (x \in v.rows <=> x \in b.rows)
      BY <1>3, <3>1
    <3>4. w.pos[x] = v.pos[x] /\ (x \in w.rows <=> x \in v.rows)
      BY <3>1
    <3>5. QED
      BY <3>2, <3>3, <3>4
  <2>3. QED
    BY <2>1, <2>2
<1>6. u.rows \in SUBSET Symbols /\ w.rows \in SUBSET Symbols /\ u.pos \in [Symbols -> Position]
      /\ w.pos \in [Symbols -> Position]
  BY <1>2 DEF Book
<1>7. u["rows"] = w["rows"] /\ u["pos"] = w["pos"]
  BY <1>5, <1>6
<1>8. \A f \in Columns : u[f] = w[f]
  BY <1>4, <1>7
<1>9. QED
  BY <1>1, <1>2, <1>8, SameBook

(* So does a session that has written the totals of what it saw. *)
LEMMA TotalsSeen ==
    ASSUME NEW b \in Book, NEW c \in Book, NEW d, NEW v, v = SeenOf(b, c, d),
           NEW w \in Book, w.rows = v.rows, w.pos = v.pos
    PROVE  SeenOf(b, w, d \cup {Pf}) = w
<1>1. \A x \in Symbols : x = Pf \/ (w.pos[x] = v.pos[x] /\ (x \in w.rows <=> x \in v.rows))
  OBVIOUS
<1>2. QED
  BY <1>1, SeenWritten

TotalFields == {"cash", "nav", "long", "short", "margin", "unreal", "real"}

(* New values of columns of the portfolio row. *)
TotalsOnly(new) == DOMAIN new \subseteq TotalFields /\ \A f \in DOMAIN new : new[f] \in Int

(* A book whose positions are those of a sound one is sound. *)
LEMMA SoundByPositions ==
    ASSUME NEW b, Sound(b), NEW c \in Book, c.rows = b.rows, c.pos = b.pos
    PROVE  Sound(c)
  BY DEF Sound, Whole

(* An update of the portfolio row keeps a book sound and touches no position. *)
LEMMA TotalsSound ==
    ASSUME NEW b, Sound(b), NEW seen, NEW new, TotalsOnly(new), NEW u, u = Update(b, seen, new)
    PROVE  Sound(u) /\ u.rows = b.rows /\ u.pos = b.pos
<1>1. b \in Book
  BY DEF Sound
<1>2. DOMAIN b = Columns
  BY <1>1, BookColumns
<1>3. /\ DOMAIN u = Columns /\ u = [f \in Columns |-> u[f]]
      /\ \A f \in Columns : u[f] = IF f \in DOMAIN new /\ new[f] # seen[f] THEN new[f] ELSE b[f]
  <2>1. /\ DOMAIN u = DOMAIN b /\ u = [f \in DOMAIN b |-> u[f]]
        /\ \A f \in DOMAIN b : u[f] = IF f \in DOMAIN new /\ new[f] # seen[f] THEN new[f] ELSE b[f]
    BY UpdateAt
  <2>2. QED
    BY <1>2, <2>1
<1>4. {"open", "rows", "pos"} \cap DOMAIN new = {} /\ {"open", "rows", "pos"} \subseteq Columns
  BY DEF TotalsOnly, TotalFields, Columns
<1>5. u["open"] = b["open"] /\ u["rows"] = b["rows"] /\ u["pos"] = b["pos"]
  BY <1>3, <1>4
<1>6. ASSUME NEW f \in TotalFields PROVE u[f] \in Int
  <2>1. b[f] \in Int /\ f \in Columns
    <3>1. /\ b["cash"] \in Int /\ b["nav"] \in Int /\ b["long"] \in Int
          /\ b["short"] \in Int /\ b["margin"] \in Int /\ b["unreal"] \in Int /\ b["real"] \in Int
      BY <1>1, BookColumns
    <3>2. QED
      BY <3>1 DEF TotalFields, Columns
  <2>2. f \in DOMAIN new => new[f] \in Int
    BY DEF TotalsOnly
  <2>3. QED
    BY <1>3, <2>1, <2>2
<1>7. u \in Book
  <2>1. b["open"] = TRUE /\ b["rows"] \in SUBSET Symbols /\ b["pos"] \in [Symbols -> Position]
    BY <1>1, BookColumns
  <2>2. /\ u["cash"] \in Int /\ u["nav"] \in Int /\ u["long"] \in Int
        /\ u["short"] \in Int /\ u["margin"] \in Int /\ u["unreal"] \in Int /\ u["real"] \in Int
    BY <1>6 DEF TotalFields
  <2>3. QED
    BY <1>3, <1>5, <2>1, <2>2, BookOf
<1>8. QED
  BY <1>5, <1>7, SoundByPositions

(* Values that are pending since the row was read write exactly the book they *)
(* were computed from. *)
LEMMA PendingWrites ==
    ASSUME NEW b \in Book, NEW new, DOMAIN new \subseteq Columns, NEW w \in Book,
           \A f \in Columns : w[f] = IF f \in DOMAIN new THEN new[f] ELSE b[f]
    PROVE  Update(b, Pending(b, new).seen, Pending(b, new).new) = w
<1> DEFINE seen == [f \in DOMAIN new |-> b[f]]
<1>1. Pending(b, new).seen = seen /\ Pending(b, new).new = new
  BY DEF Pending
<1>2. PICK u : u = Update(b, seen, new)
  OBVIOUS
<1>3. DOMAIN b = Columns /\ w = [f \in Columns |-> w[f]]
  BY BookColumns
<1>4. /\ u = [f \in DOMAIN b |-> u[f]]
      /\ \A f \in DOMAIN b : u[f] = IF f \in DOMAIN new /\ new[f] # seen[f] THEN new[f] ELSE b[f]
  <2> HIDE DEF seen
  <2> QED BY <1>2, UpdateAt
<1>5. \A f \in DOMAIN new : seen[f] = b[f]
  OBVIOUS
<1>6. \A f \in Columns : u[f] = w[f]
  <2> HIDE DEF seen
  <2> QED BY <1>3, <1>4, <1>5
<1>7. u = w
  <2> HIDE DEF seen
  <2> QED BY <1>3, <1>4, <1>6
<1>8. QED
  BY <1>1, <1>2, <1>7

(* The branch starts with a sound book that holds its cash. *)
LEMMA InitialSound == Sound(InitialBook) /\ InitialBook.cash = InitialCash
<1> DEFINE pos == [s \in Symbols |-> [Flat EXCEPT !.lq = Held[s], !.lc = Held[s] * Price[s]]]
           held == {s \in Symbols : Held[s] > 0}
<1>1. InitialCash \in Int /\ 0 \in Int
  BY LedgerSessionsAssumption
<1>2. ASSUME NEW s \in Symbols
      PROVE  /\ pos[s] \in Position /\ LongRow(pos[s])
             /\ pos[s].lq = Held[s] /\ (Held[s] = 0 => pos[s].lc = 0) /\ Held[s] \in Nat
  <2>1. Held[s] \in Nat /\ Price[s] \in Nat
    BY LedgerSessionsAssumption
  <2>2. PICK q \in Nat, c \in Nat : q = Held[s] /\ c = Held[s] * Price[s] /\ (q = 0 => c = 0)
    BY <2>1
  <2>3. pos[s] = [Flat EXCEPT !.lq = q, !.lc = c]
    BY <2>2
  <2>4. PICK p : p = pos[s]
    OBVIOUS
  <2>5. p = [Flat EXCEPT !.lq = q, !.lc = c]
    BY <2>3, <2>4
  <2>6. p \in Position /\ p.lq = q /\ p.lc = c /\ p.sq = 0 /\ p.sc = 0 /\ p.sm = 0
    <3>1. Flat \in Position /\ Flat.sq = 0 /\ Flat.sc = 0 /\ Flat.sm = 0
      BY FlatHeld DEF LongRow
    <3> HIDE DEF pos
    <3>2. QED
      BY <2>5, <3>1 DEF Position
  <2>7. QED
    <3> HIDE DEF pos
    <3> QED BY <2>1, <2>2, <2>4, <2>6 DEF LongRow
<1>3. pos \in [Symbols -> Position] /\ held \in SUBSET Symbols
  BY <1>2
<1>4. \A s \in Symbols : s \in held <=> pos[s].lq > 0
  BY <1>2
<1>5. InitialBook = WithTotals([Opened(InitialCash) EXCEPT !.rows = held, !.pos = pos], InitialCash, 0)
  BY DEF InitialBook
<1> HIDE DEF pos, held
<1>6. PICK b : b = [Opened(InitialCash) EXCEPT !.rows = held, !.pos = pos]
  OBVIOUS
<1>7. b \in Book /\ b.rows = held /\ b.pos = pos
  BY <1>1, <1>3, <1>6 DEF Opened, Book
<1>8. PICK w : w = InitialBook
  OBVIOUS
<1>9. w \in Book /\ w.pos = pos /\ w.rows = held /\ w.cash = InitialCash
  <2>1. PICK cash \in Int, real \in Int : cash = InitialCash /\ real = 0
    BY <1>1
  <2>2. w = WithTotals(b, cash, real)
    BY <1>5, <1>6, <1>8, <2>1
  <2>3. w \in Book /\ w.pos = b.pos /\ w.rows = b.rows /\ w.cash = cash
    BY <1>7, <2>2, TotalsWritten
  <2>4. QED
    BY <1>7, <2>1, <2>3
<1>10. ASSUME NEW s \in Symbols PROVE Whole(w, s)
  BY <1>2, <1>4, <1>9 DEF Whole
<1>11. QED
  BY <1>8, <1>9, <1>10 DEF Sound

(* A long row of a sound book is settled, and in turn. *)
LEMMA SoundSettled ==
    ASSUME NEW b, Sound(b), NEW x \in Symbols
    PROVE  Settled(b.pos[x]) /\ LongRow(b.pos[x]) /\ b.pos[x] \in Position
  BY DEF Sound, Whole, LongRow, Settled

LongTrades == [sym : Symbols, side : {"BUY", "SELL"}, qty : Nat \ {0}, price : Nat]

(* handle_trade_executed computes a long row for a trade it accepts. *)
LEMMA ComputedHeld ==
    ASSUME NEW p, Settled(p), LongRow(p), NEW t \in LongTrades, Appliable(p, t)
    PROVE  /\ LongRow(PositionAfter(p, t))
           /\ RealizedBy(p, t) \in Int /\ CashDelta(t) \in Int
<1>1. t \in PricedTrades
  BY DEF LongTrades, PricedTrades, Sides, BuySides, SellSides
<1>2. PICK q : q = PositionAfter(p, t)
  OBVIOUS
<1>3. /\ Settled(q) /\ RealizedBy(p, t) \in Int /\ q.sq = p.sq
      /\ CashDelta(t) = RealizedBy(p, t) - (q.lc - p.lc) + (q.sc - p.sc)
  <2>1. t.side \in {"BUY", "SELL"}
    BY DEF LongTrades
  <2>2. QED
    BY <1>1, <1>2, <2>1, TradeSettles
<1>4. q \in Position /\ q.sq = 0 /\ q.sc = 0 /\ q.sm = 0
  <2>1. q \in Position /\ q.sq = 0
    BY <1>3 DEF Settled, LongRow
  <2>2. QED
    BY <1>3, <2>1 DEF Settled
<1>5. p \in Position /\ p.sc = 0
  BY DEF LongRow
<1>6. CashDelta(t) \in Int
  BY <1>3, <1>4, <1>5 DEF Position
<1>7. QED
  BY <1>2, <1>3, <1>4, <1>6 DEF LongRow

(* handle_trade_executed keeps a book sound and moves its cash. *)
LEMMA TradeSound ==
    ASSUME NEW b, Sound(b), NEW t \in LongTrades, Appliable(b.pos[t.sym], t)
    PROVE  Sound(HandleTrade(b, t)) /\ HandleTrade(b, t).cash = b.cash + CashDelta(t)
<1>1. t.sym \in Symbols /\ b.cash \in Int /\ b.real \in Int
  BY DEF LongTrades, Sound, Book
<1>2. PICK p : p = PositionAfter(b.pos[t.sym], t)
  OBVIOUS
<1>3. LongRow(p) /\ RealizedBy(b.pos[t.sym], t) \in Int /\ CashDelta(t) \in Int
  BY <1>1, <1>2, SoundSettled, ComputedHeld
<1>4. PICK cash \in Int, real \in Int :
        cash = b.cash + CashDelta(t) /\ real = b.real + RealizedBy(b.pos[t.sym], t)
  BY <1>1, <1>3
<1>5. PICK v : v = WithPosition(b, t.sym, p)
  OBVIOUS
<1>6. Sound(v) /\ v \in Book
  BY <1>1, <1>3, <1>5, WrittenSound DEF Sound
<1>7. PICK w : w = WithTotals(v, cash, real)
  OBVIOUS
<1>8. w \in Book /\ w.pos = v.pos /\ w.rows = v.rows /\ w.cash = cash
  BY <1>6, <1>7, TotalsWritten
<1>9. w = HandleTrade(b, t)
  BY <1>2, <1>4, <1>5, <1>7 DEF HandleTrade
<1>10. QED
  BY <1>4, <1>6, <1>8, <1>9, SoundByPositions

(* adjust_cash keeps a book sound. *)
LEMMA AdjustSound ==
    ASSUME NEW b, Sound(b), NEW amount \in Int, NEW c, c = Adjusted(b, b.cash + amount)
    PROVE  /\ Sound(c) /\ c.cash = b.cash + amount
           /\ c.cash \in Int /\ c.nav \in Int
           /\ \A f \in Columns \ {"cash", "nav"} : c[f] = b[f]
<1>1. b \in Book /\ b.cash \in Int /\ b.long \in Int /\ b.short \in Int
  BY DEF Sound, Book
<1>2. PICK cash \in Int, nav \in Int : cash = b.cash + amount /\ nav = cash + b.long - b.short
  BY <1>1
<1>3. c = [b EXCEPT !.cash = cash, !.nav = nav]
  BY <1>2 DEF Adjusted
<1>4. c \in Book /\ c.pos = b.pos /\ c.rows = b.rows /\ c.cash = cash /\ c.nav = nav
  BY <1>1, <1>3 DEF Book
<1>5. \A f \in Columns \ {"cash", "nav"} : c[f] = b[f]
  BY <1>1, <1>3 DEF Book, Columns
<1>6. QED
  BY <1>2, <1>4, <1>5, SoundByPositions

(* mark_to_market keeps a book sound and its cash. *)
LEMMA MarkSound ==
    ASSUME NEW b, Sound(b), NEW c, c = Marked(b, Price)
    PROVE  /\ Sound(c) /\ c.cash = b.cash
           /\ c.nav \in Int /\ c.long \in Int /\ c.unreal \in Int
           /\ \A f \in Columns \ {"nav", "long", "unreal"} : c[f] = b[f]
<1> DEFINE held == {s \in b.rows : b.pos[s].lq > 0}
<1>1. b \in Book /\ b.pos \in [Symbols -> Position] /\ b.rows \subseteq Symbols /\ b.cash \in Int
  BY DEF Sound, Book
<1>2. PICK f, g : f = [s \in Symbols |-> MarketValue(b, Price, s)] /\ g = LongCosts(b)
  OBVIOUS
<1>3. \A s \in held : f[s] \in Int /\ g[s] \in Int
  <2>1. \A s \in Symbols : Price[s] \in Nat
    BY LedgerSessionsAssumption
  <2>2. QED
    BY <1>1, <1>2, <2>1 DEF MarketValue, LongCosts, Position
<1>4. IsFiniteSet(held)
  BY <1>1, FS_Subset, PortfolioAssumption
<1>5. PICK mv \in Int, cost \in Int :
        mv = SumFunctionOnSet(f, held) /\ cost = SumFunctionOnSet(g, held)
  <2> HIDE DEF held
  <2> QED BY <1>3, <1>4, SumInt
<1>6. PICK nav \in Int, unreal \in Int : nav = b.cash + mv /\ unreal = mv - cost
  BY <1>1
<1>7. c = [b EXCEPT !.nav = nav, !.long = mv, !.unreal = unreal]
  BY <1>2, <1>5, <1>6 DEF Marked
<1>8. PICK d : d = [b EXCEPT !.nav = nav, !.long = mv]
  OBVIOUS
<1>9. /\ d \in Book /\ d.pos = b.pos /\ d.rows = b.rows /\ d.cash = b.cash
      /\ d.nav = nav /\ d.long = mv
      /\ \A x \in Columns \ {"nav", "long"} : d[x] = b[x]
  BY <1>1, <1>8 DEF Book, Columns
<1>10. c = [d EXCEPT !.unreal = unreal]
  BY <1>7, <1>8
<1>11. /\ c \in Book /\ c.pos = b.pos /\ c.rows = b.rows /\ c.cash = b.cash
       /\ c.nav = nav /\ c.long = mv /\ c.unreal = unreal
  BY <1>9, <1>10 DEF Book
<1>12. \A x \in Columns \ {"nav", "long", "unreal"} : c[x] = b[x]
  BY <1>9, <1>10 DEF Book, Columns
<1>13. QED
  BY <1>11, <1>12, SoundByPositions

-----------------------------------------------------------------------------
(* Sessions that overlap *)

(* Requests of orders and plans, and whole-share retries. *)
Requests == Request({"BUY", "SELL"}, Nat \ {0})
              \cup [sym : Symbols, side : {"BUY", "SELL"}, qty : Nat \ {0}, limit : {NoLimit}, retried : {TRUE}]

OrderRows == [sym : Symbols, side : {"BUY", "SELL"}, qty : Nat \ {0},
              status : {"FILLED", "REJECTED"}, applied : BOOLEAN]

Operations == [op : {"cash"}, amount : Int] \cup [op : {"mark"}]
                \cup [op : {"trade"}, trade : LongTrades]

(* What handle_trade_executed has computed and not yet written. *)
Computation(c) ==
    /\ {"pos", "cash", "real", "seen", "exists"} \subseteq DOMAIN c
    /\ LongRow(c.pos) /\ c.cash \in Int /\ c.real \in Int

(* The session is between its first step and its end. *)
Active(s) == pc[s] \notin {"idle", "done"}

(* The session has an order in hand, the head of its queue. *)
Submitting(s) ==
    \/ pc[s] \in {"validate", "clamp", "cashGate", "apply", "upsert", "flushPosition", "totals"}
    \/ pc[s] = "flushPortfolio" /\ kind[s] \notin {"cash", "mark"}

(* The order in hand is past the cash gate: its row says FILLED. *)
Filling(s) ==
    \/ pc[s] \in {"apply", "upsert", "flushPosition", "totals"}
    \/ pc[s] = "flushPortfolio" /\ kind[s] \notin {"cash", "mark"}

(* What a session knows at each point: its book is sound, its requests are *)
(* proper, and what it is about to write has natural units and, for the *)
(* portfolio row, no positions. *)
Consistent(s) ==
    /\ Active(s) => Sound(copy[s])
    /\ ~Active(s) => dirty[s] = {} /\ rows[s] = <<>> /\ ops[s] = <<>>
    /\ dirty[s] \subseteq Symbols \cup {Pf}
    /\ todo[s] \in Seq(Requests) /\ rows[s] \in Seq(OrderRows) /\ ops[s] \in Seq(Operations)
    /\ Submitting(s) => todo[s] # <<>>
    /\ pc[s] = "cashGate" \/ Filling(s) => cur[s] \in Requests
    /\ pc[s] \in {"upsert", "flushPosition", "totals"} => Computation(stash[s])
    /\ pc[s] = "flushPortfolio" => TotalsOnly(stash[s].new)

(* Each session has a value of every session variable. *)
PerSession ==
    /\ DOMAIN pc = Sessions /\ DOMAIN kind = Sessions /\ DOMAIN todo = Sessions
    /\ DOMAIN cur = Sessions /\ DOMAIN stash = Sessions /\ DOMAIN copy = Sessions
    /\ DOMAIN dirty = Sessions /\ DOMAIN rows = Sessions /\ DOMAIN ops = Sessions

(* The inductive invariant of sessions that overlap. *)
WholeInv ==
    /\ PerSession
    /\ Sound(book)
    /\ orders \in Seq(OrderRows)
    /\ \A s \in Sessions : Consistent(s)

(* Only session s has moved. *)
Others(s) ==
    \A q \in Sessions \ {s} :
        /\ pc'[q] = pc[q] /\ kind'[q] = kind[q] /\ todo'[q] = todo[q]
        /\ cur'[q] = cur[q] /\ stash'[q] = stash[q] /\ copy'[q] = copy[q]
        /\ dirty'[q] = dirty[q] /\ rows'[q] = rows[q] /\ ops'[q] = ops[q]

(* What the parts of the invariant depend on. *)
LEMMA SameSession ==
    ASSUME NEW q, Consistent(q),
           pc'[q] = pc[q], kind'[q] = kind[q], todo'[q] = todo[q],
           cur'[q] = cur[q], stash'[q] = stash[q], copy'[q] = copy[q],
           dirty'[q] = dirty[q], rows'[q] = rows[q], ops'[q] = ops[q]
    PROVE  Consistent(q)'
<1>1. /\ Active(q)' <=> Active(q)
      /\ Submitting(q)' <=> Submitting(q)
      /\ Filling(q)' <=> Filling(q)
  BY DEF Active, Submitting, Filling
<1>2. QED
  BY <1>1 DEF Consistent

(* An action of one session keeps the invariant if it keeps its own part and *)
(* the committed rows sound. *)
LEMMA OneSession ==
    ASSUME WholeInv, NEW s \in Sessions, Others(s), PerSession', Sound(book'),
           orders' \in Seq(OrderRows), Consistent(s)'
    PROVE  WholeInv'
<1>1. ASSUME NEW q \in Sessions \ {s} PROVE Consistent(q)'
  <2>1. Consistent(q)
    BY DEF WholeInv
  <2>2. /\ pc'[q] = pc[q] /\ kind'[q] = kind[q] /\ todo'[q] = todo[q]
        /\ cur'[q] = cur[q] /\ stash'[q] = stash[q] /\ copy'[q] = copy[q]
        /\ dirty'[q] = dirty[q] /\ rows'[q] = rows[q] /\ ops'[q] = ops[q]
    BY DEF Others
  <2>3. QED
    BY <2>1, <2>2, SameSession
<1>2. QED
  BY <1>1 DEF WholeInv

(* The invariant holds at the start. *)
LEMMA InitWhole == Init => WholeInv
<1> SUFFICES ASSUME Init PROVE WholeInv
  OBVIOUS
<1>1. Sound(book)
  BY InitialSound DEF Init
<1>2. ASSUME NEW s \in Sessions PROVE Consistent(s)
  BY DEF Init, Consistent, Active, Submitting, Filling
<1>3. QED
  BY <1>1, <1>2 DEF Init, WholeInv, PerSession

(* Ending a session keeps the invariant, if the committed rows stay sound. *)
LEMMA CloseKeeps ==
    ASSUME WholeInv, NEW s \in Sessions, Close(s), Sound(book'), orders' \in Seq(OrderRows)
    PROVE  WholeInv'
<1>1. /\ kind' = kind /\ pc' = [pc EXCEPT ![s] = "done"] /\ todo' = [todo EXCEPT ![s] = <<>>]
      /\ cur' = [cur EXCEPT ![s] = NoRequest] /\ stash' = [stash EXCEPT ![s] = NoStash]
      /\ dirty' = [dirty EXCEPT ![s] = {}] /\ copy' = [copy EXCEPT ![s] = NoBook]
      /\ rows' = [rows EXCEPT ![s] = <<>>] /\ ops' = [ops EXCEPT ![s] = <<>>]
  BY DEF Close, Goto, job
<1>2. PerSession' /\ Others(s)
  BY <1>1 DEF WholeInv, PerSession, Others
<1>3. /\ pc'[s] = "done" /\ todo'[s] = <<>> /\ dirty'[s] = {} /\ rows'[s] = <<>>
      /\ ops'[s] = <<>>
  BY <1>1 DEF WholeInv, PerSession
<1>4. Consistent(s)'
  BY <1>3 DEF Consistent, Active, Submitting, Filling
<1>5. QED
  BY <1>2, <1>4, OneSession

(* A rollback keeps the invariant. *)
LEMMA RollbackKeeps ==
    ASSUME WholeInv, NEW s \in Sessions, Rollback(s)
    PROVE  WholeInv'
  BY CloseKeeps DEF Rollback, WholeInv

(* A session that is open sees a sound book. *)
LEMMA ViewSound ==
    ASSUME WholeInv, NEW s \in Sessions, Active(s)
    PROVE  Sound(View(s)) /\ View(s) \in Book
<1>1. Sound(book) /\ Sound(copy[s])
  BY DEF WholeInv, Consistent
<1>2. QED
  BY <1>1, SeenSound, ViewIs DEF Sound

(* A commit publishes what the session saw, which is sound. *)
LEMMA CommitKeeps ==
    ASSUME WholeInv, NEW s \in Sessions, Commit(s)
    PROVE  WholeInv'
<1>1. Active(s) /\ Close(s) /\ book' = View(s) /\ orders' = orders \o rows[s]
  BY DEF Commit, Active
<1>2. Sound(book')
  BY <1>1, ViewSound
<1>3. rows[s] \in Seq(OrderRows) /\ orders \in Seq(OrderRows)
  BY DEF WholeInv, Consistent
<1>4. orders' \in Seq(OrderRows)
  BY <1>1, <1>3
<1>5. QED
  BY <1>1, <1>2, <1>4, CloseKeeps

(* What is left of the queue when an order is done with. *)
LEMMA NextOrderLeaves ==
    ASSUME WholeInv, NEW s \in Sessions, Submitting(s), NextOrder(s)
    PROVE  /\ DOMAIN pc' = Sessions /\ DOMAIN todo' = Sessions
           /\ \A q \in Sessions \ {s} : pc'[q] = pc[q] /\ todo'[q] = todo[q]
           /\ todo'[s] \in Seq(Requests)
           /\ \/ pc'[s] = "validate" /\ todo'[s] # <<>>
              \/ pc'[s] = "commit"
<1>1. todo[s] \in Seq(Requests) /\ todo[s] # <<>>
  BY DEF WholeInv, Consistent
<1>2. DOMAIN pc = Sessions /\ DOMAIN todo = Sessions
  BY DEF WholeInv, PerSession
<1>3. todo' = [todo EXCEPT ![s] = Tail(todo[s])]
  BY DEF NextOrder
<1>4. pc'[s] = IF Len(todo[s]) > 1 THEN "validate" ELSE "commit"
  BY <1>2 DEF NextOrder, Goto
<1>5. DOMAIN pc' = Sessions /\ \A q \in Sessions \ {s} : pc'[q] = pc[q]
  BY <1>2 DEF NextOrder, Goto
<1>6. todo'[s] = Tail(todo[s])
  BY <1>2, <1>3
<1>7. Tail(todo[s]) \in Seq(Requests) /\ (Len(todo[s]) > 1 => Tail(todo[s]) # <<>>)
  <2>1. PICK q \in Seq(Requests) : q = todo[s] /\ Len(q) \in Nat \ {0}
    BY <1>1
  <2>2. PICK rest : rest = Tail(q)
    OBVIOUS
  <2>3. rest \in Seq(Requests) /\ Len(rest) = Len(q) - 1
    BY <2>1, <2>2
  <2>4. Len(q) > 1 => rest # <<>>
    <3>1. PICK n, m : n \in Nat /\ n = Len(q) /\ m = Len(rest) /\ m = n - 1
      BY <2>1, <2>3
    <3>2. rest = <<>> => m = 0
      BY <3>1
    <3>3. n > 1 => m # 0
      BY <3>1
    <3>4. QED
      BY <3>1, <3>2, <3>3
  <2>5. QED
    BY <2>1, <2>2, <2>3, <2>4
<1>8. DOMAIN todo' = Sessions /\ \A q \in Sessions \ {s} : todo'[q] = todo[q]
  BY <1>2, <1>3
<1>9. todo'[s] \in Seq(Requests) /\ (Len(todo[s]) > 1 => todo'[s] # <<>>)
  BY <1>6, <1>7
<1>10. QED
  BY <1>4, <1>5, <1>8, <1>9

(* A step that only moves on to the next order, having written some row into *)
(* the session's copy, keeps the invariant. *)
LEMMA NextOrderKeeps ==
    ASSUME WholeInv, NEW s \in Sessions, Submitting(s), NextOrder(s), PerSession',
           UNCHANGED <<book, orders, kind, cur>>,
           \A q \in Sessions \ {s} : /\ stash'[q] = stash[q] /\ copy'[q] = copy[q]
                                     /\ dirty'[q] = dirty[q] /\ rows'[q] = rows[q] /\ ops'[q] = ops[q],
           Sound(copy'[s]), dirty'[s] \subseteq Symbols \cup {Pf},
           rows'[s] \in Seq(OrderRows), ops'[s] \in Seq(Operations)
    PROVE  WholeInv'
<1>1. Others(s) /\ Sound(book')
  BY NextOrderLeaves DEF WholeInv, Others
<1>2. orders' \in Seq(OrderRows)
  BY DEF WholeInv
<1>3. todo'[s] \in Seq(Requests) /\ ((pc'[s] = "validate" /\ todo'[s] # <<>>) \/ pc'[s] = "commit")
  BY NextOrderLeaves
<1>4. Consistent(s)'
  BY <1>3 DEF Consistent, Active, Submitting, Filling
<1>5. QED
  BY <1>1, <1>2, <1>4, OneSession

(* An order row keeps its shape. *)
LEMMA AddedRow ==
    ASSUME WholeInv, NEW s \in Sessions, NEW r \in Requests, NEW status \in {"FILLED", "REJECTED"},
           AddRow(s, r, status)
    PROVE  /\ DOMAIN rows' = Sessions /\ \A q \in Sessions \ {s} : rows'[q] = rows[q]
           /\ rows'[s] \in Seq(OrderRows)
           /\ rows'[s] = Append(rows[s], [sym |-> r.sym, side |-> r.side, qty |-> r.qty,
                                          status |-> status, applied |-> FALSE])
<1>1. PICK w : w = [sym |-> r.sym, side |-> r.side, qty |-> r.qty, status |-> status, applied |-> FALSE]
  OBVIOUS
<1>2. w \in OrderRows
  BY <1>1 DEF Requests, Request, OrderRows
<1>3. rows' = [rows EXCEPT ![s] = Append(rows[s], w)]
  BY <1>1 DEF AddRow
<1>4. DOMAIN rows = Sessions /\ rows[s] \in Seq(OrderRows)
  BY DEF WholeInv, PerSession, Consistent
<1>5. rows'[s] = Append(rows[s], w)
  BY <1>3, <1>4
<1>6. Append(rows[s], w) \in Seq(OrderRows)
  BY <1>2, <1>4
<1>7. QED
  BY <1>1, <1>3, <1>4, <1>5, <1>6

(* A rejection ends the session or goes on to the next order. *)
LEMMA RejectKeeps ==
    ASSUME WholeInv, NEW s \in Sessions, NEW r \in Requests, Submitting(s), RejectOrder(s, r)
    PROVE  WholeInv'
<1>1. CASE kind[s] = "order"
  BY <1>1, RollbackKeeps DEF RejectOrder
<1>2. CASE kind[s] # "order"
  <2>1. /\ NextOrder(s) /\ AddRow(s, r, "REJECTED")
        /\ UNCHANGED <<book, orders, kind, overlap, cur, stash, dirty, copy, ops>>
    BY <1>2 DEF RejectOrder, job
  <2>2. /\ DOMAIN rows' = Sessions /\ \A q \in Sessions \ {s} : rows'[q] = rows[q]
        /\ rows'[s] \in Seq(OrderRows)
    BY <2>1, AddedRow
  <2>3. PerSession'
    BY <2>1, <2>2, NextOrderLeaves DEF WholeInv, PerSession
  <2>4. Sound(copy[s]) /\ dirty[s] \subseteq Symbols \cup {Pf} /\ ops[s] \in Seq(Operations)
    BY DEF WholeInv, Consistent, Active, Submitting
  <2>5. QED
    BY <2>1, <2>2, <2>3, <2>4, NextOrderKeeps
<1>3. QED
  BY <1>1, <1>2

(* The request in hand, as a trade at the current price. *)
LEMMA TradeProper ==
    ASSUME NEW s \in Sessions, cur[s] \in Requests
    PROVE  /\ TradeInHand(s) \in LongTrades
           /\ TradeInHand(s).sym = cur[s].sym /\ TradeInHand(s).side = cur[s].side
           /\ TradeInHand(s).qty = cur[s].qty
           /\ TradeInHand(s).side = "SELL" => Commission <= TradeInHand(s).price
           /\ cur[s].sym \in Symbols
<1>1. PICK r : r = cur[s]
  OBVIOUS
<1>2. /\ r.sym \in Symbols /\ r.side \in {"BUY", "SELL"} /\ r.qty \in Nat \ {0} /\ r.limit = NoLimit
  BY <1>1 DEF Requests, Request
<1>3. PICK price \in Nat, slip \in Nat : price = Price[r.sym] /\ slip = Slip /\ price > slip
  BY <1>2, LedgerSessionsAssumption, PortfolioAssumption
<1>4. FillPrice(r, price) = IF r.side = "BUY" THEN price + slip ELSE price - slip
  BY <1>2, <1>3 DEF FillPrice, BuySides
<1>5. FillPrice(r, price) \in Nat
  BY <1>3, <1>4
<1>6. PICK n \in Nat : n = FillPrice(r, price)
  BY <1>5
<1>7. TradeInHand(s) = [sym |-> r.sym, side |-> r.side, qty |-> r.qty, price |-> n]
  BY <1>1, <1>3, <1>6 DEF TradeInHand, TradeOf
<1>8. r.side = "SELL" => Commission <= n
  BY <1>2, <1>3, <1>4, <1>6, SaleAssumption
<1>9. QED
  BY <1>1, <1>2, <1>7, <1>8 DEF LongTrades

(* Starting a job copies a sound book and queues proper requests. *)
LEMMA BeginKeeps ==
    ASSUME WholeInv, NEW s \in Sessions, pc[s] = "idle", NEW k,
           NEW requests \in Seq(Requests), requests # <<>>, Begin(s, k, requests, "validate")
    PROVE  WholeInv'
<1>1. /\ kind' = [kind EXCEPT ![s] = k] /\ todo' = [todo EXCEPT ![s] = requests]
      /\ copy' = [copy EXCEPT ![s] = book] /\ pc' = [pc EXCEPT ![s] = "validate"]
      /\ UNCHANGED <<book, orders, cur, stash, dirty, rows, ops>>
  BY DEF Begin, Goto
<1>2. PerSession' /\ Others(s)
  BY <1>1 DEF WholeInv, PerSession, Others
<1>3. pc'[s] = "validate" /\ todo'[s] = requests /\ copy'[s] = book
  BY <1>1 DEF WholeInv, PerSession
<1>4. /\ Sound(book) /\ orders \in Seq(OrderRows)
      /\ dirty[s] \subseteq Symbols \cup {Pf} /\ rows[s] \in Seq(OrderRows) /\ ops[s] \in Seq(Operations)
  BY DEF WholeInv, Consistent
<1>5. Consistent(s)'
  BY <1>1, <1>3, <1>4 DEF Consistent, Active, Submitting, Filling
<1>6. QED
  BY <1>1, <1>2, <1>4, <1>5, OneSession

(* An API order is a queue of one request. *)
LEMMA StartOrderKeeps ==
    ASSUME WholeInv, NEW s \in Sessions, StartOrder(s)
    PROVE  WholeInv'
<1>1. PICK r \in Request({"BUY", "SELL"}, Qtys) : Begin(s, "order", <<r>>, "validate")
  BY DEF StartOrder
<1>2. r \in Requests
  BY <1>1, QuantityAssumption DEF Requests, Request
<1>3. <<r>> \in Seq(Requests) /\ <<r>> # <<>>
  BY <1>2
<1>4. pc[s] = "idle"
  BY DEF StartOrder, MayStart
<1>5. QED
  BY <1>1, <1>3, <1>4, BeginKeeps

(* The lists a plan is made of are sequences. *)
LEMMA ListsAreSequences ==
    ASSUME NEW S, NEW q \in Lists(S)
    PROVE  q \in Seq(S)
<1>1. PICK n \in 0 .. PlanSize : q \in [1 .. n -> S]
  BY DEF Lists
<1>2. n \in Nat
  BY LedgerSessionsAssumption
<1>3. QED
  BY <1>1, <1>2

(* A plan is a queue of sells of what is held and of buys. *)
LEMMA StartPipelineKeeps ==
    ASSUME WholeInv, NEW s \in Sessions, StartPipeline(s)
    PROVE  WholeInv'
<1>1. PICK sells \in Lists(Exits \cup Reductions), buys \in Lists(Request({"BUY"}, Qtys)) :
        Len(sells \o buys) \in 1 .. PlanSize /\ Begin(s, "pipeline", sells \o buys, "validate")
  BY DEF StartPipeline
<1>2. Exits \subseteq Requests
  <2>1. ASSUME NEW x \in Symbols PROVE book.pos[x].lq \in Nat
    BY DEF WholeInv, Sound, Whole, LongRow, Position
  <2>2. ASSUME NEW x \in Symbols, book.pos[x].lq > 0
        PROVE  [sym |-> x, side |-> "SELL", qty |-> book.pos[x].lq, limit |-> NoLimit] \in Requests
    <3>1. PICK n \in Nat \ {0} : n = book.pos[x].lq
      BY <2>1, <2>2
    <3>2. QED
      BY <3>1 DEF Requests, Request
  <2>3. QED
    BY <2>2 DEF Exits
<1>3. Request({"BUY"}, Qtys) \subseteq Requests /\ Reductions \subseteq Requests
  BY QuantityAssumption DEF Reductions, Requests, Request
<1>4. sells \in Seq(Exits \cup Reductions) /\ buys \in Seq(Request({"BUY"}, Qtys))
  BY <1>1, ListsAreSequences
<1>5. sells \in Seq(Requests) /\ buys \in Seq(Requests)
  BY <1>2, <1>3, <1>4
<1>6. sells \o buys \in Seq(Requests) /\ sells \o buys # <<>>
  BY <1>1, <1>5, LedgerSessionsAssumption
<1>7. pc[s] = "idle"
  BY DEF StartPipeline, MayStart
<1>8. QED
  BY <1>1, <1>6, <1>7, BeginKeeps

(* A job that only rewrites totals computes them from a sound book. *)
LEMMA TotalsJobKeeps ==
    ASSUME WholeInv, NEW s \in Sessions, NEW k \in {"cash", "mark"}, NEW new, TotalsOnly(new),
           NEW o \in Operations,
           stash' = [stash EXCEPT ![s] = Pending(book, new)],
           ops' = [ops EXCEPT ![s] = <<o>>],
           kind' = [kind EXCEPT ![s] = k],
           copy' = [copy EXCEPT ![s] = book],
           pc' = [pc EXCEPT ![s] = "flushPortfolio"],
           UNCHANGED <<book, orders, todo, cur, dirty, rows>>
    PROVE  WholeInv'
<1>1. PerSession' /\ Others(s)
  BY DEF WholeInv, PerSession, Others
<1>2. /\ pc'[s] = "flushPortfolio" /\ kind'[s] = k /\ copy'[s] = book
      /\ ops'[s] = <<o>> /\ stash'[s].new = new
  BY DEF WholeInv, PerSession, Pending
<1>3. /\ Sound(book) /\ orders \in Seq(OrderRows) /\ todo[s] \in Seq(Requests)
      /\ dirty[s] \subseteq Symbols \cup {Pf} /\ rows[s] \in Seq(OrderRows)
  BY DEF WholeInv, Consistent
<1>4. <<o>> \in Seq(Operations)
  OBVIOUS
<1>5. Consistent(s)'
  BY <1>2, <1>3, <1>4 DEF Consistent, Active, Submitting, Filling
<1>6. QED
  BY <1>1, <1>3, <1>5, OneSession

(* What adjust_cash has pending. *)
LEMMA StartCashIs ==
    ASSUME WholeInv, NEW s \in Sessions, StartCash(s)
    PROVE  \E amount, b :
             /\ amount \in CashMoves /\ b = Adjusted(book, book.cash + amount) /\ CanAdjust(book, amount) /\ amount \in Int
             /\ TotalsOnly([cash |-> b.cash, nav |-> b.nav])
             /\ stash' = [stash EXCEPT ![s] = Pending(book, [cash |-> b.cash, nav |-> b.nav])]
             /\ ops' = [ops EXCEPT ![s] = <<[op |-> "cash", amount |-> amount]>>]
<1>1. PICK amount \in CashMoves :
        /\ CanAdjust(book, amount)
        /\ stash' = [stash EXCEPT ![s] = Pending(book,
                       [cash |-> Adjusted(book, book.cash + amount).cash,
                        nav |-> Adjusted(book, book.cash + amount).nav])]
        /\ ops' = [ops EXCEPT ![s] = <<[op |-> "cash", amount |-> amount]>>]
  BY DEF StartCash
<1>2. PICK b : b = Adjusted(book, book.cash + amount)
  OBVIOUS
<1>3. amount \in Int
  BY LedgerSessionsAssumption
<1>4. b.cash \in Int /\ b.nav \in Int
  BY <1>2, <1>3, AdjustSound DEF WholeInv
<1>5. TotalsOnly([cash |-> b.cash, nav |-> b.nav])
  BY <1>4 DEF TotalsOnly, TotalFields
<1>6. QED
  BY <1>1, <1>2, <1>3, <1>5

(* adjust_cash computes no position. *)
LEMMA StartCashKeeps ==
    ASSUME WholeInv, NEW s \in Sessions, StartCash(s)
    PROVE  WholeInv'
<1>1. PICK amount, new :
        /\ amount \in Int /\ TotalsOnly(new) /\ stash' = [stash EXCEPT ![s] = Pending(book, new)]
        /\ ops' = [ops EXCEPT ![s] = <<[op |-> "cash", amount |-> amount]>>]
  BY StartCashIs
<1>2. PICK o \in Operations : o = [op |-> "cash", amount |-> amount]
  BY <1>1 DEF Operations
<1>3. /\ kind' = [kind EXCEPT ![s] = "cash"] /\ copy' = [copy EXCEPT ![s] = book]
      /\ pc' = [pc EXCEPT ![s] = "flushPortfolio"]
      /\ UNCHANGED <<book, orders, todo, cur, dirty, rows>>
  BY DEF StartCash, Goto
<1>4. QED
  BY <1>1, <1>2, <1>3, TotalsJobKeeps

(* What mark_to_market has pending. *)
LEMMA StartMarkIs ==
    ASSUME WholeInv, NEW s \in Sessions, StartMark(s)
    PROVE  \E b :
             /\ b = Marked(book, Price)
             /\ TotalsOnly([nav |-> b.nav, long |-> b.long, unreal |-> b.unreal])
             /\ stash' = [stash EXCEPT ![s] =
                            Pending(book, [nav |-> b.nav, long |-> b.long, unreal |-> b.unreal])]
             /\ ops' = [ops EXCEPT ![s] = <<[op |-> "mark"]>>]
<1>1. PICK b : b = Marked(book, Price)
  OBVIOUS
<1>2. b.nav \in Int /\ b.long \in Int /\ b.unreal \in Int
  BY <1>1, MarkSound DEF WholeInv
<1>3. TotalsOnly([nav |-> b.nav, long |-> b.long, unreal |-> b.unreal])
  BY <1>2 DEF TotalsOnly, TotalFields
<1>4. QED
  BY <1>1, <1>3 DEF StartMark

(* mark_to_market computes no position. *)
LEMMA StartMarkKeeps ==
    ASSUME WholeInv, NEW s \in Sessions, StartMark(s)
    PROVE  WholeInv'
<1>1. PICK new : /\ TotalsOnly(new) /\ stash' = [stash EXCEPT ![s] = Pending(book, new)]
                 /\ ops' = [ops EXCEPT ![s] = <<[op |-> "mark"]>>]
  BY StartMarkIs
<1>2. PICK o \in Operations : o = [op |-> "mark"]
  BY DEF Operations
<1>3. /\ kind' = [kind EXCEPT ![s] = "mark"] /\ copy' = [copy EXCEPT ![s] = book]
      /\ pc' = [pc EXCEPT ![s] = "flushPortfolio"]
      /\ UNCHANGED <<book, orders, todo, cur, dirty, rows>>
  BY DEF StartMark, Goto
<1>4. QED
  BY <1>1, <1>2, <1>3, TotalsJobKeeps

(* A step that leaves the tables, the queue and the computed values alone and *)
(* only moves on keeps the invariant. *)
LEMMA MoveKeeps ==
    ASSUME WholeInv, NEW s \in Sessions, NEW step, pc' = [pc EXCEPT ![s] = step],
           UNCHANGED <<book, orders, kind, todo, copy, dirty, ops>>,
           PerSession', Active(s), Submitting(s),
           \A q \in Sessions \ {s} : cur'[q] = cur[q] /\ rows'[q] = rows[q] /\ stash'[q] = stash[q],
           rows'[s] \in Seq(OrderRows),
           step \in {"clamp", "cashGate", "apply", "upsert", "flushPosition", "totals"},
           step # "clamp" => cur'[s] \in Requests,
           step \in {"upsert", "flushPosition", "totals"} => Computation(stash'[s])
    PROVE  WholeInv'
<1>1. Others(s)
  BY DEF WholeInv, PerSession, Others
<1>2. pc'[s] = step
  BY DEF WholeInv, PerSession
<1>3. /\ Sound(book) /\ orders \in Seq(OrderRows) /\ todo[s] \in Seq(Requests) /\ todo[s] # <<>>
      /\ dirty[s] \subseteq Symbols \cup {Pf} /\ ops[s] \in Seq(Operations) /\ Sound(copy[s])
  BY DEF WholeInv, Consistent
<1>4. Consistent(s)'
  BY <1>2, <1>3 DEF Consistent, Active, Submitting, Filling
<1>5. QED
  BY <1>1, <1>3, <1>4, OneSession

(* The head of a session's queue is a proper request. *)
LEMMA HeadProper ==
    ASSUME WholeInv, NEW s \in Sessions, Submitting(s)
    PROVE  Head(todo[s]) \in Requests
<1>1. todo[s] \in Seq(Requests) /\ todo[s] # <<>>
  BY DEF WholeInv, Consistent
<1>2. QED
  BY <1>1

(* Validation moves on or rejects. *)
LEMMA ValidateKeeps ==
    ASSUME WholeInv, NEW s \in Sessions, Validate(s)
    PROVE  WholeInv'
<1>1. pc[s] = "validate" /\ Submitting(s) /\ Active(s)
  BY DEF Validate, Submitting, Active
<1>2. CASE Valid(View(s), Head(todo[s]))
  <2>1. /\ pc' = [pc EXCEPT ![s] = "clamp"]
        /\ UNCHANGED <<book, orders, kind, todo, cur, stash, dirty, copy, rows, ops>>
    BY <1>2 DEF Validate, Goto, local, job
  <2>2. PerSession' /\ rows'[s] \in Seq(OrderRows)
    BY <2>1 DEF WholeInv, PerSession, Consistent
  <2>3. QED
    BY <1>1, <2>1, <2>2, MoveKeeps
<1>3. CASE ~Valid(View(s), Head(todo[s]))
  BY <1>1, <1>3, RejectKeeps, HeadProper DEF Validate
<1>4. QED
  BY <1>2, <1>3

(* The clamp of a near-full sell leaves a proper request. *)
LEMMA ClampProper ==
    ASSUME NEW b, Sound(b), NEW r \in Requests
    PROVE  /\ Clamp(b, r) \in Requests
           /\ Clamp(b, r).sym = r.sym /\ Clamp(b, r).side = r.side
<1>1. b.pos[r.sym].lq \in Nat
  BY DEF Requests, Request, Sound, Whole, LongRow, Position
<1>2. PICK q \in Nat : q = b.pos[r.sym].lq
  BY <1>1
<1>3. CASE NearFullSell(b, r)
  <2>1. q \in Nat \ {0}
    BY <1>2, <1>3 DEF NearFullSell
  <2>2. PICK c : c = [r EXCEPT !.qty = q]
    OBVIOUS
  <2>3. c \in Requests /\ c.sym = r.sym /\ c.side = r.side
    BY <2>1, <2>2 DEF Requests, Request
  <2>4. QED
    BY <1>2, <1>3, <2>2, <2>3 DEF Clamp
<1>4. CASE ~NearFullSell(b, r)
  BY <1>4 DEF Clamp
<1>5. QED
  BY <1>3, <1>4

(* Clamping puts a proper request in hand. *)
LEMMA ClampKeeps ==
    ASSUME WholeInv, NEW s \in Sessions, ClampQuantity(s)
    PROVE  WholeInv'
<1>1. pc[s] = "clamp" /\ Submitting(s) /\ Active(s)
  BY DEF ClampQuantity, Submitting, Active
<1>2. Clamp(View(s), Head(todo[s])) \in Requests
  BY <1>1, ViewSound, HeadProper, ClampProper
<1>3. PICK r \in Requests : cur' = [cur EXCEPT ![s] = r]
  BY <1>2 DEF ClampQuantity
<1>4. /\ pc' = [pc EXCEPT ![s] = "cashGate"]
      /\ UNCHANGED <<book, orders, kind, todo, stash, dirty, copy, rows, ops>>
  BY DEF ClampQuantity, Goto, job
<1>5. PerSession' /\ rows'[s] \in Seq(OrderRows) /\ cur'[s] = r
  BY <1>3, <1>4 DEF WholeInv, PerSession, Consistent
<1>6. \A q \in Sessions \ {s} : cur'[q] = cur[q]
  BY <1>3 DEF WholeInv, PerSession
<1>7. QED
  BY <1>1, <1>3, <1>4, <1>5, <1>6, MoveKeeps

(* The cash gate moves on or rejects. *)
LEMMA CashGateKeeps ==
    ASSUME WholeInv, NEW s \in Sessions, CashGate(s)
    PROVE  WholeInv'
<1>1. pc[s] = "cashGate" /\ Submitting(s) /\ Active(s) /\ cur[s] \in Requests
  BY DEF CashGate, Submitting, Active, WholeInv, Consistent
<1>2. CASE CashCovers(View(s), TradeInHand(s))
  <2>1. /\ pc' = [pc EXCEPT ![s] = "apply"] /\ AddRow(s, cur[s], "FILLED")
        /\ UNCHANGED <<book, orders, kind, todo, cur, stash, dirty, copy, ops>>
    BY <1>2 DEF CashGate, Goto, job
  <2>2. /\ DOMAIN rows' = Sessions /\ \A q \in Sessions \ {s} : rows'[q] = rows[q]
        /\ rows'[s] \in Seq(OrderRows)
    BY <1>1, <2>1, AddedRow
  <2>3. PerSession'
    BY <2>1, <2>2 DEF WholeInv, PerSession
  <2>4. QED
    BY <1>1, <2>1, <2>2, <2>3, MoveKeeps
<1>3. CASE ~CashCovers(View(s), TradeInHand(s))
  BY <1>1, <1>3, RejectKeeps DEF CashGate
<1>4. QED
  BY <1>2, <1>3

(* What handle_trade_executed computes is a long row. *)
LEMMA ApplyKeeps ==
    ASSUME WholeInv, NEW s \in Sessions, Apply(s)
    PROVE  WholeInv'
<1>1. /\ pc[s] = "apply" /\ Appliable(View(s).pos[cur[s].sym], TradeInHand(s))
      /\ Submitting(s) /\ Active(s) /\ cur[s] \in Requests
  BY DEF Apply, Submitting, Active, Filling, WholeInv, Consistent
<1>2. Sound(View(s)) /\ View(s) \in Book
  BY <1>1, ViewSound
<1>3. PICK p, t : p = View(s).pos[cur[s].sym] /\ t = TradeInHand(s)
  OBVIOUS
<1>4. cur[s].sym \in Symbols /\ t \in LongTrades /\ t.sym = cur[s].sym
  BY <1>1, <1>3, TradeProper
<1>5. Settled(p) /\ LongRow(p)
  BY <1>2, <1>3, <1>4, SoundSettled
<1>6. PICK n : n = PositionAfter(p, t)
  OBVIOUS
<1>7. LongRow(n) /\ RealizedBy(p, t) \in Int /\ CashDelta(t) \in Int
  BY <1>1, <1>3, <1>4, <1>5, <1>6, ComputedHeld
<1>8. PICK c \in Int, e \in Int :
        c = View(s).cash + CashDelta(t) /\ e = View(s).real + RealizedBy(p, t)
  BY <1>2, <1>7 DEF Book
<1>9. PICK st : st = [pos |-> n, cash |-> c, real |-> e, seen |-> Flat, exists |-> FALSE]
  OBVIOUS
<1>10. Computed(s, View(s)) = st
  BY <1>3, <1>4, <1>6, <1>8, <1>9 DEF Computed
<1>11. Computation(st)
  BY <1>7, <1>9 DEF Computation
<1>12. /\ stash' = [stash EXCEPT ![s] = st] /\ pc' = [pc EXCEPT ![s] = "upsert"]
       /\ UNCHANGED <<book, orders, kind, todo, cur, dirty, copy, rows, ops>>
  BY <1>10 DEF Apply, Goto, job
<1>13. /\ PerSession' /\ stash'[s] = st /\ rows'[s] \in Seq(OrderRows)
       /\ \A q \in Sessions \ {s} : stash'[q] = stash[q]
  BY <1>12 DEF WholeInv, PerSession, Consistent
<1>14. QED
  BY <1>1, <1>11, <1>12, <1>13, MoveKeeps

(* A trade that cannot be applied is retried in whole shares or dropped. *)
LEMMA ApplyRaisesKeeps ==
    ASSUME WholeInv, NEW s \in Sessions, ApplyRaises(s)
    PROVE  WholeInv'
<1> DEFINE r == Head(todo[s])
<1>1. pc[s] = "apply" /\ Submitting(s) /\ Active(s)
  BY DEF ApplyRaises, Submitting, Active
<1>2. /\ Sound(copy[s]) /\ Sound(book) /\ todo[s] \in Seq(Requests) /\ todo[s] # <<>>
      /\ DOMAIN todo = Sessions /\ orders \in Seq(OrderRows)
      /\ dirty[s] \subseteq Symbols \cup {Pf} /\ rows[s] \in Seq(OrderRows) /\ ops[s] \in Seq(Operations)
  BY <1>1 DEF WholeInv, PerSession, Consistent
<1>3. CASE kind[s] = "order"
  BY <1>3, RollbackKeeps DEF ApplyRaises
<1>4. CASE kind[s] # "order" /\ "retried" \notin DOMAIN r /\ WholeShares(r).qty > 0
  <2>1. /\ todo' = [todo EXCEPT ![s][1] = [sym |-> r.sym, side |-> r.side, limit |-> r.limit,
                                            qty |-> WholeShares(r).qty, retried |-> TRUE]]
        /\ pc' = [pc EXCEPT ![s] = "validate"]
        /\ UNCHANGED <<book, orders, kind, cur, stash, dirty, copy, rows, ops>>
    BY <1>4 DEF ApplyRaises, Goto, job
  <2>2. r \in Requests
    BY <1>2
  <2>3. WholeShares(r).qty \in Nat
    <3>1. r.qty \in Nat /\ Share \in Nat \ {0}
      BY <2>2, PortfolioAssumption DEF Requests, Request
    <3>2. r.qty \div Share \in Nat
      BY <3>1
    <3>3. (r.qty \div Share) * Share \in Nat
      BY <3>1, <3>2
    <3>4. PICK m \in Nat : m = (r.qty \div Share) * Share
      BY <3>3
    <3>5. [r EXCEPT !.qty = m].qty = m
      BY <2>2 DEF Requests, Request
    <3>6. QED
      BY <3>4, <3>5 DEF WholeShares
  <2>4. PICK m \in Nat \ {0} : m = WholeShares(r).qty
    BY <1>4, <2>3
  <2>5. PICK w \in Requests : w = [sym |-> r.sym, side |-> r.side, limit |-> r.limit, qty |-> m, retried |-> TRUE]
    BY <2>2 DEF Requests, Request
  <2>6. PICK q : q = [todo[s] EXCEPT ![1] = w]
    OBVIOUS
  <2>7. todo' = [todo EXCEPT ![s] = q]
    BY <2>1, <2>4, <2>5, <2>6
  <2>8. q \in Seq(Requests) /\ q # <<>>
    BY <1>2, <2>5, <2>6
  <2>9. PerSession' /\ Others(s)
    BY <1>2, <2>1, <2>7 DEF WholeInv, PerSession, Others
  <2>10. pc'[s] = "validate" /\ todo'[s] = q
    BY <1>2, <2>1, <2>7 DEF WholeInv, PerSession
  <2>11. Consistent(s)'
    BY <1>2, <2>1, <2>8, <2>10 DEF Consistent, Active, Submitting, Filling
  <2>12. QED
    BY <1>2, <2>1, <2>9, <2>11, OneSession
<1>5. CASE kind[s] # "order" /\ ~("retried" \notin DOMAIN r /\ WholeShares(r).qty > 0)
  <2>1. NextOrder(s) /\ UNCHANGED <<book, orders, kind, cur, stash, dirty, copy, rows, ops>>
    BY <1>5 DEF ApplyRaises, job
  <2>2. PerSession'
    BY <1>1, <2>1, NextOrderLeaves DEF WholeInv, PerSession
  <2>3. QED
    BY <1>1, <1>2, <2>1, <2>2, NextOrderKeeps
<1>6. QED
  BY <1>3, <1>4, <1>5

(* The lookup of the row keeps the computed values. *)
LEMMA UpsertKeeps ==
    ASSUME WholeInv, NEW s \in Sessions, Upsert(s)
    PROVE  WholeInv'
<1>1. pc[s] = "upsert" /\ Submitting(s) /\ Active(s) /\ cur[s] \in Requests /\ Computation(stash[s])
  BY DEF Upsert, Submitting, Active, Filling, WholeInv, Consistent
<1>2. PICK e, v : e = (cur[s].sym \in View(s).rows) /\ v = View(s).pos[cur[s].sym]
  OBVIOUS
<1>3. PICK st : st = [stash[s] EXCEPT !.exists = e, !.seen = v]
  OBVIOUS
<1>4. stash' = [stash EXCEPT ![s] = st]
  BY <1>2, <1>3 DEF Upsert, WholeInv, PerSession
<1>5. Computation(st)
  BY <1>1, <1>3 DEF Computation
<1>6. /\ pc' = [pc EXCEPT ![s] = "flushPosition"]
      /\ UNCHANGED <<book, orders, kind, todo, cur, dirty, copy, rows, ops>>
  BY DEF Upsert, Goto, job
<1>7. /\ PerSession' /\ stash'[s] = st /\ rows'[s] \in Seq(OrderRows)
      /\ \A q \in Sessions \ {s} : stash'[q] = stash[q]
  BY <1>4, <1>6 DEF WholeInv, PerSession, Consistent
<1>8. QED
  BY <1>1, <1>5, <1>6, <1>7, MoveKeeps

(* The flush of the position writes a sound book, although the row may have *)
(* changed since the values were computed. *)
LEMMA FlushPositionKeeps ==
    ASSUME WholeInv, NEW s \in Sessions, FlushPosition(s)
    PROVE  WholeInv'
<1> DEFINE sym == cur[s].sym
           p == Update(View(s).pos[sym], stash[s].seen, stash[s].pos)
<1>1. /\ pc[s] = "flushPosition" /\ Active(s) /\ cur[s] \in Requests /\ Computation(stash[s])
      /\ Sound(book) /\ orders \in Seq(OrderRows) /\ todo[s] \in Seq(Requests) /\ todo[s] # <<>>
      /\ dirty[s] \subseteq Symbols \cup {Pf} /\ rows[s] \in Seq(OrderRows) /\ ops[s] \in Seq(Operations)
  BY DEF FlushPosition, Active, Submitting, Filling, WholeInv, Consistent
<1>2. sym \in Symbols /\ Sound(View(s))
  BY <1>1, ViewSound DEF Requests, Request
<1>3. LongRow(View(s).pos[sym]) /\ LongRow(stash[s].pos)
  BY <1>1, <1>2, SoundSettled DEF Computation
<1>4. LongRow(p)
  BY <1>3, UpdatedHeld
<1>5. PICK w : w = WithPosition(View(s), sym, p)
  OBVIOUS
<1>6. Sound(w)
  <2> HIDE DEF p
  <2> QED BY <1>2, <1>4, <1>5, WrittenSound
<1>7. CASE stash[s].exists = (sym \in View(s).rows)
  <2>1. /\ copy' = [copy EXCEPT ![s] = w] /\ pc' = [pc EXCEPT ![s] = "totals"]
        /\ dirty' = [dirty EXCEPT ![s] = dirty[s] \cup {sym}]
        /\ UNCHANGED <<book, orders, kind, todo, cur, stash, rows, ops>>
    BY <1>5, <1>7 DEF FlushPosition, Write, Goto, job
  <2>2. PerSession' /\ Others(s)
    BY <2>1 DEF WholeInv, PerSession, Others
  <2>3. pc'[s] = "totals" /\ copy'[s] = w /\ dirty'[s] = dirty[s] \cup {sym}
    BY <2>1 DEF WholeInv, PerSession
  <2>4. dirty'[s] \subseteq Symbols \cup {Pf}
    BY <1>1, <1>2, <2>3
  <2>5. Consistent(s)'
    <3> HIDE DEF p, sym
    <3> QED BY <1>1, <1>6, <2>1, <2>3, <2>4 DEF Consistent, Active, Submitting, Filling
  <2>6. QED
    BY <1>1, <2>1, <2>2, <2>5, OneSession
<1>8. CASE stash[s].exists # (sym \in View(s).rows)
  BY <1>8, RollbackKeeps DEF FlushPosition
<1>9. QED
  BY <1>7, <1>8

(* What the totals have pending. *)
LEMMA TotalsIs ==
    ASSUME WholeInv, NEW s \in Sessions, Totals(s)
    PROVE  \E b, new :
             /\ b = WithTotals(View(s), stash[s].cash, stash[s].real)
             /\ b \in Book /\ b.pos = View(s).pos /\ b.rows = View(s).rows /\ b.cash = stash[s].cash
             /\ new = [cash |-> b.cash, nav |-> b.nav, long |-> b.long, short |-> b.short,
                       margin |-> b.margin, unreal |-> b.unreal, real |-> b.real]
             /\ TotalsOnly(new)
             /\ stash' = [stash EXCEPT ![s] = Pending(View(s), new)]
<1>1. Active(s) /\ Computation(stash[s])
  BY DEF Totals, Active, WholeInv, Consistent
<1>2. View(s) \in Book
  BY <1>1, ViewSound
<1>3. PICK cash \in Int, real \in Int : cash = stash[s].cash /\ real = stash[s].real
  BY <1>1 DEF Computation
<1>4. PICK b : b = WithTotals(View(s), cash, real)
  OBVIOUS
<1>5. b \in Book /\ b.pos = View(s).pos /\ b.rows = View(s).rows /\ b.cash = cash
  BY <1>2, <1>4, TotalsWritten
<1>6. PICK new : new = [cash |-> b.cash, nav |-> b.nav, long |-> b.long, short |-> b.short,
                        margin |-> b.margin, unreal |-> b.unreal, real |-> b.real]
  OBVIOUS
<1>7. TotalsOnly(new)
  BY <1>5, <1>6 DEF TotalsOnly, TotalFields, Book
<1>8. stash' = [stash EXCEPT ![s] = Pending(View(s), new)]
  BY <1>3, <1>4, <1>6 DEF Totals
<1>9. QED
  BY <1>3, <1>4, <1>5, <1>6, <1>7, <1>8

(* The totals computed for the portfolio row contain no position. *)
LEMMA TotalsKeeps ==
    ASSUME WholeInv, NEW s \in Sessions, Totals(s)
    PROVE  WholeInv'
<1>1. /\ pc[s] = "totals" /\ Sound(copy[s]) /\ cur[s] \in Requests
      /\ Sound(book) /\ orders \in Seq(OrderRows) /\ todo[s] \in Seq(Requests) /\ todo[s] # <<>>
      /\ dirty[s] \subseteq Symbols \cup {Pf} /\ rows[s] \in Seq(OrderRows) /\ ops[s] \in Seq(Operations)
  BY DEF Totals, Active, Submitting, Filling, WholeInv, Consistent
<1>2. PICK new : TotalsOnly(new) /\ stash' = [stash EXCEPT ![s] = Pending(View(s), new)]
  BY TotalsIs
<1>3. /\ pc' = [pc EXCEPT ![s] = "flushPortfolio"]
      /\ UNCHANGED <<book, orders, kind, todo, cur, dirty, copy, rows, ops>>
  BY DEF Totals, Goto, job
<1>4. PerSession' /\ Others(s)
  BY <1>2, <1>3 DEF WholeInv, PerSession, Others
<1>5. pc'[s] = "flushPortfolio" /\ stash'[s].new = new
  BY <1>2, <1>3 DEF WholeInv, PerSession, Pending
<1>6. Consistent(s)'
  BY <1>1, <1>2, <1>3, <1>5 DEF Consistent, Active, Submitting, Filling
<1>7. QED
  BY <1>1, <1>3, <1>4, <1>6, OneSession

(* The order row of a trade that has been booked keeps its shape. *)
LEMMA AppliedRow ==
    ASSUME NEW q \in Seq(OrderRows), NEW n, NEW r, r = [q EXCEPT ![n].applied = TRUE]
    PROVE  /\ r \in Seq(OrderRows) /\ DOMAIN r = DOMAIN q /\ Len(r) = Len(q)
           /\ \A i \in DOMAIN q : r[i] = IF i = n THEN [q[i] EXCEPT !.applied = TRUE] ELSE q[i]
<1>1. PICK m \in Nat : m = Len(q)
  OBVIOUS
<1>2. DOMAIN q = 1 .. m /\ q = [i \in 1 .. m |-> q[i]] /\ \A i \in 1 .. m : q[i] \in OrderRows
  BY <1>1
<1>3. /\ DOMAIN r = 1 .. m /\ r = [i \in 1 .. m |-> r[i]]
      /\ \A i \in 1 .. m : r[i] = IF i = n THEN [q[i] EXCEPT !.applied = TRUE] ELSE q[i]
  BY <1>2
<1>4. ASSUME NEW i \in 1 .. m PROVE r[i] \in OrderRows
  <2>1. q[i] \in OrderRows
    BY <1>2
  <2>2. [q[i] EXCEPT !.applied = TRUE] \in OrderRows
    BY <2>1 DEF OrderRows
  <2>3. QED
    BY <1>3, <2>1, <2>2
<1>5. r \in [1 .. m -> OrderRows]
  BY <1>3, <1>4
<1>6. r \in Seq(OrderRows) /\ Len(r) = m
  BY <1>5
<1>7. QED
  BY <1>1, <1>2, <1>3, <1>6

(* The flush of the portfolio row leaves the positions alone. *)
LEMMA FlushPortfolioKeeps ==
    ASSUME WholeInv, NEW s \in Sessions, FlushPortfolio(s)
    PROVE  WholeInv'
<1>1. /\ pc[s] = "flushPortfolio" /\ Active(s) /\ TotalsOnly(stash[s].new)
      /\ Sound(book) /\ orders \in Seq(OrderRows) /\ todo[s] \in Seq(Requests)
      /\ dirty[s] \subseteq Symbols \cup {Pf} /\ rows[s] \in Seq(OrderRows) /\ ops[s] \in Seq(Operations)
  BY DEF FlushPortfolio, Active, WholeInv, Consistent
<1>2. PICK w : w = Update(View(s), stash[s].seen, stash[s].new)
  OBVIOUS
<1>3. Sound(w)
  BY <1>1, <1>2, ViewSound, TotalsSound
<1>4. /\ copy' = [copy EXCEPT ![s] = w] /\ stash' = [stash EXCEPT ![s] = NoStash]
      /\ dirty' = [dirty EXCEPT ![s] = dirty[s] \cup {Pf}]
      /\ UNCHANGED <<book, orders, kind, cur>>
  BY <1>2 DEF FlushPortfolio, Write, job
<1>5. /\ copy'[s] = w /\ dirty'[s] \subseteq Symbols \cup {Pf}
      /\ \A q \in Sessions \ {s} : stash'[q] = stash[q] /\ copy'[q] = copy[q] /\ dirty'[q] = dirty[q]
  BY <1>1, <1>4 DEF WholeInv, PerSession
<1>6. CASE kind[s] \in {"cash", "mark"}
  <2>1. pc' = [pc EXCEPT ![s] = "commit"] /\ UNCHANGED <<todo, rows, ops>>
    BY <1>6 DEF FlushPortfolio, Goto
  <2>2. PerSession' /\ Others(s)
    BY <1>4, <2>1 DEF WholeInv, PerSession, Others
  <2>3. pc'[s] = "commit"
    BY <2>1 DEF WholeInv, PerSession
  <2>4. Consistent(s)'
    BY <1>1, <1>3, <1>5, <2>1, <2>3 DEF Consistent, Active, Submitting, Filling
  <2>5. QED
    BY <1>1, <1>4, <2>2, <2>4, OneSession
<1>7. CASE kind[s] \notin {"cash", "mark"}
  <2>1. /\ NextOrder(s) /\ Submitting(s) /\ cur[s] \in Requests
    BY <1>1, <1>7 DEF FlushPortfolio, Submitting, Filling, WholeInv, Consistent
  <2>2. PICK o \in Operations : o = [op |-> "trade", trade |-> TradeInHand(s)]
    BY <2>1, TradeProper DEF Operations
  <2>3. ops' = [ops EXCEPT ![s] = Append(ops[s], o)]
    BY <1>7, <2>2 DEF FlushPortfolio
  <2>4. PICK r : r = [rows[s] EXCEPT ![Len(rows[s])].applied = TRUE]
    OBVIOUS
  <2>5. rows' = [rows EXCEPT ![s] = r] /\ r \in Seq(OrderRows)
    BY <1>1, <1>7, <2>4, AppliedRow DEF FlushPortfolio
  <2>6. Append(ops[s], o) \in Seq(Operations)
    BY <1>1
  <2>7. PerSession'
    BY <1>4, <2>1, <2>3, <2>5, NextOrderLeaves DEF WholeInv, PerSession
  <2>8. /\ rows'[s] \in Seq(OrderRows) /\ ops'[s] \in Seq(Operations)
        /\ \A q \in Sessions \ {s} : rows'[q] = rows[q] /\ ops'[q] = ops[q]
    BY <2>3, <2>5, <2>6 DEF WholeInv, PerSession
  <2>9. Sound(copy'[s])
    BY <1>3, <1>5
  <2>10. QED
    BY <1>4, <1>5, <2>1, <2>7, <2>8, <2>9, NextOrderKeeps
<1>8. QED
  BY <1>6, <1>7

-----------------------------------------------------------------------------
(* Sessions that do not overlap *)

(* The book that the operations of s so far make of the committed one. *)
Done(s) == Replay(book, ops[s])

(* The order in hand can still be applied to it, and paid for. *)
Payable(s) ==
    /\ Appliable(Done(s).pos[cur[s].sym], TradeInHand(s))
    /\ Done(s).cash + CashDelta(TradeInHand(s)) >= 0

ComputedFresh(s) ==
    /\ stash[s].cash = Done(s).cash + CashDelta(TradeInHand(s))
    /\ stash[s].real = Done(s).real + RealizedBy(Done(s).pos[cur[s].sym], TradeInHand(s))

AfterTrade(s) == PositionAfter(Done(s).pos[cur[s].sym], TradeInHand(s))

(* What the only open session knows: it sees the committed book with its own *)
(* operations done to it, and what it has computed follows from that. *)
Serial(s) ==
    /\ Sound(Done(s)) /\ Done(s).cash >= 0
    /\ Submitting(s) => kind[s] \notin {"cash", "mark"}
    /\ pc[s] \notin {"totals", "flushPortfolio"} => View(s) = Done(s)
    /\ pc[s] = "clamp" => Valid(Done(s), Head(todo[s]))
    /\ pc[s] = "cashGate" => Appliable(Done(s).pos[cur[s].sym], TradeInHand(s))
    /\ Filling(s) => Payable(s) /\ rows[s] # <<>>
    /\ pc[s] \in {"upsert", "flushPosition"} => ComputedFresh(s) /\ stash[s].pos = AfterTrade(s)
    /\ pc[s] = "flushPosition" => /\ stash[s].exists = (cur[s].sym \in Done(s).rows)
                                  /\ stash[s].seen = Done(s).pos[cur[s].sym]
    /\ pc[s] = "totals" => ComputedFresh(s) /\ View(s) = WithPosition(Done(s), cur[s].sym, AfterTrade(s))
    /\ pc[s] = "flushPortfolio" =>
         Update(View(s), stash[s].seen, stash[s].new)
           = IF Filling(s) THEN HandleTrade(Done(s), TradeInHand(s)) ELSE Done(s)
    /\ \A i \in DOMAIN rows[s] :
         rows[s][i].status = "FILLED" => rows[s][i].applied \/ (Filling(s) /\ i = Len(rows[s]))

(* The inductive invariant of sessions that do not overlap. *)
AloneInv ==
    /\ overlap \in BOOLEAN
    /\ ~overlap => /\ FilledIsApplied /\ NoOverdraft
                   /\ \A s, q \in Sessions : Active(s) /\ Active(q) => s = q
                   /\ \A s \in Sessions : Active(s) => Serial(s)

(* The step of a session keeps the invariant if it keeps the session's part *)
(* and no other session is open. *)
LEMMA AloneBy ==
    ASSUME NEW s \in Sessions, overlap' \in BOOLEAN,
           ~overlap' => /\ FilledIsApplied' /\ NoOverdraft'
                        /\ \A q \in Sessions \ {s} : ~Active(q)'
                        /\ Active(s)' => Serial(s)'
    PROVE  AloneInv'
<1>1. CASE overlap'
  BY <1>1 DEF AloneInv
<1>2. CASE ~overlap'
  <2>1. \A q, r \in Sessions : Active(q)' /\ Active(r)' => q = r
    BY <1>2
  <2>2. \A q \in Sessions : Active(q)' => Serial(q)'
    BY <1>2
  <2>3. QED
    BY <1>2, <2>1, <2>2 DEF AloneInv
<1>3. QED
  BY <1>1, <1>2

(* Without overlap the other sessions are not open, and stay so. *)
LEMMA OthersInactive ==
    ASSUME AloneInv, ~overlap, NEW s \in Sessions, Active(s), Others(s)
    PROVE  \A q \in Sessions \ {s} : ~Active(q)'
  BY DEF AloneInv, Others, Active

(* A step in the middle of a session keeps the invariant if it keeps what *)
(* the session knows. *)
LEMMA AloneStep ==
    ASSUME AloneInv, NEW s \in Sessions, Active(s), Others(s),
           UNCHANGED <<book, orders, overlap>>, ~overlap => Serial(s)'
    PROVE  AloneInv'
<1>1. overlap' \in BOOLEAN
  BY DEF AloneInv
<1>2. ASSUME ~overlap'
      PROVE  FilledIsApplied' /\ NoOverdraft' /\ \A q \in Sessions \ {s} : ~Active(q)'
  <2>1. FilledIsApplied' /\ NoOverdraft'
    BY <1>2 DEF AloneInv, FilledIsApplied, NoOverdraft
  <2>2. QED
    BY <1>2, <2>1, OthersInactive
<1>3. QED
  BY <1>1, <1>2, AloneBy

(* So does the end of a session, if what it leaves is in order. *)
LEMMA AloneClose ==
    ASSUME WholeInv, AloneInv, NEW s \in Sessions, Active(s), Close(s),
           ~overlap => FilledIsApplied' /\ NoOverdraft'
    PROVE  AloneInv'
<1>1. Others(s) /\ overlap' = overlap /\ ~Active(s)'
  BY DEF Close, Goto, job, WholeInv, PerSession, Others, Active
<1>2. overlap' \in BOOLEAN
  BY <1>1 DEF AloneInv
<1>3. QED
  BY <1>1, <1>2, OthersInactive, AloneBy

(* A rollback leaves what was committed. *)
LEMMA RollbackAlone ==
    ASSUME WholeInv, AloneInv, NEW s \in Sessions, Active(s), Rollback(s)
    PROVE  AloneInv'
<1>1. ~overlap => FilledIsApplied' /\ NoOverdraft'
  BY DEF Rollback, AloneInv, FilledIsApplied, NoOverdraft
<1>2. QED
  BY <1>1, AloneClose DEF Rollback

(* Overlapping sessions keep the invariant. *)
LEMMA OverlapStays ==
    ASSUME overlap, overlap' = overlap
    PROVE  AloneInv'
  BY DEF AloneInv

(* What a session sees and has done, when it writes nothing. *)
LEMMA SeenAgain ==
    ASSUME NEW s, book' = book, copy'[s] = copy[s], dirty'[s] = dirty[s], ops'[s] = ops[s]
    PROVE  View(s)' = View(s) /\ Done(s)' = Done(s)
<1>1. View(s)' = View(s)
  BY DEF View
<1>2. Done(s)' = Done(s)
  BY DEF Done
<1>3. QED
  BY <1>1, <1>2

(* A session that starts alone keeps the invariant if it knows the book. *)
LEMMA AloneStart ==
    ASSUME AloneInv, NEW s \in Sessions, NEW k, MayStart(s, k), Others(s),
           UNCHANGED <<book, orders>>, ~overlap => Serial(s)'
    PROVE  AloneInv'
<1>1. overlap' \in BOOLEAN
  BY DEF MayStart, AloneInv
<1>2. ASSUME ~overlap'
      PROVE  /\ FilledIsApplied' /\ NoOverdraft' /\ Serial(s)'
             /\ \A q \in Sessions \ {s} : ~Active(q)'
  <2>1. ~overlap /\ \A q \in Sessions : ~Active(q)
    BY <1>2 DEF MayStart, Active, AloneInv
  <2>2. FilledIsApplied' /\ NoOverdraft'
    BY <2>1 DEF AloneInv, FilledIsApplied, NoOverdraft
  <2>3. \A q \in Sessions \ {s} : ~Active(q)'
    BY <2>1 DEF Others, Active
  <2>4. QED
    BY <2>1, <2>2, <2>3
<1>3. QED
  BY <1>1, <1>2, AloneBy

(* A session that has not started has done nothing and has no rows. *)
LEMMA NothingYet ==
    ASSUME WholeInv, NEW s \in Sessions, pc[s] = "idle"
    PROVE  dirty[s] = {} /\ rows[s] = <<>> /\ ops[s] = <<>> /\ Sound(book) /\ book \in Book
  BY DEF WholeInv, Consistent, Active, Sound

(* A session with orders starts with the book as committed. *)
LEMMA BeginAlone ==
    ASSUME WholeInv, AloneInv, NEW s \in Sessions, NEW k \in {"order", "pipeline"}, MayStart(s, k),
           NEW requests, Begin(s, k, requests, "validate")
    PROVE  AloneInv'
<1>1. /\ kind' = [kind EXCEPT ![s] = k] /\ todo' = [todo EXCEPT ![s] = requests]
      /\ copy' = [copy EXCEPT ![s] = book] /\ pc' = [pc EXCEPT ![s] = "validate"]
      /\ UNCHANGED <<book, orders, cur, stash, dirty, rows, ops>>
  BY DEF Begin, Goto
<1>2. Others(s) /\ pc'[s] = "validate" /\ kind'[s] = k
  BY <1>1 DEF WholeInv, PerSession, Others
<1>3. dirty'[s] = {} /\ rows'[s] = <<>> /\ ops'[s] = <<>> /\ Sound(book) /\ book \in Book
  BY <1>1, NothingYet DEF MayStart
<1>4. ASSUME ~overlap PROVE Serial(s)'
  <2>1. View(s)' = SeenOf(book', copy'[s], dirty'[s])
    BY DEF View, SeenOf
  <2>2. View(s)' = book
    BY <1>1, <1>3, <2>1, SeenCommitted
  <2>3. Done(s)' = book
    BY <1>1, <1>3, ReplayNothing DEF Done
  <2>4. book.cash >= 0
    BY <1>4 DEF AloneInv, NoOverdraft
  <2>5. DOMAIN rows'[s] = {}
    BY <1>3
  <2>6. QED
    BY <1>2, <1>3, <2>2, <2>3, <2>4, <2>5 DEF Serial, Filling
<1>5. QED
  BY <1>1, <1>2, <1>4, AloneStart

(* An API order starts with the book as committed. *)
LEMMA StartOrderAlone ==
    ASSUME WholeInv, AloneInv, NEW s \in Sessions, StartOrder(s)
    PROVE  AloneInv'
<1>1. PICK r : MayStart(s, "order") /\ Begin(s, "order", <<r>>, "validate")
  BY DEF StartOrder
<1>2. QED
  BY <1>1, BeginAlone

(* A pipeline run starts with the book as committed. *)
LEMMA StartPipelineAlone ==
    ASSUME WholeInv, AloneInv, NEW s \in Sessions, StartPipeline(s)
    PROVE  AloneInv'
<1>1. PICK plan : MayStart(s, "pipeline") /\ Begin(s, "pipeline", plan, "validate")
  BY DEF StartPipeline
<1>2. QED
  BY <1>1, BeginAlone

(* A job that rewrites totals is done with the book once it has computed *)
(* them, and has them to write. *)
LEMMA TotalsJobAlone ==
    ASSUME WholeInv, AloneInv, NEW s \in Sessions, NEW k \in {"cash", "mark"}, MayStart(s, k),
           NEW new, DOMAIN new \subseteq Columns, NEW o \in Operations, NEW b, b = Do(book, o),
           Sound(b), ~overlap => b.cash >= 0,
           \A f \in Columns : b[f] = IF f \in DOMAIN new THEN new[f] ELSE book[f],
           stash' = [stash EXCEPT ![s] = Pending(book, new)],
           ops' = [ops EXCEPT ![s] = <<o>>],
           kind' = [kind EXCEPT ![s] = k],
           copy' = [copy EXCEPT ![s] = book],
           pc' = [pc EXCEPT ![s] = "flushPortfolio"],
           UNCHANGED <<book, orders, todo, cur, dirty, rows>>
    PROVE  AloneInv'
<1>1. /\ Others(s) /\ pc'[s] = "flushPortfolio" /\ kind'[s] = k /\ ops'[s] = <<o>>
      /\ stash'[s] = Pending(book, new)
  BY DEF WholeInv, PerSession, Others
<1>2. /\ dirty'[s] = {} /\ rows'[s] = <<>> /\ book \in Book
  BY NothingYet DEF MayStart
<1>3. ASSUME ~overlap PROVE Serial(s)'
  <2>1. View(s)' = SeenOf(book', copy'[s], dirty'[s])
    BY DEF View, SeenOf
  <2>2. View(s)' = book
    BY <1>2, <2>1, SeenCommitted
  <2>3. PICK none, one : none = <<>> /\ one = <<o>>
    OBVIOUS
  <2>4. none \in Seq(Operations) /\ one = Append(none, o)
    BY <2>3
  <2>4a. Replay(book, Append(none, o)) = Do(Replay(book, none), o)
    BY <2>4, ReplayAppends, Zenon
  <2>4b. Replay(book, <<o>>) = Do(Replay(book, <<>>), o)
    BY <2>3, <2>4, <2>4a, Zenon
  <2>5. Done(s)' = b
    BY <1>1, <2>4b, ReplayNothing DEF Done
  <2>6. Update(book, Pending(book, new).seen, Pending(book, new).new) = b
    BY <1>2, PendingWrites DEF Sound
  <2>7. ~Filling(s)' /\ ~Submitting(s)'
    BY <1>1 DEF Filling, Submitting
  <2>8. DOMAIN rows'[s] = {}
    BY <1>2
  <2>9. QED
    BY <1>1, <1>3, <2>2, <2>5, <2>6, <2>7, <2>8 DEF Serial
<1>4. QED
  BY <1>1, <1>3, AloneStart

(* A cash adjustment is done with the book once it is computed. *)
LEMMA StartCashAlone ==
    ASSUME WholeInv, AloneInv, NEW s \in Sessions, StartCash(s)
    PROVE  AloneInv'
<1>1. PICK amount, b :
        /\ b = Adjusted(book, book.cash + amount) /\ CanAdjust(book, amount) /\ amount \in Int
        /\ stash' = [stash EXCEPT ![s] = Pending(book, [cash |-> b.cash, nav |-> b.nav])]
        /\ ops' = [ops EXCEPT ![s] = <<[op |-> "cash", amount |-> amount]>>]
  BY StartCashIs
<1>2. PICK new, o : new = [cash |-> b.cash, nav |-> b.nav] /\ o = [op |-> "cash", amount |-> amount]
  OBVIOUS
<1>3. Sound(book)
  BY DEF WholeInv
<1>4. /\ Sound(b) /\ b.cash = book.cash + amount
      /\ \A f \in Columns \ {"cash", "nav"} : b[f] = book[f]
  BY <1>1, <1>3, AdjustSound
<1>5. b.cash >= 0
  BY <1>1, <1>4 DEF CanAdjust
<1>6. o \in Operations /\ b = Do(book, o)
  BY <1>1, <1>2 DEF Operations, Do
<1>7. /\ DOMAIN new = {"cash", "nav"} /\ DOMAIN new \subseteq Columns
      /\ new["cash"] = b["cash"] /\ new["nav"] = b["nav"]
  BY <1>2 DEF Columns
<1>8. \A f \in Columns : b[f] = IF f \in DOMAIN new THEN new[f] ELSE book[f]
  BY <1>4, <1>7
<1>9. /\ MayStart(s, "cash")
      /\ stash' = [stash EXCEPT ![s] = Pending(book, new)] /\ ops' = [ops EXCEPT ![s] = <<o>>]
      /\ kind' = [kind EXCEPT ![s] = "cash"] /\ copy' = [copy EXCEPT ![s] = book]
      /\ pc' = [pc EXCEPT ![s] = "flushPortfolio"]
      /\ UNCHANGED <<book, orders, todo, cur, dirty, rows>>
  BY <1>1, <1>2 DEF StartCash, Goto
<1>10. QED
  BY <1>4, <1>5, <1>6, <1>7, <1>8, <1>9, TotalsJobAlone

(* So is a mark. *)
LEMMA StartMarkAlone ==
    ASSUME WholeInv, AloneInv, NEW s \in Sessions, StartMark(s)
    PROVE  AloneInv'
<1>1. PICK b :
        /\ b = Marked(book, Price)
        /\ stash' = [stash EXCEPT ![s] =
                       Pending(book, [nav |-> b.nav, long |-> b.long, unreal |-> b.unreal])]
        /\ ops' = [ops EXCEPT ![s] = <<[op |-> "mark"]>>]
  BY StartMarkIs
<1>2. PICK new, o : new = [nav |-> b.nav, long |-> b.long, unreal |-> b.unreal] /\ o = [op |-> "mark"]
  OBVIOUS
<1>3. Sound(book)
  BY DEF WholeInv
<1>4. /\ Sound(b) /\ b.cash = book.cash
      /\ \A f \in Columns \ {"nav", "long", "unreal"} : b[f] = book[f]
  BY <1>1, <1>3, MarkSound
<1>5. ~overlap => b.cash >= 0
  BY <1>4 DEF AloneInv, NoOverdraft
<1>6. o \in Operations /\ b = Do(book, o)
  BY <1>1, <1>2 DEF Operations, Do
<1>7. /\ DOMAIN new = {"nav", "long", "unreal"} /\ DOMAIN new \subseteq Columns
      /\ new["nav"] = b["nav"] /\ new["long"] = b["long"] /\ new["unreal"] = b["unreal"]
  BY <1>2 DEF Columns
<1>8. \A f \in Columns : b[f] = IF f \in DOMAIN new THEN new[f] ELSE book[f]
  BY <1>4, <1>7
<1>9. /\ MayStart(s, "mark")
      /\ stash' = [stash EXCEPT ![s] = Pending(book, new)] /\ ops' = [ops EXCEPT ![s] = <<o>>]
      /\ kind' = [kind EXCEPT ![s] = "mark"] /\ copy' = [copy EXCEPT ![s] = book]
      /\ pc' = [pc EXCEPT ![s] = "flushPortfolio"]
      /\ UNCHANGED <<book, orders, todo, cur, dirty, rows>>
  BY <1>1, <1>2 DEF StartMark, Goto
<1>10. QED
  BY <1>4, <1>5, <1>6, <1>7, <1>8, <1>9, TotalsJobAlone

(* An order that is submitted belongs to an order or a run. *)
LEMMA KnownAlone ==
    ASSUME AloneInv, ~overlap, NEW s \in Sessions, Active(s)
    PROVE  Serial(s)
  BY DEF AloneInv

(* One more order row, the others as they were. *)
LEMMA RowAppended ==
    ASSUME NEW T, NEW q \in Seq(T), NEW w \in T, NEW r, r = Append(q, w)
    PROVE  /\ r # <<>> /\ Len(r) = Len(q) + 1 /\ Len(q) \in Nat
           /\ \A i \in DOMAIN r : i \in DOMAIN q \/ i = Len(q) + 1
           /\ \A i \in DOMAIN q : r[i] = q[i] /\ i # Len(q) + 1
           /\ r[Len(q) + 1] = w
<1>1. PICK n \in Nat : n = Len(q)
  OBVIOUS
<1>2. r \in Seq(T) /\ DOMAIN r = 1 .. n + 1 /\ DOMAIN q = 1 .. n /\ Len(r) = n + 1
  BY <1>1
<1>3. \A i \in 1 .. n : r[i] = q[i]
  BY <1>1, <1>2
<1>4. r[n + 1] = w
  BY <1>1, <1>2
<1>5. r # <<>>
  <2>1. DOMAIN r # DOMAIN <<>>
    BY <1>2
  <2>2. QED
    BY <2>1
<1>6. QED
  BY <1>1, <1>2, <1>3, <1>4, <1>5

(* A rejected order leaves the book alone. *)
LEMMA RejectAlone ==
    ASSUME WholeInv, AloneInv, NEW s \in Sessions, NEW r \in Requests,
           pc[s] \in {"validate", "cashGate"}, RejectOrder(s, r)
    PROVE  AloneInv'
<1>1. Active(s) /\ Submitting(s) /\ ~Filling(s)
  BY DEF Active, Submitting, Filling
<1>2. CASE kind[s] = "order"
  BY <1>1, <1>2, RollbackAlone DEF RejectOrder
<1>3. CASE kind[s] # "order"
  <2>1. /\ AddRow(s, r, "REJECTED") /\ NextOrder(s)
        /\ UNCHANGED <<book, orders, kind, overlap, cur, stash, dirty, copy, ops>>
    BY <1>3 DEF RejectOrder, job
  <2>2. PICK w : w = [sym |-> r.sym, side |-> r.side, qty |-> r.qty, status |-> "REJECTED", applied |-> FALSE]
    OBVIOUS
  <2>3. /\ \A q \in Sessions \ {s} : rows'[q] = rows[q]
        /\ rows'[s] = Append(rows[s], w) /\ rows[s] \in Seq(OrderRows)
    BY <2>1, <2>2, AddedRow DEF WholeInv, Consistent
  <2>4. w \in OrderRows /\ w.status = "REJECTED"
    BY <2>2 DEF Requests, Request, OrderRows
  <2>5. /\ \A q \in Sessions \ {s} : pc'[q] = pc[q] /\ todo'[q] = todo[q]
        /\ pc'[s] \in {"validate", "commit"}
    BY <1>1, <2>1, NextOrderLeaves
  <2>6. Others(s)
    BY <2>1, <2>3, <2>5 DEF Others
  <2>7. ASSUME ~overlap PROVE Serial(s)'
    <3>1. Serial(s)
      BY <1>1, <2>7, KnownAlone
    <3>2. View(s)' = View(s) /\ Done(s)' = Done(s)
      BY <2>1, SeenAgain
    <3>3. View(s) = Done(s) /\ Sound(Done(s)) /\ Done(s).cash >= 0 /\ kind[s] \notin {"cash", "mark"}
      BY <1>1, <3>1 DEF Serial
    <3>4. \A i \in DOMAIN rows[s] : rows[s][i].status = "FILLED" => rows[s][i].applied
      BY <1>1, <3>1 DEF Serial
    <3>5. \A i \in DOMAIN rows'[s] : rows'[s][i].status = "FILLED" => rows'[s][i].applied
      <4>1. PICK n, q : n = rows[s] /\ q = rows'[s]
        OBVIOUS
      <4>2. /\ \A i \in DOMAIN q : i \in DOMAIN n \/ i = Len(n) + 1
            /\ \A i \in DOMAIN n : q[i] = n[i]
            /\ q[Len(n) + 1] = w
        BY <2>3, <2>4, <4>1, RowAppended
      <4>3. QED
        BY <2>4, <3>4, <4>1, <4>2
    <3>6. ~Filling(s)'
      BY <2>5 DEF Filling
    <3>7. QED
      BY <2>1, <2>5, <3>2, <3>3, <3>5, <3>6 DEF Serial
  <2>8. QED
    BY <1>1, <2>1, <2>6, <2>7, AloneStep
<1>4. QED
  BY <1>2, <1>3

(* Validation finds the book as the session knows it. *)
LEMMA ValidateAlone ==
    ASSUME WholeInv, AloneInv, NEW s \in Sessions, Validate(s)
    PROVE  AloneInv'
<1>1. pc[s] = "validate" /\ Submitting(s) /\ Active(s) /\ ~Filling(s)
  BY DEF Validate, Submitting, Active, Filling
<1>2. CASE Valid(View(s), Head(todo[s]))
  <2>1. /\ pc' = [pc EXCEPT ![s] = "clamp"]
        /\ UNCHANGED <<book, orders, kind, overlap, todo, cur, stash, dirty, copy, rows, ops>>
    BY <1>2 DEF Validate, Goto, local, job
  <2>2. Others(s) /\ pc'[s] = "clamp"
    BY <2>1 DEF WholeInv, PerSession, Others
  <2>3. ASSUME ~overlap PROVE Serial(s)'
    <3>1. Serial(s)
      BY <1>1, <2>3, KnownAlone
    <3>2. View(s)' = View(s) /\ Done(s)' = Done(s)
      BY <2>1, SeenAgain
    <3>3. View(s) = Done(s)
      BY <1>1, <3>1 DEF Serial
    <3>4. ~Filling(s)'
      BY <2>2 DEF Filling
    <3>5. QED
      BY <1>1, <1>2, <2>1, <2>2, <3>1, <3>2, <3>3, <3>4 DEF Serial
  <2>4. QED
    BY <1>1, <2>1, <2>2, <2>3, AloneStep
<1>3. CASE ~Valid(View(s), Head(todo[s]))
  BY <1>1, <1>3, RejectAlone, HeadProper DEF Validate
<1>4. QED
  BY <1>2, <1>3

(* A valid order can be applied once it is clamped. *)
LEMMA ClampedFits ==
    ASSUME NEW b, Sound(b), NEW r \in Requests, Valid(b, r), NEW c, c = Clamp(b, r)
    PROVE  c.side = "SELL" => c.qty <= b.pos[c.sym].lq
<1>1. /\ c.sym = r.sym /\ c.side = r.side
  BY ClampProper
<1>2. PICK n \in Nat, q \in Nat : n = b.pos[r.sym].lq /\ q = r.qty
  BY DEF Requests, Request, Sound, Whole, LongRow, Position
<1>3. ASSUME r.side = "SELL" PROVE c.qty <= n
  <2>1. r.sym \in b.rows /\ q <= n + Tol /\ n > 0
    BY <1>2, <1>3 DEF Valid, Sound, Whole, Requests, Request
  <2>2. CASE NearFullSell(b, r)
    <3>1. PICK d : d = [r EXCEPT !.qty = n]
      OBVIOUS
    <3>2. d.qty = n
      BY <3>1 DEF Requests, Request
    <3>3. QED
      BY <1>2, <2>2, <3>1, <3>2 DEF Clamp
  <2>3. CASE ~NearFullSell(b, r)
    <3>1. c = r
      BY <2>3 DEF Clamp
    <3>2. Abs(q - n) > Tol
      BY <1>2, <1>3, <2>1, <2>3, PortfolioAssumption DEF NearFullSell, Abs
    <3>3. q <= n
      BY <2>1, <3>2, PortfolioAssumption DEF Abs
    <3>4. QED
      BY <1>2, <3>1, <3>3
  <2>4. QED
    BY <2>2, <2>3
<1>4. QED
  BY <1>1, <1>2, <1>3

(* After the clamp the order in hand can be applied. *)
LEMMA ClampAlone ==
    ASSUME WholeInv, AloneInv, NEW s \in Sessions, ClampQuantity(s)
    PROVE  AloneInv'
<1>1. pc[s] = "clamp" /\ Submitting(s) /\ Active(s) /\ ~Filling(s)
  BY DEF ClampQuantity, Submitting, Active, Filling
<1>2. PICK r, c : r = Head(todo[s]) /\ c = Clamp(View(s), r)
  OBVIOUS
<1>3. /\ pc' = [pc EXCEPT ![s] = "cashGate"] /\ cur' = [cur EXCEPT ![s] = c]
      /\ UNCHANGED <<book, orders, kind, overlap, todo, stash, dirty, copy, rows, ops>>
  BY <1>2 DEF ClampQuantity, Goto, job
<1>4. Others(s) /\ pc'[s] = "cashGate" /\ cur'[s] = c
  BY <1>3 DEF WholeInv, PerSession, Others
<1>5. r \in Requests /\ Sound(View(s))
  BY <1>1, <1>2, HeadProper, ViewSound
<1>6. ASSUME ~overlap PROVE Serial(s)'
  <2>1. Serial(s)
    BY <1>1, <1>6, KnownAlone
  <2>2. View(s)' = View(s) /\ Done(s)' = Done(s)
    BY <1>3, SeenAgain
  <2>3. View(s) = Done(s) /\ Valid(Done(s), r)
    BY <1>1, <1>2, <2>1 DEF Serial
  <2>4. c.side = "SELL" => c.qty <= Done(s).pos[c.sym].lq
    BY <1>2, <1>5, <2>3, ClampedFits
  <2>5. c.side \in {"BUY", "SELL"}
    BY <1>2, <1>5, ClampProper DEF Requests, Request
  <2>6. TradeInHand(s)' = TradeOf(c, Price[c.sym])
    BY <1>4 DEF TradeInHand
  <2>7. Appliable(Done(s).pos[c.sym], TradeOf(c, Price[c.sym]))
    BY <2>4, <2>5 DEF Appliable, TradeOf
  <2>8. ~Filling(s)'
    BY <1>4 DEF Filling
  <2>9. QED
    BY <1>1, <1>3, <1>4, <2>1, <2>2, <2>3, <2>6, <2>7, <2>8 DEF Serial
<1>7. QED
  BY <1>1, <1>3, <1>4, <1>6, AloneStep

(* What depends on the order in hand and on the book. *)
LEMMA HandAgain ==
    ASSUME NEW s, cur'[s] = cur[s], Done(s)' = Done(s)
    PROVE  /\ TradeInHand(s)' = TradeInHand(s) /\ AfterTrade(s)' = AfterTrade(s)
           /\ Payable(s)' <=> Payable(s)
<1>1. TradeInHand(s)' = TradeInHand(s)
  BY DEF TradeInHand
<1>2. QED
  BY <1>1 DEF AfterTrade, Payable

(* An order the gate lets through can be paid for. *)
LEMMA GatePays ==
    ASSUME NEW b \in Book, b.cash >= 0, NEW t \in LongTrades, CashCovers(b, t),
           t.side = "SELL" => Commission <= t.price
    PROVE  b.cash + CashDelta(t) >= 0
<1>1. b.cash \in Int
  BY DEF Book
<1>2. CASE t.side = "BUY"
  <2>1. t.price \in Nat /\ t.qty \in Nat /\ Commission \in Nat
    BY PortfolioAssumption DEF LongTrades
  <2>2. PICK n \in Int : n = t.price * t.qty
    BY <2>1
  <2>3. CashDelta(t) = -(n + Commission) /\ n + Commission <= b.cash
    BY <1>2, <2>2 DEF CashDelta, CashCovers, Cost, BuySides
  <2>4. QED
    BY <1>1, <2>1, <2>2, <2>3
<1>3. CASE t.side = "SELL"
  <2>1. t \in Trades /\ t.qty > 0
    BY <1>3 DEF LongTrades, Trades, Sides, BuySides, SellSides
  <2>2. CashDelta(t) >= 0
    BY <1>3, <2>1, SaleBrings DEF SellSides
  <2>3. CashDelta(t) \in Int
    <3>1. t.price \in Nat /\ t.qty \in Nat /\ Commission \in Nat
      BY PortfolioAssumption DEF LongTrades
    <3>2. PICK n \in Int : n = t.price * t.qty
      BY <3>1
    <3>3. CashDelta(t) = n - Commission
      BY <1>3, <3>2 DEF CashDelta, Proceeds, BuySides
    <3>4. QED
      BY <3>1, <3>2, <3>3
  <2>4. QED
    BY <1>1, <2>2, <2>3
<1>4. QED
  BY <1>2, <1>3 DEF LongTrades

(* Past the gate the order in hand can be applied and paid for. *)
LEMMA CashGateAlone ==
    ASSUME WholeInv, AloneInv, NEW s \in Sessions, CashGate(s)
    PROVE  AloneInv'
<1>1. pc[s] = "cashGate" /\ Submitting(s) /\ Active(s) /\ ~Filling(s) /\ cur[s] \in Requests
  BY DEF CashGate, Submitting, Active, Filling, WholeInv, Consistent
<1>2. CASE CashCovers(View(s), TradeInHand(s))
  <2>1. /\ pc' = [pc EXCEPT ![s] = "apply"] /\ AddRow(s, cur[s], "FILLED")
        /\ UNCHANGED <<book, orders, kind, overlap, todo, cur, stash, dirty, copy, ops>>
    BY <1>2 DEF CashGate, Goto, job
  <2>2. PICK w : w = [sym |-> cur[s].sym, side |-> cur[s].side, qty |-> cur[s].qty,
                      status |-> "FILLED", applied |-> FALSE]
    OBVIOUS
  <2>3. /\ \A q \in Sessions \ {s} : rows'[q] = rows[q]
        /\ rows'[s] = Append(rows[s], w) /\ rows[s] \in Seq(OrderRows)
    BY <1>1, <2>1, <2>2, AddedRow DEF WholeInv, Consistent
  <2>4. w \in OrderRows
    BY <1>1, <2>2 DEF Requests, Request, OrderRows
  <2>5. Others(s) /\ pc'[s] = "apply"
    BY <2>1, <2>3 DEF WholeInv, PerSession, Others
  <2>6. ASSUME ~overlap PROVE Serial(s)'
    <3>1. Serial(s)
      BY <1>1, <2>6, KnownAlone
    <3>2. View(s)' = View(s) /\ Done(s)' = Done(s)
      BY <2>1, SeenAgain
    <3>3. /\ View(s) = Done(s) /\ Sound(Done(s)) /\ Done(s).cash >= 0 /\ kind[s] \notin {"cash", "mark"}
          /\ Appliable(Done(s).pos[cur[s].sym], TradeInHand(s))
          /\ \A i \in DOMAIN rows[s] : rows[s][i].status = "FILLED" => rows[s][i].applied
      BY <1>1, <3>1 DEF Serial
    <3>4. Done(s).cash + CashDelta(TradeInHand(s)) >= 0
      BY <1>1, <1>2, <3>3, TradeProper, GatePays DEF Sound
    <3>5. Payable(s)'
      BY <2>1, <3>2, <3>3, <3>4, HandAgain DEF Payable
    <3>6. /\ rows'[s] # <<>>
          /\ \A i \in DOMAIN rows'[s] :
               rows'[s][i].status = "FILLED" => rows'[s][i].applied \/ i = Len(rows'[s])
      <4>1. PICK n, q : n = rows[s] /\ q = rows'[s]
        OBVIOUS
      <4>2. /\ \A i \in DOMAIN q : i \in DOMAIN n \/ i = Len(q)
            /\ \A i \in DOMAIN n : q[i] = n[i]
            /\ q # <<>>
        BY <2>3, <2>4, <4>1, RowAppended
      <4>3. QED
        BY <3>3, <4>1, <4>2
    <3>7. Filling(s)'
      BY <2>5 DEF Filling
    <3>8. QED
      BY <2>1, <2>5, <3>2, <3>3, <3>5, <3>6, <3>7 DEF Serial
  <2>7. QED
    BY <1>1, <2>1, <2>5, <2>6, AloneStep
<1>3. CASE ~CashCovers(View(s), TradeInHand(s))
  BY <1>1, <1>3, RejectAlone DEF CashGate
<1>4. QED
  BY <1>2, <1>3

(* What is computed follows from the book as the session knows it. *)
LEMMA ApplyAlone ==
    ASSUME WholeInv, AloneInv, NEW s \in Sessions, Apply(s)
    PROVE  AloneInv'
<1>1. pc[s] = "apply" /\ Submitting(s) /\ Active(s) /\ Filling(s) /\ cur[s] \in Requests
  BY DEF Apply, Submitting, Active, Filling, WholeInv, Consistent
<1>2. PICK st : st = Computed(s, View(s))
  OBVIOUS
<1>3. /\ pc' = [pc EXCEPT ![s] = "upsert"] /\ stash' = [stash EXCEPT ![s] = st]
      /\ UNCHANGED <<book, orders, kind, overlap, todo, cur, dirty, copy, rows, ops>>
  BY <1>2 DEF Apply, Goto, job
<1>4. Others(s) /\ pc'[s] = "upsert" /\ stash'[s] = st
  BY <1>3 DEF WholeInv, PerSession, Others
<1>5. ASSUME ~overlap PROVE Serial(s)'
  <2>1. Serial(s)
    BY <1>1, <1>5, KnownAlone
  <2>2. View(s)' = View(s) /\ Done(s)' = Done(s)
    BY <1>3, SeenAgain
  <2>3. /\ TradeInHand(s)' = TradeInHand(s) /\ AfterTrade(s)' = AfterTrade(s)
        /\ Payable(s)' <=> Payable(s)
    BY <1>3, <2>2, HandAgain
  <2>4. View(s) = Done(s)
    BY <1>1, <2>1 DEF Serial
  <2>5. /\ TradeInHand(s).sym = cur[s].sym
    BY <1>1, TradeProper
  <2>6. /\ st.pos = AfterTrade(s)
        /\ st.cash = Done(s).cash + CashDelta(TradeInHand(s))
        /\ st.real = Done(s).real + RealizedBy(Done(s).pos[cur[s].sym], TradeInHand(s))
    BY <1>2, <2>4, <2>5 DEF Computed, AfterTrade
  <2>7. ComputedFresh(s)' /\ stash'[s].pos = AfterTrade(s)'
    BY <1>3, <1>4, <2>2, <2>3, <2>6 DEF ComputedFresh
  <2>8. Filling(s)'
    BY <1>4 DEF Filling
  <2>9. QED
    BY <1>1, <1>3, <1>4, <2>1, <2>2, <2>3, <2>4, <2>7, <2>8 DEF Serial
<1>6. QED
  BY <1>1, <1>3, <1>4, <1>5, AloneStep

(* Without overlap no trade is found that cannot be applied. *)
LEMMA ApplyRaisesAlone ==
    ASSUME WholeInv, AloneInv, NEW s \in Sessions, ApplyRaises(s)
    PROVE  AloneInv'
<1>1. pc[s] = "apply" /\ Active(s) /\ Filling(s) /\ ~Appliable(View(s).pos[cur[s].sym], TradeInHand(s))
  BY DEF ApplyRaises, Active, Filling
<1>2. overlap' = overlap
  BY DEF ApplyRaises, Rollback, Close, job
<1>3. CASE overlap
  BY <1>2, <1>3, OverlapStays
<1>4. CASE ~overlap
  BY <1>1, <1>4, KnownAlone DEF Serial, Payable
<1>5. QED
  BY <1>3, <1>4 DEF AloneInv

(* The lookup of the row finds what the session knows of it. *)
LEMMA UpsertAlone ==
    ASSUME WholeInv, AloneInv, NEW s \in Sessions, Upsert(s)
    PROVE  AloneInv'
<1>1. pc[s] = "upsert" /\ Submitting(s) /\ Active(s) /\ Filling(s) /\ Computation(stash[s])
  BY DEF Upsert, Submitting, Active, Filling, WholeInv, Consistent
<1>2. PICK e, v : e = (cur[s].sym \in View(s).rows) /\ v = View(s).pos[cur[s].sym]
  OBVIOUS
<1>3. PICK st : st = [stash[s] EXCEPT !.exists = e, !.seen = v]
  OBVIOUS
<1>4. stash' = [stash EXCEPT ![s] = st]
  BY <1>2, <1>3 DEF Upsert, WholeInv, PerSession
<1>5. /\ pc' = [pc EXCEPT ![s] = "flushPosition"]
      /\ UNCHANGED <<book, orders, kind, overlap, todo, cur, dirty, copy, rows, ops>>
  BY DEF Upsert, Goto, job
<1>6. Others(s) /\ pc'[s] = "flushPosition" /\ stash'[s] = st
  BY <1>4, <1>5 DEF WholeInv, PerSession, Others
<1>7. /\ st.pos = stash[s].pos /\ st.cash = stash[s].cash /\ st.real = stash[s].real
      /\ st.exists = e /\ st.seen = v
  BY <1>1, <1>3 DEF Computation
<1>8. ASSUME ~overlap PROVE Serial(s)'
  <2>1. Serial(s)
    BY <1>1, <1>8, KnownAlone
  <2>2. View(s)' = View(s) /\ Done(s)' = Done(s)
    BY <1>5, SeenAgain
  <2>3. /\ TradeInHand(s)' = TradeInHand(s) /\ AfterTrade(s)' = AfterTrade(s)
        /\ Payable(s)' <=> Payable(s)
    BY <1>5, <2>2, HandAgain
  <2>4. View(s) = Done(s) /\ ComputedFresh(s) /\ stash[s].pos = AfterTrade(s)
    BY <1>1, <2>1 DEF Serial
  <2>5. ComputedFresh(s)'
    BY <1>5, <1>6, <1>7, <2>2, <2>3, <2>4 DEF ComputedFresh
  <2>6. /\ stash'[s].pos = AfterTrade(s)'
        /\ stash'[s].exists = (cur'[s].sym \in Done(s)'.rows)
        /\ stash'[s].seen = Done(s)'.pos[cur'[s].sym]
    BY <1>2, <1>5, <1>6, <1>7, <2>2, <2>3, <2>4
  <2>7. Filling(s)'
    BY <1>6 DEF Filling
  <2>8. QED
    BY <1>1, <1>5, <1>6, <2>1, <2>2, <2>3, <2>4, <2>5, <2>6, <2>7 DEF Serial
<1>9. QED
  BY <1>1, <1>5, <1>6, <1>8, AloneStep

(* The flush of the position writes the position the trade leads to. *)
LEMMA FlushPositionAlone ==
    ASSUME WholeInv, AloneInv, NEW s \in Sessions, FlushPosition(s)
    PROVE  AloneInv'
<1>1. /\ pc[s] = "flushPosition" /\ Submitting(s) /\ Active(s) /\ Filling(s) /\ cur[s] \in Requests
      /\ Computation(stash[s]) /\ Sound(book) /\ Sound(copy[s])
  BY DEF FlushPosition, Submitting, Active, Filling, WholeInv, Consistent
<1>2. overlap' = overlap
  BY DEF FlushPosition, Rollback, Close, job
<1>3. CASE overlap
  BY <1>2, <1>3, OverlapStays
<1>4. CASE ~overlap
  <2>1. Serial(s)
    BY <1>1, <1>4, KnownAlone
  <2>2. PICK x, v, p : x = cur[s].sym /\ v = View(s) /\ p = AfterTrade(s)
    OBVIOUS
  <2>3. /\ v = Done(s) /\ Sound(v) /\ stash[s].pos = p /\ ComputedFresh(s)
        /\ stash[s].exists = (x \in v.rows) /\ stash[s].seen = v.pos[x]
    BY <1>1, <2>1, <2>2 DEF Serial
  <2>4. x \in Symbols /\ LongRow(p)
    BY <1>1, <2>2, <2>3, TradeProper DEF Computation
  <2>5. Update(v.pos[x], stash[s].seen, stash[s].pos) = p
    BY <2>3, <2>4, UpdatedFresh, SoundSettled DEF LongRow
  <2>6. PICK w : w = WithPosition(v, x, p)
    OBVIOUS
  <2>7. /\ copy' = [copy EXCEPT ![s] = w] /\ pc' = [pc EXCEPT ![s] = "totals"]
        /\ dirty' = [dirty EXCEPT ![s] = dirty[s] \cup {x}]
        /\ UNCHANGED <<book, orders, kind, overlap, todo, cur, stash, rows, ops>>
    BY <2>2, <2>3, <2>5, <2>6 DEF FlushPosition, Write, Goto, job
  <2>8. /\ Others(s) /\ pc'[s] = "totals" /\ copy'[s] = w /\ dirty'[s] = dirty[s] \cup {x}
    BY <2>7 DEF WholeInv, PerSession, Others
  <2>9. /\ Sound(w) /\ w \in Book
        /\ \A f \in Columns \ {"rows", "pos"} : w[f] = v[f]
        /\ \A y \in Symbols : y = x \/ (w.pos[y] = v.pos[y] /\ (y \in w.rows <=> y \in v.rows))
    BY <2>3, <2>4, <2>6, WrittenSound DEF Sound
  <2>10. v = SeenOf(book, copy[s], dirty[s])
    BY <2>2, ViewIs
  <2>11. SeenOf(book, w, dirty[s] \cup {x}) = w
    <3>1. PICK c, d : c = copy[s] /\ d = dirty[s]
      OBVIOUS
    <3>2. book \in Book /\ c \in Book /\ v = SeenOf(book, c, d)
      BY <1>1, <2>10, <3>1 DEF Sound
    <3>3. w \in Book /\ (d # {} => c \in Book)
      BY <2>9, <3>2
    <3>4. x = Pf \/ \A f \in Columns \ {"rows", "pos"} : w[f] = v[f]
      BY <2>9
    <3>5. \A y \in Symbols : y = x \/ (w.pos[y] = v.pos[y] /\ (y \in w.rows <=> y \in v.rows))
      BY <2>9
    <3>6. SeenOf(book, w, d \cup {x}) = w
      BY <3>2, <3>3, <3>4, <3>5, SeenWritten
    <3>7. QED
      BY <3>1, <3>6
  <2>12. View(s)' = SeenOf(book', copy'[s], dirty'[s])
    BY DEF View, SeenOf
  <2>13. View(s)' = w
    BY <2>7, <2>8, <2>11, <2>12
  <2>14. Done(s)' = Done(s)
    BY <2>7 DEF Done
  <2>15. /\ TradeInHand(s)' = TradeInHand(s) /\ AfterTrade(s)' = AfterTrade(s)
         /\ Payable(s)' <=> Payable(s)
    BY <2>7, <2>14, HandAgain
  <2>16. ComputedFresh(s)'
    BY <2>3, <2>7, <2>14, <2>15 DEF ComputedFresh
  <2>17. View(s)' = WithPosition(Done(s)', cur'[s].sym, AfterTrade(s)')
    BY <2>2, <2>3, <2>6, <2>7, <2>13, <2>14, <2>15
  <2>18. Filling(s)'
    BY <2>8 DEF Filling
  <2>19. Serial(s)'
    BY <1>1, <2>1, <2>7, <2>8, <2>14, <2>15, <2>16, <2>17, <2>18 DEF Serial
  <2>20. QED
    BY <1>1, <1>2, <2>7, <2>8, <2>19, AloneStep
<1>5. QED
  BY <1>3, <1>4

(* The totals computed are those of the book after the trade. *)
LEMMA TotalsAlone ==
    ASSUME WholeInv, AloneInv, NEW s \in Sessions, Totals(s)
    PROVE  AloneInv'
<1>1. pc[s] = "totals" /\ Submitting(s) /\ Active(s) /\ Filling(s) /\ cur[s] \in Requests
  BY DEF Totals, Submitting, Active, Filling, WholeInv, Consistent
<1>2. PICK b, new :
        /\ b = WithTotals(View(s), stash[s].cash, stash[s].real)
        /\ b \in Book /\ b.pos = View(s).pos /\ b.rows = View(s).rows
        /\ new = [cash |-> b.cash, nav |-> b.nav, long |-> b.long, short |-> b.short,
                  margin |-> b.margin, unreal |-> b.unreal, real |-> b.real]
        /\ stash' = [stash EXCEPT ![s] = Pending(View(s), new)]
  BY TotalsIs
<1>3. /\ pc' = [pc EXCEPT ![s] = "flushPortfolio"]
      /\ UNCHANGED <<book, orders, kind, overlap, todo, cur, dirty, copy, rows, ops>>
  BY DEF Totals, Goto, job
<1>4. Others(s) /\ pc'[s] = "flushPortfolio" /\ stash'[s] = Pending(View(s), new)
  BY <1>2, <1>3 DEF WholeInv, PerSession, Others
<1>5. PICK v : v = View(s)
  OBVIOUS
<1>6. v \in Book
  BY <1>1, <1>5, ViewSound
<1>7. Update(v, Pending(v, new).seen, Pending(v, new).new) = b
  <2>1. /\ DOMAIN new = TotalFields
        /\ new["cash"] = b["cash"] /\ new["nav"] = b["nav"] /\ new["long"] = b["long"]
        /\ new["short"] = b["short"] /\ new["margin"] = b["margin"]
        /\ new["unreal"] = b["unreal"] /\ new["real"] = b["real"]
    BY <1>2 DEF TotalFields
  <2>2. b["open"] = v["open"] /\ b["rows"] = v["rows"] /\ b["pos"] = v["pos"]
    BY <1>2, <1>5, <1>6 DEF Book
  <2>3. DOMAIN new \subseteq Columns
    BY <2>1 DEF TotalFields, Columns
  <2>4. ASSUME NEW f \in Columns PROVE b[f] = IF f \in DOMAIN new THEN new[f] ELSE v[f]
    BY <2>1, <2>2 DEF TotalFields, Columns
  <2>5. QED
    BY <1>2, <1>6, <2>3, <2>4, PendingWrites
<1>8. ASSUME ~overlap PROVE Serial(s)'
  <2>1. Serial(s)
    BY <1>1, <1>8, KnownAlone
  <2>2. View(s)' = v /\ Done(s)' = Done(s)
    BY <1>3, <1>5, SeenAgain
  <2>3. TradeInHand(s)' = TradeInHand(s) /\ (Payable(s)' <=> Payable(s))
    BY <1>3, <2>2, HandAgain
  <2>4. ComputedFresh(s) /\ v = WithPosition(Done(s), cur[s].sym, AfterTrade(s))
    BY <1>1, <1>5, <2>1 DEF Serial
  <2>5. TradeInHand(s).sym = cur[s].sym
    BY <1>1, TradeProper
  <2>6. b = HandleTrade(Done(s), TradeInHand(s))
    BY <1>2, <1>5, <2>4, <2>5 DEF HandleTrade, ComputedFresh, AfterTrade
  <2>7. kind[s] \notin {"cash", "mark"}
    BY <1>1, <2>1 DEF Serial
  <2>8. Filling(s)' /\ kind'[s] \notin {"cash", "mark"}
    BY <1>3, <1>4, <2>7 DEF Filling
  <2>9. Update(View(s)', stash'[s].seen, stash'[s].new) = HandleTrade(Done(s)', TradeInHand(s)')
    <3>1. PICK e, d, t, h :
            /\ e = Pending(v, new) /\ d = Done(s) /\ t = TradeInHand(s) /\ h = HandleTrade(d, t)
      OBVIOUS
    <3>2. View(s)' = v /\ stash'[s] = e /\ Update(v, e.seen, e.new) = h
      BY <1>4, <1>5, <1>7, <2>2, <2>6, <3>1
    <3>3. Done(s)' = d /\ TradeInHand(s)' = t
      BY <2>2, <2>3, <3>1
    <3>4. QED
      BY <3>1, <3>2, <3>3
  <2>10. QED
    BY <1>1, <1>3, <1>4, <2>1, <2>2, <2>3, <2>8, <2>9 DEF Serial
<1>9. QED
  BY <1>1, <1>3, <1>4, <1>8, AloneStep

(* The flush of the portfolio row completes the operation. *)
LEMMA FlushPortfolioAlone ==
    ASSUME WholeInv, AloneInv, NEW s \in Sessions, FlushPortfolio(s)
    PROVE  AloneInv'
<1>1. /\ pc[s] = "flushPortfolio" /\ Active(s) /\ TotalsOnly(stash[s].new)
      /\ Sound(book) /\ Sound(copy[s]) /\ rows[s] \in Seq(OrderRows) /\ ops[s] \in Seq(Operations)
  BY DEF FlushPortfolio, Active, WholeInv, Consistent
<1>2. PICK v, w : v = View(s) /\ w = Update(v, stash[s].seen, stash[s].new)
  OBVIOUS
<1>3. Sound(v) /\ Sound(w) /\ w.rows = v.rows /\ w.pos = v.pos
  BY <1>1, <1>2, ViewSound, TotalsSound
<1>4. /\ copy' = [copy EXCEPT ![s] = w] /\ stash' = [stash EXCEPT ![s] = NoStash]
      /\ dirty' = [dirty EXCEPT ![s] = dirty[s] \cup {Pf}]
      /\ UNCHANGED <<book, orders, kind, overlap, cur>>
  BY <1>2 DEF FlushPortfolio, Write, job
<1>5. /\ copy'[s] = w /\ dirty'[s] = dirty[s] \cup {Pf}
      /\ \A q \in Sessions \ {s} : stash'[q] = stash[q] /\ copy'[q] = copy[q] /\ dirty'[q] = dirty[q]
  BY <1>4 DEF WholeInv, PerSession
<1>6. View(s)' = w
  <2>1. v = SeenOf(book, copy[s], dirty[s])
    BY <1>2, ViewIs
  <2>2. SeenOf(book, w, dirty[s] \cup {Pf}) = w
    <3>1. PICK c, d : c = copy[s] /\ d = dirty[s]
      OBVIOUS
    <3>2. book \in Book /\ c \in Book /\ v = SeenOf(book, c, d) /\ w \in Book
      BY <1>1, <1>3, <2>1, <3>1 DEF Sound
    <3>3. SeenOf(book, w, d \cup {Pf}) = w
      BY <1>3, <3>2, TotalsSeen
    <3>4. QED
      BY <3>1, <3>3
  <2>3. View(s)' = SeenOf(book', copy'[s], dirty'[s])
    BY DEF View, SeenOf
  <2>4. QED
    BY <1>4, <1>5, <2>2, <2>3
<1>7. CASE kind[s] \in {"cash", "mark"}
  <2>1. pc' = [pc EXCEPT ![s] = "commit"] /\ UNCHANGED <<todo, rows, ops>>
    BY <1>7 DEF FlushPortfolio, Goto
  <2>2. Others(s) /\ pc'[s] = "commit"
    BY <1>4, <2>1 DEF WholeInv, PerSession, Others
  <2>3. ~Filling(s) /\ ~Filling(s)' /\ ~Submitting(s)'
    BY <1>1, <1>7, <2>2 DEF Filling, Submitting
  <2>4. ASSUME ~overlap PROVE Serial(s)'
    <3>1. Serial(s)
      BY <1>1, <2>4, KnownAlone
    <3>2. Done(s)' = Done(s)
      BY <1>4, <2>1 DEF Done
    <3>3. w = Done(s)
      BY <1>1, <1>2, <2>3, <3>1 DEF Serial
    <3>4. QED
      BY <1>6, <2>1, <2>2, <2>3, <3>1, <3>2, <3>3 DEF Serial
  <2>5. QED
    BY <1>1, <1>4, <2>2, <2>4, AloneStep
<1>8. CASE kind[s] \notin {"cash", "mark"}
  <2>1. /\ NextOrder(s) /\ Submitting(s) /\ Filling(s) /\ cur[s] \in Requests
    BY <1>1, <1>8 DEF FlushPortfolio, Submitting, Filling, WholeInv, Consistent
  <2>2. PICK t \in LongTrades : t = TradeInHand(s)
    BY <2>1, TradeProper
  <2>3. PICK o \in Operations : o = [op |-> "trade", trade |-> t]
    BY DEF Operations
  <2>4. ops' = [ops EXCEPT ![s] = Append(ops[s], o)]
    BY <1>8, <2>2, <2>3 DEF FlushPortfolio
  <2>5. PICK n, r : n = Len(rows[s]) /\ r = [rows[s] EXCEPT ![n].applied = TRUE]
    OBVIOUS
  <2>6. rows' = [rows EXCEPT ![s] = r]
    BY <1>8, <2>5 DEF FlushPortfolio
  <2>7. /\ \A q \in Sessions \ {s} : pc'[q] = pc[q] /\ todo'[q] = todo[q]
        /\ pc'[s] \in {"validate", "commit"}
    BY <2>1, NextOrderLeaves
  <2>8. Others(s) /\ ops'[s] = Append(ops[s], o) /\ rows'[s] = r
    BY <1>4, <1>5, <2>4, <2>6, <2>7 DEF WholeInv, PerSession, Others
  <2>9. ASSUME ~overlap PROVE Serial(s)'
    <3>1. Serial(s)
      BY <1>1, <2>9, KnownAlone
    <3>2. /\ w = HandleTrade(Done(s), t) /\ Payable(s) /\ Sound(Done(s))
      BY <1>1, <1>2, <2>1, <2>2, <3>1 DEF Serial
    <3>3. Replay(book, Append(ops[s], o)) = Do(Replay(book, ops[s]), o)
      BY <1>1, ReplayAppends
    <3>4. Do(Done(s), o) = HandleTrade(Done(s), t)
      BY <2>3 DEF Do
    <3>5. Done(s)' = w
      BY <1>4, <2>8, <3>2, <3>3, <3>4 DEF Done
    <3>6. t.sym = cur[s].sym
      BY <2>1, <2>2, TradeProper
    <3>7. w.cash >= 0
      BY <2>2, <3>2, <3>6, TradeSound DEF Payable
    <3>8. ~Filling(s)'
      BY <2>7 DEF Filling
    <3>9. \A i \in DOMAIN r : r[i].status = "FILLED" => r[i].applied
      <4>1. /\ DOMAIN r = DOMAIN rows[s]
            /\ \A i \in DOMAIN r : r[i] = IF i = n THEN [rows[s][i] EXCEPT !.applied = TRUE] ELSE rows[s][i]
        BY <1>1, <2>5, AppliedRow
      <4>2. \A i \in DOMAIN rows[s] : rows[s][i].status = "FILLED" => rows[s][i].applied \/ i = n
        BY <2>5, <3>1 DEF Serial
      <4>3. \A i \in DOMAIN rows[s] : [rows[s][i] EXCEPT !.applied = TRUE].applied
        BY <1>1 DEF OrderRows
      <4>4. QED
        BY <4>1, <4>2, <4>3
    <3>10. kind'[s] \notin {"cash", "mark"}
      BY <1>4, <1>8
    <3>11. QED
      BY <1>3, <1>6, <2>7, <2>8, <3>5, <3>7, <3>8, <3>9, <3>10 DEF Serial
  <2>10. QED
    BY <1>1, <1>4, <2>8, <2>9, AloneStep
<1>9. QED
  BY <1>7, <1>8

(* A commit publishes what the operations have made of the book. *)
LEMMA CommitAlone ==
    ASSUME WholeInv, AloneInv, NEW s \in Sessions, Commit(s)
    PROVE  AloneInv'
<1>1. /\ pc[s] = "commit" /\ Active(s) /\ ~Filling(s) /\ Close(s)
      /\ book' = View(s) /\ orders' = orders \o rows[s]
  BY DEF Commit, Active, Filling
<1>2. orders \in Seq(OrderRows) /\ rows[s] \in Seq(OrderRows)
  BY DEF WholeInv, Consistent
<1>3. ASSUME ~overlap PROVE FilledIsApplied' /\ NoOverdraft'
  <2>1. Serial(s)
    BY <1>1, <1>3, KnownAlone
  <2>2. /\ View(s) = Done(s) /\ Done(s).cash >= 0
        /\ \A i \in DOMAIN rows[s] : rows[s][i].status = "FILLED" => rows[s][i].applied
    BY <1>1, <2>1 DEF Serial
  <2>3. \A i \in DOMAIN orders : orders[i].status = "FILLED" => orders[i].applied
    BY <1>3 DEF AloneInv, FilledIsApplied
  <2>4. PICK a, c : a = orders /\ c = rows[s]
    OBVIOUS
  <2>5. PICK m \in Nat, n \in Nat : m = Len(a) /\ n = Len(c)
    BY <1>2, <2>4
  <2>6. /\ DOMAIN a = 1 .. m /\ DOMAIN c = 1 .. n /\ DOMAIN (a \o c) = 1 .. m + n
        /\ \A i \in 1 .. m : (a \o c)[i] = a[i]
        /\ \A i \in m + 1 .. m + n : (a \o c)[i] = c[i - m]
    BY <1>2, <2>4, <2>5
  <2>7. ASSUME NEW i \in 1 .. m + n, (a \o c)[i].status = "FILLED" PROVE (a \o c)[i].applied
    <3>1. CASE i \in 1 .. m
      BY <2>3, <2>4, <2>6, <2>7, <3>1
    <3>2. CASE i \in m + 1 .. m + n
      <4>1. PICK k \in 1 .. n : k = i - m
        BY <3>2
      <4>2. QED
        BY <2>2, <2>4, <2>6, <2>7, <3>2, <4>1
    <3>3. i \in 1 .. m \/ i \in m + 1 .. m + n
      OBVIOUS
    <3>4. QED
      BY <3>1, <3>2, <3>3, Zenon
  <2>8. FilledIsApplied'
    BY <1>1, <2>4, <2>6, <2>7 DEF FilledIsApplied
  <2>9. QED
    BY <1>1, <2>2, <2>8 DEF NoOverdraft
<1>4. QED
  BY <1>1, <1>3, AloneClose

-----------------------------------------------------------------------------
(* The theorems *)

(* Every step of any number of sessions keeps the rows whole. *)
LEMMA WholeStep == WholeInv /\ [Next]_vars => WholeInv'
<1> SUFFICES ASSUME WholeInv, [Next]_vars PROVE WholeInv'
  OBVIOUS
<1>1. CASE UNCHANGED vars
  <2>1. UNCHANGED <<book, orders, pc, kind, todo, cur, stash, dirty, copy, rows, ops>>
    BY <1>1 DEF vars
  <2>2. ASSUME NEW q \in Sessions PROVE Consistent(q)'
    BY <2>1, SameSession DEF WholeInv
  <2>3. QED
    BY <2>1, <2>2 DEF WholeInv, PerSession
<1>2. ASSUME NEW s \in Sessions,
             StartOrder(s) \/ StartPipeline(s) \/ StartCash(s) \/ StartMark(s)
      PROVE  WholeInv'
  BY <1>2, StartOrderKeeps, StartPipelineKeeps, StartCashKeeps, StartMarkKeeps
<1>3. ASSUME NEW s \in Sessions, Step(s) PROVE WholeInv'
  <2>1. CASE Validate(s)
    BY <2>1, ValidateKeeps
  <2>2. CASE ClampQuantity(s)
    BY <2>2, ClampKeeps
  <2>3. CASE CashGate(s)
    BY <2>3, CashGateKeeps
  <2>4. CASE Apply(s)
    BY <2>4, ApplyKeeps
  <2>5. CASE ApplyRaises(s)
    BY <2>5, ApplyRaisesKeeps
  <2>6. CASE Upsert(s)
    BY <2>6, UpsertKeeps
  <2>7. CASE FlushPosition(s)
    BY <2>7, FlushPositionKeeps
  <2>8. CASE Totals(s)
    BY <2>8, TotalsKeeps
  <2>9. CASE FlushPortfolio(s)
    BY <2>9, FlushPortfolioKeeps
  <2>10. CASE Commit(s)
    BY <2>10, CommitKeeps
  <2>11. CASE DeadlockVictim(s)
    BY <2>11, RollbackKeeps DEF DeadlockVictim
  <2>12. QED
    BY <1>3, <2>1, <2>2, <2>3, <2>4, <2>5, <2>6, <2>7, <2>8, <2>9, <2>10, <2>11 DEF Step
<1>4. ASSUME NEW s \in Sessions, Abort(s) PROVE WholeInv'
  BY <1>4, RollbackKeeps DEF Abort
<1>5. QED
  BY <1>1, <1>2, <1>3, <1>4 DEF Next

(* At the start no session is open and the cash is what was paid in. *)
LEMMA InitAlone == Init => AloneInv
<1> SUFFICES ASSUME Init PROVE AloneInv
  OBVIOUS
<1>1. overlap = FALSE /\ orders = <<>> /\ \A s \in Sessions : ~Active(s)
  BY DEF Init, Active
<1>2. NoOverdraft
  BY InitialSound, LedgerSessionsAssumption DEF Init, NoOverdraft
<1>3. FilledIsApplied
  BY <1>1 DEF FilledIsApplied
<1>4. QED
  BY <1>1, <1>2, <1>3 DEF AloneInv

(* Every step keeps what a session alone on its branch knows. *)
LEMMA SerialStep == WholeInv /\ AloneInv /\ [Next]_vars => AloneInv'
<1> SUFFICES ASSUME WholeInv, AloneInv, [Next]_vars PROVE AloneInv'
  OBVIOUS
<1>1. CASE UNCHANGED vars
  <2>1. UNCHANGED <<book, orders, pc, kind, todo, cur, stash, dirty, copy, rows, ops, overlap>>
    BY <1>1 DEF vars
  <2>2. FilledIsApplied' <=> FilledIsApplied
    BY <2>1 DEF FilledIsApplied
  <2>3. NoOverdraft' <=> NoOverdraft
    BY <2>1 DEF NoOverdraft
  <2>4. ASSUME NEW q \in Sessions PROVE (Active(q)' <=> Active(q)) /\ (Serial(q)' <=> Serial(q))
    <3>1. View(q)' = View(q) /\ Done(q)' = Done(q)
      BY <2>1, SeenAgain
    <3>2. TradeInHand(q)' = TradeInHand(q) /\ AfterTrade(q)' = AfterTrade(q) /\ (Payable(q)' <=> Payable(q))
      BY <2>1, <3>1, HandAgain
    <3>3. ComputedFresh(q)' <=> ComputedFresh(q)
      BY <2>1, <3>1, <3>2 DEF ComputedFresh
    <3>4. /\ Active(q)' <=> Active(q)
          /\ Submitting(q)' <=> Submitting(q)
          /\ Filling(q)' <=> Filling(q)
      BY <2>1 DEF Active, Submitting, Filling
    <3>5. Serial(q)' <=> Serial(q)
      BY <2>1, <3>1, <3>2, <3>3, <3>4 DEF Serial
    <3>6. QED
      BY <3>4, <3>5
  <2>5. QED
    BY <2>1, <2>2, <2>3, <2>4 DEF AloneInv
<1>2. ASSUME NEW s \in Sessions,
             StartOrder(s) \/ StartPipeline(s) \/ StartCash(s) \/ StartMark(s)
      PROVE  AloneInv'
  BY <1>2, StartOrderAlone, StartPipelineAlone, StartCashAlone, StartMarkAlone
<1>3. ASSUME NEW s \in Sessions, Step(s) PROVE AloneInv'
  <2>1. CASE Validate(s)
    BY <2>1, ValidateAlone
  <2>2. CASE ClampQuantity(s)
    BY <2>2, ClampAlone
  <2>3. CASE CashGate(s)
    BY <2>3, CashGateAlone
  <2>4. CASE Apply(s)
    BY <2>4, ApplyAlone
  <2>5. CASE ApplyRaises(s)
    BY <2>5, ApplyRaisesAlone
  <2>6. CASE Upsert(s)
    BY <2>6, UpsertAlone
  <2>7. CASE FlushPosition(s)
    BY <2>7, FlushPositionAlone
  <2>8. CASE Totals(s)
    BY <2>8, TotalsAlone
  <2>9. CASE FlushPortfolio(s)
    BY <2>9, FlushPortfolioAlone
  <2>10. CASE Commit(s)
    BY <2>10, CommitAlone
  <2>11. CASE DeadlockVictim(s)
    <3>1. Active(s) /\ Rollback(s)
      BY <2>11 DEF DeadlockVictim, WaitsFor, Active
    <3>2. QED
      BY <3>1, RollbackAlone
  <2>12. QED
    BY <1>3, <2>1, <2>2, <2>3, <2>4, <2>5, <2>6, <2>7, <2>8, <2>9, <2>10, <2>11 DEF Step
<1>4. ASSUME NEW s \in Sessions, Abort(s) PROVE AloneInv'
  BY <1>4, RollbackAlone DEF Abort, Active
<1>5. QED
  BY <1>1, <1>2, <1>3, <1>4 DEF Next

(* A sound book has rows of the schema. *)
LEMMA SoundIsTyped ==
    ASSUME NEW b, Sound(b)
    PROVE  b.pos \in [Symbols -> Position] /\ b.rows \subseteq Symbols /\ b.cash \in Int
  BY DEF Sound, Book

(* Even when updates are lost a committed position row is consistent in *)
(* itself, for any number of sessions, any prices and any orders of positive *)
(* quantities. *)
THEOREM RowsStayWhole == Spec => []PositionRowsWhole
<1>1. WholeInv => PositionRowsWhole
  <2>1. ASSUME WholeInv, NEW x \in Symbols
        PROVE  /\ book.pos[x].lq = 0 => book.pos[x].lc = 0
               /\ x \in book.rows <=> book.pos[x].lq + book.pos[x].sq > 0
    <3>1. Whole(book, x)
      BY <2>1 DEF WholeInv, Sound
    <3>2. QED
      BY <3>1 DEF Whole, LongRow, Position
  <2>2. QED
    BY <2>1 DEF PositionRowsWhole
<1>2. QED
  BY InitWhole, WholeStep, <1>1, PTL DEF Spec

(* Rows, committed or seen by an open session, always have the shape of the *)
(* schema; and as long as no two sessions have been open at once and orders *)
(* are of positive quantities (the code does not see to either) every filled *)
(* order has moved the position and the cash, and the cash is not negative. *)
THEOREM SoundWhenAlone == Spec => []SoundAlone
<1>1. WholeInv => TypeOK
  <2> SUFFICES ASSUME WholeInv PROVE TypeOK
    OBVIOUS
  <2>1. \A s \in Sessions : dirty[s] \subseteq Symbols \cup {Pf}
    BY DEF WholeInv, Consistent
  <2>2. book.pos \in [Symbols -> Position] /\ book.rows \subseteq Symbols /\ book.cash \in Int
    BY SoundIsTyped DEF WholeInv
  <2>3. ASSUME NEW s \in Sessions, dirty[s] # {}
        PROVE  View(s).pos \in [Symbols -> Position] /\ View(s).rows \subseteq Symbols /\ View(s).cash \in Int
    <3>1. Active(s)
      BY <2>3 DEF WholeInv, Consistent
    <3>2. QED
      BY <3>1, ViewSound, SoundIsTyped
  <2>4. QED
    BY <2>1, <2>2, <2>3 DEF TypeOK
<1>2. WholeInv /\ AloneInv => SoundAlone
  BY <1>1 DEF AloneInv, SoundAlone
<1>3. QED
  BY InitWhole, InitAlone, WholeStep, SerialStep, <1>2, PTL DEF Spec

(* As long as no two sessions have been open at once a commit publishes what *)
(* the session's operations make, one after the other, of the book committed *)
(* before it: no value computed from an earlier read is stale when written. *)
THEOREM CommitsAreSerial == Spec => CommitIsSerial
<1>1. WholeInv /\ AloneInv /\ [Next]_vars
        => [\A s \in Sessions : Commit(s) /\ ~overlap => book' = Replay(book, ops[s])]_vars
  <2>1. ASSUME AloneInv, NEW s \in Sessions, Commit(s), ~overlap
        PROVE  book' = Replay(book, ops[s])
    <3>1. pc[s] = "commit" /\ Active(s) /\ book' = View(s)
      BY <2>1 DEF Commit, Active
    <3>2. View(s) = Done(s)
      BY <2>1, <3>1, KnownAlone DEF Serial
    <3>3. QED
      BY <3>1, <3>2 DEF Done
  <2>2. QED
    BY <2>1
<1>2. QED
  BY InitWhole, InitAlone, WholeStep, SerialStep, <1>1, PTL DEF Spec, CommitIsSerial
=============================================================================
