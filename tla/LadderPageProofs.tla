-------------------------- MODULE LadderPageProofs --------------------------
(***************************************************************************)
(* What the page holds of Md's book, for any prices, rows and loads.  With *)
(* everything that is under way to it, the page is followed as if it       *)
(* received each message the moment it is sent: a step of Md or the router *)
(* appends a message and handles it, and receiving the first one changes   *)
(* nothing.                                                                *)
(***************************************************************************)
EXTENDS LadderPage, LevelFeedProofs

-----------------------------------------------------------------------------
(* The view and its operations.                                             *)

\* Prices a level with a quantity can have.
Quoted == Prices \cup {junk.price : junk \in LB!Junk}

Indexes == UNION {[D -> Int \ {0}] : D \in {E \in SUBSET Quoted : IsFiniteSet(E)}}
Tableaus == [Sides -> [Rows -> Int]]

Views ==
  [index : [Sides -> Indexes], max : Int, cells : Tableaus, flag : BOOLEAN,
   replaced : SUBSET (Sides \X Quoted), alien : BOOLEAN, smudged : BOOLEAN]

\* The cells show the index.
InRows(index, max, cells) ==
  \A side \in Sides :
    /\ \A p \in DOMAIN index[side] : p <= max
    /\ \A r \in Rows : cells[side][r] = Kept(index[side], max - r)

CellsMatch(v) == ~v.smudged => InRows(v.index, v.max, v.cells)

\* Only the cells and the levels at a price of a side are touched.
SameRest(v, c) == c.flag = v.flag /\ c.alien = v.alien

LEMMA PageParameters ==
  /\ Symbols = {Ibm} /\ RowsPerSide \in Nat \ {0} /\ Prices \subseteq Nat \ {0}
  /\ Quoted \subseteq Int /\ Prices \subseteq Quoted /\ 0 \in Quoted
  /\ Rows = 0..(2 * RowsPerSide - 1)
<1>1. /\ Symbols = {Ibm} /\ RowsPerSide \in Nat \ {0} /\ Prices \subseteq Nat \ {0}
      /\ Rows = 0..(2 * RowsPerSide - 1)
  BY PageAssumption DEF PageAssumption, Rows
<1>2. \A junk \in LB!Junk : junk.price = 0
  BY DEF LB!Junk
<1>3. [qty |-> 0, price |-> 0] \in LB!Junk
  BY DEF LB!Junk
<1>4. Quoted = Prices \cup {0}
  BY <1>2, <1>3 DEF Quoted
<1> QED
  BY <1>1, <1>4

LEMMA InIndexes ==
  ASSUME NEW f
  PROVE  f \in Indexes <=> /\ DOMAIN f \subseteq Quoted /\ IsFiniteSet(DOMAIN f)
                           /\ f \in [DOMAIN f -> Int \ {0}]
BY DEF Indexes

\* Not kept is the same as quantity 0.
LEMMA KeptIs ==
  ASSUME NEW f \in Indexes, NEW p
  PROVE  Kept(f, p) \in Int /\ (p \in DOMAIN f <=> Kept(f, p) # 0)
BY InIndexes DEF Kept

\* Only the quantity at the price is another one.
KeptBut(f, price, n, g) ==
  /\ DOMAIN g \subseteq DOMAIN f \cup {price}
  /\ \A x : Kept(g, x) = IF x = price THEN n ELSE Kept(f, x)

LEMMA SetIs ==
  ASSUME NEW f \in Indexes, NEW price \in Quoted, NEW n \in Int \ {0},
         NEW g, g = Set(f, price, n)
  PROVE  g \in Indexes /\ KeptBut(f, price, n, g)
<1>1. DOMAIN f \subseteq Quoted /\ IsFiniteSet(DOMAIN f) /\ f \in [DOMAIN f -> Int \ {0}]
  BY InIndexes
<1>2. g = [p \in DOMAIN f \cup {price} |-> IF p = price THEN n ELSE f[p]]
  BY DEF Set
<1>3. DOMAIN g = DOMAIN f \cup {price}
  BY <1>2
<1>4. IsFiniteSet(DOMAIN g)
  BY <1>1, <1>3, FS_AddElement
<1>5. g \in [DOMAIN g -> Int \ {0}]
  BY <1>1, <1>2
<1>6. g \in Indexes
  BY <1>1, <1>3, <1>4, <1>5, InIndexes
<1>7. \A x : Kept(g, x) = IF x = price THEN n ELSE Kept(f, x)
  BY <1>2, <1>3 DEF Kept
<1> QED
  BY <1>3, <1>6, <1>7 DEF KeptBut

LEMMA DropIs ==
  ASSUME NEW f \in Indexes, NEW price,
         NEW g, g = [p \in DOMAIN f \ {price} |-> f[p]]
  PROVE  g \in Indexes /\ KeptBut(f, price, 0, g)
<1>1. DOMAIN f \subseteq Quoted /\ IsFiniteSet(DOMAIN f) /\ f \in [DOMAIN f -> Int \ {0}]
  BY InIndexes
<1>2. DOMAIN g = DOMAIN f \ {price}
  OBVIOUS
<1>3. IsFiniteSet(DOMAIN g)
  BY <1>1, <1>2, FS_RemoveElement
<1>4. g \in [DOMAIN g -> Int \ {0}]
  BY <1>1
<1>5. g \in Indexes
  BY <1>1, <1>2, <1>3, <1>4, InIndexes
<1>6. \A x : Kept(g, x) = IF x = price THEN 0 ELSE Kept(f, x)
  BY <1>2 DEF Kept
<1> QED
  BY <1>2, <1>5, <1>6 DEF KeptBut

\* Rows are counted from the top of the table.
LEMMA EqIs ==
  ASSUME NEW max \in Int, NEW price \in Int, price <= max, NEW r \in Rows
  PROVE  r = Eq(max - price) <=> price = max - r
<1>1. r \in Int
  BY PageParameters
<1>2. ~(max - price < 0)
  OBVIOUS
<1>3. Eq(max - price) = max - price
  BY <1>2 DEF Eq
<1> QED
  BY <1>1, <1>3

\* What a side keeps at a price changes by delta.
Shifted(v, c, side, price, delta) ==
  /\ \A t \in Sides : t # side => c.index[t] = v.index[t]
  /\ \A x : Kept(c.index[side], x) = Kept(v.index[side], x) + IF x = price THEN delta ELSE 0

\* update_lvl: one level changes by delta, and its cell.
LEMMA UpdateLvlIs ==
  ASSUME NEW v \in Views, NEW side \in Sides, NEW price \in Quoted, NEW delta \in Int,
         NEW c, c = UpdateLvl(v, side, price, delta)
  PROVE  /\ c \in Views /\ SameRest(v, c) /\ c.replaced = v.replaced
         /\ Shifted(v, c, side, price, delta)
         /\ CellsMatch(v) => CellsMatch(c)
<1>1. PICK index, max, cells, smudged :
        index = v.index /\ max = v.max /\ cells = v.cells /\ smudged = v.smudged
  OBVIOUS
<1>2. /\ index \in [Sides -> Indexes] /\ max \in Int /\ cells \in Tableaus /\ smudged \in BOOLEAN
      /\ v.flag \in BOOLEAN /\ v.alien \in BOOLEAN /\ v.replaced \in SUBSET (Sides \X Quoted)
  BY <1>1 DEF Views
<1>3. PICK f, row : f = index[side] /\ row = cells[side]
  OBVIOUS
<1>4. f \in Indexes /\ row \in [Rows -> Int] /\ price \in Int
  BY <1>2, <1>3, PageParameters DEF Tableaus
<1>5. PICK old, qty : old = Kept(f, price) /\ qty = delta + old
  OBVIOUS
<1>6. old \in Int /\ qty \in Int
  BY <1>4, <1>5, KeptIs
<1>7. PICK g : g = IF qty # 0 THEN Set(f, price, qty) ELSE [p \in DOMAIN f \ {price} |-> f[p]]
  OBVIOUS
<1>8. g \in Indexes /\ KeptBut(f, price, qty, g)
  <2>1. CASE qty # 0
    <3>1. g = Set(f, price, qty)
      BY <1>7, <2>1
    <3> QED
      BY <1>4, <1>6, <2>1, <3>1, SetIs
  <2>2. CASE qty = 0
    <3>1. g = [p \in DOMAIN f \ {price} |-> f[p]]
      BY <1>7, <2>2
    <3> QED
      BY <1>4, <2>2, <3>1, DropIs
  <2> QED
    BY <2>1, <2>2
<1>9. PICK line : line = [r \in Rows |-> IF r = Eq(max - price) THEN qty ELSE row[r]]
  OBVIOUS
<1>10. line \in [Rows -> Int]
  BY <1>4, <1>6, <1>9
<1>11. c = [v EXCEPT !.index[side] = g, !.cells[side] = line, !.smudged = smudged \/ price > max]
  BY <1>1, <1>3, <1>5, <1>7, <1>9 DEF UpdateLvl, Kept
<1>12. PICK index2, cells2, smudged2 :
         /\ index2 = [index EXCEPT ![side] = g] /\ cells2 = [cells EXCEPT ![side] = line]
         /\ smudged2 = (smudged \/ price > max)
  OBVIOUS
<1>13. c = [v EXCEPT !.index = index2, !.cells = cells2, !.smudged = smudged2]
  BY <1>1, <1>11, <1>12
<1>14. index2 \in [Sides -> Indexes] /\ cells2 \in Tableaus /\ smudged2 \in BOOLEAN
  BY <1>2, <1>8, <1>10, <1>12 DEF Tableaus
<1>15. /\ c \in Views /\ SameRest(v, c) /\ c.replaced = v.replaced
       /\ c.index = index2 /\ c.cells = cells2 /\ c.smudged = smudged2 /\ c.max = max
  BY <1>1, <1>13, <1>14 DEF Views, SameRest
<1>16. /\ \A t \in Sides : t # side => index2[t] = index[t] /\ cells2[t] = cells[t]
       /\ index2[side] = g /\ cells2[side] = line
  BY <1>2, <1>12 DEF Tableaus
<1>17. \A x : Kept(g, x) = Kept(f, x) + IF x = price THEN delta ELSE 0
  <2>1. \A x : Kept(f, x) \in Int
    BY <1>4, KeptIs
  <2> QED
    BY <1>5, <1>6, <1>8, <2>1 DEF KeptBut
<1>18. ASSUME InRows(index, max, cells), ~smudged2
       PROVE  InRows(index2, max, cells2)
  <2>1. price <= max
    <3>1. ~(price > max)
      BY <1>12, <1>18, Zenon
    <3> QED
      BY <1>2, <1>4, <3>1
  <2>2. \A p \in DOMAIN g : p <= max
    BY <1>3, <1>8, <1>18, <2>1 DEF InRows, KeptBut
  <2>3. ASSUME NEW r \in Rows
        PROVE  line[r] = Kept(g, max - r)
    <3>1. r = Eq(max - price) <=> price = max - r
      BY <1>2, <1>4, <2>1, EqIs
    <3>2. row[r] = Kept(f, max - r)
      BY <1>3, <1>18 DEF InRows
    <3> QED
      BY <1>8, <1>9, <3>1, <3>2 DEF KeptBut
  <2> QED
    BY <1>16, <1>18, <2>2, <2>3 DEF InRows
<1>19. CellsMatch(v) => CellsMatch(c)
  BY <1>1, <1>12, <1>15, <1>18 DEF CellsMatch
<1> QED
  BY <1>1, <1>3, <1>15, <1>16, <1>17, <1>19 DEF Shifted

LEMMA LeastInt ==
  ASSUME NEW T, IsFiniteSet(T), T \subseteq Int, T # {}
  PROVE  Min(T) \in T /\ \A q \in T : Min(T) <= q
<1>1. PICK p \in T : \A q \in T : ~Better("S", q, p)
  BY FiniteHasBest DEF Sides
<1>2. \A q \in T : p <= q
  BY <1>1 DEF Better
<1> QED
  BY <1>2 DEF Min

LEMMA GreatestInt ==
  ASSUME NEW T, IsFiniteSet(T), T \subseteq Int, T # {}
  PROVE  Max(T) \in T /\ \A q \in T : q <= Max(T)
<1>1. PICK p \in T : \A q \in T : ~Better("B", q, p)
  BY FiniteHasBest DEF Sides
<1>2. \A q \in T : q <= p
  BY <1>1 DEF Better
<1>3. \A q \in T : p >= q
  BY <1>2
<1>4. \E x \in T : \A q \in T : x >= q
  BY <1>3
<1>5. Max(T) \in T /\ \A q \in T : Max(T) >= q
  BY <1>4 DEF Max
<1> QED
  BY <1>5

\* set_min_max
LEMMA TopIs ==
  ASSUME NEW index \in [Sides -> Indexes]
  PROVE  Top(index) \in Int
<1>1. PICK n \in Int : n = RowsPerSide
  BY PageParameters
<1>2. PICK sells, buys : sells = DOMAIN index["S"] /\ buys = DOMAIN index["B"]
  OBVIOUS
<1>3. /\ IsFiniteSet(sells) /\ sells \subseteq Int
      /\ IsFiniteSet(buys) /\ buys \subseteq Int
  BY <1>2, InIndexes, PageParameters DEF Sides
<1>4. Top(index) = IF sells # {} THEN Min(sells) + n - 1
                   ELSE IF buys # {} THEN Max(buys) + n ELSE n
  BY <1>1, <1>2 DEF Top
<1>5. sells # {} => Min(sells) \in Int
  BY <1>3, LeastInt
<1>6. buys # {} => Max(buys) \in Int
  BY <1>3, GreatestInt
<1> QED
  BY <1>4, <1>5, <1>6

\* What is drawn in the rows: without prices above the top, each in its own.
LEMMA DrawnIs ==
  ASSUME NEW f \in Indexes, NEW max \in Int
  PROVE  /\ Drawn(f, max) \in [Rows -> Int]
         /\ (\A p \in DOMAIN f : p <= max) =>
              \A r \in Rows : Drawn(f, max)[r] = Kept(f, max - r)
<1> DEFINE here(r) == {p \in DOMAIN f : Eq(max - p) = r}
           cell(r) == IF here(r) = {} THEN 0 ELSE f[Max(here(r))]
<1>1. Drawn(f, max) = [r \in Rows |-> cell(r)]
  BY DEF Drawn
<1>2. /\ DOMAIN f \subseteq Int /\ IsFiniteSet(DOMAIN f) /\ f \in [DOMAIN f -> Int \ {0}]
  BY InIndexes, PageParameters
<1>3. ASSUME NEW r \in Rows, here(r) # {}
      PROVE  Max(here(r)) \in here(r) /\ here(r) \subseteq DOMAIN f
  <2>1. here(r) \subseteq DOMAIN f
    OBVIOUS
  <2>2. IsFiniteSet(here(r))
    BY <1>2, <2>1, FS_Subset
  <2> HIDE DEF here
  <2> QED
    BY <1>2, <1>3, <2>1, <2>2, GreatestInt
<1>4. \A r \in Rows : cell(r) \in Int
  <2> HIDE DEF here
  <2> QED
    BY <1>2, <1>3
<1>5. ASSUME \A p \in DOMAIN f : p <= max, NEW r \in Rows
      PROVE  cell(r) = Kept(f, max - r)
  <2>1. \A p \in DOMAIN f : Eq(max - p) = r <=> p = max - r
    BY <1>2, <1>5, EqIs
  <2>2. \A p \in DOMAIN f : p \in here(r) <=> p = max - r
    BY <2>1
  <2>3. CASE max - r \in DOMAIN f
    <3>1. here(r) # {}
      BY <2>2, <2>3
    <3>2. Max(here(r)) \in here(r) /\ here(r) \subseteq DOMAIN f
      BY <1>3, <3>1
    <3>3. Max(here(r)) = max - r
      BY <2>2, <3>2
    <3> HIDE DEF here
    <3> QED
      BY <2>3, <3>1, <3>3 DEF Kept
  <2>4. CASE max - r \notin DOMAIN f
    <3>1. here(r) = {}
      BY <2>2, <2>4
    <3> HIDE DEF here
    <3> QED
      BY <2>4, <3>1 DEF Kept
  <2> QED
    BY <2>3, <2>4
<1> HIDE DEF cell
<1> QED
  BY <1>1, <1>4, <1>5

LEMMA RenderIs ==
  ASSUME NEW v \in Views, NEW c, c = Render(v)
  PROVE  /\ c \in Views /\ SameRest(v, c)
         /\ c.index = v.index /\ c.replaced = v.replaced
         /\ CellsMatch(c)
<1>1. PICK index, max : index = v.index /\ max = Top(index)
  OBVIOUS
<1>2. /\ index \in [Sides -> Indexes]
      /\ v.flag \in BOOLEAN /\ v.alien \in BOOLEAN /\ v.replaced \in SUBSET (Sides \X Quoted)
  BY <1>1 DEF Views
<1>3. max \in Int
  BY <1>1, <1>2, TopIs
<1>4. PICK cells : cells = [side \in Sides |-> Drawn(index[side], max)]
  OBVIOUS
<1>5. cells \in Tableaus
  BY <1>2, <1>3, <1>4, DrawnIs DEF Tableaus
<1>6. PICK smudged \in BOOLEAN :
        smudged <=> \E side \in Sides : \E p \in DOMAIN index[side] : p > max
  OBVIOUS
<1>7. c = [v EXCEPT !.max = max, !.cells = cells,
                    !.smudged = \E side \in Sides : \E p \in DOMAIN index[side] : p > max]
  BY <1>1, <1>4 DEF Render
<1>8. (\E side \in Sides : \E p \in DOMAIN index[side] : p > max) = smudged
  BY <1>6, Zenon
<1>9. c = [v EXCEPT !.max = max, !.cells = cells, !.smudged = smudged]
  BY <1>7, <1>8, Zenon
<1>10. /\ c \in Views /\ SameRest(v, c) /\ c.index = index /\ c.replaced = v.replaced
       /\ c.cells = cells /\ c.smudged = smudged /\ c.max = max
  BY <1>1, <1>2, <1>3, <1>5, <1>9 DEF Views, SameRest
<1>11. ASSUME ~smudged
       PROVE  InRows(index, max, cells)
  <2>1. \A side \in Sides : \A p \in DOMAIN index[side] : ~(p > max)
    BY <1>6, <1>11, Zenon
  <2>2. ASSUME NEW side \in Sides
        PROVE  /\ \A p \in DOMAIN index[side] : p <= max
               /\ \A r \in Rows : cells[side][r] = Kept(index[side], max - r)
    <3>1. PICK f \in Indexes : f = index[side]
      BY <1>2
    <3>2. DOMAIN f \subseteq Int
      BY InIndexes, PageParameters
    <3>3. \A p \in DOMAIN f : p <= max
      BY <1>3, <2>1, <3>1, <3>2
    <3>4. cells[side] = Drawn(f, max)
      BY <1>4, <3>1
    <3> QED
      BY <1>3, <3>1, <3>3, <3>4, DrawnIs
  <2> QED
    BY <2>2 DEF InRows
<1> QED
  BY <1>1, <1>10, <1>11 DEF CellsMatch

-----------------------------------------------------------------------------
(* What a book shows at a price.                                            *)

\* An array whose quantities are at quoted prices.
Quotes(A) ==
  A \in [Places -> Level] /\ \A i \in Places : A[i].qty # 0 => A[i].price \in Quoted

LEMMA ListedIs ==
  ASSUME NEW A, Quotes(A)
  PROVE  /\ Listed(A) \in Indexes
         /\ \A p : Kept(Listed(A), p) \in Nat
         /\ \A p : Kept(Listed(A), p) # 0 => \E i \in Places : /\ A[i].price = p
                                                               /\ Kept(Listed(A), p) = A[i].qty
         /\ \A i \in Places : A[i].qty # 0 => Kept(Listed(A), A[i].price) # 0
<1> DEFINE real == {i \in Places : A[i].qty # 0}
           at(p) == {i \in real : A[i].price = p}
           prices == {A[i].price : i \in real}
           qty(p) == A[Max(at(p))].qty
<1>1. /\ DOMAIN A = Places /\ Places \subseteq Int /\ IsFiniteSet(Places)
      /\ \A i \in Places : A[i] \in Level /\ A[i].qty \in Nat
  <2>1. Depth \in Int /\ 1 \in Int
    BY Parameters
  <2>2. IsFiniteSet(1..Depth)
    BY <2>1, FS_Interval
  <2>3. Places \subseteq Int /\ IsFiniteSet(Places)
    BY <2>1, <2>2 DEF Places
  <2>4. DOMAIN A = Places /\ \A i \in Places : A[i] \in Level
    BY DEF Quotes
  <2> QED
    BY <2>3, <2>4 DEF Level
<1>2. Listed(A) = [p \in prices |-> qty(p)]
  BY <1>1 DEF Listed
<1>3. real \subseteq Places /\ IsFiniteSet(real)
  <2>1. real \subseteq Places
    OBVIOUS
  <2> HIDE DEF real
  <2> QED
    BY <1>1, <2>1, FS_Subset
<1>4. IsFiniteSet(prices)
  <2>1. PICK f : f = [i \in real |-> A[i].price]
    OBVIOUS
  <2> HIDE DEF real
  <2>2. f \in Surjection(real, prices)
    BY <2>1 DEF Surjection
  <2> HIDE DEF prices
  <2> QED
    BY <1>3, <2>2, FS_Surjection
<1>5. prices \subseteq Quoted
  BY DEF Quotes
<1>6. ASSUME NEW p \in prices
      PROVE  /\ Max(at(p)) \in Places /\ A[Max(at(p))].price = p
             /\ qty(p) \in Nat \ {0} /\ qty(p) = A[Max(at(p))].qty
  <2>1. at(p) \subseteq real /\ at(p) # {}
    OBVIOUS
  <2>2. IsFiniteSet(at(p)) /\ at(p) \subseteq Int
    <3> HIDE DEF real, at
    <3> QED
      BY <1>1, <1>3, <2>1, FS_Subset
  <2>3. Max(at(p)) \in at(p)
    <3> HIDE DEF real, at, prices
    <3> QED
      BY <2>1, <2>2, GreatestInt
  <2>4. PICK m : m = Max(at(p))
    OBVIOUS
  <2>5. m \in Places /\ A[m].price = p /\ A[m].qty # 0
    BY <2>3, <2>4
  <2> QED
    BY <1>1, <2>4, <2>5
<1>7. \A i \in Places : A[i].qty # 0 => A[i].price \in prices
  OBVIOUS
<1> HIDE DEF prices, qty, at, real
<1>8. Listed(A) \in Indexes
  <2>1. PICK f : f = Listed(A)
    OBVIOUS
  <2>2. DOMAIN f = prices /\ f \in [DOMAIN f -> Int \ {0}]
    BY <1>2, <1>6, <2>1
  <2> QED
    BY <1>4, <1>5, <2>1, <2>2, InIndexes
<1>9. \A p : Kept(Listed(A), p) = IF p \in prices THEN qty(p) ELSE 0
  BY <1>2 DEF Kept
<1>10. \A p : Kept(Listed(A), p) \in Nat
  BY <1>6, <1>9
<1>11. \A p : Kept(Listed(A), p) # 0 => \E i \in Places : /\ A[i].price = p
                                                           /\ Kept(Listed(A), p) = A[i].qty
  BY <1>6, <1>9
<1>12. \A i \in Places : A[i].qty # 0 => Kept(Listed(A), A[i].price) # 0
  BY <1>6, <1>7, <1>9
<1> QED
  BY <1>8, <1>10, <1>11, <1>12

-----------------------------------------------------------------------------
(* The messages, and what the page does with one.                           *)

Shots == {a \in [Sides -> [Places -> Level]] : \A side \in Sides : Quotes(a[side])}

Messages ==
  [type : {"recover", "empty"}]
    \cup [type : {"result"}, levels : Shots]
    \cup [type : {"snapshot"}, own : BOOLEAN, levels : Shots]
    \cup [type : {"submit"}, own : BOOLEAN, side : Sides, price : Prices, qty : Nat \ {0}]
    \cup [type : {"trade", "cancel"}, own : BOOLEAN, side : {"N"}, price : Prices, qty : Nat \ {0}]

Phases == {"closed", "loading", "up", "blank"}
Pages == [phase : Phases, view : Views]

\* A submit adds, or takes the place of what was there.
Submitted(v, c, side, price, qty) ==
  \/ c.replaced = v.replaced /\ Shifted(v, c, side, price, qty)
  \/ /\ c.replaced = v.replaced \cup {<<side, price>>}
     /\ \A t \in Sides : t # side => c.index[t] = v.index[t]
     /\ \A x : x # price => Kept(c.index[side], x) = Kept(v.index[side], x)

\* A trade or cancel takes from the first side that has the price.
Taken(v, c, price, qty) ==
  /\ c.replaced = v.replaced
  /\ \/ \E side \in Sides : /\ price \in DOMAIN v.index[side]
                            /\ side = "B" => price \notin DOMAIN v.index["S"]
                            /\ Shifted(v, c, side, price, -qty)
     \/ (\A side \in Sides : price \notin DOMAIN v.index[side]) /\ c.index = v.index

LEMMA AlienIs ==
  ASSUME NEW v \in Views, NEW own \in BOOLEAN,
         NEW c, c = [v EXCEPT !.alien = @ \/ ~own]
  PROVE  /\ c \in Views /\ c.index = v.index /\ c.replaced = v.replaced /\ c.flag = v.flag
         /\ c.alien <=> (v.alien \/ ~own)
         /\ CellsMatch(v) => CellsMatch(c)
<1>1. PICK alien \in BOOLEAN : alien <=> (v.alien \/ ~own)
  OBVIOUS
<1>2. v.alien \in BOOLEAN
  BY DEF Views
<1>3. (v.alien \/ ~own) = alien
  BY <1>1, <1>2, Zenon
<1>4. c = [v EXCEPT !.alien = alien]
  BY <1>3, Zenon
<1>5. /\ c \in Views /\ c.index = v.index /\ c.replaced = v.replaced /\ c.flag = v.flag
      /\ c.max = v.max /\ c.cells = v.cells /\ c.smudged = v.smudged
      /\ c.alien = alien
  BY <1>4 DEF Views
<1>6. CellsMatch(v) => CellsMatch(c)
  BY <1>5 DEF CellsMatch
<1> QED
  BY <1>1, <1>5, <1>6

LEMMA InitializedIs ==
  ASSUME NEW v \in Views, NEW arrays \in Shots, NEW c, c = Initialized(v, arrays)
  PROVE  /\ c \in Views /\ SameRest(v, c) /\ c.replaced = {}
         /\ \A side \in Sides : c.index[side] = Listed(arrays[side])
<1>1. PICK index : index = [side \in Sides |-> Listed(arrays[side])]
  OBVIOUS
<1>2. \A side \in Sides : Quotes(arrays[side])
  BY DEF Shots
<1>3. index \in [Sides -> Indexes]
  BY <1>1, <1>2, ListedIs
<1>4. c = [v EXCEPT !.index = index, !.replaced = {}]
  BY <1>1 DEF Initialized
<1>5. c \in Views /\ SameRest(v, c) /\ c.replaced = {} /\ c.index = index
  BY <1>3, <1>4 DEF Views, SameRest
<1> QED
  BY <1>1, <1>5

LEMMA OnSubmitIs ==
  ASSUME NEW v \in Views, NEW side \in Sides, NEW price \in Prices, NEW qty \in Nat \ {0},
         NEW m, m.side = side, m.price = price, m.qty = qty,
         NEW c, c = OnSubmit(v, m)
  PROVE  /\ c \in Views /\ SameRest(v, c) /\ Submitted(v, c, side, price, qty)
         /\ CellsMatch(v) => CellsMatch(c)
<1>1. price \in Quoted /\ qty \in Int \ {0}
  BY PageParameters
<1>2. CASE InTable(v, price)
  <2>1. c = UpdateLvl(v, side, price, qty)
    BY <1>2 DEF OnSubmit
  <2>2. /\ c \in Views /\ SameRest(v, c) /\ c.replaced = v.replaced
        /\ Shifted(v, c, side, price, qty)
        /\ CellsMatch(v) => CellsMatch(c)
    BY <1>1, <2>1, UpdateLvlIs
  <2> QED
    BY <2>2 DEF Submitted
<1>3. CASE ~InTable(v, price)
  <2>1. PICK f, index : index = v.index /\ f = index[side]
    OBVIOUS
  <2>2. /\ index \in [Sides -> Indexes] /\ f \in Indexes /\ v.max \in Int /\ v.cells \in Tableaus
        /\ v.flag \in BOOLEAN /\ v.alien \in BOOLEAN /\ v.smudged \in BOOLEAN
        /\ v.replaced \in SUBSET (Sides \X Quoted)
    BY <2>1 DEF Views
  <2>3. PICK g : g = Set(f, price, qty)
    OBVIOUS
  <2>4. g \in Indexes /\ KeptBut(f, price, qty, g)
    BY <1>1, <2>2, <2>3, SetIs
  <2>5. PICK replaced : replaced = IF price \in DOMAIN f THEN v.replaced \cup {<<side, price>>}
                                   ELSE v.replaced
    OBVIOUS
  <2>6. replaced \in SUBSET (Sides \X Quoted)
    BY <1>1, <2>2, <2>5
  <2>7. PICK index2 : index2 = [index EXCEPT ![side] = g]
    OBVIOUS
  <2>8. /\ index2 \in [Sides -> Indexes] /\ index2[side] = g
        /\ \A t \in Sides : t # side => index2[t] = index[t]
    BY <2>2, <2>4, <2>7
  <2>9. PICK d : d = [v EXCEPT !.index = index2, !.replaced = replaced]
    OBVIOUS
  <2>10. d \in Views /\ SameRest(v, d) /\ d.index = index2 /\ d.replaced = replaced
    BY <2>6, <2>8, <2>9 DEF Views, SameRest
  <2>11. c = Render(d)
    BY <1>3, <2>1, <2>3, <2>5, <2>7, <2>9 DEF OnSubmit
  <2>12. /\ c \in Views /\ SameRest(d, c) /\ c.index = index2 /\ c.replaced = replaced
         /\ CellsMatch(c)
    BY <2>10, <2>11, RenderIs
  <2>13. Submitted(v, c, side, price, qty)
    <3>1. CASE price \in DOMAIN f
      BY <2>1, <2>4, <2>5, <2>8, <2>12, <3>1 DEF Submitted, KeptBut
    <3>2. CASE price \notin DOMAIN f
      <4>1. \A x : Kept(f, x) \in Int
        BY <2>2, KeptIs
      <4>2. Kept(f, price) = 0
        BY <3>2 DEF Kept
      <4>3. \A x : Kept(g, x) = Kept(f, x) + IF x = price THEN qty ELSE 0
        BY <2>4, <4>1, <4>2 DEF KeptBut
      <4> QED
        BY <2>1, <2>5, <2>8, <2>12, <3>2, <4>3 DEF Submitted, Shifted
    <3> QED
      BY <3>1, <3>2
  <2> QED
    BY <2>10, <2>12, <2>13 DEF SameRest
<1> QED
  BY <1>2, <1>3

LEMMA RemQtyIs ==
  ASSUME NEW v \in Views, NEW price \in Prices, NEW qty \in Nat \ {0},
         NEW m, m.price = price, m.qty = qty,
         NEW c, c = RemQty(v, m)
  PROVE  /\ c \in Views /\ SameRest(v, c) /\ Taken(v, c, price, qty)
         /\ CellsMatch(v) => CellsMatch(c)
<1>1. price \in Quoted /\ -qty \in Int
  BY PageParameters
<1>2. ASSUME NEW side \in Sides, price \in DOMAIN v.index[side],
             side = "B" => price \notin DOMAIN v.index["S"],
             c = UpdateLvl(v, side, price, -qty)
      PROVE  /\ c \in Views /\ SameRest(v, c) /\ Taken(v, c, price, qty)
             /\ CellsMatch(v) => CellsMatch(c)
  <2>1. /\ c \in Views /\ SameRest(v, c) /\ c.replaced = v.replaced
        /\ Shifted(v, c, side, price, -qty)
        /\ CellsMatch(v) => CellsMatch(c)
    BY <1>1, <1>2, UpdateLvlIs
  <2> QED
    BY <1>2, <2>1 DEF Taken
<1>3. CASE price \in DOMAIN v.index["S"]
  <2>1. c = UpdateLvl(v, "S", price, -qty)
    BY <1>3 DEF RemQty
  <2> QED
    BY <1>2, <1>3, <2>1 DEF Sides
<1>4. CASE price \notin DOMAIN v.index["S"] /\ price \in DOMAIN v.index["B"]
  <2>1. c = UpdateLvl(v, "B", price, -qty)
    BY <1>4 DEF RemQty
  <2> QED
    BY <1>2, <1>4, <2>1 DEF Sides
<1>5. CASE price \notin DOMAIN v.index["S"] /\ price \notin DOMAIN v.index["B"]
  <2>1. c = v
    BY <1>5 DEF RemQty
  <2> QED
    BY <1>5, <2>1 DEF Taken, SameRest, Sides
<1> QED
  BY <1>3, <1>4, <1>5

\* What a handler of the view does with a message.
Heard(v, c, m) ==
  /\ m.type = "recover" =>
       c.flag /\ c.index = v.index /\ c.replaced = v.replaced /\ c.alien = v.alien
  /\ m.type = "snapshot" =>
       /\ ~c.flag /\ c.replaced = {} /\ (c.alien <=> ~m.own)
       /\ \A side \in Sides : c.index[side] = Listed(m.levels[side])
  /\ m.type \in {"submit", "trade", "cancel"} =>
       c.flag = v.flag /\ (c.alien <=> (v.alien \/ ~m.own))
  /\ m.type = "submit" => Submitted(v, c, m.side, m.price, m.qty)
  /\ m.type \in {"trade", "cancel"} => Taken(v, c, m.price, m.qty)

\* The fields a message has.
LEMMA MessageIs ==
  ASSUME NEW m \in Messages
  PROVE  /\ m.type \in Topics \cup {"result", "empty"}
         /\ m.type \in {"result", "snapshot"} => m.levels \in Shots
         /\ m.type \in Topics \ {"recover"} => m.own \in BOOLEAN
         /\ m.type = "submit" => m.side \in Sides
         /\ m.type \in {"submit", "trade", "cancel"} => m.price \in Prices /\ m.qty \in Nat \ {0}
<1>1. CASE m \in [type : {"recover", "empty"}]
  BY <1>1 DEF Topics
<1>2. CASE m \in [type : {"result"}, levels : Shots]
  BY <1>2 DEF Topics
<1>3. CASE m \in [type : {"snapshot"}, own : BOOLEAN, levels : Shots]
  BY <1>3 DEF Topics
<1>4. CASE m \in [type : {"submit"}, own : BOOLEAN, side : Sides, price : Prices, qty : Nat \ {0}]
  BY <1>4 DEF Topics
<1>5. CASE m \in [type : {"trade", "cancel"}, own : BOOLEAN, side : {"N"}, price : Prices,
                  qty : Nat \ {0}]
  BY <1>5 DEF Topics
<1> QED
  BY <1>1, <1>2, <1>3, <1>4, <1>5 DEF Messages

LEMMA HandledIs ==
  ASSUME NEW v \in Views, NEW m \in Messages, m.type \in Topics,
         NEW c, c = Handled(v, m)
  PROVE  /\ c \in Views /\ Heard(v, c, m)
         /\ CellsMatch(v) => CellsMatch(c)
<1>1. CASE m.type = "recover"
  <2>1. c = [v EXCEPT !.flag = TRUE]
    BY <1>1 DEF Handled
  <2>2. /\ c \in Views /\ c.flag /\ c.index = v.index /\ c.replaced = v.replaced
        /\ c.alien = v.alien /\ c.max = v.max /\ c.cells = v.cells /\ c.smudged = v.smudged
    BY <2>1 DEF Views
  <2>3. CellsMatch(v) => CellsMatch(c)
    BY <2>2 DEF CellsMatch
  <2> QED
    BY <1>1, <2>2, <2>3 DEF Heard
<1>2. CASE m.type = "snapshot"
  <2>1. m.levels \in Shots /\ m.own \in BOOLEAN
    BY <1>2, MessageIs DEF Topics
  <2>2. PICK d : d = Unflag(v)
    OBVIOUS
  <2>3. d \in Views /\ d.flag = FALSE
    BY <2>2 DEF Unflag, Views
  <2>4. PICK e : e = Initialized(d, m.levels)
    OBVIOUS
  <2>5. /\ e \in Views /\ SameRest(d, e) /\ e.replaced = {}
        /\ \A side \in Sides : e.index[side] = Listed(m.levels[side])
    BY <2>1, <2>3, <2>4, InitializedIs
  <2>6. PICK f : f = Render(e)
    OBVIOUS
  <2>7. /\ f \in Views /\ SameRest(e, f) /\ f.index = e.index /\ f.replaced = e.replaced
        /\ CellsMatch(f)
    BY <2>5, <2>6, RenderIs
  <2>8. PICK alien \in BOOLEAN : alien <=> ~m.own
    BY <2>1
  <2>9. (~m.own) = alien
    BY <2>1, <2>8, Zenon
  <2>10. c = [f EXCEPT !.alien = ~m.own]
    BY <1>2, <2>2, <2>4, <2>6 DEF Handled
  <2>11. c = [f EXCEPT !.alien = alien]
    BY <2>9, <2>10, Zenon
  <2>12. /\ c \in Views /\ c.flag = f.flag /\ c.index = f.index /\ c.replaced = f.replaced
         /\ c.alien = alien /\ c.max = f.max /\ c.cells = f.cells /\ c.smudged = f.smudged
    BY <2>7, <2>11 DEF Views
  <2>13. CellsMatch(c)
    BY <2>7, <2>12 DEF CellsMatch
  <2>14. c.flag = FALSE
    BY <2>3, <2>5, <2>7, <2>12 DEF SameRest
  <2> QED
    BY <1>2, <2>5, <2>7, <2>8, <2>12, <2>13, <2>14 DEF Heard
<1>3. CASE m.type = "submit"
  <2>1. /\ m.side \in Sides /\ m.price \in Prices /\ m.qty \in Nat \ {0} /\ m.own \in BOOLEAN
    BY <1>3, MessageIs DEF Topics
  <2>2. PICK side \in Sides, price \in Prices, qty \in Nat \ {0}, own \in BOOLEAN :
          m.side = side /\ m.price = price /\ m.qty = qty /\ m.own = own
    BY <2>1
  <2>3. PICK d : d = OnSubmit(v, m)
    OBVIOUS
  <2>4. /\ d \in Views /\ SameRest(v, d) /\ Submitted(v, d, side, price, qty)
        /\ CellsMatch(v) => CellsMatch(d)
    BY <2>2, <2>3, OnSubmitIs
  <2>5. c = [d EXCEPT !.alien = @ \/ ~own]
    BY <1>3, <2>2, <2>3 DEF Handled
  <2>6. /\ c \in Views /\ c.index = d.index /\ c.replaced = d.replaced /\ c.flag = d.flag
        /\ c.alien <=> (d.alien \/ ~own)
        /\ CellsMatch(d) => CellsMatch(c)
    BY <2>4, <2>5, AlienIs
  <2>7. Submitted(v, c, side, price, qty)
    BY <2>4, <2>6 DEF Submitted, Shifted
  <2> QED
    BY <1>3, <2>2, <2>4, <2>6, <2>7 DEF Heard, SameRest
<1>4. CASE m.type \in {"trade", "cancel"}
  <2>1. m.price \in Prices /\ m.qty \in Nat \ {0} /\ m.own \in BOOLEAN
    BY <1>4, MessageIs DEF Topics
  <2>2. PICK price \in Prices, qty \in Nat \ {0}, own \in BOOLEAN :
          m.price = price /\ m.qty = qty /\ m.own = own
    BY <2>1
  <2>3. PICK d : d = RemQty(v, m)
    OBVIOUS
  <2>4. /\ d \in Views /\ SameRest(v, d) /\ Taken(v, d, price, qty)
        /\ CellsMatch(v) => CellsMatch(d)
    BY <2>2, <2>3, RemQtyIs
  <2>5. c = [d EXCEPT !.alien = @ \/ ~own]
    BY <1>4, <2>2, <2>3 DEF Handled
  <2>6. /\ c \in Views /\ c.index = d.index /\ c.replaced = d.replaced /\ c.flag = d.flag
        /\ c.alien <=> (d.alien \/ ~own)
        /\ CellsMatch(d) => CellsMatch(c)
    BY <2>4, <2>5, AlienIs
  <2>7. Taken(v, c, price, qty)
    BY <2>4, <2>6 DEF Taken, Shifted
  <2> QED
    BY <1>4, <2>2, <2>4, <2>6, <2>7 DEF Heard, SameRest
<1> QED
  BY <1>1, <1>2, <1>3, <1>4 DEF Topics

\* What the page does with a message.
Moved(pg, c, m) ==
  /\ m.type = "result" =>
       /\ c.phase = "up" /\ ~c.view.flag /\ ~c.view.alien /\ c.view.replaced = {}
       /\ \A side \in Sides : c.view.index[side] = Listed(m.levels[side])
  /\ m.type = "empty" => c.phase = "blank"
  /\ m.type \in Topics =>
       /\ c.phase = pg.phase
       /\ IF pg.phase = "up" THEN Heard(pg.view, c.view, m) ELSE c = pg

LEMMA EmptyViewIs == EmptyView \in Views /\ CellsMatch(EmptyView)
<1>1. EmptyIndex \in Indexes /\ \A x : Kept(EmptyIndex, x) = 0
  <2>1. DOMAIN EmptyIndex = {}
    BY DEF EmptyIndex
  <2>2. IsFiniteSet(DOMAIN EmptyIndex)
    BY <2>1, FS_EmptySet
  <2>3. EmptyIndex \in [DOMAIN EmptyIndex -> Int \ {0}]
    BY <2>1 DEF EmptyIndex
  <2> QED
    BY <2>1, <2>2, <2>3, InIndexes DEF Kept
<1>2. PICK index : index = [side \in Sides |-> EmptyIndex]
  OBVIOUS
<1>3. index \in [Sides -> Indexes] /\ \A side \in Sides : index[side] = EmptyIndex
  BY <1>1, <1>2
<1>4. EmptyTable \in Tableaus /\ \A side \in Sides, r \in Rows : EmptyTable[side][r] = 0
  BY DEF EmptyTable, Tableaus
<1>5. EmptyView = [index |-> index, max |-> 0, cells |-> EmptyTable,
                   flag |-> FALSE, replaced |-> {}, alien |-> FALSE, smudged |-> FALSE]
  BY <1>2 DEF EmptyView
<1>6. EmptyView \in Views
  BY <1>3, <1>4, <1>5 DEF Views
<1>7. InRows(index, 0, EmptyTable)
  BY <1>1, <1>3, <1>4 DEF InRows, EmptyIndex
<1>8. CellsMatch(EmptyView)
  BY <1>5, <1>7 DEF CellsMatch
<1> QED
  BY <1>6, <1>8

LEMMA AfterIs ==
  ASSUME NEW pg \in Pages, NEW m \in Messages, NEW c, c = After(pg, m)
  PROVE  /\ c \in Pages /\ Moved(pg, c, m)
         /\ CellsMatch(pg.view) => CellsMatch(c.view)
<1>1. CASE m.type = "result"
  <2>1. m.levels \in Shots
    BY <1>1, MessageIs
  <2>2. PICK d : d = Initialized(EmptyView, m.levels)
    OBVIOUS
  <2>3. /\ d \in Views /\ SameRest(EmptyView, d) /\ d.replaced = {}
        /\ \A side \in Sides : d.index[side] = Listed(m.levels[side])
    BY <2>1, <2>2, EmptyViewIs, InitializedIs
  <2>4. PICK e : e = Render(d)
    OBVIOUS
  <2>5. /\ e \in Views /\ SameRest(d, e) /\ e.index = d.index /\ e.replaced = d.replaced
        /\ CellsMatch(e)
    BY <2>3, <2>4, RenderIs
  <2>6. c = [phase |-> "up", view |-> e]
    BY <1>1, <2>2, <2>4 DEF After, Topics
  <2>7. ~e.flag /\ ~e.alien
    BY <2>3, <2>5 DEF SameRest, EmptyView
  <2>8. c \in Pages /\ c.phase = "up" /\ c.view = e
    BY <2>5, <2>6 DEF Pages, Phases
  <2> QED
    BY <1>1, <2>3, <2>5, <2>7, <2>8 DEF Moved, Topics
<1>2. CASE m.type = "empty"
  <2>1. c = [pg EXCEPT !.phase = "blank"]
    BY <1>2 DEF After, Topics
  <2>2. c \in Pages /\ c.phase = "blank" /\ c.view = pg.view
    BY <2>1 DEF Pages, Phases
  <2> QED
    BY <1>2, <2>2 DEF Moved, Topics
<1>3. CASE m.type \in Topics /\ pg.phase = "up"
  <2>1. PICK v \in Views : v = pg.view
    BY DEF Pages
  <2>2. PICK d : d = Handled(v, m)
    OBVIOUS
  <2>3. d \in Views /\ Heard(v, d, m) /\ (CellsMatch(v) => CellsMatch(d))
    BY <1>3, <2>2, HandledIs
  <2>4. c = [pg EXCEPT !.view = d]
    BY <1>3, <2>1, <2>2 DEF After, Topics
  <2>5. c \in Pages /\ c.phase = pg.phase /\ c.view = d
    BY <2>3, <2>4 DEF Pages
  <2> QED
    BY <1>3, <2>1, <2>3, <2>5 DEF Moved, Topics
<1>4. CASE m.type \in Topics /\ pg.phase # "up"
  <2>1. c = pg
    BY <1>4 DEF After, Topics
  <2> QED
    BY <1>4, <2>1 DEF Moved, Topics
<1> QED
  BY <1>1, <1>2, <1>3, <1>4, MessageIs

-----------------------------------------------------------------------------
(* The messages under way, received one after the other.                    *)

Received(pg, queue) == FoldLeft(After, pg, queue)

\* The recursion the fold is computed by.
Receives(pg, queue, h) ==
  h = [s \in SUBSET DOMAIN queue |->
         IF s = {} THEN pg ELSE After(h[s \ {Max(s)}], queue[Max(s)])]

\* The pages it goes through.
Runs(pg, queue, c) ==
  /\ c[0] = pg
  /\ \A k \in 1..Len(queue) : c[k] = After(c[k - 1], queue[k])

LEMMA ReceivedIsFold ==
  ASSUME NEW pg, NEW queue
  PROVE  Received(pg, queue) = (CHOOSE iter : Receives(pg, queue, iter))[DOMAIN queue]
BY DEF Received, FoldLeft, MapThenFoldSet, Max, Receives

LEMMA ReceivedRuns ==
  ASSUME NEW pg \in Pages, NEW queue \in Seq(Messages)
  PROVE  \E c : Runs(pg, queue, c) /\ Received(pg, queue) = c[Len(queue)]
<1>0. PICK n \in Nat : n = Len(queue)
  OBVIOUS
<1> DEFINE D == 1..n
           F == [x \in D \X Pages |-> After(x[2], queue[x[1]])]
<1>1. DOMAIN queue = D /\ \A k \in D : queue[k] \in Messages
  BY <1>0
<1>2. \A x \in Pages, k \in D : After(x, queue[k]) \in Pages
  BY <1>1, AfterIs
<1>3. F \in [D \X Pages -> Pages] /\ \A x \in Pages, k \in D : F[<<k, x>>] = After(x, queue[k])
  BY <1>2
<1> HIDE DEF F
<1>4. PICK h \in [SUBSET D -> Pages] : \A s \in SUBSET D :
        h[s] = IF s = {} THEN pg ELSE F[<<Max(s), h[s \ {Max(s)}]>>]
  <2>1. \E h : FoldsLeft(Pages, pg, n, F, h)
    BY <1>3, LeftFoldExists
  <2> QED
    BY <2>1 DEF FoldsLeft
<1>5. \A s \in SUBSET D : s # {} => Max(s) \in D /\ s \ {Max(s)} \in SUBSET D
  BY GreatestNatural
<1>6. Receives(pg, queue, h)
  <2>1. \A s \in SUBSET D : h[s] = IF s = {} THEN pg
                                   ELSE After(h[s \ {Max(s)}], queue[Max(s)])
    <3> HIDE DEF D
    <3> QED
      BY <1>3, <1>4, <1>5
  <2>2. h = [s \in SUBSET D |-> h[s]]
    OBVIOUS
  <2> HIDE DEF D
  <2> QED
    BY <1>1, <2>1, <2>2 DEF Receives
<1>7. PICK iter : iter = CHOOSE g : Receives(pg, queue, g)
  OBVIOUS
<1>8. Receives(pg, queue, iter)
  BY <1>6, <1>7
<1>9. \A s \in SUBSET D : iter[s] = IF s = {} THEN pg
                                    ELSE After(iter[s \ {Max(s)}], queue[Max(s)])
  <2> HIDE DEF D
  <2> QED
    BY <1>1, <1>8 DEF Receives
<1> DEFINE c == [k \in 0..n |-> iter[1..k]]
<1>10. \A k \in 0..n : 1..k \in SUBSET D
  BY <1>0
<1>11. c[0] = pg
  <2>1. 1..0 = {}
    OBVIOUS
  <2>2. c[0] = iter[1..0]
    BY <1>0
  <2> HIDE DEF c, D
  <2> QED
    BY <1>9, <2>1, <2>2
<1>12. ASSUME NEW k \in D
       PROVE  c[k] = After(c[k - 1], queue[k])
  <2>1. /\ 1..k \in SUBSET D /\ 1..k # {}
        /\ Max(1..k) = k /\ (1..k) \ {k} = 1..(k - 1)
    BY <1>0, PlacesUpTo
  <2>2. c[k] = iter[1..k] /\ c[k - 1] = iter[1..(k - 1)]
    BY <1>0
  <2> HIDE DEF c, D
  <2> QED
    BY <1>9, <2>1, <2>2
<1>13. Received(pg, queue) = c[n]
  <2>1. c[n] = iter[1..n]
    BY <1>0
  <2> HIDE DEF c
  <2> QED
    BY <1>1, <1>7, <2>1, ReceivedIsFold
<1> HIDE DEF c
<1>14. Runs(pg, queue, c)
  BY <1>0, <1>11, <1>12 DEF Runs
<1> QED
  BY <1>0, <1>13, <1>14

\* There is one way to receive them, and each page on it is one.
LEMMA RunsOnce ==
  ASSUME NEW pg \in Pages, NEW queue \in Seq(Messages),
         NEW c, Runs(pg, queue, c), NEW d, Runs(pg, queue, d)
  PROVE  c[Len(queue)] = d[Len(queue)] /\ c[Len(queue)] \in Pages
<1>1. PICK n \in Nat : n = Len(queue)
  OBVIOUS
<1> DEFINE N == {k \in Nat : k <= n => c[k] = d[k] /\ c[k] \in Pages}
<1>2. 0 \in N
  BY DEF Runs
<1>3. ASSUME NEW k \in Nat, k \in N
      PROVE  k + 1 \in N
  <2> SUFFICES ASSUME k + 1 <= n
               PROVE  c[k + 1] = d[k + 1] /\ c[k + 1] \in Pages
    OBVIOUS
  <2>1. c[k] = d[k] /\ c[k] \in Pages
    BY <1>3
  <2>2. k + 1 \in 1..n /\ (k + 1) - 1 = k
    OBVIOUS
  <2>3. queue[k + 1] \in Messages
    BY <1>1, <2>2
  <2>4. c[k + 1] = After(c[k], queue[k + 1]) /\ d[k + 1] = After(d[k], queue[k + 1])
    BY <1>1, <2>2 DEF Runs
  <2>5. After(c[k], queue[k + 1]) \in Pages
    BY <2>1, <2>3, AfterIs
  <2> QED
    BY <2>1, <2>4, <2>5
<1> HIDE DEF N
<1>4. n \in N
  BY <1>2, <1>3, SetInduction
<1> QED
  BY <1>1, <1>4 DEF N

LEMMA ReceivedIs ==
  ASSUME NEW pg \in Pages, NEW queue \in Seq(Messages), NEW c, Runs(pg, queue, c)
  PROVE  Received(pg, queue) = c[Len(queue)] /\ Received(pg, queue) \in Pages
<1>1. PICK d : Runs(pg, queue, d) /\ Received(pg, queue) = d[Len(queue)]
  BY ReceivedRuns
<1> QED
  BY <1>1, RunsOnce

LEMMA ReceivedNone ==
  ASSUME NEW pg \in Pages
  PROVE  Received(pg, <<>>) = pg
<1>1. <<>> \in Seq(Messages) /\ Len(<<>>) = 0
  OBVIOUS
<1>2. PICK c : Runs(pg, <<>>, c) /\ Received(pg, <<>>) = c[Len(<<>>)]
  BY <1>1, ReceivedRuns
<1> QED
  BY <1>1, <1>2 DEF Runs

\* The last message is received last.
LEMMA ReceivedAppend ==
  ASSUME NEW pg \in Pages, NEW queue \in Seq(Messages), NEW m \in Messages
  PROVE  /\ Received(pg, queue) \in Pages
         /\ Append(queue, m) \in Seq(Messages)
         /\ Received(pg, Append(queue, m)) = After(Received(pg, queue), m)
<1>1. PICK n \in Nat : n = Len(queue)
  OBVIOUS
<1>2. PICK c : Runs(pg, queue, c) /\ Received(pg, queue) = c[n]
  BY <1>1, ReceivedRuns
<1>3. PICK d : d = [k \in 0..(n + 1) |-> IF k <= n THEN c[k] ELSE After(c[n], m)]
  OBVIOUS
<1>4. PICK longer : longer = Append(queue, m)
  OBVIOUS
<1>5. /\ longer \in Seq(Messages) /\ Len(longer) = n + 1 /\ longer[n + 1] = m
      /\ \A k \in 1..n : longer[k] = queue[k]
  BY <1>1, <1>4
<1>6. d[0] = pg /\ d[n + 1] = After(c[n], m) /\ \A k \in 0..n : d[k] = c[k]
  BY <1>2, <1>3 DEF Runs
<1>7. ASSUME NEW k \in 1..(n + 1)
      PROVE  d[k] = After(d[k - 1], longer[k])
  <2>1. CASE k \in 1..n
    <3>1. k \in 0..n /\ k - 1 \in 0..n
      BY <2>1
    <3>2. c[k] = After(c[k - 1], queue[k])
      BY <1>1, <1>2, <2>1 DEF Runs
    <3> QED
      BY <1>5, <1>6, <2>1, <3>1, <3>2
  <2>2. CASE k = n + 1
    <3>1. k - 1 = n /\ n \in 0..n
      BY <2>2
    <3>2. d[k - 1] = c[n]
      BY <1>6, <3>1
    <3> QED
      BY <1>5, <1>6, <2>2, <3>2
  <2> QED
    BY <2>1, <2>2
<1>8. Runs(pg, longer, d)
  BY <1>5, <1>6, <1>7 DEF Runs
<1>9. Received(pg, longer) = d[n + 1]
  BY <1>5, <1>8, ReceivedIs
<1>10. Received(pg, queue) \in Pages
  BY <1>2, ReceivedIs
<1> QED
  BY <1>2, <1>4, <1>5, <1>6, <1>9, <1>10

\* Nothing is lost or gained by receiving the first one now.
LEMMA ReceivedHead ==
  ASSUME NEW pg \in Pages, NEW queue \in Seq(Messages), queue # <<>>
  PROVE  /\ Head(queue) \in Messages /\ After(pg, Head(queue)) \in Pages
         /\ Tail(queue) \in Seq(Messages)
         /\ Received(After(pg, Head(queue)), Tail(queue)) = Received(pg, queue)
<1>1. PICK n \in Nat : n = Len(queue)
  OBVIOUS
<1>2. PICK m, rest : m = Head(queue) /\ rest = Tail(queue)
  OBVIOUS
<1>3. /\ n > 0 /\ m = queue[1] /\ m \in Messages
      /\ rest \in Seq(Messages) /\ Len(rest) = n - 1
      /\ \A k \in 1..(n - 1) : rest[k] = queue[k + 1]
  BY <1>1, <1>2
<1>4. PICK c : Runs(pg, queue, c) /\ Received(pg, queue) = c[n]
  BY <1>1, ReceivedRuns
<1>5. PICK d : d = [k \in 0..(n - 1) |-> c[k + 1]]
  OBVIOUS
<1>6. c[1] = After(pg, m)
  <2>1. 1 \in 1..n /\ 1 - 1 = 0
    BY <1>3
  <2> QED
    BY <1>1, <1>3, <1>4, <2>1 DEF Runs
<1>7. d[0] = After(pg, m) /\ d[n - 1] = c[n]
  BY <1>3, <1>5, <1>6
<1>8. ASSUME NEW k \in 1..(n - 1)
      PROVE  d[k] = After(d[k - 1], rest[k])
  <2>1. k + 1 \in 1..n /\ (k + 1) - 1 = k /\ k \in 0..(n - 1) /\ k - 1 \in 0..(n - 1)
        /\ (k - 1) + 1 = k
    BY <1>3
  <2>2. c[k + 1] = After(c[k], queue[k + 1])
    BY <1>1, <1>4, <2>1 DEF Runs
  <2>3. d[k] = c[k + 1] /\ d[k - 1] = c[k]
    BY <1>5, <2>1
  <2> QED
    BY <1>3, <2>2, <2>3
<1>9. After(pg, m) \in Pages
  BY <1>3, AfterIs
<1>10. Runs(After(pg, m), rest, d)
  BY <1>3, <1>7, <1>8 DEF Runs
<1>11. Received(After(pg, m), rest) = d[n - 1]
  BY <1>3, <1>9, <1>10, ReceivedIs
<1> QED
  BY <1>2, <1>3, <1>4, <1>7, <1>9, <1>11

-----------------------------------------------------------------------------
(* The prices of a book's levels.                                           *)

Priced(b) ==
  \A side \in Sides :
    /\ \A i \in Places : b.array[side][i].price \in Quoted \cup {LB!Worst(side)}
    /\ DOMAIN b.outer[side] \subseteq Quoted \cup {LB!Worst(side)}

\* What a sound book shows is quoted.
LEMMA ShowsQuotes ==
  ASSUME NEW b, Sound(b), Priced(b)
  PROVE  b.array \in Shots
<1>1. b.array \in [Sides -> [Places -> Level]]
  BY DEF Sound, Book
<1>2. \A side \in Sides : Quotes(b.array[side])
  BY <1>1 DEF Sound, Priced, Quotes
<1> QED
  BY <1>1, <1>2 DEF Shots

LEMMA PricedOneSide ==
  ASSUME NEW b, Priced(b), NEW side \in Sides, NEW c, OneSide(b, c, side),
         \A i \in Places : c.array[side][i].price \in Quoted \cup {LB!Worst(side)},
         DOMAIN c.outer[side] \subseteq Quoted \cup {LB!Worst(side)}
  PROVE  Priced(c)
BY DEF Priced, OneSide

LEMMA AddPriced ==
  ASSUME NEW b \in Book, Priced(b), NEW side \in Sides, NEW price \in Prices, NEW qty \in Nat,
         NEW c, c = LB!AddQty(b, side, price, qty)
  PROVE  Priced(c)
<1>1. PICK A, O, B, P, some : /\ A = b.array[side] /\ O = b.outer[side] /\ B = c.array[side]
                              /\ P = c.outer[side] /\ some = Quoted \cup {LB!Worst(side)}
  OBVIOUS
<1>2. price \in Int /\ price \in some /\ Places = 1..Depth /\ Depth \in Places
  BY <1>1, PageParameters, Parameters DEF Places
<1>3. OneSide(b, c, side) /\ Added(side, price, qty, b, c)
  BY <1>2, AddQtyIs
<1>4. (\A i \in Places : A[i].price \in some) /\ DOMAIN O \subseteq some
  BY <1>1 DEF Priced
<1>5. (\A i \in Places : B[i].price \in some) /\ DOMAIN P \subseteq some
  <2>1. CASE B = A /\ MapSet(O, price, (InMap(O, price) + qty) % WordMod, P)
    BY <1>2, <1>4, <2>1 DEF MapSet
  <2>2. ASSUME NEW at \in Places, A[at].price = price,
               PlaceSet(A, at, (A[at].qty + qty) % WordMod, B), P = O
        PROVE  (\A i \in Places : B[i].price \in some) /\ DOMAIN P \subseteq some
    <3>1. \A i \in Places : B[i].price = A[i].price
      BY <2>2 DEF PlaceSet
    <3> QED
      BY <1>4, <2>2, <3>1
  <2>3. ASSUME NEW at \in Places, ShiftedIn(A, at, [qty |-> qty, price |-> price], B),
               PushedOut(O, A[Depth], P)
        PROVE  (\A i \in Places : B[i].price \in some) /\ DOMAIN P \subseteq some
    <3>1. ASSUME NEW i \in Places
          PROVE  B[i].price = price \/ \E j \in Places : B[i] = A[j]
      <4>1. CASE i < at
        BY <2>3, <4>1 DEF ShiftedIn
      <4>2. CASE i = at
        BY <1>2, <2>3, <4>2 DEF ShiftedIn
      <4>3. CASE i > at
        <5>1. i - 1 \in Places /\ ~(i < at) /\ i # at
          BY <1>2, <4>3
        <5> QED
          BY <2>3, <5>1 DEF ShiftedIn
      <4> QED
        BY <1>2, <4>1, <4>2, <4>3
    <3>2. DOMAIN P \subseteq some
      BY <1>2, <1>4, <2>3 DEF PushedOut, MapSet
    <3> QED
      BY <1>2, <1>4, <3>1, <3>2
  <2> QED
    BY <1>1, <1>3, <2>1, <2>2, <2>3 DEF Added
<1> QED
  BY <1>1, <1>3, <1>5, PricedOneSide

LEMMA RemovePriced ==
  ASSUME NEW b \in Book, Priced(b), NEW side \in Sides, NEW price \in Prices, NEW qty \in Nat,
         NEW type \in Events, NEW junk \in LB!Junk,
         NEW c, c = LB!RemoveQty(b, side, price, qty, type, junk)
  PROVE  Priced(c)
<1>1. PICK A, O, B, P, some : /\ A = b.array[side] /\ O = b.outer[side] /\ B = c.array[side]
                              /\ P = c.outer[side] /\ some = Quoted \cup {LB!Worst(side)}
  OBVIOUS
<1>2. price \in Int /\ price \in some /\ 0 \in some /\ Places = 1..Depth /\ Depth \in Places
  BY <1>1, PageParameters, Parameters DEF Places
<1>3. OneSide(b, c, side) /\ Removed(side, price, qty, type, b, c)
  BY <1>2, RemoveQtyIs
<1>4. (\A i \in Places : A[i].price \in some) /\ DOMAIN O \subseteq some
  BY <1>1 DEF Priced
<1>5. (\A i \in Places : B[i].price \in some) /\ DOMAIN P \subseteq some
  <2>1. CASE B = A /\ MapSet(O, price, (InMap(O, price) - qty) % WordMod, P)
    BY <1>2, <1>4, <2>1 DEF MapSet
  <2>2. ASSUME NEW at \in Places,
               PlaceSet(A, at, (A[at].qty - qty) % WordMod, B), P = O
        PROVE  (\A i \in Places : B[i].price \in some) /\ DOMAIN P \subseteq some
    <3>1. \A i \in Places : B[i].price = A[i].price
      BY <2>2 DEF PlaceSet
    <3> QED
      BY <1>4, <2>2, <3>1
  <2>3. ASSUME NEW at \in Places, NEW x, ShiftedOut(A, at, x, B), Promoted(side, O, x, P)
        PROVE  (\A i \in Places : B[i].price \in some) /\ DOMAIN P \subseteq some
    <3>1. ASSUME NEW i \in Places
          PROVE  B[i] = x \/ \E j \in Places : B[i] = A[j]
      <4>1. CASE i < at
        BY <2>3, <4>1 DEF ShiftedOut
      <4>2. CASE ~(i < at) /\ i = Depth
        BY <2>3, <4>2 DEF ShiftedOut
      <4>3. CASE ~(i < at) /\ i # Depth
        <5>1. i + 1 \in Places
          BY <1>2, <4>3
        <5> QED
          BY <2>3, <4>3, <5>1 DEF ShiftedOut
      <4> QED
        BY <4>1, <4>2, <4>3
    <3>2. x.price \in some
      <4>1. CASE x \in LB!Junk
        BY <1>2, <4>1 DEF LB!Junk
      <4>2. CASE x \notin LB!Junk
        BY <1>4, <2>3, <4>2 DEF Promoted
      <4> QED
        BY <4>1, <4>2
    <3>3. DOMAIN P \subseteq some
      BY <1>4, <2>3 DEF Promoted
    <3> QED
      BY <1>4, <3>1, <3>2, <3>3
  <2> QED
    BY <1>1, <1>3, <2>1, <2>2, <2>3 DEF Removed
<1> QED
  BY <1>1, <1>3, <1>5, PricedOneSide

LEMMA ClearPriced ==
  ASSUME NEW b \in Book, Priced(b), NEW c, c = LB!Clear(b)
  PROVE  Priced(c)
<1>1. PICK outer : outer = [side \in Sides |->
               [p \in {q \in DOMAIN b.outer[side] : q = LB!Begin(b.outer[side], side)} |->
                  b.outer[side][p]]]
  OBVIOUS
<1>2. c = [b EXCEPT !.array = LB!EmptyArray, !.outer = outer, !.id = @ + 1, !.event = "none"]
  BY <1>1 DEF LB!Clear, LB!Sides, Sides
<1>3. c.array = LB!EmptyArray /\ c.outer = outer
  BY <1>2 DEF Book
<1>4. \A side \in Sides, i \in Places : LB!EmptyArray[side][i].price = LB!Worst(side)
  BY DEF LB!EmptyArray, LB!EmptyLevel, LB!Sides, Sides, Places
<1>5. \A side \in Sides : DOMAIN outer[side] \subseteq DOMAIN b.outer[side]
  BY <1>1
<1> QED
  BY <1>3, <1>4, <1>5 DEF Priced

LEMMA RebuildPriced ==
  ASSUME NEW b, Sound(b), Priced(b), NEW levels \in Listable
  PROVE  Priced(LB!Rebuild(b, levels))
<1>1. PICK base : base = LB!Clear(b)
  OBVIOUS
<1>2. Sound(base) /\ Priced(base)
  <2>1. b \in Book
    BY DEF Sound
  <2> QED
    BY <1>1, <2>1, ClearIs, ClearPriced
<1>3. PICK n \in Nat : n = Len(levels)
  BY DEF Listable
<1>4. PICK c : /\ c[0] = base
               /\ \A k \in 1..n : c[k] = AddEntry(c[k - 1], levels[k])
               /\ LB!Rebuild(b, levels) = [c[n] EXCEPT !.event = "levels"]
  <2>1. levels \in Seq(Entries) /\ LB!Clear(b) \in Book
    BY <1>1, <1>2 DEF Listable, Sound
  <2> QED
    BY <1>1, <1>3, <2>1, RebuildSteps
<1> DEFINE S == {k \in Nat : k <= n => Sound(c[k]) /\ Priced(c[k])}
<1>5. 0 \in S
  BY <1>2, <1>4
<1>6. ASSUME NEW k \in Nat, k \in S
      PROVE  k + 1 \in S
  <2> SUFFICES ASSUME k + 1 <= n
               PROVE  Sound(c[k + 1]) /\ Priced(c[k + 1])
    OBVIOUS
  <2>1. k + 1 \in 1..n /\ (k + 1) - 1 = k /\ k <= n
    OBVIOUS
  <2>2. PICK e : e = levels[k + 1]
    OBVIOUS
  <2>3. e \in Entries /\ e.price \in Prices
    BY <1>3, <2>1, <2>2 DEF Listable
  <2>4. e.side \in Sides /\ e.qty \in Nat
    BY <2>3 DEF Entries
  <2>5. PICK d, f : d = c[k] /\ f = c[k + 1]
    OBVIOUS
  <2>6. f = LB!AddQty(d, e.side, e.price, e.qty)
    BY <1>4, <2>1, <2>2, <2>5 DEF AddEntry
  <2>7. Sound(d) /\ Priced(d)
    BY <1>6, <2>1, <2>5
  <2>8. d \in Book
    BY <2>7 DEF Sound
  <2>9. Sound(f)
    BY <2>3, <2>4, <2>6, <2>7, AddSound
  <2>10. Priced(f)
    BY <2>3, <2>4, <2>6, <2>7, <2>8, AddPriced
  <2> QED
    BY <2>5, <2>9, <2>10
<1> HIDE DEF S
<1>7. n \in S
  BY <1>5, <1>6, SetInduction
<1>8. PICK d, e : d = c[n] /\ e = [d EXCEPT !.event = "levels"]
  OBVIOUS
<1>9. Sound(d) /\ Priced(d)
  BY <1>7, <1>8 DEF S
<1>10. e.array = d.array /\ e.outer = d.outer
  BY <1>8, <1>9 DEF Sound, Book
<1>11. Priced(e)
  BY <1>9, <1>10 DEF Priced
<1> QED
  BY <1>4, <1>8, <1>11

-----------------------------------------------------------------------------
(* What Md sends.                                                           *)

BooksOK == books \in [Symbols -> Book] /\ Sound(books[Ibm]) /\ Priced(books[Ibm])

LEMMA TakesTyped ==
  ASSUME NEW side \in Sides, NEW qty \in Nat \ {0}, NEW price \in Prices,
         NEW s, Change(s, side, qty, price),
         NEW b, Sound(b), Priced(b), NEW junk \in LB!Junk, NEW c, c = LB!Apply(b, sent', junk)
  PROVE  /\ Sound(c) /\ Priced(c)
         /\ c.event \in {"none", "levels", sent'.type}
<1>1. PICK taken, type : taken = SideTaken(b, sent') /\ type = sent'.type
  OBVIOUS
<1>2. type \in {"submit", "trade", "cancel"} /\ sent'.price = price /\ sent'.qty = qty
  BY <1>1 DEF Change
<1>3. taken \in Sides
  BY <1>1, <1>2, SideTakenIs DEF Sides, Change
<1>4. /\ type = "submit" => c = LB!AddQty(b, taken, price, qty)
      /\ type # "submit" => c = LB!RemoveQty(b, taken, price, qty, type, junk)
  BY <1>1, <1>2, ApplyIs
<1>5. b \in Book /\ price \in Int /\ qty \in Nat
  BY Parameters DEF Sound
<1>6. CASE type = "submit"
  <2>1. c = LB!AddQty(b, taken, price, qty)
    BY <1>4, <1>6
  <2>2. Sound(c) /\ Priced(c) /\ Added(taken, price, qty, b, c)
    BY <1>3, <1>5, <2>1, AddSound, AddPriced, AddQtyIs
  <2>3. c.event \in {"none", "levels", "submit"}
    BY <2>2 DEF Added
  <2> QED
    BY <1>1, <1>6, <2>2, <2>3
<1>7. CASE type \in {"trade", "cancel"}
  <2>1. c = LB!RemoveQty(b, taken, price, qty, type, junk) /\ type \in Events
    BY <1>4, <1>7 DEF Events
  <2>2. Sound(c) /\ Priced(c) /\ Removed(taken, price, qty, type, b, c)
    BY <1>3, <1>5, <2>1, RemoveSound, RemovePriced, RemoveQtyIs
  <2>3. c.event \in {"none", "levels", type}
    BY <2>2 DEF Removed
  <2> QED
    BY <1>1, <2>2, <2>3
<1> QED
  BY <1>2, <1>6, <1>7

\* The message of a change of the book.
Said ==
  IF books'[Ibm].event = "levels" THEN Snapshotted(TRUE, books'[Ibm].array)
  ELSE Updated(TRUE, books'[Ibm].event, sent'.side, sent'.price, sent'.qty)

LEMMA SnapshottedIs ==
  ASSUME NEW own \in BOOLEAN, NEW arrays \in Shots, NEW m, m = Snapshotted(own, arrays)
  PROVE  m \in Messages /\ m.type = "snapshot" /\ m.own = own /\ m.levels = arrays
<1>1. m = [type |-> "snapshot", own |-> own, levels |-> arrays]
  BY DEF Snapshotted
<1>2. m \in [type : {"snapshot"}, own : BOOLEAN, levels : Shots]
  BY <1>1
<1> QED
  BY <1>1, <1>2 DEF Messages

LEMMA OwnShot ==
  ASSUME NEW arrays \in Shots, NEW m, m = Snapshotted(TRUE, arrays)
  PROVE  m \in Messages /\ m.type = "snapshot" /\ m.own = TRUE /\ m.levels = arrays
<1>1. TRUE \in BOOLEAN
  OBVIOUS
<1> QED
  BY <1>1, SnapshottedIs

\* What the messages about one level hold: only a submit names its side.
Tells(own, type, side, price, qty) ==
  /\ own \in BOOLEAN /\ type \in {"submit", "trade", "cancel"}
  /\ type = "submit" => side \in Sides
  /\ type # "submit" => side = "N"
  /\ price \in Prices /\ qty \in Nat \ {0}

LEMMA UpdatedIs ==
  ASSUME NEW own, NEW type, NEW side, NEW price, NEW qty, Tells(own, type, side, price, qty),
         NEW m, m = Updated(own, type, side, price, qty)
  PROVE  m \in Messages
<1>1. m = [type |-> type, own |-> own, side |-> side, price |-> price, qty |-> qty]
  BY DEF Updated
<1>2. CASE type = "submit"
  <2>1. m \in [type : {"submit"}, own : BOOLEAN, side : Sides, price : Prices, qty : Nat \ {0}]
    BY <1>1, <1>2 DEF Tells
  <2> QED
    BY <2>1 DEF Messages
<1>3. CASE type # "submit"
  <2>1. m \in [type : {"trade", "cancel"}, own : BOOLEAN, side : {"N"}, price : Prices,
               qty : Nat \ {0}]
    BY <1>1, <1>3 DEF Tells
  <2> QED
    BY <2>1 DEF Messages
<1> QED
  BY <1>2, <1>3

LEMMA SentSide ==
  ASSUME NEW s, Announced(s)
  PROVE  sent'.type \in {"trade", "cancel"} => sent'.side = "N"
BY DEF Announced, Submit, Trade, Cancel, Announce

LEMMA DeliverSays ==
  ASSUME ExchangeOK, BooksOK, Deliver(Ibm)
  PROVE  /\ ExchangeOK' /\ BooksOK' /\ behind' = behind
         /\ books'[Ibm].event # "none" =>
              /\ Said \in Messages /\ Said.own = TRUE
              /\ IF books'[Ibm].event = "levels"
                 THEN Said.type = "snapshot" /\ Said.levels = books'[Ibm].array
                 ELSE /\ Said.type = sent'.type /\ books'[Ibm].event = sent'.type
                      /\ Said.side = sent'.side /\ Said.price = sent'.price /\ Said.qty = sent'.qty
                      /\ Said.type \in {"submit", "trade", "cancel"}
<1>0. Ibm \in Symbols
  BY PageParameters
<1>1. Announced(Ibm) /\ behind' = behind
  BY DEF Deliver
<1>2. ExchangeOK'
  BY <1>0, <1>1, ExchangeStep
<1>3. PICK side \in Sides, qty \in Nat \ {0}, price \in Prices : Change(Ibm, side, qty, price)
  BY <1>0, <1>1, AnnouncedIs
<1>4. PICK junk \in LB!Junk : books' = [books EXCEPT ![Ibm] = LB!Apply(@, sent', junk)]
  BY DEF Deliver
<1>5. PICK b, c : b = books[Ibm] /\ c = LB!Apply(b, sent', junk)
  OBVIOUS
<1>6. Sound(b) /\ Priced(b) /\ books \in [Symbols -> Book]
  BY <1>5 DEF BooksOK
<1>7. Sound(c) /\ Priced(c) /\ c.event \in {"none", "levels", sent'.type}
  BY <1>3, <1>5, <1>6, TakesTyped
<1>8. c \in Book
  BY <1>7 DEF Sound
<1>9. books' \in [Symbols -> Book] /\ books'[Ibm] = c
  BY <1>0, <1>4, <1>5, <1>6, <1>8
<1>10. BooksOK'
  BY <1>7, <1>9 DEF BooksOK
<1>11. CASE c.event = "levels"
  <2>1. c.array \in Shots
    BY <1>7, ShowsQuotes
  <2>2. Said = Snapshotted(TRUE, c.array)
    BY <1>9, <1>11 DEF Said
  <2>3. Said \in Messages /\ Said.type = "snapshot" /\ Said.own = TRUE /\ Said.levels = c.array
    BY ONLY <2>1, <2>2, OwnShot
  <2> QED
    BY <1>1, <1>2, <1>9, <1>10, <1>11, <2>3
<1>12. CASE c.event = sent'.type
  <2>1. PICK type, whose : type = sent'.type /\ whose = sent'.side
    OBVIOUS
  <2>2. type \in {"submit", "trade", "cancel"} /\ sent'.price = price /\ sent'.qty = qty
    BY <1>3, <2>1 DEF Change
  <2>3. Tells(TRUE, type, whose, price, qty)
    BY <1>1, <1>3, <2>1, <2>2, SentSide DEF Change, Tells
  <2>4. PICK m : m = Updated(TRUE, type, whose, price, qty)
    OBVIOUS
  <2>5. m \in Messages
    BY <2>3, <2>4, UpdatedIs
  <2>6. Said = m /\ m.type = type /\ m.own = TRUE /\ m.side = whose /\ m.price = price /\ m.qty = qty
    BY <1>9, <1>12, <2>1, <2>2, <2>4 DEF Said, Updated
  <2>7. type # "levels"
    BY <2>2
  <2> QED
    BY <1>1, <1>2, <1>9, <1>10, <1>12, <2>1, <2>2, <2>4, <2>5, <2>6, <2>7
<1>13. CASE c.event = "none"
  BY <1>1, <1>2, <1>9, <1>10, <1>13
<1> QED
  BY <1>7, <1>11, <1>12, <1>13

LEMMA ResyncTyped ==
  ASSUME ExchangeOK, BooksOK, Resync(Ibm)
  PROVE  ExchangeOK' /\ BooksOK' /\ books'[Ibm].array \in Shots
<1>0. Ibm \in Symbols
  BY PageParameters
<1>1. PICK levels \in SnapResponses(Ibm) : books' = [books EXCEPT ![Ibm] = LB!Rebuild(@, levels)]
  BY DEF Resync
<1>2. ladder' = ladder
  BY DEF Resync, Quiet
<1>3. ExchangeOK'
  BY <1>2 DEF ExchangeOK, Levels
<1>4. levels \in Listable
  BY <1>0, ResponsesAreTyped DEF ExchangeOK
<1>5. PICK b, c : b = books[Ibm] /\ c = LB!Rebuild(b, levels)
  OBVIOUS
<1>6. Sound(b) /\ Priced(b) /\ books \in [Symbols -> Book]
  BY <1>5 DEF BooksOK
<1>7. Sound(c) /\ Priced(c)
  BY <1>4, <1>5, <1>6, RebuildSound, RebuildPriced
<1>8. c \in Book
  BY <1>7 DEF Sound
<1>9. books' \in [Symbols -> Book] /\ books'[Ibm] = c
  BY <1>0, <1>1, <1>5, <1>6, <1>8
<1>10. c.array \in Shots
  BY <1>7, ShowsQuotes
<1> QED
  BY <1>3, <1>7, <1>9, <1>10 DEF BooksOK

\* Messages about other symbols.
LEMMA ForeignIs ==
  ASSUME NEW m \in ForeignMessages
  PROVE  m \in Messages /\ m.own = FALSE /\ m.type \in {"submit", "trade", "snapshot"}
<1>1. PICK p \in ForeignPrices :
        m \in {Updated(FALSE, "submit", "S", p, 1), Updated(FALSE, "trade", "N", p, 1),
               Snapshotted(FALSE, [LB!EmptyArray EXCEPT !["B"][1] = [qty |-> 1, price |-> p]])}
  BY DEF ForeignMessages
<1>2. p \in Prices /\ p \in Quoted /\ p \in Int
  BY PageAssumption, PageParameters DEF PageAssumption
<1>3. CASE m = Updated(FALSE, "submit", "S", p, 1)
  <2>1. Tells(FALSE, "submit", "S", p, 1)
    BY <1>2 DEF Tells, Sides
  <2>2. m \in Messages
    BY <1>3, <2>1, UpdatedIs
  <2> QED
    BY <1>3, <2>2 DEF Updated
<1>4. CASE m = Updated(FALSE, "trade", "N", p, 1)
  <2>1. Tells(FALSE, "trade", "N", p, 1)
    BY <1>2 DEF Tells
  <2>2. m \in Messages
    BY <1>4, <2>1, UpdatedIs
  <2> QED
    BY <1>4, <2>2 DEF Updated
<1>5. CASE m = Snapshotted(FALSE, [LB!EmptyArray EXCEPT !["B"][1] = [qty |-> 1, price |-> p]])
  <2>1. PICK level : level = [qty |-> 1, price |-> p]
    OBVIOUS
  <2>2. level \in Level /\ level.price \in Quoted
    BY <1>2, <2>1 DEF Level
  <2>3. PICK a : a = [LB!EmptyArray EXCEPT !["B"][1] = level]
    OBVIOUS
  <2>4. \A side \in Sides : [qty |-> 0, price |-> LB!Worst(side)] \in Level
    BY Parameters DEF Level
  <2>5. LB!EmptyArray = [side \in Sides |-> [i \in Places |-> [qty |-> 0, price |-> LB!Worst(side)]]]
    BY DEF LB!EmptyArray, LB!EmptyLevel, LB!Sides, Sides, Places
  <2>6. /\ LB!EmptyArray \in [Sides -> [Places -> Level]]
        /\ \A side \in Sides, i \in Places : LB!EmptyArray[side][i].qty = 0
    BY <2>4, <2>5
  <2>7. a \in [Sides -> [Places -> Level]]
    BY <2>2, <2>3, <2>6
  <2>8. \A side \in Sides, i \in Places : a[side][i] = level \/ a[side][i].qty = 0
    BY <2>3, <2>6
  <2>9. \A side \in Sides : Quotes(a[side])
    BY <2>2, <2>7, <2>8 DEF Quotes
  <2>10. a \in Shots
    BY <2>7, <2>9 DEF Shots
  <2>11. m = Snapshotted(FALSE, a)
    BY <1>5, <2>1, <2>3
  <2>12. m \in Messages /\ m.type = "snapshot" /\ m.own = FALSE
    BY <2>10, <2>11, SnapshottedIs
  <2> QED
    BY <2>12
<1> QED
  BY <1>1, <1>3, <1>4, <1>5

-----------------------------------------------------------------------------
(* The invariant.                                                           *)

Levelled == {"cancel", "submit", "trade", "snapshot"}

\* Before the page asks for the levels it has subscribed to what follows them.
CallLast ==
  \A i \in DOMAIN fromPage : fromPage[i] = "call" =>
    \A t \in Levelled : t \in subscribed \/ \E j \in DOMAIN fromPage : j < i /\ fromPage[j] = t

Addressed == \A i \in DOMAIN toPage : toPage[i].type \in subscribed \cup {"result", "empty"}

\* Types, and what holds of a page that is up as soon as its answer is sent: it
\* hears of every change, and its flag tells of a recovery.
PageInv ==
  /\ ExchangeOK /\ BooksOK
  /\ recovering \in BOOLEAN /\ (recovering => Ibm \in behind)
  /\ subscribed \subseteq Topics
  /\ fromPage \in Seq(Topics \cup {"call"}) /\ CallLast
  /\ toPage \in Seq(Messages) /\ Addressed
  /\ page \in Pages /\ CellsMatch(page.view)
  /\ Drained.phase = "up" => Levelled \subseteq subscribed
  /\ FlagTellsRecovery

LEMMA DrainedIs ==
  ASSUME page \in Pages, toPage \in Seq(Messages)
  PROVE  Drained \in Pages /\ Drained = Received(page, toPage)
<1>1. Drained = Received(page, toPage)
  BY DEF Drained, Received
<1>2. PICK c : Runs(page, toPage, c) /\ Received(page, toPage) = c[Len(toPage)]
  BY ReceivedRuns
<1> QED
  BY <1>1, <1>2, ReceivedIs

\* A message is put into the queue: with it the page goes one step further.
Queued(m) ==
  /\ toPage' \in Seq(Messages) /\ Addressed'
  /\ Drained' \in Pages /\ Moved(Drained, Drained', m)

LEMMA AppendQueues ==
  ASSUME page \in Pages, toPage \in Seq(Messages), Addressed, page' = page,
         subscribed' = subscribed, NEW m \in Messages,
         m.type \in subscribed \cup {"result", "empty"}, toPage' = Append(toPage, m)
  PROVE  Queued(m)
<1>1. PICK pg, queue, longer : pg = page /\ queue = toPage /\ longer = Append(queue, m)
  OBVIOUS
<1>2. /\ Received(pg, queue) \in Pages /\ longer \in Seq(Messages)
      /\ Received(pg, longer) = After(Received(pg, queue), m)
  BY <1>1, ReceivedAppend
<1>3. Drained = Received(pg, queue)
  BY <1>1, DrainedIs
<1>4. Drained' = Received(pg, longer)
  BY <1>1 DEF Drained, Received
<1>5. Drained' \in Pages /\ Moved(Drained, Drained', m)
  BY <1>2, <1>3, <1>4, AfterIs
<1>6. Addressed'
  <2>1. \A i \in DOMAIN longer : longer[i] = m \/ (i \in DOMAIN queue /\ longer[i] = queue[i])
    BY <1>1
  <2> QED
    BY <1>1, <2>1 DEF Addressed
<1> QED
  BY <1>1, <1>2, <1>5, <1>6 DEF Queued

\* A message is published, and lost on who has not subscribed to it.
Published(m) ==
  \/ m.type \in subscribed /\ Queued(m)
  \/ m.type \notin subscribed /\ toPage' = toPage /\ Drained' = Drained

LEMMA PublishIs ==
  ASSUME page \in Pages, toPage \in Seq(Messages), Addressed, page' = page,
         subscribed' = subscribed, NEW m \in Messages, Publish(m)
  PROVE  Published(m)
<1>1. CASE m.type \in subscribed
  <2>1. toPage' = Append(toPage, m)
    BY <1>1 DEF Publish
  <2> QED
    BY <1>1, <2>1, AppendQueues DEF Published
<1>2. CASE m.type \notin subscribed
  <2>1. toPage' = toPage
    BY <1>2 DEF Publish
  <2> QED
    BY <1>2, <2>1 DEF Published, Drained
<1> QED
  BY <1>1, <1>2

\* What the page takes as a change, without a word of recovery.
Unflagged(pg) == pg.phase = "up" => ~pg.view.flag

LEMMA StaysUnflagged ==
  ASSUME NEW pg, NEW c, NEW m, Moved(pg, c, m), m.type \in Levelled, Unflagged(pg)
  PROVE  Unflagged(c) /\ c.phase = pg.phase
BY DEF Moved, Heard, Unflagged, Levelled, Topics

\* A step of Md or of the feed.
LEMMA MdKeeps ==
  ASSUME PageInv, ExchangeOK', BooksOK', recovering' \in BOOLEAN, recovering' => Ibm \in behind',
         UNCHANGED <<subscribed, browser>>, toPage' \in Seq(Messages), Addressed',
         Drained'.phase = "up" => Drained.phase = "up", FlagTellsRecovery'
  PROVE  PageInv'
<1>1. page' = page /\ fromPage' = fromPage /\ subscribed' = subscribed
  BY DEF browser
<1>2. CallLast'
  BY <1>1 DEF PageInv, CallLast
<1> QED
  BY <1>1, <1>2 DEF PageInv

LEMMA MdAppliesKeeps ==
  ASSUME PageInv, MdApplies
  PROVE  PageInv'
<1>1. /\ Deliver(Ibm) /\ ~recovering /\ recovering' = recovering
      /\ UNCHANGED <<subscribed, browser>> /\ page' = page /\ subscribed' = subscribed
      /\ PublishChange(books'[Ibm].event)
  BY DEF MdApplies, browser
<1>2. /\ ExchangeOK' /\ BooksOK' /\ behind' = behind
      /\ books'[Ibm].event # "none" => Said \in Messages /\ Said.type \in Levelled
  <2>1. ExchangeOK /\ BooksOK
    BY DEF PageInv
  <2> QED
    BY <1>1, <2>1, DeliverSays DEF Levelled
<1>3. page \in Pages /\ toPage \in Seq(Messages) /\ Addressed /\ Unflagged(Drained)
  BY <1>1 DEF PageInv, FlagTellsRecovery, Unflagged
<1>4. /\ toPage' \in Seq(Messages) /\ Addressed' /\ Unflagged(Drained')
      /\ Drained'.phase = Drained.phase
  <2>1. CASE books'[Ibm].event = "none"
    <3>1. toPage' = toPage
      BY <1>1, <2>1 DEF PublishChange
    <3>2. Drained' = Drained
      BY <1>1, <3>1 DEF Drained
    <3> QED
      BY <1>1, <1>3, <3>1, <3>2 DEF Addressed
  <2>2. CASE books'[Ibm].event # "none"
    <3>1. books'[Ibm].event \in Events
      <4>1. Ibm \in Symbols
        BY PageParameters
      <4> QED
        BY <1>2, <4>1 DEF BooksOK, Book
    <3>2. Publish(Said)
      BY <1>1, <2>2, <3>1 DEF PublishChange, Said, Events
    <3>3. PICK m : m = Said
      OBVIOUS
    <3>4. m \in Messages /\ m.type \in Levelled /\ Publish(m)
      BY <1>2, <2>2, <3>2, <3>3
    <3>5. Published(m)
      BY <1>1, <1>3, <3>4, PublishIs
    <3>6. CASE m.type \in subscribed /\ Queued(m)
      BY <1>3, <3>4, <3>6, StaysUnflagged DEF Queued
    <3>7. CASE toPage' = toPage /\ Drained' = Drained
      BY <1>1, <1>3, <3>7 DEF Addressed
    <3> QED
      BY <3>5, <3>6, <3>7 DEF Published
  <2> QED
    BY <2>1, <2>2
<1>5. FlagTellsRecovery'
  BY <1>1, <1>4 DEF FlagTellsRecovery, Unflagged
<1>6. recovering' \in BOOLEAN /\ (recovering' => Ibm \in behind')
  BY <1>1, <1>2 DEF PageInv
<1> QED
  BY <1>1, <1>2, <1>4, <1>5, <1>6, MdKeeps

LEMMA MdMissesKeeps ==
  ASSUME PageInv, MdMisses
  PROVE  PageInv'
<1>1. /\ Miss(Ibm) /\ recovering' = recovering /\ told' = told /\ toPage' = toPage
      /\ UNCHANGED <<subscribed, browser>> /\ page' = page /\ subscribed' = subscribed
  BY DEF MdMisses, browser
<1>2. Announced(Ibm) /\ books' = books /\ behind' = behind \cup {Ibm}
  BY <1>1 DEF Miss
<1>3. ExchangeOK'
  BY <1>2, ExchangeStep, PageParameters DEF PageInv
<1>4. BooksOK'
  BY <1>2 DEF PageInv, BooksOK
<1>5. Drained' = Drained
  BY <1>1 DEF Drained
<1>6. toPage' \in Seq(Messages) /\ Addressed' /\ FlagTellsRecovery'
  BY <1>1, <1>5 DEF PageInv, Addressed, FlagTellsRecovery
<1>7. recovering' \in BOOLEAN /\ (recovering' => Ibm \in behind')
  BY <1>1, <1>2 DEF PageInv
<1> QED
  BY <1>1, <1>3, <1>4, <1>5, <1>6, <1>7, MdKeeps

LEMMA MdRecoversKeeps ==
  ASSUME PageInv, MdRecovers
  PROVE  PageInv'
<1>1. /\ Miss(Ibm) /\ ~recovering /\ recovering' = TRUE /\ told' = ("recover" \in subscribed)
      /\ UNCHANGED <<subscribed, browser>> /\ page' = page /\ subscribed' = subscribed
      /\ Publish([type |-> "recover"])
  BY DEF MdRecovers, browser
<1>2. Announced(Ibm) /\ books' = books /\ behind' = behind \cup {Ibm}
  BY <1>1 DEF Miss
<1>3. ExchangeOK'
  BY <1>2, ExchangeStep, PageParameters DEF PageInv
<1>4. BooksOK'
  BY <1>2 DEF PageInv, BooksOK
<1>5. PICK m : m = [type |-> "recover"]
  OBVIOUS
<1>6. m \in Messages /\ m.type = "recover"
  BY <1>5 DEF Messages
<1>7. page \in Pages /\ toPage \in Seq(Messages) /\ Addressed
  BY DEF PageInv
<1>8. Published(m)
  BY <1>1, <1>5, <1>6, <1>7, PublishIs
<1>9. CASE m.type \in subscribed /\ Queued(m)
  <2>1. Drained'.phase = Drained.phase /\ (Drained.phase = "up" => Drained'.view.flag)
    BY <1>6, <1>9 DEF Queued, Moved, Heard, Topics
  <2>2. FlagTellsRecovery'
    BY <1>1, <2>1 DEF FlagTellsRecovery
  <2> QED
    BY <1>1, <1>2, <1>3, <1>4, <1>9, <2>1, <2>2, MdKeeps DEF Queued
<1>10. CASE m.type \notin subscribed /\ toPage' = toPage /\ Drained' = Drained
  <2>1. ~told'
    <3>1. "recover" \notin subscribed
      BY <1>6, <1>10
    <3>2. told' = ("recover" \in subscribed)
      BY <1>1
    <3> QED
      BY ONLY <3>1, <3>2, Zenon
  <2>2. FlagTellsRecovery'
    BY <1>1, <2>1 DEF FlagTellsRecovery
  <2>3. toPage' \in Seq(Messages) /\ Addressed'
    BY <1>1, <1>7, <1>10 DEF Addressed
  <2> QED
    BY <1>1, <1>2, <1>3, <1>4, <1>10, <2>2, <2>3, MdKeeps
<1> QED
  BY <1>8, <1>9, <1>10 DEF Published

LEMMA MdRecoveredKeeps ==
  ASSUME PageInv, MdRecovered
  PROVE  PageInv'
<1>1. /\ Resync(Ibm) /\ recovering' = FALSE
      /\ UNCHANGED <<subscribed, browser>> /\ page' = page /\ subscribed' = subscribed
      /\ Publish(Snapshotted(TRUE, books'[Ibm].array))
  BY DEF MdRecovered, browser
<1>2. ExchangeOK' /\ BooksOK' /\ books'[Ibm].array \in Shots
  BY <1>1, ResyncTyped DEF PageInv
<1>3. PICK m, arrays : arrays = books'[Ibm].array /\ m = Snapshotted(TRUE, arrays)
  OBVIOUS
<1>4. m \in Messages /\ m.type = "snapshot"
  <2>1. arrays \in Shots
    BY <1>2, <1>3
  <2> QED
    BY ONLY <1>3, <2>1, OwnShot
<1>5. page \in Pages /\ toPage \in Seq(Messages) /\ Addressed
  BY DEF PageInv
<1>6. Published(m)
  BY <1>1, <1>3, <1>4, <1>5, PublishIs
<1>7. CASE m.type \in subscribed /\ Queued(m)
  <2>1. Drained'.phase = Drained.phase /\ (Drained.phase = "up" => ~Drained'.view.flag)
    BY <1>4, <1>7 DEF Queued, Moved, Heard, Topics
  <2>2. FlagTellsRecovery'
    BY <1>1, <2>1 DEF FlagTellsRecovery
  <2> QED
    BY <1>1, <1>2, <1>7, <2>1, <2>2, MdKeeps DEF Queued
<1>8. CASE m.type \notin subscribed /\ toPage' = toPage /\ Drained' = Drained
  <2>1. Drained.phase # "up"
    BY <1>4, <1>8 DEF PageInv, Levelled
  <2>2. FlagTellsRecovery'
    BY <1>8, <2>1 DEF FlagTellsRecovery
  <2>3. toPage' \in Seq(Messages) /\ Addressed'
    BY <1>1, <1>5, <1>8 DEF Addressed
  <2> QED
    BY <1>1, <1>2, <1>8, <2>2, <2>3, MdKeeps
<1> QED
  BY <1>6, <1>7, <1>8 DEF Published

LEMMA ForeignKeeps ==
  ASSUME PageInv, NEW m \in ForeignMessages, Foreign(m)
  PROVE  PageInv'
<1>1. /\ ~recovering /\ recovering' = recovering /\ UNCHANGED feedVars
      /\ UNCHANGED <<subscribed, browser>> /\ page' = page /\ subscribed' = subscribed
      /\ Publish(m)
  BY DEF Foreign, browser
<1>2. books' = books /\ ladder' = ladder /\ behind' = behind
  BY <1>1 DEF feedVars, ladderVars
<1>3. ExchangeOK' /\ BooksOK'
  BY <1>2 DEF PageInv, ExchangeOK, Levels, BooksOK
<1>4. m \in Messages /\ m.type \in Levelled
  BY ForeignIs DEF Levelled
<1>5. page \in Pages /\ toPage \in Seq(Messages) /\ Addressed /\ Unflagged(Drained)
  BY <1>1 DEF PageInv, FlagTellsRecovery, Unflagged
<1>6. Published(m)
  BY <1>1, <1>4, <1>5, PublishIs
<1>7. /\ toPage' \in Seq(Messages) /\ Addressed' /\ Unflagged(Drained')
      /\ Drained'.phase = Drained.phase
  <2>1. CASE m.type \in subscribed /\ Queued(m)
    BY <1>4, <1>5, <2>1, StaysUnflagged DEF Queued
  <2>2. CASE toPage' = toPage /\ Drained' = Drained
    BY <1>1, <1>5, <2>2 DEF Addressed
  <2> QED
    BY <1>6, <2>1, <2>2 DEF Published
<1>8. FlagTellsRecovery'
  BY <1>1, <1>7 DEF FlagTellsRecovery, Unflagged
<1>9. recovering' \in BOOLEAN /\ (recovering' => Ibm \in behind')
  BY <1>1, <1>2 DEF PageInv
<1> QED
  BY <1>1, <1>3, <1>7, <1>8, <1>9, MdKeeps

\* What stays when neither Md nor the feed does anything.
LEMMA FeedStays ==
  ASSUME PageInv, UNCHANGED <<feedVars, recovering>>
  PROVE  /\ ExchangeOK' /\ BooksOK'
         /\ recovering' \in BOOLEAN /\ (recovering' => Ibm \in behind')
<1>1. books' = books /\ ladder' = ladder /\ behind' = behind /\ recovering' = recovering
  BY DEF feedVars, ladderVars
<1> QED
  BY <1>1 DEF PageInv, ExchangeOK, Levels, BooksOK

LEMMA RoutedKeeps ==
  ASSUME PageInv, Routed
  PROVE  PageInv'
<1>1. /\ fromPage # <<>> /\ fromPage' = Tail(fromPage) /\ UNCHANGED <<feedVars, recovering>>
      /\ page' = page /\ told' = told /\ recovering' = recovering
  BY DEF Routed
<1>2. /\ page \in Pages /\ CellsMatch(page.view) /\ toPage \in Seq(Messages) /\ Addressed
      /\ fromPage \in Seq(Topics \cup {"call"}) /\ CallLast /\ subscribed \subseteq Topics
      /\ Drained.phase = "up" => Levelled \subseteq subscribed
      /\ FlagTellsRecovery /\ recovering \in BOOLEAN
  BY DEF PageInv
<1>3. PICK n \in Nat : n = Len(fromPage)
  BY <1>2
<1>4. /\ n > 0 /\ DOMAIN fromPage = 1..n /\ Head(fromPage) = fromPage[1]
      /\ fromPage' \in Seq(Topics \cup {"call"}) /\ DOMAIN fromPage' = 1..(n - 1)
      /\ \A i \in 1..(n - 1) : fromPage'[i] = fromPage[i + 1]
  BY <1>1, <1>2, <1>3
<1>5. ASSUME subscribed \subseteq subscribed',
             fromPage[1] \in Levelled => fromPage[1] \in subscribed'
      PROVE  CallLast'
  <2> SUFFICES ASSUME NEW i \in 1..(n - 1), fromPage'[i] = "call", NEW t \in Levelled,
                      t \notin subscribed'
               PROVE  \E j \in 1..(n - 1) : j < i /\ fromPage'[j] = t
    BY <1>4 DEF CallLast
  <2>1. i + 1 \in 1..n /\ fromPage[i + 1] = "call"
    BY <1>4
  <2>2. PICK j \in 1..n : j < i + 1 /\ fromPage[j] = t
    <3>1. t \notin subscribed
      BY <1>5
    <3>2. CallLast /\ DOMAIN fromPage = 1..n
      BY <1>2, <1>4
    <3>3. t \in subscribed \/ \E j \in 1..n : j < i + 1 /\ fromPage[j] = t
      BY ONLY <2>1, <3>2, t \in Levelled DEF CallLast
    <3> QED
      BY ONLY <3>1, <3>3
  <2>3. j # 1
    BY <1>5, <2>2
  <2>4. j - 1 \in 1..(n - 1) /\ j - 1 < i /\ (j - 1) + 1 = j
    BY <1>3, <2>2, <2>3
  <2>5. fromPage'[j - 1] = t
    BY <1>4, <2>2, <2>4
  <2> QED
    BY <2>4, <2>5
<1>6. CASE /\ Head(fromPage) \in Topics
           /\ subscribed' = subscribed \cup {Head(fromPage)}
           /\ UNCHANGED <<toPage, early>>
  <2>1. subscribed' \subseteq Topics /\ subscribed \subseteq subscribed' /\ fromPage[1] \in subscribed'
    BY <1>2, <1>4, <1>6
  <2>2. CallLast'
    BY <1>5, <2>1
  <2>3. Drained' = Drained
    BY <1>1, <1>6 DEF Drained
  <2>4. toPage' \in Seq(Messages) /\ Addressed' /\ FlagTellsRecovery'
    BY <1>1, <1>2, <1>6, <2>1, <2>3 DEF Addressed, FlagTellsRecovery
  <2>5. Drained'.phase = "up" => Levelled \subseteq subscribed'
    BY <1>2, <2>1, <2>3
  <2> QED
    BY <1>1, <1>2, <1>4, <2>1, <2>2, <2>4, <2>5, FeedStays DEF PageInv
<1>7. CASE /\ Head(fromPage) = "call" /\ toPage' = LevelsProc
           /\ early' = (recovering \/ ~HasBook) /\ UNCHANGED subscribed
  <2>1. fromPage[1] = "call" /\ subscribed' = subscribed
    BY <1>4, <1>7
  <2>2. Levelled \subseteq subscribed
    <3>1. 1 \in DOMAIN fromPage /\ \A j \in DOMAIN fromPage : ~(j < 1)
      BY <1>3, <1>4
    <3> QED
      BY <1>2, <2>1, <3>1 DEF CallLast
  <2>3. CallLast'
    <3>1. "call" \notin Levelled
      BY DEF Levelled
    <3> QED
      BY <1>5, <2>1, <3>1
  <2>4. PICK m : m = IF recovering \/ ~HasBook THEN [type |-> "empty"]
                     ELSE [type |-> "result", levels |-> books[Ibm].array]
    OBVIOUS
  <2>5. toPage' = Append(toPage, m)
    BY <1>7, <2>4 DEF LevelsProc
  <2>6. m \in Messages /\ m.type \in {"empty", "result"} /\ (m.type = "result" => ~recovering)
    <3>1. books[Ibm].array \in Shots
      BY ShowsQuotes DEF PageInv, BooksOK
    <3>2. CASE recovering \/ ~HasBook
      <4>1. m = [type |-> "empty"]
        BY <2>4, <3>2
      <4> QED
        BY <4>1 DEF Messages
    <3>3. CASE ~(recovering \/ ~HasBook)
      <4>1. m = [type |-> "result", levels |-> books[Ibm].array]
        BY <2>4, <3>3
      <4>2. m \in [type : {"result"}, levels : Shots]
        BY <3>1, <4>1
      <4> QED
        BY <3>3, <4>1, <4>2 DEF Messages
    <3> QED
      BY <3>2, <3>3
  <2>7. Queued(m)
    BY <1>1, <1>2, <2>1, <2>5, <2>6, AppendQueues
  <2>8. FlagTellsRecovery'
    <3>1. CASE m.type = "result"
      BY <1>1, <2>6, <2>7, <3>1 DEF Queued, Moved, FlagTellsRecovery
    <3>2. CASE m.type = "empty"
      BY <2>7, <3>2 DEF Queued, Moved, FlagTellsRecovery
    <3> QED
      BY <2>6, <3>1, <3>2
  <2> QED
    BY <1>1, <1>2, <1>4, <2>1, <2>2, <2>3, <2>7, <2>8, FeedStays DEF PageInv, Queued
<1> QED
  BY <1>6, <1>7 DEF Routed

LEMMA LoadKeeps ==
  ASSUME PageInv, Load
  PROVE  PageInv'
<1>1. /\ page' = [phase |-> "loading", view |-> EmptyView]
      /\ fromPage' = Requests /\ toPage' = <<>> /\ subscribed' = {}
      /\ UNCHANGED <<feedVars, recovering>>
  BY DEF Load
<1>2. page' \in Pages /\ page'.phase = "loading" /\ CellsMatch(page'.view)
  BY <1>1, EmptyViewIs DEF Pages, Phases
<1>3. toPage' \in Seq(Messages) /\ Addressed'
  BY <1>1 DEF Addressed
<1>4. Drained' = page'
  <2>1. Drained' = Received(page', toPage')
    BY DEF Drained, Received
  <2>2. PICK pg : pg = page'
    OBVIOUS
  <2> QED
    BY <1>1, <1>2, <2>1, <2>2, ReceivedNone
<1>5. Requests \in Seq(Topics \cup {"call"})
  BY DEF Requests, Topics
<1>6. CallLast'
  <2>1. /\ DOMAIN Requests = 1..5
        /\ Requests[1] = "cancel" /\ Requests[2] = "submit" /\ Requests[3] = "trade"
        /\ Requests[4] = "snapshot" /\ Requests[5] = "call"
    BY DEF Requests
  <2>2. \A i \in 1..5 : Requests[i] = "call" => i = 5
    BY <2>1
  <2>3. \A t \in Levelled : \E j \in 1..5 : j < 5 /\ Requests[j] = t
    BY <2>1 DEF Levelled
  <2> QED
    BY <1>1, <2>1, <2>2, <2>3 DEF CallLast
<1>7. FlagTellsRecovery' /\ (Drained'.phase = "up" => Levelled \subseteq subscribed')
  BY <1>2, <1>4 DEF FlagTellsRecovery
<1>8. subscribed' \subseteq Topics
  BY <1>1
<1> QED
  BY <1>1, <1>2, <1>3, <1>5, <1>6, <1>7, <1>8, FeedStays DEF PageInv

LEMMA ReceivesSame ==
  ASSUME PageInv, PageReceives
  PROVE  /\ Drained' = Drained /\ toPage' \in Seq(Messages) /\ Addressed'
         /\ page' \in Pages /\ CellsMatch(page'.view)
<1>1. /\ toPage # <<>> /\ toPage' = Tail(toPage) /\ page' = After(page, Head(toPage))
      /\ subscribed' = subscribed
  BY DEF PageReceives
<1>2. page \in Pages /\ toPage \in Seq(Messages) /\ Addressed /\ CellsMatch(page.view)
  BY DEF PageInv
<1>3. PICK pg, queue, m : pg = page /\ queue = toPage /\ m = Head(queue)
  OBVIOUS
<1>4. /\ m \in Messages /\ After(pg, m) \in Pages /\ Tail(queue) \in Seq(Messages)
      /\ Received(After(pg, m), Tail(queue)) = Received(pg, queue)
  BY <1>1, <1>2, <1>3, ReceivedHead
<1>5. CellsMatch(After(pg, m).view)
  BY <1>2, <1>3, <1>4, AfterIs
<1>6. Drained' = Drained
  BY <1>1, <1>3, <1>4 DEF Drained, Received
<1>7. Addressed'
  <2>1. DOMAIN Tail(queue) = 1..(Len(queue) - 1) /\ DOMAIN queue = 1..Len(queue) /\ Len(queue) \in Nat
        /\ \A i \in 1..(Len(queue) - 1) : Tail(queue)[i] = queue[i + 1]
    BY <1>1, <1>2, <1>3
  <2>2. \A i \in 1..(Len(queue) - 1) : i + 1 \in 1..Len(queue)
    BY <2>1
  <2> QED
    BY <1>1, <1>2, <1>3, <2>1, <2>2 DEF Addressed
<1> QED
  BY <1>1, <1>3, <1>4, <1>5, <1>6, <1>7

LEMMA PageReceivesKeeps ==
  ASSUME PageInv, PageReceives
  PROVE  PageInv'
<1>1. /\ UNCHANGED <<feedVars, recovering>> /\ subscribed' = subscribed /\ told' = told
      /\ recovering' = recovering
      /\ fromPage' = fromPage \/ fromPage' = Append(fromPage, "recover")
  BY DEF PageReceives
<1>2. /\ Drained' = Drained /\ toPage' \in Seq(Messages) /\ Addressed'
      /\ page' \in Pages /\ CellsMatch(page'.view)
  BY ReceivesSame
<1>3. fromPage' \in Seq(Topics \cup {"call"}) /\ CallLast'
  <2>1. fromPage \in Seq(Topics \cup {"call"}) /\ CallLast
    BY DEF PageInv
  <2>2. CASE fromPage' = fromPage
    BY <1>1, <2>1, <2>2 DEF CallLast
  <2>3. CASE fromPage' = Append(fromPage, "recover")
    <3>1. PICK n \in Nat : n = Len(fromPage)
      BY <2>1
    <3>2. /\ fromPage' \in Seq(Topics \cup {"call"}) /\ DOMAIN fromPage = 1..n
          /\ DOMAIN fromPage' = 1..(n + 1) /\ fromPage'[n + 1] = "recover"
          /\ \A i \in 1..n : fromPage'[i] = fromPage[i]
      BY <2>1, <2>3, <3>1 DEF Topics
    <3>3. \A i \in 1..(n + 1) : fromPage'[i] = "call" => i \in 1..n
      <4>1. "recover" # "call"
        OBVIOUS
      <4> QED
        BY <3>1, <3>2, <4>1
    <3> QED
      BY <1>1, <2>1, <3>2, <3>3 DEF CallLast
  <2> QED
    BY <1>1, <2>2, <2>3
<1>4. FlagTellsRecovery' /\ (Drained'.phase = "up" => Levelled \subseteq subscribed')
  BY <1>1, <1>2 DEF PageInv, FlagTellsRecovery
<1> QED
  BY <1>1, <1>2, <1>3, <1>4, FeedStays DEF PageInv

LEMMA PageInitKeeps ==
  PageInit => PageInv
<1> SUFFICES ASSUME PageInit
             PROVE  PageInv
  OBVIOUS
<1>1. /\ FeedInit /\ recovering = FALSE /\ subscribed = {} /\ fromPage = <<>> /\ toPage = <<>>
      /\ page = [phase |-> "closed", view |-> EmptyView]
  BY DEF PageInit
<1>2. IInv
  BY <1>1, InitKeeps
<1>3. Ibm \in Symbols /\ books = [s \in Symbols |-> LB!NewBook]
  BY <1>1, PageParameters DEF FeedInit
<1>4. Priced(LB!NewBook)
  BY DEF Priced, LB!NewBook, LB!EmptyArray, LB!EmptyLevel, LB!Sides, Sides, Places
<1>5. ExchangeOK /\ BooksOK
  BY <1>2, <1>3, <1>4 DEF IInv, BooksOK
<1>6. page \in Pages /\ page.phase = "closed" /\ CellsMatch(page.view)
  BY <1>1, EmptyViewIs DEF Pages, Phases
<1>7. Drained = page
  BY <1>1, <1>6, ReceivedNone DEF Drained, Received
<1>8. toPage \in Seq(Messages) /\ Addressed /\ fromPage \in Seq(Topics \cup {"call"}) /\ CallLast
  BY <1>1 DEF Addressed, CallLast
<1>9. FlagTellsRecovery /\ (Drained.phase = "up" => Levelled \subseteq subscribed)
  BY <1>6, <1>7 DEF FlagTellsRecovery
<1> QED
  BY <1>1, <1>5, <1>6, <1>8, <1>9 DEF PageInv

LEMMA PageNextKeeps ==
  PageInv /\ [PageNext]_pageVars => PageInv'
<1> SUFFICES ASSUME PageInv, [PageNext]_pageVars
             PROVE  PageInv'
  OBVIOUS
<1>1. CASE UNCHANGED pageVars
  <2>1. /\ ladder' = ladder /\ books' = books /\ behind' = behind /\ recovering' = recovering
        /\ subscribed' = subscribed /\ toPage' = toPage /\ page' = page /\ fromPage' = fromPage
        /\ told' = told
    BY <1>1 DEF pageVars, feedVars, ladderVars, browser
  <2>2. Drained' = Drained
    BY <2>1 DEF Drained
  <2> QED
    BY <2>1, <2>2 DEF PageInv, ExchangeOK, Levels, BooksOK, CallLast, Addressed, FlagTellsRecovery
<1>2. CASE MdApplies
  BY <1>2, MdAppliesKeeps
<1>3. CASE MdMisses
  BY <1>3, MdMissesKeeps
<1>4. CASE MdRecovers
  BY <1>4, MdRecoversKeeps
<1>5. CASE MdRecovered
  BY <1>5, MdRecoveredKeeps
<1>6. ASSUME NEW m \in ForeignMessages, Foreign(m)
      PROVE  PageInv'
  BY <1>6, ForeignKeeps
<1>7. CASE Routed
  BY <1>7, RoutedKeeps
<1>8. CASE Load
  BY <1>8, LoadKeeps
<1>9. CASE PageReceives
  BY <1>9, PageReceivesKeeps
<1> QED
  BY <1>1, <1>2, <1>3, <1>4, <1>5, <1>6, <1>7, <1>8, <1>9 DEF PageNext

LEMMA PageHolds ==
  PageSpec => []PageInv
<1>1. PageInit => PageInv
  BY PageInitKeeps
<1>2. PageInv /\ [PageNext]_pageVars => PageInv'
  BY PageNextKeeps
<1> QED
  BY <1>1, <1>2, PTL DEF PageSpec

-----------------------------------------------------------------------------
(* What a user sees.                                                        *)

\* The page keeps no level of quantity 0, whatever reaches it in which order,
\* and no price but limit prices and the one of an undefined read in Md
\* (update_lvl, initialize).
THEOREM PageTyped ==
  PageSpec => []TypeOK
<1>1. PageInv => TypeOK
  <2> SUFFICES ASSUME PageInv
               PROVE  TypeOK
    OBVIOUS
  <2>1. /\ recovering \in BOOLEAN /\ (recovering => Ibm \in behind) /\ subscribed \subseteq Topics
        /\ fromPage \in Seq(Topics \cup {"call"}) /\ toPage \in Seq(Messages) /\ Addressed
        /\ page \in Pages
    BY DEF PageInv
  <2>2. \A i \in DOMAIN fromPage : fromPage[i] \in Topics \cup {"call"}
    BY <2>1
  <2>3. page.phase \in Phases /\ page.view \in Views
    BY <2>1 DEF Pages
  <2>4. ASSUME NEW side \in Sides
        PROVE  /\ DOMAIN page.view.index[side] \subseteq Quoted
               /\ \A p \in DOMAIN page.view.index[side] : page.view.index[side][p] # 0
               /\ DOMAIN page.view.cells[side] = Rows
    <3>1. PICK f : f = page.view.index[side]
      OBVIOUS
    <3>2. f \in Indexes /\ page.view.cells[side] \in [Rows -> Int]
      BY <2>3, <3>1 DEF Views, Tableaus
    <3>3. DOMAIN f \subseteq Quoted /\ \A p \in DOMAIN f : f[p] # 0
      BY <3>2, InIndexes
    <3> QED
      BY <3>1, <3>2, <3>3
  <2> QED
    BY <2>1, <2>2, <2>3, <2>4 DEF TypeOK, Addressed, Phases, Quoted
<1> QED
  BY <1>1, PageHolds, PTL

\* The table that is patched cell by cell shows each level in the row of its
\* price and nothing else, until a price above its top is drawn.
THEOREM TableIsTrue ==
  PageSpec => []TableShowsLevels
<1>1. PageInv => TableShowsLevels
  <2> SUFFICES ASSUME PageInv, ~page.view.smudged, NEW side \in Sides, NEW r \in Rows
               PROVE  page.view.cells[side][r] = Kept(page.view.index[side], page.view.max - r)
    BY DEF TableShowsLevels
  <2>1. InRows(page.view.index, page.view.max, page.view.cells)
    BY DEF PageInv, CellsMatch
  <2> QED
    BY <2>1 DEF InRows
<1> QED
  BY <1>1, PageHolds, PTL

\* "recovering..." is on exactly while Md recovers, once what is under way has
\* arrived, if the page was there to be told.
THEOREM FlagIsTrue ==
  PageSpec => []FlagTellsRecovery
<1>1. PageInv => FlagTellsRecovery
  BY DEF PageInv
<1> QED
  BY <1>1, PageHolds, PTL

-----------------------------------------------------------------------------
(* What a book shows and what the page keeps.                               *)

\* What a book shows at a price of a side.
Seen(b, side, p) == Kept(Listed(b.array[side]), p)

\* It shows the level that comes first, the others have nothing.
LEMMA SeenFirst ==
  ASSUME NEW side \in Sides, NEW A, NEW O, WellKept(side, A, O), NEW p, NEW k,
         k = Kept(Listed(A), p)
  PROVE  /\ Quotes(A) /\ k \in Nat
         /\ \A i \in Places : A[i].price = p /\ (\A j \in Places : j < i => A[j].price # p)
                                => k = A[i].qty
         /\ (\A i \in Places : A[i].price # p) => k = 0
<1>1. Typed(side, A, O) /\ OnceEach(A, O)
  BY DEF WellKept
<1>2. /\ A \in [Places -> [qty : Nat, price : Prices \cup {LB!Worst(side)}]]
      /\ \A i \in Places : A[i].price = LB!Worst(side) => A[i].qty = 0
  BY <1>1 DEF Typed
<1>3. Prices \cup {LB!Worst(side)} \subseteq Int /\ Prices \subseteq Quoted
  BY Parameters, PageParameters
<1>4. \A i \in Places : A[i] \in Level
  BY <1>2, <1>3 DEF Level
<1>5. A \in [Places -> Level]
  BY <1>2, <1>4
<1>6. \A i \in Places : A[i].qty # 0 => A[i].price \in Quoted
  BY <1>2, <1>3
<1>7. Quotes(A)
  BY <1>5, <1>6 DEF Quotes
<1>8. /\ k \in Nat
      /\ k # 0 => \E i \in Places : A[i].price = p /\ k = A[i].qty
      /\ \A i \in Places : A[i].price = p /\ A[i].qty # 0 => k # 0
  BY <1>7, ListedIs
<1>9. ASSUME NEW i \in Places, A[i].price = p, \A j \in Places : j < i => A[j].price # p
      PROVE  k = A[i].qty
  <2>1. CASE k = 0
    BY <1>8, <1>9, <2>1
  <2>2. CASE k # 0
    <3>1. PICK j \in Places : A[j].price = p /\ k = A[j].qty
      BY <1>8, <2>2
    <3>2. ~(j < i)
      BY <1>9, <3>1
    <3>3. ~(i < j)
      BY <1>1, <1>9, <2>2, <3>1 DEF OnceEach
    <3>4. i \in Int /\ j \in Int
      BY Parameters DEF Places
    <3>5. i = j
      BY <3>2, <3>3, <3>4
    <3> QED
      BY <3>1, <3>5
  <2> QED
    BY <2>1, <2>2
<1>10. ASSUME \A i \in Places : A[i].price # p
       PROVE  k = 0
  BY <1>8, <1>10
<1> QED
  BY <1>7, <1>8, <1>9, <1>10

\* It is what the book has there, or nothing while that is behind the array.
LEMMA SeenIsHad ==
  ASSUME NEW side \in Sides, NEW A, NEW O, WellKept(side, A, O), NEW p, NEW n, Has(A, O, p, n)
  PROVE  Kept(Listed(A), p) \in {0, n}
<1>1. PICK k : k = Kept(Listed(A), p)
  OBVIOUS
<1>2. /\ \A i \in Places : A[i].price = p /\ (\A j \in Places : j < i => A[j].price # p)
                             => k = A[i].qty
      /\ (\A i \in Places : A[i].price # p) => k = 0
  BY <1>1, SeenFirst
<1> QED
  BY <1>1, <1>2 DEF Has

LEMMA SeenInPlace ==
  ASSUME NEW side \in Sides, NEW A, NEW B, NEW O, WellKept(side, A, O), WellKept(side, B, O),
         NEW at \in Places, NEW n, PlaceSet(A, at, n, B), NEW price, A[at].price = price,
         \A j \in Places : j < at => A[j].price # price
  PROVE  /\ Kept(Listed(A), price) = A[at].qty /\ Kept(Listed(B), price) = n
         /\ \A p : p # price => Kept(Listed(B), p) = Kept(Listed(A), p)
<1>1. \A i \in Places : B[i].price = A[i].price
  BY DEF PlaceSet
<1>2. Kept(Listed(A), price) = A[at].qty
  <2>1. PICK k : k = Kept(Listed(A), price)
    OBVIOUS
  <2> QED
    BY <2>1, SeenFirst
<1>3. Kept(Listed(B), price) = n
  <2>1. PICK k : k = Kept(Listed(B), price)
    OBVIOUS
  <2>2. k = B[at].qty
    BY <1>1, <2>1, SeenFirst
  <2> QED
    BY <2>1, <2>2 DEF PlaceSet
<1>4. ASSUME NEW p, p # price
      PROVE  Kept(Listed(B), p) = Kept(Listed(A), p)
  <2>1. PICK k, m : k = Kept(Listed(A), p) /\ m = Kept(Listed(B), p)
    OBVIOUS
  <2>2. /\ \A i \in Places : A[i].price = p /\ (\A j \in Places : j < i => A[j].price # p)
                               => k = A[i].qty
        /\ (\A i \in Places : A[i].price # p) => k = 0
    BY <2>1, SeenFirst
  <2>3. /\ \A i \in Places : B[i].price = p /\ (\A j \in Places : j < i => B[j].price # p)
                               => m = B[i].qty
        /\ (\A i \in Places : B[i].price # p) => m = 0
    BY <2>1, SeenFirst
  <2>4. CASE \A i \in Places : A[i].price # p
    BY <1>1, <2>1, <2>2, <2>3, <2>4
  <2>5. ASSUME NEW l \in Places, A[l].price = p
        PROVE  k = m
    <3>1. PICK i \in Places : A[i].price = p /\ \A j \in Places : j < i => A[j].price # p
      BY <2>5, FirstPlace
    <3>2. k = A[i].qty /\ m = B[i].qty
      BY <1>1, <2>2, <2>3, <3>1
    <3>3. i # at
      BY <1>4, <3>1
    <3> QED
      BY <3>2, <3>3 DEF PlaceSet
  <2> QED
    BY <2>1, <2>4, <2>5
<1> QED
  BY <1>2, <1>3, <1>4

\* Nothing but what is shown at one price of a side changes, by delta.
SeenShift(b, c, side, price, delta) ==
  \A t \in Sides, p \in Prices :
    Seen(c, t, p) = IF t = side /\ p = price THEN Seen(b, t, p) + delta ELSE Seen(b, t, p)

\* What a followed book publishes about a datagram it takes for the right side.
Tidings(b, c, type, side, price, qty) ==
  \/ c.event = "none" /\ c.array = b.array
  \/ c.event = "levels"
  \/ /\ c.event = "submit" /\ type = "submit"
     /\ SeenShift(b, c, side, price, qty) /\ Seen(c, side, price) > 0
  \/ /\ c.event = type /\ type \in {"trade", "cancel"}
     /\ SeenShift(b, c, side, price, -qty)
     /\ Seen(b, side, price) > 0 /\ Seen(c, side, price) > 0
     /\ \A t \in Sides : t # side => Seen(b, t, price) = 0

LEMMA OneSideShifts ==
  ASSUME NEW b, NEW c, NEW side \in Sides, OneSide(b, c, side), NEW at \in Places,
         WellKept(side, b.array[side], b.outer[side]),
         WellKept(side, c.array[side], b.outer[side]),
         NEW n \in Int, PlaceSet(b.array[side], at, n, c.array[side]),
         NEW price, b.array[side][at].price = price,
         \A j \in Places : j < at => b.array[side][j].price # price,
         NEW delta \in Int, n = b.array[side][at].qty + delta
  PROVE  /\ SeenShift(b, c, side, price, delta)
         /\ Seen(b, side, price) = b.array[side][at].qty /\ Seen(c, side, price) = n
<1>1. PICK A, B, O : A = b.array[side] /\ B = c.array[side] /\ O = b.outer[side]
  OBVIOUS
<1>2. /\ Kept(Listed(A), price) = A[at].qty /\ Kept(Listed(B), price) = n
      /\ \A p : p # price => Kept(Listed(B), p) = Kept(Listed(A), p)
  <2>1. /\ WellKept(side, A, O) /\ WellKept(side, B, O) /\ PlaceSet(A, at, n, B)
        /\ A[at].price = price /\ \A j \in Places : j < at => A[j].price # price
    BY <1>1
  <2> QED
    BY ONLY <2>1, side \in Sides, at \in Places, SeenInPlace
<1>3. \A t \in Sides : t # side => c.array[t] = b.array[t]
  BY DEF OneSide
<1> QED
  BY <1>1, <1>2, <1>3 DEF SeenShift, Seen

LEMMA TidingsAreTrue ==
  ASSUME ExchangeOK, FitsWord, FitsWord', NEW s \in Symbols, NEW side \in Sides,
         NEW qty \in Nat \ {0}, NEW price \in Prices, Change(s, side, qty, price),
         NEW b, Keeps(b, ladder[s]), NEW junk \in LB!Junk, NEW c, c = LB!Apply(b, sent', junk),
         SideTaken(b, sent') = side
  PROVE  Tidings(b, c, sent'.type, side, price, qty)
<1>1. PICK table, next, type : table = ladder[s] /\ next = ladder'[s] /\ type = sent'.type
  OBVIOUS
<1>2. table \in Tables /\ Keeps(b, table)
  BY <1>1 DEF ExchangeOK
<1>3. type \in {"submit", "trade", "cancel"} /\ sent'.price = price /\ sent'.qty = qty
  BY <1>1 DEF Change
<1>4. /\ type = "submit" => c = LB!AddQty(b, side, price, qty)
      /\ type # "submit" => c = LB!RemoveQty(b, side, price, qty, type, junk)
  BY <1>1, <1>3, ApplyIs
<1>5. PICK A, B, O, n : /\ A = b.array[side] /\ B = c.array[side] /\ O = b.outer[side]
                        /\ n = table[side][price]
  OBVIOUS
<1>6. /\ b \in Book /\ O \in Maps /\ WellKept(side, A, O) /\ Has(A, O, price, n)
      /\ n \in Nat /\ n < WordMod /\ WordMod \in Nat \ {0}
      /\ price \in Int /\ qty \in Nat
  BY <1>1, <1>2, <1>5, Parameters DEF Keeps, KeepsSide, FitsWord, Tables, Book
<1>7. ASSUME NEW at \in Places, A[at].price = price,
             \A j \in Places : j < at => A[j].price # price,
             NEW m \in Nat, NEW delta \in Int, m = n + delta, PlaceSet(A, at, m, B),
             OneSide(b, c, side)
      PROVE  /\ A[at].qty = n /\ SeenShift(b, c, side, price, delta)
             /\ Seen(b, side, price) = n /\ Seen(c, side, price) = m
  <2>1. A[at].qty = n
    <3>1. Has(A, O, price, A[at].qty)
      BY <1>7 DEF Has
    <3> QED
      BY <1>6, <3>1, HasUnique
  <2>2. B \in [Places -> Level]
    BY <1>5, <1>7 DEF OneSide, Book
  <2>3. WellKept(side, B, O)
    BY <1>6, <1>7, <2>2, ChangedInPlace
  <2>4. /\ WellKept(side, b.array[side], b.outer[side])
        /\ WellKept(side, c.array[side], b.outer[side])
        /\ PlaceSet(b.array[side], at, m, c.array[side])
        /\ b.array[side][at].price = price
        /\ \A j \in Places : j < at => b.array[side][j].price # price
        /\ m \in Int /\ m = b.array[side][at].qty + delta
    BY <1>5, <1>6, <1>7, <2>1, <2>3
  <2>5. /\ SeenShift(b, c, side, price, delta)
        /\ Seen(b, side, price) = b.array[side][at].qty /\ Seen(c, side, price) = m
    BY ONLY <1>7, <2>4, side \in Sides, OneSideShifts
  <2> QED
    BY <1>5, <2>1, <2>5
<1>8. CASE type = "submit"
  <2>1. OneSide(b, c, side) /\ Added(side, price, qty, b, c)
    BY <1>4, <1>6, <1>8, AddQtyIs
  <2>2. n + qty < WordMod
    <3>1. next = [table EXCEPT ![side][price] = @ + qty]
      BY <1>1, <1>8 DEF Change
    <3>2. next[side][price] = n + qty
      BY <1>2, <1>5, <3>1 DEF Tables
    <3> QED
      BY <1>1, <3>2 DEF FitsWord
  <2>3. CASE B = A /\ c.event = "none"
    <3>1. \A t \in Sides : c.array[t] = b.array[t]
      BY <1>5, <2>1, <2>3 DEF OneSide
    <3>2. c.array = b.array
      <4>1. /\ c.array = [t \in Sides |-> c.array[t]] /\ b.array = [t \in Sides |-> b.array[t]]
        BY <1>6, <2>1 DEF OneSide, Book
      <4> QED
        BY <3>1, <4>1
    <3> QED
      BY <2>3, <3>2 DEF Tidings
  <2>4. CASE c.event = "levels"
    BY <2>4 DEF Tidings
  <2>5. ASSUME NEW at \in Places, Reached(side, A, price, at), A[at].price = price,
               PlaceSet(A, at, (A[at].qty + qty) % WordMod, B), c.event = "submit"
        PROVE  Tidings(b, c, type, side, price, qty)
    <3>1. \A j \in Places : j < at => A[j].price # price
      BY <1>6, <2>5 DEF Reached, Better
    <3>2. A[at].qty = n
      <4>1. Has(A, O, price, A[at].qty)
        BY <2>5, <3>1 DEF Has
      <4> QED
        BY <1>6, <4>1, HasUnique
    <3>3. PICK m \in Nat : m = n + qty
      BY <1>6
    <3>4. (A[at].qty + qty) % WordMod = m
      BY <1>6, <2>2, <3>2, <3>3
    <3>5. PlaceSet(A, at, m, B) /\ qty \in Int
      BY <2>5, <3>4
    <3>6. SeenShift(b, c, side, price, qty) /\ Seen(c, side, price) = m
      BY <1>7, <2>1, <2>5, <3>1, <3>3, <3>5
    <3>7. m > 0
      BY <1>6, <3>3
    <3> QED
      BY <1>8, <2>5, <3>6, <3>7 DEF Tidings
  <2> QED
    BY <1>1, <1>5, <2>1, <2>3, <2>4, <2>5 DEF Added
<1>9. CASE type \in {"trade", "cancel"}
  <2>1. type # "submit" /\ type \in Events
    BY <1>9 DEF Events
  <2>2. OneSide(b, c, side) /\ Removed(side, price, qty, type, b, c)
    BY <1>4, <1>6, <2>1, RemoveQtyIs
  <2>3. qty <= n
    BY <1>1, <1>5, <2>1 DEF Change
  <2>4. CASE B = A /\ c.event = "none"
    <3>1. \A t \in Sides : c.array[t] = b.array[t]
      BY <1>5, <2>2, <2>4 DEF OneSide
    <3>2. c.array = b.array
      <4>1. /\ c.array = [t \in Sides |-> c.array[t]] /\ b.array = [t \in Sides |-> b.array[t]]
        BY <1>6, <2>2 DEF OneSide, Book
      <4> QED
        BY <3>1, <4>1
    <3> QED
      BY <2>4, <3>2 DEF Tidings
  <2>5. CASE c.event = "levels"
    BY <2>5 DEF Tidings
  <2>6. ASSUME NEW at \in Places, A[at].price = price,
               \A j \in Places : j < at => A[j].price # price,
               (A[at].qty - qty) % WordMod # 0,
               PlaceSet(A, at, (A[at].qty - qty) % WordMod, B), c.event = type
        PROVE  Tidings(b, c, type, side, price, qty)
    <3>1. A[at].qty = n
      <4>1. Has(A, O, price, A[at].qty)
        BY <2>6 DEF Has
      <4> QED
        BY <1>6, <4>1, HasUnique
    <3>2. PICK m \in Nat : m = n - qty
      BY <1>6, <2>3
    <3>3. (A[at].qty - qty) % WordMod = m
      <4>1. m < WordMod
        BY <1>6, <3>2
      <4>2. A[at].qty - qty = m
        BY <3>1, <3>2
      <4> QED
        BY <1>6, <4>1, <4>2
    <3>4. m > 0
      BY <2>6, <3>2, <3>3
    <3>5. PICK delta \in Int : delta = -qty
      BY <1>6
    <3>6. PlaceSet(A, at, m, B) /\ m = n + delta
      BY <1>6, <2>6, <3>2, <3>3, <3>5
    <3>7. /\ SeenShift(b, c, side, price, delta)
          /\ Seen(b, side, price) = n /\ Seen(c, side, price) = m
      BY <1>7, <2>2, <2>6, <3>6
    <3>8. ASSUME NEW t \in Sides, t # side
          PROVE  Seen(b, t, price) = 0
      <4>1. table[t][price] = 0
        <5> SUFFICES ASSUME table[t][price] # 0
                     PROVE  FALSE
          OBVIOUS
        <5>1. table[t][price] > 0 /\ table[side][price] > 0
          BY <1>2, <1>5, <1>6, <2>3 DEF Tables
        <5>2. price \in Levels(s, t) /\ price \in Levels(s, side)
          BY <1>1, <5>1 DEF Levels
        <5>3. price \in Levels(s, "B") /\ price \in Levels(s, "S")
          BY <3>8, <5>2 DEF Sides
        <5>4. price < price
          BY <5>3 DEF ExchangeOK
        <5> QED
          BY <1>6, <5>4
      <4>2. /\ WellKept(t, b.array[t], b.outer[t])
            /\ Has(b.array[t], b.outer[t], price, table[t][price])
        BY <1>2 DEF Keeps, KeepsSide
      <4>3. Seen(b, t, price) \in {0, table[t][price]}
        BY <4>2, SeenIsHad DEF Seen
      <4> QED
        BY <4>1, <4>3
    <3>9. n > 0
      BY <1>6, <2>3
    <3> QED
      BY <1>9, <2>6, <3>4, <3>5, <3>7, <3>8, <3>9 DEF Tidings
  <2> QED
    BY <1>1, <1>5, <2>2, <2>4, <2>5, <2>6 DEF Removed
<1> QED
  BY <1>1, <1>3, <1>8, <1>9

\* The page keeps what the book shows; where its quantity was replaced, the
\* book at least shows some.
Agrees(v, b) ==
  \A side \in Sides, p \in Prices :
    IF <<side, p>> \in v.replaced THEN Seen(b, side, p) > 0
    ELSE Kept(v.index[side], p) = Seen(b, side, p)

LEMMA AgreesOnLevels ==
  ASSUME NEW v, v.replaced = {}, NEW b, \A side \in Sides : v.index[side] = Listed(b.array[side])
  PROVE  Agrees(v, b)
BY DEF Agrees, Seen

LEMMA AgreesOnSubmit ==
  ASSUME NEW v \in Views, NEW w \in Views, NEW b, NEW c, Agrees(v, b),
         NEW side \in Sides, NEW price \in Prices, NEW qty \in Nat \ {0},
         Submitted(v, w, side, price, qty), SeenShift(b, c, side, price, qty),
         Seen(c, side, price) > 0
  PROVE  Agrees(w, c)
<1> SUFFICES ASSUME NEW t \in Sides, NEW p \in Prices
             PROVE  IF <<t, p>> \in w.replaced THEN Seen(c, t, p) > 0
                    ELSE Kept(w.index[t], p) = Seen(c, t, p)
  BY DEF Agrees
<1>1. CASE t = side /\ p = price
  <2>1. CASE <<t, p>> \in w.replaced
    BY <1>1, <2>1
  <2>2. CASE <<t, p>> \notin w.replaced
    <3>1. w.replaced = v.replaced /\ Shifted(v, w, side, price, qty)
      BY <1>1, <2>2 DEF Submitted
    <3>2. Kept(v.index[t], p) = Seen(b, t, p)
      BY <2>2, <3>1 DEF Agrees
    <3>3. Kept(w.index[t], p) = Kept(v.index[t], p) + qty
      BY <1>1, <3>1 DEF Shifted
    <3>4. Seen(c, t, p) = Seen(b, t, p) + qty
      BY <1>1 DEF SeenShift
    <3> QED
      BY <2>2, <3>2, <3>3, <3>4
  <2> QED
    BY <2>1, <2>2
<1>2. CASE ~(t = side /\ p = price)
  <2>1. Seen(c, t, p) = Seen(b, t, p)
    BY <1>2 DEF SeenShift
  <2>2. Kept(w.index[t], p) = Kept(v.index[t], p)
    <3>1. CASE t # side
      BY <3>1 DEF Submitted, Shifted
    <3>2. CASE t = side /\ p # price
      <4>1. Kept(v.index[t], p) \in Int
        <5>1. v.index[t] \in Indexes
          BY DEF Views
        <5> QED
          BY <5>1, KeptIs
      <4> QED
        BY <3>2, <4>1 DEF Submitted, Shifted
    <3> QED
      BY <1>2, <3>1, <3>2
  <2>3. <<t, p>> \in w.replaced <=> <<t, p>> \in v.replaced
    BY <1>2 DEF Submitted
  <2> QED
    BY <2>1, <2>2, <2>3 DEF Agrees
<1> QED
  BY <1>1, <1>2

LEMMA AgreesOnTaken ==
  ASSUME NEW v \in Views, NEW w \in Views, NEW b, NEW c, Agrees(v, b),
         NEW side \in Sides, NEW price \in Prices, NEW qty \in Nat \ {0},
         Taken(v, w, price, qty), SeenShift(b, c, side, price, -qty),
         Seen(b, side, price) > 0, Seen(c, side, price) > 0,
         \A t \in Sides : t # side => Seen(b, t, price) = 0
  PROVE  Agrees(w, c)
<1>1. \A t \in Sides : /\ v.index[t] \in Indexes
                       /\ \A p : /\ Kept(v.index[t], p) \in Int
                                 /\ p \in DOMAIN v.index[t] <=> Kept(v.index[t], p) # 0
  <2>1. \A t \in Sides : v.index[t] \in Indexes
    BY DEF Views
  <2> QED
    BY <2>1, KeptIs
<1>2. w.replaced = v.replaced
  BY DEF Taken
<1>3. ASSUME NEW t \in Sides, t # side
      PROVE  price \notin DOMAIN v.index[t] /\ <<t, price>> \notin v.replaced
  <2>1. Seen(b, t, price) = 0
    BY <1>3
  <2>2. <<t, price>> \notin v.replaced
    BY <2>1 DEF Agrees
  <2>3. Kept(v.index[t], price) = 0
    BY <2>1, <2>2 DEF Agrees
  <2> QED
    BY <1>1, <2>2, <2>3
<1>4. \/ Shifted(v, w, side, price, -qty)
      \/ <<side, price>> \in v.replaced /\ w.index = v.index
  <2>1. ASSUME NEW t \in Sides, price \in DOMAIN v.index[t], Shifted(v, w, t, price, -qty)
        PROVE  Shifted(v, w, side, price, -qty)
    <3>1. t = side
      BY <1>3, <2>1
    <3> QED
      BY <2>1, <3>1
  <2>2. ASSUME price \notin DOMAIN v.index[side], w.index = v.index
        PROVE  <<side, price>> \in v.replaced
    <3>1. Kept(v.index[side], price) = 0
      BY <1>1, <2>2
    <3>2. Seen(b, side, price) # 0
      OBVIOUS
    <3> QED
      BY <3>1, <3>2 DEF Agrees
  <2> QED
    BY <2>1, <2>2 DEF Taken
<1> SUFFICES ASSUME NEW t \in Sides, NEW p \in Prices
             PROVE  IF <<t, p>> \in w.replaced THEN Seen(c, t, p) > 0
                    ELSE Kept(w.index[t], p) = Seen(c, t, p)
  BY DEF Agrees
<1>5. CASE t = side /\ p = price
  <2>1. CASE <<t, p>> \in w.replaced
    BY <1>5, <2>1
  <2>2. CASE <<t, p>> \notin w.replaced
    <3>1. Kept(w.index[t], p) = Kept(v.index[t], p) + (-qty)
      BY <1>2, <1>4, <1>5, <2>2 DEF Shifted
    <3>2. Kept(v.index[t], p) = Seen(b, t, p)
      BY <1>2, <2>2 DEF Agrees
    <3>3. Seen(c, t, p) = Seen(b, t, p) + (-qty)
      BY <1>5 DEF SeenShift
    <3> QED
      BY <2>2, <3>1, <3>2, <3>3
  <2> QED
    BY <2>1, <2>2
<1>6. CASE ~(t = side /\ p = price)
  <2>1. Seen(c, t, p) = Seen(b, t, p)
    BY <1>6 DEF SeenShift
  <2>2. Kept(w.index[t], p) = Kept(v.index[t], p)
    <3>1. Kept(v.index[t], p) \in Int
      BY <1>1
    <3>2. CASE t # side
      BY <1>4, <3>2 DEF Shifted
    <3>3. CASE t = side /\ p # price
      BY <1>4, <3>1, <3>3 DEF Shifted
    <3> QED
      BY <1>6, <3>2, <3>3
  <2> QED
    BY <1>2, <2>1, <2>2 DEF Agrees
<1> QED
  BY <1>5, <1>6

-----------------------------------------------------------------------------
(* The page follows Md.                                                     *)

\* Of a book that took nothing for the wrong side and is not stale.
Clean == Ibm \notin misrouted \cup stale

FollowInv ==
  Drained.phase = "up" /\ ~Drained.view.alien /\ Clean => Agrees(Drained.view, books[Ibm])

\* A message about the book reaches a page that is up.
LEMMA HeardOf ==
  ASSUME PageInv, NEW m, Published(m), m.type \in Levelled \cup {"recover"}, Drained'.phase = "up"
  PROVE  /\ Drained.phase = "up" /\ Drained.view \in Views /\ Drained'.view \in Views
         /\ m.type \in Levelled => Heard(Drained.view, Drained'.view, m)
         /\ m.type = "recover" => Heard(Drained.view, Drained'.view, m) \/ Drained' = Drained
<1>1. Drained \in Pages
  BY DrainedIs DEF PageInv
<1>2. CASE Queued(m)
  <2>1. Drained'.phase = Drained.phase /\ Drained' \in Pages
    BY <1>2 DEF Queued, Moved, Levelled, Topics
  <2>2. Heard(Drained.view, Drained'.view, m)
    BY <1>2, <2>1 DEF Queued, Moved, Levelled, Topics
  <2> QED
    BY <1>1, <2>1, <2>2 DEF Pages
<1>3. CASE m.type \notin subscribed /\ toPage' = toPage /\ Drained' = Drained
  <2>1. m.type \notin Levelled
    BY <1>3 DEF PageInv
  <2> QED
    BY <1>1, <1>3, <2>1 DEF Pages
<1> QED
  BY <1>2, <1>3 DEF Published

LEMMA MdAppliesFollows ==
  ASSUME PageInv, IInv, FitsWord, FitsWord', FollowInv, MdApplies
  PROVE  FollowInv'
<1> SUFFICES ASSUME Drained'.phase = "up", ~Drained'.view.alien, Clean'
             PROVE  Agrees(Drained'.view, books'[Ibm])
  BY DEF FollowInv
<1>0. Ibm \in Symbols /\ ExchangeOK /\ BooksOK
  BY PageParameters DEF PageInv
<1>1. /\ Deliver(Ibm) /\ page' = page /\ subscribed' = subscribed
      /\ PublishChange(books'[Ibm].event)
  BY DEF MdApplies, browser
<1>2. PICK side \in Sides, qty \in Nat \ {0}, price \in Prices : Change(Ibm, side, qty, price)
  BY <1>0, <1>1, AnnouncedIs DEF Deliver
<1>3. PICK junk \in LB!Junk : books' = [books EXCEPT ![Ibm] = LB!Apply(@, sent', junk)]
  BY <1>1 DEF Deliver
<1>4. PICK b, c : b = books[Ibm] /\ c = LB!Apply(b, sent', junk)
  OBVIOUS
<1>5. books'[Ibm] = c
  BY <1>0, <1>3, <1>4 DEF BooksOK
<1>6. TrueSide(Ibm) = side
  BY <1>0, <1>2, ChangedLevel
<1>7. Clean /\ Ibm \in Followed /\ SideTaken(b, sent') = side
  BY <1>0, <1>1, <1>4, <1>6 DEF Deliver, Clean, Followed
<1>8. Keeps(b, ladder[Ibm])
  BY <1>4, <1>7 DEF IInv
<1>9. Tidings(b, c, sent'.type, side, price, qty)
  BY <1>0, <1>2, <1>4, <1>7, <1>8, TidingsAreTrue
<1>10. sent'.price = price /\ sent'.qty = qty /\ (sent'.type = "submit" => sent'.side = side)
  BY <1>2 DEF Change
<1>11. page \in Pages /\ toPage \in Seq(Messages) /\ Addressed
  BY DEF PageInv
<1>12. CASE c.event = "none"
  <2>1. toPage' = toPage
    BY <1>1, <1>5, <1>12 DEF PublishChange
  <2>2. Drained' = Drained
    BY <1>1, <2>1 DEF Drained
  <2>3. Agrees(Drained.view, b)
    BY <1>4, <1>7, <2>2 DEF FollowInv
  <2>4. c.array = b.array
    <3>1. sent'.type # "none"
      BY <1>2 DEF Change
    <3> QED
      BY <1>9, <1>12, <3>1 DEF Tidings
  <2> QED
    BY <1>5, <2>2, <2>3, <2>4 DEF Agrees, Seen
<1>13. CASE c.event # "none"
  <2>1. PICK m : m = Said
    OBVIOUS
  <2>2. /\ m \in Messages /\ m.own = TRUE /\ m.type \in Levelled
        /\ IF c.event = "levels" THEN m.type = "snapshot" /\ m.levels = c.array
           ELSE /\ m.type = sent'.type /\ c.event = sent'.type
                /\ m.side = sent'.side /\ m.price = sent'.price /\ m.qty = sent'.qty
    BY <1>0, <1>1, <1>5, <1>13, <2>1, DeliverSays DEF Levelled
  <2>3. c.event \in Events
    <3>1. BooksOK'
      BY <1>0, <1>1, DeliverSays
    <3> QED
      BY <1>0, <1>5, <3>1 DEF BooksOK, Book
  <2>4. Publish(m)
    BY <1>1, <1>5, <1>13, <2>1, <2>3 DEF PublishChange, Said, Events
  <2>5. Published(m)
    BY <1>1, <1>11, <2>2, <2>4, PublishIs
  <2>6. PICK v, w : v = Drained.view /\ w = Drained'.view
    OBVIOUS
  <2>7. Drained.phase = "up" /\ v \in Views /\ w \in Views /\ Heard(v, w, m)
    BY <2>2, <2>5, <2>6, HeardOf
  <2>8. CASE c.event = "levels"
    <3>1. w.replaced = {} /\ \A t \in Sides : w.index[t] = Listed(c.array[t])
      BY <2>2, <2>7, <2>8 DEF Heard
    <3> QED
      BY <1>5, <2>6, <3>1, AgreesOnLevels
  <2>9. CASE c.event # "levels"
    <3>1. m.type = sent'.type /\ m.type \in {"submit", "trade", "cancel"}
      BY <1>2, <2>2, <2>9 DEF Change
    <3>2. w.alien <=> (v.alien \/ ~m.own)
      BY <2>7, <3>1 DEF Heard
    <3>3. ~v.alien
      BY <2>6, <3>2
    <3>4. Agrees(v, b)
      BY <1>4, <1>7, <2>6, <2>7, <3>3 DEF FollowInv
    <3>5. CASE m.type = "submit"
      <4>1. Submitted(v, w, side, price, qty)
        BY <1>10, <2>2, <2>7, <2>9, <3>1, <3>5 DEF Heard
      <4>2. SeenShift(b, c, side, price, qty) /\ Seen(c, side, price) > 0
        BY <1>9, <1>13, <2>9, <3>1, <3>5 DEF Tidings
      <4>3. Agrees(w, c)
        BY <2>7, <3>4, <4>1, <4>2, AgreesOnSubmit
      <4> QED
        BY <1>5, <2>6, <4>3
    <3>6. CASE m.type \in {"trade", "cancel"}
      <4>1. Taken(v, w, price, qty)
        BY <1>10, <2>2, <2>7, <2>9, <3>1, <3>6 DEF Heard
      <4>2. /\ SeenShift(b, c, side, price, -qty)
            /\ Seen(b, side, price) > 0 /\ Seen(c, side, price) > 0
            /\ \A t \in Sides : t # side => Seen(b, t, price) = 0
        BY <1>9, <1>13, <2>9, <3>1, <3>6 DEF Tidings
      <4>3. Agrees(w, c)
        BY <2>7, <3>4, <4>1, <4>2, AgreesOnTaken
      <4> QED
        BY <1>5, <2>6, <4>3
    <3> QED
      BY <3>1, <3>5, <3>6
  <2> QED
    BY <2>8, <2>9
<1> QED
  BY <1>12, <1>13

LEMMA MdRecoversFollows ==
  ASSUME PageInv, FollowInv, MdRecovers
  PROVE  FollowInv'
<1> SUFFICES ASSUME Drained'.phase = "up", ~Drained'.view.alien, Clean'
             PROVE  Agrees(Drained'.view, books'[Ibm])
  BY DEF FollowInv
<1>1. /\ Miss(Ibm) /\ page' = page /\ subscribed' = subscribed /\ Publish([type |-> "recover"])
  BY DEF MdRecovers, browser
<1>2. books' = books /\ misrouted' = misrouted /\ stale' = stale
  BY <1>1 DEF Miss
<1>3. PICK m : m = [type |-> "recover"]
  OBVIOUS
<1>4. m \in Messages /\ m.type = "recover"
  BY <1>3 DEF Messages
<1>5. page \in Pages /\ toPage \in Seq(Messages) /\ Addressed
  BY DEF PageInv
<1>6. Published(m)
  BY <1>1, <1>3, <1>4, <1>5, PublishIs
<1>7. PICK v, w : v = Drained.view /\ w = Drained'.view
  OBVIOUS
<1>8. Drained.phase = "up" /\ (Heard(v, w, m) \/ Drained' = Drained)
  BY <1>4, <1>6, <1>7, HeardOf
<1>9. w.index = v.index /\ w.replaced = v.replaced /\ w.alien = v.alien
  BY <1>4, <1>7, <1>8 DEF Heard
<1>10. Agrees(v, books[Ibm])
  BY <1>2, <1>7, <1>8, <1>9 DEF FollowInv, Clean
<1> QED
  BY <1>2, <1>7, <1>9, <1>10 DEF Agrees

LEMMA MdRecoveredFollows ==
  ASSUME PageInv, MdRecovered
  PROVE  FollowInv'
<1> SUFFICES ASSUME Drained'.phase = "up"
             PROVE  Agrees(Drained'.view, books'[Ibm])
  BY DEF FollowInv
<1>1. /\ Resync(Ibm) /\ page' = page /\ subscribed' = subscribed
      /\ Publish(Snapshotted(TRUE, books'[Ibm].array))
  BY DEF MdRecovered, browser
<1>2. books'[Ibm].array \in Shots
  BY <1>1, ResyncTyped DEF PageInv
<1>3. PICK m, arrays : arrays = books'[Ibm].array /\ m = Snapshotted(TRUE, arrays)
  OBVIOUS
<1>4. m \in Messages /\ m.type = "snapshot" /\ m.levels = arrays /\ m.type \in Levelled
  <2>1. m \in Messages
    BY <1>2, <1>3, SnapshottedIs
  <2>2. m.type = "snapshot" /\ m.levels = arrays
    BY <1>3 DEF Snapshotted
  <2> QED
    BY <2>1, <2>2 DEF Levelled
<1>5. page \in Pages /\ toPage \in Seq(Messages) /\ Addressed
  BY DEF PageInv
<1>6. Published(m)
  BY <1>1, <1>3, <1>4, <1>5, PublishIs
<1>7. PICK v, w : v = Drained.view /\ w = Drained'.view
  OBVIOUS
<1>8. Heard(v, w, m)
  BY <1>4, <1>6, <1>7, HeardOf
<1>9. w.replaced = {} /\ \A t \in Sides : w.index[t] = Listed(arrays[t])
  BY <1>4, <1>8 DEF Heard
<1>10. PICK c : c = books'[Ibm]
  OBVIOUS
<1> QED
  BY <1>3, <1>7, <1>9, <1>10, AgreesOnLevels

LEMMA ForeignFollows ==
  ASSUME PageInv, NEW m \in ForeignMessages, Foreign(m)
  PROVE  FollowInv'
<1> SUFFICES ASSUME Drained'.phase = "up"
             PROVE  Drained'.view.alien
  BY DEF FollowInv
<1>1. page' = page /\ subscribed' = subscribed /\ Publish(m)
  BY DEF Foreign, browser
<1>2. /\ m \in Messages /\ m.own = FALSE /\ m.type \in Levelled
      /\ m.type \in {"submit", "trade", "snapshot"}
  BY ForeignIs DEF Levelled
<1>3. page \in Pages /\ toPage \in Seq(Messages) /\ Addressed
  BY DEF PageInv
<1>4. Published(m)
  BY <1>1, <1>2, <1>3, PublishIs
<1>5. PICK v, w : v = Drained.view /\ w = Drained'.view
  OBVIOUS
<1>6. Heard(v, w, m)
  BY <1>2, <1>4, <1>5, HeardOf
<1>7. w.alien
  BY <1>2, <1>6 DEF Heard
<1> QED
  BY <1>5, <1>7

LEMMA RoutedFollows ==
  ASSUME PageInv, FollowInv, Routed
  PROVE  FollowInv'
<1> SUFFICES ASSUME Drained'.phase = "up", ~Drained'.view.alien, Clean'
             PROVE  Agrees(Drained'.view, books'[Ibm])
  BY DEF FollowInv
<1>1. /\ page' = page /\ books' = books /\ misrouted' = misrouted /\ stale' = stale
  BY DEF Routed, feedVars
<1>2. CASE toPage' = toPage
  <2>1. Drained' = Drained
    BY <1>1, <1>2 DEF Drained
  <2> QED
    BY <1>1, <2>1 DEF FollowInv, Clean
<1>3. CASE toPage' = LevelsProc /\ UNCHANGED subscribed
  <2>1. PICK m : m = IF recovering \/ ~HasBook THEN [type |-> "empty"]
                     ELSE [type |-> "result", levels |-> books[Ibm].array]
    OBVIOUS
  <2>2. toPage' = Append(toPage, m)
    BY <1>3, <2>1 DEF LevelsProc
  <2>3. /\ m \in Messages /\ m.type \in {"empty", "result"}
        /\ m.type = "result" => m.levels = books[Ibm].array
    <3>1. books[Ibm].array \in Shots
      BY ShowsQuotes DEF PageInv, BooksOK
    <3>2. CASE recovering \/ ~HasBook
      <4>1. m = [type |-> "empty"]
        BY <2>1, <3>2
      <4> QED
        BY <4>1 DEF Messages
    <3>3. CASE ~(recovering \/ ~HasBook)
      <4>1. m = [type |-> "result", levels |-> books[Ibm].array]
        BY <2>1, <3>3
      <4>2. m \in [type : {"result"}, levels : Shots]
        BY <3>1, <4>1
      <4> QED
        BY <4>1, <4>2 DEF Messages
    <3> QED
      BY <3>2, <3>3
  <2>4. Queued(m)
    BY <1>1, <1>3, <2>2, <2>3, AppendQueues DEF PageInv
  <2>5. m.type = "result"
    BY <2>3, <2>4 DEF Queued, Moved
  <2>6. PICK w, b : w = Drained'.view /\ b = books[Ibm]
    OBVIOUS
  <2>7. w.replaced = {} /\ \A t \in Sides : w.index[t] = Listed(b.array[t])
    BY <2>3, <2>4, <2>5, <2>6 DEF Queued, Moved
  <2> QED
    BY <1>1, <2>6, <2>7, AgreesOnLevels
<1> QED
  BY <1>2, <1>3 DEF Routed

LEMMA PageNextFollows ==
  ASSUME PageInv, IInv, FitsWord, FitsWord', FollowInv, [PageNext]_pageVars
  PROVE  FollowInv'
<1>1. ASSUME Drained' = Drained, books' = books, misrouted' = misrouted, stale' = stale
      PROVE  FollowInv'
  BY <1>1 DEF FollowInv, Clean
<1>2. CASE UNCHANGED pageVars
  <2>1. /\ books' = books /\ misrouted' = misrouted /\ stale' = stale
        /\ toPage' = toPage /\ page' = page
    BY <1>2 DEF pageVars, feedVars, browser
  <2> QED
    BY <1>1, <2>1 DEF Drained
<1>3. CASE MdMisses
  <2>1. /\ books' = books /\ misrouted' = misrouted /\ stale' = stale
        /\ toPage' = toPage /\ page' = page
    BY <1>3 DEF MdMisses, Miss, browser
  <2> QED
    BY <1>1, <2>1 DEF Drained
<1>4. CASE Load
  <2>1. page' = [phase |-> "loading", view |-> EmptyView] /\ toPage' = <<>>
    BY <1>4 DEF Load
  <2>2. PICK pg : pg = page'
    OBVIOUS
  <2>3. pg \in Pages /\ pg.phase = "loading"
    BY <2>1, <2>2, EmptyViewIs DEF Pages, Phases
  <2>4. Drained' = Received(pg, <<>>)
    BY <2>1, <2>2 DEF Drained, Received
  <2>5. Drained'.phase = "loading"
    BY <2>3, <2>4, ReceivedNone
  <2> QED
    BY <2>5 DEF FollowInv
<1>5. CASE PageReceives
  <2>1. books' = books /\ misrouted' = misrouted /\ stale' = stale
    BY <1>5 DEF PageReceives, feedVars
  <2> QED
    BY <1>1, <1>5, <2>1, ReceivesSame
<1>6. CASE MdApplies
  BY <1>6, MdAppliesFollows
<1>7. CASE MdRecovers
  BY <1>7, MdRecoversFollows
<1>8. CASE MdRecovered
  BY <1>8, MdRecoveredFollows
<1>9. ASSUME NEW m \in ForeignMessages, Foreign(m)
      PROVE  FollowInv'
  BY <1>9, ForeignFollows
<1>10. CASE Routed
  BY <1>10, RoutedFollows
<1> QED
  BY <1>2, <1>3, <1>4, <1>5, <1>6, <1>7, <1>8, <1>9, <1>10 DEF PageNext

\* To the feed and the book the page is not there.
LEMMA PageNextIsFeedNext ==
  [PageNext]_pageVars => [FeedNext]_feedVars
<1> SUFFICES ASSUME [PageNext]_pageVars
             PROVE  [FeedNext]_feedVars
  OBVIOUS
<1>0. Ibm \in Symbols
  BY PageParameters
<1>1. CASE MdApplies \/ MdMisses \/ MdRecovers \/ MdRecovered
  <2>1. Deliver(Ibm) \/ Miss(Ibm) \/ Resync(Ibm)
    BY <1>1 DEF MdApplies, MdMisses, MdRecovers, MdRecovered
  <2> QED
    BY <1>0, <2>1 DEF FeedNext
<1>2. ASSUME NEW m \in ForeignMessages, Foreign(m)
      PROVE  UNCHANGED feedVars
  BY <1>2 DEF Foreign
<1>3. CASE Routed \/ Load \/ PageReceives
  BY <1>3 DEF Routed, Load, PageReceives
<1>4. CASE UNCHANGED pageVars
  BY <1>4 DEF pageVars
<1> QED
  BY <1>1, <1>2, <1>3, <1>4 DEF PageNext

\* Once the answer to its one call is under way, the page together with what is
\* under way holds exactly Md's visible levels, through every update, new
\* levels and recovery, although updates name no side and no order
\* (on_level_update, on_new_levels, levels_proc; LadderView in index.html).
THEOREM PageFollows ==
  PageSpec /\ []FitsWord => []PageFollowsMd
<1>1. PageInit => IInv /\ FollowInv
  <2> SUFFICES ASSUME PageInit
               PROVE  IInv /\ FollowInv
    OBVIOUS
  <2>1. FeedInit /\ toPage = <<>> /\ page = [phase |-> "closed", view |-> EmptyView]
    BY DEF PageInit
  <2>2. page \in Pages /\ page.phase = "closed"
    BY <2>1, EmptyViewIs DEF Pages, Phases
  <2>3. Drained = page
    BY <2>1, <2>2, ReceivedNone DEF Drained, Received
  <2> QED
    BY <2>1, <2>2, <2>3, InitKeeps DEF FollowInv
<1>2. PageInv /\ IInv /\ FollowInv /\ FitsWord /\ FitsWord' /\ [PageNext]_pageVars
        => IInv' /\ FollowInv'
  <2>1. IInv /\ FitsWord /\ FitsWord' /\ [PageNext]_pageVars => IInv'
    BY PageNextIsFeedNext, NextKeeps
  <2> QED
    BY <2>1, PageNextFollows
<1>3. FollowInv => PageFollowsMd
  BY DEF FollowInv, PageFollowsMd, Clean, Agrees, Seen
<1>4. PageSpec => []PageInv
  BY PageHolds
<1> QED
  BY <1>1, <1>2, <1>3, <1>4, PTL DEF PageSpec
=============================================================================
