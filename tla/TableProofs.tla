---------------------------- MODULE TableProofs -----------------------------
(***************************************************************************)
(* Theorems about table files, for every set of layouts, of bytes, of      *)
(* users and of faults. The lines of a schema, the columns of a row and    *)
(* the rows of a search are gone through by induction over sets of         *)
(* numbers.                                                                *)
(***************************************************************************)
EXTENDS Table, SequenceTheorems, WellFoundedInduction, TLAPS

\* A set of natural numbers has a least one.
LEMMA Least ==
  ASSUME NEW T, T \subseteq Nat, T # {}
  PROVE  \E x \in T : \A y \in T : x <= y
<1> DEFINE R == OpToRel(<, Nat)
<1>1. IsWellFoundedOn(R, Nat)
  BY NatLessThanWellFounded
<1>2. \A x, y \in Nat : <<y, x>> \in R <=> y < x
  BY DEF OpToRel
<1> HIDE DEF R
<1>3. PICK x \in T : \A y \in T : ~(<<y, x>> \in R)
  BY <1>1, WFMin
<1>4. \A y \in T : y \in Nat /\ ~(y < x)
  BY <1>2, <1>3
<1>5. \A y \in T : x <= y
  BY <1>4
<1> QED
  BY <1>5

\* Induction, with a set in the place of a predicate.
LEMMA Induct ==
  ASSUME NEW S, 0 \in S, \A n \in Nat : n \in S => n + 1 \in S
  PROVE  Nat \subseteq S
<1> SUFFICES ASSUME Nat \ S # {} PROVE FALSE
  OBVIOUS
<1>1. PICK m \in Nat \ S : \A k \in Nat \ S : m <= k
  BY Least
<1>2. m # 0 /\ m - 1 \in Nat
  BY <1>1
<1>3. m - 1 \in S
  BY <1>1, <1>2
<1>4. (m - 1) + 1 = m
  BY <1>1
<1> QED
  BY <1>2, <1>3, <1>4

\* f has the values that N steps lead to from the first one on.
Steps(N, S) == [1 .. N -> [S -> S]]

Leads(f, N, S, first, step) ==
    /\ f \in [0 .. N -> S] /\ f[0] = first
    /\ \A i \in 1 .. N : f[i] = step[i][f[i - 1]]

\* There is such a function: what justifies a definition by recursion.
LEMMA Iterated ==
  ASSUME NEW N \in Nat, NEW S, NEW first \in S, NEW step \in Steps(N, S)
  PROVE  \E f : Leads(f, N, S, first, step)
<1> DEFINE Good(n, f) == f[0] = first /\ \A i \in 1 .. n : f[i] = step[i][f[i - 1]]
           Reached == {n \in Nat : n <= N => \E f \in [0 .. n -> S] : Good(n, f)}
<1>1. 0 \in Reached
  <2>1. [i \in 0 .. 0 |-> first] \in [0 .. 0 -> S] /\ Good(0, [i \in 0 .. 0 |-> first])
    OBVIOUS
  <2> QED
    BY <2>1
<1>2. ASSUME NEW n \in Nat, n \in Reached PROVE n + 1 \in Reached
  <2>0. step \in [1 .. N -> [S -> S]]
    BY DEF Steps
  <2> SUFFICES ASSUME n + 1 <= N PROVE \E f \in [0 .. n + 1 -> S] : Good(n + 1, f)
    OBVIOUS
  <2>1. PICK f \in [0 .. n -> S] : Good(n, f)
    BY <1>2
  <2> DEFINE g == [i \in 0 .. n + 1 |-> IF i = n + 1 THEN step[n + 1][f[n]] ELSE f[i]]
  <2>2. step[n + 1][f[n]] \in S
    BY <2>0
  <2>3. g \in [0 .. n + 1 -> S]
    BY <2>2
  <2>4. \A i \in 0 .. n : g[i] = f[i]
    OBVIOUS
  <2>5. g[n + 1] = step[n + 1][f[n]]
    OBVIOUS
  <2> HIDE DEF g
  <2>6. g[0] = first
    BY <2>1, <2>4
  <2>7. \A i \in 1 .. n : g[i] = step[i][g[i - 1]]
    BY <2>1, <2>4
  <2>8. g[n + 1] = step[n + 1][g[(n + 1) - 1]]
    BY <2>4, <2>5
  <2>9. Good(n + 1, g)
    BY <2>6, <2>7, <2>8
  <2> QED
    BY <2>3, <2>9
<1> HIDE DEF Reached
<1>3. N \in Reached
  BY <1>1, <1>2, Induct
<1>4. PICK f \in [0 .. N -> S] : Good(N, f)
  BY <1>3 DEF Reached
<1> QED
  BY <1>4 DEF Leads

-----------------------------------------------------------------------------
(* Positions                                                               *)

\* What a column is made of.
LEMMA ColumnFields ==
  ASSUME NEW columns \in Seq(Column), NEW i \in 1 .. Len(columns)
  PROVE  columns[i].length \in Nat /\ columns[i].name \in STRING
         /\ columns[i].type \in Types
<1>1. columns[i] \in Column
  BY ElementOfSeq
<1> QED
  BY <1>1 DEF Column

\* The columns of a row lie one behind the other.
LEMMA ColumnsInARow ==
  ASSUME NEW h, h.columns \in Seq(Column)
  PROVE  /\ StartPos(h, 1) = 0
         /\ \A c \in 1 .. Len(h.columns) + 1 : StartPos(h, c) \in Nat
         /\ \A c \in 1 .. Len(h.columns) :
               StartPos(h, c + 1) = StartPos(h, c) + h.columns[c].length
<1> DEFINE N == Len(h.columns)
           step == [i \in 1 .. N |-> [n \in Nat |-> n + h.columns[i].length]]
           Sums(g) == [i \in 0 .. N |-> IF i = 0 THEN 0 ELSE g[i - 1] + h.columns[i].length]
           before == CHOOSE g : g = Sums(g)
<1>1. N \in Nat /\ \A i \in 1 .. N : h.columns[i].length \in Nat
  BY ColumnFields
<1>2. step \in Steps(N, Nat)
  BY <1>1 DEF Steps
<1>3. \A i \in 1 .. N, n \in Nat : step[i][n] = n + h.columns[i].length
  OBVIOUS
<1>4. \A c : StartPos(h, c) = before[c - 1]
  BY DEF StartPos
<1> HIDE DEF N, step, before
<1>5. PICK f : Leads(f, N, Nat, 0, step)
  BY <1>1, <1>2, Iterated
<1>6a. f \in [0 .. N -> Nat] /\ f[0] = 0 /\ \A i \in 1 .. N : f[i] = step[i][f[i - 1]]
  BY <1>5 DEF Leads
<1>6. \A i \in 1 .. N : f[i - 1] \in Nat
  BY <1>1, <1>6a
<1>7. \A i \in 1 .. N : f[i] = f[i - 1] + h.columns[i].length
  BY <1>3, <1>6, <1>6a
<1>8. f = Sums(f)
  BY <1>1, <1>6a, <1>7
<1>9. before = Sums(before)
  BY <1>8 DEF before
<1>10. before[0] = 0 /\ \A i \in 1 .. N : before[i] = before[i - 1] + h.columns[i].length
  BY <1>1, <1>9
<1> DEFINE T == {i \in Nat : i <= N => before[i] \in Nat}
<1>11. 0 \in T
  BY <1>10
<1>12. \A i \in Nat : i \in T => i + 1 \in T
  <2> SUFFICES ASSUME NEW i \in Nat, i \in T, i + 1 <= N PROVE before[i + 1] \in Nat
    OBVIOUS
  <2>1. i + 1 \in 1 .. N /\ (i + 1) - 1 = i /\ before[i] \in Nat
    BY <1>1
  <2>2. before[i + 1] = before[i] + h.columns[i + 1].length
    BY <1>10, <2>1
  <2> QED
    BY <1>1, <2>1, <2>2
<1>13. Nat \subseteq T
  <2> HIDE DEF T
  <2> QED
    BY <1>11, <1>12, Induct
<1>14. \A i \in 0 .. N : before[i] \in Nat
  BY <1>1, <1>13
<1>15. \A c \in 1 .. N + 1 : c - 1 \in 0 .. N
  BY <1>1
<1>16. StartPos(h, 1) = 0
  <2>1. 1 - 1 = 0
    OBVIOUS
  <2> QED
    BY <1>4, <1>10, <2>1
<1>17. \A c \in 1 .. N + 1 : StartPos(h, c) \in Nat
  BY <1>4, <1>14, <1>15
<1>18. \A c \in 1 .. N : StartPos(h, c + 1) = StartPos(h, c) + h.columns[c].length
  <2> TAKE c \in 1 .. N
  <2>1. (c + 1) - 1 = c
    BY <1>1
  <2>2. StartPos(h, c + 1) = before[c] /\ StartPos(h, c) = before[c - 1]
    BY <1>4, <2>1
  <2> QED
    BY <1>10, <2>2
<1> QED
  BY <1>16, <1>17, <1>18 DEF N

\* A column ends before those behind it begin, and all end within the row.
LEMMA ColumnsApart ==
  ASSUME NEW h, h.columns \in Seq(Column),
         NEW c \in 1 .. Len(h.columns), NEW d \in 1 .. Len(h.columns) + 1, c < d
  PROVE  StartPos(h, c) + h.columns[c].length <= StartPos(h, d)
<1> DEFINE N == Len(h.columns)
           T == {k \in Nat : c + 1 + k <= N + 1 =>
                    StartPos(h, c) + h.columns[c].length <= StartPos(h, c + 1 + k)}
<1>1. N \in Nat /\ c \in 1 .. N /\ d \in 1 .. N + 1 /\ \A i \in 1 .. N : h.columns[i].length \in Nat
  BY ColumnFields
<1>2. /\ \A i \in 1 .. N + 1 : StartPos(h, i) \in Nat
      /\ \A i \in 1 .. N : StartPos(h, i + 1) = StartPos(h, i) + h.columns[i].length
  BY ColumnsInARow
<1> HIDE DEF N
<1>3. 0 \in T
  <2>1. c + 1 + 0 = c + 1
    BY <1>1
  <2> QED
    BY <1>1, <1>2, <2>1
<1>4. \A k \in Nat : k \in T => k + 1 \in T
  <2> SUFFICES ASSUME NEW k \in Nat, k \in T, c + 1 + (k + 1) <= N + 1
               PROVE  StartPos(h, c) + h.columns[c].length <= StartPos(h, c + 1 + (k + 1))
    OBVIOUS
  <2> DEFINE e == c + 1 + k
  <2>1. e \in 1 .. N /\ c + 1 + (k + 1) = e + 1 /\ e \in 1 .. N + 1 /\ e + 1 \in 1 .. N + 1
    BY <1>1
  <2>2. StartPos(h, c) + h.columns[c].length <= StartPos(h, e)
    BY <1>1
  <2> HIDE DEF e
  <2>3. StartPos(h, e + 1) = StartPos(h, e) + h.columns[e].length
    BY <1>2, <2>1
  <2>4. StartPos(h, e) \in Nat /\ h.columns[e].length \in Nat /\ StartPos(h, c) \in Nat
        /\ h.columns[c].length \in Nat
    <3>1. c \in 1 .. N + 1
      BY <1>1
    <3> QED
      BY <1>1, <1>2, <2>1, <3>1
  <2> DEFINE p == StartPos(h, e)
             l == h.columns[e].length
             q == StartPos(h, c) + h.columns[c].length
  <2>5. q <= p /\ p \in Nat /\ l \in Nat /\ q \in Nat
    BY <2>2, <2>4
  <2>6. StartPos(h, e + 1) = p + l
    BY <2>3
  <2>7. q <= StartPos(h, e + 1)
    <3> HIDE DEF p, l, q
    <3> QED
      BY <2>5, <2>6
  <2> QED
    BY <2>1, <2>7
<1>5. Nat \subseteq T
  <2> HIDE DEF T
  <2> QED
    BY <1>3, <1>4, Induct
<1>6. d - (c + 1) \in Nat /\ c + 1 + (d - (c + 1)) = d /\ d <= N + 1
  BY <1>1
<1>7. d - (c + 1) \in T
  BY <1>5, <1>6
<1> QED
  BY <1>6, <1>7

\* Rows do not overlap.
LEMMA RowsApart ==
  ASSUME NEW r \in Nat, NEW q \in Nat, NEW m \in Nat, r < q
  PROVE  r * m + m <= q * m
<1>1. (q - r - 1) * m >= 0
  <2>1. q - r - 1 \in Nat
    OBVIOUS
  <2> QED
    BY <2>1
<1>2. q * m = (q - r - 1) * m + r * m + m
  OBVIOUS
<1> QED
  BY <1>1, <1>2

LEMMA RowsAndColumnsApart ==
  ASSUME NEW z \in Nat, NEW m \in Nat, NEW a \in Nat, NEW p \in Nat, NEW l \in Nat,
         NEW b \in Nat, NEW p1 \in Nat, a + m <= b, p + l <= m
  PROVE  (z + a + p) + l <= z + b + p1
  OBVIOUS

\* Every cell has a place of its own, behind the schema and within the capacity.
LEMMA CellsApart ==
  ASSUME NEW h, h.rows \in Nat, h.columns \in Seq(Column),
         NEW r \in 0 .. h.rows - 1, NEW c \in 1 .. Len(h.columns)
  PROVE  /\ SchemaSize(h) \in Nat /\ SchemaSize(h) = 2 + 6 * Len(h.columns)
         /\ Position(h, r, c) \in Nat /\ Position(h, r, c) >= SchemaSize(h)
         /\ h.columns[c].length \in Nat
         /\ \A q \in 0 .. h.rows - 1, d \in 1 .. Len(h.columns) : <<q, d>> # <<r, c>> =>
               \/ Position(h, r, c) + h.columns[c].length <= Position(h, q, d)
               \/ Position(h, q, d) + h.columns[d].length <= Position(h, r, c)
<1> DEFINE N == Len(h.columns)
           M == MaxRowLength(h)
           Z == SchemaSize(h)
           P(c1) == StartPos(h, c1)
           L(c1) == h.columns[c1].length
<1>1. N \in Nat /\ c \in 1 .. N /\ \A i \in 1 .. N : L(i) \in Nat
  BY ColumnFields
<1>2. \A i \in 1 .. N + 1 : P(i) \in Nat
  BY ColumnsInARow
<1>3. Z = 2 + 6 * N
  <2>1. Len(EncodeColumns(h.columns)) = 6 * N
    BY <1>1 DEF EncodeColumns
  <2> QED
    BY <2>1 DEF SchemaSize
<1>4. M \in Nat
  BY <1>1, <1>2 DEF MaxRowLength
<1>5. \A q, d : Position(h, q, d) = Z + q * M + P(d)
  BY DEF Position
<1>6. \A i, j \in 1 .. N : i < j => P(i) + L(i) <= P(j)
  BY <1>1, ColumnsApart
<1>7. \A i \in 1 .. N : P(i) + L(i) <= M
  BY <1>1, ColumnsApart DEF MaxRowLength
<1> HIDE DEF N, M, Z, P, L
<1>8. r \in Nat /\ c \in 1 .. N /\ P(c) \in Nat /\ Z \in Nat /\ L(c) \in Nat
  BY <1>1, <1>2, <1>3
<1>9. r * M \in Nat
  BY <1>4, <1>8
<1>10. Position(h, r, c) = Z + r * M + P(c)
  BY <1>5
<1>11. ASSUME NEW q \in 0 .. h.rows - 1, NEW d \in 1 .. N, <<q, d>> # <<r, c>>
       PROVE  \/ Position(h, r, c) + L(c) <= Position(h, q, d)
              \/ Position(h, q, d) + L(d) <= Position(h, r, c)
  <2>1. q \in Nat /\ P(d) \in Nat /\ L(d) \in Nat
    BY <1>1, <1>2
  <2>2. q * M \in Nat
    BY <1>4, <2>1
  <2>3. Position(h, q, d) = Z + q * M + P(d)
    BY <1>5
  <2>4. P(c) + L(c) <= M /\ P(d) + L(d) <= M
    BY <1>7, <1>8
  <2>5. CASE r < q
    <3>1. r * M + M <= q * M
      BY <1>4, <1>8, <2>1, <2>5, RowsApart
    <3>2. (Z + r * M + P(c)) + L(c) <= Z + q * M + P(d)
      BY <1>4, <1>8, <1>9, <2>1, <2>2, <2>4, <3>1, RowsAndColumnsApart
    <3> QED
      BY <1>10, <2>3, <3>2
  <2>6. CASE q < r
    <3>1. q * M + M <= r * M
      BY <1>4, <1>8, <2>1, <2>6, RowsApart
    <3>2. (Z + q * M + P(d)) + L(d) <= Z + r * M + P(c)
      BY <1>4, <1>8, <1>9, <2>1, <2>2, <2>4, <3>1, RowsAndColumnsApart
    <3> QED
      BY <1>10, <2>3, <3>2
  <2>7. CASE q = r
    <3>1. c # d
      BY <1>11, <2>7
    <3>2. c < d \/ d < c
      BY <1>1, <1>8, <3>1
    <3>3. P(c) + L(c) <= P(d) \/ P(d) + L(d) <= P(c)
      BY <1>6, <1>8, <3>2
    <3> QED
      BY <1>8, <1>9, <1>10, <2>1, <2>2, <2>3, <2>7, <3>3
  <2> QED
    BY <1>8, <2>1, <2>5, <2>6, <2>7
<1>12. Position(h, r, c) \in Nat /\ Position(h, r, c) >= Z
  BY <1>8, <1>9, <1>10
<1> QED
  BY <1>3, <1>8, <1>11, <1>12 DEF N, Z, L

-----------------------------------------------------------------------------
(* The schema reads back                                                   *)

Cutting == [whole : Seq(Seq(Token)), begun : Seq(Token)]
NothingCut == [whole |-> << >>, begun |-> << >>]

LEMMA CutType ==
  ASSUME NEW old \in Cutting, NEW token \in Token
  PROVE  Cut(old, token) \in Cutting /\ Ended(old) \in Seq(Seq(Token))
<1>1. old.whole \in Seq(Seq(Token)) /\ old.begun \in Seq(Token)
  BY DEF Cutting
<1>2. Append(old.whole, old.begun) \in Seq(Seq(Token)) /\ Append(old.begun, token) \in Seq(Token)
      /\ << >> \in Seq(Token)
  BY <1>1
<1>3. Ended(old) \in Seq(Seq(Token))
  BY <1>1, <1>2 DEF Ended
<1> QED
  BY <1>1, <1>2, <1>3 DEF Cut, Cutting

\* What the cutting of a text comes to, token by token.
LEMMA CutByCut ==
  ASSUME NEW text \in Seq(Token)
  PROVE  \E f : /\ f \in [0 .. Len(text) -> Cutting]
                /\ f[0] = NothingCut
                /\ \A i \in 1 .. Len(text) : f[i] = Cut(f[i - 1], text[i])
                /\ Lines(text) = Ended(f[Len(text)])
<1> DEFINE N == Len(text)
           step == [i \in 1 .. N |-> [old \in Cutting |-> Cut(old, text[i])]]
           New(old, i) == CHOOSE new \in {Cut(old1, text[i]) : old1 \in {old}} : TRUE
           Cuts(g) == [i \in 0 .. N |-> IF i = 0 THEN NothingCut ELSE New(g[i - 1], i)]
           cut == CHOOSE g : g = Cuts(g)
<1>1. N \in Nat /\ \A i \in 1 .. N : text[i] \in Token
  BY ElementOfSeq
<1>2. step \in Steps(N, Cutting)
  <2>1. \A i \in 1 .. N, old \in Cutting : Cut(old, text[i]) \in Cutting
    BY <1>1, CutType
  <2> QED
    BY <2>1 DEF Steps
<1>3. \A i \in 1 .. N, old \in Cutting : step[i][old] = Cut(old, text[i])
  OBVIOUS
<1>4. NothingCut \in Cutting
  BY DEF NothingCut, Cutting
<1>5. \A old, i : New(old, i) = Cut(old, text[i])
  OBVIOUS
<1>6. Lines(text) = Ended(cut[N])
  BY DEF Lines, NothingCut
<1> HIDE DEF N, step, cut, New
<1>7. PICK f : Leads(f, N, Cutting, NothingCut, step)
  BY <1>1, <1>2, <1>4, Iterated
<1>8. f \in [0 .. N -> Cutting] /\ f[0] = NothingCut /\ \A i \in 1 .. N : f[i] = step[i][f[i - 1]]
  BY <1>7 DEF Leads
<1>9. \A i \in 1 .. N : f[i - 1] \in Cutting
  BY <1>1, <1>8
<1>10. \A i \in 1 .. N : f[i] = New(f[i - 1], i)
  BY <1>3, <1>5, <1>8, <1>9
<1>11. f = Cuts(f)
  BY <1>1, <1>8, <1>10
<1>12. cut = Cuts(cut)
  BY <1>11 DEF cut
<1>13. cut[0] = NothingCut /\ \A i \in 1 .. N : cut[i] = New(cut[i - 1], i)
  BY <1>1, <1>12
<1> DEFINE T == {i \in Nat : i <= N => cut[i] = f[i]}
<1>14. 0 \in T
  BY <1>8, <1>13
<1>15. ASSUME NEW i \in Nat, i \in T PROVE i + 1 \in T
  <2>1. i <= N => cut[i] = f[i]
    BY <1>15
  <2>2. ASSUME i + 1 <= N PROVE cut[i + 1] = f[i + 1]
    <3>1. i + 1 \in 1 .. N /\ (i + 1) - 1 = i /\ i <= N
      BY <1>1, <2>2
    <3> QED
      BY <1>10, <1>13, <2>1, <3>1
  <2> QED
    BY <2>2
<1>16. Nat \subseteq T
  <2> HIDE DEF T
  <2> QED
    BY <1>14, <1>15, Induct
<1>17. cut[N] = f[N]
  BY <1>1, <1>16
<1>18. \A i \in 1 .. N : f[i] = Cut(f[i - 1], text[i])
  BY <1>5, <1>10
<1> QED
  BY <1>6, <1>8, <1>17, <1>18 DEF N

\* The line of a column without the line feed.
LineBody(c) == <<Text(c.name), Text("/"), Num(c.length), Text("/"), Text(c.type)>>

\* Where the token of a line lies in the schema.
LEMMA TokenOfLine ==
  ASSUME NEW columns \in Seq(Column), NEW k \in 0 .. Len(columns) - 1, NEW j \in 1 .. 6
  PROVE  /\ 6 * k + j \in 1 .. 6 * Len(columns)
         /\ EncodeColumns(columns)[6 * k + j] = Line(columns[k + 1])[j]
<1>1. Len(columns) \in Nat /\ k \in Nat /\ j \in 1 .. 6 /\ k <= Len(columns) - 1
  OBVIOUS
<1>2. 6 * k + j \in 1 .. 6 * Len(columns)
  BY <1>1
<1>3. (6 * k + j - 1) \div 6 = k /\ (6 * k + j - 1) % 6 = j - 1
  BY <1>1
<1>4. EncodeColumns(columns)[6 * k + j]
         = Line(columns[(6 * k + j - 1) \div 6 + 1])[((6 * k + j - 1) % 6) + 1]
  BY <1>2 DEF EncodeColumns
<1>5. j - 1 + 1 = j
  BY <1>1
<1> QED
  BY <1>2, <1>3, <1>4, <1>5

LEMMA EncodeType ==
  ASSUME NEW columns \in Seq(Column)
  PROVE  /\ EncodeColumns(columns) \in Seq(Token)
         /\ Len(EncodeColumns(columns)) = 6 * Len(columns) /\ Len(columns) \in Nat
<1> DEFINE N == Len(columns)
           E(p) == Line(columns[(p - 1) \div 6 + 1])[((p - 1) % 6) + 1]
<1>1. N \in Nat
  OBVIOUS
<1>2. ASSUME NEW p \in 1 .. 6 * N PROVE E(p) \in Token
  <2>1. (p - 1) \div 6 + 1 \in 1 .. N /\ ((p - 1) % 6) + 1 \in 1 .. 6
    BY <1>1
  <2>2. PICK i \in 1 .. N : i = (p - 1) \div 6 + 1
    BY <2>1
  <2>3. columns[i].length \in Nat /\ columns[i].name \in STRING /\ columns[i].type \in Types
    BY ColumnFields
  <2> DEFINE c == columns[i]
  <2>4. /\ Text(c.name) \in Token /\ Text("/") \in Token /\ Num(c.length) \in Token
        /\ Text(c.type) \in Token /\ Text("\n") \in Token
    BY <2>3 DEF Text, Num, Token
  <2>5. Line(c) = <<Text(c.name), Text("/"), Num(c.length), Text("/"), Text(c.type), Text("\n")>>
    BY DEF Line
  <2> HIDE DEF c
  <2>6. Line(c) \in Seq(Token) /\ Len(Line(c)) = 6
    BY <2>4, <2>5
  <2>7. \A j \in 1 .. 6 : Line(c)[j] \in Token
    BY <2>6, ElementOfSeq
  <2> QED
    BY <2>1, <2>2, <2>7 DEF c
<1>3. EncodeColumns(columns) = [p \in 1 .. 6 * N |-> E(p)]
  BY DEF EncodeColumns
<1> HIDE DEF N, E
<1>4. [p \in 1 .. 6 * N |-> E(p)] \in Seq(Token) /\ Len([p \in 1 .. 6 * N |-> E(p)]) = 6 * N
  BY <1>1, <1>2
<1> QED
  BY <1>1, <1>3, <1>4 DEF N

LEMMA TuplesGrow ==
  ASSUME NEW S, NEW a \in S, NEW b \in S, NEW c \in S, NEW d \in S, NEW e \in S
  PROVE  /\ Append(<<a>>, b) = <<a, b>> /\ Append(<<a, b>>, c) = <<a, b, c>>
         /\ Append(<<a, b, c>>, d) = <<a, b, c, d>>
         /\ Append(<<a, b, c, d>>, e) = <<a, b, c, d, e>>
<1>1. Append(<<a>>, b) = <<a, b>>
  <2>1. <<a>> \in Seq(S) /\ <<a, b>> \in Seq(S) /\ Len(<<a>>) = 1 /\ Len(<<a, b>>) = 2
    OBVIOUS
  <2>2. /\ Append(<<a>>, b) \in Seq(S) /\ Len(Append(<<a>>, b)) = 2
        /\ Append(<<a>>, b)[2] = b
        /\ \A i \in 1 .. 1 : Append(<<a>>, b)[i] = <<a>>[i]
    BY <2>1, AppendProperties
  <2>3. \A i \in 1 .. 2 : Append(<<a>>, b)[i] = <<a, b>>[i]
    BY <2>2
  <2> QED
    BY <2>1, <2>2, <2>3, SeqEqual
<1>2. Append(<<a, b>>, c) = <<a, b, c>>
  <2>1. <<a, b>> \in Seq(S) /\ <<a, b, c>> \in Seq(S) /\ Len(<<a, b>>) = 2 /\ Len(<<a, b, c>>) = 3
    OBVIOUS
  <2>2. /\ Append(<<a, b>>, c) \in Seq(S) /\ Len(Append(<<a, b>>, c)) = 3
        /\ Append(<<a, b>>, c)[3] = c
        /\ \A i \in 1 .. 2 : Append(<<a, b>>, c)[i] = <<a, b>>[i]
    BY <2>1, AppendProperties
  <2>3. \A i \in 1 .. 3 : Append(<<a, b>>, c)[i] = <<a, b, c>>[i]
    BY <2>2
  <2> QED
    BY <2>1, <2>2, <2>3, SeqEqual
<1>3. Append(<<a, b, c>>, d) = <<a, b, c, d>>
  <2>1. <<a, b, c>> \in Seq(S) /\ <<a, b, c, d>> \in Seq(S) /\ Len(<<a, b, c>>) = 3 /\ Len(<<a, b, c, d>>) = 4
    OBVIOUS
  <2>2. /\ Append(<<a, b, c>>, d) \in Seq(S) /\ Len(Append(<<a, b, c>>, d)) = 4
        /\ Append(<<a, b, c>>, d)[4] = d
        /\ \A i \in 1 .. 3 : Append(<<a, b, c>>, d)[i] = <<a, b, c>>[i]
    BY <2>1, AppendProperties
  <2>3. \A i \in 1 .. 4 : Append(<<a, b, c>>, d)[i] = <<a, b, c, d>>[i]
    BY <2>2
  <2> QED
    BY <2>1, <2>2, <2>3, SeqEqual
<1>4. Append(<<a, b, c, d>>, e) = <<a, b, c, d, e>>
  <2>1. <<a, b, c, d>> \in Seq(S) /\ <<a, b, c, d, e>> \in Seq(S) /\ Len(<<a, b, c, d>>) = 4 /\ Len(<<a, b, c, d, e>>) = 5
    OBVIOUS
  <2>2. /\ Append(<<a, b, c, d>>, e) \in Seq(S) /\ Len(Append(<<a, b, c, d>>, e)) = 5
        /\ Append(<<a, b, c, d>>, e)[5] = e
        /\ \A i \in 1 .. 4 : Append(<<a, b, c, d>>, e)[i] = <<a, b, c, d>>[i]
    BY <2>1, AppendProperties
  <2>3. \A i \in 1 .. 5 : Append(<<a, b, c, d>>, e)[i] = <<a, b, c, d, e>>[i]
    BY <2>2
  <2> QED
    BY <2>1, <2>2, <2>3, SeqEqual
<1> QED
  BY <1>1, <1>2, <1>3, <1>4

\* What is not a line feed goes on with the line begun.
LEMMA CutMore ==
  ASSUME NEW w, NEW b, NEW token, token # Text("\n")
  PROVE  Cut([whole |-> w, begun |-> b], token) = [whole |-> w, begun |-> Append(b, token)]
  BY DEF Cut

\* The line of a column, cut token by token.
LEMMA LineCut ==
  ASSUME NEW columns \in Seq(Column), ValidHeader(columns), NEW i \in 1 .. Len(columns),
         NEW old \in Cutting, old.begun = << >>,
         NEW c1, NEW c2, NEW c3, NEW c4, NEW c5, NEW c6,
         c1 = Cut(old, Line(columns[i])[1]), c2 = Cut(c1, Line(columns[i])[2]),
         c3 = Cut(c2, Line(columns[i])[3]), c4 = Cut(c3, Line(columns[i])[4]),
         c5 = Cut(c4, Line(columns[i])[5]), c6 = Cut(c5, Line(columns[i])[6])
  PROVE  c6 = [whole |-> Append(old.whole, LineBody(columns[i])), begun |-> << >>]
<1> DEFINE c == columns[i]
           W == old.whole
           LF == Text("\n")
<1>1. c.name # "\n" /\ c.type \in Types
  <2>1. DOMAIN columns = 1 .. Len(columns)
    OBVIOUS
  <2> QED
    BY <2>1, ColumnFields DEF ValidHeader
<1>2. /\ Text(c.name) # LF /\ Text("/") # LF /\ Num(c.length) # LF /\ Text(c.type) # LF
  BY <1>1 DEF Text, Num, Types
<1>3. /\ Line(c)[1] = Text(c.name) /\ Line(c)[2] = Text("/") /\ Line(c)[3] = Num(c.length)
      /\ Line(c)[4] = Text("/") /\ Line(c)[5] = Text(c.type) /\ Line(c)[6] = LF
  BY DEF Line
<1>5. old = [whole |-> W, begun |-> << >>]
  BY DEF Cutting
<1> DEFINE x1 == Text(c.name)
           x2 == Text("/")
           x3 == Num(c.length)
           x5 == Text(c.type)
<1>5a. x1 # Text("\n") /\ x2 # Text("\n") /\ x3 # Text("\n") /\ x5 # Text("\n")
  BY <1>2
<1> HIDE DEF c, W, LF, x1, x2, x3, x5
<1>6. /\ Append(<< >>, x1) = <<x1>> /\ Append(<<x1>>, x2) = <<x1, x2>>
      /\ Append(<<x1, x2>>, x3) = <<x1, x2, x3>>
      /\ Append(<<x1, x2, x3>>, x2) = <<x1, x2, x3, x2>>
      /\ Append(<<x1, x2, x3, x2>>, x5) = <<x1, x2, x3, x2, x5>>
  <2> DEFINE S == {x1, x2, x3, x5}
  <2>1. x1 \in S /\ x2 \in S /\ x3 \in S /\ x5 \in S
    OBVIOUS
  <2> HIDE DEF S
  <2>2. Append(<< >>, x1) = <<x1>>
    BY <2>1
  <2> QED
    BY <2>1, <2>2, TuplesGrow
<1> DEFINE t0 == << >>
           t1 == <<x1>>
           t2 == <<x1, x2>>
           t3 == <<x1, x2, x3>>
           t4 == <<x1, x2, x3, x2>>
           t5 == <<x1, x2, x3, x2, x5>>
<1>6a. t5 # << >> /\ t5 = LineBody(c)
  BY DEF LineBody, x1, x2, x3, x5
<1> HIDE DEF t0, t1, t2, t3, t4, t5
<1>6b. old = [whole |-> W, begun |-> t0] /\ t0 = << >>
  BY <1>5 DEF t0
<1>6c. /\ Append(t0, x1) = t1 /\ Append(t1, x2) = t2 /\ Append(t2, x3) = t3
       /\ Append(t3, x2) = t4 /\ Append(t4, x5) = t5
  BY <1>6 DEF t0, t1, t2, t3, t4, t5
<1>7. c1 = [whole |-> W, begun |-> t1]
  <2>1. Cut(old, x1) = [whole |-> W, begun |-> t1]
    <3>1. Cut([whole |-> W, begun |-> t0], x1) = [whole |-> W, begun |-> Append(t0, x1)]
      BY ONLY <1>5a, CutMore
    <3> QED
      BY ONLY <1>6c, <3>1, <1>6b
  <2>2. c1 = Cut(old, x1)
    BY <1>3 DEF c, x1
  <2> QED
    BY <2>1, <2>2
<1>8. c2 = [whole |-> W, begun |-> t2]
  <2>1. Cut(c1, x2) = [whole |-> W, begun |-> t2]
    <3>1. Cut([whole |-> W, begun |-> t1], x2) = [whole |-> W, begun |-> Append(t1, x2)]
      BY ONLY <1>5a, CutMore
    <3> QED
      BY ONLY <1>6c, <3>1, <1>7
  <2>2. c2 = Cut(c1, x2)
    BY <1>3 DEF c, x2
  <2> QED
    BY <2>1, <2>2
<1>9. c3 = [whole |-> W, begun |-> t3]
  <2>1. Cut(c2, x3) = [whole |-> W, begun |-> t3]
    <3>1. Cut([whole |-> W, begun |-> t2], x3) = [whole |-> W, begun |-> Append(t2, x3)]
      BY ONLY <1>5a, CutMore
    <3> QED
      BY ONLY <1>6c, <3>1, <1>8
  <2>2. c3 = Cut(c2, x3)
    BY <1>3 DEF c, x3
  <2> QED
    BY <2>1, <2>2
<1>10. c4 = [whole |-> W, begun |-> t4]
  <2>1. Cut(c3, x2) = [whole |-> W, begun |-> t4]
    <3>1. Cut([whole |-> W, begun |-> t3], x2) = [whole |-> W, begun |-> Append(t3, x2)]
      BY ONLY <1>5a, CutMore
    <3> QED
      BY ONLY <1>6c, <3>1, <1>9
  <2>2. c4 = Cut(c3, x2)
    BY <1>3 DEF c, x2
  <2> QED
    BY <2>1, <2>2
<1>11. c5 = [whole |-> W, begun |-> t5]
  <2>1. Cut(c4, x5) = [whole |-> W, begun |-> t5]
    <3>1. Cut([whole |-> W, begun |-> t4], x5) = [whole |-> W, begun |-> Append(t4, x5)]
      BY ONLY <1>5a, CutMore
    <3> QED
      BY ONLY <1>6c, <3>1, <1>10
  <2>2. c5 = Cut(c4, x5)
    BY <1>3 DEF c, x5
  <2> QED
    BY <2>1, <2>2
<1>12. Ended(c5) = Append(W, t5)
  BY <1>6a, <1>11 DEF Ended
<1>13. Cut(c5, LF) = [whole |-> Ended(c5), begun |-> << >>]
  BY DEF Cut, LF
<1>14. c6 = Cut(c5, LF)
  BY <1>3 DEF c
<1> QED
  BY <1>6a, <1>12, <1>13, <1>14 DEF c, W

\* The lines of a schema are those of its columns.
LEMMA LinesOfSchema ==
  ASSUME NEW columns \in Seq(Column), ValidHeader(columns)
  PROVE  Lines(EncodeColumns(columns)) = [i \in 1 .. Len(columns) |-> LineBody(columns[i])]
<1> DEFINE N == Len(columns)
           text == EncodeColumns(columns)
           Upto(k) == [i \in 1 .. k |-> LineBody(columns[i])]
<1>1. N \in Nat /\ text \in Seq(Token) /\ Len(text) = 6 * N
  BY EncodeType
<1> HIDE DEF text
<1>2. PICK f : /\ f \in [0 .. Len(text) -> Cutting]
               /\ f[0] = NothingCut
               /\ \A i \in 1 .. Len(text) : f[i] = Cut(f[i - 1], text[i])
               /\ Lines(text) = Ended(f[Len(text)])
  BY <1>1, CutByCut
<1> DEFINE T == {k \in Nat : k <= N => f[6 * k] = [whole |-> Upto(k), begun |-> << >>]}
<1> HIDE DEF N
<1>3. 0 \in T
  <2>1. Upto(0) = << >> /\ 6 * 0 = 0
    OBVIOUS
  <2> HIDE DEF Upto
  <2> QED
    BY <1>2, <2>1 DEF NothingCut
<1>4. ASSUME NEW k \in Nat, k \in T PROVE k + 1 \in T
  <2> SUFFICES ASSUME k + 1 <= N PROVE f[6 * (k + 1)] = [whole |-> Upto(k + 1), begun |-> << >>]
    OBVIOUS
  <2> DEFINE c == columns[k + 1]
  <2>1. f[6 * k] = [whole |-> Upto(k), begun |-> << >>]
    BY <1>1, <1>4
  <2>2. k \in 0 .. N - 1 /\ k + 1 \in 1 .. N
    BY <1>1
  <2>3. \A j \in 1 .. 6 : 6 * k + j \in 1 .. Len(text) /\ text[6 * k + j] = Line(c)[j]
    BY <1>1, <2>2, TokenOfLine DEF N, text
  <2>4. \A j \in 1 .. 6 : f[6 * k + j] = Cut(f[6 * k + (j - 1)], Line(c)[j])
    <3> TAKE j \in 1 .. 6
    <3>1. 6 * k + j \in 1 .. Len(text) /\ text[6 * k + j] = Line(c)[j]
      BY <2>3
    <3>2. f[6 * k + j] = Cut(f[6 * k + j - 1], text[6 * k + j])
      BY <1>2, <3>1
    <3>3. 6 * k + j - 1 = 6 * k + (j - 1)
      OBVIOUS
    <3> QED
      BY <3>1, <3>2, <3>3
  <2>5. /\ f[6 * k + 1] = Cut(f[6 * k], Line(c)[1])
        /\ f[6 * k + 2] = Cut(f[6 * k + 1], Line(c)[2])
        /\ f[6 * k + 3] = Cut(f[6 * k + 2], Line(c)[3])
        /\ f[6 * k + 4] = Cut(f[6 * k + 3], Line(c)[4])
        /\ f[6 * k + 5] = Cut(f[6 * k + 4], Line(c)[5])
        /\ f[6 * k + 6] = Cut(f[6 * k + 5], Line(c)[6])
    <3> HIDE DEF c
    <3>1. 6 * k + 0 = 6 * k
      OBVIOUS
    <3> QED
      BY <2>4, <3>1
  <2>6. f[6 * k] \in Cutting /\ f[6 * k].begun = << >> /\ f[6 * k].whole = Upto(k)
    <3>1. 6 * k \in 0 .. Len(text)
      BY <1>1, <2>2
    <3> HIDE DEF Upto
    <3> QED
      BY <1>2, <2>1, <3>1
  <2>7. f[6 * k + 6] = [whole |-> Append(f[6 * k].whole, LineBody(c)), begun |-> << >>]
    <3> HIDE DEF Upto
    <3>1. k + 1 \in 1 .. Len(columns)
      BY <2>2 DEF N
    <3> DEFINE i == k + 1
    <3>2. i \in 1 .. Len(columns) /\ c = columns[i]
      BY <3>1
    <3> HIDE DEF i, c
    <3> DEFINE d0 == f[6 * k]
               d1 == f[6 * k + 1]
               d2 == f[6 * k + 2]
               d3 == f[6 * k + 3]
               d4 == f[6 * k + 4]
               d5 == f[6 * k + 5]
               d6 == f[6 * k + 6]
    <3>3. /\ d1 = Cut(d0, Line(columns[i])[1]) /\ d2 = Cut(d1, Line(columns[i])[2])
          /\ d3 = Cut(d2, Line(columns[i])[3]) /\ d4 = Cut(d3, Line(columns[i])[4])
          /\ d5 = Cut(d4, Line(columns[i])[5]) /\ d6 = Cut(d5, Line(columns[i])[6])
          /\ d0 \in Cutting /\ d0.begun = << >>
      BY <2>5, <2>6, <3>2
    <3> HIDE DEF d0, d1, d2, d3, d4, d5, d6
    <3>4. d6 = [whole |-> Append(d0.whole, LineBody(columns[i])), begun |-> << >>]
      BY <3>2, <3>3, LineCut
    <3> QED
      BY <3>2, <3>4 DEF d0, d6
  <2>8. Append(Upto(k), LineBody(c)) = Upto(k + 1)
    <3> DEFINE S == {LineBody(columns[i]) : i \in 1 .. k + 1}
               s == Append(Upto(k), LineBody(c))
               u == Upto(k + 1)
    <3>1. \A i \in 1 .. k + 1 : LineBody(columns[i]) \in S
      OBVIOUS
    <3> HIDE DEF S
    <3>2. Upto(k) \in Seq(S) /\ Len(Upto(k)) = k /\ \A i \in 1 .. k : Upto(k)[i] = LineBody(columns[i])
      BY <3>1
    <3>3. u \in Seq(S) /\ Len(u) = k + 1 /\ \A i \in 1 .. k + 1 : u[i] = LineBody(columns[i])
      BY <3>1
    <3>4. LineBody(c) \in S
      BY <3>1
    <3> HIDE DEF Upto, c
    <3>5. /\ s \in Seq(S) /\ Len(s) = k + 1 /\ s[k + 1] = LineBody(c)
          /\ \A i \in 1 .. k : s[i] = Upto(k)[i]
      BY <3>2, <3>4, AppendProperties
    <3>6. \A i \in 1 .. k + 1 : s[i] = u[i]
      <4> TAKE i \in 1 .. k + 1
      <4>1. CASE i = k + 1
        BY <3>3, <3>5, <4>1 DEF c
      <4>2. CASE i # k + 1
        <5>1. i \in 1 .. k
          BY <4>2
        <5> QED
          BY <3>2, <3>3, <3>5, <5>1
      <4> QED
        BY <4>1, <4>2
    <3> HIDE DEF s, u
    <3>7. s = u
      BY <3>3, <3>5, <3>6, SeqEqual
    <3> QED
      BY <3>7 DEF s, u
  <2>9. 6 * (k + 1) = 6 * k + 6
    OBVIOUS
  <2> HIDE DEF Upto, c
  <2> QED
    BY <2>6, <2>7, <2>8, <2>9
<1>5. Nat \subseteq T
  <2> HIDE DEF T
  <2> QED
    BY <1>3, <1>4, Induct
<1>6. f[6 * N] = [whole |-> Upto(N), begun |-> << >>]
  BY <1>1, <1>5
<1>7. Lines(text) = Upto(N)
  <2> HIDE DEF Upto
  <2> QED
    BY <1>1, <1>2, <1>6 DEF Ended
<1> QED
  BY <1>7 DEF text, N

\* A text without a line feed is one line, or none.
LEMMA OneLine ==
  ASSUME NEW text \in Seq(Token), \A i \in 1 .. Len(text) : text[i] # Text("\n")
  PROVE  IF Len(text) = 0 THEN Lines(text) = << >>
         ELSE Len(Lines(text)) = 1 /\ Lines(text)[1] \in Seq(Token)
              /\ Len(Lines(text)[1]) = Len(text)
<1> DEFINE N == Len(text)
<1>1. N \in Nat
  OBVIOUS
<1>2. PICK f : /\ f \in [0 .. Len(text) -> Cutting]
               /\ f[0] = NothingCut
               /\ \A i \in 1 .. Len(text) : f[i] = Cut(f[i - 1], text[i])
               /\ Lines(text) = Ended(f[Len(text)])
  BY CutByCut
<1> DEFINE T == {i \in Nat : i <= N => f[i].whole = << >> /\ Len(f[i].begun) = i}
<1>3. 0 \in T
  BY <1>2 DEF NothingCut
<1>4. ASSUME NEW i \in Nat, i \in T PROVE i + 1 \in T
  <2> SUFFICES ASSUME i + 1 <= N
               PROVE  f[i + 1].whole = << >> /\ Len(f[i + 1].begun) = i + 1
    OBVIOUS
  <2>1. i + 1 \in 1 .. Len(text) /\ (i + 1) - 1 = i /\ i \in 0 .. Len(text) /\ i <= N
    OBVIOUS
  <2>2. f[i + 1] = Cut(f[i], text[i + 1])
    BY <1>2, <2>1
  <2>3. f[i].whole = << >> /\ Len(f[i].begun) = i /\ f[i].begun \in Seq(Token)
        /\ text[i + 1] \in Token /\ text[i + 1] # Text("\n")
    <3>1. f[i] \in Cutting
      BY <1>2, <2>1
    <3>2. text[i + 1] \in Token
      BY <2>1, ElementOfSeq
    <3> QED
      BY <1>4, <2>1, <3>1, <3>2 DEF Cutting
  <2>4. f[i + 1] = [whole |-> f[i].whole, begun |-> Append(f[i].begun, text[i + 1])]
    BY <2>2, <2>3 DEF Cut
  <2>5. Len(Append(f[i].begun, text[i + 1])) = i + 1
    BY <2>3, AppendProperties
  <2> QED
    BY <2>3, <2>4, <2>5
<1>5. Nat \subseteq T
  <2> HIDE DEF T
  <2> QED
    BY <1>3, <1>4, Induct
<1>6. f[N].whole = << >> /\ Len(f[N].begun) = N /\ f[N].begun \in Seq(Token)
  <2>1. f[N] \in Cutting
    BY <1>1, <1>2
  <2> QED
    BY <1>1, <1>5, <2>1 DEF Cutting
<1>7. CASE N = 0
  <2>1. f[N].begun = << >>
    BY <1>6, <1>7
  <2> QED
    BY <1>2, <1>6, <1>7, <2>1 DEF Ended
<1>8. CASE N # 0
  <2> DEFINE b == f[N].begun
  <2>1. b \in Seq(Token) /\ Len(b) = N /\ b # << >>
    BY <1>6, <1>8
  <2>2. Lines(text) = Append(<< >>, b)
    BY <1>2, <1>6, <2>1 DEF Ended
  <2> HIDE DEF b
  <2>3. Len(Append(<< >>, b)) = 1 /\ Append(<< >>, b)[1] = b
    OBVIOUS
  <2> QED
    BY <1>8, <2>1, <2>2, <2>3
<1> QED
  BY <1>7, <1>8

\* A header whose lines are those of valid columns has these columns.
LEMMA HeaderOfSchema ==
  ASSUME NEW rows, NEW columns \in Seq(Column), ValidHeader(columns)
  PROVE  HeaderOf(rows, [i \in 1 .. Len(columns) |-> LineBody(columns[i])])
            = [rows |-> rows, columns |-> columns]
<1> DEFINE N == Len(columns)
           lines == [i \in 1 .. N |-> LineBody(columns[i])]
           read == [i \in DOMAIN lines |-> ColumnOf(lines[i])]
<1>1. ASSUME NEW i \in 1 .. N PROVE LineOK(lines[i]) /\ ColumnOf(lines[i]) = columns[i]
  <2> DEFINE c == columns[i]
  <2>1. c.type \in Types /\ c \in Column
    BY ColumnFields, ElementOfSeq
  <2>2. lines[i] = LineBody(c)
    OBVIOUS
  <2>3. c = [name |-> c.name, length |-> c.length, type |-> c.type]
    BY <2>1 DEF Column
  <2> HIDE DEF c
  <2>4. LineOK(LineBody(c))
    BY <2>1 DEF LineOK, LineBody, Text, Num
  <2>5. ColumnOf(LineBody(c)) = [name |-> c.name, length |-> c.length, type |-> c.type]
    BY DEF ColumnOf, LineBody, Text, Num
  <2> QED
    BY <2>2, <2>3, <2>4, <2>5 DEF c
<1>2. DOMAIN lines = 1 .. N /\ DOMAIN columns = 1 .. N
  OBVIOUS
<1>3. read = columns
  <2>1. columns = [i \in 1 .. N |-> columns[i]]
    OBVIOUS
  <2> HIDE DEF lines
  <2> QED
    BY <1>1, <1>2, <2>1
<1>4. \A i \in DOMAIN lines : LineOK(lines[i])
  BY <1>1, <1>2
<1>5. HeaderOf(rows, lines) = IF (\A i \in DOMAIN lines : LineOK(lines[i])) /\ ValidHeader(read)
                              THEN [rows |-> rows, columns |-> read] ELSE None
  BY DEF HeaderOf
<1> HIDE DEF lines, read
<1> QED
  BY <1>3, <1>4, <1>5 DEF lines

-----------------------------------------------------------------------------
(* What a file reads as                                                    *)

\* The stream begins with this header.
HasSchema(s, l) ==
    /\ s \in Seq(Token) /\ Len(s) >= SchemaSize(l)
    /\ s[1] = Num(l.rows) /\ s[2] = Num(Len(EncodeColumns(l.columns)))
    /\ \A p \in 1 .. Len(EncodeColumns(l.columns)) : s[2 + p] = EncodeColumns(l.columns)[p]

LEMMA ReadsLines ==
  ASSUME NEW s \in Seq(Token), Len(s) >= 2, NEW r, NEW n \in Nat, s[1] = Num(r), s[2] = Num(n),
         n <= Len(s) - 2
  PROVE  FromReader(s) = HeaderOf(r, Lines(SubSeq(s, 3, 2 + n)))
<1>1. s # None
  BY TableAssumption
<1>2. s[1][1] = "num" /\ s[2][1] = "num" /\ s[1][2] = r /\ s[2][2] = n
  BY DEF Num
<1> DEFINE t == SubSeq(s, 3, 2 + n)
<1>3. FromReader(s) = CHOOSE h \in {HeaderOf(r, lines) : lines \in {Lines(text) : text \in {t}}} : TRUE
  BY <1>1, <1>2 DEF FromReader
<1> HIDE DEF t
<1>4. {HeaderOf(r, lines) : lines \in {Lines(text) : text \in {t}}} = {HeaderOf(r, Lines(t))}
  OBVIOUS
<1> QED
  BY <1>3, <1>4 DEF t

\* A header that was written is read again.
LEMMA SchemaReadBack ==
  ASSUME NEW l \in Layouts, ValidHeader(l.columns), NEW s, HasSchema(s, l)
  PROVE  FromReader(s) = l
<1> DEFINE e == EncodeColumns(l.columns)
           n == Len(e)
           t == SubSeq(s, 3, 2 + n)
<1>1. l.columns \in Seq(Column) /\ l = [rows |-> l.rows, columns |-> l.columns]
  BY TableAssumption
<1>2. e \in Seq(Token) /\ n \in Nat
  BY <1>1, EncodeType
<1>3. /\ s \in Seq(Token) /\ Len(s) >= 2 + n /\ s[1] = Num(l.rows) /\ s[2] = Num(n)
      /\ \A p \in 1 .. n : s[2 + p] = e[p]
  BY DEF HasSchema, SchemaSize
<1> HIDE DEF e
<1>4. Len(s) >= 2 /\ n <= Len(s) - 2 /\ Len(s) \in Nat
  BY <1>2, <1>3
<1>5. FromReader(s) = HeaderOf(l.rows, Lines(t))
  BY <1>2, <1>3, <1>4, ReadsLines
<1>6. t = e
  <2>1. t \in Seq(Token) /\ Len(t) = n /\ \A p \in 1 .. n : t[p] = s[2 + p]
    BY <1>2, <1>3, <1>4
  <2> HIDE DEF t
  <2> QED
    BY <1>2, <1>3, <2>1, SeqEqual
<1>7. Lines(e) = [i \in 1 .. Len(l.columns) |-> LineBody(l.columns[i])]
  BY <1>1, LinesOfSchema DEF e
<1> HIDE DEF t
<1>8. FromReader(s) = HeaderOf(l.rows, [i \in 1 .. Len(l.columns) |-> LineBody(l.columns[i])])
  BY <1>5, <1>6, <1>7
<1> QED
  BY <1>1, <1>8, HeaderOfSchema

\* Zeros read as a table without rows and columns, or not at all.
LEMMA ZerosRead ==
  ASSUME NEW s \in Seq(Token), \A p \in 1 .. Len(s) : s[p] = Zero
  PROVE  FromReader(s) \in {None, Empty}
<1>1. CASE Len(s) < 2
  BY <1>1 DEF FromReader
<1>2. CASE Len(s) >= 2
  <2> DEFINE t == SubSeq(s, 3, 2 + 0)
  <2>1. s[1] = Num(0) /\ s[2] = Num(0) /\ 0 <= Len(s) - 2
    BY <1>2 DEF Zero
  <2>2. FromReader(s) = HeaderOf(0, Lines(t))
    BY <1>2, <2>1, ReadsLines
  <2>3. t \in Seq(Token) /\ Len(t) = 0
    OBVIOUS
  <2>4. Lines(t) = << >>
    <3> HIDE DEF t
    <3>1. \A i \in 1 .. Len(t) : t[i] # Text("\n")
      BY <2>3
    <3> QED
      BY <2>3, <3>1, OneLine
  <2>5. HeaderOf(0, << >>) \in {None, Empty}
    <3>1. [i \in DOMAIN << >> |-> ColumnOf(<< >>[i])] = << >>
      OBVIOUS
    <3> QED
      BY <3>1 DEF HeaderOf, Empty
  <2> QED
    BY <2>2, <2>4, <2>5
<1> QED
  BY <1>1, <1>2

\* The two numbers of a header with columns, and no schema, do not read as a table.
LEMMA PrefixReads ==
  ASSUME NEW l \in Layouts, l.columns # << >>,
         NEW s \in Seq(Token), Len(s) >= 2, s[1] = Num(l.rows),
         s[2] = Num(Len(EncodeColumns(l.columns))),
         \A p \in 3 .. Len(s) : s[p] = Zero
  PROVE  FromReader(s) = None
<1> DEFINE n == Len(EncodeColumns(l.columns))
           t == SubSeq(s, 3, 2 + n)
<1>1. n \in Nat /\ n >= 6 /\ n # 5
  <2>1. l.columns \in Seq(Column)
    BY TableAssumption
  <2>2. n = 6 * Len(l.columns) /\ Len(l.columns) \in Nat
    BY <2>1, EncodeType
  <2>3. Len(l.columns) # 0
    BY <2>1
  <2> HIDE DEF n
  <2> QED
    BY <2>2, <2>3
<1> HIDE DEF n
<1>2. CASE n > Len(s) - 2
  <2>1. s[2][2] = n /\ Len(s) \in Nat
    BY DEF Num, n
  <2>2. ~(s[2][2] <= Len(s) - 2)
    BY <1>1, <1>2, <2>1
  <2> QED
    BY <2>2 DEF FromReader
<1>3. CASE n <= Len(s) - 2
  <2>1. FromReader(s) = HeaderOf(l.rows, Lines(t))
    BY <1>1, <1>3, ReadsLines DEF n
  <2>2. t \in Seq(Token) /\ Len(t) = n /\ \A i \in 1 .. n : t[i] = s[2 + i]
    BY <1>1, <1>3
  <2> HIDE DEF t
  <2>3. \A i \in 1 .. Len(t) : t[i] # Text("\n")
    <3>1. \A i \in 1 .. n : 2 + i \in 3 .. Len(s)
      BY <1>1, <1>3
    <3>2. Zero # Text("\n")
      BY DEF Zero, Num, Text
    <3> QED
      BY <2>2, <3>1, <3>2
  <2>4. Len(Lines(t)) = 1 /\ Len(Lines(t)[1]) = n
    BY <1>1, <2>2, <2>3, OneLine
  <2>5. ~LineOK(Lines(t)[1])
    BY <1>1, <2>4 DEF LineOK
  <2>6. Lines(t) \in Seq(Seq(Token))
    <3>1. PICK f : /\ f \in [0 .. Len(t) -> Cutting]
                   /\ Lines(t) = Ended(f[Len(t)])
      BY <2>2, CutByCut
    <3>2. f[Len(t)] \in Cutting
      BY <1>1, <2>2, <3>1
    <3>3. \E token \in Token : TRUE
      BY DEF Token
    <3> QED
      BY <3>1, <3>2, <3>3, CutType
  <2>7. 1 \in DOMAIN Lines(t)
    BY <2>4, <2>6
  <2> QED
    BY <2>1, <2>5, <2>7 DEF HeaderOf
<1>4. Len(s) \in Nat
  OBVIOUS
<1> QED
  BY <1>1, <1>2, <1>3, <1>4

-----------------------------------------------------------------------------
(* The invariant                                                           *)

AllZero(s) == s \in Seq(Token) /\ \A p \in 1 .. Len(s) : s[p] = Zero

\* The two numbers are written, the schema is not.
PrefixOnly(s, l) ==
    /\ s \in Seq(Token) /\ Len(s) >= 2
    /\ s[1] = Num(l.rows) /\ s[2] = Num(Len(EncodeColumns(l.columns)))
    /\ \A p \in 3 .. Len(s) : s[p] = Zero

\* A table with this header: behind the schema there are bytes.
HasTable(s, l) ==
    /\ ValidHeader(l.columns) /\ HasSchema(s, l)
    /\ \A p \in SchemaSize(l) + 1 .. Len(s) : s[p] \in {Num(b) : b \in Byte}

\* A file that nobody spoiled is a table, or reads as none with cells to write to; during a
\* creation it is what the steps done so far have made of it.
Shape ==
    ~spoiled =>
        /\ creating = None =>
               FromReader(stream) \in {None, Empty} \/ \E l \in Layouts : HasTable(stream, l)
        /\ creating # None /\ creating.at = "prefix" => AllZero(stream)
        /\ creating # None /\ creating.at = "schema" => PrefixOnly(stream, creating.h)

\* While a table is created, the creator has none, and the others' headers are old.
CreatorAlone ==
    creating # None =>
        /\ ValidHeader(creating.h.columns) /\ header[creating.by] = None
        /\ \A u \in User : header[u] # None => u \in stale

Exists == creating # None \/ (\E u \in User : header[u] # None) => stream # None

IInv == TypeOK /\ Shape /\ CreatorAlone /\ Exists /\ HeadersAgree

-----------------------------------------------------------------------------
(* Writing                                                                 *)

LEMMA WrittenAt ==
  ASSUME NEW s \in Seq(Token), NEW at \in Nat, NEW data \in Seq(Token)
  PROVE  /\ Written(s, at, data) \in Seq(Token)
         /\ Len(Written(s, at, data)) = IF at + Len(data) > Len(s) THEN at + Len(data) ELSE Len(s)
         /\ \A p \in 1 .. Len(Written(s, at, data)) :
               /\ p > at /\ p <= at + Len(data) => Written(s, at, data)[p] = data[p - at]
               /\ ~(p > at /\ p <= at + Len(data)) /\ p <= Len(s) => Written(s, at, data)[p] = s[p]
               /\ ~(p > at /\ p <= at + Len(data)) /\ p > Len(s) => Written(s, at, data)[p] = Zero
<1> DEFINE N == IF at + Len(data) > Len(s) THEN at + Len(data) ELSE Len(s)
           E(p) == CASE p \in at + 1 .. at + Len(data) -> data[p - at]
                     [] p \notin at + 1 .. at + Len(data) /\ p <= Len(s) -> s[p]
                     [] OTHER -> Zero
           w == [p \in 1 .. N |-> E(p)]
<1>1. N \in Nat /\ Len(data) \in Nat /\ Len(s) \in Nat
  OBVIOUS
<1>2. Written(s, at, data) = w
  BY DEF Written
<1>3. ASSUME NEW p \in 1 .. N, p > at, p <= at + Len(data) PROVE E(p) = data[p - at] /\ E(p) \in Token
  <2>1. p \in at + 1 .. at + Len(data)
    BY <1>1, <1>3
  <2>2. E(p) = data[p - at]
    BY <2>1
  <2>3. p - at \in 1 .. Len(data)
    BY <1>1, <1>3
  <2> QED
    BY <2>2, <2>3, ElementOfSeq
<1>4. ASSUME NEW p \in 1 .. N, ~(p > at /\ p <= at + Len(data)), p <= Len(s)
      PROVE  E(p) = s[p] /\ E(p) \in Token
  <2>1. p \notin at + 1 .. at + Len(data)
    BY <1>1, <1>4
  <2>2. E(p) = s[p]
    BY <1>4, <2>1
  <2>3. p \in 1 .. Len(s)
    BY <1>1, <1>4
  <2> QED
    BY <2>2, <2>3, ElementOfSeq
<1>5. ASSUME NEW p \in 1 .. N, ~(p > at /\ p <= at + Len(data)), p > Len(s)
      PROVE  E(p) = Zero /\ E(p) \in Token
  <2>1. p \notin at + 1 .. at + Len(data) /\ ~(p <= Len(s))
    BY <1>1, <1>5
  <2>2. E(p) = Zero
    BY <2>1
  <2>3. Zero \in Token
    BY DEF Zero, Num, Token
  <2> QED
    BY <2>2, <2>3
<1>6. \A p \in 1 .. N : E(p) \in Token
  <2> HIDE DEF E
  <2> TAKE p \in 1 .. N
  <2>1. p > Len(s) \/ p <= Len(s)
    BY <1>1
  <2> QED
    BY <1>3, <1>4, <1>5, <2>1
<1>7. w \in Seq(Token) /\ Len(w) = N /\ \A p \in 1 .. N : w[p] = E(p)
  <2> HIDE DEF E, N
  <2> QED
    BY <1>1, <1>6
<1> HIDE DEF w, E
<1> QED
  BY <1>2, <1>3, <1>4, <1>5, <1>7

\* Creating: zeros, then the numbers, then the schema.
LEMMA PrefixWritten ==
  ASSUME NEW l \in Layouts, NEW s, AllZero(s)
  PROVE  PrefixOnly(Written(s, 0, Prefix(l)), l)
<1> DEFINE w == Written(s, 0, Prefix(l))
           n == Len(EncodeColumns(l.columns))
<1>1. l.rows \in Nat /\ n \in Nat
  <2>1. l.columns \in Seq(Column) /\ l.rows \in Nat
    BY TableAssumption
  <2> QED
    BY <2>1, EncodeType
<1>2. /\ Prefix(l) \in Seq(Token) /\ Len(Prefix(l)) = 2
      /\ Prefix(l)[1] = Num(l.rows) /\ Prefix(l)[2] = Num(n)
  <2>1. Num(l.rows) \in Token /\ Num(n) \in Token
    BY <1>1 DEF Num, Token
  <2> QED
    BY <2>1 DEF Prefix
<1>3. s \in Seq(Token) /\ Len(s) \in Nat /\ \A p \in 1 .. Len(s) : s[p] = Zero
  BY DEF AllZero
<1> HIDE DEF n
<1>4. /\ w \in Seq(Token) /\ Len(w) = IF 2 > Len(s) THEN 2 ELSE Len(s)
      /\ \A p \in 1 .. Len(w) :
            /\ p > 0 /\ p <= 2 => w[p] = Prefix(l)[p - 0]
            /\ ~(p > 0 /\ p <= 2) /\ p <= Len(s) => w[p] = s[p]
            /\ ~(p > 0 /\ p <= 2) /\ p > Len(s) => w[p] = Zero
  <2>1. 0 \in Nat /\ 0 + 2 = 2
    OBVIOUS
  <2> QED
    BY <1>2, <1>3, <2>1, WrittenAt
<1> HIDE DEF w
<1>5. Len(w) \in Nat /\ Len(w) >= 2
  BY <1>3, <1>4
<1>6. w[1] = Num(l.rows) /\ w[2] = Num(n)
  <2>1. 1 \in 1 .. Len(w) /\ 2 \in 1 .. Len(w) /\ 1 - 0 = 1 /\ 2 - 0 = 2
    BY <1>5
  <2>2. w[1] = Prefix(l)[1 - 0] /\ w[2] = Prefix(l)[2 - 0]
    BY <1>4, <2>1
  <2> QED
    BY <1>2, <2>1, <2>2
<1>7. \A p \in 3 .. Len(w) : w[p] = Zero
  <2> TAKE p \in 3 .. Len(w)
  <2>1. p \in 1 .. Len(w) /\ ~(p > 0 /\ p <= 2) /\ (p <= Len(s) => p \in 1 .. Len(s))
        /\ (p <= Len(s) \/ p > Len(s))
    BY <1>3, <1>5
  <2> QED
    BY <1>3, <1>4, <2>1
<1> QED
  BY <1>4, <1>5, <1>6, <1>7 DEF PrefixOnly, w, n

LEMMA SchemaWritten ==
  ASSUME NEW l \in Layouts, NEW s, PrefixOnly(s, l)
  PROVE  /\ HasSchema(Written(s, 2, EncodeColumns(l.columns)), l)
         /\ LET w == Written(s, 2, EncodeColumns(l.columns)) IN
            \A p \in SchemaSize(l) + 1 .. Len(w) : w[p] = Zero
<1> DEFINE e == EncodeColumns(l.columns)
           n == Len(e)
           w == Written(s, 2, e)
<1>1. e \in Seq(Token) /\ n \in Nat /\ SchemaSize(l) = 2 + n
  <2>1. l.columns \in Seq(Column)
    BY TableAssumption
  <2> QED
    BY <2>1, EncodeType DEF SchemaSize
<1>2. /\ s \in Seq(Token) /\ Len(s) \in Nat /\ Len(s) >= 2 /\ s[1] = Num(l.rows) /\ s[2] = Num(n)
      /\ \A p \in 3 .. Len(s) : s[p] = Zero
  BY DEF PrefixOnly
<1> HIDE DEF e
<1>3. /\ w \in Seq(Token) /\ Len(w) = IF 2 + n > Len(s) THEN 2 + n ELSE Len(s)
      /\ \A p \in 1 .. Len(w) :
            /\ p > 2 /\ p <= 2 + n => w[p] = e[p - 2]
            /\ ~(p > 2 /\ p <= 2 + n) /\ p <= Len(s) => w[p] = s[p]
            /\ ~(p > 2 /\ p <= 2 + n) /\ p > Len(s) => w[p] = Zero
  BY <1>1, <1>2, WrittenAt
<1> HIDE DEF w, n
<1>4. Len(w) \in Nat /\ Len(w) >= 2 + n /\ Len(w) >= 2
  BY <1>1, <1>2, <1>3
<1>5. w[1] = Num(l.rows) /\ w[2] = Num(n)
  <2>1. /\ 1 \in 1 .. Len(w) /\ 2 \in 1 .. Len(w) /\ ~(1 > 2) /\ ~(2 > 2)
        /\ 1 <= Len(s) /\ 2 <= Len(s)
    BY <1>2, <1>4
  <2>2. w[1] = s[1] /\ w[2] = s[2]
    BY <1>3, <2>1
  <2> QED
    BY <1>2, <2>2
<1>6. \A p \in 1 .. n : w[2 + p] = e[p]
  <2> TAKE p \in 1 .. n
  <2>1. 2 + p \in 1 .. Len(w) /\ 2 + p > 2 /\ 2 + p <= 2 + n /\ (2 + p) - 2 = p
    BY <1>1, <1>4
  <2>2. w[2 + p] = e[(2 + p) - 2]
    BY <1>3, <2>1
  <2> QED
    BY <2>1, <2>2
<1>7. \A p \in 2 + n + 1 .. Len(w) : w[p] = Zero
  <2> TAKE p \in 2 + n + 1 .. Len(w)
  <2>1. p \in 1 .. Len(w) /\ ~(p > 2 /\ p <= 2 + n) /\ (p <= Len(s) => p \in 3 .. Len(s))
        /\ (p <= Len(s) \/ p > Len(s))
    BY <1>1, <1>2, <1>4
  <2> QED
    BY <1>2, <1>3, <2>1
<1>8. HasSchema(w, l)
  BY <1>1, <1>3, <1>4, <1>5, <1>6 DEF HasSchema, n, e
<1> QED
  BY <1>1, <1>7, <1>8 DEF w, e

\* A cell that is written leaves the header alone.
LEMMA CellWritten ==
  ASSUME NEW l \in Layouts, NEW s, HasTable(s, l),
         NEW row \in 0 .. l.rows - 1, NEW c \in 1 .. Len(l.columns), NEW data \in Seq(Byte)
  PROVE  HasTable(Written(s, Position(l, row, c), Nums(data)), l)
<1> DEFINE e == EncodeColumns(l.columns)
           n == Len(e)
           at == Position(l, row, c)
           d == Nums(data)
           w == Written(s, at, d)
           Z == SchemaSize(l)
           Bytes == {Num(b) : b \in Byte}
<1>1. l.columns \in Seq(Column) /\ l.rows \in Nat
  BY TableAssumption
<1>2. Z \in Nat /\ Z = 2 + n /\ n \in Nat
  BY <1>1, EncodeType DEF SchemaSize
<1>3. at \in Nat /\ at >= Z
  BY <1>1, CellsApart
<1>4. d \in Seq(Token) /\ Len(d) = Len(data) /\ \A k \in 1 .. Len(d) : d[k] \in Bytes
  <2>1. \A b \in Byte : Num(b) \in Token /\ Num(b) \in Bytes
    BY TableAssumption DEF Num, Token
  <2>2. DOMAIN data = 1 .. Len(data) /\ Len(data) \in Nat /\ \A k \in 1 .. Len(data) : data[k] \in Byte
    BY ElementOfSeq
  <2>3. d = [k \in 1 .. Len(data) |-> Num(data[k])]
    BY <2>2 DEF Nums
  <2> HIDE DEF d, Bytes
  <2>4. \A k \in 1 .. Len(data) : d[k] \in Token /\ d[k] \in Bytes
    BY <2>1, <2>2, <2>3
  <2>5. d \in [1 .. Len(data) -> Token]
    BY <2>3, <2>4
  <2> QED
    BY <2>2, <2>4, <2>5
<1>5. /\ s \in Seq(Token) /\ Len(s) \in Nat /\ Len(s) >= Z
      /\ s[1] = Num(l.rows) /\ s[2] = Num(n) /\ \A p \in 1 .. n : s[2 + p] = e[p]
      /\ \A p \in Z + 1 .. Len(s) : s[p] \in Bytes
  BY DEF HasTable, HasSchema
<1>6. Zero \in Bytes
  BY TableAssumption DEF Zero
<1> HIDE DEF e, at, d, Z, Bytes
<1>7. /\ w \in Seq(Token) /\ Len(w) = IF at + Len(d) > Len(s) THEN at + Len(d) ELSE Len(s)
      /\ \A p \in 1 .. Len(w) :
            /\ p > at /\ p <= at + Len(d) => w[p] = d[p - at]
            /\ ~(p > at /\ p <= at + Len(d)) /\ p <= Len(s) => w[p] = s[p]
            /\ ~(p > at /\ p <= at + Len(d)) /\ p > Len(s) => w[p] = Zero
  BY <1>3, <1>4, <1>5, WrittenAt
<1> HIDE DEF w, n
<1>8. Len(w) \in Nat /\ Len(w) >= Z /\ Len(w) >= Len(s) /\ Len(d) \in Nat
  <2>1. Len(d) \in Nat /\ Len(w) \in Nat
    BY <1>4, <1>7
  <2>2. Len(w) = IF at + Len(d) > Len(s) THEN at + Len(d) ELSE Len(s)
    BY <1>7
  <2> QED
    BY <1>2, <1>3, <1>5, <2>1, <2>2
<1>9. \A p \in 1 .. Z : w[p] = s[p]
  <2> TAKE p \in 1 .. Z
  <2>1. p \in 1 .. Len(w) /\ ~(p > at /\ p <= at + Len(d)) /\ p <= Len(s)
    BY <1>2, <1>3, <1>5, <1>8
  <2> QED
    BY <1>7, <2>1
<1>10. w[1] = s[1] /\ w[2] = s[2] /\ \A p \in 1 .. n : w[2 + p] = s[2 + p]
  <2>1. 1 \in 1 .. Z /\ 2 \in 1 .. Z /\ \A p \in 1 .. n : 2 + p \in 1 .. Z
    BY <1>2
  <2> QED
    BY <1>9, <2>1
<1>11. \A p \in Z + 1 .. Len(w) : w[p] \in Bytes
  <2> TAKE p \in Z + 1 .. Len(w)
  <2>1. p \in 1 .. Len(w) /\ p \in Nat
    BY <1>2, <1>8
  <2>2. CASE p > at /\ p <= at + Len(d)
    <3>1. p - at \in 1 .. Len(d)
      BY <1>3, <1>8, <2>1, <2>2
    <3> QED
      BY <1>4, <1>7, <2>1, <2>2, <3>1
  <2>3. CASE ~(p > at /\ p <= at + Len(d)) /\ p <= Len(s)
    <3>1. p \in Z + 1 .. Len(s)
      BY <1>2, <1>5, <2>1, <2>3
    <3> QED
      BY <1>5, <1>7, <2>1, <2>3, <3>1
  <2>4. CASE ~(p > at /\ p <= at + Len(d)) /\ p > Len(s)
    BY <1>6, <1>7, <2>1, <2>4
  <2> QED
    BY <1>5, <2>1, <2>2, <2>3, <2>4
<1>12. HasSchema(w, l)
  BY <1>5, <1>7, <1>8, <1>10 DEF HasSchema, n, e, Z
<1> QED
  BY <1>11, <1>12 DEF HasTable, w, at, d, Z, Bytes

-----------------------------------------------------------------------------
(* Type correctness                                                        *)

\* What a creation, an opening and a write may make of the stream and the headers.
LEMMA HeaderTypes ==
  ASSUME IInv, NEW u \in User, header[u] # None
  PROVE  /\ header[u] \in Layouts \cup {Empty}
         /\ header[u].rows \in Nat /\ header[u].columns \in Seq(Column)
         /\ stream \in Seq(Token)
         /\ header[u].columns # << >> => header[u] \in Layouts
<1>1. header[u] \in Layouts \cup {Empty}
  BY DEF IInv, TypeOK
<1>2. stream \in Seq(Token)
  BY DEF IInv, TypeOK, Exists
<1>3. Empty.rows \in Nat /\ Empty.columns = << >> /\ << >> \in Seq(Column)
  BY DEF Empty
<1> QED
  BY <1>1, <1>2, <1>3, TableAssumption

\* A write of a cell by any user: the type of the stream, and, as long as the file is not
\* spoiled, its table stays.
LEMMA CellWrite ==
  ASSUME IInv, NEW u \in User, header[u] # None,
         NEW row \in 0 .. header[u].rows - 1, NEW c \in 1 .. Len(header[u].columns),
         NEW data \in Seq(Byte), WriteCell(u, row, c, data)
  PROVE  /\ stream' \in Seq(Token) /\ spoiled' \in BOOLEAN /\ ~spoiled
         /\ ~spoiled' => /\ u \notin stale /\ creating = None
                         /\ header[u] \in Layouts /\ header[u] = FromReader(stream)
                         /\ HasTable(stream, header[u]) /\ HasTable(stream', header[u])
                         /\ FromReader(stream') = FromReader(stream)
<1> DEFINE h == header[u]
           at == Position(h, row, c)
<1>1. /\ ~spoiled /\ stream' = Written(stream, at, Nums(data)) /\ spoiled' = (u \in stale)
  BY DEF WriteCell
<1>2. h.rows \in Nat /\ h.columns \in Seq(Column) /\ stream \in Seq(Token) /\ h \in Layouts
  <2>1. h.columns \in Seq(Column) => h.columns # << >>
    OBVIOUS
  <2> QED
    BY <2>1, HeaderTypes
<1>3. at \in Nat
  BY <1>2, CellsApart
<1>4. Nums(data) \in Seq(Token)
  <2>1. \A b \in Byte : Num(b) \in Token
    BY TableAssumption DEF Num, Token
  <2>2. DOMAIN data = 1 .. Len(data) /\ Len(data) \in Nat /\ \A k \in 1 .. Len(data) : data[k] \in Byte
    BY ElementOfSeq
  <2>3. Nums(data) = [k \in 1 .. Len(data) |-> Num(data[k])]
    BY <2>2 DEF Nums
  <2>4. \A k \in 1 .. Len(data) : Num(data[k]) \in Token
    BY <2>1, <2>2
  <2>5. [k \in 1 .. Len(data) |-> Num(data[k])] \in Seq(Token)
    BY <2>2, <2>4
  <2> QED
    BY <2>3, <2>5
<1>5. stream' \in Seq(Token)
  <2> HIDE DEF at
  <2> QED
    BY <1>1, <1>2, <1>3, <1>4, WrittenAt
<1>6. ASSUME ~spoiled'
      PROVE  /\ u \notin stale /\ creating = None /\ h = FromReader(stream)
             /\ HasTable(stream, h) /\ HasTable(stream', h) /\ FromReader(stream') = h
  <2>1. u \notin stale
    BY <1>1, <1>6
  <2>2. creating = None
    BY <2>1 DEF IInv, CreatorAlone
  <2>3. h = FromReader(stream)
    BY <1>1, <2>1 DEF IInv, HeadersAgree
  <2>4. h # Empty
    <3>1. Empty.columns = << >> /\ Len(<< >>) = 0
      BY DEF Empty
    <3> QED
      BY <3>1
  <2>5. PICK l \in Layouts : HasTable(stream, l)
    BY <1>1, <2>2, <2>3, <2>4 DEF IInv, Shape
  <2>6. h = l
    BY <2>3, <2>5, SchemaReadBack DEF HasTable
  <2>7. HasTable(stream', h)
    <3> HIDE DEF h
    <3>1. row \in 0 .. h.rows - 1 /\ c \in 1 .. Len(h.columns)
      BY DEF h
    <3> QED
      BY <1>1, <1>2, <2>5, <2>6, <3>1, CellWritten DEF at
  <2>8. FromReader(stream') = h
    BY <1>2, <2>7, SchemaReadBack DEF HasTable
  <2> QED
    BY <2>1, <2>2, <2>3, <2>5, <2>6, <2>7, <2>8
<1>7. spoiled' \in BOOLEAN
  BY <1>1
<1> QED
  BY <1>1, <1>2, <1>5, <1>6, <1>7

\* Values offered are sequences of bytes, and padding a value gives one of the cell's length.
LEMMA PaddedType ==
  ASSUME NEW h, h.columns \in Seq(Column), NEW c \in 1 .. Len(h.columns),
         NEW data \in Seq(Byte)
  PROVE  Padded(h, c, data) \in [1 .. h.columns[c].length -> Byte]
         /\ Padded(h, c, data) \in Seq(Byte)
         /\ Len(Padded(h, c, data)) = h.columns[c].length
<1> DEFINE n == h.columns[c].length
           E(k) == IF k <= Len(data) THEN data[k] ELSE 0
<1>1. n \in Nat
  BY ColumnFields
<1>2. \A k \in 1 .. n : E(k) \in Byte
  <2> TAKE k \in 1 .. n
  <2>1. k <= Len(data) => k \in 1 .. Len(data)
    BY <1>1
  <2> QED
    BY <2>1, ElementOfSeq, TableAssumption
<1>3. Padded(h, c, data) = [k \in 1 .. n |-> E(k)]
  BY DEF Padded
<1> HIDE DEF n, E
<1>4. /\ [k \in 1 .. n |-> E(k)] \in [1 .. n -> Byte]
      /\ [k \in 1 .. n |-> E(k)] \in Seq(Byte) /\ Len([k \in 1 .. n |-> E(k)]) = n
  BY <1>1, <1>2
<1> QED
  BY <1>3, <1>4 DEF n

LEMMA ValuesType ==
  ASSUME NEW data \in Values
  PROVE  data \in Seq(Byte)
<1>1. PICK n \in SomeLengths, b \in Byte : data = [k \in 1 .. n |-> b]
  BY DEF Values
<1>2. n \in Nat
  <2>0. PICK l \in Layouts : \E c \in DOMAIN l.columns : n \in 0 .. l.columns[c].length + 1
    BY DEF SomeLengths
  <2>1. PICK c \in DOMAIN l.columns : n \in 0 .. l.columns[c].length + 1
    BY <2>0
  <2>2. l.columns \in Seq(Column) /\ DOMAIN l.columns = 1 .. Len(l.columns)
    BY TableAssumption
  <2>3. l.columns[c].length \in Nat
    BY <2>2, ColumnFields
  <2> QED
    BY <2>1, <2>3
<1> QED
  BY <1>1, <1>2

\* Setting a cell is the write of a value that fits it, and nothing else.
Sets(u) ==
    /\ Ready(u)
    /\ \E row \in 0 .. header[u].rows - 1, c \in 1 .. Len(header[u].columns), data \in Seq(Byte) :
          Len(data) <= header[u].columns[c].length /\ WriteCell(u, row, c, data)
    /\ UNCHANGED <<header, creating, clearing, stale>>

LEMMA SettersSet ==
  ASSUME IInv, NEW u \in User, NEW row, NEW c, NEW data \in Values,
         SetPadded(u, row, c, data) \/ \E from \in {"value", "bytes"} : SetCell(u, row, c, data, from)
  PROVE  Sets(u)
<1> DEFINE h == header[u]
<1>1. data \in Seq(Byte)
  BY ValuesType
<1>2. ASSUME Ready(u), Fits(h, row, c, data)
      PROVE  /\ row \in 0 .. h.rows - 1 /\ c \in 1 .. Len(h.columns)
             /\ Len(data) <= h.columns[c].length /\ h.columns[c].length \in Nat
             /\ Padded(h, c, data) \in Seq(Byte)
             /\ Len(Padded(h, c, data)) = h.columns[c].length
  <2>1. h.columns \in Seq(Column) /\ DOMAIN h.columns = 1 .. Len(h.columns)
    BY <1>2, HeaderTypes DEF Ready
  <2>2. row \in 0 .. h.rows - 1 /\ c \in 1 .. Len(h.columns) /\ Len(data) <= h.columns[c].length
    BY <1>2, <2>1 DEF Fits
  <2> QED
    BY <1>1, <2>1, <2>2, PaddedType, ColumnFields
<1>3. ASSUME NEW c1, SetPadded(u, row, c1, data) PROVE c1 = c => Sets(u)
  <2> SUFFICES ASSUME c1 = c PROVE Sets(u)
    OBVIOUS
  <2>1. Ready(u) /\ Fits(h, row, c, data) /\ WriteCell(u, row, c, Padded(h, c, data))
        /\ UNCHANGED <<header, creating, clearing, stale>>
    BY <1>3 DEF SetPadded
  <2>2. Len(Padded(h, c, data)) <= h.columns[c].length
    BY <1>2, <2>1
  <2> QED
    BY <1>2, <2>1, <2>2 DEF Sets
<1>4. ASSUME SetValue(u, row, c, data) PROVE Sets(u)
  <2>1. Ready(u) /\ Fits(h, row, c, data) /\ WriteCell(u, row, c, data)
        /\ UNCHANGED <<header, creating, clearing, stale>>
    BY <1>4 DEF SetValue
  <2> QED
    BY <1>1, <1>2, <2>1 DEF Sets
<1>5. SetPadded(u, row, c, data) \/ SetValue(u, row, c, data)
  BY DEF SetCell
<1> QED
  BY <1>3, <1>4, <1>5

\* A step of ClearTableRow that writes.
LEMMA ClearStepWrites ==
  ASSUME IInv, NEW u \in User, clearing[u] # None
  PROVE  /\ header[u] # None /\ clearing[u].row \in 0 .. header[u].rows - 1
         /\ clearing[u].c \in 1 .. Len(header[u].columns)
         /\ Padded(header[u], clearing[u].c, << >>) \in Seq(Byte)
         /\ Len(Padded(header[u], clearing[u].c, << >>))
               = header[u].columns[clearing[u].c].length
         /\ Len(header[u].columns) \in Nat /\ clearing[u] \in Clearing
<1>1. /\ header[u] # None /\ clearing[u].row \in 0 .. header[u].rows - 1
      /\ clearing[u].c \in 1 .. Len(header[u].columns) /\ clearing[u] \in Clearing
  BY DEF IInv, TypeOK
<1>2. header[u].columns \in Seq(Column)
  BY <1>1, HeaderTypes
<1> DEFINE h == header[u]
           c == clearing[u].c
           d == << >>
<1>3. d \in Seq(Byte) /\ h.columns \in Seq(Column) /\ c \in 1 .. Len(h.columns)
  BY <1>1, <1>2
<1> HIDE DEF h, c, d
<1>4. Padded(h, c, d) \in Seq(Byte) /\ Len(Padded(h, c, d)) = h.columns[c].length
  BY <1>3, PaddedType
<1>5. Len(h.columns) \in Nat
  BY <1>3
<1> QED
  BY <1>1, <1>4, <1>5 DEF h, c, d

-----------------------------------------------------------------------------
(* The invariant holds                                                     *)

LEMMA InitInv == Init => IInv
<1> SUFFICES ASSUME Init PROVE IInv
  OBVIOUS
<1>1. TypeOK
  BY DEF Init, TypeOK
<1>2. Shape
  BY DEF Init, Shape, FromReader
<1>3. CreatorAlone /\ Exists /\ HeadersAgree
  BY DEF Init, CreatorAlone, Exists, HeadersAgree
<1> QED
  BY <1>1, <1>2, <1>3 DEF IInv

LEMMA CreateFileInv ==
  ASSUME IInv, NEW u \in User, NEW l \in Layouts, CreateFile(u, l)
  PROVE  IInv'
<1>1. /\ creating = None /\ header[u] = None /\ ValidHeader(l.columns)
      /\ stream' \in {[p \in 1 .. Capacity(l) |-> Zero], << >>}
      /\ creating' = [by |-> u, h |-> l, at |-> "prefix"]
      /\ stale' = {o \in User : header[o] # None} /\ spoiled' = FALSE
      /\ header' = header /\ clearing' = clearing
  BY DEF CreateFile
<1>2. AllZero(stream')
  <2>1. Zero \in Token
    BY DEF Zero, Num, Token
  <2>2. Capacity(l) \in Nat
    <3> DEFINE m == MaxRowLength(l)
    <3>1. l.rows \in Nat /\ l.columns \in Seq(Column) /\ Len(l.columns) \in Nat
      BY TableAssumption
    <3>2. m \in Nat
      BY <3>1, ColumnsInARow DEF MaxRowLength
    <3>3. SchemaSize(l) \in Nat
      BY <3>1, EncodeType DEF SchemaSize
    <3> HIDE DEF m
    <3>4. l.rows * m \in Nat
      BY <3>1, <3>2
    <3> QED
      BY <3>3, <3>4 DEF Capacity, m
  <2> DEFINE n == Capacity(l)
             z == [p \in 1 .. n |-> Zero]
  <2> HIDE DEF n
  <2>3. z \in Seq(Token) /\ \A p \in 1 .. Len(z) : z[p] = Zero
    BY <2>1, <2>2 DEF n
  <2>4. << >> \in Seq(Token) /\ Len(<< >>) = 0
    OBVIOUS
  <2>5. \A p \in 1 .. Len(<< >>) : << >>[p] = Zero
    BY <2>4
  <2>6. stream' = z \/ stream' = << >>
    BY <1>1 DEF n
  <2> HIDE DEF z
  <2> QED
    BY <2>3, <2>4, <2>5, <2>6 DEF AllZero
<1>3. creating' \in Creation /\ creating' # None /\ creating'.h = l /\ creating'.at = "prefix"
      /\ creating'.by = u
  BY <1>1, TableAssumption DEF Creation
<1>4. TypeOK'
  BY <1>1, <1>2, <1>3 DEF IInv, TypeOK, AllZero
<1>5. Shape'
  BY <1>2, <1>3 DEF Shape
<1>6. CreatorAlone'
  BY <1>1, <1>3 DEF CreatorAlone
<1>7. Exists'
  BY <1>2, TableAssumption DEF Exists, AllZero
<1>8. HeadersAgree'
  BY <1>1 DEF HeadersAgree
<1> QED
  BY <1>4, <1>5, <1>6, <1>7, <1>8 DEF IInv

LEMMA WritePrefixInv ==
  ASSUME IInv, WritePrefix
  PROVE  IInv'
<1>1. /\ creating # None /\ creating.at = "prefix"
      /\ stream' = Written(stream, 0, Prefix(creating.h))
      /\ creating' = [creating EXCEPT !.at = "schema"]
      /\ header' = header /\ clearing' = clearing /\ stale' = stale /\ spoiled' = spoiled
  BY DEF WritePrefix
<1> DEFINE l == creating.h
<1>2. creating \in Creation /\ l \in Layouts /\ l.rows \in Nat /\ l.columns \in Seq(Column)
  <2>1. creating \in Creation
    BY <1>1 DEF IInv, TypeOK
  <2> QED
    BY <2>1, TableAssumption DEF Creation
<1>3. creating' \in Creation /\ creating' # None /\ creating'.h = l /\ creating'.at = "schema"
      /\ creating'.by = creating.by
  <2>1. creating' \in Creation /\ creating'.h = l /\ creating'.at = "schema"
        /\ creating'.by = creating.by
    BY <1>1, <1>2 DEF Creation
  <2> QED
    BY <2>1, TableAssumption
<1>4. stream \in Seq(Token)
  BY <1>1 DEF IInv, TypeOK, Exists
<1>5. Prefix(l) \in Seq(Token)
  <2>1. Len(EncodeColumns(l.columns)) \in Nat
    BY <1>2, EncodeType
  <2>2. Num(l.rows) \in Token /\ Num(Len(EncodeColumns(l.columns))) \in Token
    BY <1>2, <2>1 DEF Num, Token
  <2> QED
    BY <2>2 DEF Prefix
<1>6. stream' \in Seq(Token)
  <2> HIDE DEF l
  <2>1. stream' = Written(stream, 0, Prefix(l))
    BY <1>1 DEF l
  <2> QED
    BY <1>4, <1>5, <2>1, WrittenAt
<1>7. TypeOK'
  BY <1>1, <1>3, <1>6 DEF IInv, TypeOK
<1>8. ~spoiled' => PrefixOnly(stream', l)
  <2> SUFFICES ASSUME ~spoiled' PROVE PrefixOnly(stream', l)
    OBVIOUS
  <2>1. AllZero(stream)
    BY <1>1 DEF IInv, Shape
  <2> QED
    BY <1>1, <1>2, <2>1, PrefixWritten
<1>9. Shape'
  BY <1>3, <1>8 DEF Shape
<1>10. CreatorAlone'
  BY <1>1, <1>3 DEF IInv, CreatorAlone
<1>11. Exists'
  BY <1>6, TableAssumption DEF Exists
<1>12. HeadersAgree'
  BY <1>1 DEF IInv, CreatorAlone, HeadersAgree
<1> QED
  BY <1>7, <1>9, <1>10, <1>11, <1>12 DEF IInv

LEMMA WriteSchemaInv ==
  ASSUME IInv, WriteSchema
  PROVE  IInv'
<1> DEFINE l == creating.h
           by == creating.by
<1>1. /\ creating # None /\ creating.at = "schema"
      /\ stream' = Written(stream, 2, EncodeColumns(l.columns))
      /\ header' = [header EXCEPT ![by] = l] /\ creating' = None
      /\ clearing' = clearing /\ stale' = stale /\ spoiled' = spoiled
  BY DEF WriteSchema
<1>2. creating \in Creation /\ l \in Layouts /\ by \in User /\ l # None
  <2>1. creating \in Creation
    BY <1>1 DEF IInv, TypeOK
  <2> QED
    BY <2>1, TableAssumption DEF Creation
<1>3. ValidHeader(l.columns) /\ header[by] = None /\ \A u \in User : header[u] # None => u \in stale
  BY <1>1 DEF IInv, CreatorAlone
<1>4. header \in [User -> Layouts \cup {Empty, None}]
  BY DEF IInv, TypeOK
<1>5. header'[by] = l /\ \A u \in User \ {by} : header'[u] = header[u]
  BY <1>1, <1>2, <1>4
<1>6. stream' \in Seq(Token)
  <2>1. stream \in Seq(Token)
    BY <1>1 DEF IInv, TypeOK, Exists
  <2>2. EncodeColumns(l.columns) \in Seq(Token)
    BY <1>2, EncodeType, TableAssumption
  <2> HIDE DEF l
  <2> QED
    BY <1>1, <2>1, <2>2, WrittenAt
<1>7. TypeOK'
  <2>1. header' \in [User -> Layouts \cup {Empty, None}]
    BY <1>1, <1>2, <1>4
  <2>2. \A u \in User : clearing[u] # None => u # by /\ header'[u] = header[u]
    BY <1>3, <1>5 DEF IInv, TypeOK
  <2>3. stale \subseteq {u \in User : header'[u] # None}
    BY <1>2, <1>3, <1>5 DEF IInv, TypeOK
  <2>4. /\ clearing' \in [User -> Clearing \cup {None}] /\ spoiled' \in BOOLEAN
    BY <1>1 DEF IInv, TypeOK
  <2>5. \A u \in User : clearing'[u] # None =>
           /\ header'[u] # None /\ clearing'[u].row \in 0 .. header'[u].rows - 1
           /\ clearing'[u].c \in 1 .. Len(header'[u].columns)
    BY <1>1, <2>2 DEF IInv, TypeOK
  <2>6. creating' \in Creation \cup {None} /\ stale' = stale
    BY <1>1
  <2> HIDE DEF l, by
  <2> QED
    BY <1>6, <2>1, <2>3, <2>4, <2>5, <2>6 DEF TypeOK
<1>8. ~spoiled' => HasTable(stream', l) /\ FromReader(stream') = l
  <2> SUFFICES ASSUME ~spoiled' PROVE HasTable(stream', l) /\ FromReader(stream') = l
    OBVIOUS
  <2>1. PrefixOnly(stream, l)
    BY <1>1 DEF IInv, Shape
  <2>2. /\ HasSchema(stream', l)
        /\ \A p \in SchemaSize(l) + 1 .. Len(stream') : stream'[p] = Zero
    BY <1>1, <1>2, <2>1, SchemaWritten
  <2>3. Zero \in {Num(b) : b \in Byte}
    BY TableAssumption DEF Zero
  <2>4. HasTable(stream', l)
    BY <1>3, <2>2, <2>3 DEF HasTable
  <2> QED
    BY <1>2, <1>3, <2>2, <2>4, SchemaReadBack
<1>9. Shape'
  BY <1>1, <1>2, <1>8 DEF Shape
<1>10. CreatorAlone'
  BY <1>1 DEF CreatorAlone
<1>11. Exists'
  BY <1>6, TableAssumption DEF Exists
<1>12. HeadersAgree'
  BY <1>1, <1>3, <1>5, <1>8 DEF HeadersAgree
<1> QED
  BY <1>7, <1>9, <1>10, <1>11, <1>12 DEF IInv

\* A layout without columns needs no schema: its table is there with the two numbers.
LEMMA NoColumns ==
  ASSUME NEW l \in Layouts, ValidHeader(l.columns), l.columns = << >>, NEW s, PrefixOnly(s, l)
  PROVE  HasTable(s, l) /\ \A p \in SchemaSize(l) + 1 .. Len(s) : s[p] = Zero
<1>1. l.columns \in Seq(Column) /\ Len(l.columns) = 0
  BY TableAssumption
<1>2. Len(EncodeColumns(l.columns)) = 0
  <2>1. Len(EncodeColumns(l.columns)) = 6 * Len(l.columns)
    BY <1>1, EncodeType
  <2> QED
    BY <1>1, <2>1
<1>3. SchemaSize(l) = 2 /\ SchemaSize(l) + 1 = 3
  BY <1>2 DEF SchemaSize
<1>4. \A p \in SchemaSize(l) + 1 .. Len(s) : s[p] = Zero
  BY <1>3 DEF PrefixOnly
<1>5. Zero \in {Num(b) : b \in Byte}
  BY TableAssumption DEF Zero
<1>6. HasSchema(s, l)
  BY <1>2, <1>3 DEF HasSchema, PrefixOnly
<1> QED
  BY <1>4, <1>5, <1>6 DEF HasTable

\* What a creation that breaks off leaves: nothing with columns.
LEMMA BrokenOff ==
  ASSUME IInv, ~spoiled, creating # None
  PROVE  FromReader(stream) \in {None, Empty} \/ \E l \in Layouts : HasTable(stream, l)
<1> DEFINE l == creating.h
<1>1. creating \in Creation /\ l \in Layouts /\ creating.at \in {"prefix", "schema"}
  <2>1. creating \in Creation
    BY DEF IInv, TypeOK
  <2> QED
    BY <2>1 DEF Creation
<1>2. CASE creating.at = "prefix"
  <2>1. AllZero(stream)
    BY <1>2 DEF IInv, Shape
  <2> QED
    BY <2>1, ZerosRead DEF AllZero
<1>3. CASE creating.at = "schema"
  <2>1. PrefixOnly(stream, l)
    BY <1>3 DEF IInv, Shape
  <2>2. CASE l.columns # << >>
    <3> HIDE DEF l
    <3>1. FromReader(stream) = None
      BY <1>1, <2>1, <2>2, PrefixReads DEF PrefixOnly
    <3> QED
      BY <3>1
  <2>3. CASE l.columns = << >>
    <3>1. ValidHeader(l.columns)
      BY DEF IInv, CreatorAlone
    <3>2. HasTable(stream, l)
      BY <1>1, <2>1, <2>3, <3>1, NoColumns
    <3> QED
      BY <1>1, <3>2
  <2> QED
    BY <2>2, <2>3
<1> QED
  BY <1>1, <1>2, <1>3

\* A file that nobody spoiled has a table that reads back, or is none.
LEMMA FoundTable ==
  ASSUME IInv, ~spoiled
  PROVE  FromReader(stream) \in {None, Empty}
         \/ \E l \in Layouts : HasTable(stream, l) /\ FromReader(stream) = l
<1>1. FromReader(stream) \in {None, Empty} \/ \E l \in Layouts : HasTable(stream, l)
  <2>1. CASE creating = None
    BY <2>1 DEF IInv, Shape
  <2>2. CASE creating # None
    BY <2>2, BrokenOff
  <2> QED
    BY <2>1, <2>2
<1>2. ASSUME NEW l \in Layouts, HasTable(stream, l) PROVE FromReader(stream) = l
  BY <1>2, SchemaReadBack DEF HasTable
<1> QED
  BY <1>1, <1>2

\* What is found in a file that nobody spoiled is one of the layouts, or Empty, or nothing.
LEMMA FoundHeader ==
  ASSUME IInv, ~spoiled
  PROVE  FromReader(stream) \in Layouts \cup {Empty, None}
<1> QED
  BY FoundTable

LEMMA CreateFailsInv ==
  ASSUME IInv, CreateFails
  PROVE  IInv'
<1>1. /\ creating # None /\ creating' = None /\ stream' = stream /\ header' = header
      /\ clearing' = clearing /\ stale' = stale /\ spoiled' = spoiled
  BY DEF CreateFails
<1>2. TypeOK'
  BY <1>1 DEF IInv, TypeOK
<1>3. Shape'
  BY <1>1, BrokenOff DEF Shape
<1>4. CreatorAlone'
  BY <1>1 DEF CreatorAlone
<1>5. Exists'
  BY <1>1 DEF IInv, Exists
<1>6. HeadersAgree'
  BY <1>1 DEF IInv, HeadersAgree
<1> QED
  BY <1>2, <1>3, <1>4, <1>5, <1>6 DEF IInv

LEMMA CrashInv ==
  ASSUME IInv, Crash
  PROVE  IInv'
<1>1. /\ header' = [u \in User |-> None] /\ clearing' = [u \in User |-> None]
      /\ creating' = None /\ stale' = {} /\ stream' = stream /\ spoiled' = spoiled
  BY DEF Crash
<1>2. TypeOK'
  BY <1>1 DEF IInv, TypeOK
<1>3. Shape'
  BY <1>1, BrokenOff DEF IInv, Shape
<1>4. CreatorAlone'
  BY <1>1 DEF CreatorAlone
<1>5. Exists'
  BY <1>1 DEF IInv, Exists
<1>6. HeadersAgree'
  BY <1>1 DEF HeadersAgree
<1> QED
  BY <1>2, <1>3, <1>4, <1>5, <1>6 DEF IInv

LEMMA OpenInv ==
  ASSUME IInv, NEW u \in User, Open(u)
  PROVE  IInv'
<1> DEFINE h == FromReader(stream)
<1>1. /\ header[u] = None /\ ~spoiled /\ (creating # None => creating.by # u)
      /\ h # None /\ header' = [header EXCEPT ![u] = h]
      /\ stale' = IF creating = None THEN stale ELSE stale \cup {u}
      /\ stream' = stream /\ creating' = creating /\ clearing' = clearing /\ spoiled' = spoiled
  BY DEF Open
<1>2. h \in Layouts \cup {Empty, None}
  BY <1>1, FoundHeader
<1>3. header \in [User -> Layouts \cup {Empty, None}]
  BY DEF IInv, TypeOK
<1>4. header'[u] = h /\ \A o \in User \ {u} : header'[o] = header[o]
  BY <1>1, <1>3
<1>5. TypeOK'
  <2>1. header' \in [User -> Layouts \cup {Empty, None}]
    BY <1>1, <1>2, <1>3
  <2>2. \A o \in User : clearing[o] # None => o # u /\ header'[o] = header[o]
    BY <1>1, <1>4 DEF IInv, TypeOK
  <2>3. stale' \subseteq {o \in User : header'[o] # None}
    BY <1>1, <1>4 DEF IInv, TypeOK
  <2>4. \A o \in User : clearing'[o] # None =>
           /\ header'[o] # None /\ clearing'[o].row \in 0 .. header'[o].rows - 1
           /\ clearing'[o].c \in 1 .. Len(header'[o].columns)
    BY <1>1, <2>2 DEF IInv, TypeOK
  <2>5. /\ clearing' \in [User -> Clearing \cup {None}] /\ spoiled' \in BOOLEAN
        /\ stream' \in Seq(Token) \cup {None} /\ creating' \in Creation \cup {None}
    BY <1>1 DEF IInv, TypeOK
  <2> QED
    BY <2>1, <2>3, <2>4, <2>5 DEF TypeOK
<1>6. Shape'
  BY <1>1 DEF IInv, Shape
<1>7. CreatorAlone'
  <2> SUFFICES ASSUME creating # None
               PROVE  /\ ValidHeader(creating.h.columns) /\ header'[creating.by] = None
                      /\ \A o \in User : header'[o] # None => o \in stale'
    BY <1>1 DEF CreatorAlone
  <2>1. ValidHeader(creating.h.columns) /\ header[creating.by] = None
    BY DEF IInv, CreatorAlone
  <2>2. creating.by \in User \ {u}
    BY <1>1 DEF IInv, TypeOK, Creation
  <2>3. \A o \in User : header'[o] # None => o \in stale'
    BY <1>1, <1>4 DEF IInv, CreatorAlone
  <2> QED
    BY <1>4, <2>1, <2>2, <2>3
<1>8. Exists'
  <2>1. stream # None
    BY <1>1 DEF FromReader
  <2> QED
    BY <1>1, <2>1 DEF Exists
<1>9. HeadersAgree'
  <2>1. \A o \in User \ stale' : header'[o] # None => header'[o] = h
    <3>1. \A o \in User \ stale : header[o] # None => header[o] = h
      BY <1>1 DEF IInv, HeadersAgree
    <3> QED
      BY <1>1, <1>4, <3>1
  <2> QED
    BY <1>1, <2>1 DEF HeadersAgree
<1> QED
  BY <1>5, <1>6, <1>7, <1>8, <1>9 DEF IInv

LEMMA CloseInv ==
  ASSUME IInv, NEW u \in User, Close(u)
  PROVE  IInv'
<1>1. /\ header[u] # None /\ clearing[u] = None
      /\ header' = [header EXCEPT ![u] = None] /\ stale' = stale \ {u}
      /\ stream' = stream /\ creating' = creating /\ clearing' = clearing /\ spoiled' = spoiled
  BY DEF Close, Ready
<1>2. header \in [User -> Layouts \cup {Empty, None}]
  BY DEF IInv, TypeOK
<1>3. header'[u] = None /\ \A o \in User \ {u} : header'[o] = header[o]
  BY <1>1, <1>2
<1>4. TypeOK'
  <2>1. header' \in [User -> Layouts \cup {Empty, None}]
    BY <1>1, <1>2
  <2>2. \A o \in User : clearing[o] # None => o # u /\ header'[o] = header[o]
    BY <1>1, <1>3
  <2>3. stale' \subseteq {o \in User : header'[o] # None}
    BY <1>1, <1>3 DEF IInv, TypeOK
  <2>4. \A o \in User : clearing'[o] # None =>
           /\ header'[o] # None /\ clearing'[o].row \in 0 .. header'[o].rows - 1
           /\ clearing'[o].c \in 1 .. Len(header'[o].columns)
    BY <1>1, <2>2 DEF IInv, TypeOK
  <2>5. /\ clearing' \in [User -> Clearing \cup {None}] /\ spoiled' \in BOOLEAN
        /\ stream' \in Seq(Token) \cup {None} /\ creating' \in Creation \cup {None}
    BY <1>1 DEF IInv, TypeOK
  <2> QED
    BY <2>1, <2>3, <2>4, <2>5 DEF TypeOK
<1>5. Shape'
  BY <1>1 DEF IInv, Shape
<1>6. CreatorAlone'
  <2> SUFFICES ASSUME creating # None
               PROVE  /\ ValidHeader(creating.h.columns) /\ header'[creating.by] = None
                      /\ \A o \in User : header'[o] # None => o \in stale'
    BY <1>1 DEF CreatorAlone
  <2>1. ValidHeader(creating.h.columns) /\ header[creating.by] = None
    BY DEF IInv, CreatorAlone
  <2>2. creating.by \in User
    BY DEF IInv, TypeOK, Creation
  <2>3. \A o \in User : header'[o] # None => o \in stale'
    BY <1>1, <1>3 DEF IInv, CreatorAlone
  <2> QED
    BY <1>3, <2>1, <2>2, <2>3
<1>7. Exists'
  BY <1>1, <1>3 DEF IInv, Exists
<1>8. HeadersAgree'
  BY <1>1, <1>3 DEF IInv, HeadersAgree
<1> QED
  BY <1>4, <1>5, <1>6, <1>7, <1>8 DEF IInv

\* A step that only moves clearing, or writes a cell.
LEMMA ClearBeginInv ==
  ASSUME IInv, NEW u \in User, NEW row \in SomeRows, ClearBegin(u, row)
  PROVE  IInv'
<1>1. /\ header[u] # None /\ row \in 0 .. header[u].rows - 1 /\ header[u].columns # << >>
      /\ clearing' = [clearing EXCEPT ![u] = [row |-> row, c |-> 1]]
      /\ stream' = stream /\ header' = header /\ creating' = creating /\ stale' = stale
      /\ spoiled' = spoiled
  BY DEF ClearBegin, Ready
<1>2. clearing \in [User -> Clearing \cup {None}]
  BY DEF IInv, TypeOK
<1>3. clearing'[u] = [row |-> row, c |-> 1] /\ \A o \in User \ {u} : clearing'[o] = clearing[o]
  BY <1>1, <1>2
<1>4. header[u].columns \in Seq(Column) /\ header[u].rows \in Nat
  BY <1>1, HeaderTypes
<1>5. 1 \in 1 .. Len(header[u].columns) /\ row \in Nat
  <2> DEFINE s == header[u].columns
  <2>1. s \in Seq(Column) /\ s # << >>
    BY <1>1, <1>4
  <2> HIDE DEF s
  <2>2. 1 \in 1 .. Len(s)
    BY <2>1
  <2> QED
    BY <1>1, <1>4, <2>2 DEF s
<1>6. TypeOK'
  <2>1. clearing' \in [User -> Clearing \cup {None}]
    BY <1>1, <1>2, <1>5 DEF Clearing
  <2>2. \A o \in User : clearing'[o] # None =>
           /\ header'[o] # None /\ clearing'[o].row \in 0 .. header'[o].rows - 1
           /\ clearing'[o].c \in 1 .. Len(header'[o].columns)
    <3> TAKE o \in User
    <3>1. CASE o = u
      BY <1>1, <1>3, <1>5, <3>1
    <3>2. CASE o # u
      BY <1>1, <1>3, <3>2 DEF IInv, TypeOK
    <3> QED
      BY <3>1, <3>2
  <2> QED
    BY <1>1, <2>1, <2>2 DEF IInv, TypeOK
<1>7. Shape' /\ CreatorAlone' /\ Exists' /\ HeadersAgree'
  BY <1>1 DEF IInv, Shape, CreatorAlone, Exists, HeadersAgree
<1> QED
  BY <1>6, <1>7 DEF IInv

\* The parts of the invariant that a write of a cell can disturb.
LEMMA CellWriteInv ==
  ASSUME IInv, NEW u \in User, header[u] # None,
         NEW row \in 0 .. header[u].rows - 1, NEW c \in 1 .. Len(header[u].columns),
         NEW data \in Seq(Byte), WriteCell(u, row, c, data),
         header' = header, creating' = creating, stale' = stale
  PROVE  /\ Shape' /\ CreatorAlone' /\ Exists' /\ HeadersAgree'
         /\ stream' \in Seq(Token) /\ spoiled' \in BOOLEAN
<1>1. /\ stream' \in Seq(Token) /\ spoiled' \in BOOLEAN /\ ~spoiled
      /\ ~spoiled' => /\ creating = None /\ header[u] \in Layouts
                      /\ HasTable(stream', header[u]) /\ FromReader(stream') = FromReader(stream)
  BY CellWrite
<1>2. Shape'
  BY <1>1 DEF Shape
<1>3. CreatorAlone'
  BY DEF IInv, CreatorAlone
<1>4. Exists'
  BY <1>1, TableAssumption DEF Exists
<1>5. HeadersAgree'
  BY <1>1 DEF IInv, HeadersAgree
<1> QED
  BY <1>1, <1>2, <1>3, <1>4, <1>5

LEMMA SetsInv ==
  ASSUME IInv, NEW u \in User, Sets(u)
  PROVE  IInv'
<1>1. /\ header[u] # None
      /\ header' = header /\ creating' = creating /\ clearing' = clearing /\ stale' = stale
  BY DEF Sets, Ready
<1>2. PICK row \in 0 .. header[u].rows - 1, c \in 1 .. Len(header[u].columns), data \in Seq(Byte) :
         WriteCell(u, row, c, data)
  BY DEF Sets
<1>3. /\ Shape' /\ CreatorAlone' /\ Exists' /\ HeadersAgree'
      /\ stream' \in Seq(Token) /\ spoiled' \in BOOLEAN
  BY <1>1, <1>2, CellWriteInv
<1>4. TypeOK'
  BY <1>1, <1>3 DEF IInv, TypeOK
<1> QED
  BY <1>3, <1>4 DEF IInv

LEMMA ClearStepInv ==
  ASSUME IInv, NEW u \in User, ClearStep(u)
  PROVE  IInv'
<1> DEFINE h == header[u]
           k == clearing[u]
           d == Padded(h, k.c, << >>)
<1>1. k # None /\ header' = header /\ creating' = creating /\ stale' = stale
  BY DEF ClearStep
<1>2. /\ h # None /\ k.row \in 0 .. h.rows - 1 /\ k.c \in 1 .. Len(h.columns)
      /\ d \in Seq(Byte) /\ Len(h.columns) \in Nat /\ k \in Clearing
  BY <1>1, ClearStepWrites
<1>3. clearing \in [User -> Clearing \cup {None}]
  BY DEF IInv, TypeOK
<1>4. CASE /\ WriteCell(u, k.row, k.c, d)
           /\ clearing' = [clearing EXCEPT ![u] =
                  IF k.c = Len(h.columns) THEN None ELSE [k EXCEPT !.c = k.c + 1]]
  <2>1. /\ Shape' /\ CreatorAlone' /\ Exists' /\ HeadersAgree'
        /\ stream' \in Seq(Token) /\ spoiled' \in BOOLEAN
    <3> HIDE DEF d
    <3> QED
      BY <1>1, <1>2, <1>4, CellWriteInv
  <2>2. /\ clearing'[u] = IF k.c = Len(h.columns) THEN None ELSE [k EXCEPT !.c = k.c + 1]
        /\ \A o \in User \ {u} : clearing'[o] = clearing[o]
    BY <1>3, <1>4
  <2>3. [k EXCEPT !.c = k.c + 1] \in Clearing /\ [k EXCEPT !.c = k.c + 1].row = k.row
        /\ [k EXCEPT !.c = k.c + 1].c = k.c + 1
    BY <1>2 DEF Clearing
  <2>4. clearing' \in [User -> Clearing \cup {None}]
    <3> HIDE DEF k, h
    <3> QED
      BY <1>3, <1>4, <2>3
  <2>5. \A o \in User : clearing'[o] # None =>
           /\ header'[o] # None /\ clearing'[o].row \in 0 .. header'[o].rows - 1
           /\ clearing'[o].c \in 1 .. Len(header'[o].columns)
    <3> TAKE o \in User
    <3>1. CASE o = u
      <4>1. CASE k.c = Len(h.columns)
        BY <2>2, <3>1, <4>1
      <4>2. CASE k.c # Len(h.columns)
        <5>1. k.c + 1 \in 1 .. Len(h.columns)
          BY <1>2, <4>2
        <5> QED
          BY <1>1, <1>2, <2>2, <2>3, <3>1, <4>2, <5>1
      <4> QED
        BY <4>1, <4>2
    <3>2. CASE o # u
      BY <1>1, <2>2, <3>2 DEF IInv, TypeOK
    <3> QED
      BY <3>1, <3>2
  <2>6. TypeOK'
    BY <1>1, <2>1, <2>4, <2>5 DEF IInv, TypeOK
  <2> QED
    BY <2>1, <2>6 DEF IInv
<1>5. CASE /\ clearing' = [clearing EXCEPT ![u] = None]
           /\ stream' = stream /\ spoiled' = spoiled
  <2>1. clearing'[u] = None /\ \A o \in User \ {u} : clearing'[o] = clearing[o]
    BY <1>3, <1>5
  <2>2. clearing' \in [User -> Clearing \cup {None}]
    BY <1>3, <1>5
  <2>3. \A o \in User : clearing'[o] # None =>
           /\ header'[o] # None /\ clearing'[o].row \in 0 .. header'[o].rows - 1
           /\ clearing'[o].c \in 1 .. Len(header'[o].columns)
    BY <1>1, <2>1 DEF IInv, TypeOK
  <2>4. TypeOK'
    BY <1>1, <1>5, <2>2, <2>3 DEF IInv, TypeOK
  <2> QED
    BY <1>1, <1>5, <2>4 DEF IInv, Shape, CreatorAlone, Exists, HeadersAgree
<1>6. \/ /\ WriteCell(u, k.row, k.c, d)
         /\ clearing' = [clearing EXCEPT ![u] =
               IF k.c = Len(h.columns) THEN None ELSE [k EXCEPT !.c = k.c + 1]]
      \/ /\ clearing' = [clearing EXCEPT ![u] = None]
         /\ stream' = stream /\ spoiled' = spoiled
  BY DEF ClearStep
<1> QED
  BY <1>4, <1>5, <1>6

\* What a step of Next is.
LEMMA StepKinds ==
  ASSUME IInv, Next
  PROVE  \/ WritePrefix \/ WriteSchema \/ CreateFails \/ Crash
         \/ \E u \in User :
               \/ \E l \in Layouts : CreateFile(u, l)
               \/ Open(u) \/ Close(u) \/ ClearStep(u) \/ Sets(u)
               \/ \E row \in SomeRows : ClearBegin(u, row)
<1>1. ASSUME NEW u \in User, NEW row \in SomeRows, NEW c \in SomeColumns, NEW data \in Values,
             \/ SetPadded(u, row, c, data)
             \/ \E from \in {"value", "bytes"} : SetCell(u, row, c, data, from)
      PROVE  Sets(u)
  BY <1>1, SettersSet
<1> QED
  BY <1>1 DEF Next

LEMMA NextInv == IInv /\ [Next]_vars => IInv'
<1> SUFFICES ASSUME IInv, [Next]_vars PROVE IInv'
  OBVIOUS
<1>1. ASSUME UNCHANGED vars PROVE IInv'
  BY <1>1 DEF vars, IInv, TypeOK, Shape, CreatorAlone, Exists, HeadersAgree
<1>2. ASSUME Next PROVE IInv'
  <2>1. CASE WritePrefix
    BY <2>1, WritePrefixInv
  <2>2. CASE WriteSchema
    BY <2>2, WriteSchemaInv
  <2>3. CASE CreateFails
    BY <2>3, CreateFailsInv
  <2>4. CASE Crash
    BY <2>4, CrashInv
  <2>5. ASSUME NEW u \in User, NEW l \in Layouts, CreateFile(u, l) PROVE IInv'
    BY <2>5, CreateFileInv
  <2>6. ASSUME NEW u \in User, Open(u) PROVE IInv'
    BY <2>6, OpenInv
  <2>7. ASSUME NEW u \in User, Close(u) PROVE IInv'
    BY <2>7, CloseInv
  <2>8. ASSUME NEW u \in User, ClearStep(u) PROVE IInv'
    BY <2>8, ClearStepInv
  <2>9. ASSUME NEW u \in User, Sets(u) PROVE IInv'
    BY <2>9, SetsInv
  <2>10. ASSUME NEW u \in User, NEW row \in SomeRows, ClearBegin(u, row) PROVE IInv'
    BY <2>10, ClearBeginInv
  <2> QED
    BY <1>2, StepKinds, <2>1, <2>2, <2>3, <2>4, <2>5, <2>6, <2>7, <2>8, <2>9, <2>10
<1> QED
  BY <1>1, <1>2

\* The types.
THEOREM TableTypes == Spec => []TypeOK
<1>1. IInv => TypeOK
  BY DEF IInv
<1> QED
  BY InitInv, NextInv, <1>1, PTL DEF Spec

\* Whoever is not stale works with the header that is in the file.
THEOREM TableHeadersAgree == Spec => []HeadersAgree
<1>1. IInv => HeadersAgree
  BY DEF IInv
<1> QED
  BY InitInv, NextInv, <1>1, PTL DEF Spec

-----------------------------------------------------------------------------
(* The file is a cell store                                                *)

CellAt(s, h, r, c) == Cells(s, Position(h, r, c), h.columns[c].length)

CellsIn(s, h) ==
    [rc \in (0 .. h.rows - 1) \X DOMAIN h.columns |-> CellAt(s, h, rc[1], rc[2])]

FoundIn(s, isSpoiled) ==
    IF FromReader(s) \in {None, Empty} \/ isSpoiled THEN None
    ELSE [layout |-> FromReader(s), cells |-> CellsIn(s, FromReader(s))]

\* What GetValue and Found choose, they have no choice about.
LEMMA ValueRead ==
  ASSUME NEW s, NEW h, NEW r, NEW c
  PROVE  GetValue(s, h, r, c) = CellAt(s, h, r, c)
<1> DEFINE P == Position(h, r, c)
           N == h.columns[c].length
<1>1. GetValue(s, h, r, c) = CHOOSE v \in {Cells(s, at, N) : at \in {P}} : TRUE
  BY DEF GetValue
<1> HIDE DEF P, N
<1>2. {Cells(s, at, N) : at \in {P}} = {Cells(s, P, N)}
  OBVIOUS
<1> QED
  BY <1>1, <1>2 DEF CellAt, P, N

LEMMA FoundRead ==
  Found = FoundIn(stream, spoiled) /\ Found' = FoundIn(stream', spoiled')
<1>1. ASSUME NEW s, NEW h
      PROVE  [rc \in (0 .. h.rows - 1) \X DOMAIN h.columns |-> GetValue(s, h, rc[1], rc[2])]
                = CellsIn(s, h)
  BY ValueRead DEF CellsIn
<1>2. Found = FoundIn(stream, spoiled)
  <2> DEFINE h == FromReader(stream)
  <2>1. TableOf(h) = IF h \in {None, Empty} \/ spoiled THEN None
                     ELSE [layout |-> h, cells |-> CellsIn(stream, h)]
    <3> HIDE DEF h
    <3> QED
      BY <1>1 DEF TableOf
  <2>2. Found = TableOf(h)
    <3>1. Found = CHOOSE t \in {TableOf(g) : g \in {h}} : TRUE
      BY DEF Found
    <3> HIDE DEF h
    <3>2. {TableOf(g) : g \in {h}} = {TableOf(h)}
      OBVIOUS
    <3> QED
      BY <3>1, <3>2
  <2> QED
    BY <2>1, <2>2 DEF FoundIn
<1>3. Found' = FoundIn(stream', spoiled')
  <2> DEFINE h == FromReader(stream')
             T(g) == IF g \in {None, Empty} \/ spoiled' THEN None
                     ELSE [layout |-> g,
                           cells |-> [rc \in (0 .. g.rows - 1) \X DOMAIN g.columns |->
                                          GetValue(stream', g, rc[1], rc[2])]]
  <2>1. T(h) = IF h \in {None, Empty} \/ spoiled' THEN None
               ELSE [layout |-> h, cells |-> CellsIn(stream', h)]
    <3> HIDE DEF h
    <3> QED
      BY <1>1
  <2>2. Found' = T(h)
    <3>1. Found' = CHOOSE t \in {T(g) : g \in {h}} : TRUE
      BY DEF Found, TableOf
    <3> HIDE DEF h, T
    <3>2. {T(g) : g \in {h}} = {T(h)}
      OBVIOUS
    <3> QED
      BY <3>1, <3>2
  <2> QED
    BY <2>1, <2>2 DEF FoundIn
<1> QED
  BY <1>2, <1>3

\* The cells of a table are bytes; where nothing was written yet, they are zeros.
LEMMA CellBytes ==
  ASSUME NEW l \in Layouts, NEW s, HasTable(s, l),
         NEW r \in 0 .. l.rows - 1, NEW c \in 1 .. Len(l.columns)
  PROVE  /\ CellAt(s, l, r, c) \in [1 .. l.columns[c].length -> Byte]
         /\ (\A p \in SchemaSize(l) + 1 .. Len(s) : s[p] = Zero) =>
               CellAt(s, l, r, c) = [k \in 1 .. l.columns[c].length |-> 0]
<1> DEFINE at == Position(l, r, c)
           n == l.columns[c].length
           Z == SchemaSize(l)
           v(k) == IF at + k <= Len(s) THEN s[at + k][2] ELSE 0
<1>1. l.rows \in Nat /\ l.columns \in Seq(Column)
  BY TableAssumption
<1>2. at \in Nat /\ Z \in Nat /\ at >= Z /\ n \in Nat
  BY <1>1, CellsApart
<1>3. Len(s) \in Nat /\ \A p \in Z + 1 .. Len(s) : s[p] \in {Num(b) : b \in Byte}
  BY DEF HasTable, HasSchema
<1>4. CellAt(s, l, r, c) = [k \in 1 .. n |-> v(k)]
  BY DEF CellAt, Cells
<1> HIDE DEF at, n, Z
<1>5. \A k \in 1 .. n : at + k <= Len(s) => at + k \in Z + 1 .. Len(s)
  BY <1>2, <1>3
<1>6. \A k \in 1 .. n : v(k) \in Byte
  <2> TAKE k \in 1 .. n
  <2>1. CASE at + k <= Len(s)
    <3>1. PICK b \in Byte : s[at + k] = Num(b)
      BY <1>3, <1>5, <2>1
    <3> QED
      BY <2>1, <3>1 DEF Num
  <2>2. CASE ~(at + k <= Len(s))
    BY <2>2, TableAssumption
  <2> QED
    BY <2>1, <2>2
<1>7. ASSUME \A p \in Z + 1 .. Len(s) : s[p] = Zero PROVE \A k \in 1 .. n : v(k) = 0
  BY <1>5, <1>7 DEF Zero, Num
<1> HIDE DEF v
<1> QED
  BY <1>4, <1>6, <1>7 DEF n, Z

\* A write leaves the other cells alone.
LEMMA OtherCells ==
  ASSUME NEW l \in Layouts, NEW s, HasTable(s, l),
         NEW r \in 0 .. l.rows - 1, NEW c \in 1 .. Len(l.columns),
         NEW data \in Seq(Byte), Len(data) <= l.columns[c].length,
         NEW q \in 0 .. l.rows - 1, NEW d \in 1 .. Len(l.columns), <<q, d>> # <<r, c>>
  PROVE  CellAt(Written(s, Position(l, r, c), Nums(data)), l, q, d) = CellAt(s, l, q, d)
<1> DEFINE at == Position(l, r, c)
           w == Written(s, at, Nums(data))
           to == Position(l, q, d)
           n == l.columns[d].length
           m == Len(data)
<1>1. l.rows \in Nat /\ l.columns \in Seq(Column)
  BY TableAssumption
<1>2. /\ at \in Nat /\ to \in Nat /\ n \in Nat /\ m \in Nat
      /\ at + m <= to \/ to + n <= at
  <2>1. at \in Nat /\ l.columns[c].length \in Nat
        /\ (at + l.columns[c].length <= to \/ to + n <= at)
    BY <1>1, CellsApart
  <2>2. to \in Nat /\ n \in Nat
    BY <1>1, CellsApart
  <2>3. m \in Nat /\ m <= l.columns[c].length
    OBVIOUS
  <2> HIDE DEF at, to, n, m
  <2> QED
    BY <2>1, <2>2, <2>3
<1>3. Nums(data) \in Seq(Token) /\ Len(Nums(data)) = m
  <2>1. \A b \in Byte : Num(b) \in Token
    BY TableAssumption DEF Num, Token
  <2>2. DOMAIN data = 1 .. Len(data) /\ Len(data) \in Nat /\ \A k \in 1 .. Len(data) : data[k] \in Byte
    BY ElementOfSeq
  <2>3. Nums(data) = [k \in 1 .. Len(data) |-> Num(data[k])]
    BY <2>2 DEF Nums
  <2>4. \A k \in 1 .. Len(data) : Num(data[k]) \in Token
    BY <2>1, <2>2
  <2> QED
    BY <2>2, <2>3, <2>4
<1>4. s \in Seq(Token) /\ Len(s) \in Nat
  BY DEF HasTable, HasSchema
<1>5. /\ w \in Seq(Token) /\ Len(w) = IF at + m > Len(s) THEN at + m ELSE Len(s)
      /\ \A p \in 1 .. Len(w) :
            /\ p > at /\ p <= at + m => w[p] = Nums(data)[p - at]
            /\ ~(p > at /\ p <= at + m) /\ p <= Len(s) => w[p] = s[p]
            /\ ~(p > at /\ p <= at + m) /\ p > Len(s) => w[p] = Zero
  <2> HIDE DEF at, m
  <2> QED
    BY <1>2, <1>3, <1>4, WrittenAt
<1>6. CellAt(w, l, q, d) = Cells(w, to, n) /\ CellAt(s, l, q, d) = Cells(s, to, n)
  BY DEF CellAt
<1> HIDE DEF at, to, n, m, w
<1>7. Len(w) \in Nat /\ Len(w) >= Len(s)
  BY <1>2, <1>4, <1>5
<1>8. ASSUME NEW k \in 1 .. n
      PROVE  (IF to + k <= Len(w) THEN w[to + k][2] ELSE 0)
                = (IF to + k <= Len(s) THEN s[to + k][2] ELSE 0)
  <2>1. to + k \in Nat /\ to + k > 0 /\ ~(to + k > at /\ to + k <= at + m)
    BY <1>2
  <2>2. CASE to + k <= Len(s)
    BY <1>4, <1>5, <1>7, <2>1, <2>2
  <2>3. CASE to + k > Len(s) /\ to + k <= Len(w)
    <3>1. w[to + k] = Zero /\ ~(to + k <= Len(s))
      BY <1>4, <1>5, <2>1, <2>3
    <3>2. Zero[2] = 0
      BY DEF Zero, Num
    <3> QED
      BY <2>3, <3>1, <3>2
  <2>4. CASE to + k > Len(w)
    <3>1. ~(to + k <= Len(w)) /\ ~(to + k <= Len(s))
      BY <1>4, <1>7, <2>1, <2>4
    <3> QED
      BY <3>1
  <2> QED
    BY <1>4, <1>7, <2>1, <2>2, <2>3, <2>4
<1>9. Cells(w, to, n) = Cells(s, to, n)
  BY <1>8 DEF Cells
<1> QED
  BY <1>6, <1>9 DEF w, at

\* A table that is there is found, with its cells.
LEMMA FoundCells ==
  ASSUME NEW l \in Layouts, NEW s, HasTable(s, l)
  PROVE  /\ FromReader(s) = l
         /\ l # Empty => FoundIn(s, FALSE) = [layout |-> l, cells |-> CellsIn(s, l)]
         /\ FoundIn(s, FALSE) = None <=> l = Empty
<1>1. FromReader(s) = l
  BY SchemaReadBack DEF HasTable
<1>2. l # None
  BY TableAssumption
<1>3. CellsIn(s, l) \in [(0 .. l.rows - 1) \X DOMAIN l.columns -> Seq(Nat)]
  <2>1. l.columns \in Seq(Column) /\ DOMAIN l.columns = 1 .. Len(l.columns) /\ Byte \subseteq Nat
    BY TableAssumption
  <2>2. ASSUME NEW r \in 0 .. l.rows - 1, NEW c \in 1 .. Len(l.columns)
        PROVE  CellAt(s, l, r, c) \in Seq(Nat)
    <3> DEFINE n == l.columns[c].length
               v == CellAt(s, l, r, c)
    <3>1. n \in Nat
      BY <2>1, ColumnFields
    <3>2. v \in [1 .. n -> Byte]
      BY CellBytes
    <3> HIDE DEF n, v
    <3>3. v \in [1 .. n -> Nat]
      BY <2>1, <3>2
    <3>4. v \in Seq(Nat)
      BY <3>1, <3>3
    <3> QED
      BY <3>4 DEF v
  <2>3. \A rc \in (0 .. l.rows - 1) \X DOMAIN l.columns : CellAt(s, l, rc[1], rc[2]) \in Seq(Nat)
    BY <2>1, <2>2
  <2> QED
    BY <2>3 DEF CellsIn
<1>4. [layout |-> l, cells |-> CellsIn(s, l)]
         \in [layout : {l}, cells : [(0 .. l.rows - 1) \X DOMAIN l.columns -> Seq(Nat)]]
  BY <1>3
<1>5. [layout |-> l, cells |-> CellsIn(s, l)] # None
  BY <1>4, TableAssumption
<1> QED
  BY <1>1, <1>2, <1>5 DEF FoundIn

\* Without a written cell it is blank.
LEMMA BlankTable ==
  ASSUME NEW l \in Layouts, NEW s, HasTable(s, l),
         \A p \in SchemaSize(l) + 1 .. Len(s) : s[p] = Zero
  PROVE  [layout |-> l, cells |-> CellsIn(s, l)] = CS!Blank(l)
<1>1. l.columns \in Seq(Column) /\ DOMAIN l.columns = 1 .. Len(l.columns)
  BY TableAssumption
<1>2. \A r \in 0 .. l.rows - 1, c \in 1 .. Len(l.columns) :
         CellAt(s, l, r, c) = [k \in 1 .. l.columns[c].length |-> 0]
  BY CellBytes
<1>3. \A rc \in (0 .. l.rows - 1) \X DOMAIN l.columns :
         CellAt(s, l, rc[1], rc[2]) = [k \in 1 .. l.columns[rc[2]].length |-> 0]
  BY <1>1, <1>2
<1>4. CellsIn(s, l) = [rc \in (0 .. l.rows - 1) \X DOMAIN l.columns |->
                          [k \in 1 .. l.columns[rc[2]].length |-> 0]]
  BY <1>3 DEF CellsIn
<1> QED
  BY <1>4 DEF CS!Blank, CS!CellsOf

\* The kinds of steps a cell store takes.
LEMMA StoreSteps ==
  ASSUME \/ Found' = None \/ Found' = Found
         \/ Found = None /\ CS!Created(Found')
         \/ Found # None /\ Found' # None /\ CS!Set(Found, Found')
  PROVE  [CS!CellNext]_Found
<1>1. ASSUME NEW old, NEW new, old = Found, new = Found'
      PROVE  \/ new = None
             \/ old = None /\ CS!Created(new)
             \/ old # None /\ new # None /\ CS!Set(old, new)
             \/ new = old
  BY <1>1
<1> QED
  BY <1>1 DEF CS!CellNext

\* Creating again takes the table away.
LEMMA CreateFileStores ==
  ASSUME IInv, NEW u \in User, NEW l \in Layouts, CreateFile(u, l)
  PROVE  Found' = None
<1>1. IInv'
  BY CreateFileInv
<1>2. creating' = [by |-> u, h |-> l, at |-> "prefix"] /\ spoiled' = FALSE
  BY DEF CreateFile
<1>3. creating' \in Creation /\ creating'.at = "prefix"
  BY <1>2 DEF Creation
<1>4. creating' # None
  BY <1>3, TableAssumption
<1>5. AllZero(stream')
  BY <1>1, <1>2, <1>3, <1>4 DEF IInv, Shape
<1>6. FromReader(stream') \in {None, Empty}
  BY <1>5, ZerosRead DEF AllZero
<1> QED
  BY <1>6, FoundRead DEF FoundIn

\* The two numbers alone are no table, unless there are no columns.
LEMMA PrefixFound ==
  ASSUME NEW l \in Layouts, ValidHeader(l.columns), NEW s, PrefixOnly(s, l)
  PROVE  FoundIn(s, FALSE) = None \/ (l # Empty /\ FoundIn(s, FALSE) = CS!Blank(l))
<1>1. CASE l.columns # << >>
  <2>1. FromReader(s) = None
    BY <1>1, PrefixReads DEF PrefixOnly
  <2> QED
    BY <2>1 DEF FoundIn
<1>2. CASE l.columns = << >>
  <2>1. HasTable(s, l) /\ \A p \in SchemaSize(l) + 1 .. Len(s) : s[p] = Zero
    BY <1>2, NoColumns
  <2>2. [layout |-> l, cells |-> CellsIn(s, l)] = CS!Blank(l)
    BY <2>1, BlankTable
  <2> QED
    BY <2>1, <2>2, FoundCells
<1> QED
  BY <1>1, <1>2

LEMMA WritePrefixStores ==
  ASSUME IInv, WritePrefix
  PROVE  Found' = None \/ (Found = None /\ CS!Created(Found'))
<1> DEFINE l == creating.h
<1>1. /\ creating # None /\ creating.at = "prefix"
      /\ stream' = Written(stream, 0, Prefix(l)) /\ spoiled' = spoiled
  BY DEF WritePrefix
<1>2. l \in Layouts
  BY <1>1 DEF IInv, TypeOK, Creation
<1>3. ValidHeader(l.columns)
  BY <1>1 DEF IInv, CreatorAlone
<1>4. CASE spoiled
  BY <1>1, <1>4, FoundRead DEF FoundIn
<1>5. CASE ~spoiled
  <2>1. AllZero(stream)
    BY <1>1, <1>5 DEF IInv, Shape
  <2>2. PrefixOnly(stream', l)
    BY <1>1, <1>2, <2>1, PrefixWritten
  <2>3. Found = None
    <3>1. FromReader(stream) \in {None, Empty}
      BY <2>1, ZerosRead DEF AllZero
    <3> QED
      BY <3>1, FoundRead DEF FoundIn
  <2>4. spoiled' = FALSE
    BY <1>1, <1>5 DEF IInv, TypeOK
  <2> HIDE DEF l
  <2>5. FoundIn(stream', FALSE) = None \/ FoundIn(stream', FALSE) = CS!Blank(l)
    BY <1>2, <1>3, <2>2, PrefixFound
  <2>6. Found' = FoundIn(stream', FALSE)
    BY <2>4, FoundRead
  <2> QED
    BY <1>2, <2>3, <2>5, <2>6 DEF CS!Created
<1> QED
  BY <1>4, <1>5

LEMMA WriteSchemaStores ==
  ASSUME IInv, WriteSchema
  PROVE  Found' = None \/ Found' = Found \/ (Found = None /\ CS!Created(Found'))
<1> DEFINE l == creating.h
<1>1. /\ creating # None /\ creating.at = "schema"
      /\ stream' = Written(stream, 2, EncodeColumns(l.columns)) /\ spoiled' = spoiled
  BY DEF WriteSchema
<1>2. l \in Layouts
  BY <1>1 DEF IInv, TypeOK, Creation
<1>3. ValidHeader(l.columns)
  BY <1>1 DEF IInv, CreatorAlone
<1>4. CASE spoiled
  BY <1>1, <1>4, FoundRead DEF FoundIn
<1>5. CASE ~spoiled
  <2>1. PrefixOnly(stream, l)
    BY <1>1, <1>5 DEF IInv, Shape
  <2>2. /\ HasSchema(stream', l)
        /\ \A p \in SchemaSize(l) + 1 .. Len(stream') : stream'[p] = Zero
    BY <1>1, <1>2, <2>1, SchemaWritten
  <2>3. Zero \in {Num(b) : b \in Byte}
    BY TableAssumption DEF Zero
  <2>4. HasTable(stream', l)
    BY <1>3, <2>2, <2>3 DEF HasTable
  <2>5. spoiled' = FALSE /\ spoiled = FALSE
    BY <1>1, <1>5 DEF IInv, TypeOK
  <2> HIDE DEF l
  <2>6. FoundIn(stream', FALSE) = None \/ FoundIn(stream', FALSE) = CS!Blank(l)
    BY <1>2, <2>2, <2>4, BlankTable, FoundCells
  <2>7. FoundIn(stream, FALSE) = None \/ FoundIn(stream, FALSE) = CS!Blank(l)
    BY <1>2, <1>3, <2>1, PrefixFound
  <2>8. Found' = FoundIn(stream', FALSE) /\ Found = FoundIn(stream, FALSE)
    BY <2>5, FoundRead
  <2> QED
    BY <1>2, <2>6, <2>7, <2>8 DEF CS!Created
<1> QED
  BY <1>4, <1>5

\* A write through the header of the table sets one cell; one through an old header spoils it.
LEMMA CellWriteStores ==
  ASSUME IInv, NEW u \in User, header[u] # None,
         NEW row \in 0 .. header[u].rows - 1, NEW c \in 1 .. Len(header[u].columns),
         NEW data \in Seq(Byte), Len(data) <= header[u].columns[c].length,
         WriteCell(u, row, c, data)
  PROVE  Found' = None \/ (Found # None /\ Found' # None /\ CS!Set(Found, Found'))
<1> DEFINE l == header[u]
           at == Position(l, row, c)
<1>1. CASE spoiled'
  BY <1>1, FoundRead DEF FoundIn
<1>2. CASE ~spoiled'
  <2>1. /\ stream' = Written(stream, at, Nums(data)) /\ ~spoiled
        /\ l \in Layouts /\ HasTable(stream, l) /\ HasTable(stream', l)
    BY <1>2, CellWrite DEF WriteCell
  <2>2. l # Empty
    <3>1. Empty.columns = << >> /\ Len(<< >>) = 0
      BY DEF Empty
    <3> QED
      BY <3>1
  <2>3. spoiled' = FALSE /\ spoiled = FALSE
    <3>1. spoiled \in BOOLEAN /\ spoiled' \in BOOLEAN
      BY CellWrite DEF IInv, TypeOK
    <3> QED
      BY <1>2, <2>1, <3>1
  <2>4. row \in 0 .. l.rows - 1 /\ c \in 1 .. Len(l.columns) /\ Len(data) <= l.columns[c].length
    OBVIOUS
  <2>5. l.columns \in Seq(Column) /\ DOMAIN l.columns = 1 .. Len(l.columns)
    BY <2>1, TableAssumption
  <2> HIDE DEF l
  <2>6. /\ Found = [layout |-> l, cells |-> CellsIn(stream, l)] /\ Found # None
        /\ Found' = [layout |-> l, cells |-> CellsIn(stream', l)] /\ Found' # None
    BY <2>1, <2>2, <2>3, FoundRead, FoundCells
  <2> DEFINE old == CellsIn(stream, l)
             new == CellsIn(stream', l)
             S == (0 .. l.rows - 1) \X DOMAIN l.columns
  <2>7. CellAt(stream', l, row, c) \in [1 .. l.columns[c].length -> Byte]
    BY <2>1, <2>4, CellBytes
  <2>8. \A q \in 0 .. l.rows - 1, d \in 1 .. Len(l.columns) :
           <<q, d>> # <<row, c>> => CellAt(stream', l, q, d) = CellAt(stream, l, q, d)
    BY <2>1, <2>4, OtherCells
  <2>9. <<row, c>> \in S
    BY <2>4, <2>5
  <2>10. /\ old = [rc \in S |-> CellAt(stream, l, rc[1], rc[2])]
         /\ new = [rc \in S |-> CellAt(stream', l, rc[1], rc[2])]
    BY DEF CellsIn
  <2>11. \A rc \in S : rc # <<row, c>> =>
            CellAt(stream', l, rc[1], rc[2]) = CellAt(stream, l, rc[1], rc[2])
    BY <2>5, <2>8
  <2> HIDE DEF old, new, S
  <2>12. new[<<row, c>>] \in [1 .. l.columns[c].length -> Byte]
    BY <2>7, <2>9, <2>10
  <2>13. new = [old EXCEPT ![<<row, c>>] = new[<<row, c>>]]
    BY <2>9, <2>10, <2>11
  <2>14. CS!CellsOf(l) = S
    BY DEF CS!CellsOf, S
  <2>15. CS!Set([layout |-> l, cells |-> old], [layout |-> l, cells |-> new])
    BY <2>9, <2>12, <2>13, <2>14 DEF CS!Set
  <2> QED
    BY <2>6, <2>15 DEF old, new
<1> QED
  BY <1>1, <1>2

LEMMA NextStores ==
  ASSUME IInv, [Next]_vars
  PROVE  [CS!CellNext]_Found
<1>1. ASSUME stream' = stream, spoiled' = spoiled PROVE Found' = Found
  BY <1>1, FoundRead
<1>2. CASE UNCHANGED vars
  BY <1>1, <1>2, StoreSteps DEF vars
<1>3. CASE Next
  <2>1. CASE WritePrefix
    BY <2>1, WritePrefixStores, StoreSteps
  <2>2. CASE WriteSchema
    BY <2>2, WriteSchemaStores, StoreSteps
  <2>3. CASE CreateFails \/ Crash
    BY <1>1, <2>3, StoreSteps DEF CreateFails, Crash
  <2>4. ASSUME NEW u \in User, NEW l \in Layouts, CreateFile(u, l) PROVE [CS!CellNext]_Found
    BY <2>4, CreateFileStores, StoreSteps
  <2>5. ASSUME NEW u \in User, Open(u) \/ Close(u) PROVE [CS!CellNext]_Found
    BY <1>1, <2>5, StoreSteps DEF Open, Close
  <2>6. ASSUME NEW u \in User, ClearStep(u) PROVE [CS!CellNext]_Found
    <3> DEFINE k == clearing[u]
               d == Padded(header[u], k.c, << >>)
    <3>1. clearing[u] # None
      BY <2>6 DEF ClearStep
    <3>2. /\ header[u] # None /\ k.row \in 0 .. header[u].rows - 1
          /\ k.c \in 1 .. Len(header[u].columns)
          /\ d \in Seq(Byte) /\ Len(d) = header[u].columns[k.c].length
          /\ header[u].columns[k.c].length \in Nat
      <4>1. header[u].columns \in Seq(Column)
        BY <3>1, ClearStepWrites, HeaderTypes
      <4> QED
        BY <3>1, <4>1, ClearStepWrites, ColumnFields
    <3>3. WriteCell(u, k.row, k.c, d) \/ (stream' = stream /\ spoiled' = spoiled)
      BY <2>6 DEF ClearStep
    <3>4. CASE WriteCell(u, k.row, k.c, d)
      <4> HIDE DEF d, k
      <4>1. Len(d) <= header[u].columns[k.c].length
        BY <3>2
      <4> QED
        BY <3>2, <3>4, <4>1, CellWriteStores, StoreSteps
    <3> QED
      BY <1>1, <3>3, <3>4, StoreSteps
  <2>7. ASSUME NEW u \in User, Sets(u) PROVE [CS!CellNext]_Found
    <3>1. header[u] # None
      BY <2>7 DEF Sets, Ready
    <3>2. PICK row \in 0 .. header[u].rows - 1, c \in 1 .. Len(header[u].columns), data \in Seq(Byte) :
             Len(data) <= header[u].columns[c].length /\ WriteCell(u, row, c, data)
      BY <2>7 DEF Sets
    <3> QED
      BY <3>1, <3>2, CellWriteStores, StoreSteps
  <2>8. ASSUME NEW u \in User, NEW row \in SomeRows, ClearBegin(u, row) PROVE [CS!CellNext]_Found
    BY <1>1, <2>8, StoreSteps DEF ClearBegin
  <2> QED
    BY <1>3, StepKinds, <2>1, <2>2, <2>3, <2>4, <2>5, <2>6, <2>7, <2>8
<1> QED
  BY <1>2, <1>3

\* A table file implements CellStore: a write changes one cell of the table that an open would
\* find, nothing else does, and an interrupted creation leaves no table or a blank one.
THEOREM TableRefinesCellStore == Spec => RefinesCellStore
<1>1. Init => CS!CellInit
  <2> SUFFICES ASSUME Init PROVE Found = None
    BY DEF CS!CellInit
  <2>1. FromReader(stream) = None
    BY DEF Init, FromReader
  <2> QED
    BY <2>1, FoundRead DEF FoundIn
<1>2. IInv /\ [Next]_vars => [CS!CellNext]_Found
  BY NextStores
<1> QED
  BY InitInv, NextInv, <1>1, <1>2, PTL DEF Spec, RefinesCellStore, CS!Spec

-----------------------------------------------------------------------------
(* Searching                                                               *)

\* f[row] is the first of the rows of S from row on, below N, or -1.
Downwards(f, N, S) ==
    f = [row \in 0 .. N |-> IF row = N THEN -1 ELSE IF row \in S THEN row ELSE f[row + 1]]

IsFirst(x, S, start) ==
    \/ x = -1 /\ \A row \in S : row < start
    \/ x \in S /\ x >= start /\ \A row \in S : row >= start => x <= row

\* The function that goes through the rows from behind exists, and finds the first.
LEMMA SearchDown ==
  ASSUME NEW N \in Nat, NEW S, S \subseteq 0 .. N - 1
  PROVE  /\ \E f : Downwards(f, N, S)
         /\ \A f : Downwards(f, N, S) => \A start \in 0 .. N : IsFirst(f[start], S, start)
<1>1. \E f : Downwards(f, N, S)
  <2> DEFINE step == [i \in 1 .. N |-> [x \in Int |-> IF N - i \in S THEN N - i ELSE x]]
  <2>1. step \in Steps(N, Int)
    BY DEF Steps
  <2>2. \A i \in 1 .. N, x \in Int : step[i][x] = IF N - i \in S THEN N - i ELSE x
    OBVIOUS
  <2> HIDE DEF step
  <2>3. PICK g : Leads(g, N, Int, -1, step)
    <3>1. -1 \in Int
      OBVIOUS
    <3> QED
      BY <2>1, <3>1, Iterated
  <2>4. g \in [0 .. N -> Int] /\ g[0] = -1 /\ \A i \in 1 .. N : g[i] = step[i][g[i - 1]]
    BY <2>3 DEF Leads
  <2>5. \A i \in 1 .. N : g[i - 1] \in Int
    BY <2>4
  <2>6. \A i \in 1 .. N : g[i] = IF N - i \in S THEN N - i ELSE g[i - 1]
    BY <2>2, <2>4, <2>5
  <2> DEFINE f == [row \in 0 .. N |-> g[N - row]]
  <2>7. \A row \in 0 .. N : f[row] = g[N - row]
    OBVIOUS
  <2>8. ASSUME NEW row \in 0 .. N
        PROVE  f[row] = IF row = N THEN -1 ELSE IF row \in S THEN row ELSE f[row + 1]
    <3>1. CASE row = N
      <4>1. N - row = 0
        BY <3>1
      <4> QED
        BY <2>4, <2>7, <3>1, <4>1
    <3>2. CASE row # N
      <4>1. N - row \in 1 .. N /\ N - (N - row) = row /\ row + 1 \in 0 .. N
            /\ N - (row + 1) = (N - row) - 1
        BY <3>2
      <4>2. g[N - row] = IF row \in S THEN row ELSE g[(N - row) - 1]
        BY <2>6, <4>1
      <4>3. f[row] = g[N - row] /\ f[row + 1] = g[(N - row) - 1]
        BY <2>7, <4>1
      <4> QED
        BY <3>2, <4>2, <4>3
    <3> QED
      BY <3>1, <3>2
  <2>9. f = [row \in 0 .. N |-> f[row]]
    OBVIOUS
  <2> HIDE DEF f
  <2>10. Downwards(f, N, S)
    BY <2>8, <2>9 DEF Downwards
  <2> QED
    BY <2>10
<1>2. ASSUME NEW f, Downwards(f, N, S) PROVE \A start \in 0 .. N : IsFirst(f[start], S, start)
  <2>1. \A row \in 0 .. N :
           f[row] = IF row = N THEN -1 ELSE IF row \in S THEN row ELSE f[row + 1]
    <3> DEFINE B == [row \in 0 .. N |-> IF row = N THEN -1 ELSE IF row \in S THEN row ELSE f[row + 1]]
    <3>1. f = B
      BY <1>2 DEF Downwards
    <3>2. \A row \in 0 .. N :
             B[row] = IF row = N THEN -1 ELSE IF row \in S THEN row ELSE f[row + 1]
      OBVIOUS
    <3> HIDE DEF B
    <3> QED
      BY <3>1, <3>2
  <2> DEFINE T == {k \in Nat : k <= N => IsFirst(f[N - k], S, N - k)}
  <2>2. 0 \in T
    <3>1. N - 0 = N /\ N \in 0 .. N /\ \A row \in S : row < N
      OBVIOUS
    <3>2. f[N] = -1
      BY <2>1, <3>1
    <3> QED
      BY <3>1, <3>2 DEF IsFirst
  <2>3. ASSUME NEW k \in Nat, k \in T PROVE k + 1 \in T
    <3> SUFFICES ASSUME k + 1 <= N PROVE IsFirst(f[N - (k + 1)], S, N - (k + 1))
      OBVIOUS
    <3> DEFINE row == N - (k + 1)
    <3>1. row \in 0 .. N /\ row # N /\ row + 1 = N - k /\ row \in Int
      OBVIOUS
    <3>2. IsFirst(f[N - k], S, N - k)
      BY <2>3
    <3> HIDE DEF row
    <3>3. IsFirst(f[row + 1], S, row + 1)
      BY <3>1, <3>2
    <3>4. f[row] = IF row \in S THEN row ELSE f[row + 1]
      BY <2>1, <3>1
    <3>5. \A r \in S : r \in Int
      OBVIOUS
    <3>6. CASE row \in S
      BY <3>1, <3>4, <3>5, <3>6 DEF IsFirst
    <3>7. CASE row \notin S
      <4>1. \A r \in S : (r < row + 1 => r < row) /\ (r >= row => r >= row + 1)
                         /\ (r >= row + 1 => r >= row)
        BY <3>1, <3>5, <3>7
      <4>2. f[row] = f[row + 1]
        BY <3>4, <3>7
      <4>3. IsFirst(f[row + 1], S, row)
        BY <3>3, <4>1 DEF IsFirst
      <4> QED
        BY <4>2, <4>3 DEF row
    <3> QED
      BY <3>6, <3>7 DEF row
  <2>4. Nat \subseteq T
    <3> HIDE DEF T
    <3> QED
      BY <2>2, <2>3, Induct
  <2>5. ASSUME NEW start \in 0 .. N PROVE IsFirst(f[start], S, start)
    <3>1. N - start \in Nat /\ N - start <= N /\ N - (N - start) = start
      OBVIOUS
    <3>2. N - start \in T
      BY <2>4, <3>1
    <3>3. IsFirst(f[N - (N - start)], S, N - (N - start))
      BY <3>1, <3>2
    <3> QED
      BY <3>1, <3>3
  <2> QED
    BY <2>5
<1> QED
  BY <1>1, <1>2

\* The rows of u's table whose cell in column c shows the value.
Showing(u, c, value) ==
    {row \in 0 .. header[u].rows - 1 :
        Shown(header[u].columns[c].type, GetValue(stream, header[u], row, c)) = value}

\* The searches by type find the first such row from their start on.
LEMMA IndexOfFirst ==
  ASSUME NEW u \in User, header[u].rows \in Nat, NEW c, NEW value,
         NEW start \in 0 .. header[u].rows
  PROVE  IsFirst(IndexOf(u, c, value, start), Showing(u, c, value), start)
<1> DEFINE N == header[u].rows
           S == Showing(u, c, value)
           shows(row) == Shown(header[u].columns[c].type, GetValue(stream, header[u], row, c)) = value
           Body(f) == [row \in 0 .. N |-> IF row = N THEN -1 ELSE IF shows(row) THEN row ELSE f[row + 1]]
           from == CHOOSE f : f = Body(f)
<1>1. IndexOf(u, c, value, start) = from[start]
  BY DEF IndexOf
<1>2. S = {row \in 0 .. N - 1 : shows(row)}
  BY DEF Showing
<1> HIDE DEF N, S, shows
<1>3. \A row \in 0 .. N : row # N => (shows(row) <=> row \in S)
  BY <1>2 DEF N
<1>4. ASSUME NEW f PROVE f = Body(f) <=> Downwards(f, N, S)
  <2>1. Body(f) = [row \in 0 .. N |-> IF row = N THEN -1 ELSE IF row \in S THEN row ELSE f[row + 1]]
    BY <1>3
  <2> QED
    BY <2>1 DEF Downwards
<1>5. S \subseteq 0 .. N - 1 /\ N \in Nat
  BY <1>2 DEF N
<1>6. \E f : f = Body(f)
  BY <1>4, <1>5, SearchDown
<1>7. from = Body(from)
  BY <1>6
<1> HIDE DEF from
<1>8. Downwards(from, N, S)
  BY <1>4, <1>7
<1>9. start \in 0 .. N
  BY DEF N
<1>10. IsFirst(from[start], S, start)
  BY <1>5, <1>8, <1>9, SearchDown
<1> QED
  BY <1>1, <1>10 DEF S

\* What it takes that found are the first rows, in order.
LEMMA FirstRows ==
  ASSUME NEW found \in Seq(Nat), NEW S, NEW limit \in Nat
  PROVE  FirstOf(found, S, limit) <=>
            /\ Len(found) <= limit
            /\ \A i \in 1 .. Len(found) : found[i] \in S
            /\ \A i, j \in 1 .. Len(found) : i < j => found[i] < found[j]
            /\ \A row \in S : \/ \E i \in 1 .. Len(found) : found[i] = row
                              \/ Len(found) = limit /\ \A i \in 1 .. Len(found) : found[i] < row
<1>1. DOMAIN found = 1 .. Len(found) /\ Range(found) = {found[i] : i \in 1 .. Len(found)}
  BY DEF Range
<1>2. \A row : row \in Range(found) <=> \E i \in 1 .. Len(found) : found[i] = row
  BY <1>1
<1>3. Range(found) \subseteq S <=> \A i \in 1 .. Len(found) : found[i] \in S
  BY <1>2
<1> QED
  BY <1>1, <1>2, <1>3 DEF FirstOf

\* One more row is found, behind the others; none of those between them is left out.
LEMMA OneMore ==
  ASSUME NEW found \in Seq(Nat), NEW S, S \subseteq Nat, NEW limit \in Nat, NEW most \in Nat,
         FirstOf(found, S, limit), NEW next \in Nat, NEW T, S \subseteq T, T \subseteq Nat, next \in T,
         \A i \in 1 .. Len(found) : found[i] < next,
         Len(found) < most,
         \A row \in T : \/ \E i \in 1 .. Len(found) : found[i] = row
                        \/ row = next
                        \/ Len(found) + 1 = most /\ next < row
  PROVE  Append(found, next) \in Seq(Nat) /\ FirstOf(Append(found, next), T, most)
<1> DEFINE n == Len(found)
           more == Append(found, next)
<1>1. /\ more \in Seq(Nat) /\ Len(more) = n + 1 /\ more[n + 1] = next /\ n \in Nat
      /\ \A i \in 1 .. n : more[i] = found[i]
  BY AppendProperties
<1>2. /\ \A i \in 1 .. n : found[i] \in S
      /\ \A i, j \in 1 .. n : i < j => found[i] < found[j]
  BY FirstRows
<1>3. /\ n < most /\ \A i \in 1 .. n : found[i] < next
      /\ \A row \in T : \/ \E i \in 1 .. n : found[i] = row
                        \/ row = next
                        \/ n + 1 = most /\ next < row
  OBVIOUS
<1>4. \A i \in 1 .. n : found[i] \in Nat
  BY ElementOfSeq
<1> HIDE DEF n, more
<1>5. \A i \in 1 .. n + 1 : i \in 1 .. n \/ i = n + 1
  BY <1>1
<1>6. n + 1 \in 1 .. n + 1 /\ \A i \in 1 .. n : i \in 1 .. n + 1
  BY <1>1
<1>7. n + 1 <= most
  BY <1>1, <1>3
<1>8. \A i \in 1 .. n + 1 : more[i] \in T
  BY <1>1, <1>2, <1>5
<1>9. ASSUME NEW i \in 1 .. n + 1, NEW j \in 1 .. n + 1, i < j PROVE more[i] < more[j]
  <2>1. i \in 1 .. n
    BY <1>1, <1>9
  <2>2. CASE j \in 1 .. n
    BY <1>1, <1>2, <1>9, <2>1, <2>2
  <2>3. CASE j = n + 1
    BY <1>1, <1>3, <2>1, <2>3
  <2> QED
    BY <1>5, <2>2, <2>3
<1>10. ASSUME NEW row \in T
       PROVE  \/ \E i \in 1 .. n + 1 : more[i] = row
              \/ n + 1 = most /\ \A i \in 1 .. n + 1 : more[i] < row
  <2>1. CASE \E i \in 1 .. n : found[i] = row
    BY <1>1, <1>6, <2>1
  <2>2. CASE row = next
    BY <1>1, <1>6, <2>2
  <2>3. CASE n + 1 = most /\ next < row
    <3>1. row \in Nat
      OBVIOUS
    <3>2. \A i \in 1 .. n : more[i] < row
      <4> TAKE i \in 1 .. n
      <4>1. found[i] < next /\ found[i] \in Nat /\ more[i] = found[i]
        BY <1>1, <1>3, <1>4
      <4> QED
        BY <2>3, <3>1, <4>1
    <3> QED
      BY <1>1, <1>5, <2>3, <3>2
  <2> QED
    BY <1>3, <2>1, <2>2, <2>3
<1>11. FirstOf(more, T, most)
  <2>1. /\ Len(more) <= most
        /\ \A i \in 1 .. Len(more) : more[i] \in T
        /\ \A i, j \in 1 .. Len(more) : i < j => more[i] < more[j]
        /\ \A row \in T : \/ \E i \in 1 .. Len(more) : more[i] = row
                          \/ Len(more) = most /\ \A i \in 1 .. Len(more) : more[i] < row
    BY <1>1, <1>7, <1>8, <1>9, <1>10
  <2> QED
    BY <1>1, <2>1, FirstRows
<1> QED
  BY <1>1, <1>11 DEF more

\* The loop over an IndexOf function: a round finds the next row, or none is left.
LEMMA Round ==
  ASSUME NEW u \in User, header[u].rows \in Nat, NEW c, NEW value, NEW n \in Nat,
         NEW rows \in Seq(Nat), FirstOf(rows, Showing(u, c, value), n)
  PROVE  /\ WithNext(u, c, value, rows) \in Seq(Nat)
         /\ FirstOf(WithNext(u, c, value, rows), Showing(u, c, value), n + 1)
<1> DEFINE S == Showing(u, c, value)
           N == header[u].rows
           k == Len(rows)
           start == IF rows = << >> THEN 0 ELSE Last(rows) + 1
           next == IndexOf(u, c, value, start)
<1>1. S \subseteq 0 .. N - 1 /\ N \in Nat /\ k \in Nat /\ S \subseteq Nat
  BY DEF Showing
<1>2. /\ k <= n
      /\ \A i \in 1 .. k : rows[i] \in S
      /\ \A i, j \in 1 .. k : i < j => rows[i] < rows[j]
      /\ \A row \in S : \/ \E i \in 1 .. k : rows[i] = row
                        \/ k = n /\ \A i \in 1 .. k : rows[i] < row
  BY FirstRows
<1>3. WithNext(u, c, value, rows) = IF next = -1 THEN rows ELSE Append(rows, next)
  BY DEF WithNext
<1>4. rows # << >> => k \in 1 .. k /\ start = rows[k] + 1
  BY DEF Last
<1>5. rows = << >> => k = 0 /\ start = 0
  OBVIOUS
<1> HIDE DEF S, k, start
<1>6. start \in 0 .. N
  <2>1. CASE rows = << >>
    BY <1>1, <1>5, <2>1
  <2>2. CASE rows # << >>
    <3>1. rows[k] \in 0 .. N - 1
      BY <1>1, <1>2, <1>4, <2>2
    <3>2. start = rows[k] + 1
      BY <1>4, <2>2
    <3> HIDE DEF N
    <3> QED
      BY <1>1, <3>1, <3>2
  <2> QED
    BY <2>1, <2>2
<1>7. IsFirst(next, S, start)
  BY <1>6, IndexOfFirst DEF S
<1> HIDE DEF next, N
<1>8. \A i \in 1 .. k : rows[i] < start
  <2> TAKE i \in 1 .. k
  <2>1. rows # << >>
    BY <1>5
  <2>2. k \in 1 .. k /\ rows[k] \in S /\ rows[i] \in S /\ rows[k] \in Nat /\ rows[i] \in Nat
        /\ start = rows[k] + 1
    BY <1>1, <1>2, <1>4, <2>1
  <2>3. i = k \/ i < k
    BY <1>1
  <2>4. i < k => rows[i] < rows[k]
    BY <1>2, <2>2
  <2> QED
    BY <2>2, <2>3, <2>4
<1>9. \A row \in S : (\A i \in 1 .. k : rows[i] < row) => row >= start
  <2> TAKE row \in S
  <2>1. row \in Nat
    BY <1>1
  <2>2. CASE rows = << >>
    BY <1>5, <2>1, <2>2
  <2>3. CASE rows # << >>
    <3>1. rows[k] \in Nat
      BY <1>1, <1>2, <1>4, <2>3
    <3> QED
      BY <1>4, <2>1, <2>3, <3>1
  <2> QED
    BY <2>2, <2>3
<1>10. CASE next = -1
  <2>1. \A row \in S : row < start /\ row \in Nat
    <3>1. -1 \notin Nat
      OBVIOUS
    <3> QED
      BY <1>1, <1>7, <1>10, <3>1 DEF IsFirst
  <2>2. \A row \in S : \E i \in 1 .. k : rows[i] = row
    BY <1>2, <1>6, <1>9, <2>1
  <2>3. FirstOf(rows, S, n + 1)
    <3>1. k <= n + 1 /\ n + 1 \in Nat
      BY <1>1, <1>2
    <3> QED
      BY <1>2, <2>2, <3>1, FirstRows DEF k
  <2> QED
    BY <1>3, <1>10, <2>3 DEF S
<1>11. CASE next # -1
  <2>1. next \in S /\ next >= start /\ (\A row \in S : row >= start => next <= row) /\ next \in Nat
    BY <1>1, <1>7, <1>11 DEF IsFirst
  <2>2. \A i \in 1 .. k : rows[i] < next
    <3> TAKE i \in 1 .. k
    <3>1. rows[i] \in Nat /\ rows[i] < start
      BY <1>1, <1>2, <1>8
    <3> QED
      BY <1>6, <2>1, <3>1
  <2>3. \A row \in S : \/ \E i \in 1 .. k : rows[i] = row
                       \/ row = next
                       \/ k + 1 = n + 1 /\ next < row
    <3> TAKE row \in S
    <3>1. CASE k = n /\ \A i \in 1 .. k : rows[i] < row
      <4>1. next <= row /\ row \in Nat
        BY <1>1, <1>9, <2>1, <3>1
      <4> QED
        BY <2>1, <3>1, <4>1
    <3> QED
      BY <1>2, <3>1
  <2>4. k < n + 1 /\ n + 1 \in Nat
    BY <1>1, <1>2
  <2>5. Append(rows, next) \in Seq(Nat) /\ FirstOf(Append(rows, next), S, n + 1)
    <3>1. FirstOf(rows, S, n) /\ S \subseteq S
      BY DEF S
    <3> QED
      BY <1>1, <2>1, <2>2, <2>3, <2>4, <3>1, OneMore DEF k
  <2> QED
    BY <1>3, <1>11, <2>5 DEF S
<1> QED
  BY <1>10, <1>11

\* None of none.
LEMMA NoRows ==
  ASSUME NEW S, NEW limit \in Nat, S = {} \/ limit = 0
  PROVE  << >> \in Seq(Nat) /\ FirstOf(<< >>, S, limit)
<1>1. << >> \in Seq(Nat) /\ Len(<< >>) = 0 /\ 1 .. 0 = {}
  OBVIOUS
<1> DEFINE none == << >>
<1>2. none \in Seq(Nat) /\ Len(none) = 0 /\ 1 .. Len(none) = {}
  BY <1>1
<1> HIDE DEF none
<1>3. FirstOf(none, S, limit)
  <2>1. /\ Len(none) <= limit
        /\ \A i \in 1 .. Len(none) : none[i] \in S
        /\ \A i, j \in 1 .. Len(none) : i < j => none[i] < none[j]
        /\ \A row \in S : \/ \E i \in 1 .. Len(none) : none[i] = row
                          \/ Len(none) = limit /\ \A i \in 1 .. Len(none) : none[i] < row
    BY <1>2
  <2> QED
    BY <1>2, <2>1, FirstRows
<1> QED
  BY <1>2, <1>3 DEF none

\* The search by type finds the first rows, in order, as many as there are up to the limit.
LEMMA SearchFirst ==
  ASSUME NEW u \in User, header[u].rows \in Nat, NEW c, NEW value, NEW limit \in Nat
  PROVE  FirstOf(Search(u, c, value, limit), Showing(u, c, value), limit)
<1> DEFINE S == Showing(u, c, value)
           Q == {rows \in Seq(Nat) : \E n \in Nat : FirstOf(rows, S, n)}
           more(rows) == WithNext(u, c, value, rows)
           step == [i \in 1 .. limit |-> [rows \in Q |-> more(rows)]]
           Body(g) == [n \in 0 .. limit |-> IF n = 0 THEN << >> ELSE more(g[n - 1])]
           after == CHOOSE g : g = Body(g)
<1>1. \A rows \in Seq(Nat), n \in Nat :
         FirstOf(rows, S, n) => more(rows) \in Seq(Nat) /\ FirstOf(more(rows), S, n + 1)
  BY Round
<1>2. << >> \in Seq(Nat) /\ FirstOf(<< >>, S, 0)
  BY NoRows
<1>3. Search(u, c, value, limit) = after[limit]
  BY DEF Search
<1> HIDE DEF S, more, after
<1>4. << >> \in Q
  BY <1>2
<1>5. \A rows \in Q : more(rows) \in Q
  BY <1>1
<1>6. step \in Steps(limit, Q)
  BY <1>5 DEF Steps
<1>7. \A i \in 1 .. limit, rows \in Q : step[i][rows] = more(rows)
  OBVIOUS
<1> HIDE DEF Q, step
<1>8. PICK f : Leads(f, limit, Q, << >>, step)
  <2> DEFINE none == << >>
  <2>1. none \in Q
    BY <1>4
  <2> HIDE DEF none
  <2>2. \E f : Leads(f, limit, Q, none, step)
    BY <1>6, <2>1, Iterated
  <2> QED
    BY <2>2 DEF none
<1>9. f \in [0 .. limit -> Q] /\ f[0] = << >> /\ \A i \in 1 .. limit : f[i] = step[i][f[i - 1]]
  BY <1>8 DEF Leads
<1>10. \A i \in 1 .. limit : f[i - 1] \in Q
  BY <1>9
<1>11. \A i \in 1 .. limit : f[i] = more(f[i - 1])
  BY <1>7, <1>9, <1>10
<1>12. f = Body(f)
  BY <1>9, <1>11
<1>13. after = Body(after)
  BY <1>12 DEF after
<1>14. after[0] = << >> /\ \A n \in 1 .. limit : after[n] = more(after[n - 1])
  BY <1>13
<1> DEFINE T == {n \in Nat : n <= limit => after[n] \in Seq(Nat) /\ FirstOf(after[n], S, n)}
<1>15. 0 \in T
  BY <1>2, <1>14
<1>16. ASSUME NEW n \in Nat, n \in T PROVE n + 1 \in T
  <2> SUFFICES ASSUME n + 1 <= limit
               PROVE  after[n + 1] \in Seq(Nat) /\ FirstOf(after[n + 1], S, n + 1)
    OBVIOUS
  <2>1. n + 1 \in 1 .. limit /\ (n + 1) - 1 = n /\ n <= limit
    OBVIOUS
  <2>2. after[n] \in Seq(Nat) /\ FirstOf(after[n], S, n)
    BY <1>16, <2>1
  <2>3. after[n + 1] = more(after[n])
    BY <1>14, <2>1
  <2> QED
    BY <1>1, <2>2, <2>3
<1>17. Nat \subseteq T
  <2> HIDE DEF T
  <2> QED
    BY <1>15, <1>16, Induct
<1>18. FirstOf(after[limit], S, limit)
  BY <1>17
<1> QED
  BY <1>3, <1>18 DEF S

\* So does the one for bytes, which goes through the rows once.
LEMMA SearchBytesFirst ==
  ASSUME NEW u \in User, header[u].rows \in Nat, NEW c, NEW value, NEW limit \in Nat
  PROVE  FirstOf(SearchBytes(u, c, value, limit),
                 {row \in 0 .. header[u].rows - 1 : GetValue(stream, header[u], row, c) = value},
                 limit)
<1> DEFINE N == header[u].rows
           shows(row) == GetValue(stream, header[u], row, c) = value
           S == {row \in 0 .. N - 1 : shows(row)}
           more(rows, row) == IF Len(rows) < limit /\ shows(row) THEN Append(rows, row) ELSE rows
           step == [i \in 1 .. N |-> [rows \in Seq(Nat) |-> more(rows, i - 1)]]
           Body(g) == [row \in 0 .. N |-> IF row = 0 THEN << >> ELSE more(g[row - 1], row - 1)]
           upto == CHOOSE g : g = Body(g)
<1>1. SearchBytes(u, c, value, limit) = upto[N]
  BY DEF SearchBytes
<1>2. N \in Nat
  OBVIOUS
<1> HIDE DEF N, shows, upto
<1>3. << >> \in Seq(Nat)
  OBVIOUS
<1>4. \A i \in 1 .. N, rows \in Seq(Nat) : more(rows, i - 1) \in Seq(Nat)
  BY <1>2
<1>5. step \in Steps(N, Seq(Nat))
  BY <1>4 DEF Steps
<1>6. \A i \in 1 .. N, rows \in Seq(Nat) : step[i][rows] = more(rows, i - 1)
  OBVIOUS
<1> HIDE DEF step, more
<1>7. PICK f : Leads(f, N, Seq(Nat), << >>, step)
  <2> DEFINE none == << >>
             Q == Seq(Nat)
  <2>1. none \in Q /\ step \in Steps(N, Q)
    BY <1>3, <1>5
  <2> HIDE DEF none, Q
  <2>2. \E f : Leads(f, N, Q, none, step)
    BY <1>2, <2>1, Iterated
  <2> QED
    BY <2>2 DEF none, Q
<1>8. /\ f \in [0 .. N -> Seq(Nat)] /\ f[0] = << >>
      /\ \A i \in 1 .. N : f[i] = step[i][f[i - 1]]
  BY <1>7 DEF Leads
<1>9. \A i \in 1 .. N : f[i - 1] \in Seq(Nat)
  BY <1>2, <1>8
<1>10. \A i \in 1 .. N : f[i] = more(f[i - 1], i - 1)
  BY <1>6, <1>8, <1>9
<1>11. f = Body(f)
  BY <1>2, <1>8, <1>10
<1>12. upto = Body(upto)
  BY <1>11 DEF upto
<1>13. upto[0] = << >> /\ \A i \in 1 .. N : upto[i] = more(upto[i - 1], i - 1)
  BY <1>2, <1>12
<1> DEFINE Before(i) == {row \in S : row < i}
           T == {i \in Nat : i <= N => upto[i] \in Seq(Nat) /\ FirstOf(upto[i], Before(i), limit)}
<1>14. 0 \in T
  <2>1. Before(0) = {}
    OBVIOUS
  <2> QED
    BY <1>13, <2>1, NoRows
<1>15. ASSUME NEW i \in Nat, i \in T PROVE i + 1 \in T
  <2> SUFFICES ASSUME i + 1 <= N
               PROVE  upto[i + 1] \in Seq(Nat) /\ FirstOf(upto[i + 1], Before(i + 1), limit)
    OBVIOUS
  <2>1. i + 1 \in 1 .. N /\ (i + 1) - 1 = i /\ i <= N /\ i \in 0 .. N - 1
    BY <1>2
  <2> DEFINE rows == upto[i]
             k == Len(rows)
  <2>2. rows \in Seq(Nat) /\ FirstOf(rows, Before(i), limit)
    BY <1>15, <2>1
  <2>3. upto[i + 1] = more(rows, i)
    BY <1>13, <2>1
  <2> HIDE DEF rows
  <2>4. /\ k <= limit /\ k \in Nat
        /\ \A j \in 1 .. k : rows[j] \in Before(i)
        /\ \A j, m \in 1 .. k : j < m => rows[j] < rows[m]
        /\ \A row \in Before(i) : \/ \E j \in 1 .. k : rows[j] = row
                                  \/ k = limit /\ \A j \in 1 .. k : rows[j] < row
    <3> HIDE DEF Before
    <3>1. Len(rows) \in Nat
      BY <2>2
    <3> QED
      BY <2>2, <3>1, FirstRows
  <2>5. /\ Before(i) \subseteq Before(i + 1) /\ Before(i + 1) \subseteq Nat /\ Before(i) \subseteq Nat
        /\ \A row \in Before(i + 1) : row \in Before(i) \/ row = i
        /\ \A row \in Before(i) : row < i
        /\ i \in Before(i + 1) <=> shows(i)
    BY <1>2, <2>1
  <2> HIDE DEF k, Before
  <2>6. CASE k < limit /\ shows(i)
    <3>1. more(rows, i) = Append(rows, i)
      BY <2>6 DEF more, k
    <3>2. \A row \in Before(i + 1) : \/ \E j \in 1 .. k : rows[j] = row
                                     \/ row = i
                                     \/ k + 1 = limit /\ i < row
      BY <2>4, <2>5, <2>6
    <3>3. \A j \in 1 .. k : rows[j] < i
      BY <2>4, <2>5
    <3>4. Append(rows, i) \in Seq(Nat) /\ FirstOf(Append(rows, i), Before(i + 1), limit)
      BY <2>2, <2>5, <2>6, <3>2, <3>3, OneMore DEF k
    <3> QED
      BY <2>3, <3>1, <3>4
  <2>7. CASE ~(k < limit /\ shows(i))
    <3>1. more(rows, i) = rows
      BY <2>7 DEF more, k
    <3>2. ASSUME NEW row \in Before(i + 1)
          PROVE  \/ \E j \in 1 .. k : rows[j] = row
                 \/ k = limit /\ \A j \in 1 .. k : rows[j] < row
      <4>1. CASE row \in Before(i)
        BY <2>4, <4>1
      <4>2. CASE row \notin Before(i)
        <5>1. row = i /\ shows(i)
          BY <2>5, <4>2
        <5>2. k = limit
          BY <2>4, <2>7, <5>1
        <5> QED
          BY <2>4, <2>5, <5>1, <5>2
      <4> QED
        BY <4>1, <4>2
    <3>3. \A j \in 1 .. k : rows[j] \in Before(i + 1)
      BY <2>4, <2>5
    <3>4. FirstOf(rows, Before(i + 1), limit)
      BY <2>2, <2>4, <3>2, <3>3, FirstRows DEF k
    <3> QED
      BY <2>2, <2>3, <3>1, <3>4
  <2> QED
    BY <2>6, <2>7
<1>16. Nat \subseteq T
  <2> HIDE DEF T
  <2> QED
    BY <1>14, <1>15, Induct
<1>17. FirstOf(upto[N], Before(N), limit)
  <2>1. N \in T
    <3> HIDE DEF T
    <3> QED
      BY <1>2, <1>16
  <2>2. N <= N
    BY <1>2
  <2> HIDE DEF Before
  <2> QED
    BY <2>1, <2>2
<1>18. Before(N) = S
  BY <1>2
<1>19. S = {row \in 0 .. header[u].rows - 1 : GetValue(stream, header[u], row, c) = value}
  BY DEF N, shows
<1> HIDE DEF S
<1> QED
  BY <1>1, <1>17, <1>18, <1>19

\* A header in use, with its table.
LEMMA TableInUse ==
  ASSUME IInv, NEW u \in User \ stale, header[u] # None, Found # None
  PROVE  /\ Found = [layout |-> header[u], cells |-> CellsIn(stream, header[u])]
         /\ header[u] \in Layouts /\ header[u].rows \in Nat /\ header[u].columns \in Seq(Column)
<1> DEFINE h == FromReader(stream)
<1>1. h \notin {None, Empty} /\ ~spoiled /\ Found = [layout |-> h, cells |-> CellsIn(stream, h)]
  BY FoundRead DEF FoundIn
<1>2. header[u] = h
  BY <1>1 DEF IInv, HeadersAgree
<1>3. h \in Layouts
  BY <1>1, FoundTable
<1> HIDE DEF h
<1> QED
  BY <1>1, <1>2, <1>3, TableAssumption

\* The searches are exact.
LEMMA SearchesExact == IInv => SearchExact
<1> SUFFICES ASSUME IInv,
                    NEW u \in User, NEW t \in {Found} \ {None}, Ready(u), u \notin stale,
                    NEW c \in DOMAIN t.layout.columns, NEW format \in {"typed", "hex"},
                    NEW value \in Values
             PROVE  LET type == IF format = "hex" THEN "RAW" ELSE t.layout.columns[c].type
                        showing == {row \in 0 .. t.layout.rows - 1 :
                                        Shown(type, t.cells[<<row, c>>]) = value}
                    IN  /\ \A limit \in 1 .. 2 :
                               FirstOf(SearchTableRows(u, c, value, format, limit), showing, limit)
                        /\ type # "RAW" => \A start \in 0 .. t.layout.rows :
                               LET behind == {row \in showing : row >= start} IN
                               TableSearch(u, c, value, start)
                                   = IF behind = {} THEN -1 ELSE Min(behind)
  BY DEF SearchExact
<1> DEFINE type == IF format = "hex" THEN "RAW" ELSE t.layout.columns[c].type
           showing == {row \in 0 .. t.layout.rows - 1 :
                           Shown(type, t.cells[<<row, c>>]) = value}
<1> DEFINE l == header[u]
<1>1. /\ t = [layout |-> l, cells |-> CellsIn(stream, l)]
      /\ l.rows \in Nat /\ l.columns \in Seq(Column)
  BY TableInUse DEF Ready
<1>2. c \in DOMAIN l.columns
  BY <1>1
<1>3. \A row \in 0 .. l.rows - 1 : t.cells[<<row, c>>] = GetValue(stream, l, row, c)
  <2> HIDE DEF l
  <2>1. \A row \in 0 .. l.rows - 1 : CellsIn(stream, l)[<<row, c>>] = CellAt(stream, l, row, c)
    BY <1>2 DEF CellsIn
  <2> QED
    BY <1>1, <2>1, ValueRead
<1>4. /\ t.layout = l
      /\ showing = {row \in 0 .. l.rows - 1 : Shown(type, GetValue(stream, l, row, c)) = value}
  <2> HIDE DEF l
  <2>1. t.layout = l
    BY <1>1
  <2> QED
    BY <1>3, <2>1
<1>5. type # "RAW" => type = l.columns[c].type
  BY <1>4
<1>6. type = l.columns[c].type => showing = Showing(u, c, value)
  BY <1>4 DEF Showing
<1>7. ASSUME NEW limit \in 1 .. 2
      PROVE  FirstOf(SearchTableRows(u, c, value, format, limit), showing, limit)
  <2>1. limit \in Nat
    OBVIOUS
  <2>2. CASE format = "hex" \/ l.columns[c].type = "RAW"
    <3>1. type = "RAW"
      BY <1>4, <2>2
    <3>2. SearchTableRows(u, c, value, format, limit) = SearchBytes(u, c, value, limit)
      BY <2>2 DEF SearchTableRows
    <3>3. showing = {row \in 0 .. l.rows - 1 : GetValue(stream, l, row, c) = value}
      BY <1>4, <3>1 DEF Shown
    <3>4. FirstOf(SearchBytes(u, c, value, limit),
                  {row \in 0 .. l.rows - 1 : GetValue(stream, l, row, c) = value}, limit)
      BY <1>1, <2>1, SearchBytesFirst
    <3> HIDE DEF showing
    <3> QED
      BY <3>2, <3>3, <3>4
  <2>3. CASE ~(format = "hex" \/ l.columns[c].type = "RAW")
    <3>1. type = l.columns[c].type
      BY <1>4, <2>3
    <3>2. SearchTableRows(u, c, value, format, limit) = Search(u, c, value, limit)
      BY <2>3 DEF SearchTableRows
    <3>3. FirstOf(Search(u, c, value, limit), Showing(u, c, value), limit)
      BY <1>1, <2>1, SearchFirst
    <3>4. showing = Showing(u, c, value)
      BY <1>6, <3>1
    <3> HIDE DEF showing
    <3> QED
      BY <3>2, <3>3, <3>4
  <2> QED
    BY <2>2, <2>3
<1>8. ASSUME type # "RAW", NEW start \in 0 .. t.layout.rows
      PROVE  TableSearch(u, c, value, start)
                = IF {row \in showing : row >= start} = {} THEN -1
                  ELSE Min({row \in showing : row >= start})
  <2> DEFINE behind == {row \in showing : row >= start}
             x == IndexOf(u, c, value, start)
  <2>1. TableSearch(u, c, value, start) = x
    BY <1>5, <1>8 DEF TableSearch
  <2>2. start \in 0 .. l.rows
    BY <1>4
  <2>3. IsFirst(x, showing, start)
    <3>1. IsFirst(x, Showing(u, c, value), start)
      BY <1>1, <2>2, IndexOfFirst
    <3>2. showing = Showing(u, c, value)
      BY <1>5, <1>6, <1>8
    <3> HIDE DEF showing, x
    <3> QED
      BY <3>1, <3>2
  <2>4. showing \subseteq Nat /\ start \in Nat
    BY <1>1, <1>4, <2>2
  <2> HIDE DEF x
  <2>5. CASE behind = {}
    <3>1. x = -1
      BY <2>3, <2>5 DEF IsFirst
    <3> QED
      BY <2>1, <2>5, <3>1
  <2>6. CASE behind # {}
    <3>1. x \in behind /\ \A row \in behind : x <= row
      <4> HIDE DEF showing
      <4>1. PICK row \in showing : row >= start
        BY <2>6
      <4>2. ~(row < start)
        BY <2>4, <4>1
      <4> QED
        BY <2>3, <4>1, <4>2 DEF IsFirst
    <3>2. \A y \in behind : (\A row \in behind : y <= row) => y = x
      BY <2>4, <3>1
    <3>3. Min(behind) = x
      <4> HIDE DEF behind
      <4> QED
        BY <3>1, <3>2 DEF Min
    <3> QED
      BY <2>1, <2>6, <3>3
  <2> QED
    BY <2>5, <2>6
<1> QED
  BY <1>7, <1>8

\* Whatever has been written, every search finds the first rows of the table that show the
\* value, in order, none left out.
THEOREM TableSearchExact == Spec => []SearchExact
<1> QED
  BY InitInv, NextInv, SearchesExact, PTL DEF Spec
=============================================================================
