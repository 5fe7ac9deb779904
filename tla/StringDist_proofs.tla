-------------------------- MODULE StringDist_proofs ---------------------------
(***************************************************************************)
(* Theorems about StringDist, for all words: the matrix of levenshtein     *)
(* holds the edit distances.                                               *)
(***************************************************************************)
EXTENDS StringDist, SequenceTheorems, FiniteSetTheorems, WellFoundedInduction, TLAPS

(***************************************************************************)
(* Induction over the natural numbers, for sets: the provers instantiate   *)
(* no operators.                                                           *)
(***************************************************************************)
LEMMA NatLeast == ASSUME NEW T \in SUBSET Nat, T # {} PROVE \E n \in T : \A m \in T : n <= m
<1> DEFINE R == OpToRel(<, Nat)
<1>1. IsWellFoundedOn(R, Nat)
  BY NatLessThanWellFounded
<1>2. \A x, y \in Nat : <<x, y>> \in R <=> x < y
  BY DEF OpToRel
<1> HIDE DEF R
<1>3. PICK n \in T : \A m \in T : ~(<<m, n>> \in R)
  BY <1>1, WFMin
<1>4. ASSUME NEW m \in T PROVE n <= m
  <2>1. n \in Nat /\ m \in Nat
    OBVIOUS
  <2>2. ~(m < n)
    BY <1>2, <1>3, <2>1
  <2> QED BY <2>1, <2>2
<1> QED BY <1>4

LEMMA NatInduct == ASSUME NEW T \in SUBSET Nat, 0 \in T, \A n \in T : n + 1 \in T PROVE T = Nat
<1>1. SUFFICES ASSUME Nat \ T # {} PROVE FALSE
  OBVIOUS
<1>2. PICK n \in Nat \ T : \A m \in Nat \ T : n <= m
  BY <1>1, NatLeast
<1>3. n - 1 \in T
  BY <1>2
<1> QED BY <1>2, <1>3

\* f is computed from base by one step for each index up to n.
IsComputed(f, n, S, base, step) ==
  f \in [0..n -> S] /\ f[0] = base /\ \A i \in 1..n : f[i] = step[i][f[i-1]]

\* What is computed from one index to the next exists.
LEMMA Computable ==
  ASSUME NEW n \in Nat, NEW S, NEW base \in S, NEW step \in [1..n -> [S -> S]]
  PROVE  \E f : IsComputed(f, n, S, base, step)
<1> DEFINE Good(k, f) == f[0] = base /\ \A i \in 1..k : f[i] = step[i][f[i-1]]
           T == {k \in Nat : k <= n => \E f \in [0..k -> S] : Good(k, f)}
<1>1. 0 \in T
  <2>1. [i \in 0..0 |-> base] \in [0..0 -> S] /\ Good(0, [i \in 0..0 |-> base])
    OBVIOUS
  <2> QED BY <2>1
<1>2. ASSUME NEW k \in T PROVE k + 1 \in T
  <2>0. k \in Nat /\ k + 1 \in Nat
    OBVIOUS
  <2> SUFFICES ASSUME k + 1 <= n PROVE \E f \in [0..(k+1) -> S] : Good(k + 1, f)
    BY <2>0
  <2>1. PICK f \in [0..k -> S] : Good(k, f)
    OBVIOUS
  <2> DEFINE g == [i \in 0..(k+1) |-> IF i = k + 1 THEN step[k+1][f[k]] ELSE f[i]]
  <2>2. k + 1 \in 1..n /\ step[k+1] \in [S -> S] /\ f[k] \in S
    OBVIOUS
  <2>3. g \in [0..(k+1) -> S]
    BY <2>2
  <2>4. \A i \in 0..k : g[i] = f[i]
    OBVIOUS
  <2>5. g[k+1] = step[k+1][g[k]]
    OBVIOUS
  <2>6. \A i \in 1..(k+1) : i = k + 1 \/ (i \in 1..k /\ i - 1 \in 0..k /\ i \in 0..k)
    OBVIOUS
  <2> HIDE DEF g
  <2>7. \A i \in 1..(k+1) : g[i] = step[i][g[i-1]]
    BY <2>1, <2>4, <2>5, <2>6
  <2> QED BY <2>1, <2>3, <2>4, <2>7
<1> HIDE DEF T
<1>3. n \in T
  BY <1>1, <1>2, NatInduct DEF T
<1> QED BY <1>3 DEF T, IsComputed

(***************************************************************************)
(* The matrix.                                                             *)
(***************************************************************************)
Cost(a, b) == IF a = b THEN 0 ELSE 1

LEMMA MinOfThree == ASSUME NEW a \in Nat, NEW b \in Nat, NEW c \in Nat
                    PROVE  LET m == Min({a, b, c})
                           IN m \in {a, b, c} /\ m <= a /\ m <= b /\ m <= c
<1> DEFINE S == {a, b, c}
<1>1. \E x \in S : \A y \in S : x =< y
  <2>1. CASE a <= b /\ a <= c
    BY <2>1
  <2>2. CASE b <= a /\ b <= c
    BY <2>2
  <2>3. CASE c <= a /\ c <= b
    BY <2>3
  <2> QED BY <2>1, <2>2, <2>3
<1> DEFINE m == CHOOSE x \in S : \A y \in S : x =< y
<1>2. m \in S /\ \A y \in S : m =< y
  BY <1>1
<1>3. Min(S) = m
  BY DEF Min
<1> QED BY <1>2, <1>3

\* What a row of the matrix holds.
IsRow(row, letter, target, i, above) ==
  /\ row \in [1..(Len(target) + 1) -> Nat]
  /\ row[1] = i
  /\ \A j \in 1..Len(target) :
       row[j+1] = Min({above[j+1] + 1, row[j] + 1, above[j] + Cost(letter, target[j])})

LEMMA RowIs ==
  ASSUME NEW letter, NEW target, Len(target) \in Nat, NEW i \in Nat,
         NEW above \in [1..(Len(target) + 1) -> Nat]
  PROVE  IsRow(Row(letter, target, i, above), letter, target, i, above)
<1> DEFINE n == Len(target)
           Cell(r, j) == IF j = 1 THEN i
                         ELSE Min({above[j] + 1, r[j-1] + 1,
                                   above[j-1] + IF letter = target[j-1] THEN 0 ELSE 1})
           row == CHOOSE r : r = [j \in 1..(n + 1) |-> Cell(r, j)]
           step == [j \in 1..n |-> [x \in Nat |->
                      Min({above[j+1] + 1, x + 1, above[j] + Cost(letter, target[j])})]]
<1>1. n \in Nat /\ \A j \in 1..n : j \in 1..(n+1) /\ j + 1 \in 1..(n+1) /\ Cost(letter, target[j]) \in Nat
  BY DEF Cost
<1>2. \A j \in 1..n, x \in Nat :
        /\ above[j+1] + 1 \in Nat /\ x + 1 \in Nat /\ above[j] + Cost(letter, target[j]) \in Nat
        /\ Min({above[j+1] + 1, x + 1, above[j] + Cost(letter, target[j])}) \in Nat
  <2> SUFFICES ASSUME NEW j \in 1..n, NEW x \in Nat
               PROVE  /\ above[j+1] + 1 \in Nat /\ x + 1 \in Nat
                      /\ above[j] + Cost(letter, target[j]) \in Nat
                      /\ Min({above[j+1] + 1, x + 1, above[j] + Cost(letter, target[j])}) \in Nat
    OBVIOUS
  <2>0. above[j+1] \in Nat /\ above[j] \in Nat /\ Cost(letter, target[j]) \in Nat
    BY <1>1
  <2>1. above[j+1] + 1 \in Nat /\ x + 1 \in Nat /\ above[j] + Cost(letter, target[j]) \in Nat
    BY <2>0
  <2> QED BY <2>1, MinOfThree
<1>3. step \in [1..n -> [Nat -> Nat]]
  BY <1>2
<1>4. \A k \in 1..n, x \in Nat :
        step[k][x] = Min({above[k+1] + 1, x + 1, above[k] + Cost(letter, target[k])})
  OBVIOUS
<1>5. \A r : \A k \in 1..n :
        Cell(r, k+1) = Min({above[k+1] + 1, r[k] + 1, above[k] + Cost(letter, target[k])})
  <2> SUFFICES ASSUME NEW r, NEW k \in 1..n
               PROVE  Cell(r, k+1) = Min({above[k+1] + 1, r[k] + 1, above[k] + Cost(letter, target[k])})
    OBVIOUS
  <2>1. (k + 1) - 1 = k /\ k + 1 # 1
    BY <1>1
  <2> QED BY <2>1 DEF Cost
<1> HIDE DEF step
<1>6. PICK f : f \in [0..n -> Nat] /\ f[0] = i /\ \A k \in 1..n : f[k] = step[k][f[k-1]]
  <2>1. n \in Nat
    BY <1>1
  <2> HIDE DEF n, Cell, row
  <2>2. \E f : IsComputed(f, n, Nat, i, step)
    BY <1>3, <2>1, Computable
  <2> QED BY <2>2 DEF IsComputed
<1> DEFINE g == [j \in 1..(n + 1) |-> f[j-1]]
<1>61. g = [j \in 1..(n + 1) |-> Cell(g, j)]
  <2>1. \A k \in 0..n : g[k+1] = f[k]
    BY <1>1
  <2>2. g[1] = Cell(g, 1)
    BY <1>1, <1>6
  <2>3. ASSUME NEW k \in 1..n PROVE g[k+1] = Cell(g, k+1)
    <3>1. k - 1 \in 0..n /\ k \in 0..n /\ (k - 1) + 1 = k
      BY <1>1
    <3>2. f[k-1] \in Nat /\ f[k] = step[k][f[k-1]]
      BY <1>6, <3>1
    <3>3. g[k] = f[k-1] /\ g[k+1] = f[k]
      BY <2>1, <3>1
    <3>4. Cell(g, k+1) = Min({above[k+1] + 1, g[k] + 1, above[k] + Cost(letter, target[k])})
      <4> HIDE DEF g, Cell
      <4> QED BY <1>5
    <3>5. f[k] = Min({above[k+1] + 1, f[k-1] + 1, above[k] + Cost(letter, target[k])})
      <4> HIDE DEF g, Cell
      <4> QED BY <1>4, <3>2
    <3> HIDE DEF g, Cell
    <3> QED BY <3>3, <3>4, <3>5
  <2>4. \A j \in 1..(n + 1) : j = 1 \/ \E k \in 1..n : j = k + 1
    BY <1>1
  <2>5. \A j \in 1..(n + 1) : g[j] = Cell(g, j)
    <3> HIDE DEF g, Cell
    <3> QED BY <2>2, <2>3, <2>4
  <2>6. g = [j \in 1..(n + 1) |-> g[j]]
    OBVIOUS
  <2> HIDE DEF g, Cell
  <2> QED BY <2>5, <2>6
<1>62. row = [j \in 1..(n + 1) |-> Cell(row, j)]
  <2> HIDE DEF g, Cell
  <2> QED BY <1>61
<1>7. row[1] = i /\ \A k \in 1..n :
        row[k+1] = Min({above[k+1] + 1, row[k] + 1, above[k] + Cost(letter, target[k])})
  <2> HIDE DEF row
  <2>1. row[1] = i
    BY <1>1, <1>62
  <2>2. \A k \in 1..n : row[k+1] = Cell(row, k+1)
    <3> HIDE DEF Cell
    <3> QED BY <1>1, <1>62
  <2> HIDE DEF Cell
  <2> QED BY <1>5, <2>1, <2>2
<1> HIDE DEF row
<1>8. DOMAIN row = 1..(n+1) /\ row = [j \in 1..(n + 1) |-> row[j]]
  BY <1>62
<1>9. \A j \in 1..(n + 1) : row[j] \in Nat
  <2> DEFINE T == {k \in Nat : k + 1 \in 1..(n + 1) => row[k + 1] \in Nat}
  <2>1. 0 \in T
    BY <1>7
  <2>2. \A k \in T : k + 1 \in T
    <3> SUFFICES ASSUME NEW k \in Nat, k + 2 \in 1..(n + 1), row[k + 1] \in Nat
                 PROVE  row[k + 2] \in Nat
      BY <1>1
    <3>1. k + 1 \in 1..n /\ (k + 1) + 1 = k + 2
      BY <1>1
    <3>2. row[(k+1) + 1] = Min({above[(k+1)+1] + 1, row[k+1] + 1, above[k+1] + Cost(letter, target[k+1])})
      BY <1>7, <3>1
    <3> QED BY <1>2, <3>1, <3>2
  <2> HIDE DEF T
  <2>3. T = Nat
    BY <2>1, <2>2, NatInduct DEF T
  <2>4. \A j \in 1..(n + 1) : j - 1 \in T
    BY <1>1, <2>3
  <2> QED BY <1>1, <2>4 DEF T
<1>10. row \in [1..(n + 1) -> Nat]
  BY <1>8, <1>9
<1>11. row \in Seq(Nat)
  <2> HIDE DEF n
  <2> QED BY <1>1, <1>10, SeqDef
<1>12. Row(letter, target, i, above) = row
  BY <1>11, ConcatEmptySeq DEF Row, row
<1> QED BY <1>7, <1>10, <1>12 DEF IsRow

\* What the matrix of two words holds.
Fills(m, s, t) ==
  /\ m \in [0..Len(s) -> [1..(Len(t) + 1) -> Nat]]
  /\ \A j \in 0..Len(t) : m[0][j+1] = j
  /\ \A i \in 0..Len(s) : m[i][1] = i
  /\ \A i \in 1..Len(s), j \in 1..Len(t) :
       m[i][j+1] = Min({m[i-1][j+1] + 1, m[i][j] + 1, m[i-1][j] + Cost(s[i], t[j])})

LEMMA MatrixFills ==
  ASSUME NEW S, NEW s \in Seq(S), NEW t \in Seq(S)
  PROVE  Fills(Matrix(s, t), s, t)
<1> DEFINE n == Len(s)
           l == Len(t)
           R == [1..(l + 1) -> Nat]
           first == [j \in 1..(l + 1) |-> j - 1]
           Line(m, i) == IF i = 0 THEN first ELSE Row(s[i], t, i, m[i-1])
           matrix == CHOOSE m : m = [i \in 0..n |-> Line(m, i)]
           step == [i \in 1..n |-> [r \in R |-> Row(s[i], t, i, r)]]
<1>1. n \in Nat /\ l \in Nat
  OBVIOUS
<1>2. first \in R
  BY <1>1
<1>3. \A i \in 1..n, r \in R : Row(s[i], t, i, r) \in R
  <2> SUFFICES ASSUME NEW i \in 1..n, NEW r \in R PROVE Row(s[i], t, i, r) \in R
    OBVIOUS
  <2>1. i \in Nat
    BY <1>1
  <2>2. IsRow(Row(s[i], t, i, r), s[i], t, i, r)
    BY <1>1, <2>1, RowIs
  <2> QED BY <2>2 DEF IsRow
<1>4. step \in [1..n -> [R -> R]]
  <2> HIDE DEF R, n
  <2> QED BY <1>3
<1>5. \A i \in 1..n, r \in R : step[i][r] = Row(s[i], t, i, r)
  <2> HIDE DEF R, n
  <2> QED OBVIOUS
<1>6. PICK f : f \in [0..n -> R] /\ f[0] = first /\ \A i \in 1..n : f[i] = step[i][f[i-1]]
  <2> HIDE DEF n, l, R, first, step, Line, matrix
  <2>1. \E f : IsComputed(f, n, R, first, step)
    BY <1>1, <1>2, <1>4, Computable
  <2> QED BY <2>1 DEF IsComputed
<1> HIDE DEF step
<1>7. f = [i \in 0..n |-> Line(f, i)]
  <2>1. \A i \in 1..n : i - 1 \in 0..n /\ i # 0
    BY <1>1
  <2>2. \A i \in 1..n : f[i] = Row(s[i], t, i, f[i-1])
    <3> HIDE DEF n, R, first
    <3> QED BY <1>5, <1>6, <2>1
  <2>3. \A i \in 0..n : i = 0 \/ i \in 1..n
    BY <1>1
  <2>4. \A i \in 0..n : f[i] = Line(f, i)
    <3> HIDE DEF n, R, first
    <3> QED BY <1>6, <2>1, <2>2, <2>3
  <2>5. f = [i \in 0..n |-> f[i]]
    <3> HIDE DEF n, R, first
    <3> QED BY <1>6
  <2> HIDE DEF Line, n
  <2> QED BY <2>4, <2>5
<1>8. matrix = [i \in 0..n |-> Line(matrix, i)]
  <2> HIDE DEF Line, n
  <2> QED BY <1>7
<1>9. Matrix(s, t) = matrix
  BY DEF Matrix
<1> HIDE DEF matrix
<1>10. matrix[0] = first /\ \A i \in 1..n : matrix[i] = Row(s[i], t, i, matrix[i-1])
  <2>1. \A i \in 0..n : matrix[i] = Line(matrix, i)
    <3> HIDE DEF Line, n
    <3> QED BY <1>8
  <2>2. 0 \in 0..n /\ \A i \in 1..n : i \in 0..n /\ i # 0
    BY <1>1
  <2> HIDE DEF n, first
  <2> QED BY <2>1, <2>2
<1>11. \A i \in 0..n : matrix[i] \in R
  <2> DEFINE T == {i \in Nat : i <= n => matrix[i] \in R}
  <2>1. 0 \in T
    BY <1>2, <1>10
  <2>2. \A i \in T : i + 1 \in T
    <3> SUFFICES ASSUME NEW i \in Nat, i + 1 <= n, matrix[i] \in R PROVE matrix[i+1] \in R
      BY <1>1
    <3>1. i + 1 \in 1..n /\ (i + 1) - 1 = i
      BY <1>1
    <3> HIDE DEF R, n, first
    <3> QED BY <1>3, <1>10, <3>1
  <2> HIDE DEF T
  <2>3. T = Nat
    BY <2>1, <2>2, NatInduct DEF T
  <2> QED BY <1>1, <2>3 DEF T
<1>12. matrix \in [0..n -> R]
  <2>1. matrix = [i \in 0..n |-> matrix[i]]
    <3> HIDE DEF Line, n
    <3> QED BY <1>8
  <2> HIDE DEF R, n
  <2> QED BY <1>11, <2>1
<1>13. \A j \in 0..l : matrix[0][j+1] = j
  BY <1>1, <1>10
<1>14. ASSUME NEW i \in 1..n
       PROVE  /\ matrix[i][1] = i
              /\ \A j \in 1..l : matrix[i][j+1] =
                   Min({matrix[i-1][j+1] + 1, matrix[i][j] + 1, matrix[i-1][j] + Cost(s[i], t[j])})
  <2>1. matrix[i-1] \in R /\ matrix[i] = Row(s[i], t, i, matrix[i-1]) /\ i \in Nat
    BY <1>1, <1>10, <1>11
  <2> HIDE DEF n
  <2>2. IsRow(matrix[i], s[i], t, i, matrix[i-1])
    BY <1>1, <2>1, RowIs
  <2> QED BY <2>2 DEF IsRow
<1>15. \A i \in 0..n : matrix[i][1] = i
  <2>1. \A i \in 0..n : i = 0 \/ i \in 1..n
    BY <1>1
  <2>2. matrix[0][1] = 0
    BY <1>1, <1>10
  <2> HIDE DEF n
  <2> QED BY <1>14, <2>1, <2>2
<1> HIDE DEF n, l
<1> QED BY <1>9, <1>12, <1>13, <1>14, <1>15 DEF Fills, n, l

Starts(u, w) == Len(u) <= Len(w) /\ \A i \in 1..Len(u) : u[i] = w[i]

LEMMA StartsItself ==
  ASSUME NEW S, NEW u \in Seq(S) PROVE Starts(u, u)
BY DEF Starts

LEMMA StartsLonger ==
  ASSUME NEW S, NEW u \in Seq(S), NEW a \in S PROVE Starts(u, Append(u, a))
BY DEF Starts

SameAt(m, p, a, b) == m[a][b+1] = p[a][b+1]

\* Prefixes have the matrix of the whole words, as far as they go.
LEMMA SamePrefix ==
  ASSUME NEW S, NEW s \in Seq(S), NEW t \in Seq(S), NEW x \in Seq(S), NEW y \in Seq(S),
         Starts(s, x), Starts(t, y), NEW m, NEW p, Fills(m, x, y), Fills(p, s, t)
  PROVE  SameAt(m, p, Len(s), Len(t))
<1> DEFINE a == Len(s)
           b == Len(t)
           Same(i, j) == m[i][j+1] = p[i][j+1]
           T == {i \in Nat : i <= a => \A j \in 0..b : Same(i, j)}
<1>0. /\ a \in Nat /\ b \in Nat /\ Len(x) \in Nat /\ Len(y) \in Nat /\ a <= Len(x) /\ b <= Len(y)
      /\ \A i \in 1..a : s[i] = x[i]
      /\ \A j \in 1..b : t[j] = y[j]
  BY DEF Starts
<1> HIDE DEF a, b
<1>1. 0 \in T
  <2>1. \A j \in 0..b : j \in 0..Len(t) /\ j \in 0..Len(y)
    BY <1>0 DEF b
  <2> QED BY <2>1 DEF Fills
<1>2. ASSUME NEW i \in Nat, i + 1 <= a, \A j \in 0..b : Same(i, j)
      PROVE  \A j \in 0..b : Same(i + 1, j)
  <2> DEFINE U == {j \in Nat : j <= b => Same(i + 1, j)}
  <2>1. 0 \in U
    BY <1>0, <1>2 DEF Fills, a
  <2>2. ASSUME NEW j \in Nat, j + 1 <= b, Same(i + 1, j) PROVE Same(i + 1, j + 1)
    <3>1. /\ i + 1 \in 1..Len(s) /\ i + 1 \in 1..Len(x) /\ (i + 1) - 1 = i
          /\ j + 1 \in 1..Len(t) /\ j + 1 \in 1..Len(y) /\ j \in 0..b /\ j + 1 \in 0..b
          /\ s[i+1] = x[i+1] /\ t[j+1] = y[j+1]
      BY <1>0, <1>2, <2>2 DEF a, b
    <3>2. Same(i, j) /\ Same(i, j + 1)
      BY <1>0, <1>2, <2>2, <3>1
    <3>3. m[i+1][(j+1)+1] =
            Min({m[i][(j+1)+1] + 1, m[i+1][j+1] + 1, m[i][j+1] + Cost(s[i+1], t[j+1])})
      BY <3>1 DEF Fills
    <3>4. p[i+1][(j+1)+1] =
            Min({p[i][(j+1)+1] + 1, p[i+1][j+1] + 1, p[i][j+1] + Cost(x[i+1], y[j+1])})
      BY <3>1 DEF Fills
    <3> QED BY <2>2, <3>1, <3>2, <3>3, <3>4
  <2>3. \A j \in U : j + 1 \in U
    <3> HIDE DEF Same
    <3> QED BY <1>0, <2>2
  <2> HIDE DEF U
  <2>4. U = Nat
    BY <2>1, <2>3, NatInduct DEF U
  <2>5. \A j \in 0..b : j \in U /\ j <= b
    BY <1>0, <2>4
  <2> QED BY <2>5 DEF U
<1>3. \A i \in T : i + 1 \in T
  <2> SUFFICES ASSUME NEW i \in T PROVE i + 1 \in T
    OBVIOUS
  <2>1. i \in Nat /\ i + 1 \in Nat /\ (i + 1 <= a => i <= a)
    BY <1>0
  <2> HIDE DEF Same
  <2> QED BY <1>2, <2>1
<1> HIDE DEF T
<1>4. T = Nat
  BY <1>1, <1>3, NatInduct DEF T
<1>5. a \in T /\ b \in 0..b
  BY <1>0, <1>4
<1>6. m[a][b+1] = p[a][b+1]
  BY <1>0, <1>5 DEF T
<1> QED BY <1>6 DEF SameAt, a, b

(***************************************************************************)
(* Levenshtein as a recursion over the words, letter by letter.            *)
(***************************************************************************)
LEMMA DistanceIsNat ==
  ASSUME NEW S, NEW s \in Seq(S), NEW t \in Seq(S) PROVE Levenshtein(s, t) \in Nat
<1> DEFINE n == Len(s)
           l == Len(t)
           m == Matrix(s, t)
<1>1. Fills(m, s, t)
  BY MatrixFills
<1>2. n \in 0..n /\ l + 1 \in 1..(l + 1)
  OBVIOUS
<1>3. Levenshtein(s, t) = m[n][l+1]
  BY DEF Levenshtein
<1>4. m \in [0..n -> [1..(l + 1) -> Nat]]
  BY <1>1 DEF Fills
<1> HIDE DEF n, l, m
<1>5. m[n] \in [1..(l + 1) -> Nat]
  BY <1>2, <1>4
<1> QED BY <1>2, <1>3, <1>5

LEMMA DistanceFromNothing ==
  ASSUME NEW S, NEW s \in Seq(S) PROVE Levenshtein(<<>>, s) = Len(s) /\ Levenshtein(s, <<>>) = Len(s)
<1>1. <<>> \in Seq(S) /\ Len(<<>>) = 0 /\ Len(s) \in Nat
  OBVIOUS
<1>2. Fills(Matrix(<<>>, s), <<>>, s) /\ Fills(Matrix(s, <<>>), s, <<>>)
  BY <1>1, MatrixFills
<1> QED BY <1>1, <1>2 DEF Levenshtein, Fills

DistanceAt(m, s, t) == m[Len(s)][Len(t) + 1] = Levenshtein(s, t)

LEMMA DistanceOfPrefixes ==
  ASSUME NEW S, NEW s \in Seq(S), NEW t \in Seq(S), NEW x \in Seq(S), NEW y \in Seq(S),
         Starts(s, x), Starts(t, y)
  PROVE  DistanceAt(Matrix(x, y), s, t)
<1>1. Fills(Matrix(x, y), x, y)
  BY MatrixFills, Zenon
<1>2. Fills(Matrix(s, t), s, t)
  BY MatrixFills, Zenon
<1>3. SameAt(Matrix(x, y), Matrix(s, t), Len(s), Len(t))
  BY <1>1, <1>2, SamePrefix, Zenon
<1> QED BY <1>3, Zenon DEF SameAt, DistanceAt, Levenshtein

\* The distance of two words from those of the words without their last letters.
Step(s, t, a, b) == Min({Levenshtein(s, Append(t, b)) + 1, Levenshtein(Append(s, a), t) + 1,
                         Levenshtein(s, t) + Cost(a, b)})

LEMMA DistanceOfLonger ==
  ASSUME NEW S, NEW s \in Seq(S), NEW t \in Seq(S), NEW a \in S, NEW b \in S
  PROVE  Levenshtein(Append(s, a), Append(t, b)) = Step(s, t, a, b)
<1> DEFINE x == Append(s, a)
           y == Append(t, b)
           n == Len(s)
           l == Len(t)
           m == Matrix(x, y)
<1>1. /\ x \in Seq(S) /\ y \in Seq(S) /\ Len(x) = n + 1 /\ Len(y) = l + 1 /\ n \in Nat /\ l \in Nat
      /\ x[n+1] = a /\ y[l+1] = b
      /\ \A i \in 1..n : x[i] = s[i]
      /\ \A j \in 1..l : y[j] = t[j]
  OBVIOUS
<1> HIDE DEF x, y
<1>2. Fills(m, x, y)
  BY <1>1, MatrixFills, Zenon
<1>3. Starts(s, x) /\ Starts(t, y) /\ Starts(x, x) /\ Starts(y, y) /\ Starts(s, s) /\ Starts(t, t)
  <2>1. Starts(x, x) /\ Starts(y, y) /\ Starts(s, s) /\ Starts(t, t)
    BY <1>1, StartsItself, Zenon
  <2> QED BY <2>1, StartsLonger, Zenon DEF x, y
<1> HIDE DEF m
<1>4. m[n][l+1] = Levenshtein(s, t)
  <2>1. DistanceAt(Matrix(x, y), s, t)
    BY <1>1, <1>3, DistanceOfPrefixes, Zenon
  <2> QED BY <2>1 DEF m, DistanceAt
<1>5. m[n+1][l+1] = Levenshtein(x, t)
  <2>1. DistanceAt(Matrix(x, y), x, t)
    BY <1>1, <1>3, DistanceOfPrefixes, Zenon
  <2> QED BY <2>1, <1>1 DEF m, DistanceAt
<1>9. m[n][(l+1)+1] = Levenshtein(s, y)
  <2>1. DistanceAt(Matrix(x, y), s, y)
    BY <1>1, <1>3, DistanceOfPrefixes, Zenon
  <2> QED BY <2>1, <1>1 DEF m, DistanceAt
<1> HIDE DEF n, l, m
<1>6. n + 1 \in 1..Len(x) /\ l + 1 \in 1..Len(y) /\ (n + 1) - 1 = n
  BY <1>1
<1>7. m[n+1][(l+1)+1] = Min({m[n][(l+1)+1] + 1, m[n+1][l+1] + 1, m[n][l+1] + Cost(a, b)})
  <2>1. \A i \in 1..Len(x), j \in 1..Len(y) :
          m[i][j+1] = Min({m[i-1][j+1] + 1, m[i][j] + 1, m[i-1][j] + Cost(x[i], y[j])})
    BY <1>2 DEF Fills
  <2>2. m[n+1][(l+1)+1] = Min({m[(n+1)-1][(l+1)+1] + 1, m[n+1][l+1] + 1,
                               m[(n+1)-1][l+1] + Cost(x[n+1], y[l+1])})
    BY <1>6, <2>1
  <2> QED BY <1>1, <1>6, <2>2
<1>8. Levenshtein(x, y) = m[n+1][(l+1)+1]
  BY <1>1 DEF m, Levenshtein
<1> QED BY <1>4, <1>5, <1>7, <1>8, <1>9 DEF Step, x, y

\* The distance of the longer words is the least of the three it comes from.
Bounds(s, t, a, b) ==
  LET d == Levenshtein(Append(s, a), Append(t, b))
      x == Levenshtein(s, Append(t, b)) + 1
      y == Levenshtein(Append(s, a), t) + 1
      z == Levenshtein(s, t) + Cost(a, b)
  IN  d <= x /\ d <= y /\ d <= z /\ (d = x \/ d = y \/ d = z)

LEMMA DistanceOfLongerBounds ==
  ASSUME NEW S, NEW s \in Seq(S), NEW t \in Seq(S), NEW a \in S, NEW b \in S
  PROVE  Bounds(s, t, a, b)
<1>1. Append(s, a) \in Seq(S) /\ Append(t, b) \in Seq(S) /\ Cost(a, b) \in Nat
  BY DEF Cost
<1>2. /\ Levenshtein(s, Append(t, b)) + 1 \in Nat
      /\ Levenshtein(Append(s, a), t) + 1 \in Nat
      /\ Levenshtein(s, t) + Cost(a, b) \in Nat
  <2>1. /\ Levenshtein(s, Append(t, b)) \in Nat /\ Levenshtein(Append(s, a), t) \in Nat
        /\ Levenshtein(s, t) \in Nat
    BY <1>1, DistanceIsNat
  <2> QED BY <1>1, <2>1
<1>3. Levenshtein(Append(s, a), Append(t, b)) = Step(s, t, a, b)
  BY DistanceOfLonger
<1> QED BY <1>2, <1>3, MinOfThree DEF Step, Bounds

LEMMA LastLetter ==
  ASSUME NEW S, NEW w \in Seq(S), w # <<>>
  PROVE  \E u \in Seq(S), a \in S : w = Append(u, a) /\ Len(w) = Len(u) + 1
<1>1. PICK u \in Seq(S), a \in S : w = Append(u, a)
  BY SequenceEmptyOrAppend
<1>2. Len(w) = Len(u) + 1
  BY <1>1, AppendProperties
<1> QED BY <1>1, <1>2

\* Induction over words, letter by letter.
LEMMA WordInduct ==
  ASSUME NEW S, NEW T \in SUBSET Seq(S), <<>> \in T, \A u \in T, a \in S : Append(u, a) \in T
  PROVE  T = Seq(S)
<1> DEFINE N == {n \in Nat : \A w \in Seq(S) : Len(w) = n => w \in T}
<1>1. 0 \in N
  BY EmptySeq
<1>2. ASSUME NEW n \in N PROVE n + 1 \in N
  <2> SUFFICES ASSUME NEW w \in Seq(S), Len(w) = n + 1 PROVE w \in T
    OBVIOUS
  <2>1. w # <<>>
    OBVIOUS
  <2>2. PICK u \in Seq(S), a \in S : w = Append(u, a) /\ Len(w) = Len(u) + 1
    BY <2>1, LastLetter
  <2>3. Len(u) = n
    BY <2>2
  <2> QED BY <2>2, <2>3
<1> HIDE DEF N
<1>3. N = Nat
  BY <1>1, <1>2, NatInduct DEF N
<1>4. \A w \in Seq(S) : Len(w) \in N
  BY <1>3
<1> QED BY <1>4 DEF N

(***************************************************************************)
(* Words at distance 0 are equal.                                          *)
(***************************************************************************)
LEMMA ZeroIffEqual ==
  ASSUME NEW S, NEW s \in Seq(S), NEW t \in Seq(S) PROVE Levenshtein(s, t) = 0 <=> s = t
<1> DEFINE T == {u \in Seq(S) : \A w \in Seq(S) : Levenshtein(u, w) = 0 <=> u = w}
<1>1. <<>> \in T
  BY DistanceFromNothing, EmptySeq
<1>2. ASSUME NEW u \in T, NEW a \in S PROVE Append(u, a) \in T
  <2>1. u \in Seq(S) /\ Append(u, a) \in Seq(S) /\ Append(u, a) # <<>>
    OBVIOUS
  <2> SUFFICES ASSUME NEW w \in Seq(S) PROVE Levenshtein(Append(u, a), w) = 0 <=> Append(u, a) = w
    BY <2>1
  <2>2. CASE w = <<>>
    <3>1. Levenshtein(Append(u, a), <<>>) = Len(Append(u, a)) /\ Len(Append(u, a)) # 0
      BY <2>1, DistanceFromNothing, EmptySeq
    <3> QED BY <2>1, <2>2, <3>1
  <2>3. CASE w # <<>>
    <3>1. PICK v \in Seq(S), b \in S : w = Append(v, b)
      BY <2>3, LastLetter
    <3>2. Append(v, b) \in Seq(S)
      OBVIOUS
    <3> DEFINE d == Levenshtein(Append(u, a), Append(v, b))
               x == Levenshtein(u, Append(v, b))
               y == Levenshtein(Append(u, a), v)
               z == Levenshtein(u, v)
    <3>3. d \in Nat /\ x \in Nat /\ y \in Nat /\ z \in Nat
      BY <2>1, <3>2, DistanceIsNat
    <3>4. d <= z + Cost(a, b) /\ (d = x + 1 \/ d = y + 1 \/ d = z + Cost(a, b))
      <4>1. Bounds(u, v, a, b)
        BY <2>1, DistanceOfLongerBounds, Zenon
      <4> QED BY <2>1, <4>1 DEF Bounds
    <3>5. z = 0 <=> u = v
      OBVIOUS
    <3>6. Append(u, a) = Append(v, b) <=> u = v /\ a = b
      BY <2>1, AppendInjective
    <3> HIDE DEF d, x, y, z
    <3>7. d = 0 <=> z = 0 /\ a = b
      BY <3>3, <3>4 DEF Cost
    <3> QED BY <3>1, <3>5, <3>6, <3>7 DEF d
  <2> QED BY <2>2, <2>3
<1> HIDE DEF T
<1>3. T = Seq(S)
  BY <1>1, <1>2, WordInduct DEF T
<1> QED BY <1>3 DEF T

(***************************************************************************)
(* No edit of one letter gains more than 1.                                *)
(***************************************************************************)
\* From u to any word it is at most one step further than from v.
Within(S, u, v) == \A t \in Seq(S) : Levenshtein(u, t) <= Levenshtein(v, t) + 1

LEMMA LengthOfLonger ==
  ASSUME NEW S, NEW s \in Seq(S), NEW a \in S
  PROVE  /\ Append(s, a) \in Seq(S) /\ Len(s) \in Nat
         /\ Len(Append(s, a)) = Len(s) + 1
BY AppendProperties, LenProperties

LEMMA LongerTarget ==
  ASSUME NEW S, NEW s \in Seq(S), NEW t \in Seq(S), NEW b \in S
  PROVE  Levenshtein(s, Append(t, b)) <= Levenshtein(s, t) + 1
<1>1. CASE s = <<>>
  <2>1. Append(t, b) \in Seq(S) /\ Len(t) \in Nat /\ Len(Append(t, b)) = Len(t) + 1
    BY LengthOfLonger
  <2>2. Levenshtein(<<>>, Append(t, b)) = Len(Append(t, b)) /\ Levenshtein(<<>>, t) = Len(t)
    BY <2>1, DistanceFromNothing
  <2> QED BY <1>1, <2>1, <2>2
<1>2. CASE s # <<>>
  <2>1. PICK u \in Seq(S), a \in S : s = Append(u, a)
    BY <1>2, LastLetter
  <2>2. Bounds(u, t, a, b)
    BY DistanceOfLongerBounds, Zenon
  <2> QED BY <2>1, <2>2 DEF Bounds
<1> QED BY <1>1, <1>2

LEMMA LongerSource ==
  ASSUME NEW S, NEW s \in Seq(S), NEW a \in S
  PROVE  Within(S, Append(s, a), s)
<1> SUFFICES ASSUME NEW t \in Seq(S) PROVE Levenshtein(Append(s, a), t) <= Levenshtein(s, t) + 1
  BY DEF Within
<1>1. CASE t = <<>>
  <2>1. Append(s, a) \in Seq(S) /\ Len(Append(s, a)) = Len(s) + 1
    BY LengthOfLonger, Zenon
  <2>2. Levenshtein(Append(s, a), <<>>) = Len(Append(s, a)) /\ Levenshtein(s, <<>>) = Len(s)
    BY <2>1, DistanceFromNothing, Zenon
  <2>3. Len(s) \in Nat
    OBVIOUS
  <2> QED BY <1>1, <2>1, <2>2, <2>3
<1>2. CASE t # <<>>
  <2>1. PICK u \in Seq(S), b \in S : t = Append(u, b)
    BY <1>2, LastLetter
  <2>2. Bounds(s, u, a, b)
    BY DistanceOfLongerBounds, Zenon
  <2> QED BY <2>1, <2>2 DEF Bounds
<1> QED BY <1>1, <1>2

LEMMA ShorterSource ==
  ASSUME NEW S, NEW s \in Seq(S), NEW a \in S
  PROVE  Within(S, s, Append(s, a))
<1> DEFINE x == Append(s, a)
           T == {t \in Seq(S) : Levenshtein(s, t) <= Levenshtein(x, t) + 1}
<1>0. x \in Seq(S) /\ Len(s) \in Nat /\ Len(x) = Len(s) + 1 /\ <<>> \in Seq(S)
  BY LengthOfLonger, EmptySeq
<1>1. <<>> \in T
  <2>1. Levenshtein(s, <<>>) = Len(s) /\ Levenshtein(x, <<>>) = Len(x)
    BY <1>0, DistanceFromNothing
  <2> HIDE DEF x
  <2> QED BY <1>0, <2>1
<1>2. ASSUME NEW t \in T, NEW b \in S PROVE Append(t, b) \in T
  <2> DEFINE y == Append(t, b)
             d == Levenshtein(x, y)
             e == Levenshtein(s, y)
             f == Levenshtein(x, t)
             g == Levenshtein(s, t)
  <2>0. t \in Seq(S) /\ y \in Seq(S)
    BY LengthOfLonger
  <2>1. d \in Nat /\ e \in Nat /\ f \in Nat /\ g \in Nat /\ Cost(a, b) \in Nat
    <3> HIDE DEF x, y
    <3> QED BY <1>0, <2>0, DistanceIsNat DEF Cost
  <2>2. d = e + 1 \/ d = f + 1 \/ d = g + Cost(a, b)
    <3>1. Bounds(s, t, a, b)
      BY <2>0, DistanceOfLongerBounds, Zenon
    <3> QED BY <2>0, <3>1 DEF Bounds
  <2>3. e <= g + 1
    BY <2>0, LongerTarget
  <2>4. g <= f + 1
    OBVIOUS
  <2>5. e <= d + 1
    <3> HIDE DEF d, e, f, g
    <3> QED BY <2>1, <2>2, <2>3, <2>4
  <2> QED BY <2>0, <2>5
<1> HIDE DEF T
<1>3. T = Seq(S)
  BY <1>1, <1>2, WordInduct DEF T
<1> QED BY <1>3 DEF T, Within

LEMMA OtherLetter ==
  ASSUME NEW S, NEW s \in Seq(S), NEW a \in S, NEW b \in S
  PROVE  Within(S, Append(s, a), Append(s, b))
<1> DEFINE x == Append(s, a)
           y == Append(s, b)
           T == {t \in Seq(S) : Levenshtein(x, t) <= Levenshtein(y, t) + 1}
<1>0. /\ x \in Seq(S) /\ y \in Seq(S) /\ <<>> \in Seq(S)
      /\ Len(s) \in Nat /\ Len(x) = Len(s) + 1 /\ Len(y) = Len(s) + 1
  BY LengthOfLonger, EmptySeq
<1>1. <<>> \in T
  <2>1. Levenshtein(y, <<>>) = Len(y) /\ Levenshtein(x, <<>>) = Len(x)
    BY <1>0, DistanceFromNothing
  <2> HIDE DEF x, y
  <2> QED BY <1>0, <2>1
<1>2. ASSUME NEW t \in T, NEW c \in S PROVE Append(t, c) \in T
  <2> DEFINE z == Append(t, c)
             sz == Levenshtein(s, z)
             st == Levenshtein(s, t)
             xz == Levenshtein(x, z)
             xt == Levenshtein(x, t)
             yz == Levenshtein(y, z)
             yt == Levenshtein(y, t)
  <2>0. t \in Seq(S) /\ z \in Seq(S)
    BY LengthOfLonger
  <2>1. /\ sz \in Nat /\ st \in Nat /\ xz \in Nat /\ xt \in Nat /\ yz \in Nat /\ yt \in Nat
        /\ Cost(a, c) \in 0..1 /\ Cost(b, c) \in 0..1
    <3> HIDE DEF x, y, z
    <3> QED BY <1>0, <2>0, DistanceIsNat DEF Cost
  <2>2. /\ xz <= sz + 1 /\ xz <= xt + 1 /\ xz <= st + Cost(a, c)
        /\ yz = sz + 1 \/ yz = yt + 1 \/ yz = st + Cost(b, c)
    <3>1. Bounds(s, t, a, c) /\ Bounds(s, t, b, c)
      BY <2>0, DistanceOfLongerBounds, Zenon
    <3> QED BY <2>0, <3>1 DEF Bounds
  <2>3. xt <= yt + 1
    OBVIOUS
  <2>4. xz <= yz + 1
    <3> HIDE DEF sz, st, xz, xt, yz, yt
    <3> QED BY <2>1, <2>2, <2>3
  <2> QED BY <2>0, <2>4
<1> HIDE DEF T
<1>3. T = Seq(S)
  BY <1>1, <1>2, WordInduct DEF T
<1> QED BY <1>3 DEF T, Within

LEMMA WithinAppend ==
  ASSUME NEW S, NEW u \in Seq(S), NEW v \in Seq(S), NEW a \in S, Within(S, u, v)
  PROVE  Within(S, Append(u, a), Append(v, a))
<1> DEFINE x == Append(u, a)
           y == Append(v, a)
           T == {t \in Seq(S) : Levenshtein(x, t) <= Levenshtein(y, t) + 1}
<1>0. /\ x \in Seq(S) /\ y \in Seq(S) /\ <<>> \in Seq(S)
      /\ Len(u) \in Nat /\ Len(v) \in Nat /\ Len(x) = Len(u) + 1 /\ Len(y) = Len(v) + 1
  BY LengthOfLonger, EmptySeq
<1>1. <<>> \in T
  <2>1. Levenshtein(y, <<>>) = Len(y) /\ Levenshtein(x, <<>>) = Len(x)
    BY <1>0, DistanceFromNothing
  <2>2. Levenshtein(u, <<>>) = Len(u) /\ Levenshtein(v, <<>>) = Len(v)
    BY DistanceFromNothing
  <2>3. Len(u) <= Len(v) + 1
    BY <1>0, <2>2 DEF Within
  <2> HIDE DEF x, y
  <2> QED BY <1>0, <2>1, <2>3
<1>2. ASSUME NEW t \in T, NEW c \in S PROVE Append(t, c) \in T
  <2> DEFINE z == Append(t, c)
             uz == Levenshtein(u, z)
             ut == Levenshtein(u, t)
             vz == Levenshtein(v, z)
             vt == Levenshtein(v, t)
             xz == Levenshtein(x, z)
             xt == Levenshtein(x, t)
             yz == Levenshtein(y, z)
             yt == Levenshtein(y, t)
  <2>0. t \in Seq(S) /\ z \in Seq(S)
    BY LengthOfLonger
  <2>1. /\ uz \in Nat /\ ut \in Nat /\ vz \in Nat /\ vt \in Nat
        /\ xz \in Nat /\ xt \in Nat /\ yz \in Nat /\ yt \in Nat /\ Cost(a, c) \in 0..1
    <3> HIDE DEF x, y, z
    <3> QED BY <1>0, <2>0, DistanceIsNat DEF Cost
  <2>2. xz <= uz + 1 /\ xz <= xt + 1 /\ xz <= ut + Cost(a, c)
    <3>1. Bounds(u, t, a, c)
      BY <2>0, DistanceOfLongerBounds, Zenon
    <3> QED BY <2>0, <3>1 DEF Bounds
  <2>3. yz = vz + 1 \/ yz = yt + 1 \/ yz = vt + Cost(a, c)
    <3>1. Bounds(v, t, a, c)
      BY <2>0, DistanceOfLongerBounds, Zenon
    <3> QED BY <2>0, <3>1 DEF Bounds
  <2>4. xt <= yt + 1 /\ uz <= vz + 1 /\ ut <= vt + 1
    BY <2>0 DEF Within
  <2>5. xz <= yz + 1
    <3> HIDE DEF uz, ut, vz, vt, xz, xt, yz, yt
    <3> QED BY <2>1, <2>2, <2>3, <2>4
  <2> QED BY <2>0, <2>5
<1> HIDE DEF T
<1>3. T = Seq(S)
  BY <1>1, <1>2, WordInduct DEF T
<1> QED BY <1>3 DEF T, Within

LEMMA WithinConcat ==
  ASSUME NEW S, NEW u \in Seq(S), NEW v \in Seq(S), Within(S, u, v), NEW x \in Seq(S)
  PROVE  Within(S, u \o x, v \o x)
<1> DEFINE T == {w \in Seq(S) : Within(S, u \o w, v \o w)}
<1>1. <<>> \in T
  BY ConcatEmptySeq, EmptySeq
<1>2. ASSUME NEW w \in T, NEW a \in S PROVE Append(w, a) \in T
  <2>1. w \in Seq(S) /\ u \o w \in Seq(S) /\ v \o w \in Seq(S) /\ Append(w, a) \in Seq(S)
    BY ConcatProperties, AppendProperties
  <2>2. Within(S, Append(u \o w, a), Append(v \o w, a))
    BY <2>1, WithinAppend
  <2>3. u \o Append(w, a) = Append(u \o w, a) /\ v \o Append(w, a) = Append(v \o w, a)
    BY <2>1
  <2> QED BY <2>1, <2>2, <2>3
<1> HIDE DEF T
<1>3. T = Seq(S)
  BY <1>1, <1>2, WordInduct DEF T
<1> QED BY <1>3 DEF T

(***************************************************************************)
(* Words around one of their letters.                                      *)
(***************************************************************************)
First(w, i) == SubSeq(w, 1, i)
Rest(w, i) == SubSeq(w, i + 1, Len(w))

LEMMA Split ==
  ASSUME NEW S, NEW w \in Seq(S), NEW i \in 0..Len(w)
  PROVE  /\ First(w, i) \in Seq(S) /\ Len(First(w, i)) = i
         /\ \A j \in 1..i : First(w, i)[j] = w[j]
         /\ Rest(w, i) \in Seq(S) /\ Len(Rest(w, i)) = Len(w) - i
         /\ \A j \in 1..(Len(w) - i) : Rest(w, i)[j] = w[i+j]
         /\ w = First(w, i) \o Rest(w, i)
<1> DEFINE n == Len(w)
<1>1. n \in Nat /\ i \in Nat /\ i <= n /\ \A j \in 1..n : w[j] \in S
  OBVIOUS
<1>2. /\ First(w, i) \in Seq(S) /\ Len(First(w, i)) = i
      /\ \A j \in 1..i : First(w, i)[j] = w[j]
  BY <1>1, SubSeqProperties DEF First
<1>3. /\ Rest(w, i) \in Seq(S) /\ Len(Rest(w, i)) = n - i
      /\ \A j \in 1..(n - i) : Rest(w, i)[j] = w[i+j]
  BY <1>1, SubSeqProperties DEF Rest
<1>4. w = First(w, i) \o Rest(w, i)
  <2> DEFINE v == First(w, i) \o Rest(w, i)
  <2>0. v \in Seq(S) /\ Len(v) = Len(First(w, i)) + Len(Rest(w, i))
    BY <1>2, <1>3, ConcatProperties
  <2>1. v \in Seq(S) /\ Len(v) = n
    <3> HIDE DEF v
    <3> QED BY <1>1, <1>2, <1>3, <2>0
  <2>2. \A j \in 1..n : v[j] = IF j <= i THEN First(w, i)[j] ELSE Rest(w, i)[j-i]
    BY <1>1, <1>2, <1>3, ConcatProperties
  <2>3. \A j \in 1..n : v[j] = w[j]
    BY <1>1, <1>2, <1>3, <2>2
  <2> HIDE DEF v
  <2>4. w = v
    BY <2>1, <2>3, SeqEqual
  <2> QED BY <2>4 DEF v
<1> QED BY <1>2, <1>3, <1>4

LEMMA SplitAt ==
  ASSUME NEW S, NEW w \in Seq(S), NEW i \in 1..Len(w), NEW l \in S
  PROVE  /\ i - 1 \in 0..Len(w) /\ i \in 0..Len(w) /\ w[i] \in S
         /\ Substituted(w, i, l) \in Seq(S)
         /\ Substituted(w, i, l) = Append(First(w, i-1), l) \o Rest(w, i)
<1> DEFINE n == Len(w)
           v == Substituted(w, i, l)
           p == Append(First(w, i-1), l)
           u == p \o Rest(w, i)
<1>1. n \in Nat /\ i - 1 \in 0..n /\ i \in 0..n /\ w[i] \in S /\ i \in 1..n
  OBVIOUS
<1>2. v \in Seq(S) /\ Len(v) = n /\ \A j \in 1..n : v[j] = IF j = i THEN l ELSE w[j]
  BY ExceptSeq DEF Substituted
<1>3. /\ First(w, i-1) \in Seq(S) /\ Len(First(w, i-1)) = i - 1
      /\ \A j \in 1..(i - 1) : First(w, i-1)[j] = w[j]
  BY <1>1, Split
<1>4. p \in Seq(S) /\ Len(p) = i /\ p[i] = l /\ \A j \in 1..(i - 1) : p[j] = w[j]
  <2>1. /\ p \in Seq(S) /\ Len(p) = (i - 1) + 1 /\ p[(i - 1) + 1] = l
        /\ \A j \in 1..(i - 1) : p[j] = First(w, i-1)[j]
    BY <1>3, AppendProperties
  <2> HIDE DEF p
  <2> QED BY <1>1, <1>3, <2>1
<1>5. /\ Rest(w, i) \in Seq(S) /\ Len(Rest(w, i)) = n - i
      /\ \A j \in 1..(n - i) : Rest(w, i)[j] = w[i+j]
  BY <1>1, Split
<1> HIDE DEF p
<1>6. /\ u \in Seq(S) /\ Len(u) = n
      /\ \A j \in 1..n : u[j] = IF j <= i THEN p[j] ELSE Rest(w, i)[j-i]
  <2>1. /\ u \in Seq(S) /\ Len(u) = Len(p) + Len(Rest(w, i))
        /\ \A j \in 1..(Len(p) + Len(Rest(w, i))) :
             u[j] = IF j <= Len(p) THEN p[j] ELSE Rest(w, i)[j - Len(p)]
    BY <1>4, <1>5, ConcatProperties
  <2>2. Len(p) = i /\ Len(Rest(w, i)) = n - i /\ i + (n - i) = n
    BY <1>1, <1>4, <1>5
  <2> HIDE DEF u, n
  <2> QED BY <2>1, <2>2
<1> HIDE DEF u, v
<1>7. \A j \in 1..n : u[j] = v[j]
  BY <1>1, <1>2, <1>4, <1>5, <1>6
<1>8. u = v
  BY <1>2, <1>6, <1>7, SeqEqual
<1> QED BY <1>1, <1>2, <1>8 DEF u, v, p

LEMMA SameLetter ==
  ASSUME NEW S, NEW w \in Seq(S), NEW i \in 1..Len(w)
  PROVE  /\ i - 1 \in 0..Len(w) /\ i \in 0..Len(w) /\ w[i] \in S
         /\ w = Append(First(w, i-1), w[i]) \o Rest(w, i)
<1>1. w[i] \in S /\ Substituted(w, i, w[i]) = w /\ i - 1 \in 0..Len(w) /\ i \in 0..Len(w)
  BY DEF Substituted
<1>2. Substituted(w, i, w[i]) = Append(First(w, i-1), w[i]) \o Rest(w, i)
  BY <1>1, SplitAt
<1> QED BY <1>1, <1>2

\* The words one edit away, by what is done where.
LEMMA EditsAre ==
  ASSUME NEW w, NEW L, NEW v
  PROVE  v \in Edits(w, L) <=>
           \/ \E i \in 1..Len(w) : v = Deleted(w, i)
           \/ \E i \in 1..Len(w), l \in L : v = Substituted(w, i, l)
           \/ \E i \in 0..Len(w), l \in L : v = Inserted(w, i, l)
BY DEF Edits

LEMMA EditLosesAtMostOne ==
  ASSUME NEW S, NEW L \in SUBSET S, NEW w \in Seq(S), NEW v \in Edits(w, L)
  PROVE  v \in Seq(S) /\ Within(S, w, v)
<1> DEFINE n == Len(w)
<1>1. ASSUME NEW i \in 1..n, v = Deleted(w, i) PROVE v \in Seq(S) /\ Within(S, w, v)
  <2>1. /\ w[i] \in S /\ w = Append(First(w, i-1), w[i]) \o Rest(w, i)
        /\ i - 1 \in 0..n /\ i \in 0..n
    BY SameLetter
  <2>2. First(w, i-1) \in Seq(S) /\ Rest(w, i) \in Seq(S)
    BY <2>1, Split
  <2>3. Within(S, Append(First(w, i-1), w[i]), First(w, i-1)) /\ Append(First(w, i-1), w[i]) \in Seq(S)
    BY <2>1, <2>2, LongerSource, LengthOfLonger
  <2>4. Within(S, Append(First(w, i-1), w[i]) \o Rest(w, i), First(w, i-1) \o Rest(w, i))
    BY <2>2, <2>3, WithinConcat
  <2>5. v \in Seq(S)
    BY <1>1, <2>2, ConcatProperties DEF Deleted, First, Rest
  <2>6. v = First(w, i-1) \o Rest(w, i)
    BY <1>1, Zenon DEF Deleted, First, Rest
  <2> QED BY <2>1, <2>4, <2>5, <2>6, Zenon
<1>2. ASSUME NEW i \in 1..n, NEW l \in L, v = Substituted(w, i, l)
      PROVE  v \in Seq(S) /\ Within(S, w, v)
  <2>0. l \in S
    OBVIOUS
  <2>1. /\ w[i] \in S /\ w = Append(First(w, i-1), w[i]) \o Rest(w, i)
        /\ i - 1 \in 0..n /\ i \in 0..n
        /\ v \in Seq(S) /\ v = Append(First(w, i-1), l) \o Rest(w, i)
    <3>1. /\ Substituted(w, i, l) \in Seq(S)
          /\ Substituted(w, i, l) = Append(First(w, i-1), l) \o Rest(w, i)
      BY <2>0, SplitAt
    <3> QED BY <1>2, <3>1, SameLetter
  <2>2. First(w, i-1) \in Seq(S) /\ Rest(w, i) \in Seq(S)
    BY <2>1, Split
  <2>3. /\ Within(S, Append(First(w, i-1), w[i]), Append(First(w, i-1), l))
        /\ Append(First(w, i-1), w[i]) \in Seq(S) /\ Append(First(w, i-1), l) \in Seq(S)
    BY <2>0, <2>1, <2>2, OtherLetter, LengthOfLonger
  <2>4. Within(S, Append(First(w, i-1), w[i]) \o Rest(w, i), Append(First(w, i-1), l) \o Rest(w, i))
    BY <2>2, <2>3, WithinConcat
  <2> QED BY <2>1, <2>4, Zenon
<1>3. ASSUME NEW i \in 0..n, NEW l \in L, v = Inserted(w, i, l)
      PROVE  v \in Seq(S) /\ Within(S, w, v)
  <2>1. First(w, i) \in Seq(S) /\ Rest(w, i) \in Seq(S) /\ w = First(w, i) \o Rest(w, i)
    BY Split
  <2>2. l \in S
    OBVIOUS
  <2>3. Within(S, First(w, i), Append(First(w, i), l)) /\ Append(First(w, i), l) \in Seq(S)
    BY <2>1, <2>2, ShorterSource, LengthOfLonger
  <2>4. Within(S, First(w, i) \o Rest(w, i), Append(First(w, i), l) \o Rest(w, i))
    BY <2>1, <2>3, WithinConcat
  <2>5. Append(First(w, i), l) = First(w, i) \o <<l>>
    BY <2>1, <2>2, AppendIsConcat
  <2>6. v = Append(First(w, i), l) \o Rest(w, i)
    BY <1>3, <2>5, Zenon DEF Inserted, First, Rest
  <2>7. v \in Seq(S)
    BY <2>1, <2>3, <2>6, ConcatProperties
  <2> QED BY <2>1, <2>4, <2>6, <2>7, Zenon
<1>4. \/ \E i \in 1..n : v = Deleted(w, i)
      \/ \E i \in 1..n, l \in L : v = Substituted(w, i, l)
      \/ \E i \in 0..n, l \in L : v = Inserted(w, i, l)
  BY EditsAre
<1> HIDE DEF n
<1> QED BY <1>1, <1>2, <1>3, <1>4

(***************************************************************************)
(* Some edit gains 1.                                                      *)
(***************************************************************************)
LEMMA SplitLonger ==
  ASSUME NEW S, NEW w \in Seq(S), NEW a \in S, NEW i \in 0..Len(w)
  PROVE  /\ First(Append(w, a), i) = First(w, i)
         /\ Rest(Append(w, a), i) = Append(Rest(w, i), a)
<1> DEFINE n == Len(w)
           x == Append(w, a)
           r == Append(Rest(w, i), a)
<1>1. /\ n \in Nat /\ i \in Nat /\ i <= n
      /\ x \in Seq(S) /\ Len(x) = n + 1 /\ x[n+1] = a /\ \A j \in 1..n : x[j] = w[j]
      /\ i \in 0..Len(w)
  BY AppendProperties
<1> HIDE DEF x, n
<1>2. i \in 0..Len(x)
  BY <1>1
<1>3. /\ First(w, i) \in Seq(S) /\ Len(First(w, i)) = i
      /\ \A j \in 1..i : First(w, i)[j] = w[j]
      /\ Rest(w, i) \in Seq(S) /\ Len(Rest(w, i)) = n - i
      /\ \A j \in 1..(n - i) : Rest(w, i)[j] = w[i+j]
  BY <1>1, Split DEF n
<1>4. /\ First(x, i) \in Seq(S) /\ Len(First(x, i)) = i
      /\ \A j \in 1..i : First(x, i)[j] = x[j]
      /\ Rest(x, i) \in Seq(S) /\ Len(Rest(x, i)) = n + 1 - i
      /\ \A j \in 1..(n + 1 - i) : Rest(x, i)[j] = x[i+j]
  <2>1. /\ First(x, i) \in Seq(S) /\ Len(First(x, i)) = i
        /\ \A j \in 1..i : First(x, i)[j] = x[j]
        /\ Rest(x, i) \in Seq(S) /\ Len(Rest(x, i)) = Len(x) - i
        /\ \A j \in 1..(Len(x) - i) : Rest(x, i)[j] = x[i+j]
    BY <1>1, <1>2, Split, Zenon
  <2> QED BY <1>1, <2>1
<1>5. First(x, i) = First(w, i)
  <2>1. \A j \in 1..i : First(x, i)[j] = First(w, i)[j]
    <3>1. \A j \in 1..i : j \in 1..n
      BY <1>1
    <3>2. \A j \in 1..i : First(x, i)[j] = x[j] /\ First(w, i)[j] = w[j] /\ x[j] = w[j]
      BY <1>1, <1>3, <1>4, <3>1, Zenon
    <3> QED BY <3>2, Zenon
  <2> QED BY <1>3, <1>4, <2>1, SeqEqual
<1>6. /\ r \in Seq(S) /\ Len(r) = n - i + 1 /\ r[n - i + 1] = a
      /\ \A j \in 1..(n - i) : r[j] = Rest(w, i)[j]
  BY <1>3, AppendProperties
<1> HIDE DEF r
<1>7. Rest(x, i) = r
  <2>1. ASSUME NEW j \in 1..(n + 1 - i) PROVE Rest(x, i)[j] = r[j]
    <3>1. Rest(x, i)[j] = x[i+j]
      BY <1>4, Zenon
    <3>2. CASE j = n + 1 - i
      <4>1. i + j = n + 1 /\ j = n - i + 1
        BY <1>1, <3>2
      <4> QED BY <1>1, <1>6, <3>1, <4>1, Zenon
    <3>3. CASE j # n + 1 - i
      <4>1. j \in 1..(n - i) /\ i + j \in 1..n
        BY <1>1, <3>3
      <4> QED BY <1>1, <1>3, <1>6, <3>1, <4>1, Zenon
    <3> QED BY <3>2, <3>3
  <2>2. Len(Rest(x, i)) = Len(r)
    BY <1>1, <1>4, <1>6
  <2> QED BY <1>4, <1>6, <2>1, <2>2, SeqEqual
<1> QED BY <1>5, <1>7 DEF r, x

LEMMA ConcatAppend ==
  ASSUME NEW S, NEW u \in Seq(S), NEW v \in Seq(S), NEW a \in S
  PROVE  u \o Append(v, a) = Append(u \o v, a)
OBVIOUS

LEMMA EditsOfLonger ==
  ASSUME NEW S, NEW L \in SUBSET S, NEW w \in Seq(S), NEW a \in S, NEW v \in Edits(w, L)
  PROVE  Append(v, a) \in Edits(Append(w, a), L)
<1> DEFINE x == Append(w, a)
           n == Len(w)
<1>1. n \in Nat /\ x \in Seq(S) /\ Len(x) = n + 1
  BY AppendProperties
<1>2. \A i \in 0..n : /\ First(x, i) = First(w, i) /\ Rest(x, i) = Append(Rest(w, i), a)
                      /\ First(w, i) \in Seq(S) /\ Rest(w, i) \in Seq(S)
  BY SplitLonger, Split
<1> HIDE DEF x
<1>3. ASSUME NEW i \in 1..n, v = Deleted(w, i) PROVE Append(v, a) \in Edits(x, L)
  <2>1. i \in 1..Len(x) /\ i - 1 \in 0..n /\ i \in 0..n
    BY <1>1
  <2>2. Deleted(x, i) = First(w, i-1) \o Append(Rest(w, i), a)
    BY <1>2, <2>1 DEF Deleted, First, Rest
  <2>3. Deleted(x, i) = Append(First(w, i-1) \o Rest(w, i), a)
    BY <1>2, <2>1, <2>2, ConcatAppend
  <2>4. v = First(w, i-1) \o Rest(w, i)
    BY <1>3 DEF Deleted, First, Rest
  <2> QED BY <2>1, <2>3, <2>4, EditsAre
<1>4. ASSUME NEW i \in 1..n, NEW l \in L, v = Substituted(w, i, l)
      PROVE  Append(v, a) \in Edits(x, L)
  <2>1. i \in 1..Len(x) /\ i - 1 \in 0..n /\ i \in 0..n /\ l \in S /\ i \in 1..Len(w)
    BY <1>1
  <2>2. Substituted(x, i, l) = Append(First(x, i-1), l) \o Rest(x, i)
    <3>1. x \in Seq(S)
      BY <1>1
    <3>2. i \in 1..Len(x) /\ l \in S
      BY <2>1
    <3> HIDE DEF n
    <3> QED BY <3>1, <3>2, SplitAt
  <2>3. Substituted(w, i, l) = Append(First(w, i-1), l) \o Rest(w, i)
    BY <2>1, SplitAt
  <2>4. Append(First(w, i-1), l) \in Seq(S)
    BY <1>2, <2>1, AppendProperties
  <2>5. Substituted(x, i, l) = Append(First(w, i-1), l) \o Append(Rest(w, i), a)
    BY <1>2, <2>1, <2>2
  <2>6. Append(First(w, i-1), l) \o Append(Rest(w, i), a)
          = Append(Append(First(w, i-1), l) \o Rest(w, i), a)
    BY <1>2, <2>1, <2>4, ConcatAppend
  <2>7. Substituted(x, i, l) = Append(v, a)
    BY <1>4, <2>3, <2>5, <2>6
  <2> QED BY <2>1, <2>7, EditsAre
<1>5. ASSUME NEW i \in 0..n, NEW l \in L, v = Inserted(w, i, l)
      PROVE  Append(v, a) \in Edits(x, L)
  <2>1. i \in 0..Len(x) /\ l \in S
    BY <1>1
  <2> DEFINE p == First(w, i) \o <<l>>
  <2>2. First(w, i) \in Seq(S) /\ Rest(w, i) \in Seq(S)
    BY <1>2
  <2>3. p \in Seq(S)
    <3>1. <<l>> \in Seq(S)
      BY <2>1
    <3> QED BY <2>2, <3>1, ConcatProperties
  <2>4. Inserted(x, i, l) = p \o Append(Rest(w, i), a)
    BY <1>2 DEF Inserted, First, Rest
  <2>5. v = p \o Rest(w, i)
    BY <1>5 DEF Inserted, First, Rest
  <2> HIDE DEF p
  <2>6. Inserted(x, i, l) = Append(v, a)
    BY <2>2, <2>3, <2>4, <2>5, ConcatAppend
  <2> QED BY <2>1, <2>6, EditsAre
<1>6. \/ \E i \in 1..n : v = Deleted(w, i)
      \/ \E i \in 1..n, l \in L : v = Substituted(w, i, l)
      \/ \E i \in 0..n, l \in L : v = Inserted(w, i, l)
  BY EditsAre
<1> HIDE DEF n
<1> QED BY <1>3, <1>4, <1>5, <1>6 DEF x

LEMMA LastDeletion ==
  ASSUME NEW S, NEW L \in SUBSET S, NEW w \in Seq(S), NEW a \in S
  PROVE  w \in Edits(Append(w, a), L)
<1> DEFINE x == Append(w, a)
           n == Len(w)
<1>1. n \in Nat /\ x \in Seq(S) /\ Len(x) = n + 1
  BY AppendProperties
<1>2. n + 1 \in 1..Len(x) /\ n \in 0..Len(w) /\ (n + 1) - 1 = n
  BY <1>1
<1>3. First(x, n) = w
  BY <1>2, SubSeqFull, SplitLonger DEF First
<1> HIDE DEF x
<1>4. Rest(x, n + 1) = <<>>
  BY <1>1, SubSeqEmpty DEF Rest
<1>5. Deleted(x, n + 1) = First(x, n) \o Rest(x, n + 1)
  BY <1>2 DEF Deleted, First, Rest
<1>6. Deleted(x, n + 1) = w
  BY <1>3, <1>4, <1>5, ConcatEmptySeq
<1> HIDE DEF n
<1> QED BY <1>2, <1>6, EditsAre DEF x

\* The edits of the last letter, and of what would follow it.
LEMMA LastEdits ==
  ASSUME NEW S, NEW L \in SUBSET S, NEW w \in Seq(S), NEW a \in S, NEW b \in L
  PROVE  /\ Append(w, b) \in Edits(Append(w, a), L)
         /\ Append(w, b) \in Edits(w, L)
<1> DEFINE x == Append(w, a)
           n == Len(w)
<1>1. n \in Nat /\ x \in Seq(S) /\ Len(x) = n + 1 /\ b \in S
  BY AppendProperties
<1>2. n + 1 \in 1..Len(x) /\ n \in 0..Len(w) /\ n + 1 \in 0..Len(x) /\ (n + 1) - 1 = n
  BY <1>1
<1>3. First(w, n) = w
  BY SubSeqFull DEF First
<1>4. Rest(w, n) = <<>>
  BY <1>1, SubSeqEmpty DEF Rest
<1>5. First(x, n) = w
  BY <1>2, <1>3, SplitLonger
<1> HIDE DEF x
<1>6. Rest(x, n + 1) = <<>>
  BY <1>1, SubSeqEmpty DEF Rest
<1>8. Append(w, b) \in Seq(S)
  BY <1>1, AppendProperties
<1>9. Substituted(x, n + 1, b) = Append(w, b)
  <2>1. Substituted(x, n + 1, b) = Append(First(x, (n + 1) - 1), b) \o Rest(x, n + 1)
    <3> DEFINE k == n + 1
    <3>1. x \in Seq(S) /\ b \in S
      BY <1>1
    <3>2. k \in 1..Len(x)
      BY <1>2
    <3> HIDE DEF k
    <3>3. Substituted(x, k, b) = Append(First(x, k-1), b) \o Rest(x, k)
      BY <3>1, <3>2, SplitAt
    <3> QED BY <3>3 DEF k
  <2> QED BY <1>2, <1>5, <1>6, <1>8, <2>1, ConcatEmptySeq
<1>10. Inserted(w, n, b) = Append(w, b)
  <2>1. Inserted(w, n, b) = First(w, n) \o <<b>> \o Rest(w, n)
    BY DEF Inserted, First, Rest
  <2>2. Inserted(w, n, b) = Append(w, b) \o <<>>
    BY <1>1, <1>3, <1>4, <2>1, AppendIsConcat
  <2> QED BY <1>8, <2>2, ConcatEmptySeq
<1> HIDE DEF n
<1> QED BY <1>2, <1>9, <1>10, EditsAre DEF x

LEMMA SomeEditGains ==
  ASSUME NEW S, NEW L \in SUBSET S, NEW w \in Seq(S), NEW c \in Seq(L), Levenshtein(w, c) # 0
  PROVE  \E v \in Edits(w, L) : v \in Seq(S) /\ Levenshtein(v, c) < Levenshtein(w, c)
<1> DEFINE Gains(u, d) == Levenshtein(u, d) # 0 =>
                            \E v \in Edits(u, L) : v \in Seq(S) /\ Levenshtein(v, d) < Levenshtein(u, d)
           T == {u \in Seq(S) : \A d \in Seq(L) : Gains(u, d)}
<1>0. Seq(L) \subseteq Seq(S) /\ <<>> \in Seq(S)
  OBVIOUS
<1>1. ASSUME NEW u \in Seq(S), NEW d \in Seq(L), NEW b \in L
      PROVE  /\ Append(u, b) \in Edits(u, L) /\ Append(u, b) \in Seq(S)
             /\ Levenshtein(Append(u, b), Append(d, b)) <= Levenshtein(u, d)
  <2>1. b \in S /\ d \in Seq(S) /\ Append(u, b) \in Seq(S)
    BY <1>0, AppendProperties
  <2>2. Append(u, b) \in Edits(u, L)
    BY <2>1, LastEdits
  <2>3. Levenshtein(Append(u, b), Append(d, b)) <= Levenshtein(u, d) + Cost(b, b)
    <3>1. Bounds(u, d, b, b)
      BY <2>1, DistanceOfLongerBounds, Zenon
    <3> QED BY <2>1, <3>1 DEF Bounds
  <2>4. Levenshtein(u, d) \in Nat
    BY <2>1, DistanceIsNat
  <2> QED BY <2>1, <2>2, <2>3, <2>4 DEF Cost
<1>2. <<>> \in T
  <2> SUFFICES ASSUME NEW d \in Seq(L), Levenshtein(<<>>, d) # 0
               PROVE  \E v \in Edits(<<>>, L) : v \in Seq(S) /\ Levenshtein(v, d) < Levenshtein(<<>>, d)
    BY <1>0
  <2>1. d # <<>>
    BY <1>0, DistanceFromNothing, EmptySeq
  <2>2. PICK e \in Seq(L), b \in L : d = Append(e, b) /\ Len(d) = Len(e) + 1
    BY <2>1, LastLetter
  <2>3. Levenshtein(<<>>, d) = Len(d) /\ Levenshtein(<<>>, e) = Len(e) /\ Len(e) \in Nat
    BY <1>0, DistanceFromNothing
  <2>4. /\ Append(<<>>, b) \in Edits(<<>>, L) /\ Append(<<>>, b) \in Seq(S)
        /\ Levenshtein(Append(<<>>, b), d) <= Levenshtein(<<>>, e)
    BY <1>0, <1>1, <2>2
  <2>5. Levenshtein(Append(<<>>, b), d) \in Nat
    BY <1>0, <2>4, DistanceIsNat
  <2>6. Levenshtein(Append(<<>>, b), d) < Levenshtein(<<>>, d)
    BY <2>2, <2>3, <2>4, <2>5
  <2> QED BY <2>4, <2>6
<1>3. ASSUME NEW u \in T, NEW a \in S PROVE Append(u, a) \in T
  <2> DEFINE x == Append(u, a)
  <2>1. u \in Seq(S) /\ x \in Seq(S) /\ Len(x) = Len(u) + 1 /\ Len(u) \in Nat
    BY LengthOfLonger
  <2> SUFFICES ASSUME NEW d \in Seq(L), Levenshtein(x, d) # 0
               PROVE  \E v \in Edits(x, L) : v \in Seq(S) /\ Levenshtein(v, d) < Levenshtein(x, d)
    BY <2>1
  <2>0. d \in Seq(S)
    BY <1>0
  <2>2. CASE d = <<>>
    <3>1. Levenshtein(x, d) = Len(x) /\ Levenshtein(u, d) = Len(u)
      BY <2>1, <2>2, DistanceFromNothing
    <3>2. u \in Edits(x, L)
      BY <2>1, LastDeletion
    <3>3. Levenshtein(u, d) < Levenshtein(x, d)
      BY <2>1, <3>1
    <3> QED BY <2>1, <3>2, <3>3
  <2>3. CASE d # <<>>
    <3>1. PICK e \in Seq(L), b \in L : d = Append(e, b)
      BY <2>3, LastLetter
    <3>2. b \in S /\ e \in Seq(S)
      BY <1>0
    <3> DEFINE xd == Levenshtein(x, d)
               ud == Levenshtein(u, d)
               xe == Levenshtein(x, e)
               ue == Levenshtein(u, e)
    <3>3. xd \in Nat /\ ud \in Nat /\ xe \in Nat /\ ue \in Nat
      <4> HIDE DEF x
      <4> QED BY <2>0, <2>1, <3>2, DistanceIsNat
    <3>4. xd = ud + 1 \/ xd = xe + 1 \/ xd = ue + Cost(a, b)
      <4>1. Bounds(u, e, a, b)
        BY <2>1, <3>1, <3>2, DistanceOfLongerBounds, Zenon
      <4> QED BY <2>1, <3>1, <3>2, <4>1 DEF Bounds
    <3>5. CASE xd = ud + 1
      <4>1. u \in Edits(x, L)
        BY <2>1, LastDeletion
      <4>2. ud < xd
        <5> HIDE DEF ud, xd
        <5> QED BY <3>3, <3>5
      <4> QED BY <2>1, <4>1, <4>2
    <3>6. CASE xd = xe + 1
      <4>1. /\ Append(x, b) \in Edits(x, L) /\ Append(x, b) \in Seq(S)
            /\ Levenshtein(Append(x, b), d) <= xe
        <5> HIDE DEF x
        <5> QED BY <1>1, <2>1, <3>1
      <4>2. Levenshtein(Append(x, b), d) \in Nat
        <5> HIDE DEF x
        <5> QED BY <2>0, <4>1, DistanceIsNat
      <4>3. Levenshtein(Append(x, b), d) < xd
        <5> HIDE DEF x, xd, xe
        <5> QED BY <3>3, <3>6, <4>1, <4>2
      <4> QED BY <4>1, <4>3
    <3>7. CASE a # b /\ xd = ue + Cost(a, b)
      <4>1. /\ Append(u, b) \in Seq(S)
            /\ Levenshtein(Append(u, b), d) <= ue
        BY <1>1, <2>1, <3>1
      <4>2. Append(u, b) \in Edits(x, L)
        BY <2>1, LastEdits
      <4>3. Levenshtein(Append(u, b), d) \in Nat
        BY <2>0, <4>1, DistanceIsNat
      <4>4. Levenshtein(Append(u, b), d) < xd
        <5> HIDE DEF x, xd, ue
        <5> QED BY <3>3, <3>7, <4>1, <4>3 DEF Cost
      <4> QED BY <4>1, <4>2, <4>4
    <3>8. CASE a = b /\ xd = ue + Cost(a, b)
      <4>1. ue = xd
        <5> HIDE DEF xd, ue
        <5> QED BY <3>3, <3>8 DEF Cost
      <4>2. PICK v \in Edits(u, L) : v \in Seq(S) /\ Levenshtein(v, e) < ue
        BY <3>1, <4>1
      <4>3. Append(v, a) \in Edits(x, L) /\ Append(v, a) \in Seq(S)
        BY <2>1, <4>2, EditsOfLonger, AppendProperties
      <4>4. Levenshtein(Append(v, a), d) <= Levenshtein(v, e)
        BY <1>1, <3>1, <3>8, <4>2
      <4>5. Levenshtein(v, e) \in Nat /\ Levenshtein(Append(v, a), d) \in Nat
        BY <2>0, <3>2, <4>2, <4>3, DistanceIsNat
      <4>6. Levenshtein(Append(v, a), d) < xd
        <5> HIDE DEF x, xd, ue
        <5> QED BY <3>3, <4>1, <4>2, <4>4, <4>5
      <4> QED BY <4>3, <4>6
    <3> QED BY <3>4, <3>5, <3>6, <3>7, <3>8
  <2> QED BY <2>2, <2>3
<1> HIDE DEF T
<1>4. T = Seq(S)
  BY <1>2, <1>3, WordInduct DEF T
<1> QED BY <1>4 DEF T

\* What a shortest chain of edits of one letter has for its length: 0 between
\* equal words only, and at another distance k some edit leads to distance k - 1
\* and none to less.
IsShortest(w, c, L) ==
  LET k == Levenshtein(w, c)
      around == {Levenshtein(v, c) : v \in Edits(w, L)}
  IN /\ k = 0 <=> w = c
     /\ k > 0 => k - 1 \in around /\ \A n \in around : n >= k - 1

\* levenshtein is the length of a shortest chain of edits of one letter, for all
\* words over all alphabets.
THEOREM ShortestChain ==
  ASSUME NEW S, NEW L \in SUBSET S, NEW w \in Seq(S), NEW c \in Seq(L)
  PROVE  IsShortest(w, c, L)
<1> DEFINE k == Levenshtein(w, c)
           around == {Levenshtein(v, c) : v \in Edits(w, L)}
<1>1. c \in Seq(S)
  OBVIOUS
<1>2. k \in Nat /\ (k = 0 <=> w = c)
  BY <1>1, DistanceIsNat, ZeroIffEqual
<1>3. ASSUME NEW v \in Edits(w, L)
      PROVE  v \in Seq(S) /\ Levenshtein(v, c) \in Nat /\ Levenshtein(v, c) >= k - 1
  <2>1. v \in Seq(S) /\ Within(S, w, v)
    BY EditLosesAtMostOne
  <2>2. Levenshtein(v, c) \in Nat /\ k <= Levenshtein(v, c) + 1
    BY <1>1, <2>1, DistanceIsNat DEF Within
  <2> HIDE DEF k
  <2> QED BY <1>2, <2>1, <2>2
<1>4. \A n \in around : n >= k - 1
  <2> HIDE DEF k
  <2> QED BY <1>3
<1>5. ASSUME k > 0 PROVE k - 1 \in around
  <2>1. PICK v \in Edits(w, L) : v \in Seq(S) /\ Levenshtein(v, c) < k
    BY <1>2, <1>5, SomeEditGains
  <2>2. Levenshtein(v, c) = k - 1
    <3> HIDE DEF k
    <3> QED BY <1>2, <1>3, <2>1
  <2> QED BY <2>1, <2>2
<1> QED BY <1>2, <1>4, <1>5 DEF IsShortest
------------------------------------------------------------------------------
(***************************************************************************)
(* The choice of Match: the closest word, the first by name among equals.  *)
(***************************************************************************)
\* Before, letter by letter.
LEMMA BeforeIs ==
  ASSUME NEW s \in Seq(Nat), NEW t \in Seq(Nat)
  PROVE  Before(s, t) <=> \E n \in Nat : /\ n < Len(t) /\ n <= Len(s)
                                         /\ \A i \in 1..n : s[i] = t[i]
                                         /\ n < Len(s) => s[n+1] < t[n+1]
<1>1. ASSUME NEW n \in 0..(Len(t) - 1)
      PROVE  IsPrefix(SubSeq(t, 1, n), s) <=> n <= Len(s) /\ \A i \in 1..n : s[i] = t[i]
  <2> DEFINE p == SubSeq(t, 1, n)
  <2>1. p \in Seq(Nat) /\ Len(p) = n /\ \A i \in 1..n : p[i] = t[i]
    BY SubSeqProperties
  <2> HIDE DEF p
  <2>2. n \in Nat /\ Len(s) \in Nat
    OBVIOUS
  <2>3. SubSeq(p, 1, n) = p
    <3>1. SubSeq(p, 1, n) \in Seq(Nat) /\ Len(SubSeq(p, 1, n)) = n
          /\ \A i \in 1..n : SubSeq(p, 1, n)[i] = p[i]
      BY <2>1, <2>2, SubSeqProperties
    <3> QED BY <2>1, <3>1, SeqEqual
  <2>4. ASSUME n <= Len(s)
        PROVE  SubSeq(s, 1, n) = p <=> \A i \in 1..n : s[i] = t[i]
    <3>1. SubSeq(s, 1, n) \in Seq(Nat) /\ Len(SubSeq(s, 1, n)) = n
          /\ \A i \in 1..n : SubSeq(s, 1, n)[i] = s[i]
      BY <2>2, <2>4, SubSeqProperties
    <3> DEFINE q == SubSeq(s, 1, n)
    <3> HIDE DEF q
    <3>2. \A i \in 1..n : q[i] = s[i] /\ p[i] = t[i]
      BY <2>1, <3>1 DEF q
    <3>3. q = p => \A i \in 1..n : s[i] = t[i]
      BY <3>2
    <3>4. (\A i \in 1..n : s[i] = t[i]) => q = p
      <4> SUFFICES ASSUME \A i \in 1..n : s[i] = t[i] PROVE q = p
        OBVIOUS
      <4>1. q \in Seq(Nat) /\ p \in Seq(Nat) /\ Len(q) = Len(p)
        BY <2>1, <3>1 DEF q
      <4>2. \A i \in 1..Len(q) : q[i] = p[i]
        BY <2>1, <3>1, <3>2 DEF q
      <4> QED BY <4>1, <4>2, SeqEqual
    <3> QED BY <3>3, <3>4 DEF q
  <2>5. IsPrefix(p, s) <=> n <= Len(s) /\ p = SubSeq(s, 1, n)
    BY <2>1, <2>3 DEF IsPrefix
  <2> QED BY <2>4, <2>5 DEF p
<1>2. \A n : n \in 0..(Len(t) - 1) <=> n \in Nat /\ n < Len(t)
  OBVIOUS
<1> QED BY <1>1, <1>2 DEF Before

\* Different words come one before the other.
LEMMA BeforeIsTotal ==
  ASSUME NEW s \in Seq(Nat), NEW t \in Seq(Nat), s # t PROVE Before(s, t) \/ Before(t, s)
<1> DEFINE T == {n \in Nat : n >= Len(s) \/ n >= Len(t) \/ s[n+1] # t[n+1]}
<1>1. Len(s) \in Nat /\ Len(t) \in Nat /\ Len(s) \in T
  OBVIOUS
<1>2. PICK n \in T : \A m \in T : n <= m
  <2>1. T \in SUBSET Nat /\ T # {}
    BY <1>1
  <2> HIDE DEF T
  <2> QED BY <2>1, NatLeast
<1>3. n \in Nat /\ n <= Len(s) /\ n <= Len(t)
  <2>1. Len(t) \in T
    BY <1>1
  <2> QED BY <1>1, <1>2, <2>1
<1>4. \A i \in 1..n : s[i] = t[i]
  <2> SUFFICES ASSUME NEW i \in 1..n, s[i] # t[i] PROVE FALSE
    OBVIOUS
  <2>1. i - 1 \in Nat /\ (i - 1) + 1 = i /\ i - 1 < n
    BY <1>3
  <2>2. i - 1 \in T
    BY <2>1
  <2> HIDE DEF T
  <2> QED BY <1>2, <1>3, <2>1, <2>2
<1>5. n < Len(s) /\ n < Len(t) => s[n+1] \in Nat /\ t[n+1] \in Nat /\ s[n+1] # t[n+1]
  BY <1>2, <1>3
<1>6. ~(n = Len(s) /\ n = Len(t))
  BY <1>4, SeqEqual
<1> HIDE DEF T
<1>7. \/ n < Len(t) /\ (n < Len(s) => s[n+1] < t[n+1])
      \/ n < Len(s) /\ (n < Len(t) => t[n+1] < s[n+1])
  BY <1>1, <1>3, <1>5, <1>6
<1> QED BY <1>3, <1>4, <1>7, BeforeIs

LEMMA BeforeIsTransitive ==
  ASSUME NEW s \in Seq(Nat), NEW t \in Seq(Nat), NEW u \in Seq(Nat), Before(s, t), Before(t, u)
  PROVE  Before(s, u)
<1>1. PICK m \in Nat : /\ m < Len(t) /\ m <= Len(s) /\ \A i \in 1..m : s[i] = t[i]
                       /\ m < Len(s) => s[m+1] < t[m+1]
  BY BeforeIs
<1>2. PICK n \in Nat : /\ n < Len(u) /\ n <= Len(t) /\ \A i \in 1..n : t[i] = u[i]
                       /\ n < Len(t) => t[n+1] < u[n+1]
  BY BeforeIs
<1>3. Len(s) \in Nat /\ Len(t) \in Nat /\ Len(u) \in Nat
  OBVIOUS
<1>4. CASE m < n
  <2>1. m < Len(u) /\ m <= Len(s) /\ \A i \in 1..m : s[i] = u[i]
    BY <1>1, <1>2, <1>3, <1>4
  <2>2. m < Len(s) => s[m+1] < u[m+1]
    BY <1>1, <1>2, <1>3, <1>4
  <2> QED BY <2>1, <2>2, BeforeIs
<1>5. CASE n < m
  <2>1. n < Len(u) /\ n <= Len(s) /\ \A i \in 1..n : s[i] = u[i]
    BY <1>1, <1>2, <1>3, <1>5
  <2>2. n < Len(s) => s[n+1] < u[n+1]
    BY <1>1, <1>2, <1>3, <1>5
  <2> QED BY <2>1, <2>2, BeforeIs
<1>6. CASE m = n
  <2>1. m < Len(u) /\ m <= Len(s) /\ \A i \in 1..m : s[i] = u[i]
    BY <1>1, <1>2, <1>3, <1>6
  <2>2. m < Len(s) => s[m+1] < u[m+1]
    <3> SUFFICES ASSUME m < Len(s) PROVE s[m+1] < u[m+1]
      OBVIOUS
    <3>1. s[m+1] \in Nat /\ t[m+1] \in Nat /\ u[m+1] \in Nat
      <4>1. m + 1 \in 1..Len(s) /\ m + 1 \in 1..Len(t) /\ m + 1 \in 1..Len(u)
        BY <1>1, <1>2, <1>3, <1>6
      <4> DEFINE k == m + 1
      <4> HIDE DEF k
      <4>2. k \in 1..Len(s) /\ k \in 1..Len(t) /\ k \in 1..Len(u)
        BY <4>1 DEF k
      <4>3. s[k] \in Nat /\ t[k] \in Nat /\ u[k] \in Nat
        BY <4>2
      <4> QED BY <4>3 DEF k
    <3>2. s[m+1] < t[m+1] /\ t[m+1] < u[m+1]
      BY <1>1, <1>2, <1>6
    <3> QED BY <3>1, <3>2
  <2> QED BY <2>1, <2>2, BeforeIs
<1> QED BY <1>4, <1>5, <1>6

\* A finite set has a first element in every total and transitive order.
IsTotal(T, R) == \A c, d \in T : c # d => <<c, d>> \in R \/ <<d, c>> \in R
IsTransitiveOn(T, R) == \A c, d, e \in T : <<c, d>> \in R /\ <<d, e>> \in R => <<c, e>> \in R
HasFirst(T, R) == \E c \in T : \A d \in T \ {c} : <<c, d>> \in R

LEMMA FiniteFirst ==
  ASSUME NEW T, IsFiniteSet(T), T # {}, NEW R, IsTotal(T, R), IsTransitiveOn(T, R)
  PROVE  HasFirst(T, R)
<1> DEFINE N == {n \in Nat : \A U \in SUBSET T : Cardinality(U) = n + 1 => HasFirst(U, R)}
<1>1. \A U \in SUBSET T : IsFiniteSet(U) /\ Cardinality(U) \in Nat
  BY FS_Subset, FS_CardinalityType
<1>2. 0 \in N
  <2> SUFFICES ASSUME NEW U \in SUBSET T, Cardinality(U) = 1 PROVE HasFirst(U, R)
    OBVIOUS
  <2>1. PICK c : U = {c}
    BY <1>1, FS_Singleton
  <2> QED BY <2>1 DEF HasFirst
<1>3. ASSUME NEW n \in N PROVE n + 1 \in N
  <2>0. n \in Nat /\ n + 1 \in Nat /\ (n + 1) + 1 # 0
    OBVIOUS
  <2> SUFFICES ASSUME NEW U \in SUBSET T, Cardinality(U) = (n + 1) + 1 PROVE HasFirst(U, R)
    BY <2>0
  <2>1. U # {}
    BY <2>0, FS_EmptySet
  <2>2. PICK x \in U : TRUE
    BY <2>1
  <2>3. U \ {x} \in SUBSET T /\ Cardinality(U \ {x}) = n + 1
    BY <1>1, <2>0, <2>2, FS_RemoveElement
  <2>4. HasFirst(U \ {x}, R)
    BY <2>3
  <2>5. PICK c \in U \ {x} : \A d \in (U \ {x}) \ {c} : <<c, d>> \in R
    BY <2>4 DEF HasFirst
  <2>6. CASE <<c, x>> \in R
    BY <2>5, <2>6 DEF HasFirst
  <2>7. CASE <<x, c>> \in R
    BY <2>2, <2>5, <2>7 DEF HasFirst, IsTransitiveOn
  <2> QED BY <2>2, <2>5, <2>6, <2>7 DEF IsTotal
<1> HIDE DEF N
<1>4. N = Nat
  BY <1>2, <1>3, NatInduct DEF N
<1>5. Cardinality(T) \in Nat /\ Cardinality(T) # 0
  BY <1>1, FS_EmptySet
<1>6. Cardinality(T) - 1 \in N /\ (Cardinality(T) - 1) + 1 = Cardinality(T)
  BY <1>4, <1>5
<1> QED BY <1>6 DEF N

\* The order of Match.
Comes(word, c, d) ==
  LET mine == Levenshtein(word, c) * LongerOf(word, d)
      its == Levenshtein(word, d) * LongerOf(word, c)
  IN mine < its \/ (mine = its /\ Before(c, d))

\* Fractions, compared by their cross products.
LEMMA Fractions ==
  ASSUME NEW a \in Nat, NEW b \in Nat \ {0}, NEW c \in Nat, NEW d \in Nat \ {0},
         NEW e \in Nat, NEW f \in Nat \ {0}
  PROVE  /\ a * d <= c * b /\ c * f <= e * d => a * f <= e * b
         /\ a * d < c * b /\ c * f <= e * d => a * f < e * b
         /\ a * d <= c * b /\ c * f < e * d => a * f < e * b
<1>1. /\ (a * d) * f = (a * f) * d /\ (c * b) * f = (c * f) * b /\ (e * d) * b = (e * b) * d
      /\ a * d \in Nat /\ c * b \in Nat /\ c * f \in Nat /\ e * d \in Nat /\ a * f \in Nat /\ e * b \in Nat
  OBVIOUS
<1>2. ASSUME NEW x \in Nat, NEW y \in Nat, NEW z \in Nat \ {0}
      PROVE  /\ x <= y <=> x * z <= y * z
             /\ x < y <=> x * z < y * z
  OBVIOUS
<1> DEFINE ad == a * d
           cb == c * b
           cf == c * f
           ed == e * d
           af == a * f
           eb == e * b
<1> HIDE DEF ad, cb, cf, ed, af, eb
<1>3. /\ ad * f = af * d /\ cb * f = cf * b /\ ed * b = eb * d
      /\ ad \in Nat /\ cb \in Nat /\ cf \in Nat /\ ed \in Nat /\ af \in Nat /\ eb \in Nat
  BY <1>1 DEF ad, cb, cf, ed, af, eb
<1>4. ad <= cb => af * d <= cf * b
  BY <1>2, <1>3
<1>5. ad < cb => af * d < cf * b
  BY <1>2, <1>3
<1>6. cf <= ed => cf * b <= eb * d
  BY <1>2, <1>3
<1>7. cf < ed => cf * b < eb * d
  BY <1>2, <1>3
<1>8. af * d \in Nat /\ cf * b \in Nat /\ eb * d \in Nat
  BY <1>3
<1>9. /\ ad <= cb /\ cf <= ed => af * d <= eb * d
      /\ ad < cb /\ cf <= ed => af * d < eb * d
      /\ ad <= cb /\ cf < ed => af * d < eb * d
  BY <1>4, <1>5, <1>6, <1>7, <1>8
<1>10. (af <= eb <=> af * d <= eb * d) /\ (af < eb <=> af * d < eb * d)
  BY <1>2, <1>3
<1> QED BY <1>9, <1>10 DEF ad, cb, cf, ed, af, eb

\* match returns one of the targets, and none is nearer: the distance of each to
\* the word is divided by the length of the longer of the two, which the theorem
\* multiplies out (levenshtein_norm).
THEOREM MatchIsClosest ==
  ASSUME NEW word \in Seq(Nat), word # <<>>, NEW targets \in SUBSET Seq(Nat),
         IsFiniteSet(targets), targets # {}
  PROVE  /\ Match(word, targets) \in targets
         /\ \A d \in targets : Levenshtein(word, Match(word, targets)) * LongerOf(word, d)
                                 <= Levenshtein(word, d) * LongerOf(word, Match(word, targets))
<1> DEFINE R == {p \in targets \X targets : Comes(word, p[1], p[2])}
<1>1. \A c \in targets : Levenshtein(word, c) \in Nat /\ LongerOf(word, c) \in Nat \ {0}
  <2>1. Len(word) \in Nat /\ Len(word) # 0
    OBVIOUS
  <2>2. \A c \in Seq(Nat) : Len(c) \in Nat
    OBVIOUS
  <2> QED BY <2>1, <2>2, DistanceIsNat DEF LongerOf
<1>2. ASSUME NEW c \in targets, NEW d \in targets, c # d
      PROVE  Comes(word, c, d) \/ Comes(word, d, c)
  <2> DEFINE mine == Levenshtein(word, c) * LongerOf(word, d)
             its == Levenshtein(word, d) * LongerOf(word, c)
  <2>1. mine \in Nat /\ its \in Nat
    BY <1>1
  <2>2. Before(c, d) \/ Before(d, c)
    BY <1>2, BeforeIsTotal
  <2>3. /\ Comes(word, c, d) <=> mine < its \/ (mine = its /\ Before(c, d))
        /\ Comes(word, d, c) <=> its < mine \/ (its = mine /\ Before(d, c))
    BY DEF Comes
  <2> HIDE DEF mine, its
  <2> QED BY <2>1, <2>2, <2>3
<1>3. ASSUME NEW c \in targets, NEW d \in targets, NEW e \in targets,
             Comes(word, c, d), Comes(word, d, e)
      PROVE  Comes(word, c, e)
  <2> DEFINE Far(x, y) == Levenshtein(word, x) * LongerOf(word, y)
  <2>1. /\ Far(c, d) <= Far(d, c) /\ Far(d, e) <= Far(e, d) => Far(c, e) <= Far(e, c)
        /\ Far(c, d) < Far(d, c) /\ Far(d, e) <= Far(e, d) => Far(c, e) < Far(e, c)
        /\ Far(c, d) <= Far(d, c) /\ Far(d, e) < Far(e, d) => Far(c, e) < Far(e, c)
    BY <1>1, Fractions, Zenon
  <2>2. \A x, y \in targets : Far(x, y) \in Nat
    <3>1. \A i, j \in Nat : i * j \in Nat
      OBVIOUS
    <3> QED BY <1>1, <3>1
  <2>3. Before(c, d) /\ Before(d, e) => Before(c, e)
    BY BeforeIsTransitive
  <2>4. /\ Far(c, d) < Far(d, c) \/ (Far(c, d) = Far(d, c) /\ Before(c, d))
        /\ Far(d, e) < Far(e, d) \/ (Far(d, e) = Far(e, d) /\ Before(d, e))
    BY <1>3 DEF Comes
  <2> HIDE DEF Far
  <2>5. /\ Far(c, d) \in Nat /\ Far(d, c) \in Nat /\ Far(d, e) \in Nat /\ Far(e, d) \in Nat
        /\ Far(c, e) \in Nat /\ Far(e, c) \in Nat
    BY <2>2
  <2>6. Far(c, e) < Far(e, c) \/ (Far(c, e) <= Far(e, c) /\ Before(c, e))
    BY <2>1, <2>3, <2>4, <2>5
  <2>7. Far(c, e) < Far(e, c) \/ (Far(c, e) = Far(e, c) /\ Before(c, e))
    BY <2>5, <2>6
  <2> QED BY <2>7 DEF Far, Comes
<1>4. HasFirst(targets, R)
  <2>1. IsTotal(targets, R) /\ IsTransitiveOn(targets, R)
    BY <1>2, <1>3 DEF IsTotal, IsTransitiveOn
  <2> HIDE DEF R
  <2> QED BY <2>1, FiniteFirst, Zenon
<1>5. \E c \in targets : \A d \in targets \ {c} : Comes(word, c, d)
  BY <1>4 DEF HasFirst
<1>6. Match(word, targets) = CHOOSE c \in targets : \A d \in targets \ {c} : Comes(word, c, d)
  BY DEF Match, Comes
<1> DEFINE m == Match(word, targets)
<1>7. m \in targets /\ \A d \in targets \ {m} : Comes(word, m, d)
  BY <1>5, <1>6
<1> HIDE DEF m
<1>8. ASSUME NEW d \in targets
      PROVE  Levenshtein(word, m) * LongerOf(word, d) <= Levenshtein(word, d) * LongerOf(word, m)
  <2> DEFINE mine == Levenshtein(word, m) * LongerOf(word, d)
             its == Levenshtein(word, d) * LongerOf(word, m)
  <2>1. mine \in Nat /\ its \in Nat
    BY <1>1, <1>7
  <2>2. d = m \/ mine < its \/ mine = its
    BY <1>7 DEF Comes
  <2>3. d = m => mine = its
    OBVIOUS
  <2> HIDE DEF mine, its
  <2>4. mine <= its
    BY <2>1, <2>2, <2>3
  <2> QED BY <2>4 DEF mine, its
<1> QED BY <1>7, <1>8 DEF m
===============================================================================
