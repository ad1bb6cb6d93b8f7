--------------------------- MODULE Services_proofs ---------------------------
(***************************************************************************)
(* Proofs about the evaluation of the OCR (OcrEval), for all labels and    *)
(* readings, and about the services together (MCServices).                 *)
(***************************************************************************)
EXTENDS MCServices, Documents_proofs, Infrastructure_proofs

-----------------------------------------------------------------------------
(* Computations that go on from one number to the next.                    *)

(* There is a function that takes each value from the one before it.       *)
Runs(N, U, first, step) ==
  \E g \in [0..N -> U] : g[0] = first /\ \A n \in 1..N : g[n] = step[n][g[n - 1]]

LEMMA RecursionExists ==
  ASSUME NEW N \in Nat, NEW U, NEW first \in U, NEW step \in [1..N -> [U -> U]]
  PROVE  Runs(N, U, first, step)
<1> DEFINE Is(g, m) == /\ g \in [0..m -> U]
                       /\ g[0] = first /\ \A n \in 1..m : g[n] = step[n][g[n - 1]]
           P == {m \in 0..N : \E g : Is(g, m)}
<1>1. 0 \in P
  <2> DEFINE g == [n \in 0..0 |-> first]
  <2>1. Is(g, 0)
    OBVIOUS
  <2> HIDE DEF g, Is
  <2> QED
    BY <2>1
<1>2. ASSUME NEW m \in P, m < N PROVE m + 1 \in P
  <2>1. m \in Nat /\ m + 1 \in 0..N /\ m + 1 \in 1..N /\ m \in 0..m
    BY <1>2
  <2>2. PICK g : Is(g, m)
    OBVIOUS
  <2> DEFINE v == step[m + 1][g[m]]
             h == [n \in 0..(m + 1) |-> IF n = m + 1 THEN v ELSE g[n]]
  <2>3. v \in U
    <3>1. g[m] \in U
      BY <2>1, <2>2
    <3> QED
      BY <2>1, <3>1
  <2> HIDE DEF v
  <2>4. h \in [0..(m + 1) -> U] /\ h[m + 1] = v /\ \A n \in 0..m : h[n] = g[n]
    <3>1. \A n \in 0..(m + 1) : n = m + 1 \/ n \in 0..m
      BY <2>1
    <3>2. \A n \in 0..m : n # m + 1 /\ n \in 0..(m + 1)
      BY <2>1
    <3>3. g \in [0..m -> U]
      BY <2>2
    <3>4. m + 1 \in 0..(m + 1)
      BY <2>1
    <3> QED
      BY <2>3, <3>1, <3>2, <3>3, <3>4
  <2> HIDE DEF h
  <2>5. h[0] = first
    BY <2>1, <2>2, <2>4
  <2>6. ASSUME NEW n \in 1..(m + 1) PROVE h[n] = step[n][h[n - 1]]
    <3>1. CASE n = m + 1
      <4>1. (m + 1) - 1 = m
        BY <2>1
      <4> QED
        BY <2>1, <2>4, <3>1, <4>1 DEF v
    <3>2. CASE n \in 1..m
      <4>1. n - 1 \in 0..m /\ n \in 0..m
        BY <2>1, <3>2
      <4> QED
        BY <2>2, <2>4, <3>2, <4>1
    <3> QED
      BY <2>1, <3>1, <3>2
  <2>7. Is(h, m + 1)
    BY <2>4, <2>5, <2>6
  <2> HIDE DEF Is
  <2> QED
    BY <2>1, <2>7
<1> HIDE DEF Is
<1>3. P \in SUBSET (0..N)
  OBVIOUS
<1> HIDE DEF P
<1>4. P = 0..N
  BY <1>1, <1>2, <1>3, Counting
<1>5. PICK g : Is(g, N)
  <2>1. N \in P
    BY <1>4
  <2> QED
    BY <2>1 DEF P
<1> QED
  BY <1>5 DEF Is, Runs

(* What holds of 0 and passes on to each number holds of all.              *)
LEMMA Reaches ==
  ASSUME NEW N \in Nat, NEW ok, 0 \in ok, \A n \in 1..N : n - 1 \in ok => n \in ok
  PROVE  \A n \in 0..N : n \in ok
<1> DEFINE P == {n \in 0..N : n \in ok}
<1>1. 0 \in P
  OBVIOUS
<1>2. ASSUME NEW n \in P, n < N PROVE n + 1 \in P
  <2>1. n + 1 \in 1..N /\ (n + 1) - 1 = n
    BY <1>2
  <2> QED
    BY <2>1
<1>3. P \in SUBSET (0..N)
  OBVIOUS
<1>4. P = 0..N
  <2> HIDE DEF P
  <2> QED
    BY <1>1, <1>2, <1>3, Counting
<1> QED
  BY <1>4

LEMMA LeastOfNumbers ==
  ASSUME NEW T \in SUBSET Nat, T # {}
  PROVE  /\ Min(T) \in T /\ \A n \in T : Min(T) <= n
         /\ \A m \in T : (\A n \in T : m <= n) => Min(T) = m
<1>1. \E m \in T : \A n \in T : m <= n
  BY LeastExists
<1>2. Min(T) \in T /\ \A n \in T : Min(T) <= n
  BY <1>1 DEF Min
<1>3. ASSUME NEW m \in T, \A n \in T : m <= n PROVE Min(T) = m
  <2>1. Min(T) <= m /\ m <= Min(T) /\ m \in Nat /\ Min(T) \in Nat
    BY <1>2, <1>3
  <2> QED
    BY <2>1
<1> QED
  BY <1>2, <1>3

-----------------------------------------------------------------------------
(* The distance of two texts.                                              *)
DistanceCell(prev, x, t, j, left) ==
  Min({prev[j + 1] + 1, left + 1, prev[j] + (IF x = t[j] THEN 0 ELSE 1)})
Longer(prev, x, t, j, done) == Append(done, DistanceCell(prev, x, t, j, done[j]))

LEMMA DistanceCellIsLeast ==
  ASSUME NEW S, NEW t \in Seq(S), NEW x, NEW prev \in [1..(Len(t) + 1) -> Nat],
         NEW j \in 1..Len(t), NEW left \in Nat
  PROVE  /\ DistanceCell(prev, x, t, j, left) \in Nat
         /\ DistanceCell(prev, x, t, j, left) \in
              {prev[j + 1] + 1, left + 1, prev[j] + (IF x = t[j] THEN 0 ELSE 1)}
         /\ DistanceCell(prev, x, t, j, left) <= prev[j + 1] + 1
         /\ DistanceCell(prev, x, t, j, left) <= left + 1
         /\ DistanceCell(prev, x, t, j, left) <= prev[j] + (IF x = t[j] THEN 0 ELSE 1)
<1> DEFINE T == {prev[j + 1] + 1, left + 1, prev[j] + (IF x = t[j] THEN 0 ELSE 1)}
<1>1. prev[j + 1] \in Nat /\ prev[j] \in Nat
  BY LenProperties
<1>2. T \in SUBSET Nat /\ T # {}
  BY <1>1
<1>3. /\ prev[j + 1] + 1 \in T /\ left + 1 \in T
      /\ prev[j] + (IF x = t[j] THEN 0 ELSE 1) \in T
  OBVIOUS
<1>4. DistanceCell(prev, x, t, j, left) = Min(T)
  BY DEF DistanceCell
<1>5. Min(T) \in T /\ \A n \in T : Min(T) <= n
  <2> HIDE DEF T
  <2> QED
    BY <1>2, LeastOfNumbers
<1>6. Min(T) \in Nat
  <2> HIDE DEF T
  <2> QED
    BY <1>2, <1>5
<1> QED
  BY <1>3, <1>4, <1>5, <1>6

(* A row is the one above it, entry by entry.                              *)
LEMMA RowUnfolds ==
  ASSUME NEW S, NEW t \in Seq(S), NEW x, NEW prev \in [1..(Len(t) + 1) -> Nat]
  PROVE  /\ NextRow(prev, x, t) \in [1..(Len(t) + 1) -> Nat]
         /\ NextRow(prev, x, t)[1] = prev[1] + 1
         /\ \A j \in 1..Len(t) :
              NextRow(prev, x, t)[j + 1] = DistanceCell(prev, x, t, j, NextRow(prev, x, t)[j])
<1> DEFINE N == Len(t)
           U == Seq(Nat)
           next(j, done) == Longer(prev, x, t, j, done)
           Is(f) == f = [j \in 0..N |-> IF j = 0 THEN <<prev[1] + 1>> ELSE next(j, f[j - 1])]
           f == NextRowUpTo(prev, x, t)
<1>1. N \in Nat /\ prev[1] + 1 \in Nat
  BY LenProperties
<1>2. ASSUME NEW j \in 1..N, NEW done \in U, Len(done) = j
      PROVE  /\ next(j, done) \in U /\ Len(next(j, done)) = j + 1
             /\ \A i \in 1..j : next(j, done)[i] = done[i]
             /\ next(j, done)[j + 1] = DistanceCell(prev, x, t, j, done[j])
  <2> DEFINE e == DistanceCell(prev, x, t, j, done[j])
  <2>1. done[j] \in Nat
    BY <1>2
  <2>2. e \in Nat
    BY <2>1, DistanceCellIsLeast
  <2>3. next(j, done) = Append(done, e)
    BY DEF Longer
  <2> HIDE DEF e, next
  <2>4. Append(done, e) \in Seq(Nat) /\ Len(Append(done, e)) = j + 1
    BY <1>2, <2>2
  <2>5. Append(done, e)[j + 1] = e /\ \A i \in 1..j : Append(done, e)[i] = done[i]
    BY <1>2, <2>2
  <2> QED
    BY <2>3, <2>4, <2>5 DEF e
<1>3. \E g : Is(g)
  <2> DEFINE step == [j \in 1..N |-> [d \in U |-> IF Len(d) = j THEN next(j, d) ELSE d]]
  <2>1. step \in [1..N -> [U -> U]]
    <3>1. ASSUME NEW j \in 1..N, NEW d \in U
          PROVE  (IF Len(d) = j THEN next(j, d) ELSE d) \in U
      <4> HIDE DEF next, U
      <4> QED
        BY <1>2
    <3> HIDE DEF next, U
    <3> QED
      BY <3>1
  <2>2. <<prev[1] + 1>> \in U /\ Len(<<prev[1] + 1>>) = 1
    BY <1>1
  <2>s. \A j \in 1..N, d \in U : step[j][d] = IF Len(d) = j THEN next(j, d) ELSE d
    OBVIOUS
  <2> DEFINE first == <<prev[1] + 1>>
  <2> HIDE DEF step, next, U, N, first
  <2>f. first \in U
    BY <2>2 DEF first
  <2>e. Runs(N, U, first, step)
    <3>1. N \in Nat
      BY <1>1
    <3> QED
      BY <3>1, <2>1, <2>f, RecursionExists
  <2>3. PICK g \in [0..N -> U] :
          g[0] = <<prev[1] + 1>> /\ \A j \in 1..N : g[j] = step[j][g[j - 1]]
    BY <2>e DEF first, Runs
  <2> DEFINE ok == {j \in 0..N : Len(g[j]) = j + 1}
  <2>4. ASSUME NEW j \in 1..N, j - 1 \in ok PROVE j \in ok /\ g[j] = next(j, g[j - 1])
    <3>1. j - 1 \in 0..N /\ g[j - 1] \in U /\ Len(g[j - 1]) = j
      BY <1>1, <2>4
    <3>2. g[j] = next(j, g[j - 1])
      BY <2>3, <2>s, <3>1
    <3>3. Len(g[j]) = j + 1 /\ j \in 0..N
      BY <1>1, <1>2, <3>1, <3>2
    <3> QED
      BY <3>2, <3>3
  <2>5. 0 \in ok
    BY <1>1, <2>2, <2>3
  <2>6. \A j \in 0..N : j \in ok
    <3> HIDE DEF ok
    <3> QED
      BY <1>1, <2>4, <2>5, Reaches
  <2>7. \A j \in 1..N : j - 1 \in 0..N /\ g[j] = next(j, g[j - 1])
    <3> HIDE DEF ok
    <3>1. \A j \in 1..N : j - 1 \in 0..N
      BY <1>1
    <3> QED
      BY <2>4, <2>6, <3>1
  <2>8. \A j \in 0..N : g[j] = IF j = 0 THEN <<prev[1] + 1>> ELSE next(j, g[j - 1])
    <3>1. \A j \in 0..N : j = 0 \/ j \in 1..N
      BY <1>1
    <3> QED
      BY <2>3, <2>7, <3>1
  <2>9. g = [j \in 0..N |-> g[j]]
    BY <2>3
  <2>10. Is(g)
    BY <2>8, <2>9
  <2> QED
    BY <2>10
<1>4. Is(f)
  <2>1. f = CHOOSE g : Is(g)
    BY DEF NextRowUpTo, Longer, DistanceCell
  <2> HIDE DEF Is, f
  <2> QED
    BY <1>3, <2>1
<1>5. \A j \in 0..N : f[j] = IF j = 0 THEN <<prev[1] + 1>> ELSE next(j, f[j - 1])
  <2> HIDE DEF f, next
  <2> QED
    BY <1>4
<1>6. f[0] = <<prev[1] + 1>> /\ \A j \in 1..N : f[j] = next(j, f[j - 1])
  <2> HIDE DEF f, next
  <2>1. 0 \in 0..N /\ \A j \in 1..N : j \in 0..N /\ j # 0
    BY <1>1
  <2> QED
    BY <1>5, <2>1
<1> DEFINE ok == {n \in 0..N : /\ f[n] \in U /\ Len(f[n]) = n + 1 /\ f[n][1] = prev[1] + 1
                               /\ \A j \in 1..n : f[n][j + 1] = DistanceCell(prev, x, t, j, f[n][j])}
<1>7. 0 \in ok
  <2> HIDE DEF f, next
  <2>1. 0 \in 0..N /\ 1..0 = {} /\ f[0] = <<prev[1] + 1>>
    BY <1>1, <1>6
  <2>2. f[0] \in U /\ Len(f[0]) = 0 + 1 /\ f[0][1] = prev[1] + 1
    <3> HIDE DEF N
    <3> QED
      BY <1>1, <2>1
  <2> QED
    BY <2>1, <2>2
<1>8. ASSUME NEW n \in 1..N, n - 1 \in ok PROVE n \in ok
  <2> DEFINE d == f[n - 1]  e == f[n]
  <2> HIDE DEF f
  <2>1. /\ d \in U /\ Len(d) = n /\ d[1] = prev[1] + 1
        /\ \A j \in 1..(n - 1) : d[j + 1] = DistanceCell(prev, x, t, j, d[j])
    BY <1>1, <1>8
  <2> HIDE DEF next
  <2>2. e = next(n, d)
    BY <1>6
  <2> HIDE DEF d, e, U
  <2>3. /\ e \in U /\ Len(e) = n + 1 /\ \A i \in 1..n : e[i] = d[i]
        /\ e[n + 1] = DistanceCell(prev, x, t, n, d[n])
    BY <1>2, <2>1, <2>2
  <2>4. e[1] = prev[1] + 1 /\ e[n] = d[n]
    BY <1>1, <2>1, <2>3
  <2>5. ASSUME NEW j \in 1..n PROVE e[j + 1] = DistanceCell(prev, x, t, j, e[j])
    <3>1. CASE j = n
      BY <2>3, <2>4, <3>1
    <3>2. CASE j \in 1..(n - 1)
      <4>1. j + 1 \in 1..n
        BY <1>1, <3>2
      <4> QED
        BY <2>1, <2>3, <3>2, <4>1
    <3> QED
      BY <1>1, <3>1, <3>2
  <2>6. n \in 0..N
    BY <1>1
  <2> QED
    BY <2>3, <2>4, <2>5, <2>6 DEF e
<1>9. N \in ok
  <2> HIDE DEF ok
  <2>1. \A n \in 0..N : n \in ok
    BY <1>1, <1>7, <1>8, Reaches
  <2> QED
    BY <1>1, <2>1
<1> DEFINE r == f[N]
<1>10. r = NextRow(prev, x, t)
  BY DEF NextRow
<1> HIDE DEF f, next
<1>11. /\ r \in U /\ Len(r) = N + 1 /\ r[1] = prev[1] + 1
       /\ \A j \in 1..N : r[j + 1] = DistanceCell(prev, x, t, j, r[j])
  BY <1>9
<1> HIDE DEF r
<1>12. r \in [1..(N + 1) -> Nat]
  BY <1>11
<1> QED
  BY <1>10, <1>11, <1>12

LEMMA RowsUnfold ==
  ASSUME NEW S, NEW s \in Seq(S), NEW t \in Seq(S)
  PROVE  /\ DistanceRows(s, t)[0] = [j \in 1..Len(t) + 1 |-> j - 1]
         /\ \A i \in 1..Len(s) :
              DistanceRows(s, t)[i] = NextRow(DistanceRows(s, t)[i - 1], s[i], t)
         /\ \A i \in 0..Len(s) : DistanceRows(s, t)[i] \in [1..(Len(t) + 1) -> Nat]
<1> DEFINE N == Len(s)
           U == [1..(Len(t) + 1) -> Nat]
           first == [j \in 1..Len(t) + 1 |-> j - 1]
           next(i, d) == NextRow(d, s[i], t)
           Is(f) == f = [i \in 0..N |-> IF i = 0 THEN first ELSE next(i, f[i - 1])]
           f == DistanceRows(s, t)
<1>1. N \in Nat /\ Len(t) \in Nat
  BY LenProperties
<1>2. first \in U
  BY <1>1
<1>3. \A i \in 1..N, d \in U : next(i, d) \in U
  BY RowUnfolds
<1>4. \E g : Is(g)
  <2> DEFINE step == [i \in 1..N |-> [d \in U |-> next(i, d)]]
  <2> HIDE DEF next, U, N, first
  <2>1. step \in [1..N -> [U -> U]]
    BY <1>3
  <2>2. \A i \in 1..N, d \in U : step[i][d] = next(i, d)
    OBVIOUS
  <2> HIDE DEF step
  <2>3. Runs(N, U, first, step)
    BY <1>1, <1>2, <2>1, RecursionExists
  <2>4. PICK g \in [0..N -> U] : g[0] = first /\ \A n \in 1..N : g[n] = step[n][g[n - 1]]
    BY <2>3 DEF Runs
  <2>5. \A n \in 1..N : n - 1 \in 0..N
    BY <1>1
  <2>6. \A n \in 1..N : g[n] = next(n, g[n - 1])
    BY <2>2, <2>4, <2>5
  <2>7. \A n \in 0..N : n = 0 \/ n \in 1..N
    BY <1>1
  <2>8. g = [n \in 0..N |-> g[n]]
    BY <2>4
  <2>9. Is(g)
    BY <2>4, <2>6, <2>7, <2>8
  <2> QED
    BY <2>9
<1>5. Is(f)
  <2>1. f = CHOOSE g : Is(g)
    BY DEF DistanceRows
  <2> HIDE DEF Is, f
  <2> QED
    BY <1>4, <2>1
<1> HIDE DEF f, next, U, first, N
<1>6. \A n \in 0..N : f[n] = IF n = 0 THEN first ELSE next(n, f[n - 1])
  BY <1>5
<1>7. f[0] = first /\ \A n \in 1..N : f[n] = next(n, f[n - 1])
  <2>1. 0 \in 0..N /\ \A n \in 1..N : n \in 0..N /\ n # 0
    BY <1>1
  <2> QED
    BY <1>6, <2>1
<1> DEFINE ok == {n \in 0..N : f[n] \in U}
<1>8. 0 \in ok
  BY <1>1, <1>2, <1>7
<1>9. ASSUME NEW n \in 1..N, n - 1 \in ok PROVE n \in ok
  <2>1. n \in 0..N
    BY <1>1
  <2> QED
    BY <1>3, <1>7, <1>9, <2>1
<1>10. \A n \in 0..N : n \in ok
  <2> HIDE DEF ok
  <2> QED
    BY <1>1, <1>8, <1>9, Reaches
<1> QED
  BY <1>7, <1>10 DEF f, next, U, first, N

(* The distance of the first i members of a text and the first j of        *)
(* another.                                                                *)
LEMMA TableUnfolds ==
  ASSUME NEW S, NEW s \in Seq(S), NEW t \in Seq(S)
  PROVE  LET d(i, j) == DistanceRows(s, t)[i][j + 1]
         IN /\ \A i \in 0..Len(s), j \in 0..Len(t) : d(i, j) \in Nat
            /\ \A j \in 0..Len(t) : d(0, j) = j
            /\ \A i \in 1..Len(s) : d(i, 0) = d(i - 1, 0) + 1
            /\ \A i \in 1..Len(s), j \in 1..Len(t) :
                 LET cost == IF s[i] = t[j] THEN 0 ELSE 1
                 IN /\ d(i, j) \in {d(i - 1, j) + 1, d(i, j - 1) + 1, d(i - 1, j - 1) + cost}
                    /\ d(i, j) <= d(i - 1, j) + 1
                    /\ d(i, j) <= d(i, j - 1) + 1
                    /\ d(i, j) <= d(i - 1, j - 1) + cost
<1> DEFINE R == DistanceRows(s, t)
<1>1. Len(s) \in Nat /\ Len(t) \in Nat
  BY LenProperties
<1>2. /\ R[0] = [j \in 1..Len(t) + 1 |-> j - 1]
      /\ \A i \in 1..Len(s) : R[i] = NextRow(R[i - 1], s[i], t)
      /\ \A i \in 0..Len(s) : R[i] \in [1..(Len(t) + 1) -> Nat]
  BY RowsUnfold
<1> HIDE DEF R
<1>3. ASSUME NEW i \in 0..Len(s), NEW j \in 0..Len(t) PROVE R[i][j + 1] \in Nat
  <2>1. R[i] \in [1..(Len(t) + 1) -> Nat] /\ j + 1 \in 1..(Len(t) + 1)
    BY <1>1, <1>2
  <2> QED
    BY <2>1
<1>4. \A j \in 0..Len(t) : R[0][j + 1] = j
  BY <1>1, <1>2
<1>5. ASSUME NEW i \in 1..Len(s) PROVE R[i][0 + 1] = R[i - 1][0 + 1] + 1
  <2>1. i - 1 \in 0..Len(s)
    BY <1>1
  <2>2. R[i - 1] \in [1..(Len(t) + 1) -> Nat]
    BY <1>2, <2>1
  <2>3. NextRow(R[i - 1], s[i], t)[1] = R[i - 1][1] + 1
    BY <2>2, RowUnfolds
  <2> QED
    BY <1>2, <2>3
<1>6. ASSUME NEW i \in 1..Len(s), NEW j \in 1..Len(t)
      PROVE  LET cost == IF s[i] = t[j] THEN 0 ELSE 1
             IN /\ R[i][j + 1] \in {R[i - 1][j + 1] + 1, R[i][(j - 1) + 1] + 1,
                                    R[i - 1][(j - 1) + 1] + cost}
                /\ R[i][j + 1] <= R[i - 1][j + 1] + 1
                /\ R[i][j + 1] <= R[i][(j - 1) + 1] + 1
                /\ R[i][j + 1] <= R[i - 1][(j - 1) + 1] + cost
  <2> DEFINE prev == R[i - 1]  row == R[i]
  <2>1. i - 1 \in 0..Len(s) /\ i \in 0..Len(s) /\ (j - 1) + 1 = j /\ j \in 1..(Len(t) + 1)
    BY <1>1
  <2>2. prev \in [1..(Len(t) + 1) -> Nat] /\ row \in [1..(Len(t) + 1) -> Nat]
    BY <1>2, <2>1
  <2>3. row = NextRow(prev, s[i], t)
    BY <1>2
  <2> HIDE DEF prev, row
  <2>4. row[j + 1] = DistanceCell(prev, s[i], t, j, row[j])
    BY <2>2, <2>3, RowUnfolds
  <2>5. row[j] \in Nat
    BY <2>1, <2>2
  <2> DEFINE c == DistanceCell(prev, s[i], t, j, row[j])
  <2>6. /\ c \in {prev[j + 1] + 1, row[j] + 1, prev[j] + (IF s[i] = t[j] THEN 0 ELSE 1)}
        /\ c <= prev[j + 1] + 1
        /\ c <= row[j] + 1
        /\ c <= prev[j] + (IF s[i] = t[j] THEN 0 ELSE 1)
    BY <2>2, <2>5, DistanceCellIsLeast
  <2> HIDE DEF c
  <2>7. /\ row[j + 1] = c
    BY <2>4 DEF c
  <2> QED
    BY <2>1, <2>6, <2>7 DEF prev, row
<1> QED
  BY <1>3, <1>4, <1>5, <1>6 DEF R

-----------------------------------------------------------------------------
(* Pairings of the beginnings of two texts.                                *)
Uncrossed(q) == \A x, y \in q : x # y => (x[1] < y[1] /\ x[2] < y[2]) \/ (y[1] < x[1] /\ y[2] < x[2])
Paths(i, j) == {q \in SUBSET ((1..i) \X (1..j)) : Uncrossed(q)}
Replaces(s, t, q) == {x \in q : s[x[1]] # t[x[2]]}
Cost(s, t, i, j, q) == i + j - 2 * Cardinality(q) + Cardinality(Replaces(s, t, q))
IsLeast(s, t, i, j, d) ==
  /\ \E q \in Paths(i, j) : Cost(s, t, i, j, q) = d
  /\ \A q \in Paths(i, j) : d <= Cost(s, t, i, j, q)

LEMMA PathsFinite ==
  ASSUME NEW i \in Nat, NEW j \in Nat, NEW q \in Paths(i, j), NEW s, NEW t
  PROVE  /\ IsFiniteSet(q) /\ Cardinality(q) \in Nat
         /\ IsFiniteSet(Replaces(s, t, q)) /\ Cardinality(Replaces(s, t, q)) \in Nat
         /\ Cost(s, t, i, j, q) \in Int
<1>1. IsFiniteSet(1..i) /\ IsFiniteSet(1..j)
  BY FS_Interval
<1> DEFINE A == 1..i  B == 1..j
<1>2. IsFiniteSet(A \X B)
  <2> HIDE DEF A, B
  <2> QED
    BY <1>1, FS_Product DEF A, B
<1>3. q \in SUBSET (A \X B)
  BY DEF Paths
<1> HIDE DEF A, B
<1> DEFINE R == Replaces(s, t, q)
<1>4. R \in SUBSET q
  BY DEF Replaces
<1> HIDE DEF R
<1>5. IsFiniteSet(q)
  BY <1>2, <1>3, FS_Subset
<1>6. IsFiniteSet(R)
  BY <1>4, <1>5, FS_Subset
<1>7. Cardinality(q) \in Nat /\ Cardinality(R) \in Nat
  BY <1>5, <1>6, FS_CardinalityType
<1>8. Cost(s, t, i, j, q) \in Int
  BY <1>7 DEF Cost, R
<1> QED
  BY <1>5, <1>6, <1>7, <1>8 DEF R

(* A beginning that is one longer: nothing is paired with its last.        *)
LEMMA PathsGrow ==
  ASSUME NEW i \in Nat, NEW j \in Nat, NEW q \in Paths(i, j), NEW s, NEW t
  PROVE  /\ q \in Paths(i + 1, j) /\ Cost(s, t, i + 1, j, q) = Cost(s, t, i, j, q) + 1
         /\ q \in Paths(i, j + 1) /\ Cost(s, t, i, j + 1, q) = Cost(s, t, i, j, q) + 1
<1>1. (1..i) \subseteq 1..(i + 1) /\ (1..j) \subseteq 1..(j + 1)
  OBVIOUS
<1>2. q \in Paths(i + 1, j) /\ q \in Paths(i, j + 1)
  <2>1. q \in SUBSET ((1..i) \X (1..j)) /\ Uncrossed(q)
    BY DEF Paths
  <2>2. q \in SUBSET ((1..(i + 1)) \X (1..j)) /\ q \in SUBSET ((1..i) \X (1..(j + 1)))
    BY <1>1, <2>1
  <2> QED
    BY <2>1, <2>2 DEF Paths
<1>3. Cardinality(q) \in Nat /\ Cardinality(Replaces(s, t, q)) \in Nat
  BY PathsFinite
<1> QED
  BY <1>2, <1>3 DEF Cost

(* The last members of both are paired.                                    *)
LEMMA PathsPair ==
  ASSUME NEW i \in Nat, NEW j \in Nat, NEW q \in Paths(i, j), NEW s, NEW t
  PROVE  LET last == <<i + 1, j + 1>>
             cost == IF s[i + 1] = t[j + 1] THEN 0 ELSE 1
         IN /\ q \cup {last} \in Paths(i + 1, j + 1)
            /\ Cost(s, t, i + 1, j + 1, q \cup {last}) = Cost(s, t, i, j, q) + cost
<1> DEFINE last == <<i + 1, j + 1>>
           more == q \cup {last}
           cost == IF s[i + 1] = t[j + 1] THEN 0 ELSE 1
<1>1. last[1] = i + 1 /\ last[2] = j + 1
  OBVIOUS
<1>2. q \in SUBSET ((1..i) \X (1..j)) /\ Uncrossed(q)
  BY DEF Paths
<1>3. \A x \in q : x[1] \in 1..i /\ x[2] \in 1..j
  BY <1>2
<1>4. last \notin q
  BY <1>1, <1>3
<1>5. \A x \in q : x[1] < last[1] /\ x[2] < last[2]
  BY <1>1, <1>3
<1>6. Uncrossed(more)
  BY <1>2, <1>5 DEF Uncrossed
<1>7. more \in SUBSET ((1..(i + 1)) \X (1..(j + 1)))
  <2>1. (1..i) \subseteq 1..(i + 1) /\ (1..j) \subseteq 1..(j + 1)
    OBVIOUS
  <2>2. q \in SUBSET ((1..(i + 1)) \X (1..(j + 1)))
    BY <1>2, <2>1
  <2>3. last \in (1..(i + 1)) \X (1..(j + 1))
    OBVIOUS
  <2> QED
    BY <2>2, <2>3
<1>8. more \in Paths(i + 1, j + 1)
  BY <1>6, <1>7 DEF Paths
<1>9. /\ IsFiniteSet(q) /\ Cardinality(q) \in Nat
      /\ IsFiniteSet(Replaces(s, t, q)) /\ Cardinality(Replaces(s, t, q)) \in Nat
  BY PathsFinite
<1>10. Cardinality(more) = Cardinality(q) + 1
  <2> HIDE DEF last
  <2> QED
    BY <1>4, <1>9, FS_AddElement
<1>11. Cardinality(Replaces(s, t, more)) = Cardinality(Replaces(s, t, q)) + cost
  <2>1. CASE s[i + 1] = t[j + 1]
    <3>1. Replaces(s, t, more) = Replaces(s, t, q)
      <4> HIDE DEF last
      <4> QED
        BY <1>1, <2>1 DEF Replaces
    <3> QED
      BY <1>9, <2>1, <3>1
  <2>2. CASE s[i + 1] # t[j + 1]
    <3> HIDE DEF last
    <3>1. Replaces(s, t, more) = Replaces(s, t, q) \cup {last}
      BY <1>1, <2>2 DEF Replaces
    <3>2. last \notin Replaces(s, t, q)
      BY <1>4 DEF Replaces
    <3> DEFINE R == Replaces(s, t, q)
    <3>3. IsFiniteSet(R) /\ last \notin R
      BY <1>9, <3>2
    <3>4. Cardinality(R \cup {last}) = Cardinality(R) + 1
      <4> HIDE DEF R
      <4> QED
        BY <3>3, FS_AddElement
    <3> QED
      BY <2>2, <3>1, <3>4
  <2> QED
    BY <2>1, <2>2
<1> HIDE DEF last, more, cost
<1>12. cost \in {0, 1}
  BY DEF cost
<1>13. Cost(s, t, i + 1, j + 1, more) = Cost(s, t, i, j, q) + cost
  BY <1>9, <1>10, <1>11, <1>12 DEF Cost
<1> QED
  BY <1>8, <1>13 DEF last, more, cost

(* Every pairing leaves one of the last members alone or pairs them.       *)
LEMMA PathsEnd ==
  ASSUME NEW i \in Nat, NEW j \in Nat, NEW q \in Paths(i + 1, j + 1)
  PROVE  \/ q \in Paths(i, j + 1)
         \/ q \in Paths(i + 1, j)
         \/ \E p \in Paths(i, j) : q = p \cup {<<i + 1, j + 1>>}
<1> DEFINE last == <<i + 1, j + 1>>
<1>1. q \in SUBSET ((1..(i + 1)) \X (1..(j + 1))) /\ Uncrossed(q)
  BY DEF Paths
<1>2. \A x \in q : /\ x[1] \in 1..(i + 1) /\ x[2] \in 1..(j + 1) /\ x = <<x[1], x[2]>>
  BY <1>1
<1>3. CASE \A x \in q : x[1] # i + 1
  <2>1. \A x \in q : x[1] \in 1..i /\ x[2] \in 1..(j + 1) /\ x = <<x[1], x[2]>>
    BY <1>2, <1>3
  <2>2. q \in SUBSET ((1..i) \X (1..(j + 1)))
    BY <2>1
  <2> QED
    BY <1>1, <2>2 DEF Paths
<1>4. CASE \A x \in q : x[2] # j + 1
  <2>1. \A x \in q : x[1] \in 1..(i + 1) /\ x[2] \in 1..j /\ x = <<x[1], x[2]>>
    BY <1>2, <1>4
  <2>2. q \in SUBSET ((1..(i + 1)) \X (1..j))
    BY <2>1
  <2> QED
    BY <1>1, <2>2 DEF Paths
<1>5. ASSUME NEW x \in q, x[1] = i + 1, NEW y \in q, y[2] = j + 1
      PROVE  \E p \in Paths(i, j) : q = p \cup {last}
  <2>1. x = y
    <3>1. /\ x[1] \in 1..(i + 1) /\ x[2] \in 1..(j + 1)
          /\ y[1] \in 1..(i + 1) /\ y[2] \in 1..(j + 1)
      BY <1>2
    <3>2. ~(x[1] < y[1]) /\ ~(y[2] < x[2])
      BY <1>5, <3>1
    <3> QED
      BY <1>1, <3>2 DEF Uncrossed
  <2>2. x = last
    BY <1>2, <1>5, <2>1
  <2> DEFINE p == q \ {last}
  <2>3. \A z \in p : z[1] \in 1..i /\ z[2] \in 1..j
    <3> SUFFICES ASSUME NEW z \in p PROVE z[1] \in 1..i /\ z[2] \in 1..j
      OBVIOUS
    <3>1. z \in q /\ z # x /\ z[1] \in 1..(i + 1) /\ z[2] \in 1..(j + 1)
      BY <1>2, <2>2
    <3>2. x[1] = i + 1 /\ x[2] = j + 1
      BY <1>5, <2>1
    <3>3. z[1] < x[1] /\ z[2] < x[2]
      <4>1. ~(x[1] < z[1])
        BY <3>1, <3>2
      <4> QED
        BY <1>1, <3>1, <4>1 DEF Uncrossed
    <3> QED
      BY <3>1, <3>2, <3>3
  <2>4. p \in SUBSET ((1..i) \X (1..j))
    <3>1. \A z \in p : z = <<z[1], z[2]>>
      BY <1>2
    <3> HIDE DEF p
    <3> QED
      BY <2>3, <3>1
  <2>5. Uncrossed(p)
    BY <1>1 DEF Uncrossed
  <2>6. q = p \cup {last}
    BY <2>2
  <2> HIDE DEF p
  <2> QED
    BY <2>4, <2>5, <2>6 DEF Paths
<1> QED
  BY <1>3, <1>4, <1>5

(* With nothing to pair every member is deleted or inserted.               *)
LEMMA PathsAlone ==
  ASSUME NEW i \in Nat, NEW j \in Nat, i = 0 \/ j = 0, NEW s, NEW t
  PROVE  IsLeast(s, t, i, j, i + j)
<1>1. (1..i) \X (1..j) = {}
  BY SMT
<1>2. Paths(i, j) = {{}}
  BY <1>1 DEF Paths, Uncrossed
<1>3. Replaces(s, t, {}) = {}
  BY DEF Replaces
<1>4. Cost(s, t, i, j, {}) = i + j
  BY <1>3, FS_EmptySet DEF Cost
<1> QED
  BY <1>2, <1>4 DEF IsLeast

(* The least number of edits of the beginnings that are one longer.        *)
LEMMA LeastGrows ==
  ASSUME NEW i \in Nat, NEW j \in Nat, NEW s, NEW t,
         NEW a \in Nat, NEW b \in Nat, NEW c \in Nat, NEW d \in Nat,
         IsLeast(s, t, i, j + 1, a), IsLeast(s, t, i + 1, j, b), IsLeast(s, t, i, j, c),
         NEW cost, cost = IF s[i + 1] = t[j + 1] THEN 0 ELSE 1,
         d \in {a + 1, b + 1, c + cost}, d <= a + 1, d <= b + 1, d <= c + cost
  PROVE  IsLeast(s, t, i + 1, j + 1, d)
<1>1. \E q \in Paths(i + 1, j + 1) : Cost(s, t, i + 1, j + 1, q) = d
  <2>1. CASE d = a + 1
    <3>1. PICK q \in Paths(i, j + 1) : Cost(s, t, i, j + 1, q) = a
      BY DEF IsLeast
    <3>2. /\ q \in Paths(i + 1, j + 1)
          /\ Cost(s, t, i + 1, j + 1, q) = Cost(s, t, i, j + 1, q) + 1
      BY <3>1, PathsGrow
    <3> QED
      BY <2>1, <3>1, <3>2
  <2>2. CASE d = b + 1
    <3>1. PICK q \in Paths(i + 1, j) : Cost(s, t, i + 1, j, q) = b
      BY DEF IsLeast
    <3>2. /\ q \in Paths(i + 1, j + 1)
          /\ Cost(s, t, i + 1, j + 1, q) = Cost(s, t, i + 1, j, q) + 1
      BY <3>1, PathsGrow
    <3> QED
      BY <2>2, <3>1, <3>2
  <2>3. CASE d = c + cost
    <3>1. PICK q \in Paths(i, j) : Cost(s, t, i, j, q) = c
      BY DEF IsLeast
    <3> DEFINE more == q \cup {<<i + 1, j + 1>>}
    <3>2. /\ more \in Paths(i + 1, j + 1)
          /\ Cost(s, t, i + 1, j + 1, more) = Cost(s, t, i, j, q) + cost
      BY <3>1, PathsPair
    <3> HIDE DEF more
    <3> QED
      BY <2>3, <3>1, <3>2
  <2> QED
    BY <2>1, <2>2, <2>3
<1>2. ASSUME NEW q \in Paths(i + 1, j + 1) PROVE d <= Cost(s, t, i + 1, j + 1, q)
  <2>0. cost \in {0, 1}
    OBVIOUS
  <2>1. CASE q \in Paths(i, j + 1)
    <3>1. /\ Cost(s, t, i + 1, j + 1, q) = Cost(s, t, i, j + 1, q) + 1
          /\ Cost(s, t, i, j + 1, q) \in Int
      BY <2>1, PathsGrow, PathsFinite
    <3>2. a <= Cost(s, t, i, j + 1, q)
      BY <2>1 DEF IsLeast
    <3> QED
      BY <3>1, <3>2
  <2>2. CASE q \in Paths(i + 1, j)
    <3>1. /\ Cost(s, t, i + 1, j + 1, q) = Cost(s, t, i + 1, j, q) + 1
          /\ Cost(s, t, i + 1, j, q) \in Int
      BY <2>2, PathsGrow, PathsFinite
    <3>2. b <= Cost(s, t, i + 1, j, q)
      BY <2>2 DEF IsLeast
    <3> QED
      BY <3>1, <3>2
  <2>3. ASSUME NEW p \in Paths(i, j), q = p \cup {<<i + 1, j + 1>>}
        PROVE  d <= Cost(s, t, i + 1, j + 1, q)
    <3>1. Cost(s, t, i + 1, j + 1, q) = Cost(s, t, i, j, p) + cost
      BY <2>3, PathsPair
    <3>2. c <= Cost(s, t, i, j, p) /\ Cost(s, t, i, j, p) \in Int
      BY PathsFinite DEF IsLeast
    <3> QED
      BY <2>0, <3>1, <3>2
  <2> QED
    BY <2>1, <2>2, <2>3, PathsEnd
<1> QED
  BY <1>1, <1>2 DEF IsLeast

(* The rows of the distance hold the least numbers of edits.               *)
LEMMA TableIsLeast ==
  ASSUME NEW S, NEW s \in Seq(S), NEW t \in Seq(S)
  PROVE  LET d(i, j) == DistanceRows(s, t)[i][j + 1]
         IN /\ \A i \in 0..Len(s), j \in 0..Len(t) : IsLeast(s, t, i, j, d(i, j))
            /\ \A i \in 0..Len(s) : d(i, 0) = i
<1> DEFINE d(i, j) == DistanceRows(s, t)[i][j + 1]
           M == Len(s)
           N == Len(t)
           cost(i, j) == IF s[i] = t[j] THEN 0 ELSE 1
<1>1. M \in Nat /\ N \in Nat
  BY LenProperties
<1>2. /\ \A i \in 0..M, j \in 0..N : d(i, j) \in Nat
      /\ \A j \in 0..N : d(0, j) = j
      /\ \A i \in 1..M : d(i, 0) = d(i - 1, 0) + 1
      /\ \A i \in 1..M, j \in 1..N :
           /\ d(i, j) \in {d(i - 1, j) + 1, d(i, j - 1) + 1, d(i - 1, j - 1) + cost(i, j)}
           /\ d(i, j) <= d(i - 1, j) + 1
           /\ d(i, j) <= d(i, j - 1) + 1
           /\ d(i, j) <= d(i - 1, j - 1) + cost(i, j)
  BY TableUnfolds
<1> HIDE DEF d, M, N
<1>3. \A i \in 0..M : d(i, 0) = i
  <2> DEFINE ok == {i \in 0..M : d(i, 0) = i}
  <2>1. 0 \in ok
    BY <1>1, <1>2
  <2>2. ASSUME NEW i \in 1..M, i - 1 \in ok PROVE i \in ok
    BY <1>1, <1>2, <2>2
  <2>3. \A i \in 0..M : i \in ok
    <3> HIDE DEF ok
    <3> QED
      BY <1>1, <2>1, <2>2, Reaches
  <2> QED
    BY <2>3
<1> DEFINE rows == {i \in 0..M : \A j \in 0..N : IsLeast(s, t, i, j, d(i, j))}
<1>4. 0 \in rows
  <2>1. \A j \in 0..N : IsLeast(s, t, 0, j, 0 + j)
    BY <1>1, PathsAlone
  <2>2. \A j \in 0..N : d(0, j) = 0 + j
    BY <1>1, <1>2
  <2> QED
    BY <1>1, <2>1, <2>2
<1>5. ASSUME NEW m \in 1..M, m - 1 \in rows PROVE m \in rows
  <2> DEFINE i == m - 1
             ok == {j \in 0..N : IsLeast(s, t, m, j, d(m, j))}
  <2>1. i \in Nat /\ i + 1 = m /\ i \in 0..M /\ m \in 0..M
    BY <1>1
  <2> HIDE DEF i
  <2>2. 0 \in ok
    <3>1. IsLeast(s, t, m, 0, m + 0)
      BY <2>1, PathsAlone
    <3>2. d(m, 0) = m + 0
      BY <1>3, <2>1
    <3>3. 0 \in 0..N
      BY <1>1
    <3> QED
      BY <3>1, <3>2, <3>3
  <2>3. ASSUME NEW n \in 1..N, n - 1 \in ok PROVE n \in ok
    <3> DEFINE j == n - 1
               a == d(i, n)
               b == d(m, j)
               c == d(i, j)
               e == d(m, n)
               k == cost(m, n)
    <3>1. j \in Nat /\ j + 1 = n /\ j \in 0..N /\ n \in 0..N
      BY <1>1
    <3>2. IsLeast(s, t, i, n, a) /\ IsLeast(s, t, m, j, b) /\ IsLeast(s, t, i, j, c)
      BY <1>5, <2>1, <2>3, <3>1 DEF i
    <3>3. a \in Nat /\ b \in Nat /\ c \in Nat /\ e \in Nat
      BY <1>2, <2>1, <3>1
    <3>4. e \in {a + 1, b + 1, c + k} /\ e <= a + 1 /\ e <= b + 1 /\ e <= c + k
      BY <1>2 DEF i
    <3>5. k = IF s[i + 1] = t[j + 1] THEN 0 ELSE 1
      BY <2>1, <3>1
    <3> HIDE DEF j, a, b, c, e, k
    <3>6. IsLeast(s, t, i + 1, j + 1, e)
      <4>1. IsLeast(s, t, i, j + 1, a) /\ IsLeast(s, t, i + 1, j, b)
        BY <2>1, <3>1, <3>2
      <4> QED
        BY <2>1, <3>1, <3>2, <3>3, <3>4, <3>5, <4>1, LeastGrows
    <3>7. IsLeast(s, t, m, n, e)
      BY <2>1, <3>1, <3>6
    <3> QED
      BY <3>1, <3>7 DEF e
  <2>4. \A j \in 0..N : j \in ok
    <3> HIDE DEF ok
    <3> QED
      BY <1>1, <2>2, <2>3, Reaches
  <2> QED
    BY <2>1, <2>4
<1>6. \A i \in 0..M : i \in rows
  <2> HIDE DEF rows
  <2> QED
    BY <1>1, <1>4, <1>5, Reaches
<1> QED
  BY <1>3, <1>6 DEF d, M, N

(* A text is no edit away from itself.                                     *)
LEMMA NoEdits ==
  ASSUME NEW S, NEW s \in Seq(S)
  PROVE  \A i \in 0..Len(s) : DistanceRows(s, s)[i][i + 1] = 0
<1> DEFINE d(i, j) == DistanceRows(s, s)[i][j + 1]
           M == Len(s)
           ok == {i \in 0..M : d(i, i) = 0}
<1>1. M \in Nat
  BY LenProperties
<1>2. /\ \A i, j \in 0..M : d(i, j) \in Nat
      /\ \A j \in 0..M : d(0, j) = j
      /\ \A i, j \in 1..M : d(i, j) <= d(i - 1, j - 1) + (IF s[i] = s[j] THEN 0 ELSE 1)
  BY TableUnfolds
<1> HIDE DEF d, M
<1>3. 0 \in ok
  BY <1>1, <1>2
<1>4. ASSUME NEW i \in 1..M, i - 1 \in ok PROVE i \in ok
  <2>1. i \in 0..M /\ d(i, i) \in Nat /\ d(i - 1, i - 1) = 0
    BY <1>1, <1>2, <1>4
  <2>2. d(i, i) <= d(i - 1, i - 1) + 0
    BY <1>2
  <2> QED
    BY <2>1, <2>2
<1>5. \A i \in 0..M : i \in ok
  <2> HIDE DEF ok
  <2> QED
    BY <1>1, <1>3, <1>4, Reaches
<1> QED
  BY <1>5 DEF d, M

(* The row by row computation finds the least number of edits between any  *)
(* two texts, with the early answers for equal and empty ones              *)
(* (_levenshtein).                                                         *)
THEOREM EditDistanceIsLeast ==
  ASSUME NEW S, NEW s \in Seq(S), NEW t \in Seq(S)
  PROVE  /\ EditDistance(s, t) \in Nat
         /\ EditDistance(s, t) = Min({Edits(s, t, q) : q \in Pairings(s, t)})
<1> DEFINE M == Len(s)
           N == Len(t)
           d(i, j) == DistanceRows(s, t)[i][j + 1]
           E == {Edits(s, t, q) : q \in Pairings(s, t)}
<1>1. M \in Nat /\ N \in Nat
  BY LenProperties
<1>2. Pairings(s, t) = Paths(M, N) /\ \A q : Edits(s, t, q) = Cost(s, t, M, N, q)
  BY DEF Pairings, Paths, Uncrossed, Edits, Cost, Replaces
<1>3. d(M, N) \in Nat
  <2>1. \A i \in 0..M, j \in 0..N : d(i, j) \in Nat
    BY TableUnfolds
  <2> HIDE DEF d, M, N
  <2> QED
    BY <1>1, <2>1
<1>4. EditDistance(s, t) = d(M, N)
  <2>1. CASE s = t
    <3>1. \A i \in 0..M : DistanceRows(s, s)[i][i + 1] = 0
      BY NoEdits
    <3>2. d(M, N) = DistanceRows(s, s)[M][M + 1]
      BY <2>1
    <3>3. M \in 0..M
      BY <1>1
    <3>4. d(M, N) = 0
      <4> HIDE DEF d, M, N
      <4> QED
        BY <3>1, <3>2, <3>3
    <3> QED
      BY <2>1, <3>4 DEF EditDistance
  <2>2. CASE s # t /\ s = <<>>
    <3>1. M = 0 /\ N \in 0..N
      BY <1>1, <2>2
    <3>2. \A j \in 0..N : d(0, j) = j
      BY TableUnfolds
    <3>3. d(M, N) = N
      <4> HIDE DEF d, M, N
      <4> QED
        BY <3>1, <3>2
    <3> QED
      BY <2>2, <3>3 DEF EditDistance
  <2>3. CASE s # t /\ s # <<>> /\ t = <<>>
    <3>1. N = 0 /\ M \in 0..M
      BY <1>1, <2>3
    <3>2. \A i \in 0..M : d(i, 0) = i
      BY TableIsLeast
    <3>3. d(M, N) = M
      <4> HIDE DEF d, M, N
      <4> QED
        BY <3>1, <3>2
    <3> QED
      BY <2>3, <3>3 DEF EditDistance
  <2>4. CASE s # t /\ s # <<>> /\ t # <<>>
    BY <2>4 DEF EditDistance
  <2> QED
    BY <2>1, <2>2, <2>3, <2>4
<1>5. IsLeast(s, t, M, N, d(M, N))
  <2>1. \A i \in 0..M, j \in 0..N : IsLeast(s, t, i, j, d(i, j))
    BY TableIsLeast
  <2> HIDE DEF d, M, N
  <2> QED
    BY <1>1, <2>1
<1>6. d(M, N) \in E /\ \A e \in E : d(M, N) <= e
  <2> HIDE DEF d, M, N
  <2> QED
    BY <1>2, <1>5 DEF IsLeast
<1>7. E \in SUBSET Nat
  <2> HIDE DEF d, M, N
  <2>1. \A q \in Paths(M, N) : Cost(s, t, M, N, q) \in Int
    BY <1>1, PathsFinite
  <2>2. \A e \in E : e \in Int
    BY <1>2, <2>1
  <2> HIDE DEF E
  <2>3. \A e \in E : e \in Nat
    BY <1>3, <1>6, <2>2
  <2> QED
    BY <2>3
<1>8. Min(E) = d(M, N)
  <2> HIDE DEF d, M, N, E
  <2> QED
    BY <1>6, <1>7, LeastOfNumbers
<1> QED
  BY <1>3, <1>4, <1>8

-----------------------------------------------------------------------------
(* Sorting.                                                                *)
Below(keys, i) == {j \in DOMAIN keys : Precedes(keys, j, i)}

(* Places are told apart by their keys, then by their numbers.             *)
LEMMA PrecedesOrders ==
  ASSUME NEW n \in Nat, NEW keys \in [1..n -> Int]
  PROVE  /\ \A i \in 1..n : ~Precedes(keys, i, i)
         /\ \A i, j \in 1..n : i # j => Precedes(keys, i, j) \/ Precedes(keys, j, i)
         /\ \A i, j, k \in 1..n : Precedes(keys, i, j) /\ Precedes(keys, j, k) => Precedes(keys, i, k)
<1>1. \A i \in 1..n : keys[i] \in Int /\ i \in Int
  OBVIOUS
<1>2. ASSUME NEW i \in 1..n, NEW j \in 1..n, NEW k \in 1..n,
             Precedes(keys, i, j), Precedes(keys, j, k)
      PROVE  Precedes(keys, i, k)
  BY <1>1, <1>2 DEF Precedes
<1> QED
  BY <1>1, <1>2 DEF Precedes

(* As many places are below a place as its number in the sorted order.     *)
LEMMA BelowCounts ==
  ASSUME NEW n \in Nat, NEW keys \in [1..n -> Int]
  PROVE  /\ \A i \in 1..n : Cardinality(Below(keys, i)) \in 0..(n - 1)
         /\ \A i, j \in 1..n : Precedes(keys, i, j) =>
              Cardinality(Below(keys, i)) < Cardinality(Below(keys, j))
<1> DEFINE I == 1..n
<1>1. IsFiniteSet(I) /\ Cardinality(I) = n
  BY FS_Interval
<1>2. DOMAIN keys = I
  OBVIOUS
<1>3. /\ \A i \in I : ~Precedes(keys, i, i)
      /\ \A i, j, k \in I : Precedes(keys, i, j) /\ Precedes(keys, j, k) => Precedes(keys, i, k)
  BY PrecedesOrders
<1> HIDE DEF I
<1>4. \A i \in I : Below(keys, i) \in SUBSET I /\ i \notin Below(keys, i)
  BY <1>2, <1>3 DEF Below
<1>5. ASSUME NEW A \in SUBSET I, NEW B \in SUBSET A, NEW x \in A, x \notin B
      PROVE  Cardinality(B) \in Nat /\ Cardinality(A) \in Nat /\ Cardinality(B) < Cardinality(A)
  <2>1. IsFiniteSet(A)
    BY <1>1, FS_Subset
  <2>2. IsFiniteSet(B) /\ Cardinality(B) <= Cardinality(A) /\ Cardinality(A) # Cardinality(B)
    BY <1>5, <2>1, FS_Subset
  <2>3. Cardinality(B) \in Nat /\ Cardinality(A) \in Nat
    BY <2>1, <2>2, FS_CardinalityType
  <2> QED
    BY <2>2, <2>3
<1>6. ASSUME NEW i \in I PROVE Cardinality(Below(keys, i)) \in 0..(n - 1)
  <2>1. /\ Cardinality(Below(keys, i)) \in Nat
        /\ Cardinality(Below(keys, i)) < Cardinality(I)
    BY <1>4, <1>5
  <2> QED
    BY <1>1, <2>1
<1>7. ASSUME NEW i \in I, NEW j \in I, Precedes(keys, i, j)
      PROVE  Cardinality(Below(keys, i)) < Cardinality(Below(keys, j))
  <2>1. Below(keys, i) \in SUBSET Below(keys, j)
    BY <1>2, <1>3, <1>7 DEF Below
  <2>2. i \in Below(keys, j) /\ i \notin Below(keys, i)
    BY <1>2, <1>4, <1>7 DEF Below
  <2> QED
    BY <1>4, <1>5, <2>1, <2>2
<1> QED
  BY <1>6, <1>7 DEF I

LEMMA SortIsStable ==
  ASSUME NEW n \in Nat, NEW keys \in [1..n -> Int]
  PROVE  LET order == SortedBy(keys)
         IN /\ order \in [1..n -> 1..n]
            /\ \A i \in 1..n : \E k \in 1..n : order[k] = i
            /\ \A k, l \in 1..n : k < l => Precedes(keys, order[k], order[l])
<1> DEFINE I == 1..n
           pos(i) == Cardinality(Below(keys, i))
           place == [i \in I |-> pos(i) + 1]
           order == SortedBy(keys)
<1>1. /\ \A i \in I : pos(i) \in 0..(n - 1)
      /\ \A i, j \in I : Precedes(keys, i, j) => pos(i) < pos(j)
  BY BelowCounts
<1>2. \A i, j \in I : i # j => Precedes(keys, i, j) \/ Precedes(keys, j, i)
  BY PrecedesOrders
<1>3. DOMAIN keys = I /\ \A k \in I : order[k] = CHOOSE i \in I : pos(i) = k - 1
  BY DEF SortedBy, Below
<1>d. order = [k \in I |-> order[k]]
  <2> DEFINE g(k) == CHOOSE i \in DOMAIN keys :
                       Cardinality({j \in DOMAIN keys : Precedes(keys, j, i)}) = k - 1
  <2>1. order = [k \in DOMAIN keys |-> g(k)]
    BY DEF SortedBy
  <2>2. DOMAIN keys = I
    OBVIOUS
  <2> HIDE DEF g, order, I
  <2> QED
    BY <2>1, <2>2
<1> HIDE DEF pos, order
<1>4. \A i, j \in I : pos(i) = pos(j) => i = j
  <2>1. \A i, j \in I : pos(i) \in Int /\ pos(j) \in Int
    BY <1>1
  <2> QED
    BY <1>1, <1>2, <2>1
<1>5. place \in Injection(I, I)
  <2>1. \A i \in I : pos(i) \in Int /\ pos(i) + 1 \in I
    BY <1>1
  <2>2. place \in [I -> I]
    BY <2>1
  <2>3. \A i, j \in I : place[i] = place[j] => i = j
    <3>1. \A i, j \in I : pos(i) + 1 = pos(j) + 1 => pos(i) = pos(j)
      BY <2>1
    <3> QED
      BY <1>4, <3>1
  <2> HIDE DEF place
  <2> QED
    BY <2>2, <2>3 DEF Injection, IsInjective
<1>6. place \in Surjection(I, I)
  <2>1. IsFiniteSet(I)
    BY FS_Interval
  <2> HIDE DEF I, place
  <2> QED
    BY <1>5, <2>1, FS_Injection
<1>7. \A k \in I : \E i \in I : pos(i) = k - 1
  <2>1. \A k \in I : \E i \in I : place[i] = k
    <3> HIDE DEF I, place
    <3> QED
      BY <1>6 DEF Surjection
  <2>2. \A i \in I : place[i] = pos(i) + 1 /\ pos(i) \in Int
    BY <1>1
  <2> HIDE DEF place
  <2>3. ASSUME NEW k \in I PROVE \E i \in I : pos(i) = k - 1
    <3>1. PICK i \in I : place[i] = k
      BY <2>1
    <3>2. k = pos(i) + 1 /\ pos(i) \in Int
      BY <2>2, <3>1
    <3> QED
      BY <3>2
  <2> QED
    BY <2>3
<1>8. \A k \in I : order[k] \in I /\ pos(order[k]) = k - 1
  BY <1>3, <1>7
<1>9. order \in [I -> I]
  BY <1>8, <1>d
<1>10. \A i \in I : \E k \in I : order[k] = i
  <2> SUFFICES ASSUME NEW i \in I PROVE \E k \in I : order[k] = i
    OBVIOUS
  <2>1. pos(i) + 1 \in I /\ (pos(i) + 1) - 1 = pos(i)
    BY <1>1
  <2>2. order[pos(i) + 1] = i
    BY <1>4, <1>8, <2>1
  <2> QED
    BY <2>1, <2>2
<1>11. ASSUME NEW k \in I, NEW l \in I, k < l PROVE Precedes(keys, order[k], order[l])
  <2>1. order[k] \in I /\ order[l] \in I /\ pos(order[k]) = k - 1 /\ pos(order[l]) = l - 1
    BY <1>8
  <2>2. order[k] # order[l] /\ ~(pos(order[l]) < pos(order[k]))
    BY <1>11, <2>1
  <2> QED
    BY <1>1, <1>2, <2>1, <2>2
<1> QED
  BY <1>9, <1>10, <1>11 DEF order

(* A finite set of numbers has a least and a greatest one.                 *)
LEMMA FiniteHasEnds ==
  ASSUME NEW T \in SUBSET Int, IsFiniteSet(T), T # {}
  PROVE  /\ Min(T) \in T /\ \A x \in T : Min(T) <= x
         /\ Max(T) \in T /\ \A x \in T : x <= Max(T)
<1> DEFINE n == Cardinality(T)
<1>1. n \in Nat /\ n # 0 /\ ExistsBijection(1..n, T)
  BY FS_CardinalityType, FS_EmptySet
<1> HIDE DEF n
<1>2. PICK f \in Bijection(1..n, T) : TRUE
  BY <1>1 DEF ExistsBijection
<1>3. f \in [1..n -> T] /\ \A x \in T : \E k \in 1..n : f[k] = x
  BY <1>2 DEF Bijection, Injection, Surjection
<1> DEFINE Ends(k, a, b) ==
             a \in 1..n /\ b \in 1..n /\ \A l \in 1..k : f[a] <= f[l] /\ f[l] <= f[b]
           ok == {k \in 0..n : \E a, b \in 1..n : Ends(k, a, b)}
<1>4. 0 \in ok
  <2>1. Ends(0, 1, 1)
    BY <1>1
  <2>2. 1 \in 1..n /\ 0 \in 0..n
    BY <1>1
  <2> HIDE DEF Ends
  <2> QED
    BY <2>1, <2>2
<1>5. ASSUME NEW k \in 1..n, k - 1 \in ok PROVE k \in ok
  <2>1. PICK a \in 1..n, b \in 1..n : Ends(k - 1, a, b)
    BY <1>5
  <2>2. \A l \in 1..n : f[l] \in Int
    BY <1>3
  <2> DEFINE c == IF f[k] <= f[a] THEN k ELSE a
             e == IF f[b] <= f[k] THEN k ELSE b
  <2>3. c \in 1..n /\ e \in 1..n
    OBVIOUS
  <2>4. f[c] <= f[k] /\ f[c] <= f[a] /\ f[k] <= f[e] /\ f[b] <= f[e]
    BY <2>2
  <2> HIDE DEF c, e
  <2>5. ASSUME NEW l \in 1..k PROVE f[c] <= f[l] /\ f[l] <= f[e]
    <3>1. CASE l = k
      BY <2>4, <3>1
    <3>2. CASE l \in 1..(k - 1)
      <4>1. f[a] <= f[l] /\ f[l] <= f[b] /\ l \in 1..n
        BY <1>1, <2>1, <3>2
      <4>2. f[a] \in Int /\ f[b] \in Int /\ f[c] \in Int /\ f[e] \in Int /\ f[l] \in Int
        BY <2>2, <2>3, <4>1
      <4> QED
        BY <2>4, <4>1, <4>2
    <3> QED
      BY <1>1, <3>1, <3>2
  <2>6. Ends(k, c, e) /\ k \in 0..n
    BY <1>1, <2>3, <2>5
  <2> HIDE DEF Ends
  <2> QED
    BY <2>3, <2>6
<1>6. n \in ok
  <2> HIDE DEF ok
  <2> QED
    BY <1>1, <1>4, <1>5, Reaches
<1>7. PICK a \in 1..n, b \in 1..n : Ends(n, a, b)
  BY <1>6
<1>8. /\ f[a] \in T /\ \A x \in T : f[a] <= x
      /\ f[b] \in T /\ \A x \in T : x <= f[b]
  BY <1>3, <1>7
<1>9. Min(T) \in T /\ \A x \in T : Min(T) <= x
  BY <1>8 DEF Min
<1>10. Max(T) \in T /\ \A x \in T : x <= Max(T)
  <2>1. \A x, y \in T : x >= y <=> y <= x
    OBVIOUS
  <2>2. \E x \in T : \A y \in T : x >= y
    BY <1>8, <2>1
  <2>3. Max(T) \in T /\ \A y \in T : Max(T) >= y
    BY <2>2 DEF Max
  <2> QED
    BY <2>1, <2>3
<1> QED
  BY <1>9, <1>10

-----------------------------------------------------------------------------
(* The words of a label.                                                   *)
WordSet == {w \in [text : Seq(Characters), box : BoxSet] : w.box.y0 <= w.box.y1}
LabelSet ==
  {l \in Labels : \A i \in DOMAIN l.polygons : IsFiniteSet(l.polygons[i].points)}

(* What is picked from a sequence.                                         *)
LEMMA PickedTyped ==
  ASSUME NEW S, NEW s \in Seq(S), NEW positions, NEW T,
         \A i \in DOMAIN s : i \in positions => s[i] \in T
  PROVE  Picked(s, positions) \in Seq(T) /\ Len(Picked(s, positions)) <= Len(s)
<1> DEFINE piece(i) == IF i \in positions THEN <<s[i]>> ELSE <<>>
           parts == [i \in DOMAIN s |-> piece(i)]
           N == Len(s)
           f == FlatUpTo(parts)
<1>1. N \in Nat /\ DOMAIN s = 1..N
  BY LenProperties
<1>2. \A i \in 1..N : piece(i) \in Seq(T) /\ Len(piece(i)) <= 1
  <2> SUFFICES ASSUME NEW i \in 1..N PROVE piece(i) \in Seq(T) /\ Len(piece(i)) <= 1
    OBVIOUS
  <2>1. CASE i \in positions
    <3>1. s[i] \in T
      BY <1>1, <2>1
    <3> QED
      BY <2>1, <3>1
  <2>2. CASE i \notin positions
    BY <2>2
  <2> QED
    BY <2>1, <2>2
<1> HIDE DEF piece, N
<1>3. /\ parts \in Seq(Seq(T)) /\ Len(parts) = N
      /\ \A i \in 1..N : parts[i] = piece(i)
  BY <1>1, <1>2
<1>4. Picked(s, positions) = Flat(parts)
  BY DEF Picked, piece
<1> HIDE DEF parts
<1>5. /\ f[0] = <<>> /\ \A n \in 1..N : f[n] = Then(f[n - 1], parts[n])
      /\ \A n \in 0..N : f[n] \in Seq(T)
  <2>1. /\ f[0] = <<>> /\ \A n \in 1..Len(parts) : f[n] = Then(f[n - 1], parts[n])
        /\ \A n \in 0..Len(parts) : f[n] \in Seq(T)
    BY <1>3, FlatUnfold
  <2> HIDE DEF f
  <2> QED
    BY <1>3, <2>1
<1> HIDE DEF f
<1> DEFINE ok == {n \in 0..N : Len(f[n]) <= n}
<1>6. 0 \in ok
  BY <1>1, <1>5
<1>7. ASSUME NEW n \in 1..N, n - 1 \in ok PROVE n \in ok
  <2> DEFINE a == f[n - 1]  b == parts[n]
  <2>1. a \in Seq(T) /\ b \in Seq(T) /\ Len(a) <= n - 1 /\ Len(b) <= 1
    <3>1. n - 1 \in 0..N /\ f[n - 1] \in Seq(T) /\ Len(f[n - 1]) <= n - 1
      BY <1>1, <1>5, <1>7
    <3>2. piece(n) \in Seq(T) /\ Len(piece(n)) <= 1 /\ parts[n] = piece(n)
      BY <1>2, <1>3
    <3>3. parts[n] \in Seq(T) /\ Len(parts[n]) <= 1
      BY <3>2, Zenon
    <3> QED
      BY <3>1, <3>3
  <2>2. f[n] = Then(a, b)
    BY <1>5
  <2> HIDE DEF a, b
  <2>3. Len(Then(a, b)) = Len(a) + Len(b) /\ Len(a) \in Nat /\ Len(b) \in Nat
    BY <2>1 DEF Then
  <2>4. n \in 0..N
    BY <1>1
  <2> QED
    BY <2>1, <2>2, <2>3, <2>4
<1>8. N \in ok
  <2>1. \A n \in 0..N : n \in ok
    <3> HIDE DEF ok
    <3> QED
      BY <1>1, <1>6, <1>7, Reaches
  <2> QED
    BY <1>1, <2>1
<1>9. Flat(parts) = f[N]
  BY <1>3 DEF Flat, f
<1> QED
  BY <1>1, <1>4, <1>5, <1>8, <1>9 DEF N

(* The box around the points of a polygon is upright.                      *)
LEMMA BoxUpright ==
  ASSUME NEW points \in SUBSET (Int \X Int), IsFiniteSet(points), points # {}
  PROVE  BoxOf(points) \in BoxSet /\ BoxOf(points).y0 <= BoxOf(points).y1
<1> DEFINE xs == {q[1] : q \in points}
           ys == {q[2] : q \in points}
<1>1. xs \in SUBSET Int /\ ys \in SUBSET Int /\ xs # {} /\ ys # {}
  OBVIOUS
<1>2. IsFiniteSet(xs)
  <2> DEFINE f == [q \in points |-> q[1]]
  <2>1. f \in Surjection(points, xs)
    BY DEF Surjection
  <2> HIDE DEF f, xs
  <2> QED
    BY <2>1, FS_Surjection
<1>3. IsFiniteSet(ys)
  <2> DEFINE f == [q \in points |-> q[2]]
  <2>1. f \in Surjection(points, ys)
    BY DEF Surjection
  <2> HIDE DEF f, ys
  <2> QED
    BY <2>1, FS_Surjection
<1>4. BoxOf(points) = [x0 |-> Min(xs), y0 |-> Min(ys), x1 |-> Max(xs), y1 |-> Max(ys)]
  BY DEF BoxOf
<1> HIDE DEF xs, ys
<1>5. Min(xs) \in xs /\ Max(xs) \in xs
  BY <1>1, <1>2, FiniteHasEnds
<1>6. Min(ys) \in ys /\ Max(ys) \in ys /\ Min(ys) <= Max(ys)
  BY <1>1, <1>3, FiniteHasEnds
<1>7. Min(xs) \in Int /\ Max(xs) \in Int /\ Min(ys) \in Int /\ Max(ys) \in Int
  BY <1>1, <1>5, <1>6
<1> QED
  BY <1>4, <1>6, <1>7 DEF BoxSet

(* The words of a label are whole, in upright boxes.                       *)
LEMMA LabelWordsTyped ==
  ASSUME NEW l \in LabelSet
  PROVE  LabelWords(l) \in Seq(WordSet)
<1> DEFINE positions == {k \in DOMAIN l.polygons : /\ l.polygons[k].text # <<>>
                                                   /\ l.polygons[k].points # {}}
           whole == Picked(l.polygons, positions)
           T == {p \in Polygons : IsFiniteSet(p.points) /\ p.points # {}}
<1>1. l.polygons \in Seq(Polygons)
  BY DEF LabelSet, Labels
<1>2. \A i \in DOMAIN l.polygons : i \in positions => l.polygons[i] \in T
  <2>1. \A i \in DOMAIN l.polygons : l.polygons[i] \in Polygons
    BY <1>1
  <2> QED
    BY <2>1 DEF LabelSet
<1>3. LabelWords(l) = [i \in DOMAIN whole |-> [text |-> whole[i].text, box |-> BoxOf(whole[i].points)]]
  BY DEF LabelWords
<1> HIDE DEF positions
<1>4. whole \in Seq(T)
  <2> HIDE DEF T
  <2> QED
    BY <1>1, <1>2, PickedTyped
<1> HIDE DEF whole
<1>5. \A i \in DOMAIN whole : [text |-> whole[i].text, box |-> BoxOf(whole[i].points)] \in WordSet
  <2> SUFFICES ASSUME NEW i \in DOMAIN whole
               PROVE  [text |-> whole[i].text, box |-> BoxOf(whole[i].points)] \in WordSet
    OBVIOUS
  <2> DEFINE p == whole[i]
  <2>1. p \in T
    BY <1>4
  <2> HIDE DEF p
  <2>2. /\ p.text \in Seq(Characters) /\ p.points \in SUBSET (Int \X Int)
        /\ IsFiniteSet(p.points) /\ p.points # {}
    BY <2>1 DEF Polygons
  <2>3. BoxOf(p.points) \in BoxSet /\ BoxOf(p.points).y0 <= BoxOf(p.points).y1
    BY <2>2, BoxUpright
  <2>4. [text |-> p.text, box |-> BoxOf(p.points)] \in WordSet
    BY <2>2, <2>3 DEF WordSet
  <2> QED
    BY <2>4 DEF p
<1>6. DOMAIN whole = 1..Len(whole) /\ Len(whole) \in Nat
  BY <1>4
<1> QED
  BY <1>3, <1>5, <1>6

(* What a word is sorted and measured by.                                  *)
LEMMA WordNumbers ==
  ASSUME NEW w \in WordSet
  PROVE  /\ Middle(w) \in Int /\ w.box.x0 \in Int
         /\ w.box.y1 - w.box.y0 \in Nat
<1>1. /\ w.box.x0 \in Int /\ w.box.y0 \in Int /\ w.box.y1 \in Int
      /\ w.box.y0 <= w.box.y1
  BY DEF WordSet, BoxSet
<1> QED
  BY <1>1 DEF Middle

(* The order down the page and the height that rows are measured by.       *)
LEMMA PageSorted ==
  ASSUME NEW ws \in Seq(WordSet), ws # <<>>
  PROVE  /\ DownThePage(ws) \in [1..Len(ws) -> 1..Len(ws)]
         /\ \A i \in 1..Len(ws) : \E k \in 1..Len(ws) : DownThePage(ws)[k] = i
         /\ \A k, l \in 1..Len(ws) : k < l =>
              /\ DownThePage(ws)[k] # DownThePage(ws)[l]
              /\ Middle(ws[DownThePage(ws)[k]]) <= Middle(ws[DownThePage(ws)[l]])
         /\ MedianHeight(ws) \in Nat \ {0}
<1> DEFINE n == Len(ws)
           keys == [i \in DOMAIN ws |-> Middle(ws[i])]
           heights == [i \in DOMAIN ws |-> ws[i].box.y1 - ws[i].box.y0]
<1>1. n \in Nat /\ n # 0 /\ DOMAIN ws = 1..n
  OBVIOUS
<1>w. \A i \in 1..n : ws[i] \in WordSet
  OBVIOUS
<1>2. keys \in [1..n -> Int] /\ heights \in [1..n -> Nat]
  <2> HIDE DEF n
  <2> QED
    BY <1>1, <1>w, WordNumbers
<1>3. \A i \in 1..n : keys[i] = Middle(ws[i])
  BY <1>1
<1> DEFINE order == DownThePage(ws)
           o == SortedBy(heights)
<1>4. order = SortedBy(keys)
  BY DEF DownThePage
<1>5. MedianHeight(ws) = IF heights[o[n \div 2 + 1]] = 0 THEN 1 ELSE heights[o[n \div 2 + 1]]
  BY DEF MedianHeight
<1>6. n \div 2 + 1 \in 1..n
  BY <1>1
<1> HIDE DEF n, keys, heights, order
<1>7. /\ order \in [1..n -> 1..n]
      /\ \A i \in 1..n : \E k \in 1..n : order[k] = i
      /\ \A k, l \in 1..n : k < l => Precedes(keys, order[k], order[l])
  <2> DEFINE r == SortedBy(keys)
  <2>1. /\ r \in [1..n -> 1..n]
        /\ \A i \in 1..n : \E k \in 1..n : r[k] = i
        /\ \A k, l \in 1..n : k < l => Precedes(keys, r[k], r[l])
    BY <1>1, <1>2, SortIsStable
  <2>2. order = r
    BY <1>4
  <2> HIDE DEF r
  <2> QED
    BY <2>1, <2>2
<1>8. \A k, l \in 1..n : k < l => /\ order[k] # order[l]
                                  /\ Middle(ws[order[k]]) <= Middle(ws[order[l]])
  <2> SUFFICES ASSUME NEW k \in 1..n, NEW l \in 1..n, k < l
               PROVE  order[k] # order[l] /\ Middle(ws[order[k]]) <= Middle(ws[order[l]])
    OBVIOUS
  <2>1. order[k] \in 1..n /\ order[l] \in 1..n /\ Precedes(keys, order[k], order[l])
    BY <1>7
  <2>2. keys[order[k]] \in Int /\ keys[order[l]] \in Int /\ order[k] \in Int
    BY <1>2, <2>1
  <2>3. order[k] # order[l] /\ keys[order[k]] <= keys[order[l]]
    BY <2>1, <2>2 DEF Precedes
  <2> QED
    BY <1>3, <2>1, <2>3
<1>9. o \in [1..n -> 1..n]
  <2>1. heights \in [1..n -> Int]
    BY <1>2
  <2> QED
    BY <1>1, <2>1, SortIsStable
<1>10. MedianHeight(ws) \in Nat \ {0}
  <2>1. heights[o[n \div 2 + 1]] \in Nat
    BY <1>2, <1>6, <1>9
  <2> QED
    BY <1>5, <2>1
<1> QED
  BY <1>7, <1>8, <1>10 DEF n, order

-----------------------------------------------------------------------------
(* A sequence with a member more, and with another last member.            *)
LEMMA OneMore ==
  ASSUME NEW S, NEW s \in Seq(S), NEW x \in S
  PROVE  /\ Append(s, x) \in Seq(S) /\ Len(Append(s, x)) = Len(s) + 1
         /\ DOMAIN Append(s, x) = 1..(Len(s) + 1)
         /\ Append(s, x)[Len(s) + 1] = x
         /\ \A r \in 1..Len(s) : Append(s, x)[r] = s[r]
         /\ Append(s, x) # <<>>
<1>1. /\ Append(s, x) \in Seq(S) /\ Len(Append(s, x)) = Len(s) + 1
      /\ Append(s, x)[Len(s) + 1] = x
      /\ \A r \in 1..Len(s) : Append(s, x)[r] = s[r]
  BY AppendProperties
<1>2. Len(s) \in Nat
  BY LenProperties
<1> DEFINE t == Append(s, x)
<1> HIDE DEF t
<1>3. DOMAIN t = 1..(Len(s) + 1) /\ t # <<>>
  <2>1. t \in Seq(S) /\ Len(t) = Len(s) + 1
    BY <1>1 DEF t
  <2> QED
    BY <1>2, <2>1
<1> QED
  BY <1>1, <1>3 DEF t

(* A sequence with another last member.                                    *)
LEMMA LastReplaced ==
  ASSUME NEW S, NEW s \in Seq(S), s # <<>>, NEW x \in S, NEW t, t = [s EXCEPT ![Len(s)] = x]
  PROVE  /\ t \in Seq(S) /\ Len(t) = Len(s) /\ DOMAIN t = 1..Len(s)
         /\ t[Len(s)] = x
         /\ \A r \in 1..Len(s) : r # Len(s) => t[r] = s[r]
<1> DEFINE n == Len(s)
<1>1. n \in Nat /\ n # 0 /\ s \in [1..n -> S]
  OBVIOUS
<1>2. t = [s EXCEPT ![n] = x]
  OBVIOUS
<1> HIDE DEF n
<1>3. /\ t \in [1..n -> S] /\ t[n] = x
      /\ \A r \in 1..n : r # n => t[r] = s[r]
  BY <1>1, <1>2
<1>4. t \in Seq(S) /\ Len(t) = n /\ DOMAIN t = 1..n
  BY <1>1, <1>3
<1> QED
  BY <1>3, <1>4 DEF n

-----------------------------------------------------------------------------
(* The rows of a page.                                                     *)
RowSet == [words : Seq(WordSet), sum : Int]
Standing(row) == ToSet(row.words)
RowWords(rows) == Flat([r \in DOMAIN rows |-> rows[r].words])

(* Rows after e was added: no word is further down than e, the words of a  *)
(* row are above those of the rows below it, and the last row would take a *)
(* word at the height of e.                                                *)
Stacked(rows, e, height) ==
  /\ rows \in Seq(RowSet) /\ rows # <<>>
  /\ \A r \in DOMAIN rows : \A v \in Standing(rows[r]) : Middle(v) <= Middle(e)
  /\ \A i, j \in DOMAIN rows : i < j =>
       \A v \in Standing(rows[i]), w \in Standing(rows[j]) : Middle(v) < Middle(w)
  /\ rows[Len(rows)].words # <<>>
  /\ InRow(rows[Len(rows)], e, height)

(* A row that a word is added to would take another one at its height.     *)
LEMMA NearMean ==
  ASSUME NEW m \in Int, NEW n \in Nat, NEW sum \in Int, NEW height \in Nat
  PROVE  /\ 5 * Distance(m * n, sum) <= 6 * height * n =>
              5 * Distance(m * (n + 1), sum + m) <= 6 * height * (n + 1)
         /\ 5 * Distance(m * 1, m) <= 6 * height * 1
<1>1. m * n \in Int /\ height * n \in Nat
  OBVIOUS
<1>2. m * (n + 1) = m * n + m
  OBVIOUS
<1>3. 6 * height * (n + 1) = 6 * height * n + 6 * height /\ 6 * height * n \in Int
  OBVIOUS
<1>4. m * 1 = m /\ 6 * height * 1 = 6 * height
  OBVIOUS
<1> DEFINE a == m * n  b == 6 * height * n  c == m * (n + 1)  d == 6 * height * (n + 1)
<1>5. a \in Int /\ b \in Int /\ c = a + m /\ d = b + 6 * height
  BY <1>1, <1>2, <1>3
<1> HIDE DEF a, b, c, d
<1>6. 5 * Distance(a, sum) <= b => 5 * Distance(c, sum + m) <= d
  BY <1>5 DEF Distance
<1>7. 5 * Distance(m * 1, m) <= 6 * height * 1
  BY <1>4 DEF Distance
<1> QED
  BY <1>6, <1>7 DEF a, b, c, d

(* A word that is not above the last one is added to its row or below all. *)
LEMMA StackedGrows ==
  ASSUME NEW rows \in Seq(RowSet), NEW w \in WordSet, NEW height \in Nat,
         NEW e \in WordSet, rows = <<>> \/ (Stacked(rows, e, height) /\ Middle(e) <= Middle(w))
  PROVE  /\ Stacked(AddToRows(rows, w, height), w, height)
         /\ RowWords(AddToRows(rows, w, height)) = RowWords(rows) \o <<w>>
         /\ RowWords(rows) \in Seq(WordSet)
<1> DEFINE L == Len(rows)
           new == [words |-> <<w>>, sum |-> Middle(w)]
           words(s) == [r \in DOMAIN s |-> s[r].words]
<1>1. L \in Nat /\ DOMAIN rows = 1..L /\ \A r \in 1..L : rows[r] \in RowSet
  OBVIOUS
<1>2. Middle(w) \in Int /\ Middle(e) \in Int /\ \A v \in WordSet : Middle(v) \in Int
  BY WordNumbers
<1>3. \A row \in RowSet : /\ row.words \in Seq(WordSet) /\ row.sum \in Int
                          /\ Standing(row) \subseteq WordSet
  BY DEF RowSet, Standing, ToSet
<1>4. words(rows) \in Seq(Seq(WordSet)) /\ Len(words(rows)) = L
      /\ \A r \in 1..L : words(rows)[r] = rows[r].words
  <2> HIDE DEF L
  <2> QED
    BY <1>1, <1>3
<1>5. RowWords(rows) \in Seq(WordSet)
  <2>1. RowWords(rows) = Flat(words(rows))
    BY DEF RowWords
  <2> HIDE DEF words
  <2> QED
    BY <1>4, <2>1, FlatTyped
<1>6. CASE rows # <<>> /\ InRow(rows[L], w, height)
  <2> DEFINE last == rows[L]
             grown == [words |-> Append(last.words, w), sum |-> last.sum + Middle(w)]
             more == [rows EXCEPT ![L] = grown]
  <2>0. L \in 1..L /\ L # 0
    BY <1>1, <1>6
  <2>1. AddToRows(rows, w, height) = more
    BY <1>6 DEF AddToRows
  <2>2. Stacked(rows, e, height) /\ Middle(e) <= Middle(w)
    BY <1>6
  <2>3. last \in RowSet /\ last.words \in Seq(WordSet) /\ last.sum \in Int
    BY <1>1, <1>3, <2>0
  <2>4. grown \in RowSet
    BY <1>2, <2>3 DEF RowSet
  <2>5. /\ grown.words # <<>> /\ Len(grown.words) = Len(last.words) + 1
        /\ Standing(grown) = Standing(last) \cup {w}
    <3> DEFINE ww == last.words
    <3>1. grown.words = Append(ww, w) /\ ww \in Seq(WordSet)
      BY <2>3
    <3> HIDE DEF ww, grown, last
    <3>2. /\ Len(Append(ww, w)) = Len(ww) + 1 /\ Append(ww, w) # <<>>
          /\ DOMAIN Append(ww, w) = 1..(Len(ww) + 1) /\ Len(ww) \in Nat
          /\ Append(ww, w)[Len(ww) + 1] = w
          /\ \A k \in 1..Len(ww) : Append(ww, w)[k] = ww[k]
          /\ DOMAIN ww = 1..Len(ww)
      BY <3>1
    <3>3. \A k \in 1..(Len(ww) + 1) : k = Len(ww) + 1 \/ k \in 1..Len(ww)
      BY <3>2
    <3>5. \A k \in 1..Len(ww) : k \in 1..(Len(ww) + 1)
      BY <3>2
    <3>6. Len(ww) + 1 \in 1..(Len(ww) + 1)
      BY <3>2
    <3> DEFINE aw == Append(ww, w)
    <3> HIDE DEF aw
    <3>4. {aw[k] : k \in DOMAIN aw} = {ww[k] : k \in DOMAIN ww} \cup {w}
      <4> USE DEF aw
      <4>1. \A k \in DOMAIN aw : aw[k] \in {ww[i] : i \in DOMAIN ww} \cup {w}
        BY <3>2, <3>3
      <4>2. \A k \in DOMAIN ww : ww[k] \in {aw[i] : i \in DOMAIN aw}
        BY <3>2, <3>5
      <4>3. w \in {aw[i] : i \in DOMAIN aw}
        BY <3>2, <3>6
      <4> HIDE DEF aw
      <4> QED
        BY <4>1, <4>2, <4>3
    <3> QED
      BY <3>1, <3>2, <3>4 DEF Standing, ToSet, ww, aw
  <2> HIDE DEF L, grown, last, more
  <2>6. /\ more \in Seq(RowSet) /\ Len(more) = L /\ DOMAIN more = 1..L
        /\ more[L] = grown /\ \A r \in 1..L : r # L => more[r] = rows[r]
    <3>1. rows # <<>> /\ more = [rows EXCEPT ![Len(rows)] = grown]
      BY <1>6 DEF more, L
    <3> QED
      BY <2>4, <3>1, LastReplaced DEF L
  <2>7. \A r \in 1..L : \A v \in Standing(rows[r]) : Middle(v) <= Middle(w) /\ Middle(v) \in Int
    <3> SUFFICES ASSUME NEW r \in 1..L, NEW v \in Standing(rows[r])
                 PROVE  Middle(v) <= Middle(w) /\ Middle(v) \in Int
      OBVIOUS
    <3>1. Middle(v) <= Middle(e) /\ Middle(v) \in Int
      BY <1>1, <1>2, <1>3, <2>2 DEF Stacked
    <3> QED
      BY <1>2, <2>2, <3>1
  <2>8. \A r \in 1..L : r < L => \A v \in Standing(rows[r]) : Middle(v) < Middle(w)
    <3> SUFFICES ASSUME NEW r \in 1..L, r < L, NEW v \in Standing(rows[r])
                 PROVE  Middle(v) < Middle(w)
      OBVIOUS
    <3>1. PICK u : u \in Standing(rows[L])
      <4>1. last.words # <<>>
        BY <2>2 DEF Stacked, L, last
      <4>2. 1 \in DOMAIN last.words
        BY <2>3, <4>1
      <4>3. last.words[1] \in Standing(last)
        BY <4>2 DEF Standing, ToSet
      <4> QED
        BY <4>3 DEF last
    <3>2. Middle(v) < Middle(u)
      BY <1>1, <2>0, <2>2, <3>1 DEF Stacked
    <3>3. Middle(u) <= Middle(w) /\ Middle(u) \in Int /\ Middle(v) \in Int
      BY <2>0, <2>7, <3>1
    <3> QED
      BY <1>2, <3>2, <3>3
  <2>9. \A r \in 1..L : \A v \in Standing(more[r]) : Middle(v) <= Middle(w)
    <3> SUFFICES ASSUME NEW r \in 1..L, NEW v \in Standing(more[r])
                 PROVE  Middle(v) <= Middle(w)
      OBVIOUS
    <3>1. CASE r # L \/ v # w
      <4>1. v \in Standing(rows[r])
        BY <2>5, <2>6, <3>1 DEF last
      <4> QED
        BY <2>7, <4>1
    <3>2. CASE v = w
      BY <1>2, <3>2
    <3> QED
      BY <3>1, <3>2
  <2>10. ASSUME NEW i \in 1..L, NEW j \in 1..L, i < j,
                NEW v \in Standing(more[i]), NEW u \in Standing(more[j])
         PROVE  Middle(v) < Middle(u)
    <3>1. i < L /\ i # L /\ v \in Standing(rows[i])
      BY <1>1, <2>6, <2>10
    <3>2. CASE u = w
      BY <2>8, <3>1, <3>2
    <3>3. CASE u # w
      <4>1. u \in Standing(rows[j])
        BY <2>5, <2>6, <3>3 DEF last
      <4> QED
        BY <1>1, <2>2, <2>10, <3>1, <4>1 DEF Stacked
    <3> QED
      BY <3>2, <3>3
  <2>11. InRow(grown, w, height)
    <3> DEFINE n == Len(last.words)
    <3>1. n \in Nat
      BY <2>3
    <3>2. 5 * Distance(Middle(w) * n, last.sum) <= 6 * height * n
      BY <1>6 DEF InRow, last
    <3>3. 5 * Distance(Middle(w) * (n + 1), last.sum + Middle(w)) <= 6 * height * (n + 1)
      <4> HIDE DEF n
      <4> QED
        BY <1>2, <2>3, <3>1, <3>2, NearMean
    <3>4. Len(grown.words) = n + 1 /\ grown.sum = last.sum + Middle(w)
      BY <2>5 DEF grown
    <3> HIDE DEF n
    <3> QED
      BY <3>3, <3>4 DEF InRow
  <2>12. Stacked(more, w, height)
    <3>1. more # <<>>
      BY <2>0, <2>6
    <3> QED
      BY <2>5, <2>6, <2>9, <2>10, <2>11, <3>1 DEF Stacked
  <2>13. RowWords(more) = RowWords(rows) \o <<w>>
    <3> DEFINE a == words(rows)  b == words(more)
    <3>1. /\ b \in Seq(Seq(WordSet)) /\ Len(b) = L
          /\ \A r \in 1..L : b[r] = more[r].words
      BY <1>1, <1>3, <2>6
    <3>2. <<w>> \in Seq(WordSet) /\ Append(last.words, w) = last.words \o <<w>>
      BY <2>3
    <3>3. b[L] = a[L] \o <<w>>
      BY <1>4, <2>0, <2>6, <3>1, <3>2 DEF grown, last
    <3>4. \A r \in 1..(L - 1) : b[r] = a[r]
      <4>1. \A r \in 1..(L - 1) : r \in 1..L /\ r # L
        BY <1>1
      <4> QED
        BY <1>4, <2>6, <3>1, <4>1
    <3>5. RowWords(more) = Flat(b) /\ RowWords(rows) = Flat(a)
      BY DEF RowWords
    <3>6. a \in Seq(Seq(WordSet)) /\ Len(a) = L /\ a # <<>>
      BY <1>4, <2>0
    <3> HIDE DEF a, b, words
    <3> DEFINE x == <<w>>
    <3>7. x \in Seq(WordSet) /\ b[L] = a[L] \o x
      BY <3>2, <3>3
    <3> HIDE DEF x
    <3>8. Flat(b) = Flat(a) \o x
      <4>1. /\ Len(b) = Len(a) /\ b[Len(a)] = a[Len(a)] \o x
            /\ \A n \in 1..(Len(a) - 1) : b[n] = a[n]
        BY <3>1, <3>4, <3>6, <3>7
      <4>2. a \in Seq(Seq(WordSet)) /\ a # <<>> /\ b \in Seq(Seq(WordSet)) /\ x \in Seq(WordSet)
        BY <3>1, <3>6, <3>7
      <4> QED
        BY <4>1, <4>2, FlatExtend
    <3> QED
      BY <3>5, <3>8 DEF x
  <2> QED
    BY <1>5, <2>1, <2>12, <2>13
<1>7. CASE ~(rows # <<>> /\ InRow(rows[L], w, height))
  <2> DEFINE more == Append(rows, new)
  <2>1. AddToRows(rows, w, height) = more
    BY <1>7 DEF AddToRows
  <2>2. new \in RowSet /\ new.words = <<w>> /\ Standing(new) = {w}
    BY <1>2 DEF RowSet, Standing, ToSet
  <2> HIDE DEF new
  <2>3. /\ more \in Seq(RowSet) /\ Len(more) = L + 1 /\ DOMAIN more = 1..(L + 1)
        /\ more[L + 1] = new /\ (\A r \in 1..L : more[r] = rows[r]) /\ more # <<>>
    BY <2>2, OneMore
  <2>4. \A r \in 1..L : \A v \in Standing(rows[r]) : Middle(v) < Middle(w)
    <3> SUFFICES ASSUME NEW r \in 1..L, NEW v \in Standing(rows[r])
                 PROVE  Middle(v) < Middle(w)
      OBVIOUS
    <3>0. rows # <<>> /\ L \in 1..L
      BY <1>1
    <3>1. Stacked(rows, e, height) /\ Middle(e) <= Middle(w) /\ ~InRow(rows[L], w, height)
      BY <1>7, <3>0
    <3>2. Middle(v) <= Middle(e) /\ Middle(v) \in Int
      BY <1>1, <1>2, <1>3, <3>1 DEF Stacked
    <3>3. Middle(e) # Middle(w)
      <4>1. InRow(rows[L], e, height)
        BY <3>1 DEF Stacked
      <4> QED
        BY <3>1, <4>1 DEF InRow
    <3> QED
      BY <1>2, <3>1, <3>2, <3>3
  <2> HIDE DEF L, more
  <2>5. \A r \in 1..(L + 1) : r = L + 1 \/ r \in 1..L
    BY <1>1
  <2>6. \A r \in 1..(L + 1) : \A v \in Standing(more[r]) : Middle(v) <= Middle(w)
    <3> SUFFICES ASSUME NEW r \in 1..(L + 1), NEW v \in Standing(more[r])
                 PROVE  Middle(v) <= Middle(w)
      OBVIOUS
    <3>1. CASE r = L + 1
      <4>1. v = w
        BY <2>2, <2>3, <3>1
      <4> QED
        BY <1>2, <4>1
    <3>2. CASE r \in 1..L
      <4>1. v \in Standing(rows[r])
        BY <2>3, <3>2
      <4>2. Middle(v) < Middle(w) /\ Middle(v) \in Int
        BY <1>1, <1>2, <1>3, <2>4, <3>2, <4>1
      <4> QED
        BY <1>2, <4>2
    <3> QED
      BY <2>5, <3>1, <3>2
  <2>7. ASSUME NEW i \in 1..(L + 1), NEW j \in 1..(L + 1), i < j,
               NEW v \in Standing(more[i]), NEW u \in Standing(more[j])
        PROVE  Middle(v) < Middle(u)
    <3>1. i \in 1..L /\ v \in Standing(rows[i])
      <4>1. i \in 1..L
        BY <1>1, <2>7
      <4> QED
        BY <2>3, <4>1
    <3>2. CASE j = L + 1
      <4>1. u = w
        BY <2>2, <2>3, <3>2
      <4> QED
        BY <2>4, <3>1, <4>1
    <3>3. CASE j \in 1..L
      <4>1. u \in Standing(rows[j]) /\ rows # <<>>
        BY <1>1, <2>3, <3>3 DEF L
      <4> QED
        BY <1>1, <2>7, <3>1, <3>3, <4>1 DEF Stacked
    <3> QED
      BY <2>5, <3>2, <3>3
  <2>8. InRow(new, w, height)
    <3>1. Len(new.words) = 1 /\ new.sum = Middle(w)
      BY DEF new
    <3>2. 5 * Distance(Middle(w) * 1, Middle(w)) <= 6 * height * 1
      <4>1. 0 \in Nat
        OBVIOUS
      <4> QED
        BY <1>2, <4>1, NearMean
    <3> QED
      BY <3>1, <3>2 DEF InRow
  <2>9. Stacked(more, w, height)
    <3>1. new.words # <<>>
      BY <2>2
    <3> QED
      BY <2>3, <2>6, <2>7, <2>8, <3>1 DEF Stacked
  <2>10. RowWords(more) = RowWords(rows) \o <<w>>
    <3> DEFINE a == words(rows)  x == <<w>>
    <3>1. a \in Seq(Seq(WordSet)) /\ x \in Seq(WordSet)
      BY <1>4
    <3>2. words(more) = Append(a, x)
      <4>1. words(more) = [r \in 1..(L + 1) |-> more[r].words]
        BY <2>3
      <4>2. Append(a, x) = [r \in 1..(L + 1) |-> IF r = L + 1 THEN x ELSE a[r]]
        <5> HIDE DEF words, x
        <5>0. Len(a) = L
          BY <1>4
        <5> DEFINE y == Append(a, x)
        <5> HIDE DEF a
        <5>1. /\ y \in Seq(Seq(WordSet)) /\ DOMAIN y = 1..(L + 1) /\ y[L + 1] = x
              /\ \A r \in 1..L : y[r] = a[r]
          BY <3>1, <5>0, OneMore
        <5> HIDE DEF y
        <5>2. y = [r \in 1..(L + 1) |-> y[r]]
          BY <5>1
        <5>3. \A r \in 1..(L + 1) : y[r] = IF r = L + 1 THEN x ELSE a[r]
          BY <2>5, <5>1
        <5> QED
          BY <5>2, <5>3 DEF y
      <4>3. \A r \in 1..(L + 1) : more[r].words = IF r = L + 1 THEN x ELSE a[r]
        <5>1. \A r \in 1..L : r # L + 1 /\ more[r] = rows[r] /\ a[r] = rows[r].words
          BY <1>1, <1>4, <2>3
        <5> HIDE DEF a, words
        <5> QED
          BY <2>2, <2>3, <2>5, <5>1
      <4> HIDE DEF words, a, x
      <4> QED
        BY <4>1, <4>2, <4>3
    <3>3. RowWords(more) = Flat(words(more)) /\ RowWords(rows) = Flat(a)
      BY DEF RowWords
    <3> HIDE DEF a, x, words
    <3>4. Flat(Append(a, x)) = Flat(a) \o x
      BY <3>1, FlatAppend
    <3> QED
      BY <3>2, <3>3, <3>4 DEF x
  <2> QED
    BY <1>5, <2>1, <2>9, <2>10
<1> QED
  BY <1>6, <1>7

(* The rows after each word of a page, and the words that they hold.       *)
LEMMA PageUnfolds ==
  ASSUME NEW ws \in Seq(WordSet), ws # <<>>
  PROVE  LET order == DownThePage(ws)
             rows(n) == RowsUpTo(ws)[n]
         IN /\ rows(0) = <<>>
            /\ \A n \in 1..Len(ws) :
                 /\ rows(n) = AddToRows(rows(n - 1), ws[order[n]], MedianHeight(ws))
                 /\ Stacked(rows(n), ws[order[n]], MedianHeight(ws))
                 /\ RowWords(rows(n)) = RowWords(rows(n - 1)) \o <<ws[order[n]]>>
            /\ \A n \in 0..Len(ws) : rows(n) \in Seq(RowSet) /\ RowWords(rows(n)) \in Seq(WordSet)
<1> DEFINE N == Len(ws)
           order == DownThePage(ws)
           h == MedianHeight(ws)
           wordAt(n) == ws[order[n]]
           next(n, d) == AddToRows(d, wordAt(n), h)
           f == RowsUpTo(ws)
           Is(g) == g = [n \in 0..N |-> IF n = 0 THEN <<>> ELSE next(n, g[n - 1])]
           U == Seq(RowSet)
           Fits(n, d) == d = <<>> \/ (Stacked(d, wordAt(n - 1), h) /\ n # 1)
<1>1. N \in Nat /\ N # 0
  OBVIOUS
<1>2. /\ order \in [1..N -> 1..N]
      /\ \A k, l \in 1..N : k < l => Middle(wordAt(k)) <= Middle(wordAt(l))
      /\ h \in Nat
  BY PageSorted
<1> HIDE DEF order, h
<1>3. \A n \in 1..N : wordAt(n) \in WordSet
  <2>1. \A i \in 1..N : ws[i] \in WordSet
    OBVIOUS
  <2> HIDE DEF N
  <2> QED
    BY <1>2, <2>1
<1> HIDE DEF wordAt, N
<1>4. ASSUME NEW n \in 1..N, NEW d \in U, Fits(n, d)
      PROVE  /\ next(n, d) \in U /\ Stacked(next(n, d), wordAt(n), h)
             /\ RowWords(next(n, d)) = RowWords(d) \o <<wordAt(n)>>
             /\ RowWords(d) \in Seq(WordSet)
  <2>1. CASE d = <<>>
    <3> DEFINE w == wordAt(n)
    <3>1. w \in WordSet /\ h \in Nat /\ d \in Seq(RowSet)
      BY <1>2, <1>3, <2>1
    <3>2. next(n, d) = AddToRows(d, w, h)
      OBVIOUS
    <3> HIDE DEF w, next
    <3>3. /\ Stacked(AddToRows(d, w, h), w, h)
          /\ RowWords(AddToRows(d, w, h)) = RowWords(d) \o <<w>>
          /\ RowWords(d) \in Seq(WordSet)
      BY <2>1, <3>1, StackedGrows
    <3>4. AddToRows(d, w, h) \in Seq(RowSet)
      BY <3>3 DEF Stacked
    <3> QED
      BY <3>2, <3>3, <3>4 DEF w
  <2>2. CASE Stacked(d, wordAt(n - 1), h) /\ n # 1
    <3>1. n - 1 \in 1..N /\ n - 1 < n
      BY <1>1, <2>2
    <3>2. Middle(wordAt(n - 1)) <= Middle(wordAt(n)) /\ wordAt(n) \in WordSet /\ wordAt(n - 1) \in WordSet
      BY <1>2, <1>3, <3>1
    <3>3. h \in Nat
      BY <1>2
    <3> QED
      BY <2>2, <3>2, <3>3, StackedGrows DEF Stacked
  <2> QED
    BY <1>4, <2>1, <2>2
<1> HIDE DEF next
<1>5. \E g : Is(g)
  <2> DEFINE step == [n \in 1..N |-> [d \in U |-> IF Fits(n, d) THEN next(n, d) ELSE d]]
             first == <<>>
  <2> HIDE DEF U, Fits
  <2>1. step \in [1..N -> [U -> U]]
    <3>1. \A n \in 1..N, d \in U : (IF Fits(n, d) THEN next(n, d) ELSE d) \in U
      BY <1>4
    <3> QED
      BY <3>1
  <2>2. \A n \in 1..N, d \in U : step[n][d] = IF Fits(n, d) THEN next(n, d) ELSE d
    OBVIOUS
  <2>3. first \in U
    BY DEF U
  <2> HIDE DEF step, first
  <2>4. Runs(N, U, first, step)
    BY <1>1, <2>1, <2>3, RecursionExists
  <2>5. PICK g \in [0..N -> U] : g[0] = first /\ \A n \in 1..N : g[n] = step[n][g[n - 1]]
    BY <2>4 DEF Runs
  <2> DEFINE ok == {n \in 0..N : n = N \/ Fits(n + 1, g[n])}
  <2>6. ASSUME NEW n \in 1..N, n - 1 \in ok PROVE n \in ok /\ g[n] = next(n, g[n - 1])
    <3>1. n - 1 \in 0..N /\ n - 1 # N /\ (n - 1) + 1 = n /\ (n + 1) - 1 = n /\ n \in 0..N /\ n + 1 # 1
      BY <1>1
    <3>2. Fits(n, g[n - 1]) /\ g[n - 1] \in U
      BY <2>5, <2>6, <3>1
    <3>3. g[n] = next(n, g[n - 1])
      BY <2>2, <2>5, <3>2
    <3>4. Stacked(g[n], wordAt(n), h)
      BY <1>4, <3>2, <3>3
    <3>5. Fits(n + 1, g[n])
      BY <3>1, <3>4 DEF Fits
    <3> QED
      BY <3>1, <3>3, <3>5
  <2>7. 0 \in ok
    <3>1. Fits(0 + 1, g[0]) /\ 0 \in 0..N
      BY <1>1, <2>5 DEF Fits, first
    <3> QED
      BY <3>1
  <2>8. \A n \in 0..N : n \in ok
    <3> HIDE DEF ok
    <3> QED
      BY <1>1, <2>6, <2>7, Reaches
  <2>9. \A n \in 1..N : n - 1 \in 0..N /\ g[n] = next(n, g[n - 1])
    <3> HIDE DEF ok
    <3>1. \A n \in 1..N : n - 1 \in 0..N
      BY <1>1
    <3> QED
      BY <2>6, <2>8, <3>1
  <2>10. \A n \in 0..N : n = 0 \/ n \in 1..N
    BY <1>1
  <2>11. g = [n \in 0..N |-> g[n]]
    BY <2>5
  <2>12. Is(g)
    BY <2>5, <2>9, <2>10, <2>11 DEF first
  <2> QED
    BY <2>12
<1>6. Is(f)
  <2>1. f = CHOOSE g : Is(g)
    BY DEF RowsUpTo, order, h, wordAt, N, next
  <2> HIDE DEF Is, f
  <2> QED
    BY <1>5, <2>1
<1> HIDE DEF f, Fits, U
<1>7. \A n \in 0..N : f[n] = IF n = 0 THEN <<>> ELSE next(n, f[n - 1])
  BY <1>6
<1>8. f[0] = <<>> /\ \A n \in 1..N : f[n] = next(n, f[n - 1])
  <2>1. 0 \in 0..N /\ \A n \in 1..N : n \in 0..N /\ n # 0
    BY <1>1
  <2> QED
    BY <1>7, <2>1
<1> DEFINE ok == {n \in 0..N : f[n] \in U /\ (n = N \/ Fits(n + 1, f[n]))}
<1>9. ASSUME NEW n \in 1..N, n - 1 \in ok
      PROVE  /\ n \in ok /\ Stacked(f[n], wordAt(n), h)
             /\ RowWords(f[n]) = RowWords(f[n - 1]) \o <<wordAt(n)>>
             /\ RowWords(f[n - 1]) \in Seq(WordSet)
  <2>1. n - 1 \in 0..N /\ n - 1 # N /\ (n - 1) + 1 = n /\ (n + 1) - 1 = n /\ n \in 0..N /\ n + 1 # 1
    BY <1>1
  <2>2. Fits(n, f[n - 1]) /\ f[n - 1] \in U
    BY <1>9, <2>1
  <2>3. f[n] = next(n, f[n - 1])
    BY <1>8
  <2>4. /\ f[n] \in U /\ Stacked(f[n], wordAt(n), h)
        /\ RowWords(f[n]) = RowWords(f[n - 1]) \o <<wordAt(n)>>
        /\ RowWords(f[n - 1]) \in Seq(WordSet)
    BY <1>4, <2>2, <2>3
  <2>5. Fits(n + 1, f[n])
    BY <2>1, <2>4 DEF Fits
  <2> QED
    BY <2>1, <2>4, <2>5
<1>10. 0 \in ok
  <2>1. Fits(0 + 1, f[0]) /\ 0 \in 0..N /\ f[0] \in U
    BY <1>1, <1>8 DEF Fits, U
  <2> QED
    BY <2>1
<1>11. \A n \in 0..N : n \in ok
  <2> HIDE DEF ok
  <2> QED
    BY <1>1, <1>9, <1>10, Reaches
<1>12. \A n \in 1..N : /\ n - 1 \in 0..N /\ Stacked(f[n], wordAt(n), h)
                       /\ RowWords(f[n]) = RowWords(f[n - 1]) \o <<wordAt(n)>>
                       /\ RowWords(f[n - 1]) \in Seq(WordSet)
  <2> HIDE DEF ok
  <2>1. \A n \in 1..N : n - 1 \in 0..N
    BY <1>1
  <2> QED
    BY <1>9, <1>11, <2>1
<1>13. \A n \in 0..N : f[n] \in U
  BY <1>11
<1>14. \A n \in 0..N : RowWords(f[n]) \in Seq(WordSet)
  <2> SUFFICES ASSUME NEW n \in 0..N PROVE RowWords(f[n]) \in Seq(WordSet)
    OBVIOUS
  <2>1. CASE n < N
    <3>1. n + 1 \in 1..N /\ (n + 1) - 1 = n
      BY <1>1, <2>1
    <3> QED
      BY <1>12, <3>1
  <2>2. CASE n = N
    <3> DEFINE a == RowWords(f[n - 1])  x == wordAt(n)
    <3>1. n \in 1..N
      BY <1>1, <2>2
    <3>2. RowWords(f[n]) = a \o <<x>> /\ a \in Seq(WordSet) /\ x \in WordSet
      BY <1>3, <1>12, <3>1
    <3> HIDE DEF a, x
    <3>3. a \o <<x>> \in Seq(WordSet)
      BY <3>2
    <3> QED
      BY <3>2, <3>3
  <2> QED
    BY <1>1, <2>1, <2>2
<1>15. \A n \in 1..N : f[n] = AddToRows(f[n - 1], wordAt(n), h)
  BY <1>8 DEF next
<1> QED
  BY <1>8, <1>12, <1>13, <1>14, <1>15 DEF N, order, h, wordAt, f, U

(* The words of the rows are those of the page, from top to bottom.        *)
LEMMA RowsHoldPage ==
  ASSUME NEW ws \in Seq(WordSet), ws # <<>>
  PROVE  RowWords(RowsOfWords(ws)) = [k \in 1..Len(ws) |-> ws[DownThePage(ws)[k]]]
<1> DEFINE N == Len(ws)
           wordAt(n) == ws[DownThePage(ws)[n]]
           f(n) == RowWords(RowsUpTo(ws)[n])
           ok == {n \in 0..N : Len(f(n)) = n /\ \A k \in 1..n : f(n)[k] = wordAt(k)}
<1>1. N \in Nat
  OBVIOUS
<1>2. /\ RowsUpTo(ws)[0] = <<>>
      /\ \A n \in 1..N : f(n) = f(n - 1) \o <<wordAt(n)>>
      /\ \A n \in 0..N : f(n) \in Seq(WordSet)
  BY PageUnfolds
<1>3. f(0) = <<>>
  <2>1. RowWords(<<>>) = <<>>
    <3>1. [r \in DOMAIN <<>> |-> <<>>[r].words] = <<>>
      OBVIOUS
    <3> QED
      BY <3>1, FlatEmpty DEF RowWords
  <2> QED
    BY <1>2, <2>1
<1>w. \A n \in 1..N : wordAt(n) \in WordSet
  <2>1. \A i \in 1..N : ws[i] \in WordSet
    OBVIOUS
  <2>2. DownThePage(ws) \in [1..N -> 1..N]
    BY PageSorted
  <2> HIDE DEF N
  <2> QED
    BY <2>1, <2>2
<1> HIDE DEF N, wordAt, f
<1>4. 0 \in ok
  BY <1>1, <1>3
<1>5. ASSUME NEW n \in 1..N, n - 1 \in ok PROVE n \in ok
  <2> DEFINE a == f(n - 1)  x == wordAt(n)
  <2>1. n - 1 \in 0..N /\ n \in 0..N
    BY <1>1
  <2>2. a \in Seq(WordSet) /\ Len(a) = n - 1 /\ x \in WordSet /\ \A k \in 1..(n - 1) : a[k] = wordAt(k)
    BY <1>2, <1>5, <1>w, <2>1
  <2>3. f(n) = a \o <<x>>
    BY <1>2
  <2> HIDE DEF a, x
  <2>4. /\ Len(a \o <<x>>) = n /\ (a \o <<x>>)[n] = x
        /\ \A k \in 1..(n - 1) : (a \o <<x>>)[k] = a[k]
    BY <2>2
  <2>5. \A k \in 1..n : k = n \/ k \in 1..(n - 1)
    OBVIOUS
  <2> DEFINE c == a \o <<x>>
  <2> HIDE DEF c
  <2>6. Len(c) = n /\ c[n] = wordAt(n) /\ \A k \in 1..(n - 1) : c[k] = wordAt(k)
    BY <2>2, <2>4 DEF c, x
  <2>7. \A k \in 1..n : c[k] = wordAt(k)
    BY <2>5, <2>6
  <2>8. f(n) = c
    BY <2>3 DEF c
  <2> QED
    BY <2>1, <2>6, <2>7, <2>8
<1>6. N \in ok
  <2>1. \A n \in 0..N : n \in ok
    <3> HIDE DEF ok
    <3> QED
      BY <1>1, <1>4, <1>5, Reaches
  <2> QED
    BY <1>1, <2>1
<1>7. f(N) \in Seq(WordSet) /\ Len(f(N)) = N /\ \A k \in 1..N : f(N)[k] = wordAt(k)
  BY <1>1, <1>2, <1>6
<1> DEFINE g == f(N)
<1> HIDE DEF g
<1>8. g \in Seq(WordSet) /\ Len(g) = N /\ \A k \in 1..N : g[k] = wordAt(k)
  BY <1>7 DEF g
<1>9. g = [k \in 1..N |-> g[k]]
  BY <1>8
<1>10. g = [k \in 1..N |-> wordAt(k)]
  BY <1>8, <1>9
<1> QED
  BY <1>10 DEF g, f, N, wordAt, RowsOfWords

(* As many, one by one.                                                    *)
Matches(f, S, T) ==
  /\ f \in [S -> T] /\ \A x, y \in S : f[x] = f[y] => x = y
  /\ \A z \in T : \E x \in S : f[x] = z

LEMMA OneByOne ==
  ASSUME NEW S, NEW T, NEW f, IsFiniteSet(S), Matches(f, S, T)
  PROVE  IsFiniteSet(T) /\ Cardinality(T) = Cardinality(S)
<1>1. f \in Bijection(S, T)
  BY DEF Matches, Bijection, Injection, IsInjective, Surjection
<1>2. ExistsBijection(S, T)
  BY <1>1 DEF ExistsBijection
<1> QED
  BY <1>2, FS_Bijection

(* How often v is in a sequence.                                           *)
Where(s, v) == {k \in DOMAIN s : s[k] = v}
Times(s, v) == Cardinality(Where(s, v))

LEMMA TimesFinite ==
  ASSUME NEW S, NEW s \in Seq(S), NEW v
  PROVE  /\ IsFiniteSet(Where(s, v)) /\ Times(s, v) \in Nat
         /\ DOMAIN s = 1..Len(s) /\ Len(s) \in Nat
<1>1. DOMAIN s = 1..Len(s) /\ Len(s) \in Nat
  OBVIOUS
<1>2. IsFiniteSet(1..Len(s))
  BY <1>1, FS_Interval
<1>3. Where(s, v) \in SUBSET (1..Len(s))
  BY <1>1 DEF Where
<1>4. IsFiniteSet(Where(s, v))
  BY <1>2, <1>3, FS_Subset
<1> QED
  BY <1>1, <1>4, FS_CardinalityType DEF Times

(* A sequence in another order.                                            *)
LEMMA TimesReordered ==
  ASSUME NEW S, NEW s \in Seq(S), NEW order \in [1..Len(s) -> 1..Len(s)],
         \A i \in 1..Len(s) : \E k \in 1..Len(s) : order[k] = i,
         \A k, l \in 1..Len(s) : k < l => order[k] # order[l], NEW v
  PROVE  LET t == [k \in 1..Len(s) |-> s[order[k]]]
         IN t \in Seq(S) /\ Len(t) = Len(s) /\ Times(t, v) = Times(s, v)
<1> DEFINE N == Len(s)
           t == [k \in 1..N |-> s[order[k]]]
           A == Where(t, v)
           B == Where(s, v)
           f == [k \in A |-> order[k]]
<1>1. N \in Nat /\ DOMAIN s = 1..N /\ \A i \in 1..N : s[i] \in S
  OBVIOUS
<1> HIDE DEF N
<1>2. t \in Seq(S) /\ Len(t) = N /\ DOMAIN t = 1..N /\ \A k \in 1..N : t[k] = s[order[k]]
  <2>1. \A k \in 1..N : s[order[k]] \in S
    BY <1>1 DEF N
  <2> QED
    BY <1>1, <2>1
<1> HIDE DEF t
<1>3. IsFiniteSet(A)
  BY <1>2, TimesFinite
<1>4. \A k \in 1..N : (k \in A <=> order[k] \in B) /\ order[k] \in 1..N
  BY <1>1, <1>2 DEF Where, N
<1>5. A \subseteq 1..N /\ B \subseteq 1..N
  BY <1>1, <1>2 DEF Where
<1>6. \A k, l \in 1..N : order[k] = order[l] => k = l
  BY <1>1 DEF N
<1>7. \A i \in 1..N : \E k \in 1..N : order[k] = i
  BY DEF N
<1> HIDE DEF A, B
<1>8. Matches(f, A, B)
  <2>1. \A k \in A : order[k] \in B /\ f[k] = order[k]
    BY <1>4, <1>5
  <2>2. f \in [A -> B]
    BY <2>1
  <2>3. \A x, y \in A : f[x] = f[y] => x = y
    BY <1>5, <1>6, <2>1
  <2>4. ASSUME NEW z \in B PROVE \E x \in A : f[x] = z
    <3>1. PICK k \in 1..N : order[k] = z
      BY <1>5, <1>7
    <3> QED
      BY <1>4, <2>1, <3>1
  <2> HIDE DEF f
  <2> QED
    BY <2>2, <2>3, <2>4 DEF Matches
<1> HIDE DEF f
<1>9. Cardinality(B) = Cardinality(A)
  BY <1>3, <1>8, OneByOne
<1> QED
  BY <1>2, <1>9 DEF Times, A, B, t, N

(* One sequence after another.                                             *)
LEMMA TimesThen ==
  ASSUME NEW S, NEW a \in Seq(S), NEW b \in Seq(S), NEW v
  PROVE  Times(Then(a, b), v) = Times(a, v) + Times(b, v)
<1> DEFINE M == Len(a)
           N == Len(b)
           c == Then(a, b)
           A == Where(a, v)
           B == Where(b, v)
           C == Where(c, v)
           D == {k \in C : k \notin 1..M}
           f == [k \in B |-> k + M]
<1>1. /\ M \in Nat /\ N \in Nat /\ DOMAIN a = 1..M /\ DOMAIN b = 1..N
      /\ DOMAIN c = 1..(M + N) /\ (\A k \in 1..M : c[k] = a[k])
      /\ \A k \in 1..N : c[k + M] = b[k]
  <2>1. \A k \in 1..N : (k + M) - M = k /\ k + M \in 1..(M + N) /\ ~(k + M <= M)
    OBVIOUS
  <2>2. c = a \o b
    BY DEF Then
  <2>3. /\ Len(a \o b) = M + N /\ (a \o b) \in Seq(S)
        /\ \A k \in 1..(M + N) : (a \o b)[k] = IF k <= M THEN a[k] ELSE b[k - M]
    BY ConcatProperties
  <2> HIDE DEF c
  <2>4. \A k \in 1..(M + N) : c[k] = IF k <= M THEN a[k] ELSE b[k - M]
    BY <2>2, <2>3
  <2>5. DOMAIN c = 1..(M + N)
    BY <2>2, <2>3
  <2>6. M \in Nat /\ N \in Nat /\ DOMAIN a = 1..M /\ DOMAIN b = 1..N
    OBVIOUS
  <2>7. \A k \in 1..M : k \in 1..(M + N) /\ k <= M
    BY <2>6
  <2> HIDE DEF M, N
  <2> QED
    BY <2>1, <2>4, <2>5, <2>6, <2>7
<1>2. IsFiniteSet(A) /\ IsFiniteSet(B)
  BY TimesFinite
<1> HIDE DEF c, M, N
<1>3. \A k \in 1..(M + N) : k \in 1..M \/ (k - M \in 1..N /\ (k - M) + M = k /\ k \notin 1..M)
  BY <1>1
<1>4. \A k \in 1..N : k + M \in 1..(M + N) /\ k + M \notin 1..M
  BY <1>1
<1>5. C = A \cup D /\ A \cap D = {}
  <2>1. \A k \in 1..M : k \in 1..(M + N)
    BY <1>1
  <2>2. \A k \in A : k \in 1..M /\ k \in C
    BY <1>1, <2>1 DEF Where
  <2>3. \A k \in C : k \in 1..M => k \in A
    BY <1>1 DEF Where
  <2> QED
    BY <2>2, <2>3
<1>6. Matches(f, B, D)
  <2>1. \A k \in B : k \in 1..N /\ b[k] = v /\ f[k] = k + M
    BY <1>1 DEF Where
  <2>2. \A k \in B : k + M \in D
    BY <1>1, <1>4, <2>1 DEF Where
  <2>3. f \in [B -> D]
    BY <2>2
  <2>4. \A x, y \in B : f[x] = f[y] => x = y
    BY <1>1, <2>1
  <2>5. ASSUME NEW z \in D PROVE \E x \in B : f[x] = z
    <3>1. z \in 1..(M + N) /\ z \notin 1..M /\ c[z] = v
      BY <1>1 DEF Where
    <3>2. z - M \in 1..N /\ (z - M) + M = z
      BY <1>3, <3>1
    <3>3. b[z - M] = v
      BY <1>1, <3>1, <3>2
    <3>4. z - M \in B
      BY <1>1, <3>2, <3>3 DEF Where
    <3> QED
      BY <2>1, <3>2, <3>4
  <2> HIDE DEF f, B, D
  <2> QED
    BY <2>3, <2>4, <2>5 DEF Matches
<1> HIDE DEF f, A, B, C, D
<1>7. IsFiniteSet(D) /\ Cardinality(D) = Cardinality(B)
  BY <1>2, <1>6, OneByOne
<1>8. Cardinality(C) = Cardinality(A) + Cardinality(D) - Cardinality(A \cap D)
  BY <1>2, <1>5, <1>7, FS_Union
<1>9. /\ Cardinality(A \cap D) = 0 /\ Cardinality(A) \in Nat /\ Cardinality(D) \in Nat
  BY <1>2, <1>5, <1>7, FS_EmptySet, FS_CardinalityType
<1>10. Cardinality(C) = Cardinality(A) + Cardinality(B)
  BY <1>7, <1>8, <1>9
<1> QED
  BY <1>10 DEF Times, A, B, C, c

(* Rows of which each has a word as often as the other.                    *)
LEMMA TimesFlat ==
  ASSUME NEW S, NEW a \in Seq(Seq(S)), NEW b \in Seq(Seq(S)), Len(a) = Len(b), NEW v,
         \A r \in 1..Len(a) : Times(a[r], v) = Times(b[r], v)
  PROVE  Times(Flat(a), v) = Times(Flat(b), v)
<1> DEFINE N == Len(a)
           f == FlatUpTo(a)
           g == FlatUpTo(b)
           ok == {n \in 0..N : Times(f[n], v) = Times(g[n], v)}
<1>1. /\ f[0] = <<>> /\ (\A n \in 1..N : f[n] = Then(f[n - 1], a[n]))
      /\ (\A n \in 0..N : f[n] \in Seq(S))
      /\ g[0] = <<>> /\ (\A n \in 1..N : g[n] = Then(g[n - 1], b[n]))
      /\ (\A n \in 0..N : g[n] \in Seq(S))
  <2>1. /\ f[0] = <<>> /\ (\A n \in 1..N : f[n] = Then(f[n - 1], a[n]))
        /\ (\A n \in 0..N : f[n] \in Seq(S))
    BY FlatUnfold
  <2>2. /\ g[0] = <<>> /\ (\A n \in 1..Len(b) : g[n] = Then(g[n - 1], b[n]))
        /\ (\A n \in 0..Len(b) : g[n] \in Seq(S))
    BY FlatUnfold
  <2> HIDE DEF f, g
  <2> QED
    BY <2>1, <2>2
<1>2. N \in Nat /\ \A n \in 1..N : a[n] \in Seq(S) /\ b[n] \in Seq(S) /\ Times(a[n], v) = Times(b[n], v)
  OBVIOUS
<1>3. Flat(a) = f[N] /\ Flat(b) = g[N]
  BY DEF Flat
<1> HIDE DEF N, f, g
<1>4. 0 \in ok
  BY <1>1, <1>2
<1>5. ASSUME NEW n \in 1..N, n - 1 \in ok PROVE n \in ok
  <2>1. n - 1 \in 0..N /\ n \in 0..N
    BY <1>2
  <2>2. f[n - 1] \in Seq(S) /\ g[n - 1] \in Seq(S) /\ a[n] \in Seq(S) /\ b[n] \in Seq(S)
    BY <1>1, <1>2, <2>1
  <2>3. /\ Times(f[n], v) = Times(f[n - 1], v) + Times(a[n], v)
        /\ Times(g[n], v) = Times(g[n - 1], v) + Times(b[n], v)
    <3>1. f[n] = Then(f[n - 1], a[n]) /\ g[n] = Then(g[n - 1], b[n])
      BY <1>1
    <3> QED
      BY <2>2, <3>1, TimesThen
  <2> QED
    BY <1>2, <1>5, <2>1, <2>3
<1>6. \A n \in 0..N : n \in ok
  <2> HIDE DEF ok
  <2> QED
    BY <1>2, <1>4, <1>5, Reaches
<1>7. N \in 0..N
  BY <1>2
<1> QED
  BY <1>3, <1>6, <1>7

(* A row from left to right holds the words of the row.                    *)
LEMMA RowReordered ==
  ASSUME NEW row \in Seq(WordSet), NEW v
  PROVE  LeftToRight(row) \in Seq(WordSet) /\ Times(LeftToRight(row), v) = Times(row, v)
<1> DEFINE n == Len(row)
           keys == [i \in DOMAIN row |-> row[i].box.x0]
           order == SortedBy(keys)
<1>1. n \in Nat /\ DOMAIN row = 1..n /\ \A i \in 1..n : row[i] \in WordSet
  OBVIOUS
<1>2. keys \in [1..n -> Int]
  <2>1. \A i \in 1..n : row[i].box.x0 \in Int
    BY <1>1, WordNumbers
  <2> HIDE DEF n
  <2> QED
    BY <1>1, <2>1
<1> HIDE DEF keys
<1>3. /\ order \in [1..n -> 1..n]
      /\ \A i \in 1..n : \E k \in 1..n : order[k] = i
      /\ \A k, l \in 1..n : k < l => Precedes(keys, order[k], order[l])
  BY <1>1, <1>2, SortIsStable
<1> HIDE DEF order
<1>4. \A k, l \in 1..n : k < l => order[k] # order[l]
  <2> SUFFICES ASSUME NEW k \in 1..n, NEW l \in 1..n, k < l, order[k] = order[l] PROVE FALSE
    OBVIOUS
  <2> DEFINE i == order[k]
  <2>1. Precedes(keys, i, i) /\ i \in 1..n /\ keys[i] \in Int
    BY <1>2, <1>3
  <2> HIDE DEF i
  <2> QED
    BY <2>1 DEF Precedes
<1>5. LeftToRight(row) = [k \in 1..n |-> row[order[k]]]
  BY <1>1 DEF LeftToRight, order, keys
<1> DEFINE t == [k \in 1..n |-> row[order[k]]]
<1>6. t \in Seq(WordSet) /\ Times(t, v) = Times(row, v)
  BY <1>3, <1>4, TimesReordered
<1> QED
  BY <1>5, <1>6

(* The text of a page holds each word of it as often as the page does.     *)
LEMMA EachWordIsRead ==
  ASSUME NEW ws \in Seq(WordSet), NEW v
  PROVE  InReadingOrder(ws) \in Seq(WordSet) /\ Times(InReadingOrder(ws), v) = Times(ws, v)
<1>1. CASE ws = <<>>
  BY <1>1 DEF InReadingOrder
<1>2. CASE ws # <<>>
  <2> DEFINE rows == RowsOfWords(ws)
             N == Len(rows)
             a == [r \in DOMAIN rows |-> rows[r].words]
             b == [r \in DOMAIN rows |-> LeftToRight(rows[r].words)]
             t == [k \in 1..Len(ws) |-> ws[DownThePage(ws)[k]]]
  <2>1. rows \in Seq(RowSet)
    <3>1. Len(ws) \in 0..Len(ws)
      OBVIOUS
    <3> QED
      BY <1>2, <3>1, PageUnfolds DEF RowsOfWords
  <2>2. InReadingOrder(ws) = Flat(b)
    BY <1>2 DEF InReadingOrder
  <2>3. RowWords(rows) = Flat(a) /\ RowWords(rows) = t
    BY <1>2, RowsHoldPage DEF RowWords
  <2>4. Times(t, v) = Times(ws, v)
    <3> DEFINE order == DownThePage(ws)
    <3>1. /\ order \in [1..Len(ws) -> 1..Len(ws)]
          /\ \A i \in 1..Len(ws) : \E k \in 1..Len(ws) : order[k] = i
          /\ \A k, l \in 1..Len(ws) : k < l => order[k] # order[l]
      BY <1>2, PageSorted
    <3> HIDE DEF order
    <3>2. t = [k \in 1..Len(ws) |-> ws[order[k]]]
      BY DEF order
    <3>3. Times([k \in 1..Len(ws) |-> ws[order[k]]], v) = Times(ws, v)
      BY <3>1, TimesReordered
    <3> QED
      BY <3>2, <3>3
  <2> HIDE DEF t, rows
  <2>5. N \in Nat /\ DOMAIN rows = 1..N /\ \A r \in 1..N : rows[r].words \in Seq(WordSet)
    <3>1. N \in Nat /\ DOMAIN rows = 1..N /\ \A r \in 1..N : rows[r] \in RowSet
      BY <2>1
    <3> QED
      BY <3>1 DEF RowSet
  <2>6. \A r \in 1..N : /\ LeftToRight(rows[r].words) \in Seq(WordSet)
                        /\ Times(LeftToRight(rows[r].words), v) = Times(rows[r].words, v)
    BY <2>5, RowReordered
  <2> HIDE DEF N
  <2>7. /\ a \in Seq(Seq(WordSet)) /\ Len(a) = N /\ b \in Seq(Seq(WordSet)) /\ Len(b) = N
        /\ \A r \in 1..N : a[r] = rows[r].words /\ b[r] = LeftToRight(rows[r].words)
    BY <2>5, <2>6
  <2> HIDE DEF a, b
  <2>8. Times(Flat(a), v) = Times(Flat(b), v)
    <3>1. Len(a) = Len(b) /\ \A r \in 1..Len(a) : Times(a[r], v) = Times(b[r], v)
      BY <2>6, <2>7
    <3> QED
      BY <2>7, <3>1, TimesFlat
  <2>9. Flat(b) \in Seq(WordSet)
    BY <2>7, FlatTyped
  <2> QED
    BY <2>2, <2>3, <2>4, <2>8, <2>9
<1> QED
  BY <1>1, <1>2

(* Every word of a label is read once, row by row (reading_order_text).    *)
LEMMA PageIsReadInOrder ==
  ASSUME NEW l \in LabelSet
  PROVE  LET ws == LabelWords(l)
             out == InReadingOrder(ws)
             rows == IF ws = <<>> THEN <<>> ELSE RowsOfWords(ws)
         IN /\ \A v \in ToSet(ws) :
                 Cardinality({i \in DOMAIN ws : ws[i] = v}) =
                   Cardinality({i \in DOMAIN out : out[i] = v})
            /\ \A i, j \in DOMAIN rows : i < j =>
                 \A v \in ToSet(rows[i].words), w \in ToSet(rows[j].words) : Middle(v) < Middle(w)
<1> DEFINE ws == LabelWords(l)
           out == InReadingOrder(ws)
           rows == IF ws = <<>> THEN <<>> ELSE RowsOfWords(ws)
<1>1. ws \in Seq(WordSet)
  BY LabelWordsTyped
<1> HIDE DEF ws
<1>2. \A v : Times(out, v) = Times(ws, v)
  BY <1>1, EachWordIsRead
<1>3. \A v : Cardinality({i \in DOMAIN ws : ws[i] = v}) = Cardinality({i \in DOMAIN out : out[i] = v})
  <2> HIDE DEF out
  <2> QED
    BY <1>2 DEF Times, Where
<1>4. \A i, j \in DOMAIN rows : i < j =>
        \A v \in ToSet(rows[i].words), w \in ToSet(rows[j].words) : Middle(v) < Middle(w)
  <2>1. CASE ws = <<>>
    <3>1. rows = <<>>
      BY <2>1
    <3> HIDE DEF rows
    <3> QED
      BY <3>1
  <2>2. CASE ws # <<>>
    <3> DEFINE n == Len(ws)
               last == ws[DownThePage(ws)[n]]
               all == RowsUpTo(ws)[n]
    <3>1. n \in 1..n
      BY <1>1, <2>2
    <3>2. Stacked(all, last, MedianHeight(ws))
      <4> HIDE DEF n
      <4> QED
        BY <1>1, <2>2, <3>1, PageUnfolds DEF n
    <3>3. rows = all
      BY <2>2 DEF RowsOfWords
    <3> HIDE DEF rows, all, last
    <3> QED
      BY <3>2, <3>3 DEF Stacked, Standing
  <2> QED
    BY <2>1, <2>2
<1> QED
  BY <1>3, <1>4 DEF ws, out, rows

(* What a label says is a text.                                            *)
LEMMA TruthTyped ==
  ASSUME NEW l \in LabelSet
  PROVE  FullText(l) \in PageTexts
<1> DEFINE ws == InReadingOrder(LabelWords(l))
<1>1. ws \in Seq(WordSet)
  BY LabelWordsTyped, EachWordIsRead
<1>2. FullText(l) = [i \in DOMAIN ws |-> ws[i].text]
  BY DEF FullText
<1> HIDE DEF ws
<1>3. Len(ws) \in Nat /\ DOMAIN ws = 1..Len(ws) /\ \A i \in 1..Len(ws) : ws[i] \in WordSet
  BY <1>1
<1>4. \A i \in 1..Len(ws) : ws[i].text \in Seq(Characters)
  BY <1>3 DEF WordSet
<1> QED
  BY <1>2, <1>3, <1>4 DEF PageTexts

(* The pages of a run are labels, at most all of them.                     *)
LEMMA PairedTyped ==
  ASSUME dataset \in Datasets
  PROVE  /\ dataset \in Seq(LabelSet)
         /\ Paired \in Seq(LabelSet) /\ Len(Paired) <= Len(dataset)
<1> DEFINE found == Picked(dataset, {k \in DOMAIN dataset : dataset[k].image})
<1>1. dataset \in Seq(LabelSet)
  <2>1. dataset \in Seq(Labels)
    BY OcrEvalAssumption
  <2>2. \A k \in DOMAIN dataset : dataset[k] \in LabelSet
    <3> SUFFICES ASSUME NEW k \in DOMAIN dataset PROVE dataset[k] \in LabelSet
      OBVIOUS
    <3>1. dataset[k] \in Labels
      BY <2>1
    <3>2. \A i \in DOMAIN dataset[k].polygons : IsFiniteSet(dataset[k].polygons[i].points)
      BY OcrEvalAssumption
    <3> QED
      BY <3>1, <3>2 DEF LabelSet
  <2> QED
    BY <2>1, <2>2
<1>2. found \in Seq(LabelSet) /\ Len(found) <= Len(dataset)
  <2>1. \A k \in DOMAIN dataset : k \in {i \in DOMAIN dataset : dataset[i].image} => dataset[k] \in LabelSet
    BY <1>1
  <2> QED
    BY <1>1, <2>1, PickedTyped
<1>3. Paired = IF EvalLimit = 0 \/ Len(found) <= EvalLimit THEN found ELSE SubSeq(found, 1, EvalLimit)
  BY DEF Paired
<1> HIDE DEF found
<1>4. ASSUME ~(EvalLimit = 0 \/ Len(found) <= EvalLimit)
      PROVE  SubSeq(found, 1, EvalLimit) \in Seq(LabelSet) /\ Len(SubSeq(found, 1, EvalLimit)) <= Len(found)
  <2>1. EvalLimit \in Nat /\ Len(found) \in Nat /\ EvalLimit <= Len(found)
    BY <1>2, <1>4, OcrEvalAssumption
  <2>2. SubSeq(found, 1, EvalLimit) \in Seq(LabelSet)
    BY <1>2, <2>1
  <2>3. Len(SubSeq(found, 1, EvalLimit)) = EvalLimit
    BY <1>2, <2>1
  <2> QED
    BY <2>1, <2>2, <2>3
<1>5. Len(found) \in Nat /\ Len(dataset) \in Nat /\ (Len(SubSeq(found, 1, EvalLimit)) \in Nat \/ EvalLimit = 0 \/ Len(found) <= EvalLimit)
  BY <1>1, <1>2, <1>4
<1> QED
  BY <1>1, <1>2, <1>3, <1>4, <1>5

(* Rates count the edits of two texts.                                     *)
LEMMA RatesTyped ==
  ASSUME NEW S, NEW truth \in Seq(S), NEW text \in Seq(S)
  PROVE  ErrorRate(truth, text) \in [edits : Nat, of : Nat]
<1>1. CASE truth = <<>>
  BY <1>1 DEF ErrorRate
<1>2. CASE truth # <<>>
  <2>1. EditDistance(truth, text) \in Nat /\ Len(truth) \in Nat
    <3>1. EditDistance(truth, text) \in Nat
      BY EditDistanceIsLeast
    <3> QED
      BY <3>1
  <2> QED
    BY <1>2, <2>1 DEF ErrorRate
<1> QED
  BY <1>1, <1>2

(* The members of the sets of a sequence, with their places.               *)
Pairs(sets) == UNION {{k} \X sets[k] : k \in DOMAIN sets}

LEMMA PairsGrow ==
  ASSUME NEW sets, NEW n \in Nat, DOMAIN sets = 1..n, NEW more, DOMAIN more = 1..(n + 1),
         \A k \in 1..n : more[k] = sets[k], IsFiniteSet(Pairs(sets)), IsFiniteSet(more[n + 1])
  PROVE  /\ IsFiniteSet(Pairs(more))
         /\ Cardinality(Pairs(more)) = Cardinality(Pairs(sets)) + Cardinality(more[n + 1])
<1> DEFINE A == Pairs(sets)
           x == more[n + 1]
           B == {n + 1} \X x
           f == [i \in x |-> <<n + 1, i>>]
<1>1. \A k \in 1..(n + 1) : k = n + 1 \/ k \in 1..n
  OBVIOUS
<1>2. \A k \in 1..n : k \in 1..(n + 1) /\ k # n + 1
  OBVIOUS
<1>3. n + 1 \in 1..(n + 1)
  OBVIOUS
<1>4. \A z : z \in A <=> \E k \in 1..n : z \in {k} \X sets[k]
  BY DEF Pairs
<1>5. \A z : z \in Pairs(more) <=> \E k \in 1..(n + 1) : z \in {k} \X more[k]
  BY DEF Pairs
<1> HIDE DEF A
<1>6. Pairs(more) = A \cup B
  <2>1. \A z \in Pairs(more) : z \in A \cup B
    BY <1>1, <1>4, <1>5
  <2>2. \A z \in A \cup B : z \in Pairs(more)
    BY <1>2, <1>3, <1>4, <1>5
  <2> QED
    BY <2>1, <2>2
<1>7. A \cap B = {}
  BY <1>2, <1>4
<1>8. Matches(f, x, B)
  <2>1. f \in [x -> B]
    OBVIOUS
  <2>2. \A i, j \in x : f[i] = f[j] => i = j
    OBVIOUS
  <2>3. \A z \in B : \E i \in x : f[i] = z
    OBVIOUS
  <2> HIDE DEF f, x, B
  <2> QED
    BY <2>1, <2>2, <2>3 DEF Matches
<1>9. IsFiniteSet(B) /\ Cardinality(B) = Cardinality(x)
  <2> HIDE DEF f, B, x
  <2>1. IsFiniteSet(x)
    BY DEF x
  <2> QED
    BY <1>8, <2>1, OneByOne
<1>10. IsFiniteSet(A)
  BY DEF A
<1> HIDE DEF B, x
<1>11. /\ IsFiniteSet(A \cup B)
       /\ Cardinality(A \cup B) = Cardinality(A) + Cardinality(B) - Cardinality(A \cap B)
  BY <1>9, <1>10, FS_Union
<1>12. Cardinality(A) \in Nat /\ Cardinality(B) \in Nat /\ Cardinality(A \cap B) = 0
  BY <1>7, <1>9, <1>10, FS_CardinalityType, FS_EmptySet
<1> QED
  BY <1>6, <1>9, <1>11, <1>12 DEF A, x

-----------------------------------------------------------------------------
(* The values of each page, and those that are on it.                      *)
Valued(given) ==
  [k \in DOMAIN given |-> {i \in DOMAIN given[k] : given[k][i].value # <<>>}]
ValuesFound(given, pages) ==
  [k \in DOMAIN given |->
     {i \in DOMAIN given[k] : /\ given[k][i].value # <<>>
                              /\ InText(given[k][i].value, FullText(pages[k]))}]

Rates == [edits : Nat, of : Nat]

(* The inductive invariant: main() is at the page after those it has       *)
(* measured, and has counted the values of just these.                     *)
EvalTyped ==
  /\ dataset \in Datasets
  /\ evaluation \in
       [pc : {"start", "refused", "read", "extract", "raised", "measured", "logged", "printed"},
        page : Nat, read : PageTexts, cers : Seq(Rates), wers : Seq(Rates),
        faithful : Nat, values : Nat, grounded : Nat, boxes : Nat, given : Seq(FieldLists)]

EvalPlaced ==
  /\ evaluation.page = Len(evaluation.given) + 1
  /\ evaluation.page <= Len(Paired) + 1
  /\ evaluation.pc = "start" => evaluation.given = <<>>
  /\ evaluation.pc \in {"read", "extract"} => evaluation.page <= Len(Paired)
  /\ evaluation.pc \in {"measured", "logged", "printed"} =>
       Len(evaluation.given) = Len(Paired)

EvalCounted(e, pages) ==
  /\ IsFiniteSet(Pairs(Valued(e.given))) /\ IsFiniteSet(Pairs(ValuesFound(e.given, pages)))
  /\ e.values = Cardinality(Pairs(Valued(e.given)))
  /\ e.faithful = Cardinality(Pairs(ValuesFound(e.given, pages)))
  /\ e.faithful <= e.values /\ e.grounded <= e.boxes

EvalInv == EvalTyped /\ EvalPlaced /\ EvalCounted(evaluation, Paired)

(* What a page more adds to the counts.                                    *)
CountsOneMore(given, answer, pages) ==
  LET more == Append(given, answer)
      truth == FullText(pages[Len(given) + 1])
      values == {i \in DOMAIN answer : answer[i].value # <<>>}
      found == {i \in values : InText(answer[i].value, truth)}
      boxes == {i \in DOMAIN answer : answer[i].boxed}
  IN /\ IsFiniteSet(Pairs(Valued(more))) /\ IsFiniteSet(Pairs(ValuesFound(more, pages)))
     /\ Cardinality(Pairs(Valued(more))) =
          Cardinality(Pairs(Valued(given))) + Cardinality(values)
     /\ Cardinality(Pairs(ValuesFound(more, pages))) =
          Cardinality(Pairs(ValuesFound(given, pages))) + Cardinality(found)
     /\ Cardinality(found) <= Cardinality(values)
     /\ Cardinality(values) \in Nat /\ Cardinality(found) \in Nat
     /\ IsFiniteSet(boxes) /\ Cardinality(boxes) \in Nat

(* A page more is counted with those before it.                            *)
LEMMA CountedGrows ==
  ASSUME NEW given \in Seq(FieldLists), NEW answer \in FieldLists, NEW pages,
         IsFiniteSet(Pairs(Valued(given))), IsFiniteSet(Pairs(ValuesFound(given, pages)))
  PROVE  CountsOneMore(given, answer, pages)
<1> DEFINE n == Len(given)
           more == Append(given, answer)
           truth == FullText(pages[n + 1])
           values == {i \in DOMAIN answer : answer[i].value # <<>>}
           found == {i \in values : InText(answer[i].value, truth)}
           boxes == {i \in DOMAIN answer : answer[i].boxed}
           va == Valued(given)
           vb == Valued(more)
           fa == ValuesFound(given, pages)
           fb == ValuesFound(more, pages)
<1>1. n \in Nat /\ DOMAIN given = 1..n
  OBVIOUS
<1>2. DOMAIN more = 1..(n + 1) /\ more[n + 1] = answer /\ \A k \in 1..n : more[k] = given[k]
  BY OneMore
<1>3. IsFiniteSet(DOMAIN answer)
  <2>1. \E S : FieldLists \subseteq Seq(S)
    BY OcrEvalAssumption
  <2>2. Len(answer) \in Nat /\ DOMAIN answer = 1..Len(answer)
    BY <2>1
  <2> QED
    BY <2>2, FS_Interval
<1>4. values \in SUBSET (DOMAIN answer) /\ boxes \in SUBSET (DOMAIN answer) /\ found \in SUBSET values
  OBVIOUS
<1> HIDE DEF more, n
<1>5. DOMAIN va = 1..n /\ DOMAIN vb = 1..(n + 1) /\ DOMAIN fa = 1..n /\ DOMAIN fb = 1..(n + 1)
  BY <1>1, <1>2 DEF Valued, ValuesFound
<1>6. \A k \in 1..n : k \in 1..(n + 1)
  BY <1>1
<1>7. n + 1 \in 1..(n + 1)
  BY <1>1
<1>8. vb[n + 1] = values
  BY <1>2, <1>7 DEF Valued
<1>9. fb[n + 1] = found
  <2>1. fb[n + 1] = {i \in DOMAIN answer : /\ answer[i].value # <<>>
                                           /\ InText(answer[i].value, truth)}
    <3> HIDE DEF truth
    <3>1. fb[n + 1] = {i \in DOMAIN more[n + 1] :
                        /\ more[n + 1][i].value # <<>>
                        /\ InText(more[n + 1][i].value, FullText(pages[n + 1]))}
      BY <1>2, <1>7 DEF ValuesFound
    <3> QED
      BY <1>2, <3>1 DEF truth
  <2> HIDE DEF truth, fb
  <2> QED
    BY <2>1
<1>10. \A k \in 1..n : vb[k] = va[k]
  BY <1>1, <1>2, <1>6 DEF Valued
<1>11. \A k \in 1..n : fb[k] = fa[k]
  BY <1>1, <1>2, <1>6 DEF ValuesFound
<1> HIDE DEF values, found, boxes, va, vb, fa, fb
<1>12. IsFiniteSet(values) /\ IsFiniteSet(found) /\ IsFiniteSet(boxes)
       /\ Cardinality(found) <= Cardinality(values)
  BY <1>3, <1>4, FS_Subset
<1>13. Cardinality(values) \in Nat /\ Cardinality(found) \in Nat /\ Cardinality(boxes) \in Nat
  BY <1>12, FS_CardinalityType
<1>14. IsFiniteSet(Pairs(va)) /\ IsFiniteSet(Pairs(fa))
  BY DEF va, fa
<1>15. /\ IsFiniteSet(Pairs(vb))
       /\ Cardinality(Pairs(vb)) = Cardinality(Pairs(va)) + Cardinality(values)
  BY <1>1, <1>5, <1>8, <1>10, <1>12, <1>14, PairsGrow
<1>16. /\ IsFiniteSet(Pairs(fb))
       /\ Cardinality(Pairs(fb)) = Cardinality(Pairs(fa)) + Cardinality(found)
  BY <1>1, <1>5, <1>9, <1>11, <1>12, <1>14, PairsGrow
<1> QED
  BY <1>12, <1>13, <1>15, <1>16
     DEF CountsOneMore, va, vb, fa, fb, values, found, boxes, more, n, truth

(* A run starts with nothing read or counted.                              *)
LEMMA EvalStarted == EvalInit => EvalInv
<1> SUFFICES ASSUME EvalInit PROVE EvalInv
  OBVIOUS
<1>1. dataset \in Datasets /\ evaluation = NoEvaluation
  BY DEF EvalInit
<1>2. EvalTyped
  BY <1>1 DEF EvalTyped, NoEvaluation, PageTexts
<1>3. Paired \in Seq(LabelSet)
  BY <1>1, PairedTyped
<1>4. Len(Paired) \in Nat
  BY <1>3
<1>5. EvalPlaced
  <2>1. evaluation.page = 1 /\ evaluation.given = <<>> /\ evaluation.pc = "start"
    BY <1>1 DEF NoEvaluation
  <2> QED
    BY <1>4, <2>1 DEF EvalPlaced
<1>6. EvalCounted(evaluation, Paired)
  <2>1. /\ evaluation.given = <<>> /\ evaluation.values = 0 /\ evaluation.faithful = 0
        /\ evaluation.grounded = 0 /\ evaluation.boxes = 0
    BY <1>1 DEF NoEvaluation
  <2>2. Pairs(Valued(<<>>)) = {} /\ Pairs(ValuesFound(<<>>, Paired)) = {}
    BY DEF Pairs, Valued, ValuesFound
  <2>3. Pairs(Valued(evaluation.given)) = {} /\ Pairs(ValuesFound(evaluation.given, Paired)) = {}
    BY <2>1, <2>2
  <2>4. IsFiniteSet({}) /\ Cardinality({}) = 0
    BY FS_EmptySet
  <2>5. /\ IsFiniteSet(Pairs(Valued(evaluation.given)))
        /\ IsFiniteSet(Pairs(ValuesFound(evaluation.given, Paired)))
        /\ Cardinality(Pairs(Valued(evaluation.given))) = 0
        /\ Cardinality(Pairs(ValuesFound(evaluation.given, Paired))) = 0
    BY <2>3, <2>4, Zenon
  <2>6. 0 <= 0
    OBVIOUS
  <2>7. evaluation.faithful <= evaluation.values /\ evaluation.grounded <= evaluation.boxes
    BY <2>1, <2>6
  <2> QED
    BY <2>1, <2>5, <2>7, Zenon DEF EvalCounted
<1> QED
  BY <1>2, <1>5, <1>6 DEF EvalInv

(* Every step of a run keeps the invariant.                                *)
LEMMA EvalKept == EvalInv /\ [EvalNext]_evalVars => EvalInv'
<1> SUFFICES ASSUME EvalInv, [EvalNext]_evalVars PROVE EvalInv'
  OBVIOUS
<1> DEFINE e == evaluation
           n == Len(Paired)
<1>1. EvalTyped /\ EvalPlaced /\ EvalCounted(e, Paired)
  BY DEF EvalInv
<1>2. Paired \in Seq(LabelSet) /\ n \in Nat
  <2>1. dataset \in Datasets
    BY <1>1 DEF EvalTyped
  <2>2. Paired \in Seq(LabelSet)
    BY <2>1, PairedTyped
  <2> QED
    BY <2>2
<1>3. dataset' = dataset
  BY DEF EvalNext, evalVars, EvalStarts, ReadsPage, ExtractsPage, LogsEvaluation
<1>4. Paired' = Paired
  BY <1>3 DEF Paired
<1>p. \A v : evaluation' = [e EXCEPT !.pc = v] =>
        /\ e'.pc = v /\ e'.page = e.page /\ e'.given = e.given /\ e'.read = e.read
        /\ e'.values = e.values /\ e'.faithful = e.faithful
        /\ e'.grounded = e.grounded /\ e'.boxes = e.boxes
        /\ (v \in {"refused", "read", "raised", "logged", "printed"} => EvalTyped')
  BY <1>1, <1>3 DEF EvalTyped
<1>5. ASSUME NEW v \in {"refused", "read", "raised", "logged", "printed"},
             e' = [e EXCEPT !.pc = v],
             v = "read" => e.page <= n,
             v \in {"logged", "printed"} => Len(e.given) = n
      PROVE  EvalInv'
  <2>1. /\ e'.pc = v /\ e'.page = e.page /\ e'.given = e.given
        /\ e'.values = e.values /\ e'.faithful = e.faithful
        /\ e'.grounded = e.grounded /\ e'.boxes = e.boxes
        /\ EvalTyped'
    BY <1>5, <1>p
  <2>2. EvalPlaced'
    <3>1. e.page = Len(e.given) + 1 /\ e.page <= n + 1
      BY <1>1 DEF EvalPlaced
    <3> QED
      BY <1>4, <1>5, <2>1, <3>1 DEF EvalPlaced
  <2>3. EvalCounted(evaluation', Paired')
    BY <1>1, <1>4, <2>1 DEF EvalCounted
  <2> QED
    BY <2>1, <2>2, <2>3 DEF EvalInv
<1>6. CASE EvalStarts
  <2>1. /\ e.pc = "start"
        /\ e' = [e EXCEPT !.pc = "refused"] \/ (n # 0 /\ e' = [e EXCEPT !.pc = "read"])
    BY <1>2, <1>6 DEF EvalStarts
  <2>2. e.page <= n \/ n = 0
    <3>1. e.page = 1
      BY <1>1, <2>1 DEF EvalPlaced
    <3> QED
      BY <1>2, <3>1
  <2> HIDE DEF n, e
  <2> QED
    BY <1>5, <2>1, <2>2
<1>7. CASE ReadsPage
  <2>1. CASE e' = [e EXCEPT !.pc = "raised"]
    BY <1>5, <2>1
  <2>2. CASE \E text \in Readings : e' = [e EXCEPT !.pc = "extract", !.read = text]
    <3>1. PICK text \in Readings : e' = [e EXCEPT !.pc = "extract", !.read = text]
      BY <2>2
    <3>2. text \in PageTexts
      BY OcrEvalAssumption
    <3>3. /\ e'.pc = "extract" /\ e'.page = e.page /\ e'.given = e.given
          /\ e'.values = e.values /\ e'.faithful = e.faithful
          /\ e'.grounded = e.grounded /\ e'.boxes = e.boxes
          /\ EvalTyped'
      BY <1>1, <1>3, <3>1, <3>2 DEF EvalTyped
    <3>4. EvalPlaced'
      <4>1. /\ e.pc = "read" /\ e.page = Len(e.given) + 1 /\ e.page <= n + 1 /\ e.page <= n
        BY <1>1, <1>7 DEF EvalPlaced, ReadsPage
      <4> QED
        BY <1>4, <3>3, <4>1 DEF EvalPlaced
    <3>5. EvalCounted(evaluation', Paired')
      BY <1>1, <1>4, <3>3 DEF EvalCounted
    <3> QED
      BY <3>3, <3>4, <3>5 DEF EvalInv
  <2> QED
    BY <1>7, <2>1, <2>2 DEF ReadsPage
<1>8. CASE ExtractsPage
  <2>1. CASE e' = [e EXCEPT !.pc = "raised"]
    BY <1>5, <2>1
  <2> DEFINE given == e.given
             l == Paired[e.page]
             truth == FullText(l)
             values(answer) == {i \in DOMAIN answer : answer[i].value # <<>>}
             found(answer) == {i \in values(answer) : InText(answer[i].value, truth)}
             boxes(answer) == {i \in DOMAIN answer : answer[i].boxed}
             inside(answer) == {i \in boxes(answer) : IsGrounded(answer[i].box, l)}
             char == ErrorRate(Flat(truth), Flat(e.read))
             word == ErrorRate(truth, e.read)
             pc == IF e.page = n THEN "measured" ELSE "read"
  <2>2. CASE e' # [e EXCEPT !.pc = "raised"]
    <3>1. PICK answer \in FieldLists :
            e' = [e EXCEPT !.pc = pc, !.page = @ + 1, !.given = Append(@, answer),
                    !.cers = Append(@, char), !.wers = Append(@, word),
                    !.faithful = @ + Cardinality(found(answer)),
                    !.values = @ + Cardinality(values(answer)),
                    !.grounded = @ + Cardinality(inside(answer)),
                    !.boxes = @ + Cardinality(boxes(answer))]
      BY <1>8, <2>2 DEF ExtractsPage
    <3>2. /\ e.pc = "extract" /\ e.page = Len(given) + 1 /\ e.page <= n
          /\ given \in Seq(FieldLists) /\ Len(given) \in Nat
      <4>1. given \in Seq(FieldLists)
        BY <1>1 DEF EvalTyped
      <4>2. e.pc = "extract" /\ e.page = Len(given) + 1 /\ e.page <= n
        BY <1>1, <1>8 DEF EvalPlaced, ExtractsPage
      <4> HIDE DEF given
      <4>3. Len(given) \in Nat
        BY <4>1
      <4> QED
        BY <4>1, <4>2, <4>3
    <3>3. l \in LabelSet
      BY <1>2, <3>2
    <3> HIDE DEF l
    <3>4. truth \in PageTexts /\ e.read \in PageTexts
      BY <1>1, <3>3, TruthTyped DEF EvalTyped
    <3>5. char \in Rates /\ word \in Rates
      <4>1. Flat(truth) \in Seq(Characters) /\ Flat(e.read) \in Seq(Characters)
        BY <3>4, FlatTyped DEF PageTexts
      <4> HIDE DEF truth
      <4>2. char \in Rates
        BY <4>1, RatesTyped DEF Rates
      <4>3. word \in Rates
        BY <3>4, RatesTyped DEF Rates, PageTexts
      <4> QED
        BY <4>2, <4>3
    <3> DEFINE V == values(answer)
               F == found(answer)
               B == boxes(answer)
               G == inside(answer)
               more == Append(given, answer)
    <3>6. /\ IsFiniteSet(Pairs(Valued(more))) /\ IsFiniteSet(Pairs(ValuesFound(more, Paired)))
          /\ Cardinality(Pairs(Valued(more))) = e.values + Cardinality(V)
          /\ Cardinality(Pairs(ValuesFound(more, Paired))) = e.faithful + Cardinality(F)
          /\ Cardinality(F) <= Cardinality(V)
          /\ Cardinality(V) \in Nat /\ Cardinality(F) \in Nat
          /\ IsFiniteSet(B) /\ Cardinality(B) \in Nat
      <4>1. /\ IsFiniteSet(Pairs(Valued(given))) /\ IsFiniteSet(Pairs(ValuesFound(given, Paired)))
            /\ e.values = Cardinality(Pairs(Valued(given)))
            /\ e.faithful = Cardinality(Pairs(ValuesFound(given, Paired)))
        BY <1>1 DEF EvalCounted
      <4> DEFINE here == {i \in values(answer) :
                            InText(answer[i].value, FullText(Paired[Len(given) + 1]))}
      <4>2. F = here
        BY <3>2 DEF l
      <4> HIDE DEF F, given
      <4>3. /\ IsFiniteSet(Pairs(Valued(more))) /\ IsFiniteSet(Pairs(ValuesFound(more, Paired)))
            /\ Cardinality(Pairs(Valued(more))) =
                 Cardinality(Pairs(Valued(given))) + Cardinality(V)
            /\ Cardinality(Pairs(ValuesFound(more, Paired))) =
                 Cardinality(Pairs(ValuesFound(given, Paired))) + Cardinality(here)
            /\ Cardinality(here) <= Cardinality(V)
            /\ Cardinality(V) \in Nat /\ Cardinality(here) \in Nat
            /\ IsFiniteSet(B) /\ Cardinality(B) \in Nat
        <5>1. CountsOneMore(given, answer, Paired)
          BY <3>2, <4>1, CountedGrows
        <5> QED
          BY <5>1 DEF CountsOneMore
      <4> HIDE DEF here, V, B, more
      <4> QED
        BY <4>1, <4>2, <4>3
    <3>7. Cardinality(G) \in Nat /\ Cardinality(G) <= Cardinality(B)
      <4>1. G \in SUBSET B
        OBVIOUS
      <4> HIDE DEF G, B
      <4> QED
        BY <3>6, <4>1, FS_Subset, FS_CardinalityType
    <3> HIDE DEF values, found, boxes, inside, V, F, B, G, char, word, truth
    <3>8. /\ e'.pc = pc /\ e'.page = e.page + 1 /\ e'.given = more
          /\ e'.values = e.values + Cardinality(V) /\ e'.faithful = e.faithful + Cardinality(F)
          /\ e'.grounded = e.grounded + Cardinality(G) /\ e'.boxes = e.boxes + Cardinality(B)
      BY <1>1, <3>1 DEF EvalTyped, V, F, G, B
    <3>9. /\ more \in Seq(FieldLists) /\ Len(more) = Len(given) + 1
          /\ Append(e.cers, char) \in Seq(Rates) /\ Append(e.wers, word) \in Seq(Rates)
      BY <1>1, <3>2, <3>5 DEF EvalTyped
    <3>10. EvalTyped'
      <4> DEFINE a == e.faithful + Cardinality(F)
                 b == e.values + Cardinality(V)
                 c == e.grounded + Cardinality(G)
                 d == e.boxes + Cardinality(B)
                 cs == Append(e.cers, char)
                 ws == Append(e.wers, word)
      <4>1. a \in Nat /\ b \in Nat /\ c \in Nat /\ d \in Nat /\ e.page + 1 \in Nat
        <5>1. /\ e.faithful \in Nat /\ e.values \in Nat /\ e.grounded \in Nat /\ e.boxes \in Nat
              /\ e.page \in Nat
          BY <1>1 DEF EvalTyped
        <5> HIDE DEF e
        <5> QED
          BY <3>6, <3>7, <5>1
      <4>2. pc \in {"measured", "read"} /\ cs \in Seq(Rates) /\ ws \in Seq(Rates)
        BY <3>9
      <4>3. e' = [e EXCEPT !.pc = pc, !.page = e.page + 1, !.given = more, !.cers = cs,
                    !.wers = ws, !.faithful = a, !.values = b, !.grounded = c, !.boxes = d]
        BY <3>1 DEF F, V, G, B
      <4> HIDE DEF a, b, c, d, cs, ws, pc, more
      <4> QED
        BY <1>1, <1>3, <3>9, <4>1, <4>2, <4>3 DEF EvalTyped
    <3>11. EvalPlaced'
      BY <1>2, <1>4, <3>2, <3>8, <3>9 DEF EvalPlaced
    <3>12. EvalCounted(evaluation', Paired')
      <4>1. /\ e.faithful <= e.values /\ e.grounded <= e.boxes
            /\ e.faithful \in Nat /\ e.values \in Nat /\ e.grounded \in Nat /\ e.boxes \in Nat
        BY <1>1 DEF EvalCounted, EvalTyped
      <4> HIDE DEF more
      <4>2. /\ e.faithful + Cardinality(F) <= e.values + Cardinality(V)
            /\ e.grounded + Cardinality(G) <= e.boxes + Cardinality(B)
        BY <3>6, <3>7, <4>1
      <4>3. /\ e'.faithful <= e'.values /\ e'.grounded <= e'.boxes
            /\ e'.values = Cardinality(Pairs(Valued(more)))
            /\ e'.faithful = Cardinality(Pairs(ValuesFound(more, Paired)))
        BY <3>6, <3>8, <4>2, Zenon
      <4> QED
        BY <1>4, <3>6, <3>8, <4>3, Zenon DEF EvalCounted
    <3> QED
      BY <3>10, <3>11, <3>12 DEF EvalInv
  <2> QED
    BY <2>1, <2>2
<1>9. CASE LogsEvaluation
  <2>1. /\ e.pc = "measured"
        /\ e' = [e EXCEPT !.pc = "logged"] \/ e' = [e EXCEPT !.pc = "printed"]
    BY <1>9 DEF LogsEvaluation
  <2>2. Len(e.given) = n
    BY <1>1, <2>1 DEF EvalPlaced
  <2> HIDE DEF n, e
  <2> QED
    BY <1>5, <2>1, <2>2
<1>10. CASE UNCHANGED evalVars
  <2>1. evaluation' = evaluation
    BY <1>10 DEF evalVars
  <2> QED
    BY <1>1, <1>3, <1>4, <2>1 DEF EvalInv, EvalTyped, EvalPlaced, EvalCounted
<1> QED
  BY <1>6, <1>7, <1>8, <1>9, <1>10 DEF EvalNext

-----------------------------------------------------------------------------
(* While labelled pages are read and measured, the page is one of those    *)
(* that there are, and no count is more than what it is a part of.         *)
THEOREM EvalInvariant == EvalSpec => [](EvalInv /\ EvalTypeOK)
<1>1. EvalInv => EvalTypeOK
  <2> SUFFICES ASSUME EvalInv PROVE EvalTypeOK
    OBVIOUS
  <2>1. EvalTyped /\ EvalPlaced /\ EvalCounted(evaluation, Paired)
    BY DEF EvalInv
  <2>2. Len(Paired) \in Nat /\ Len(dataset) \in Nat /\ Len(Paired) <= Len(dataset)
    <3>1. dataset \in Datasets
      BY <2>1 DEF EvalTyped
    <3>2. dataset \in Seq(LabelSet) /\ Paired \in Seq(LabelSet) /\ Len(Paired) <= Len(dataset)
      BY <3>1, PairedTyped
    <3> QED
      BY <3>2
  <2>3. /\ evaluation.page \in Nat /\ Len(evaluation.given) \in Nat
        /\ evaluation.faithful \in Nat /\ evaluation.values \in Nat
        /\ evaluation.grounded \in Nat /\ evaluation.boxes \in Nat
    BY <2>1 DEF EvalTyped
  <2>4. evaluation.page \in 1..(Len(dataset) + 1)
    BY <2>1, <2>2, <2>3 DEF EvalPlaced
  <2>5. evaluation.faithful \in 0..evaluation.values /\ evaluation.grounded \in 0..evaluation.boxes
    BY <2>1, <2>3 DEF EvalCounted
  <2>6. \A i \in DOMAIN evaluation.cers : evaluation.cers[i].edits \in Nat
    <3>1. evaluation.cers \in Seq(Rates)
      BY <2>1 DEF EvalTyped
    <3>2. \A i \in DOMAIN evaluation.cers : evaluation.cers[i] \in Rates
      BY <3>1
    <3> QED
      BY <3>2 DEF Rates
  <2> QED
    BY <2>4, <2>5, <2>6 DEF EvalTypeOK
<1> QED
  BY <1>1, EvalStarted, EvalKept, PTL DEF EvalSpec

(* What a page is compared with, and what was read, are texts.             *)
LEMMA ReadTyped ==
  ASSUME EvalInv, evaluation.pc = "extract"
  PROVE  FullText(Paired[evaluation.page]) \in PageTexts /\ evaluation.read \in PageTexts
<1>1. EvalTyped /\ EvalPlaced
  BY DEF EvalInv
<1>2. Paired \in Seq(LabelSet)
  <2>1. dataset \in Datasets
    BY <1>1 DEF EvalTyped
  <2> QED
    BY <2>1, PairedTyped
<1>3. /\ evaluation.page = Len(evaluation.given) + 1 /\ evaluation.page <= Len(Paired)
      /\ Len(evaluation.given) \in Nat
  BY <1>1 DEF EvalPlaced, EvalTyped
<1>4. evaluation.page \in 1..Len(Paired)
  BY <1>2, <1>3
<1>5. Paired[evaluation.page] \in LabelSet
  BY <1>2, <1>4
<1> QED
  BY <1>1, <1>5, TruthTyped DEF EvalTyped

(* An evaluation measures what it says: the distance of what was read from *)
(* what the label says is the least number of edits, whatever the texts;   *)
(* the label is read word by word and row by row; and the rates count      *)
(* every value once, on the page it was extracted from (ocr_eval.py,       *)
(* eval_ocr.py).                                                           *)
THEOREM EvaluationsAreRight == EvalSpec => []EvaluationIsRight
<1>1. EvalInv => DistanceIsLeast
  <2> SUFFICES ASSUME EvalInv, evaluation.pc = "extract" PROVE DistanceIsLeast
    BY DEF DistanceIsLeast
  <2> DEFINE truth == FullText(Paired[evaluation.page])
             text == evaluation.read
  <2>1. truth \in Seq(Seq(Characters)) /\ text \in Seq(Seq(Characters))
    BY ReadTyped DEF PageTexts
  <2> HIDE DEF truth, text
  <2>2. EditDistance(truth, text) = Min({Edits(truth, text, q) : q \in Pairings(truth, text)})
    BY <2>1, EditDistanceIsLeast
  <2> QED
    BY <2>2 DEF DistanceIsLeast, truth, text
<1>2. EvalInv => ReadInOrder
  <2> SUFFICES ASSUME EvalInv PROVE ReadInOrder
    OBVIOUS
  <2>1. dataset \in Seq(LabelSet)
    <3>1. dataset \in Datasets
      BY DEF EvalInv, EvalTyped
    <3> QED
      BY <3>1, PairedTyped
  <2>2. \A k \in DOMAIN dataset : dataset[k] \in LabelSet
    BY <2>1
  <2> QED
    BY <2>2, PageIsReadInOrder DEF ReadInOrder
<1>3. EvalInv => CountsEveryValue
  <2> SUFFICES ASSUME EvalInv, evaluation.pc \in {"measured", "logged", "printed"}
               PROVE  CountsEveryValue
    BY DEF CountsEveryValue
  <2> DEFINE given == evaluation.given
             valued == [k \in DOMAIN given |-> {i \in DOMAIN given[k] : given[k][i].value # <<>>}]
             all == UNION {{k} \X valued[k] : k \in DOMAIN valued}
             right == {x \in all : InText(given[x[1]][x[2]].value, FullText(Paired[x[1]]))}
             found == ValuesFound(given, Paired)
  <2>1. Len(given) = Len(Paired)
    BY DEF EvalInv, EvalPlaced
  <2>2. evaluation.values = Cardinality(Pairs(Valued(given)))
        /\ evaluation.faithful = Cardinality(Pairs(found))
    BY DEF EvalInv, EvalCounted
  <2> HIDE DEF given
  <2>3. valued = Valued(given) /\ all = Pairs(valued)
    BY DEF Valued, Pairs
  <2>4. /\ DOMAIN valued = DOMAIN given /\ DOMAIN found = DOMAIN given
        /\ \A k \in DOMAIN given :
             found[k] = {i \in valued[k] : InText(given[k][i].value, FullText(Paired[k]))}
    BY DEF ValuesFound
  <2>5. \A x : x \in all <=> \E k \in DOMAIN given : x \in {k} \X valued[k]
    BY <2>4
  <2>6. \A x : x \in Pairs(found) <=> \E k \in DOMAIN given : x \in {k} \X found[k]
    BY <2>4 DEF Pairs
  <2> HIDE DEF valued, all, found
  <2>7. \A x : x \in Pairs(found) <=> x \in right
    <3> SUFFICES ASSUME NEW x PROVE x \in Pairs(found) <=> x \in right
      OBVIOUS
    <3>1. ASSUME x \in Pairs(found) PROVE x \in right
      <4>1. PICK k \in DOMAIN given : x \in {k} \X found[k]
        BY <2>6, <3>1
      <4>2. x[1] = k /\ x[2] \in found[k] /\ x = <<x[1], x[2]>>
        BY <4>1
      <4>3. x[2] \in valued[k] /\ InText(given[k][x[2]].value, FullText(Paired[k]))
        BY <2>4, <4>2
      <4>4. x \in all
        BY <2>5, <4>2, <4>3
      <4> QED
        BY <4>2, <4>3, <4>4
    <3>2. ASSUME x \in right PROVE x \in Pairs(found)
      <4>1. x \in all /\ InText(given[x[1]][x[2]].value, FullText(Paired[x[1]]))
        BY <3>2
      <4>2. PICK k \in DOMAIN given : x \in {k} \X valued[k]
        BY <2>5, <4>1
      <4>3. x[1] = k /\ x[2] \in valued[k] /\ x = <<x[1], x[2]>>
        BY <4>2
      <4>4. x[2] \in found[k]
        BY <2>4, <4>1, <4>3
      <4> QED
        BY <2>6, <4>3, <4>4
    <3> QED
      BY <3>1, <3>2
  <2>8. Pairs(found) = right
    <3> HIDE DEF right
    <3> QED
      BY <2>7
  <2> QED
    BY <2>1, <2>2, <2>3, <2>8 DEF CountsEveryValue, given, valued, all, right
<1> QED
  BY <1>1, <1>2, <1>3, EvalInvariant, PTL DEF EvaluationIsRight

-----------------------------------------------------------------------------
(* The components next to each other.                                      *)

LEMMA OneComponentMoves ==
  ASSUME [Next]_vars
  PROVE  /\ [ExecutorNext]_executorVars /\ [TempNext]_tempVars /\ [DiffNext]_diffVars
         /\ [MarksNext]_marksVars /\ [SectionsNext]_sectionVars
         /\ [ExtractionNext]_extractionVars /\ [ParsersNext]_parserVars /\ [LlmNext]_llmVars
         /\ [RerankNext]_rerankVars /\ [CompositionNext]_compositionVars /\ [EvalNext]_evalVars
<1>1. CASE ExecutorStep
  BY <1>1 DEF ExecutorStep
<1>2. CASE TempStep
  BY <1>2 DEF TempStep
<1>3. CASE DiffStep
  BY <1>3 DEF DiffStep
<1>4. CASE MarksStep
  BY <1>4 DEF MarksStep
<1>5. CASE SectionsStep
  BY <1>5 DEF SectionsStep
<1>6. CASE ExtractionStep
  BY <1>6 DEF ExtractionStep
<1>7. CASE ParsersStep
  BY <1>7 DEF ParsersStep
<1>8. CASE LlmStep
  BY <1>8 DEF LlmStep
<1>9. CASE RerankStep
  BY <1>9 DEF RerankStep
<1>10. CASE CompositionStep
  BY <1>10 DEF CompositionStep
<1>11. CASE EvalStep
  BY <1>11 DEF EvalStep
<1>12. CASE UNCHANGED vars
  BY <1>12 DEF vars, components
<1> QED
  BY <1>1, <1>2, <1>3, <1>4, <1>5, <1>6, <1>7, <1>8, <1>9, <1>10, <1>11, <1>12 DEF Next

(* The services together do what each of them does alone: no step of one   *)
(* is felt by another.                                                     *)
THEOREM ServicesImplementParts ==
  Spec => /\ ExecutorInit /\ [][ExecutorNext]_executorVars
          /\ TempSpec /\ DiffSpec /\ MarksSpec /\ SectionsSpec /\ ExtractionSpec
          /\ ParsersSpec /\ LlmSpec /\ RerankSpec /\ CompositionSpec /\ EvalSpec
<1>1. [Next]_vars =>
        /\ [ExecutorNext]_executorVars /\ [TempNext]_tempVars /\ [DiffNext]_diffVars
        /\ [MarksNext]_marksVars /\ [SectionsNext]_sectionVars
        /\ [ExtractionNext]_extractionVars /\ [ParsersNext]_parserVars /\ [LlmNext]_llmVars
        /\ [RerankNext]_rerankVars /\ [CompositionNext]_compositionVars /\ [EvalNext]_evalVars
  BY OneComponentMoves
<1>2. Init =>
        /\ ExecutorInit /\ TempInit /\ DiffInit /\ MarksInit /\ SectionsInit /\ ExtractionInit
        /\ ParsersInit /\ LlmInit /\ RerankInit /\ CompositionInit /\ EvalInit
  BY DEF Init
<1> QED
  BY <1>1, <1>2, PTL DEF Spec, TempSpec, DiffSpec, MarksSpec, SectionsSpec, ExtractionSpec,
     ParsersSpec, LlmSpec, RerankSpec, CompositionSpec, EvalSpec

(* The variables of all services keep their types while they are in use.   *)
THEOREM ServicesTypeCorrect == Spec => []ServicesTypeOK
<1>1. ExecutorTyped => ExecutorTypeOK
  BY DEF ExecutorTyped
<1> QED
  BY <1>1, ServicesImplementParts, ExecutorInductive, TempInvariant, DiffTypeCorrect,
     MarksInvariant, SectionsInvariant, FieldsInvariant, ParsersInvariant, LlmInvariant,
     RerankInvariant, CompositionInvariant, EvalInvariant, PTL DEF ServicesTypeOK
=============================================================================
