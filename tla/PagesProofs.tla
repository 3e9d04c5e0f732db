----------------------------- MODULE PagesProofs -----------------------------
(***************************************************************************)
(* Theorems about what pages draw: the table of transactions, its window,  *)
(* and the board of categories.                                            *)
(***************************************************************************)
EXTENDS Books, LedgerView, CategoryBoard, FoldLemmas, SequenceTheorems

-----------------------------------------------------------------------------
(* Sequences put one after the other.                                      *)

Flattened(seqs, flat, n) ==
    flat = [i \in 1 .. n |-> IF i = 1 THEN seqs[i] ELSE flat[i - 1] \o seqs[i]]

LEMMA FlattenedAt ==
    ASSUME NEW seqs, NEW flat, NEW n \in Nat, Flattened(seqs, flat, n), NEW i \in 1 .. n
    PROVE  flat[i] = IF i = 1 THEN seqs[i] ELSE flat[i - 1] \o seqs[i]
BY DEF Flattened

\* The recursion of FlattenSeq has a solution.
LEMMA FlatExists ==
    ASSUME NEW seqs PROVE \A n \in Nat : \E flat : Flattened(seqs, flat, n)
<1> DEFINE T == {n \in Nat : \E flat : Flattened(seqs, flat, n)}
<1>1. 0 \in T
  <2> DEFINE flat == [i \in 1 .. 0 |-> i]
  <2>1. flat = [i \in 1 .. 0 |-> IF i = 1 THEN seqs[i] ELSE flat[i - 1] \o seqs[i]]
    OBVIOUS
  <2> QED
    BY <2>1 DEF Flattened
<1>2. ASSUME NEW n \in Nat, n \in T PROVE n + 1 \in T
  <2>1. PICK g : Flattened(seqs, g, n)
    BY <1>2
  <2> DEFINE h == [i \in 1 .. n + 1 |-> IF i = 1 THEN seqs[i] ELSE g[i - 1] \o seqs[i]]
  <2>2. ASSUME NEW i \in 1 .. n PROVE h[i] = g[i]
    <3>1. g[i] = IF i = 1 THEN seqs[i] ELSE g[i - 1] \o seqs[i]
      BY <2>1, FlattenedAt
    <3> QED
      BY <3>1
  <2>3. \A i \in 1 .. n + 1 : i # 1 => h[i - 1] = g[i - 1]
    <3> HIDE DEF h
    <3> QED
      BY <2>2
  <2>4. h = [i \in 1 .. n + 1 |-> IF i = 1 THEN seqs[i] ELSE g[i - 1] \o seqs[i]]
    OBVIOUS
  <2> HIDE DEF h
  <2>5. \A i \in 1 .. n + 1 : (IF i = 1 THEN seqs[i] ELSE g[i - 1] \o seqs[i])
                             = IF i = 1 THEN seqs[i] ELSE h[i - 1] \o seqs[i]
    BY <2>3
  <2>6. h = [i \in 1 .. n + 1 |-> IF i = 1 THEN seqs[i] ELSE h[i - 1] \o seqs[i]]
    BY <2>4, <2>5
  <2>7. Flattened(seqs, h, n + 1)
    BY <2>6 DEF Flattened
  <2> QED
    BY <2>7
<1> HIDE DEF T
<1>3. Nat \subseteq T
  BY <1>1, <1>2, Induct
<1> QED
  BY <1>3 DEF T

LEMMA FlattenIs ==
    ASSUME NEW seqs, Len(seqs) \in Nat, Len(seqs) # 0
    PROVE  \E flat : Flattened(seqs, flat, Len(seqs)) /\ FlattenSeq(seqs) = flat[Len(seqs)]
<1> DEFINE n == Len(seqs)
           g == CHOOSE flat : flat = [i \in 1 .. n |-> IF i = 1 THEN seqs[i] ELSE flat[i - 1] \o seqs[i]]
<1>1. \E flat : flat = [i \in 1 .. n |-> IF i = 1 THEN seqs[i] ELSE flat[i - 1] \o seqs[i]]
  BY FlatExists DEF Flattened
<1>2. g = [i \in 1 .. n |-> IF i = 1 THEN seqs[i] ELSE g[i - 1] \o seqs[i]]
  BY <1>1
<1>3. FlattenSeq(seqs) = g[n]
  BY DEF FlattenSeq
<1> HIDE DEF g
<1> QED
  BY <1>2, <1>3 DEF Flattened

\* One sequence after the other: where each of the first i of them begins.
Placed(U, seqs, flat, off, i) ==
    /\ flat[i] \in Seq(U) /\ Len(flat[i]) = off[i] + Len(seqs[i])
    /\ \A k \in 1 .. i :
          /\ off[k] \in Nat /\ Len(seqs[k]) \in Nat
          /\ off[k] + Len(seqs[k]) <= Len(flat[i])
          /\ \A j \in 1 .. Len(seqs[k]) : flat[i][off[k] + j] = seqs[k][j]
    /\ \A m \in 1 .. Len(flat[i]) : \E k \in 1 .. i : \E j \in 1 .. Len(seqs[k]) : m = off[k] + j

LEMMA PlacedNext ==
    ASSUME NEW U, NEW seqs, NEW flat, NEW off, NEW i \in Nat \ {0}, Placed(U, seqs, flat, off, i),
           seqs[i + 1] \in Seq(U), flat[i + 1] = flat[i] \o seqs[i + 1],
           off[i + 1] = Len(flat[i + 1]) - Len(seqs[i + 1])
    PROVE  Placed(U, seqs, flat, off, i + 1)
<1>1. PICK f, g, h, p : f = flat[i] /\ g = seqs[i + 1] /\ h = flat[i + 1] /\ p = i + 1
  OBVIOUS
<1>2. f \in Seq(U) /\ g \in Seq(U) /\ h = f \o g /\ off[p] = Len(h) - Len(g)
  BY <1>1 DEF Placed
<1>3. Len(f) \in Nat /\ Len(g) \in Nat /\ h \in Seq(U) /\ Len(h) = Len(f) + Len(g)
  BY <1>2
<1>4. off[p] = Len(f)
  BY <1>2, <1>3
<1>5. /\ \A m \in 1 .. Len(f) : h[m] = f[m]
      /\ \A j \in 1 .. Len(g) : h[Len(f) + j] = g[j]
  BY <1>2, <1>3
<1>6. \A k \in 1 .. i :
         /\ off[k] \in Nat /\ Len(seqs[k]) \in Nat /\ off[k] + Len(seqs[k]) <= Len(f)
         /\ \A j \in 1 .. Len(seqs[k]) : f[off[k] + j] = seqs[k][j]
  BY <1>1 DEF Placed
<1>7. \A m \in 1 .. Len(f) : \E k \in 1 .. i : \E j \in 1 .. Len(seqs[k]) : m = off[k] + j
  BY <1>1 DEF Placed
<1>8. ASSUME NEW k \in 1 .. p
      PROVE  /\ off[k] \in Nat /\ Len(seqs[k]) \in Nat
             /\ off[k] + Len(seqs[k]) <= Len(h)
             /\ \A j \in 1 .. Len(seqs[k]) : h[off[k] + j] = seqs[k][j]
  <2>1. CASE k = p
    <3>1. seqs[k] = g /\ off[k] = Len(f)
      BY <1>1, <1>4, <2>1
    <3> QED
      BY <1>3, <1>5, <3>1
  <2>2. CASE k # p
    <3>1. k \in 1 .. i
      BY <1>1, <2>2
    <3>2. /\ off[k] \in Nat /\ Len(seqs[k]) \in Nat /\ off[k] + Len(seqs[k]) <= Len(f)
          /\ \A j \in 1 .. Len(seqs[k]) : f[off[k] + j] = seqs[k][j]
      BY <1>6, <3>1
    <3>3. ASSUME NEW j \in 1 .. Len(seqs[k]) PROVE h[off[k] + j] = seqs[k][j]
      <4>1. off[k] + j \in 1 .. Len(f)
        BY <1>3, <3>2
      <4> QED
        BY <1>5, <3>2, <4>1
    <3> QED
      BY <1>3, <1>4, <3>2, <3>3
  <2> QED
    BY <2>1, <2>2
<1>9. ASSUME NEW m \in 1 .. Len(h)
      PROVE  \E k \in 1 .. p : \E j \in 1 .. Len(seqs[k]) : m = off[k] + j
  <2>1. CASE m <= Len(f)
    <3>1. m \in 1 .. Len(f)
      BY <1>3, <2>1
    <3>2. PICK k \in 1 .. i : \E j \in 1 .. Len(seqs[k]) : m = off[k] + j
      BY <1>7, <3>1
    <3>3. k \in 1 .. p
      BY <1>1
    <3> QED
      BY <3>2, <3>3
  <2>2. CASE m > Len(f)
    <3>1. PICK j : j = m - Len(f)
      OBVIOUS
    <3>2. j \in 1 .. Len(g) /\ m = Len(f) + j
      BY <1>3, <2>2, <3>1
    <3>3. p \in 1 .. p
      BY <1>1
    <3> QED
      BY <1>1, <1>4, <3>2, <3>3
  <2> QED
    BY <1>3, <2>1, <2>2
<1>10. h \in Seq(U) /\ Len(h) = off[p] + Len(seqs[p])
  BY <1>1, <1>3, <1>4
<1> QED
  BY <1>1, <1>8, <1>9, <1>10 DEF Placed

LEMMA FlatPlaces ==
    ASSUME NEW U, NEW seqs \in Seq(Seq(U)), NEW n \in Nat \ {0}, n = Len(seqs),
           NEW flat, Flattened(seqs, flat, n),
           NEW off, \A i \in 1 .. n : off[i] = Len(flat[i]) - Len(seqs[i])
    PROVE  \A i \in 1 .. n : Placed(U, seqs, flat, off, i)
<1>1. n \in Nat /\ 1 \in 1 .. n /\ \A i \in 1 .. n : seqs[i] \in Seq(U) /\ Len(seqs[i]) \in Nat
  OBVIOUS
<1>2. flat[1] = seqs[1]
  BY <1>1, FlattenedAt
<1> DEFINE T == {i \in Nat : i \in 1 .. n => Placed(U, seqs, flat, off, i)}
<1>3. Placed(U, seqs, flat, off, 1)
  <2>1. PICK g : g = seqs[1]
    OBVIOUS
  <2>2. flat[1] = g /\ g \in Seq(U) /\ Len(g) \in Nat
    BY <1>1, <1>2, <2>1
  <2>4. off[1] = Len(flat[1]) - Len(seqs[1])
    BY <1>1
  <2>5. off[1] = 0 /\ Len(flat[1]) = 0 + Len(g)
    BY <2>1, <2>2, <2>4
  <2>3. \A k \in 1 .. 1 : k = 1
    OBVIOUS
  <2> QED
    BY <2>1, <2>2, <2>3, <2>5 DEF Placed
<1>4. 0 \in T
  OBVIOUS
<1>5. ASSUME NEW i \in Nat, i \in T PROVE i + 1 \in T
  <2>1. SUFFICES ASSUME i # 0, i + 1 \in 1 .. n PROVE Placed(U, seqs, flat, off, i + 1)
    BY <1>3
  <2>2. i \in 1 .. n /\ i + 1 - 1 = i /\ i + 1 # 1
    BY <2>1
  <2>3. PICK p : p = i + 1
    OBVIOUS
  <2>7. p \in 1 .. n /\ p # 1 /\ p - 1 = i
    BY <2>1, <2>2, <2>3
  <2>8. flat[p] = IF p = 1 THEN seqs[p] ELSE flat[p - 1] \o seqs[p]
    BY <2>7, FlattenedAt, Zenon
  <2>4. flat[i + 1] = flat[i] \o seqs[i + 1]
    BY <2>3, <2>7, <2>8, Zenon
  <2>5. Placed(U, seqs, flat, off, i)
    BY <1>5, <2>2
  <2>6. seqs[i + 1] \in Seq(U) /\ off[i + 1] = Len(flat[i + 1]) - Len(seqs[i + 1])
    BY <1>1, <2>1
  <2> QED
    BY <2>1, <2>4, <2>5, <2>6, PlacedNext
<1> HIDE DEF T
<1>6. Nat \subseteq T
  BY <1>4, <1>5, Induct
<1> QED
  BY <1>6 DEF T

LEMMA FlattenPlaced ==
    ASSUME NEW U, NEW seqs \in Seq(Seq(U)), Len(seqs) # 0
    PROVE  \E flat, off : /\ FlattenSeq(seqs) = flat[Len(seqs)]
                          /\ Placed(U, seqs, flat, off, Len(seqs))
<1> DEFINE n == Len(seqs)
<1>1. n \in Nat \ {0} /\ n \in 1 .. n
  OBVIOUS
<1>2. PICK flat : Flattened(seqs, flat, n) /\ FlattenSeq(seqs) = flat[n]
  BY <1>1, FlattenIs
<1> DEFINE off == [i \in 1 .. n |-> Len(flat[i]) - Len(seqs[i])]
<1>3. \A i \in 1 .. n : off[i] = Len(flat[i]) - Len(seqs[i])
  OBVIOUS
<1> HIDE DEF off
<1>4. \A i \in 1 .. n : Placed(U, seqs, flat, off, i)
  BY <1>1, <1>2, <1>3, FlatPlaces
<1> QED
  BY <1>1, <1>2, <1>4

\* Sequences put one after the other are a sequence of what is in them, and of
\* nothing twice unless it is twice in them.
LEMMA FlattenTyped ==
    ASSUME NEW U, NEW seqs \in Seq(Seq(U)) PROVE FlattenSeq(seqs) \in Seq(U)
<1>1. CASE Len(seqs) = 0
  BY <1>1 DEF FlattenSeq
<1>2. CASE Len(seqs) # 0
  BY <1>2, FlattenPlaced DEF Placed
<1> QED
  BY <1>1, <1>2

Consists(s, seqs, n) ==
    /\ \A m \in 1 .. Len(s) : \E k \in 1 .. n : \E j \in 1 .. Len(seqs[k]) : s[m] = seqs[k][j]
    /\ \A k \in 1 .. n : \A j \in 1 .. Len(seqs[k]) : \E m \in 1 .. Len(s) : s[m] = seqs[k][j]

LEMMA FlattenHas ==
    ASSUME NEW U, NEW seqs \in Seq(Seq(U)), NEW s, s = FlattenSeq(seqs)
    PROVE  Consists(s, seqs, Len(seqs))
<1>1. CASE Len(seqs) = 0
  <2>1. seqs = <<>> /\ s = <<>>
    BY <1>1 DEF FlattenSeq
  <2> QED
    BY <2>1 DEF Consists
<1>2. CASE Len(seqs) # 0
  <2>1. PICK flat, off : s = flat[Len(seqs)] /\ Placed(U, seqs, flat, off, Len(seqs))
    BY <1>2, FlattenPlaced
  <2>2. s \in Seq(U) /\ Len(s) \in Nat /\ Len(seqs) \in Nat
    BY <2>1 DEF Placed
  <2>3. \A k \in 1 .. Len(seqs) :
           /\ off[k] \in Nat /\ Len(seqs[k]) \in Nat /\ off[k] + Len(seqs[k]) <= Len(s)
           /\ \A j \in 1 .. Len(seqs[k]) : s[off[k] + j] = seqs[k][j]
    BY <2>1 DEF Placed
  <2>4. \A m \in 1 .. Len(s) : \E k \in 1 .. Len(seqs) : \E j \in 1 .. Len(seqs[k]) : m = off[k] + j
    BY <2>1 DEF Placed
  <2>5. ASSUME NEW m \in 1 .. Len(s)
        PROVE  \E k \in 1 .. Len(seqs) : \E j \in 1 .. Len(seqs[k]) : s[m] = seqs[k][j]
    <3>1. PICK k \in 1 .. Len(seqs) : \E j \in 1 .. Len(seqs[k]) : m = off[k] + j
      BY <2>4
    <3>2. PICK j \in 1 .. Len(seqs[k]) : m = off[k] + j
      BY <3>1
    <3>3. s[m] = seqs[k][j]
      BY <2>3, <3>2
    <3> QED
      BY <3>3
  <2>6. ASSUME NEW k \in 1 .. Len(seqs), NEW j \in 1 .. Len(seqs[k])
        PROVE  \E m \in 1 .. Len(s) : s[m] = seqs[k][j]
    <3>1. off[k] + j \in 1 .. Len(s)
      BY <2>2, <2>3
    <3> QED
      BY <2>3, <3>1
  <2> QED
    BY <2>5, <2>6 DEF Consists
<1> QED
  BY <1>1, <1>2

LEMMA FlattenOnce ==
    ASSUME NEW U, NEW seqs \in Seq(Seq(U)), NEW s, s = FlattenSeq(seqs),
           \A k, l \in 1 .. Len(seqs) : \A i \in 1 .. Len(seqs[k]) : \A j \in 1 .. Len(seqs[l]) :
              seqs[k][i] = seqs[l][j] => k = l /\ i = j
    PROVE  \A m, n \in 1 .. Len(s) : s[m] = s[n] => m = n
<1>1. CASE Len(seqs) = 0
  <2>1. s = <<>>
    BY <1>1 DEF FlattenSeq
  <2> QED
    BY <2>1
<1>2. CASE Len(seqs) # 0
  <2>1. PICK flat, off : s = flat[Len(seqs)] /\ Placed(U, seqs, flat, off, Len(seqs))
    BY <1>2, FlattenPlaced
  <2>2. \A k \in 1 .. Len(seqs) : \A j \in 1 .. Len(seqs[k]) : s[off[k] + j] = seqs[k][j]
    BY <2>1 DEF Placed
  <2>3. \A m \in 1 .. Len(s) : \E k \in 1 .. Len(seqs) : \E j \in 1 .. Len(seqs[k]) : m = off[k] + j
    BY <2>1 DEF Placed
  <2> SUFFICES ASSUME NEW m \in 1 .. Len(s), NEW n \in 1 .. Len(s), s[m] = s[n] PROVE m = n
    OBVIOUS
  <2>4. PICK k \in 1 .. Len(seqs) : \E j \in 1 .. Len(seqs[k]) : m = off[k] + j
    BY <2>3
  <2>5. PICK i \in 1 .. Len(seqs[k]) : m = off[k] + i
    BY <2>4
  <2>6. PICK l \in 1 .. Len(seqs) : \E j \in 1 .. Len(seqs[l]) : n = off[l] + j
    BY <2>3
  <2>7. PICK j \in 1 .. Len(seqs[l]) : n = off[l] + j
    BY <2>6
  <2>8. seqs[k][i] = seqs[l][j]
    BY <2>2, <2>5, <2>7
  <2>9. k = l /\ i = j
    BY <2>8
  <2> QED
    BY <2>5, <2>7, <2>9
<1> QED
  BY <1>1, <1>2

\* One and two in a row.
LEMMA OneAndTwo ==
    ASSUME NEW u, NEW v, NEW w
    PROVE  <<u>> \o <<v, w>> = <<u, v, w>> /\ <<u>> \o <<>> = <<u>>
<1> DEFINE U == {u, v, w}
           s == <<u>>
           t == <<v, w>>
           r == <<u, v, w>>
<1>1. s \in Seq(U) /\ t \in Seq(U) /\ <<>> \in Seq(U) /\ r \in Seq(U) /\ Len(s) = 1 /\ Len(t) = 2 /\ Len(r) = 3
  OBVIOUS
<1>2. s[1] = u /\ t[1] = v /\ t[2] = w /\ r[1] = u /\ r[2] = v /\ r[3] = w
  OBVIOUS
<1> HIDE DEF U, s, t, r
<1>3. /\ s \o t \in Seq(U) /\ Len(s \o t) = 1 + 2
      /\ \A i \in 1 .. 1 + 2 : (s \o t)[i] = IF i <= 1 THEN s[i] ELSE t[i - 1]
  <2>1. /\ s \o t \in Seq(U) /\ Len(s \o t) = Len(s) + Len(t)
        /\ \A i \in 1 .. Len(s) + Len(t) : (s \o t)[i] = IF i <= Len(s) THEN s[i] ELSE t[i - Len(s)]
    BY <1>1, ConcatProperties, Zenon
  <2> QED
    BY <1>1, <2>1, Zenon
<1>4. (s \o t)[1] = u /\ (s \o t)[2] = v /\ (s \o t)[3] = w
  <2>1. (s \o t)[1] = IF 1 <= 1 THEN s[1] ELSE t[1 - 1]
    BY <1>3
  <2>2. (s \o t)[2] = IF 2 <= 1 THEN s[2] ELSE t[2 - 1]
    BY <1>3
  <2>3. (s \o t)[3] = IF 3 <= 1 THEN s[3] ELSE t[3 - 1]
    BY <1>3
  <2> QED
    BY <1>2, <2>1, <2>2, <2>3
<1>5. s \o t = r
  <2>1. \A i \in 1 .. 3 : (s \o t)[i] = r[i]
    <3>1. \A i \in 1 .. 3 : i = 1 \/ i = 2 \/ i = 3
      OBVIOUS
    <3> QED
      BY <1>2, <1>4, <3>1
  <2> QED
    BY <1>1, <1>3, <2>1, SeqEqual
<1>6. s \o <<>> = s
  BY <1>1
<1> QED
  BY <1>5, <1>6 DEF s, t, r

\* All that is in them is in one of them.
LEMMA SequencesTyped ==
    ASSUME NEW seqs, NEW n \in Nat, DOMAIN seqs = 1 .. n, seqs = [i \in 1 .. n |-> seqs[i]],
           \A i \in 1 .. n : \E U : seqs[i] \in Seq(U)
    PROVE  \E U : /\ seqs \in Seq(Seq(U))
                  /\ \A u \in U : \E i \in 1 .. n : \E j \in 1 .. Len(seqs[i]) : u = seqs[i][j]
<1> DEFINE E(i) == {seqs[i][j] : j \in 1 .. Len(seqs[i])}
           U == UNION {E(i) : i \in 1 .. n}
<1>1. ASSUME NEW i \in 1 .. n PROVE seqs[i] \in Seq(U)
  <2>1. PICK V : seqs[i] \in Seq(V)
    OBVIOUS
  <2>2. E(i) \subseteq U
    OBVIOUS
  <2>3. \A j \in 1 .. Len(seqs[i]) : seqs[i][j] \in E(i)
    OBVIOUS
  <2> HIDE DEF E, U
  <2>4. Len(seqs[i]) \in Nat /\ seqs[i] = [j \in 1 .. Len(seqs[i]) |-> seqs[i][j]]
    BY <2>1
  <2>5. \A j \in 1 .. Len(seqs[i]) : seqs[i][j] \in U
    BY <2>2, <2>3
  <2> QED
    BY <2>4, <2>5
<1>2. \A u \in U : \E i \in 1 .. n : \E j \in 1 .. Len(seqs[i]) : u = seqs[i][j]
  OBVIOUS
<1> HIDE DEF U
<1>3. seqs \in Seq(Seq(U))
  BY <1>1
<1> QED
  BY <1>2, <1>3

LEMMA SequencesFlattened ==
    ASSUME NEW seqs, NEW n \in Nat, DOMAIN seqs = 1 .. n, seqs = [i \in 1 .. n |-> seqs[i]],
           \A i \in 1 .. n : \E U : seqs[i] \in Seq(U)
    PROVE  \E U : /\ FlattenSeq(seqs) \in Seq(U)
                  /\ \A u \in U : \E i \in 1 .. n : \E j \in 1 .. Len(seqs[i]) : u = seqs[i][j]
<1>1. PICK U : /\ seqs \in Seq(Seq(U))
               /\ \A u \in U : \E i \in 1 .. n : \E j \in 1 .. Len(seqs[i]) : u = seqs[i][j]
  BY SequencesTyped
<1> QED
  BY <1>1, FlattenTyped

-----------------------------------------------------------------------------
(* The rows as they are sorted: newest first.                              *)

NewestFirst(S) == Sorted(S, LAMBDA i, j : i > j)

LEMMA NewestFirstEach ==
    ASSUME NEW S \in SUBSET Nat, IsFiniteSet(S)
    PROVE  /\ NewestFirst(S) \in Seq(S)
           /\ \A i, j \in 1 .. Len(NewestFirst(S)) : NewestFirst(S)[i] = NewestFirst(S)[j] => i = j
           /\ \A x \in S : \E i \in 1 .. Len(NewestFirst(S)) : NewestFirst(S)[i] = x
<1> DEFINE n == Cardinality(S)
           R == {p \in S \X S : p[1] > p[2]}
           Nth(i) == CHOOSE x \in S : Cardinality({y \in S : y > x}) = i - 1
<1>1. \A x, y \in S : <<x, y>> \in R <=> x > y
  OBVIOUS
<1>2. \A x \in S : Place(x, S, R) = Cardinality({y \in S : y > x})
  <2>1. \A x \in S : {y \in S : <<y, x>> \in R} = {y \in S : y > x}
    BY <1>1
  <2> QED
    BY <2>1 DEF Place
<1> HIDE DEF R
<1>3. /\ \A x \in S : <<x, x>> \notin R
      /\ \A x, y, z \in S : <<x, y>> \in R /\ <<y, z>> \in R => <<x, z>> \in R
      /\ \A x, y \in S : x = y \/ <<x, y>> \in R \/ <<y, x>> \in R
  BY <1>1
<1>4. /\ Cardinality(S) \in Nat
      /\ \A x \in S : Place(x, S, R) \in 0 .. Cardinality(S) - 1
      /\ \A x, y \in S : <<x, y>> \in R => Place(x, S, R) < Place(y, S, R)
      /\ \A i \in 0 .. Cardinality(S) - 1 : \E x \in S : Place(x, S, R) = i
  BY <1>3, Places, ZenonT(60)
<1>5. ASSUME NEW i \in 1 .. n PROVE Nth(i) \in S /\ Place(Nth(i), S, R) = i - 1
  <2>1. i - 1 \in 0 .. n - 1
    BY <1>4
  <2>2. \E x \in S : Cardinality({y \in S : y > x}) = i - 1
    BY <1>2, <1>4, <2>1
  <2>3. Nth(i) \in S /\ Cardinality({y \in S : y > Nth(i)}) = i - 1
    BY <2>2
  <2> QED
    BY <1>2, <2>3
<1>6. NewestFirst(S) = [i \in 1 .. n |-> Nth(i)]
  BY DEF NewestFirst, Sorted
<1> HIDE DEF Nth
<1>7. n \in Nat
  BY <1>4
<1> HIDE DEF n
<1>8. /\ NewestFirst(S) \in Seq(S) /\ Len(NewestFirst(S)) = n
      /\ \A i \in 1 .. n : NewestFirst(S)[i] = Nth(i)
  BY <1>5, <1>6, <1>7
<1>9. ASSUME NEW i \in 1 .. n, NEW j \in 1 .. n, Nth(i) = Nth(j) PROVE i = j
  BY <1>5, <1>7, <1>9
<1>10. ASSUME NEW x \in S PROVE \E i \in 1 .. n : Nth(i) = x
  <2>1. PICK k : k = Place(x, S, R)
    OBVIOUS
  <2>2. k \in 0 .. n - 1
    BY <1>4, <2>1 DEF n
  <2>7. PICK p : p = k + 1
    OBVIOUS
  <2>3. p \in 1 .. n /\ p - 1 = k
    BY <1>7, <2>2, <2>7
  <2>4. PICK y : y = Nth(p)
    OBVIOUS
  <2>5. y \in S /\ Place(y, S, R) = k
    BY <1>5, <2>3, <2>4
  <2>6. y = x
    <3>1. Place(x, S, R) \in Nat
      BY <1>4, <1>7, <2>1, <2>2
    <3>2. x = y \/ <<x, y>> \in R \/ <<y, x>> \in R
      BY <1>3, <2>5
    <3>3. <<x, y>> \in R => k < k
      BY <1>4, <2>1, <2>5
    <3>4. <<y, x>> \in R => k < k
      BY <1>4, <2>1, <2>5
    <3> QED
      BY <2>1, <3>1, <3>2, <3>3, <3>4
  <2> QED
    BY <2>3, <2>4, <2>6
<1> QED
  BY <1>8, <1>9, <1>10

-----------------------------------------------------------------------------
(* The items of the table: each row once, in its own or in its transfer's.  *)

Own(i)    == [kind |-> "tx", tx |-> i]
Whole(x)  == [kind |-> "transfer", transferId |-> x]
LegRow(i) == [kind |-> "leg", tx |-> i]

\* What the row at n makes, and of which transfer it is a leg.
Made(b, rows, opened) ==
    [n \in DOMAIN rows |-> IF Emits(b, rows, n) THEN ItemsOf(b, rows[n], opened) ELSE <<>>]
TransferOf(b, i) == b.transactions[i].transferId
Merges(b, x) == x # None /\ Mergeable(b, x)

\* The row at n is the first of its transfer.
First(b, rows, n) == ~\E k \in 1 .. n - 1 : TransferOf(b, rows[k]) = TransferOf(b, rows[n])

Paid(b) == \A i \in DOMAIN b.transactions : b.transactions[i].amount \in Int
Unrepeated(seq) == \A k, l \in 1 .. Len(seq) : seq[k] = seq[l] => k = l

\* A leg goes out or comes in, and not both.
LEMMA LegsApart ==
    ASSUME NEW b, Paid(b), NEW x, Mergeable(b, x)
    PROVE  /\ OutLeg(b, x) \in LegsOf(b, x) /\ InLeg(b, x) \in LegsOf(b, x)
           /\ OutLeg(b, x) # InLeg(b, x)
<1>1. /\ \E i \in LegsOf(b, x) : b.transactions[i].amount < 0
      /\ \E i \in LegsOf(b, x) : b.transactions[i].amount > 0
  BY DEF Mergeable
<1>2. /\ OutLeg(b, x) \in LegsOf(b, x) /\ b.transactions[OutLeg(b, x)].amount < 0
      /\ InLeg(b, x) \in LegsOf(b, x) /\ b.transactions[InLeg(b, x)].amount > 0
  BY <1>1 DEF OutLeg, InLeg
<1>3. \A i \in LegsOf(b, x) : b.transactions[i].amount \in Int
  BY DEF LegsOf, Paid
<1> HIDE DEF OutLeg, InLeg, LegsOf
<1> QED
  BY <1>2, <1>3

\* What a row makes: nothing, itself, or its transfer with what is opened.
MakesRow(b, rows, n, x, m) ==
    IF ~Merges(b, x) THEN m = <<Own(rows[n])>>
    ELSE IF ~First(b, rows, n) THEN m = <<>>
    ELSE m = <<Whole(x)>> \/ m = <<Whole(x), LegRow(OutLeg(b, x)), LegRow(InLeg(b, x))>>

LEMMA MadeIs ==
    ASSUME NEW b, NEW S, NEW rows \in Seq(S), NEW opened, NEW n \in 1 .. Len(rows),
           NEW x, x = TransferOf(b, rows[n]), NEW m, m = Made(b, rows, opened)[n]
    PROVE  MakesRow(b, rows, n, x, m)
<1>1. n \in DOMAIN rows
  OBVIOUS
<1> DEFINE q == Whole(x)
           t == LegRow(OutLeg(b, x))
           r == LegRow(InLeg(b, x))
<1>2. Made(b, rows, opened)[n] = IF Emits(b, rows, n) THEN ItemsOf(b, rows[n], opened) ELSE <<>>
  BY <1>1 DEF Made
<1>3. Emits(b, rows, n) <=> ~(Merges(b, x) /\ ~First(b, rows, n))
  BY DEF Emits, Merges, TransferOf, First
<1>4. ItemsOf(b, rows[n], opened) = IF ~Merges(b, x) THEN <<Own(rows[n])>>
                                   ELSE <<q>> \o (IF x \in opened THEN <<t, r>> ELSE <<>>)
  BY DEF ItemsOf, Merges, TransferOf, Own, Whole, LegRow
<1>5. <<q>> \o <<t, r>> = <<q, t, r>> /\ <<q>> \o <<>> = <<q>>
  BY OneAndTwo, Zenon
<1>6. ItemsOf(b, rows[n], opened) = IF ~Merges(b, x) THEN <<Own(rows[n])>>
                                   ELSE IF x \in opened THEN <<q, t, r>> ELSE <<q>>
  BY <1>4, <1>5
<1> QED
  BY <1>2, <1>3, <1>6 DEF MakesRow

\* One item that a row makes: its place among them and what it is.
MakesAt(b, rows, n, i, item) ==
    LET x == TransferOf(b, rows[n]) IN
    \/ ~Merges(b, x) /\ i = 1 /\ item = Own(rows[n])
    \/ /\ Merges(b, x) /\ First(b, rows, n)
       /\ \/ i = 1 /\ item = Whole(x)
          \/ i = 2 /\ item = LegRow(OutLeg(b, x))
          \/ i = 3 /\ item = LegRow(InLeg(b, x))

MakesWell(b, rows, n, m) ==
    LET x == TransferOf(b, rows[n]) IN
    /\ Len(m) \in 0 .. 3 /\ \A i \in 1 .. Len(m) : MakesAt(b, rows, n, i, m[i])
    /\ m = <<>> \/ (\E u : m = <<u>>) \/ (\E u, v, w : m = <<u, v, w>>)
    /\ ~Merges(b, x) => 1 \in 1 .. Len(m) /\ m[1] = Own(rows[n])
    /\ Merges(b, x) /\ First(b, rows, n) => 1 \in 1 .. Len(m) /\ m[1] = Whole(x)

LEMMA MadeEach ==
    ASSUME NEW b, NEW S, NEW rows \in Seq(S), NEW opened, NEW n \in 1 .. Len(rows), NEW m,
           m = Made(b, rows, opened)[n]
    PROVE  MakesWell(b, rows, n, m)
<1>1. PICK x : x = TransferOf(b, rows[n])
  OBVIOUS
<1>2. MakesRow(b, rows, n, x, m)
  BY <1>1, MadeIs
<1>3. CASE ~Merges(b, x)
  <2>1. m = <<Own(rows[n])>>
    BY <1>2, <1>3 DEF MakesRow
  <2>2. Len(m) = 1 /\ m[1] = Own(rows[n]) /\ \A i \in 1 .. 1 : i = 1
    BY <2>1
  <2> QED
    BY <1>1, <1>3, <2>1, <2>2 DEF MakesAt, MakesWell
<1>4. CASE Merges(b, x) /\ ~First(b, rows, n)
  <2>1. m = <<>>
    BY <1>2, <1>4 DEF MakesRow
  <2>2. Len(m) = 0 /\ \A i \in 1 .. 0 : FALSE
    BY <2>1
  <2> QED
    BY <1>1, <1>4, <2>1, <2>2 DEF MakesWell
<1>5. CASE Merges(b, x) /\ First(b, rows, n)
  <2>1. PICK q, t, r : q = Whole(x) /\ t = LegRow(OutLeg(b, x)) /\ r = LegRow(InLeg(b, x))
    OBVIOUS
  <2>2. m = <<q>> \/ m = <<q, t, r>>
    BY <1>2, <1>5, <2>1 DEF MakesRow
  <2>3. CASE m = <<q>>
    <3>1. Len(m) = 1 /\ m[1] = q /\ \A i \in 1 .. 1 : i = 1
      BY <2>3
    <3> QED
      BY <1>1, <1>5, <2>1, <2>3, <3>1 DEF MakesAt, MakesWell
  <2>4. CASE m = <<q, t, r>>
    <3>1. Len(m) = 3 /\ m[1] = q /\ m[2] = t /\ m[3] = r /\ \A i \in 1 .. 3 : i = 1 \/ i = 2 \/ i = 3
      BY <2>4
    <3>2. \A i \in 1 .. 3 : MakesAt(b, rows, n, i, m[i])
      BY <1>1, <1>5, <2>1, <3>1 DEF MakesAt
    <3> QED
      BY <1>1, <1>5, <2>1, <2>4, <3>1, <3>2 DEF MakesWell
  <2> QED
    BY <2>2, <2>3, <2>4
<1> QED
  BY <1>3, <1>4, <1>5

\* What two rows make is not the same.
LEMMA MadeApart ==
    ASSUME NEW b, Paid(b), NEW S, NEW rows \in Seq(S), Unrepeated(rows),
           NEW k \in 1 .. Len(rows), NEW l \in 1 .. Len(rows), NEW i, NEW j, NEW item,
           MakesAt(b, rows, k, i, item), MakesAt(b, rows, l, j, item)
    PROVE  k = l /\ i = j
<1>1. PICK x, y : x = TransferOf(b, rows[k]) /\ y = TransferOf(b, rows[l])
  OBVIOUS
<1>2. \A u, v : /\ Own(u) # Whole(v) /\ Own(u) # LegRow(v) /\ Whole(u) # LegRow(v)
                /\ Own(u) = Own(v) => u = v
                /\ Whole(u) = Whole(v) => u = v
                /\ LegRow(u) = LegRow(v) => u = v
  BY DEF Own, Whole, LegRow
<1>3. ASSUME First(b, rows, k), First(b, rows, l), x = y PROVE k = l
  <2>1. k \notin 1 .. l - 1 /\ l \notin 1 .. k - 1
    BY <1>1, <1>3 DEF First
  <2> QED
    BY <2>1
<1>4. CASE ~Merges(b, x)
  <2>1. i = 1 /\ item = Own(rows[k])
    BY <1>1, <1>4 DEF MakesAt
  <2>2. j = 1 /\ item = Own(rows[l])
    BY <1>1, <1>2, <2>1 DEF MakesAt
  <2> QED
    BY <1>2, <2>1, <2>2 DEF Unrepeated
<1>5. CASE Merges(b, x)
  <2>1. /\ First(b, rows, k)
        /\ \/ i = 1 /\ item = Whole(x)
           \/ i = 2 /\ item = LegRow(OutLeg(b, x))
           \/ i = 3 /\ item = LegRow(InLeg(b, x))
    BY <1>1, <1>5 DEF MakesAt
  <2>2. /\ Merges(b, y) /\ First(b, rows, l)
        /\ \/ j = 1 /\ item = Whole(y)
           \/ j = 2 /\ item = LegRow(OutLeg(b, y))
           \/ j = 3 /\ item = LegRow(InLeg(b, y))
    BY <1>1, <1>2, <2>1 DEF MakesAt
  <2>3. \A z \in {x, y} : /\ OutLeg(b, z) \in LegsOf(b, z) /\ InLeg(b, z) \in LegsOf(b, z)
                          /\ OutLeg(b, z) # InLeg(b, z)
    BY <1>5, <2>2, LegsApart DEF Merges
  <2>4. \A u : u \in LegsOf(b, x) /\ u \in LegsOf(b, y) => x = y
    BY DEF LegsOf
  <2>5. x = y
    BY <1>2, <2>1, <2>2, <2>3, <2>4
  <2>6. i = j
    <3>1. PICK o, e : o = OutLeg(b, x) /\ e = InLeg(b, x)
      OBVIOUS
    <3>2. o # e
      BY <2>3, <3>1
    <3>3. \/ i = 1 /\ item = Whole(x)
          \/ i = 2 /\ item = LegRow(o)
          \/ i = 3 /\ item = LegRow(e)
      BY <2>1, <3>1
    <3>4. \/ j = 1 /\ item = Whole(x)
          \/ j = 2 /\ item = LegRow(o)
          \/ j = 3 /\ item = LegRow(e)
      BY <2>2, <2>5, <3>1
    <3>5. Whole(x) # LegRow(o) /\ Whole(x) # LegRow(e) /\ LegRow(o) # LegRow(e)
      BY <1>2, <3>2
    <3> QED
      BY <3>3, <3>4, <3>5
  <2> QED
    BY <1>3, <2>1, <2>2, <2>5, <2>6
<1> QED
  BY <1>4, <1>5

\* What the table is made of: what the rows make, and nothing twice.
Once(b, rows, its) ==
    /\ Len(its) \in Nat /\ DOMAIN its = 1 .. Len(its) /\ Unrepeated(its)
    /\ \A m \in 1 .. Len(its) : \E k \in 1 .. Len(rows) : \E i : MakesAt(b, rows, k, i, its[m])
    /\ \A k \in 1 .. Len(rows) : LET x == TransferOf(b, rows[k]) IN
          /\ ~Merges(b, x) => \E m \in 1 .. Len(its) : its[m] = Own(rows[k])
          /\ Merges(b, x) /\ First(b, rows, k) => \E m \in 1 .. Len(its) : its[m] = Whole(x)

LEMMA ItemsOnce ==
    ASSUME NEW b, Paid(b), NEW S, NEW rows \in Seq(S), Unrepeated(rows),
           NEW opened, NEW its, its = MergeTransferRows(b, rows, opened)
    PROVE  Once(b, rows, its)
<1> DEFINE s == Made(b, rows, opened)
<1>1. DOMAIN rows = 1 .. Len(rows) /\ Len(rows) \in Nat
  OBVIOUS
<1>2. DOMAIN s = 1 .. Len(rows) /\ s = [n \in 1 .. Len(rows) |-> s[n]]
  BY <1>1 DEF Made
<1>3. its = FlattenSeq(s)
  BY DEF MergeTransferRows, Made
<1>4. ASSUME NEW n \in 1 .. Len(rows) PROVE MakesWell(b, rows, n, s[n])
  BY MadeEach
<1> HIDE DEF s
<1>5. ASSUME NEW n \in 1 .. Len(rows) PROVE \E U : s[n] \in Seq(U)
  <2>1. CASE s[n] = <<>>
    <3>1. s[n] \in Seq({})
      BY <2>1
    <3> QED
      BY <3>1
  <2>2. ASSUME NEW u, s[n] = <<u>> PROVE \E U : s[n] \in Seq(U)
    <3>1. s[n] \in Seq({u})
      BY <2>2
    <3> QED
      BY <3>1
  <2>3. ASSUME NEW u, NEW v, NEW w, s[n] = <<u, v, w>> PROVE \E U : s[n] \in Seq(U)
    <3>1. s[n] \in Seq({u, v, w})
      BY <2>3
    <3> QED
      BY <3>1
  <2>4. MakesWell(b, rows, n, s[n])
    BY <1>4
  <2>5. s[n] = <<>> \/ (\E u : s[n] = <<u>>) \/ (\E u, v, w : s[n] = <<u, v, w>>)
    BY <2>4 DEF MakesWell
  <2> QED
    BY <2>1, <2>2, <2>3, <2>5
<1>6. PICK U : s \in Seq(Seq(U))
  BY <1>1, <1>2, <1>5, SequencesTyped
<1>7. Len(s) = Len(rows)
  BY <1>1, <1>2, <1>6
<1>8. its \in Seq(U)
  BY <1>3, <1>6, FlattenTyped
<1>9. /\ \A m \in 1 .. Len(its) : \E k \in 1 .. Len(rows) : \E j \in 1 .. Len(s[k]) : its[m] = s[k][j]
      /\ \A k \in 1 .. Len(rows) : \A j \in 1 .. Len(s[k]) : \E m \in 1 .. Len(its) : its[m] = s[k][j]
  <2>1. Consists(its, s, Len(s))
    BY <1>3, <1>6, FlattenHas
  <2>2. Consists(its, s, Len(rows))
    BY <1>7, <2>1
  <2> QED
    BY <2>2 DEF Consists
<1>10. ASSUME NEW k \in 1 .. Len(rows), NEW l \in 1 .. Len(rows),
              NEW i \in 1 .. Len(s[k]), NEW j \in 1 .. Len(s[l]), s[k][i] = s[l][j]
       PROVE  k = l /\ i = j
  <2>1. PICK item : item = s[k][i] /\ item = s[l][j]
    BY <1>10
  <2>2. MakesAt(b, rows, k, i, item) /\ MakesAt(b, rows, l, j, item)
    BY <1>4, <2>1 DEF MakesWell
  <2> QED
    BY <2>2, MadeApart, Zenon
<1>11. Unrepeated(its)
  <2>1. \A k, l \in 1 .. Len(s) : \A i \in 1 .. Len(s[k]) : \A j \in 1 .. Len(s[l]) :
           s[k][i] = s[l][j] => k = l /\ i = j
    BY <1>7, <1>10
  <2>2. \A m, n \in 1 .. Len(its) : its[m] = its[n] => m = n
    BY <1>3, <1>6, <2>1, FlattenOnce, Zenon
  <2> QED
    BY <2>2 DEF Unrepeated
<1>12. ASSUME NEW m \in 1 .. Len(its)
       PROVE  \E k \in 1 .. Len(rows) : \E i : MakesAt(b, rows, k, i, its[m])
  <2>1. PICK k \in 1 .. Len(rows) : \E j \in 1 .. Len(s[k]) : its[m] = s[k][j]
    BY <1>9
  <2>2. PICK j \in 1 .. Len(s[k]) : its[m] = s[k][j]
    BY <2>1
  <2>3. MakesAt(b, rows, k, j, its[m])
    BY <1>4, <2>2 DEF MakesWell
  <2> QED
    BY <2>3
<1>13. ASSUME NEW k \in 1 .. Len(rows)
       PROVE  LET x == TransferOf(b, rows[k]) IN
              /\ ~Merges(b, x) => \E m \in 1 .. Len(its) : its[m] = Own(rows[k])
              /\ Merges(b, x) /\ First(b, rows, k) => \E m \in 1 .. Len(its) : its[m] = Whole(x)
  <2>1. \A j \in 1 .. Len(s[k]) : \E m \in 1 .. Len(its) : its[m] = s[k][j]
    BY <1>9
  <2>2. MakesWell(b, rows, k, s[k])
    BY <1>4
  <2> QED
    BY <2>1, <2>2 DEF MakesWell
<1>14. Len(its) \in Nat /\ DOMAIN its = 1 .. Len(its)
  BY <1>8
<1> QED
  BY <1>11, <1>12, <1>13, <1>14, Zenon DEF Once

\* The first row of a transfer is one of its rows.
LEMMA FirstExists ==
    ASSUME NEW b, NEW S, NEW rows \in Seq(S), NEW k \in 1 .. Len(rows)
    PROVE  \E j \in 1 .. Len(rows) : First(b, rows, j) /\ TransferOf(b, rows[j]) = TransferOf(b, rows[k])
<1> DEFINE T == {j \in 1 .. Len(rows) : TransferOf(b, rows[j]) = TransferOf(b, rows[k])}
<1>1. T \in SUBSET Nat /\ k \in T
  OBVIOUS
<1>2. PICK j \in T : \A i \in T : j <= i
  BY <1>1, Least
<1>3. j \in 1 .. Len(rows) /\ TransferOf(b, rows[j]) = TransferOf(b, rows[k])
  OBVIOUS
<1>4. ASSUME NEW i \in 1 .. j - 1, TransferOf(b, rows[i]) = TransferOf(b, rows[j]) PROVE FALSE
  <2>1. i \in 1 .. Len(rows) /\ ~(j <= i)
    BY <1>3
  <2>2. i \in T
    BY <1>3, <1>4, <2>1
  <2> QED
    BY <1>2, <2>1, <2>2
<1>5. First(b, rows, j)
  BY <1>4 DEF First
<1> QED
  BY <1>3, <1>5

\* Where a row is shown.
ShownAt(b, its, i) ==
    {n \in DOMAIN its :
        \/ its[n].kind = "tx" /\ its[n].tx = i
        \/ its[n].kind = "transfer" /\ its[n].transferId = TransferOf(b, i)}

ShownInOnePlace(b, its, i) == \E m : ShownAt(b, its, i) = {m}

LEMMA ShownInOne ==
    ASSUME NEW b, Paid(b), NEW S, NEW rows \in Seq(S), Unrepeated(rows),
           NEW opened, NEW its, its = MergeTransferRows(b, rows, opened), NEW k \in 1 .. Len(rows)
    PROVE  ShownInOnePlace(b, its, rows[k])
<1>1. PICK r, x : r = rows[k] /\ x = TransferOf(b, r)
  OBVIOUS
<1>2. /\ DOMAIN its = 1 .. Len(its)
      /\ \A m, n \in 1 .. Len(its) : its[m] = its[n] => m = n
      /\ \A m \in 1 .. Len(its) : \E l \in 1 .. Len(rows) : \E i : MakesAt(b, rows, l, i, its[m])
  <2>1. Once(b, rows, its)
    BY ItemsOnce
  <2> QED
    BY <2>1 DEF Once, Unrepeated
<1>7. \A l \in 1 .. Len(rows) : LET y == TransferOf(b, rows[l]) IN
         /\ ~Merges(b, y) => \E m \in 1 .. Len(its) : its[m] = Own(rows[l])
         /\ Merges(b, y) /\ First(b, rows, l) => \E m \in 1 .. Len(its) : its[m] = Whole(y)
  <2>1. Once(b, rows, its)
    BY ItemsOnce
  <2> QED
    BY <2>1 DEF Once
<1>3. ASSUME NEW m \in 1 .. Len(its)
      PROVE  \/ \E i : its[m] = Own(i) /\ ~Merges(b, TransferOf(b, i))
             \/ \E y : its[m] = Whole(y) /\ Merges(b, y)
             \/ \E i : its[m] = LegRow(i)
  <2>1. PICK l \in 1 .. Len(rows) : \E i : MakesAt(b, rows, l, i, its[m])
    BY <1>2
  <2>2. PICK i : MakesAt(b, rows, l, i, its[m])
    BY <2>1
  <2> QED
    BY <2>2 DEF MakesAt
<1>4. \A u : /\ Own(u).kind = "tx" /\ Own(u).tx = u
             /\ Whole(u).kind = "transfer" /\ Whole(u).transferId = u
             /\ LegRow(u).kind = "leg"
  BY DEF Own, Whole, LegRow
<1>5. CASE ~Merges(b, x)
  <2>1. PICK m \in 1 .. Len(its) : its[m] = Own(r)
    BY <1>1, <1>5, <1>7
  <2>2. ASSUME NEW n \in 1 .. Len(its),
               \/ its[n].kind = "tx" /\ its[n].tx = r
               \/ its[n].kind = "transfer" /\ its[n].transferId = x
        PROVE  its[n] = Own(r)
    BY <1>3, <1>4, <1>5, <2>2
  <2>3. ShownAt(b, its, r) = {m}
    BY <1>1, <1>2, <1>4, <2>1, <2>2 DEF ShownAt
  <2> QED
    BY <1>1, <2>3 DEF ShownInOnePlace
<1>6. CASE Merges(b, x)
  <2>1. PICK j \in 1 .. Len(rows) : First(b, rows, j) /\ TransferOf(b, rows[j]) = x
    BY <1>1, FirstExists
  <2>2. PICK m \in 1 .. Len(its) : its[m] = Whole(x)
    BY <1>6, <1>7, <2>1
  <2>3. ASSUME NEW n \in 1 .. Len(its),
               \/ its[n].kind = "tx" /\ its[n].tx = r
               \/ its[n].kind = "transfer" /\ its[n].transferId = x
        PROVE  its[n] = Whole(x)
    BY <1>1, <1>3, <1>4, <1>6, <2>3
  <2>4. ShownAt(b, its, r) = {m}
    BY <1>1, <1>2, <1>4, <2>2, <2>3 DEF ShownAt
  <2> QED
    BY <1>1, <2>4 DEF ShownInOnePlace
<1> QED
  BY <1>5, <1>6

-----------------------------------------------------------------------------
(* The books: rows have ids and amounts whatever is done.                   *)

RowFine(t) == "amount" \in DOMAIN t /\ t.amount \in Int
RowsFine(ts) ==
    DOMAIN ts \subseteq Nat /\ IsFiniteSet(DOMAIN ts) /\ \A i \in DOMAIN ts : RowFine(ts[i])
AccountsFine(as) == \A a \in DOMAIN as : as[a].openingBalance \in Int
Shaped(b) ==
    /\ DOMAIN b = {"categories", "accounts", "transactions", "budgets"}
    /\ RowsFine(b.transactions) /\ AccountsFine(b.accounts)

BooksInv == Shaped(books)

LEMMA InitBooks == BooksInit => BooksInv
BY BooksAssumption DEF BooksInit, BooksInv, Shaped, RowsFine, RowFine, AccountsFine

\* An operation that leaves rows and accounts alone.
LEMMA OthersKeep ==
    ASSUME BooksInv, NEW b, DOMAIN b = DOMAIN books,
           b.transactions = books.transactions, b.accounts = books.accounts
    PROVE  Shaped(b)
BY DEF BooksInv, Shaped

\* One that changes rows.
LEMMA RowsKeep ==
    ASSUME BooksInv, NEW b, DOMAIN b = DOMAIN books, RowsFine(b.transactions), b.accounts = books.accounts
    PROVE  Shaped(b)
BY DEF BooksInv, Shaped

LEMMA NextIdTyped == BooksInv => NextId \in Nat
<1> SUFFICES ASSUME BooksInv PROVE NextId \in Nat
  OBVIOUS
<1> DEFINE K == {0} \cup Ids
<1>1. Ids \subseteq Nat /\ IsFiniteSet(Ids)
  BY DEF BooksInv, Shaped, RowsFine, Ids
<1>2. K \in SUBSET Int /\ K # {} /\ K \subseteq Nat
  BY <1>1
<1>3. IsFiniteSet(K)
  BY <1>1, FS_Singleton, FS_Union
<1>4. \E x \in K : \A y \in K : x >= y
  BY <1>2, <1>3, Greatest
<1>5. Max(K) \in K
  BY <1>4 DEF Max
<1> QED
  BY <1>2, <1>5 DEF NextId

\* A row more, with an id of its own.
LEMMA OneMore ==
    ASSUME NEW ts, RowsFine(ts), NEW n \in Nat, NEW row, RowFine(row)
    PROVE  RowsFine(WithRow(ts, n, row))
<1> DEFINE us == WithRow(ts, n, row)
<1>1. DOMAIN us = DOMAIN ts \cup {n}
  BY DEF WithRow
<1>2. \A i \in DOMAIN us : us[i] = IF i = n THEN row ELSE ts[i]
  BY <1>1 DEF WithRow
<1> HIDE DEF us
<1>3. DOMAIN ts \subseteq Nat /\ IsFiniteSet(DOMAIN ts) /\ \A i \in DOMAIN ts : RowFine(ts[i])
  BY DEF RowsFine
<1>4. IsFiniteSet(DOMAIN us)
  BY <1>1, <1>3, FS_AddElement
<1>5. ASSUME NEW i \in DOMAIN us PROVE RowFine(us[i])
  <2>1. CASE i = n
    BY <1>2, <2>1
  <2>2. CASE i # n
    <3>1. i \in DOMAIN ts /\ us[i] = ts[i]
      BY <1>1, <1>2, <2>2
    <3> QED
      BY <1>3, <3>1
  <2> QED
    BY <2>1, <2>2
<1>6. DOMAIN us \subseteq Nat
  BY <1>1, <1>3
<1>7. RowsFine(us)
  BY <1>4, <1>5, <1>6 DEF RowsFine
<1> QED
  BY <1>7 DEF us

LEMMA ReconciledTyped ==
    ASSUME BooksInv, NEW a \in Accounts PROVE ReconciledBalance(a) \in Int
<1> DEFINE ours == {i \in Ids : books.transactions[i].accountId = a
                        /\ (Demo \/ Counts(books.transactions[i])
                                 \/ books.transactions[i].source = "transfer")}
           f == [i \in ours |-> books.transactions[i].amount]
<1>1. IsFiniteSet(ours)
  BY FS_Subset DEF BooksInv, Shaped, RowsFine, Ids
<1>2. \A i \in ours : f[i] \in Int
  BY DEF BooksInv, Shaped, RowsFine, RowFine, Ids
<1>3. ReconciledBalance(a) = books.accounts[a].openingBalance + SumFunctionOnSet(f, ours)
  BY DEF ReconciledBalance
<1> HIDE DEF f, ours
<1>4. SumFunctionOnSet(f, ours) \in Int
  BY <1>1, <1>2, SumType
<1> QED
  BY <1>3, <1>4 DEF BooksInv, Shaped, AccountsFine, Accounts

LEMMA NextBooks == BooksInv /\ [BooksNext]_booksVars => BooksInv'
<1> SUFFICES ASSUME BooksInv, [BooksNext]_booksVars PROVE BooksInv'
  OBVIOUS
<1>1. ASSUME NEW b, NEW op, Record(b, op), Shaped(b) PROVE BooksInv'
  BY <1>1 DEF Record, BooksInv
<1>2. DOMAIN books = {"categories", "accounts", "transactions", "budgets"}
      /\ RowsFine(books.transactions) /\ AccountsFine(books.accounts)
  BY DEF BooksInv, Shaped
<1>3. CASE Budgeting
  <2>1. ASSUME NEW key, NEW amount, SetBudget(key, amount) PROVE BooksInv'
    <3> DEFINE b == [books EXCEPT !.budgets[key] = amount]
    <3>1. Shaped(b)
      BY <1>2, OthersKeep
    <3> QED
      BY <1>1, <2>1, <3>1 DEF SetBudget
  <2>2. ASSUME NEW key, FillBudgetForward(key) PROVE BooksInv'
    <3>1. \A v : Shaped([books EXCEPT !.budgets = v])
      BY <1>2, OthersKeep
    <3> QED
      BY <1>1, <2>2, <3>1 DEF FillBudgetForward
  <2>3. ASSUME NEW year, CopyBudgetYear(year) PROVE BooksInv'
    <3>1. \A v : Shaped([books EXCEPT !.budgets = v])
      BY <1>2, OthersKeep
    <3> QED
      BY <1>1, <2>3, <3>1 DEF CopyBudgetYear
  <2> QED
    BY <1>3, <2>1, <2>2, <2>3 DEF Budgeting
<1>4. CASE Bookkeeping
  <2>0. \A ts : RowsFine(ts) => Shaped([books EXCEPT !.transactions = ts])
    BY <1>2, RowsKeep
  <2>1. ASSUME NEW d, NEW n \in Amounts, NEW c, NEW a, AddTransaction(d, n, c, a) PROVE BooksInv'
    <3> DEFINE row == [date |-> d, amount |-> n, categoryId |-> c, accountId |-> a,
                       transferId |-> None, source |-> "manual", splits |-> <<>>]
    <3>1. RowFine(row)
      BY BooksAssumption DEF RowFine
    <3>2. Shaped([books EXCEPT !.transactions = WithRow(@, NextId, row)])
      BY <1>2, <2>0, <3>1, NextIdTyped, OneMore
    <3> QED
      BY <1>1, <2>1, <3>2 DEF AddTransaction
  <2>2. ASSUME NEW from, NEW to, NEW n \in Amounts, NEW d, CreateTransfer(from, to, n, d) PROVE BooksInv'
    <3> DEFINE leg(a, m) == [date |-> d, amount |-> m, categoryId |-> None, accountId |-> a,
                      transferId |-> NextId, source |-> "transfer", splits |-> <<>>]
    <3>1. RowFine(leg(from, -n)) /\ RowFine(leg(to, n))
      BY BooksAssumption DEF RowFine
    <3>2. NextId \in Nat /\ NextId + 1 \in Nat
      BY NextIdTyped
    <3>3. RowsFine(WithRow(WithRow(books.transactions, NextId, leg(from, -n)), NextId + 1, leg(to, n)))
      <4> HIDE DEF leg
      <4>1. RowsFine(WithRow(books.transactions, NextId, leg(from, -n)))
        BY <1>2, <3>1, <3>2, OneMore
      <4> QED
        BY <3>1, <3>2, <4>1, OneMore
    <3>4. Shaped([books EXCEPT !.transactions = WithRow(WithRow(@, NextId, leg(from, -n)), NextId + 1, leg(to, n))])
      BY <2>0, <3>3
    <3> QED
      BY <1>1, <2>2, <3>4 DEF CreateTransfer
  <2>3. ASSUME NEW i \in Ids, NEW c, SetTxCategory(i, c) PROVE BooksInv'
    <3>1. RowsFine([books.transactions EXCEPT ![i].categoryId = c])
      BY <1>2 DEF RowsFine, RowFine, Ids
    <3>2. [books EXCEPT !.transactions[i].categoryId = c]
          = [books EXCEPT !.transactions = [books.transactions EXCEPT ![i].categoryId = c]]
      OBVIOUS
    <3> QED
      BY <1>1, <2>0, <2>3, <3>1, <3>2 DEF SetTxCategory
  <2>4. ASSUME NEW i \in Ids, NEW c, NEW d, ReplaceTransactionSplits(i, c, d) PROVE BooksInv'
    <3>1. \A v : Shaped([books EXCEPT !.transactions[i].categoryId = None, !.transactions[i].splits = v])
      BY <1>2, <2>0 DEF RowsFine, RowFine, Ids, Shaped
    <3>2. \A v : Shaped([books EXCEPT !.transactions[i].splits = v])
      BY <1>2, <2>0 DEF RowsFine, RowFine, Ids, Shaped
    <3> QED
      BY <1>1, <2>4, <3>1, <3>2 DEF ReplaceTransactionSplits
  <2>5. ASSUME NEW ids \in SUBSET Ids PROVE Shaped([books EXCEPT !.transactions = Kept(ids)])
    <3>1. RowsFine(Kept(ids))
      BY <1>2, FS_Subset DEF RowsFine, Kept, Ids
    <3> QED
      BY <2>0, <3>1
  <2>6. ASSUME NEW i \in Ids, DeleteTransaction(i) PROVE BooksInv'
    BY <1>1, <2>5, <2>6 DEF DeleteTransaction
  <2>7. ASSUME NEW x, DeleteTransferWithLegs(x) PROVE BooksInv'
    BY <1>1, <2>5, <2>7 DEF DeleteTransferWithLegs
  <2>8. ASSUME NEW x, SplitTransfer(x) PROVE BooksInv'
    <3> DEFINE ts == [i \in Ids |-> IF books.transactions[i].transferId = x
                                    THEN [books.transactions[i] EXCEPT !.transferId = None]
                                    ELSE books.transactions[i]]
    <3>1. RowsFine(ts)
      BY <1>2 DEF RowsFine, RowFine, Ids
    <3>2. Shaped([books EXCEPT !.transactions = ts])
      BY <2>0, <3>1
    <3> QED
      BY <1>1, <2>8, <3>2 DEF SplitTransfer, Edited
  <2>9. ASSUME NEW a \in Accounts, NEW n \in Amounts, ReconcileAccount(a, n) PROVE BooksInv'
    <3> DEFINE delta == n - ReconciledBalance(a)
               row == [date |-> Today, amount |-> delta, categoryId |-> None, accountId |-> a,
                       transferId |-> None, source |-> "adjustment", splits |-> <<>>]
    <3>1. RowFine(row)
      BY BooksAssumption, ReconciledTyped DEF RowFine
    <3>2. Shaped([books EXCEPT !.transactions = WithRow(@, NextId, row)])
      BY <1>2, <2>0, <3>1, NextIdTyped, OneMore
    <3> QED
      BY <1>1, <2>9, <3>2 DEF ReconcileAccount
  <2> QED
    BY <1>4, <2>1, <2>2, <2>3, <2>4, <2>6, <2>7, <2>8, <2>9 DEF Bookkeeping
<1>5. CASE Structure
  <2>1. ASSUME NEW a, NEW to, DeleteAccount(a, to) PROVE BooksInv'
    <3> DEFINE ts == [i \in Ids |-> IF books.transactions[i].accountId = a
                                    THEN [books.transactions[i] EXCEPT !.accountId = to]
                                    ELSE books.transactions[i]]
               as == [x \in DOMAIN books.accounts \ {a} |-> books.accounts[x]]
    <3>1. RowsFine(ts) /\ AccountsFine(as)
      BY <1>2 DEF RowsFine, RowFine, Ids, AccountsFine
    <3>2. Shaped([books EXCEPT !.accounts = as, !.transactions = ts])
      <4> HIDE DEF ts, as
      <4> QED
        BY <1>2, <3>1 DEF Shaped
    <3> QED
      BY <1>1, <2>1, <3>2 DEF DeleteAccount, Edited
  <2>2. ASSUME NEW c, NEW d PROVE
          RowsFine([i \in Ids |-> IF books.transactions[i].categoryId = c
                                  THEN [books.transactions[i] EXCEPT !.categoryId = d]
                                  ELSE books.transactions[i]])
    BY <1>2 DEF RowsFine, RowFine, Ids
  <2>3. ASSUME NEW cs, NEW bs, NEW ts, RowsFine(ts)
        PROVE  Shaped([books EXCEPT !.categories = cs, !.budgets = bs, !.transactions = ts])
    BY <1>2, <2>3 DEF Shaped
  <2>4. ASSUME NEW c, DeleteCategory(c) PROVE BooksInv'
    <3> DEFINE bs == [k \in BudgetKeys |-> IF k[1] = c THEN 0 ELSE books.budgets[k]]
               ts == [i \in Ids |-> IF books.transactions[i].categoryId = c
                                    THEN [books.transactions[i] EXCEPT !.categoryId = None]
                                    ELSE books.transactions[i]]
               b == [books EXCEPT !.categories = @ \ {c}, !.budgets = bs, !.transactions = ts]
    <3>1. RowsFine(ts)
      BY <2>2
    <3>2. Record(b, [op |-> "deleteCategory"])
      BY <2>4 DEF DeleteCategory, Edited
    <3> HIDE DEF bs, ts
    <3>3. Shaped(b)
      BY <2>3, <3>1
    <3> QED
      BY <1>1, <3>2, <3>3
  <2>5. ASSUME NEW c, NEW into, MergeCategory(c, into) PROVE BooksInv'
    <3> DEFINE bs == MergedBudgets(c, into)
               ts == [i \in Ids |-> IF books.transactions[i].categoryId = c
                                    THEN [books.transactions[i] EXCEPT !.categoryId = into]
                                    ELSE books.transactions[i]]
               b == [books EXCEPT !.categories = @ \ {c}, !.budgets = bs, !.transactions = ts]
    <3>1. RowsFine(ts)
      BY <2>2
    <3>2. Record(b, [op |-> "merge"])
      BY <2>5 DEF MergeCategory, Edited
    <3> HIDE DEF bs, ts
    <3>3. Shaped(b)
      BY <2>3, <3>1
    <3> QED
      BY <1>1, <3>2, <3>3
  <2> QED
    BY <1>5, <2>1, <2>4, <2>5 DEF Structure
<1>6. CASE UNCHANGED booksVars
  BY <1>6 DEF booksVars, BooksInv
<1> QED
  BY <1>3, <1>4, <1>5, <1>6 DEF BooksNext

LEMMA BooksInvGives == BooksInv => RowsShownOnce
<1> SUFFICES ASSUME BooksInv, NEW a \in Accounts \cup {None}, NEW opened \in SUBSET Transfers
             PROVE  LET rows  == Sorted(DOMAIN Scoped(books, a).transactions, LAMBDA i, j : i > j)
                        its == MergeTransferRows(books, rows, opened)
                        shown(i) == {n \in DOMAIN its :
                            \/ its[n].kind = "tx" /\ its[n].tx = i
                            \/ its[n].kind = "transfer" /\ its[n].transferId = books.transactions[i].transferId}
                    IN  /\ \A k \in DOMAIN rows : Cardinality(shown(rows[k])) = 1
                        /\ \A j, k \in DOMAIN its : its[j] = its[k] => j = k
  BY DEF RowsShownOnce
<1> DEFINE S == DOMAIN Scoped(books, a).transactions
           rows == NewestFirst(S)
           its == MergeTransferRows(books, rows, opened)
<1>1. S \subseteq DOMAIN books.transactions
  BY DEF Scoped, BooksInv, Shaped
<1>2. S \in SUBSET Nat /\ IsFiniteSet(S) /\ Paid(books)
  BY <1>1, FS_Subset DEF BooksInv, Shaped, RowsFine, RowFine, Paid
<1> HIDE DEF S
<1>3. rows \in Seq(S) /\ Unrepeated(rows)
  BY <1>2, NewestFirstEach DEF Unrepeated
<1> HIDE DEF rows
<1>4. Once(books, rows, its)
  BY <1>2, <1>3, ItemsOnce
<1>5. ASSUME NEW k \in DOMAIN rows PROVE Cardinality(ShownAt(books, its, rows[k])) = 1
  <2>1. k \in 1 .. Len(rows)
    BY <1>3
  <2>2. ShownInOnePlace(books, its, rows[k])
    <3> HIDE DEF its
    <3>1. its = MergeTransferRows(books, rows, opened)
      BY DEF its
    <3> QED
      BY <1>2, <1>3, <2>1, <3>1, ShownInOne
  <2>3. PICK m : ShownAt(books, its, rows[k]) = {m}
    BY <2>2 DEF ShownInOnePlace
  <2> QED
    BY <2>3, FS_Singleton
<1>6. \A j, k \in DOMAIN its : its[j] = its[k] => j = k
  BY <1>4 DEF Once, Unrepeated
<1> HIDE DEF its
<1> QED
  BY <1>5, <1>6 DEF ShownAt, TransferOf, rows, NewestFirst, its, S

\* Whichever rows a filter leaves and whichever transfers are opened, the table
\* shows every row once, in an item of its own or in its transfer's, and no item
\* twice (mergeTransferRows).
THEOREM TableShowsOnce == BooksSpec => []RowsShownOnce
<1> QED
  BY InitBooks, NextBooks, BooksInvGives, PTL DEF BooksSpec

-----------------------------------------------------------------------------
(* The window of the table.  What is rendered was measured where the page  *)
(* was scrolled to then, for as many items as there are, or the effect     *)
(* still has to run.                                                       *)

\* The items that the rows make.
LEMMA MergedIsSequence ==
    ASSUME NEW b, NEW left, NEW ids \in Seq(left), NEW opened
    PROVE  \E U : /\ MergeTransferRows(b, ids, opened) \in Seq(U)
                  /\ \A u \in U : u.kind = "tx" => u.tx \in left
<1> DEFINE s == [n \in DOMAIN ids |-> IF Emits(b, ids, n) THEN ItemsOf(b, ids[n], opened) ELSE <<>>]
           Fine(u) == u.kind = "tx" => u.tx \in left
<1>1. DOMAIN ids = 1 .. Len(ids) /\ Len(ids) \in Nat
  OBVIOUS
<1>2. ASSUME NEW n \in 1 .. Len(ids)
      PROVE  \E U : s[n] \in Seq(U) /\ \A u \in U : Fine(u)
  <2> DEFINE x == b.transactions[ids[n]].transferId
             p == [kind |-> "tx", tx |-> ids[n]]
             q == [kind |-> "transfer", transferId |-> x]
             t == [kind |-> "leg", tx |-> OutLeg(b, x)]
             r == [kind |-> "leg", tx |-> InLeg(b, x)]
             U == {p, q, t, r}
  <2>1. s[n] \in {<<>>, <<p>>, <<q>> \o <<t, r>>, <<q>> \o <<>>}
    BY <1>1 DEF ItemsOf
  <2>2. Fine(p) /\ Fine(q) /\ Fine(t) /\ Fine(r)
    OBVIOUS
  <2> HIDE DEF s, Fine, p, q, t, r
  <2>3. <<>> \in Seq(U) /\ <<p>> \in Seq(U) /\ <<q>> \in Seq(U) /\ <<t, r>> \in Seq(U)
    OBVIOUS
  <2> HIDE DEF U
  <2>4. <<q>> \o <<t, r>> \in Seq(U) /\ <<q>> \o <<>> \in Seq(U)
    BY <2>3
  <2>5. s[n] \in Seq(U)
    BY <2>1, <2>3, <2>4
  <2>6. \A u \in U : Fine(u)
    BY <2>2 DEF U
  <2> QED
    BY <2>5, <2>6
<1>3. DOMAIN s = 1 .. Len(ids) /\ s = [n \in 1 .. Len(ids) |-> s[n]]
  BY <1>1
<1>4. MergeTransferRows(b, ids, opened) = FlattenSeq(s)
  BY DEF MergeTransferRows
<1> HIDE DEF s, Fine
<1>5. \A n \in 1 .. Len(ids) : \A j \in 1 .. Len(s[n]) : Fine(s[n][j])
  BY <1>2
<1>6. PICK U : /\ FlattenSeq(s) \in Seq(U)
               /\ \A u \in U : \E n \in 1 .. Len(ids) : \E j \in 1 .. Len(s[n]) : u = s[n][j]
  BY <1>1, <1>2, <1>3, SequencesFlattened
<1>7. \A u \in U : Fine(u)
  BY <1>5, <1>6
<1> QED
  BY <1>4, <1>6, <1>7 DEF Fine

\* The items are a sequence, whatever is filtered, opened and loaded.
LEMMA ItemsAreSequence ==
    ASSUME NEW newest, NEW hidden, NEW f, NEW selected, NEW opened
    PROVE  Len(ItemsOfView(newest, hidden, f, selected, opened)) \in Nat
<1> DEFINE rows == Combined(newest, hidden)
           left == InRange(AmountSourceRows(rows, f), selected)
           ids == NewestFirst(left)
           b == [transactions |-> [i \in rows |-> LegRows[i]]]
           merged == MergeTransferRows(b, ids, opened.transfers)
           s == [n \in DOMAIN merged |-> WithParts(merged[n], opened)]
<1>1. left \subseteq DOMAIN ViewRows
  BY DEF InRange, AmountSourceRows, Combined
<1>2. ItemsOfView(newest, hidden, f, selected, opened) = FlattenSeq(s)
  BY DEF ItemsOfView, NewestFirst
<1> HIDE DEF left, rows
<1>3. ids \in Seq(left)
  BY <1>1, LedgerViewAssumption, FS_Subset, NewestFirstEach
<1> HIDE DEF ids, b
<1>4. PICK U : merged \in Seq(U) /\ \A u \in U : u.kind = "tx" => u.tx \in left
  BY <1>3, MergedIsSequence
<1> HIDE DEF merged
<1>5. DOMAIN merged = 1 .. Len(merged) /\ Len(merged) \in Nat /\ \A n \in 1 .. Len(merged) : merged[n] \in U
  BY <1>4
<1>6. ASSUME NEW n \in 1 .. Len(merged) PROVE \E W : s[n] \in Seq(W)
  <2> DEFINE item == merged[n]
             splits == ViewRows[item.tx].splits
             parts == [k \in DOMAIN splits |-> [kind |-> "split", tx |-> item.tx, part |-> k]]
  <2>1. s[n] = <<item>> \/ (item.kind = "tx" /\ s[n] = <<item>> \o parts)
    BY <1>5 DEF WithParts
  <2>2. CASE s[n] = <<item>>
    <3> HIDE DEF s, item
    <3>1. <<item>> \in Seq({item})
      OBVIOUS
    <3> QED
      BY <2>2, <3>1
  <2>3. CASE item.kind = "tx" /\ s[n] = <<item>> \o parts
    <3>1. item.tx \in DOMAIN ViewRows
      BY <1>1, <1>4, <1>5, <2>3
    <3> HIDE DEF s, item
    <3>2. splits \in Seq([categoryId : Categories \cup {None}, amount : Int])
      BY <3>1, LedgerViewAssumption
    <3>3. DOMAIN splits = 1 .. Len(splits) /\ Len(splits) \in Nat
      BY <3>2
    <3> HIDE DEF splits
    <3> DEFINE Q == {[kind |-> "split", tx |-> item.tx, part |-> k] : k \in DOMAIN splits}
               W == {item} \cup Q
    <3>4. parts \in Seq(Q)
      BY <3>3
    <3>5. parts \in Seq(W) /\ <<item>> \in Seq(W)
      <4> HIDE DEF Q, parts
      <4>1. DOMAIN parts = 1 .. Len(parts) /\ Len(parts) \in Nat
            /\ \A k \in 1 .. Len(parts) : parts[k] \in Q /\ parts = [j \in 1 .. Len(parts) |-> parts[j]]
        BY <3>4
      <4> QED
        BY <3>4, <4>1
    <3> HIDE DEF W, parts
    <3>6. <<item>> \o parts \in Seq(W)
      BY <3>5
    <3> QED
      BY <2>3, <3>6
  <2> QED
    BY <2>1, <2>2, <2>3
<1>7. DOMAIN s = 1 .. Len(merged) /\ s = [n \in 1 .. Len(merged) |-> s[n]]
  BY <1>5
<1> HIDE DEF s
<1>8. \E W : FlattenSeq(s) \in Seq(W)
  BY <1>5, <1>6, <1>7, SequencesFlattened
<1> QED
  BY <1>2, <1>8
\* Pixels: how products compare, and what division leaves.
LEMMA ProductsCompare ==
    ASSUME NEW a \in Int, NEW b \in Int, NEW h \in Nat \ {0}, a * h < b * h
    PROVE  a < b
OBVIOUS

LEMMA QuotientBounds ==
    ASSUME NEW a \in Int, NEW h \in Nat \ {0}
    PROVE  LET q == a \div h IN q \in Int /\ q * h <= a /\ a < q * h + h
OBVIOUS

LEMMA CeilCovers ==
    ASSUME NEW a \in Nat, NEW h \in Nat \ {0}
    PROVE  CeilDiv(a, h) \in Int /\ a <= CeilDiv(a, h) * h
<1>1. a + h - 1 \in Int /\ h - 1 \in Int
  OBVIOUS
<1> DEFINE q == (a + h - 1) \div h
<1>2. q \in Int /\ q * h <= a + h - 1 /\ a + h - 1 < q * h + h
  BY <1>1, QuotientBounds
<1>3. CeilDiv(a, h) = q
  BY DEF CeilDiv
<1> HIDE DEF q
<1>4. q * h \in Int
  BY <1>2
<1> QED
  BY <1>2, <1>3, <1>4

\* The lesser and the greater of two numbers.
LEMMA OfTwo ==
    ASSUME NEW x \in Int, NEW y \in Int
    PROVE  /\ Max({x, y}) = IF x >= y THEN x ELSE y
           /\ Min({x, y}) = IF x =< y THEN x ELSE y
<1>1. \A z \in {x, y} : (\A w \in {x, y} : z >= w) => z = IF x >= y THEN x ELSE y
  OBVIOUS
<1>2. \A z \in {x, y} : (\A w \in {x, y} : z =< w) => z = IF x =< y THEN x ELSE y
  OBVIOUS
<1>3. \E z \in {x, y} : \A w \in {x, y} : z >= w
  BY x >= y \/ y >= x
<1>4. \E z \in {x, y} : \A w \in {x, y} : z =< w
  BY x =< y \/ y =< x
<1> QED
  BY <1>1, <1>2, <1>3, <1>4 DEF Max, Min

LEMMA WithinIs ==
    ASSUME NEW count \in Nat, NEW n \in Int
    PROVE  /\ Within(count, n) \in 0 .. count
           /\ \A k \in Nat : n <= k => Within(count, n) <= k
           /\ \A k \in Nat : k <= n /\ k <= count => k <= Within(count, n)
<1>1. Min({count, n}) = IF count =< n THEN count ELSE n
  BY OfTwo
<1> DEFINE m == Min({count, n})
<1>2. m \in Int
  BY <1>1
<1>3. Max({0, m}) = IF 0 >= m THEN 0 ELSE m
  BY <1>2, OfTwo
<1>4. Within(count, n) = IF 0 >= m THEN 0 ELSE m
  BY <1>3 DEF Within
<1>5. m = IF count =< n THEN count ELSE n
  BY <1>1
<1> HIDE DEF m
<1> QED
  BY <1>2, <1>4, <1>5

\* The rows that are cut off by the edges of the screen, and as many more as
\* are scrolled at most, are within what was measured.
LEMMA MeasuredCovers ==
    ASSUME NEW count \in Nat, NEW y \in Nat, NEW m \in Nat, NEW n \in 0 .. count - 1,
           m - y <= (Overscan - 1) * RowHeight, y - m <= (Overscan - 1) * RowHeight,
           TableTop + (n + 1) * RowHeight > y, TableTop + n * RowHeight < y + ScreenHeight
    PROVE  /\ Measured(count, m).start \in 0 .. n /\ Measured(count, m).end \in n + 1 .. count
<1> DEFINE first == (m - TableTop) \div RowHeight
           rows == Visible(ScreenHeight)
<1>1. /\ RowHeight \in Nat \ {0} /\ ScreenHeight \in Nat /\ TableTop \in Nat /\ Overscan \in Nat \ {0}
      /\ n \in Nat /\ n + 1 \in Nat /\ n + 1 <= count
  BY LedgerViewAssumption
<1>2. first \in Int /\ first * RowHeight <= m - TableTop /\ m - TableTop < first * RowHeight + RowHeight
  BY <1>1, QuotientBounds
<1>3. rows \in Int /\ ScreenHeight <= rows * RowHeight
  BY <1>1, CeilCovers DEF Visible
<1>4. /\ Measured(count, m).start = Within(count, first - Overscan)
      /\ Measured(count, m).end = Within(count, first + rows + Overscan)
  BY DEF Measured
<1> HIDE DEF first, rows
<1> DEFINE h == RowHeight
           o == Overscan
<1>5. /\ (n + 1) * h = n * h + h /\ (o - 1) * h = o * h - h
      /\ (first - o) * h = first * h - o * h
      /\ (first + rows + o) * h = first * h + rows * h + o * h
      /\ n * h \in Int /\ o * h \in Int /\ first * h \in Int /\ rows * h \in Int
  BY <1>1, <1>2, <1>3
<1>6. (first - o) * h < n * h
  BY <1>1, <1>2, <1>5
<1>7. n * h < (first + rows + o) * h
  BY <1>1, <1>2, <1>3, <1>5
<1>8. first - o < n /\ n < first + rows + o
  BY <1>1, <1>2, <1>3, <1>6, <1>7, ProductsCompare
<1>9. first - o \in Int /\ first + rows + o \in Int /\ first - o <= n /\ n + 1 <= first + rows + o
  BY <1>1, <1>2, <1>3, <1>8
<1> HIDE DEF h, o
<1> QED
  <2>1. Within(count, first - Overscan) \in 0 .. count /\ Within(count, first - Overscan) <= n
    BY <1>1, <1>9, WithinIs DEF o
  <2>2. /\ Within(count, first + rows + Overscan) \in 0 .. count
        /\ n + 1 <= Within(count, first + rows + Overscan)
    BY <1>1, <1>9, WithinIs DEF o
  <2> QED
    BY <1>1, <1>4, <2>1, <2>2

\* What holds after every step.
ViewInv ==
    /\ Count \in Nat /\ scrollY \in Nat /\ measuredAt \in Nat
    /\ counted = Count => Count = 0 \/ window = Measured(Count, measuredAt)

LEMMA ViewInvGives == ViewInv => ViewIsCovered
<1> SUFFICES ASSUME ViewInv, counted = Count,
                    Distance(scrollY, measuredAt) <= (Overscan - 1) * RowHeight,
                    NEW n \in OnScreen
             PROVE  n \in Rendered.start .. Rendered.end - 1
  BY DEF ViewIsCovered
<1>1. /\ n \in 0 .. Count - 1 /\ TableTop + (n + 1) * RowHeight > scrollY
      /\ TableTop + n * RowHeight < scrollY + ScreenHeight
  BY DEF OnScreen
<1>2. Count \in Nat /\ Count > 0 /\ scrollY \in Nat /\ measuredAt \in Nat
      /\ window = Measured(Count, measuredAt)
  BY <1>1 DEF ViewInv
<1>3. /\ measuredAt - scrollY <= (Overscan - 1) * RowHeight
      /\ scrollY - measuredAt <= (Overscan - 1) * RowHeight
  <2> DEFINE d == Distance(scrollY, measuredAt)
             k == (Overscan - 1) * RowHeight
  <2>1. d = IF scrollY - measuredAt >= measuredAt - scrollY THEN scrollY - measuredAt
            ELSE measuredAt - scrollY
    BY <1>2, OfTwo DEF Distance
  <2>2. k \in Int /\ d <= k
    BY LedgerViewAssumption
  <2> HIDE DEF d, k
  <2>3. measuredAt - scrollY <= k /\ scrollY - measuredAt <= k
    BY <1>2, <2>1, <2>2
  <2> QED
    BY <2>3 DEF k
<1> DEFINE c == Count
<1> HIDE DEF c
<1>4. window.start \in 0 .. n /\ window.end \in n + 1 .. c
  BY <1>1, <1>2, <1>3, MeasuredCovers DEF c
<1>5. c \in Nat /\ n \in 0 .. c - 1
  BY <1>1, <1>2 DEF c
<1>6. Rendered = [start |-> Min({window.start, c}), end |-> Min({window.end, c})]
  BY <1>4, <1>5 DEF Rendered, c
<1>7. ASSUME NEW x \in Int, x <= c PROVE Min({x, c}) = x
  <2>1. PICK k \in Int : k = c
    BY <1>5
  <2>2. Min({x, k}) = IF x =< k THEN x ELSE k
    BY OfTwo
  <2> QED
    BY <1>7, <2>1, <2>2
<1>8. Min({window.start, c}) = window.start /\ Min({window.end, c}) = window.end
  BY <1>4, <1>5, <1>7
<1> QED
  BY <1>4, <1>5, <1>6, <1>8

LEMMA ScrollTyped ==
    ASSUME NEW y \in Nat, NEW c \in Nat PROVE Min({y, MaxScroll(c)}) \in Nat
<1>1. TableTop + c * RowHeight - ScreenHeight \in Int
  BY LedgerViewAssumption
<1>2. MaxScroll(c) \in Nat
  <2> DEFINE m == TableTop + c * RowHeight - ScreenHeight
  <2>1. Max({0, m}) = IF 0 >= m THEN 0 ELSE m
    BY <1>1, OfTwo
  <2>2. MaxScroll(c) = Max({0, m})
    BY DEF MaxScroll
  <2>3. m \in Int
    BY <1>1
  <2> HIDE DEF m
  <2> QED
    BY <2>1, <2>2, <2>3
<1> QED
  BY <1>2, OfTwo

LEMMA InitView == ViewInit => ViewInv
<1> SUFFICES ASSUME ViewInit PROVE ViewInv
  OBVIOUS
<1>1. Count \in Nat
  BY ItemsAreSequence DEF ViewInit, Count
<1> QED
  BY <1>1 DEF ViewInit, ViewInv

\* A page that is rendered anew has its effect still to run, or as many items.
LEMMA RendersKeeps ==
    ASSUME ViewInv, NEW y \in Nat, RendersAt(y) PROVE ViewInv'
<1>1. Count' \in Nat
  <2>1. Len(ItemsOfView(arrived', hiddenShown', filter', amountRange', expanded')) \in Nat
    BY ItemsAreSequence
  <2> QED
    BY <2>1 DEF RendersAt, Count
<1>2. scrollY' \in Nat
  BY <1>1, ScrollTyped DEF RendersAt, ScrollsTo, Count
<1>3. counted = Count /\ counted' = counted /\ window' = window /\ measuredAt' = measuredAt
  BY DEF RendersAt, ScrollsTo
<1> QED
  BY <1>1, <1>2, <1>3 DEF ViewInv

LEMMA NextView == ViewInv /\ [ViewNext]_viewVars => ViewInv'
<1> SUFFICES ASSUME ViewInv, [ViewNext]_viewVars PROVE ViewInv'
  OBVIOUS
<1>1. Count \in Nat /\ scrollY \in Nat
  BY DEF ViewInv
<1>2. CASE Measure \/ EffectRuns
  BY <1>1, <1>2 DEF Measure, EffectRuns, ViewInv, Count
<1>3. CASE \E y \in 0 .. MaxScroll(Count) : Scroll(y)
  <2>1. PICK y \in Nat : Scroll(y)
    BY <1>3
  <2>2. Count' = Count /\ scrollY' \in Nat
    BY <1>1, <2>1, ScrollTyped DEF Scroll, ScrollsTo, Count
  <2> QED
    BY <2>1, <2>2 DEF Scroll, ScrollsTo, ViewInv
<1>4. CASE ResetAmounts \/ ShowHidden \/ HistoryArrives
  BY <1>1, <1>4, RendersKeeps DEF ResetAmounts, ShowHidden, HistoryArrives
<1>5. CASE \E f \in Filters : ChooseFilter(f)
  BY <1>5, RendersKeeps DEF ChooseFilter
<1>6. CASE \E low, high : ChooseAmounts(low, high)
  BY <1>6, RendersKeeps DEF ChooseAmounts
<1>7. CASE \E kind, x : ToggleItem(kind, x)
  BY <1>1, <1>7, RendersKeeps DEF ToggleItem
<1>8. CASE UNCHANGED viewVars
  BY <1>8 DEF viewVars, ViewInv, Count
<1> QED
  BY <1>2, <1>3, <1>4, <1>5, <1>6, <1>7, <1>8 DEF ViewNext

\* No gap is scrolled into view, however the list grows, shrinks and opens
\* under the person and however scrolls, frames and effects alternate
\* (useWindowedRows).
THEOREM NoGapInView == ViewSpec => []ViewIsCovered
<1> QED
  BY InitView, NextView, ViewInvGives, PTL DEF ViewSpec

-----------------------------------------------------------------------------
(* The board of categories.  As long as no call overtook another and no    *)
(* answer was lost there is one call under way at most, and the invariant  *)
(* says how far the page and the server may then be apart: for each call,  *)
(* by the request it is at and what became of it.                          *)

Kinds   == {"income", "expense", "goal"}
Patches == [group : Nat \cup {None}, target : Nat \cup {None}, archived : BOOLEAN \cup {None}]

CallFields == {"n", "op", "requests", "stage", "before", "card", "slot", "asked", "made", "read"}
Creating   == {"createCategory", "createGroup"}
Dragging   == {"move", "reorderGroups"}

\* The one request of a call from a dialog or a menu.
AsksFor(op, r) ==
    \/ op = "createCategory" /\ r \in [to : {"create"}, group : Nat, target : Nat]
    \/ op = "createGroup" /\ r \in [to : {"createGroup"}, kind : Kinds]
    \/ op = "patchCategory" /\ r \in [to : {"patch", "archiveGoal"}, id : Nat, patch : Patches]
    \/ op = "deleteCategory" /\ r \in [to : {"delete"}, id : Nat]
    \/ op = "patchGroup" /\ r \in [to : {"patchGroup"}, id : Nat, kind : Kinds]
    \/ op = "deleteGroup" /\ r \in [to : {"deleteGroup"}, id : Nat]

Patching == [to : {"patch"}, id : Nat, patch : Patches]
Listing(to) == [to : {to}, ids : Seq(Nat)]

CallTyped(c) ==
    /\ DOMAIN c = CallFields /\ c.stage \in {"sent", "ok", "failed"}
    /\ \/ /\ c.requests = <<c.requests[1]>> /\ AsksFor(c.op, c.requests[1])
          /\ c.op \in Creating => IsBoard(c.before) /\ (c.stage = "ok" => c.made \in Nat)
       \/ /\ c.op = "move" /\ Len(c.requests) = 2 /\ c.requests = <<c.requests[1], c.requests[2]>>
          /\ c.requests[1] \in Patching /\ c.requests[2] \in Listing("reorder")
       \/ /\ c.op = "move" /\ c.requests = <<c.requests[1]>> /\ c.requests[1] \in Listing("reorder")
       \/ /\ c.op = "reorderGroups" /\ c.requests = <<c.requests[1]>>
          /\ c.requests[1] \in Listing("reorderGroups")
       \/ /\ c.op \in Dragging /\ c.requests = <<[to |-> "load"]>>
          /\ c.stage = "ok" => IsBoard(c.read)

Slot == [group : Nat, index : Nat]

DragTyped(d) ==
    d # None => d \in [kind : {"card"}, id : Nat, over : Slot] \cup [kind : {"column"}, id : Nat, over : [index : Nat]]

PromptTyped(p) == p # None => p \in [card : Nat, slot : Slot, applying : BOOLEAN]

BoardTyped ==
    /\ IsBoard(board) /\ IsBoard(onServer) /\ boardAsked \in 0 .. MaxBoardAsked /\ crossed \in BOOLEAN
    /\ DragTyped(cardDrag) /\ PromptTyped(goalPrompt)
    /\ \A c \in boardCalls : CallTyped(c)

OrderAs(f, g) == \A x, y \in DOMAIN f : BySortThenId(f, x, y) <=> BySortThenId(g, x, y)

SameColumns(a, b) ==
    DOMAIN a.groups = DOMAIN b.groups /\ \A g \in DOMAIN a.groups : a.groups[g].kind = b.groups[g].kind

SameCards(a, b) ==
    /\ DOMAIN a.cats = DOMAIN b.cats
    /\ \A x \in DOMAIN a.cats :
          a.cats[x].group = b.cats[x].group /\ a.cats[x].archived = b.cats[x].archived

\* They are drawn the same way.
Alike(a, b) ==
    /\ SameColumns(a, b) /\ OrderAs(a.groups, b.groups)
    /\ SameCards(a, b) /\ OrderAs(a.cats, b.cats)

NotLater(b) ==
    /\ \A g \in DOMAIN b.groups : b.groups[g].sort <= Late
    /\ \A x \in DOMAIN b.cats : b.cats[x].sort <= Late

Limit == Late - MaxBoardAsked + boardAsked
Room(b, limit) == Below(b.groups, limit) /\ Below(b.cats, limit)

NumberedBy(these, ids) ==
    \A x \in DOMAIN these : x \in ToSet(ids) => these[x].sort = IndexIn(ids, x) + 1

\* What holds of a call made alone, b being shown and s saved.
AskInStep(b, s, c) ==
    /\ c.op \in Creating => c.before = b
    /\ IF c.stage = "ok" THEN Alike(ShownOnceSaved(b, c), s) ELSE Alike(b, s)

PatchInStep(b, s, limit, c) ==
    c.stage # "failed" =>
        /\ SameColumns(b, s) /\ OrderAs(b.groups, s.groups)
        /\ NumberedBy(b.cats, c.requests[2].ids) /\ Len(c.requests[2].ids) < limit
        /\ IF c.stage = "ok" THEN SameCards(b, s)
           ELSE c.requests[1].id \in DOMAIN s.cats => SameCards(b, Effected(s, c.requests[1]))

ReorderInStep(b, s, limit, c) ==
    /\ c.stage = "sent" => /\ SameColumns(b, s) /\ OrderAs(b.groups, s.groups) /\ SameCards(b, s)
                           /\ NumberedBy(b.cats, c.requests[1].ids) /\ Len(c.requests[1].ids) < limit
    /\ c.stage = "ok" => Alike(b, s)

ColumnsInStep(b, s, limit, c) ==
    /\ c.stage = "sent" => /\ SameCards(b, s) /\ OrderAs(b.cats, s.cats) /\ SameColumns(b, s)
                           /\ NumberedBy(b.groups, c.requests[1].ids) /\ Len(c.requests[1].ids) < limit
    /\ c.stage = "ok" => Alike(b, s)

CallInStep(b, s, limit, c) ==
    /\ Room(s, IF c.op \in Creating /\ c.stage # "ok" THEN limit - 1 ELSE limit)
    /\ c.requests[1].to = "load" => (c.stage = "ok" => c.read = s)
    /\ c.op = "move" /\ c.requests[1].to = "patch" => PatchInStep(b, s, limit, c)
    /\ c.requests[1].to = "reorder" => ReorderInStep(b, s, limit, c)
    /\ c.requests[1].to = "reorderGroups" => ColumnsInStep(b, s, limit, c)
    /\ c.op \notin Dragging => AskInStep(b, s, c)

InStepWith(b, s, calls, limit) ==
    /\ NotLater(b)
    /\ calls = {} => Alike(b, s) /\ Room(s, limit)
    /\ \A c \in calls : calls = {c} /\ CallInStep(b, s, limit, c)

InStep == InStepWith(board, onServer, boardCalls, Limit)

BoardInv == BoardTyped /\ (~crossed => InStep)

-----------------------------------------------------------------------------
(* Boards, and patches of their cards.                                      *)

LEMMA NoneOut == None \notin Nat /\ MaxBoardAsked \in Nat /\ GroupKinds \subseteq Kinds /\ Late \in Nat
BY CategoryBoardAssumption DEF Kinds, Late

LEMMA BoardParts ==
    ASSUME NEW b, IsBoard(b)
    PROVE  /\ b = [groups |-> b.groups, cats |-> b.cats]
           /\ b.groups \in [DOMAIN b.groups -> Column] /\ b.cats \in [DOMAIN b.cats -> Card]
BY DEF IsBoard

LEMMA CatsReplaced ==
    ASSUME NEW b, IsBoard(b), NEW f, f \in [DOMAIN f -> Card], DOMAIN f \subseteq Nat, IsFiniteSet(DOMAIN f),
           NEW d, d = [b EXCEPT !.cats = f]
    PROVE  IsBoard(d) /\ d.groups = b.groups /\ d.cats = f
<1>1. d = [groups |-> b.groups, cats |-> f]
  BY BoardParts
<1>2. d.groups = b.groups /\ d.cats = f
  BY <1>1
<1> QED
  BY <1>1, <1>2, BoardParts DEF IsBoard

LEMMA GroupsReplaced ==
    ASSUME NEW b, IsBoard(b), NEW f, f \in [DOMAIN f -> Column], DOMAIN f \subseteq Nat, IsFiniteSet(DOMAIN f),
           NEW d, d = [b EXCEPT !.groups = f]
    PROVE  IsBoard(d) /\ d.groups = f /\ d.cats = b.cats
<1>1. d = [groups |-> f, cats |-> b.cats]
  BY BoardParts
<1>2. d.groups = f /\ d.cats = b.cats
  BY <1>1
<1> QED
  BY <1>1, <1>2, BoardParts DEF IsBoard

PutCat(b, id, cat) == [b EXCEPT !.cats[id] = cat]

LEMMA OneCat ==
    ASSUME NEW b, IsBoard(b), NEW id \in DOMAIN b.cats, NEW cat \in Card,
           NEW d, d = PutCat(b, id, cat)
    PROVE  IsBoard(d) /\ d.groups = b.groups /\ d.cats = [b.cats EXCEPT ![id] = cat]
<1>1. d = [b EXCEPT !.cats = [b.cats EXCEPT ![id] = cat]]
  BY BoardParts DEF PutCat
<1> DEFINE f == [b.cats EXCEPT ![id] = cat]
<1>2. f \in [DOMAIN b.cats -> Card] /\ DOMAIN f = DOMAIN b.cats
  BY BoardParts
<1> HIDE DEF f
<1>3. d = [b EXCEPT !.cats = f]
  BY <1>1 DEF f
<1> QED
  BY <1>2, <1>3, CatsReplaced DEF IsBoard, f

PutKind(b, g, kind) == [b EXCEPT !.groups[g].kind = kind]

LEMMA OneGroup ==
    ASSUME NEW b, IsBoard(b), NEW g \in DOMAIN b.groups, NEW kind \in Kinds,
           NEW d, d = PutKind(b, g, kind)
    PROVE  /\ IsBoard(d) /\ d.cats = b.cats
           /\ d.groups = [b.groups EXCEPT ![g] = [kind |-> kind, sort |-> b.groups[g].sort]]
<1> DEFINE f == [b.groups EXCEPT ![g] = [kind |-> kind, sort |-> b.groups[g].sort]]
<1>1. [b.groups[g] EXCEPT !.kind = kind] = [kind |-> kind, sort |-> b.groups[g].sort]
  BY BoardParts DEF Column
<1>2. d = [b EXCEPT !.groups = f]
  BY <1>1, BoardParts DEF PutKind
<1>3. f \in [DOMAIN b.groups -> Column] /\ DOMAIN f = DOMAIN b.groups
  BY BoardParts DEF Column, Kinds
<1> HIDE DEF f
<1> QED
  BY <1>2, <1>3, GroupsReplaced DEF IsBoard, f

LEMMA FirstPlace ==
    ASSUME NEW U, NEW seq \in Seq(U), NEW x
    PROVE  /\ IndexIn(seq, x) \in 0 .. Len(seq)
           /\ IndexIn(seq, x) < Len(seq) => seq[IndexIn(seq, x) + 1] = x
           /\ x \in ToSet(seq) => IndexIn(seq, x) < Len(seq)
           /\ \A n \in 0 .. Len(seq) - 1 : seq[n + 1] = x => IndexIn(seq, x) <= n
<1> DEFINE T == {n \in 0 .. Len(seq) : n = Len(seq) \/ seq[n + 1] = x}
           m == IndexIn(seq, x)
<1>1. Len(seq) \in Nat /\ T \subseteq Nat /\ Len(seq) \in T
  OBVIOUS
<1>2. \E n \in T : \A k \in T : n <= k
  BY <1>1, Least
<1>3. m = CHOOSE n \in T : \A k \in T : n <= k
  BY DEF IndexIn, Min
<1> HIDE DEF m
<1>4. m \in T /\ \A k \in T : m <= k
  BY <1>2, <1>3
<1>5. ASSUME x \in ToSet(seq) PROVE m < Len(seq)
  <2>1. PICK i \in 1 .. Len(seq) : seq[i] = x
    BY <1>5 DEF ToSet
  <2>2. i - 1 \in T
    BY <2>1
  <2> QED
    <3>1. m <= i - 1 /\ m \in Nat
      BY <1>1, <1>4, <2>2
    <3> QED
      BY <2>1, <3>1
<1>6. m \in 0 .. Len(seq) /\ (m < Len(seq) => seq[m + 1] = x)
  BY <1>1, <1>4
<1>7. ASSUME NEW n \in 0 .. Len(seq) - 1, seq[n + 1] = x PROVE m <= n
  <2>1. n \in T
    BY <1>1, <1>7
  <2> QED
    BY <1>4, <2>1
<1> QED
  BY <1>5, <1>6, <1>7 DEF m

LEMMA GivenIs == ASSUME NEW T, NEW v \in T \cup {None}, NEW w \in T PROVE Given(v, w) \in T
BY DEF Given

LEMMA MergedIs ==
    ASSUME NEW cat, NEW patch
    PROVE  Merged(cat, patch) = [group |-> Given(patch.group, cat.group), sort |-> cat.sort,
                                 target |-> Given(patch.target, cat.target),
                                 archived |-> Given(patch.archived, cat.archived)]
BY DEF Merged

LEMMA MergedTyped == ASSUME NEW cat \in Card, NEW patch \in Patches PROVE Merged(cat, patch) \in Card
<1>1. Given(patch.group, cat.group) \in Nat
  BY GivenIs DEF Card, Patches
<1>2. Given(patch.target, cat.target) \in Nat
  BY GivenIs DEF Card, Patches
<1>3. Given(patch.archived, cat.archived) \in BOOLEAN
  BY GivenIs DEF Card, Patches
<1> QED
  BY <1>1, <1>2, <1>3, MergedIs DEF Card

\* What the server makes of a patch.
LEMMA PatchedIs ==
    ASSUME NEW b, NEW cat \in Card, NEW patch \in Patches, NEW p, p = Patched(b, cat, patch)
    PROVE  /\ p \in Card /\ p.sort = cat.sort /\ p.group = Given(patch.group, cat.group)
           /\ p.archived = Given(patch.archived, cat.archived)
<1> DEFINE m == Merged(cat, patch)
           t == IF IsGoalGroup(b, m.group) THEN m.target ELSE IF patch.group # None THEN 0 ELSE cat.target
<1>1. m \in Card /\ m = [group |-> Given(patch.group, cat.group), sort |-> cat.sort,
                         target |-> Given(patch.target, cat.target),
                         archived |-> Given(patch.archived, cat.archived)]
  BY MergedIs, MergedTyped
<1>2. p = [m EXCEPT !.target = t]
  BY DEF Patched
<1>3. t \in Nat
  BY <1>1 DEF Card
<1> HIDE DEF m, t
<1> QED
  BY <1>1, <1>2, <1>3 DEF Card

LEMMA ShownPatchIs ==
    ASSUME NEW b, IsBoard(b), NEW id, NEW patch \in Patches, NEW d, d = ShownPatch(b, id, patch)
    PROVE  /\ IsBoard(d) /\ (id \notin DOMAIN b.cats => d = b)
           /\ id \in DOMAIN b.cats =>
                /\ d.groups = b.groups /\ DOMAIN d.cats = DOMAIN b.cats
                /\ \A x \in DOMAIN b.cats : x # id => d.cats[x] = b.cats[x]
                /\ d.cats[id].sort = b.cats[id].sort
                /\ d.cats[id].group = Given(patch.group, b.cats[id].group)
                /\ d.cats[id].archived = Given(patch.archived, b.cats[id].archived)
<1>1. CASE id \notin DOMAIN b.cats
  BY <1>1 DEF ShownPatch
<1>2. CASE id \in DOMAIN b.cats
  <2> DEFINE cat == b.cats[id]
             m == Merged(cat, patch)
             p == IF patch.group \in DOMAIN b.groups /\ ~IsGoalGroup(b, patch.group)
                  THEN [m EXCEPT !.target = 0] ELSE m
  <2>1. cat \in Card
    BY <1>2, BoardParts
  <2>2. m \in Card /\ m = [group |-> Given(patch.group, cat.group), sort |-> cat.sort,
                           target |-> Given(patch.target, cat.target),
                           archived |-> Given(patch.archived, cat.archived)]
    BY <2>1, MergedIs, MergedTyped
  <2>3. d = PutCat(b, id, p)
    BY <1>2 DEF ShownPatch, PutCat
  <2> HIDE DEF m
  <2>4. p \in Card /\ p.sort = cat.sort /\ p.group = m.group /\ p.archived = m.archived
    BY <2>2 DEF Card
  <2> HIDE DEF p
  <2>5. IsBoard(d) /\ d.groups = b.groups /\ d.cats = [b.cats EXCEPT ![id] = p]
    <3>1. p \in Card
      BY <2>4
    <3> QED
      BY <1>2, <2>3, <3>1, OneCat
  <2>6. p.group = Given(patch.group, cat.group) /\ p.archived = Given(patch.archived, cat.archived)
    BY <2>2, <2>4
  <2>7. /\ DOMAIN d.cats = DOMAIN b.cats /\ d.cats[id] = p
        /\ \A x \in DOMAIN b.cats : x # id => d.cats[x] = b.cats[x]
    BY <1>2, <2>5
  <2> QED
    BY <1>2, <2>4, <2>5, <2>6, <2>7
<1> QED
  BY <1>1, <1>2

-----------------------------------------------------------------------------
(* What is sorted by sort and id: each once, the same if the order is the   *)
(* same.                                                                   *)

\* Things with a sort, by id.
Sortable(f, S) == IsFiniteSet(S) /\ S \subseteq Nat /\ \A x \in S : f[x].sort \in Nat

SortPairs(f, S) == {p \in S \X S : BySortThenId(f, p[1], p[2])}

RankedIn(S, R) ==
    /\ Cardinality(S) \in Nat
    /\ \A x \in S : Place(x, S, R) \in 0 .. Cardinality(S) - 1
    /\ \A x, y \in S : <<x, y>> \in R => Place(x, S, R) < Place(y, S, R)
    /\ \A i \in 0 .. Cardinality(S) - 1 : \E x \in S : Place(x, S, R) = i

LEMMA PairIs ==
    ASSUME NEW f, NEW S, NEW x \in S, NEW y \in S
    PROVE  <<x, y>> \in SortPairs(f, S) <=> BySortThenId(f, x, y)
BY DEF SortPairs

LEMMA SortStrict ==
    ASSUME NEW f, NEW S, Sortable(f, S)
    PROVE  /\ \A x \in S : ~BySortThenId(f, x, x)
           /\ \A x, y, z \in S : BySortThenId(f, x, y) /\ BySortThenId(f, y, z) => BySortThenId(f, x, z)
           /\ \A x, y \in S : x = y \/ BySortThenId(f, x, y) \/ BySortThenId(f, y, x)
<1>1. \A x \in S : f[x].sort \in Int /\ x \in Int
  BY DEF Sortable
<1>2. \A x \in S : ~BySortThenId(f, x, x)
  BY <1>1 DEF BySortThenId
<1>3. ASSUME NEW x \in S, NEW y \in S, NEW z \in S, BySortThenId(f, x, y), BySortThenId(f, y, z)
      PROVE  BySortThenId(f, x, z)
  BY <1>1, <1>3 DEF BySortThenId
<1>4. ASSUME NEW x \in S, NEW y \in S
      PROVE  x = y \/ BySortThenId(f, x, y) \/ BySortThenId(f, y, x)
  BY <1>1 DEF BySortThenId
<1> QED
  BY <1>2, <1>3, <1>4

LEMMA StrictRanked ==
    ASSUME NEW S, IsFiniteSet(S), NEW R,
           \A x \in S : <<x, x>> \notin R,
           \A x, y, z \in S : <<x, y>> \in R /\ <<y, z>> \in R => <<x, z>> \in R,
           \A x, y \in S : x = y \/ <<x, y>> \in R \/ <<y, x>> \in R
    PROVE  RankedIn(S, R)
<1>1. Cardinality(S) \in Nat
  BY Places
<1>2. \A x \in S : Place(x, S, R) \in 0 .. Cardinality(S) - 1
  BY Places
<1>3. \A x, y \in S : <<x, y>> \in R => Place(x, S, R) < Place(y, S, R)
  BY Places
<1>4. \A i \in 0 .. Cardinality(S) - 1 : \E x \in S : Place(x, S, R) = i
  BY Places
<1> QED
  BY <1>1, <1>2, <1>3, <1>4 DEF RankedIn

LEMMA SortRanked ==
    ASSUME NEW f, NEW S, Sortable(f, S), NEW R, R = SortPairs(f, S)
    PROVE  /\ RankedIn(S, R)
           /\ \A x \in S : Place(x, S, R) = Cardinality({y \in S : BySortThenId(f, y, x)})
           /\ \A x, y \in S : Place(x, S, R) = Place(y, S, R) => x = y
<1>1. \A x, y \in S : <<x, y>> \in R <=> BySortThenId(f, x, y)
  BY PairIs
<1>2. \A x \in S : Place(x, S, R) = Cardinality({y \in S : BySortThenId(f, y, x)})
  <2>1. \A x \in S : {y \in S : <<y, x>> \in R} = {y \in S : BySortThenId(f, y, x)}
    BY <1>1
  <2> QED
    BY <2>1 DEF Place
<1>3. IsFiniteSet(S)
  BY DEF Sortable
<1>4. RankedIn(S, R)
  <2>1. \A x \in S : <<x, x>> \notin R
    BY <1>1, SortStrict
  <2>2. \A x, y, z \in S : <<x, y>> \in R /\ <<y, z>> \in R => <<x, z>> \in R
    BY <1>1, SortStrict
  <2>3. \A x, y \in S : x = y \/ <<x, y>> \in R \/ <<y, x>> \in R
    BY <1>1, SortStrict
  <2> QED
    BY <1>3, <2>1, <2>2, <2>3, StrictRanked
<1>5. ASSUME NEW x \in S, NEW y \in S, Place(x, S, R) = Place(y, S, R) PROVE x = y
  <2>1. ~(Place(x, S, R) < Place(y, S, R)) /\ ~(Place(y, S, R) < Place(x, S, R))
    <3>1. Place(x, S, R) \in Int /\ Place(y, S, R) \in Int
      BY <1>4 DEF RankedIn
    <3>2. \A p \in Int : ~(p < p)
      OBVIOUS
    <3> QED
      BY <1>5, <3>1, <3>2
  <2>2. <<x, y>> \notin R /\ <<y, x>> \notin R
    BY <1>4, <2>1 DEF RankedIn
  <2> QED
    BY <1>1, <2>2, SortStrict
<1> QED
  BY <1>2, <1>4, <1>5

\* A set sorted: each of its elements in its place.
SortedIs(s, f, S) ==
    /\ s \in Seq(S) /\ Len(s) = Cardinality(S) /\ Cardinality(S) \in Nat
    /\ \A i, j \in 1 .. Len(s) : i < j => BySortThenId(f, s[i], s[j])
    /\ \A x \in S : \E i \in 1 .. Len(s) : s[i] = x

LEMMA SortedPlaced ==
    ASSUME NEW f, NEW S, Sortable(f, S), NEW R, R = SortPairs(f, S), NEW s, s = SortedById(f, S),
           NEW n, n = Cardinality(S)
    PROVE  /\ n \in Nat /\ s = [i \in 1 .. n |-> s[i]]
           /\ \A i \in 1 .. n : s[i] \in S /\ Place(s[i], S, R) = i - 1
<1> DEFINE Nth(i) == CHOOSE x \in S : Cardinality({y \in S : BySortThenId(f, y, x)}) = i - 1
<1>1. s = [i \in 1 .. n |-> Nth(i)]
  BY DEF SortedById, Sorted
<1>2. /\ RankedIn(S, R)
      /\ \A x \in S : Place(x, S, R) = Cardinality({y \in S : BySortThenId(f, y, x)})
  BY SortRanked
<1>3. ASSUME NEW i \in 1 .. n PROVE Nth(i) \in S /\ Place(Nth(i), S, R) = i - 1
  <2>1. i - 1 \in 0 .. n - 1
    BY <1>2 DEF RankedIn
  <2>2. \E x \in S : Place(x, S, R) = i - 1
    BY <1>2, <2>1 DEF RankedIn
  <2>3. \E x \in S : Cardinality({y \in S : BySortThenId(f, y, x)}) = i - 1
    BY <1>2, <2>2
  <2>4. Nth(i) \in S /\ Cardinality({y \in S : BySortThenId(f, y, Nth(i))}) = i - 1
    BY <2>3
  <2> QED
    BY <1>2, <2>4
<1>4. n \in Nat
  BY <1>2 DEF RankedIn
<1> HIDE DEF Nth
<1>5. \A i \in 1 .. n : s[i] = Nth(i)
  BY <1>1
<1> QED
  BY <1>1, <1>3, <1>4, <1>5

LEMMA SortedEach ==
    ASSUME NEW f, NEW S, Sortable(f, S), NEW s, s = SortedById(f, S)
    PROVE  SortedIs(s, f, S)
<1> DEFINE R == SortPairs(f, S)
           n == Cardinality(S)
<1>1. /\ n \in Nat /\ s = [i \in 1 .. n |-> s[i]]
      /\ \A i \in 1 .. n : s[i] \in S /\ Place(s[i], S, R) = i - 1
  BY SortedPlaced
<1>2. /\ RankedIn(S, R)
      /\ \A x, y \in S : Place(x, S, R) = Place(y, S, R) => x = y
  BY SortRanked
<1>3. \A x, y \in S : <<x, y>> \in R <=> BySortThenId(f, x, y)
  BY PairIs
<1> HIDE DEF R, n
<1>4. s \in Seq(S) /\ Len(s) = n
  BY <1>1
<1>5. ASSUME NEW i \in 1 .. n, NEW j \in 1 .. n, i < j PROVE BySortThenId(f, s[i], s[j])
  <2>1. /\ s[i] \in S /\ s[j] \in S /\ Place(s[i], S, R) = i - 1 /\ Place(s[j], S, R) = j - 1
    BY <1>1
  <2>2. ~(Place(s[j], S, R) < Place(s[i], S, R)) /\ s[i] # s[j]
    BY <1>1, <1>5, <2>1
  <2>3. <<s[j], s[i]>> \notin R
    BY <1>2, <2>1, <2>2 DEF RankedIn
  <2> QED
    BY <1>3, <2>1, <2>2, <2>3, SortStrict
<1>6. ASSUME NEW x \in S PROVE \E i \in 1 .. n : s[i] = x
  <2>1. Place(x, S, R) \in 0 .. n - 1
    BY <1>2 DEF RankedIn, n
  <2>2. PICK i \in 1 .. n : i - 1 = Place(x, S, R)
    <3>1. Place(x, S, R) + 1 \in 1 .. n /\ (Place(x, S, R) + 1) - 1 = Place(x, S, R)
      BY <1>1, <2>1
    <3> QED
      BY <3>1
  <2>3. s[i] \in S /\ Place(s[i], S, R) = Place(x, S, R)
    BY <1>1, <2>2
  <2> QED
    BY <1>2, <2>3
<1> QED
  BY <1>1, <1>4, <1>5, <1>6 DEF SortedIs, n

\* Two orders that agree sort a set the same way.
LEMMA SortedSame ==
    ASSUME NEW f, NEW g, NEW S, Sortable(f, S), Sortable(g, S),
           \A x, y \in S : BySortThenId(f, x, y) <=> BySortThenId(g, x, y)
    PROVE  SortedById(f, S) = SortedById(g, S)
<1> DEFINE R == SortPairs(f, S)
           n == Cardinality(S)
           s == SortedById(f, S)
           t == SortedById(g, S)
<1>1. R = SortPairs(g, S)
  BY DEF SortPairs
<1>2. /\ n \in Nat /\ s = [i \in 1 .. n |-> s[i]]
      /\ \A i \in 1 .. n : s[i] \in S /\ Place(s[i], S, R) = i - 1
  BY SortedPlaced
<1> HIDE DEF R
<1>3. /\ t = [i \in 1 .. n |-> t[i]]
      /\ \A i \in 1 .. n : t[i] \in S /\ Place(t[i], S, R) = i - 1
  BY <1>1, SortedPlaced
<1>4. \A x, y \in S : Place(x, S, R) = Place(y, S, R) => x = y
  BY SortRanked DEF R
<1> HIDE DEF s, t, n
<1>5. \A i \in 1 .. n : s[i] = t[i]
  BY <1>2, <1>3, <1>4
<1> QED
  BY <1>2, <1>3, <1>5 DEF s, t

-----------------------------------------------------------------------------
(* What is created, deleted and numbered.                                   *)

LEMMA MaxIs ==
    ASSUME NEW S, S \subseteq Nat, IsFiniteSet(S), NEW m, m = Max({0} \cup S)
    PROVE  m \in Nat /\ m \in {0} \cup S /\ \A x \in S : x <= m
<1> DEFINE T == {0} \cup S
<1>1. T \subseteq Int /\ T # {} /\ IsFiniteSet(T) /\ T \subseteq Nat
  <2>1. IsFiniteSet({0} \cup S)
    BY FS_Singleton, FS_Union
  <2> QED
    BY <2>1
<1>2. \E x \in T : \A y \in T : x >= y
  BY <1>1, Greatest
<1>3. m = CHOOSE x \in T : \A y \in T : x >= y
  BY DEF Max
<1>4. m \in T /\ \A y \in T : m >= y
  BY <1>2, <1>3
<1>5. \A x \in S : m >= x /\ x \in Nat
  BY <1>4
<1> QED
  BY <1>1, <1>4, <1>5

LEMMA NewIdIs ==
    ASSUME NEW these, IsFiniteSet(DOMAIN these), DOMAIN these \subseteq Nat, NEW id, id = NewId(these)
    PROVE  id \in Nat /\ \A x \in DOMAIN these : x < id
<1> DEFINE m == Max({0} \cup DOMAIN these)
<1>1. m \in Nat /\ \A x \in DOMAIN these : x <= m
  BY MaxIs
<1>2. id = m + 1
  BY DEF NewId
<1> HIDE DEF m
<1> QED
  BY <1>1, <1>2

LEMMA LastSortIs ==
    ASSUME NEW these, Sortable(these, DOMAIN these), NEW n, n = LastSort(these)
    PROVE  /\ n \in Nat /\ \A x \in DOMAIN these : these[x].sort <= n
           /\ n = 0 \/ \E x \in DOMAIN these : these[x].sort = n
<1> DEFINE S == {these[x].sort : x \in DOMAIN these}
           SortOf(x) == these[x].sort
<1>1. IsFiniteSet(S)
  <2>1. IsFiniteSet(DOMAIN these)
    BY DEF Sortable
  <2> DEFINE f == [x \in DOMAIN these |-> these[x].sort]
  <2>2. f \in Surjection(DOMAIN these, S)
    BY DEF Surjection
  <2> QED
    BY <2>1, <2>2, FS_Surjection
<1>2. S \subseteq Nat
  BY DEF Sortable
<1>3. n = Max({0} \cup S)
  BY DEF LastSort
<1>4. n \in Nat /\ n \in {0} \cup S /\ \A x \in S : x <= n
  BY <1>1, <1>2, <1>3, MaxIs
<1> QED
  BY <1>4

LEMMA BoardSortable ==
    ASSUME NEW b, IsBoard(b)
    PROVE  /\ Sortable(b.groups, DOMAIN b.groups) /\ Sortable(b.cats, DOMAIN b.cats)
           /\ \A S \in SUBSET DOMAIN b.cats : Sortable(b.cats, S)
<1>1. \A g \in DOMAIN b.groups : b.groups[g].sort \in Nat
  BY BoardParts DEF Column
<1>2. \A x \in DOMAIN b.cats : b.cats[x].sort \in Nat
  BY BoardParts DEF Card
<1>3. IsFiniteSet(DOMAIN b.groups) /\ DOMAIN b.groups \subseteq Nat
  BY DEF IsBoard
<1>4. IsFiniteSet(DOMAIN b.cats) /\ DOMAIN b.cats \subseteq Nat
  BY DEF IsBoard
<1>5. ASSUME NEW S \in SUBSET DOMAIN b.cats PROVE Sortable(b.cats, S)
  BY <1>2, <1>4, FS_Subset DEF Sortable
<1> QED
  BY <1>1, <1>3, <1>4, <1>5 DEF Sortable

LEMMA CatAdded ==
    ASSUME NEW b, IsBoard(b), NEW id \in Nat, NEW cat \in Card, NEW d, d = WithCat(b, id, cat)
    PROVE  /\ IsBoard(d) /\ d.groups = b.groups
           /\ DOMAIN d.cats = DOMAIN b.cats \cup {id} /\ d.cats[id] = cat
           /\ \A x \in DOMAIN b.cats : x # id => d.cats[x] = b.cats[x]
<1> DEFINE f == With(b.cats, id, cat)
<1>1. f = [x \in DOMAIN b.cats \cup {id} |-> IF x = id THEN cat ELSE b.cats[x]]
  BY DEF With
<1>2. f \in [DOMAIN f -> Card]
  BY <1>1, BoardParts
<1>3. DOMAIN f \subseteq Nat /\ IsFiniteSet(DOMAIN f)
  BY <1>1, FS_AddElement DEF IsBoard
<1>4. d = [b EXCEPT !.cats = f]
  BY DEF WithCat
<1> HIDE DEF f
<1>5. /\ DOMAIN f = DOMAIN b.cats \cup {id} /\ f[id] = cat
      /\ \A x \in DOMAIN b.cats : x # id => f[x] = b.cats[x]
  BY <1>1
<1> QED
  BY <1>2, <1>3, <1>4, <1>5, CatsReplaced

LEMMA GroupAdded ==
    ASSUME NEW b, IsBoard(b), NEW id \in Nat, NEW group \in Column, NEW d, d = WithGroup(b, id, group)
    PROVE  /\ IsBoard(d) /\ d.cats = b.cats
           /\ DOMAIN d.groups = DOMAIN b.groups \cup {id} /\ d.groups[id] = group
           /\ \A x \in DOMAIN b.groups : x # id => d.groups[x] = b.groups[x]
<1> DEFINE f == With(b.groups, id, group)
<1>1. f = [x \in DOMAIN b.groups \cup {id} |-> IF x = id THEN group ELSE b.groups[x]]
  BY DEF With
<1>2. f \in [DOMAIN f -> Column]
  BY <1>1, BoardParts
<1>3. DOMAIN f \subseteq Nat /\ IsFiniteSet(DOMAIN f)
  BY <1>1, FS_AddElement DEF IsBoard
<1>4. d = [b EXCEPT !.groups = f]
  BY DEF WithGroup
<1> HIDE DEF f
<1>5. /\ DOMAIN f = DOMAIN b.groups \cup {id} /\ f[id] = group
      /\ \A x \in DOMAIN b.groups : x # id => f[x] = b.groups[x]
  BY <1>1
<1> QED
  BY <1>2, <1>3, <1>4, <1>5, GroupsReplaced

CatsLeft(b, id) == [b EXCEPT !.cats = Without(b.cats, id)]
GroupsLeft(b, id) == [b EXCEPT !.groups = Without(b.groups, id)]

LEMMA CatRemoved ==
    ASSUME NEW b, IsBoard(b), NEW id, NEW d, d = CatsLeft(b, id)
    PROVE  /\ IsBoard(d) /\ d.groups = b.groups /\ DOMAIN d.cats = DOMAIN b.cats \ {id}
           /\ \A x \in DOMAIN d.cats : d.cats[x] = b.cats[x]
<1> DEFINE f == Without(b.cats, id)
<1>1. f = [x \in DOMAIN b.cats \ {id} |-> b.cats[x]]
  BY DEF Without
<1>2. f \in [DOMAIN f -> Card]
  BY <1>1, BoardParts
<1>3. DOMAIN f \subseteq Nat /\ IsFiniteSet(DOMAIN f)
  BY <1>1, FS_RemoveElement DEF IsBoard
<1>4. d = [b EXCEPT !.cats = f]
  BY DEF CatsLeft
<1> HIDE DEF f
<1>5. DOMAIN f = DOMAIN b.cats \ {id} /\ \A x \in DOMAIN f : f[x] = b.cats[x]
  BY <1>1
<1> QED
  BY <1>2, <1>3, <1>4, <1>5, CatsReplaced

LEMMA GroupRemoved ==
    ASSUME NEW b, IsBoard(b), NEW id, NEW d, d = GroupsLeft(b, id)
    PROVE  /\ IsBoard(d) /\ d.cats = b.cats /\ DOMAIN d.groups = DOMAIN b.groups \ {id}
           /\ \A x \in DOMAIN d.groups : d.groups[x] = b.groups[x]
<1> DEFINE f == Without(b.groups, id)
<1>1. f = [x \in DOMAIN b.groups \ {id} |-> b.groups[x]]
  BY DEF Without
<1>2. f \in [DOMAIN f -> Column]
  BY <1>1, BoardParts
<1>3. DOMAIN f \subseteq Nat /\ IsFiniteSet(DOMAIN f)
  BY <1>1, FS_RemoveElement DEF IsBoard
<1>4. d = [b EXCEPT !.groups = f]
  BY DEF GroupsLeft
<1> HIDE DEF f
<1>5. DOMAIN f = DOMAIN b.groups \ {id} /\ \A x \in DOMAIN f : f[x] = b.groups[x]
  BY <1>1
<1> QED
  BY <1>2, <1>3, <1>4, <1>5, GroupsReplaced

\* Numbering changes nothing but the sorts.
LEMMA CatsResorted ==
    ASSUME NEW these, these \in [DOMAIN these -> Card], NEW ids \in Seq(Nat), NEW f, f = Resorted(these, ids)
    PROVE  /\ f \in [DOMAIN these -> Card] /\ DOMAIN f = DOMAIN these
           /\ NumberedBy(f, ids)
           /\ \A x \in DOMAIN these :
                 /\ f[x].group = these[x].group /\ f[x].archived = these[x].archived
                 /\ x \notin ToSet(ids) => f[x].sort = these[x].sort
<1>1. f = [x \in DOMAIN these |-> IF x \in ToSet(ids) THEN [these[x] EXCEPT !.sort = IndexIn(ids, x) + 1]
                                                      ELSE these[x]]
  BY DEF Resorted
<1>2. ASSUME NEW x \in DOMAIN these
      PROVE  /\ f[x] \in Card /\ f[x].group = these[x].group /\ f[x].archived = these[x].archived
             /\ f[x].sort = IF x \in ToSet(ids) THEN IndexIn(ids, x) + 1 ELSE these[x].sort
  <2> DEFINE n == IndexIn(ids, x) + 1
             r == these[x]
  <2>1. n \in Nat
    <3>1. IndexIn(ids, x) \in 0 .. Len(ids) /\ Len(ids) \in Nat
      BY FirstPlace
    <3> QED
      BY <3>1
  <2>2. r \in Card
    OBVIOUS
  <2> HIDE DEF n, r
  <2>3. /\ [r EXCEPT !.sort = n] \in Card /\ [r EXCEPT !.sort = n].sort = n
        /\ [r EXCEPT !.sort = n].group = r.group /\ [r EXCEPT !.sort = n].archived = r.archived
    BY <2>1, <2>2 DEF Card
  <2>4. f[x] = IF x \in ToSet(ids) THEN [r EXCEPT !.sort = n] ELSE r
    BY <1>1 DEF n, r
  <2> QED
    BY <2>2, <2>3, <2>4 DEF n, r
<1> QED
  BY <1>1, <1>2 DEF NumberedBy

LEMMA GroupsResorted ==
    ASSUME NEW these, these \in [DOMAIN these -> Column], NEW ids \in Seq(Nat), NEW f, f = Resorted(these, ids)
    PROVE  /\ f \in [DOMAIN these -> Column] /\ DOMAIN f = DOMAIN these
           /\ NumberedBy(f, ids)
           /\ \A x \in DOMAIN these :
                 /\ f[x].kind = these[x].kind
                 /\ x \notin ToSet(ids) => f[x].sort = these[x].sort
<1>1. f = [x \in DOMAIN these |-> IF x \in ToSet(ids) THEN [these[x] EXCEPT !.sort = IndexIn(ids, x) + 1]
                                                      ELSE these[x]]
  BY DEF Resorted
<1>2. ASSUME NEW x \in DOMAIN these
      PROVE  /\ f[x] \in Column /\ f[x].kind = these[x].kind
             /\ f[x].sort = IF x \in ToSet(ids) THEN IndexIn(ids, x) + 1 ELSE these[x].sort
  <2> DEFINE n == IndexIn(ids, x) + 1
             r == these[x]
  <2>1. n \in Nat
    <3>1. IndexIn(ids, x) \in 0 .. Len(ids) /\ Len(ids) \in Nat
      BY FirstPlace
    <3> QED
      BY <3>1
  <2>2. r \in Column
    OBVIOUS
  <2> HIDE DEF n, r
  <2>3. /\ [r EXCEPT !.sort = n] \in Column /\ [r EXCEPT !.sort = n].sort = n
        /\ [r EXCEPT !.sort = n].kind = r.kind
    BY <2>1, <2>2 DEF Column
  <2>4. f[x] = IF x \in ToSet(ids) THEN [r EXCEPT !.sort = n] ELSE r
    BY <1>1 DEF n, r
  <2> QED
    BY <2>2, <2>3, <2>4 DEF n, r
<1> QED
  BY <1>1, <1>2 DEF NumberedBy

-----------------------------------------------------------------------------
(* Dropped in a slot: the others, and the one put among them.               *)

\* The least of two numbers.
LEMMA MinIs ==
    ASSUME NEW m \in Nat, NEW n \in Nat
    PROVE  Min({m, n}) = IF m <= n THEN m ELSE n
<1> DEFINE k == IF m <= n THEN m ELSE n
<1>1. k \in {m, n} /\ \A y \in {m, n} : k <= y
  OBVIOUS
<1>2. \A x \in {m, n} : (\A y \in {m, n} : x <= y) => x = k
  OBVIOUS
<1> HIDE DEF k
<1>3. \E x \in {m, n} : \A y \in {m, n} : x <= y
  BY <1>1
<1>4. Min({m, n}) \in {m, n} /\ \A y \in {m, n} : Min({m, n}) <= y
  BY <1>3 DEF Min
<1> QED
  BY <1>2, <1>4 DEF k

\* The places of a sequence that hold something else, in order.
OthersAt(t, seq, x, at) ==
    /\ Len(t) \in Nat
    /\ \A n \in 1 .. Len(t) : at[n] \in 1 .. Len(seq) /\ t[n] = seq[at[n]] /\ t[n] # x
    /\ \A m, n \in 1 .. Len(t) : m < n => at[m] < at[n]
    /\ \A i \in 1 .. Len(seq) : seq[i] # x => \E n \in 1 .. Len(t) : at[n] = i

LEMMA OthersAre ==
    ASSUME NEW U, NEW seq \in Seq(U), NEW x, NEW t, t = Others(seq, x)
    PROVE  t \in Seq(U) /\ Len(t) <= Len(seq) /\ \E at : OthersAt(t, seq, x, at)
<1> DEFINE K == {i \in DOMAIN seq : seq[i] # x}
           at == Ascending(K)
           n == Cardinality(K)
<1>1. t = Picked(seq, K)
  BY DEF Others, Filtered
<1>2. /\ IsFiniteSet(K) /\ K \subseteq Int
      /\ t \in Seq(U) /\ Len(t) = n
      /\ \A k \in 1 .. n : at[k] \in K /\ t[k] = seq[at[k]]
  BY <1>1, PickedEach
<1>3. /\ n \in Nat
      /\ \A i, j \in 1 .. n : i < j => at[i] < at[j]
      /\ \A y \in K : \E i \in 1 .. n : at[i] = y
  BY <1>2, AscendingEach
<1>4. n <= Len(seq)
  <2>0. Len(seq) \in Nat
    OBVIOUS
  <2>1. IsFiniteSet(1 .. Len(seq)) /\ Cardinality(1 .. Len(seq)) = Len(seq)
    BY <2>0, FS_Interval
  <2>2. K \in SUBSET (1 .. Len(seq))
    OBVIOUS
  <2> QED
    BY <2>1, <2>2, FS_Subset
<1>5. \A i \in 1 .. Len(seq) : i \in K <=> seq[i] # x
  OBVIOUS
<1>6. K \subseteq 1 .. Len(seq)
  OBVIOUS
<1> HIDE DEF K, at, n
<1>7. \A k \in 1 .. n : at[k] \in 1 .. Len(seq) /\ t[k] = seq[at[k]] /\ t[k] # x
  BY <1>2, <1>5, <1>6
<1>8. \A i \in 1 .. Len(seq) : seq[i] # x => \E k \in 1 .. n : at[k] = i
  BY <1>3, <1>5
<1>9. OthersAt(t, seq, x, at)
  BY <1>2, <1>3, <1>7, <1>8 DEF OthersAt
<1> QED
  BY <1>2, <1>4, <1>9

\* Where an insertion leaves what was there.
InsertedAt(t, seq, k, x) ==
    /\ k \in 0 .. Len(seq) /\ Len(t) = Len(seq) + 1 /\ t[k + 1] = x
    /\ \A n \in 1 .. k : t[n] = seq[n]
    /\ \A n \in k + 1 .. Len(seq) : t[n + 1] = seq[n]

LEMMA InsertedIs ==
    ASSUME NEW seq \in Seq(Nat), NEW x \in Nat, NEW index \in Nat, NEW t, t = Inserted(seq, index, x),
           NEW k, k = Min({index, Len(seq)})
    PROVE  t \in Seq(Nat) /\ InsertedAt(t, seq, k, x)
<1> DEFINE l == Len(seq)
<1>1. l \in Nat /\ k \in 0 .. l
  BY MinIs
<1>2. t = SubSeq(seq, 1, k) \o <<x>> \o SubSeq(seq, k + 1, l)
  <2>1. t = SubSeq(seq, 1, (k + 1) - 1) \o <<x>> \o SubSeq(seq, k + 1, l)
    BY DEF Inserted, InsertAt
  <2>2. (k + 1) - 1 = k
    BY <1>1
  <2> QED
    BY <2>1, <2>2
<1> DEFINE a == SubSeq(seq, 1, k)
           c == SubSeq(seq, k + 1, l)
<1>4. a \in Seq(Nat) /\ Len(a) = k /\ \A n \in 1 .. k : a[n] = seq[n]
  <2>1. k \in Int /\ 1 \in Int /\ 1 <= k + 1 /\ k <= Len(seq) /\ 1 <= 1 /\ k + 1 - 1 = k
    BY <1>1
  <2>2. a \in Seq(Nat) /\ Len(a) = k + 1 - 1 /\ \A n \in 1 .. k + 1 - 1 : a[n] = seq[1 + n - 1]
    BY <2>1, Stretch
  <2> HIDE DEF a
  <2>3. \A n \in 1 .. k : 1 + n - 1 = n
    BY <1>1
  <2> QED
    BY <2>1, <2>2, <2>3
<1>5. c \in Seq(Nat) /\ Len(c) = l - k /\ \A n \in 1 .. l - k : c[n] = seq[k + n]
  <2>1. k + 1 \in Int /\ l \in Int /\ 1 <= k + 1 /\ k + 1 <= l + 1 /\ l <= Len(seq) /\ l + 1 - (k + 1) = l - k
    BY <1>1
  <2>2. c \in Seq(Nat) /\ Len(c) = l + 1 - (k + 1) /\ \A n \in 1 .. l + 1 - (k + 1) : c[n] = seq[(k + 1) + n - 1]
    BY <2>1, Stretch
  <2> HIDE DEF c
  <2>3. \A n \in 1 .. l - k : (k + 1) + n - 1 = k + n
    BY <1>1
  <2> QED
    BY <2>1, <2>2, <2>3
<1> HIDE DEF a, c
<1>6. t = a \o <<x>> \o c
  BY <1>2 DEF a, c
<1>7. /\ t \in Seq(Nat) /\ Len(t) = Len(a) + 1 + Len(c)
      /\ \A n \in 1 .. Len(a) + 1 + Len(c) :
            t[n] = IF n <= Len(a) THEN a[n] ELSE IF n = Len(a) + 1 THEN x ELSE c[n - (Len(a) + 1)]
  <2>1. a \in Seq(Nat) /\ c \in Seq(Nat)
    BY <1>4, <1>5
  <2>2. /\ a \o <<x>> \o c \in Seq(Nat) /\ Len(a \o <<x>> \o c) = Len(a) + 1 + Len(c)
        /\ \A n \in 1 .. Len(a) + 1 + Len(c) : (a \o <<x>> \o c)[n] =
               IF n <= Len(a) THEN a[n] ELSE IF n = Len(a) + 1 THEN x ELSE c[n - (Len(a) + 1)]
    BY <2>1, OneBetween
  <2> QED
    BY <1>6, <2>2
<1>8. Len(t) = l + 1 /\ Len(a) + 1 + Len(c) = l + 1
  BY <1>1, <1>4, <1>5, <1>7
<1> HIDE DEF l
<1>11. \A m \in 1 .. l + 1 : t[m] = IF m <= k THEN a[m] ELSE IF m = k + 1 THEN x ELSE c[m - (k + 1)]
  BY <1>4, <1>7, <1>8
<1>9. t[k + 1] = x /\ \A n \in 1 .. k : t[n] = seq[n]
  <2>1. k + 1 \in 1 .. l + 1 /\ ~(k + 1 <= k)
    BY <1>1
  <2>2. t[k + 1] = x
    BY <1>4, <1>7, <1>8, <2>1
  <2>3. ASSUME NEW n \in 1 .. k PROVE t[n] = seq[n]
    <3>1. n \in 1 .. l + 1 /\ n <= k
      BY <1>1
    <3>2. t[n] = a[n]
      BY <1>4, <1>7, <1>8, <3>1
    <3> QED
      BY <1>4, <3>2
  <2> QED
    BY <2>2, <2>3
<1>10. ASSUME NEW n \in k + 1 .. l PROVE t[n + 1] = seq[n]
  <2>0. k \in Nat /\ l \in Nat /\ n \in Nat /\ n >= k + 1 /\ n <= l
    BY <1>1
  <2>1. /\ n + 1 \in 1 .. l + 1 /\ ~(n + 1 <= k) /\ n + 1 # k + 1 /\ n + 1 - (k + 1) = n - k
        /\ n - k \in 1 .. l - k /\ k + (n - k) = n
    <3>1. n + 1 \in 1 .. l + 1 /\ n - k \in 1 .. l - k
      BY <2>0
    <3>2. ~(n + 1 <= k) /\ n + 1 # k + 1
      BY <2>0
    <3>3. n + 1 - (k + 1) = n - k /\ k + (n - k) = n
      BY <2>0
    <3> QED
      BY <3>1, <3>2, <3>3
  <2>2. PICK m \in 1 .. l + 1 : m = n + 1
    BY <2>1
  <2>3. ~(m <= k) /\ m # k + 1 /\ m - (k + 1) = n - k
    BY <2>0, <2>2
  <2>4. t[m] = c[m - (k + 1)]
    BY <1>11, <2>3
  <2> QED
    BY <1>5, <2>1, <2>2, <2>3, <2>4
<1> QED
  BY <1>1, <1>7, <1>8, <1>9, <1>10 DEF InsertedAt, l

EachOnce(s) == \A m, n \in 1 .. Len(s) : s[m] = s[n] => m = n

LEMMA InSequence ==
    ASSUME NEW U, NEW s \in Seq(U), NEW x
    PROVE  x \in ToSet(s) <=> \E i \in 1 .. Len(s) : s[i] = x
BY DEF ToSet

LEMMA SortedOnce ==
    ASSUME NEW f, NEW S, Sortable(f, S), NEW s, SortedIs(s, f, S)
    PROVE  s \in Seq(Nat) /\ EachOnce(s) /\ ToSet(s) = S
<1>1. s \in Seq(S) /\ S \subseteq Nat
  BY DEF Sortable, SortedIs
<1>2. s \in Seq(Nat)
  <2>0. \A i \in 1 .. Len(s) : s[i] \in S
    BY <1>1, ElementOfSeq
  <2>1. \A i \in 1 .. Len(s) : s[i] \in Nat
    BY <1>1, <2>0
  <2>2. Len(s) \in Nat /\ s = [i \in 1 .. Len(s) |-> s[i]]
    BY <1>1
  <2> QED
    BY <2>1, <2>2
<1>3. ToSet(s) = S
  <2>1. \A x \in S : x \in ToSet(s)
    BY <1>1, InSequence DEF SortedIs
  <2>2. \A x \in ToSet(s) : x \in S
    BY <1>1 DEF ToSet
  <2> QED
    BY <2>1, <2>2
<1>4. ASSUME NEW m \in 1 .. Len(s), NEW n \in 1 .. Len(s), s[m] = s[n] PROVE m = n
  <2>1. s[m] \in S /\ ~BySortThenId(f, s[m], s[m])
    BY <1>1, SortStrict
  <2>2. ~(m < n) /\ ~(n < m)
    BY <1>4, <2>1 DEF SortedIs
  <2> QED
    BY <2>2
<1> QED
  BY <1>2, <1>3, <1>4 DEF EachOnce

LEMMA OthersOnce ==
    ASSUME NEW seq \in Seq(Nat), EachOnce(seq), NEW x, NEW t, t = Others(seq, x)
    PROVE  t \in Seq(Nat) /\ Len(t) <= Len(seq) /\ EachOnce(t) /\ ToSet(t) = ToSet(seq) \ {x}
<1>1. t \in Seq(Nat) /\ Len(t) <= Len(seq)
  BY OthersAre
<1>2. PICK at : OthersAt(t, seq, x, at)
  BY OthersAre
<1>3. /\ \A n \in 1 .. Len(t) : at[n] \in 1 .. Len(seq) /\ t[n] = seq[at[n]] /\ t[n] # x
      /\ \A m, n \in 1 .. Len(t) : m < n => at[m] < at[n]
      /\ \A i \in 1 .. Len(seq) : seq[i] # x => \E n \in 1 .. Len(t) : at[n] = i
  BY <1>2 DEF OthersAt
<1>4. ASSUME NEW m \in 1 .. Len(t), NEW n \in 1 .. Len(t), t[m] = t[n] PROVE m = n
  <2>1. at[m] = at[n] /\ at[m] \in Int
    BY <1>3, <1>4 DEF EachOnce
  <2>2. ~(m < n) /\ ~(n < m)
    BY <1>3, <2>1
  <2> QED
    BY <2>2
<1>5. ToSet(t) = ToSet(seq) \ {x}
  <2>1. ASSUME NEW y \in ToSet(t) PROVE y \in ToSet(seq) /\ y # x
    <3>1. PICK n \in 1 .. Len(t) : t[n] = y
      BY <1>1, <2>1, InSequence
    <3>2. at[n] \in 1 .. Len(seq) /\ y = seq[at[n]] /\ y # x
      BY <1>3, <3>1
    <3> QED
      BY <3>2, InSequence
  <2>2. ASSUME NEW y \in ToSet(seq), y # x PROVE y \in ToSet(t)
    <3>1. PICK i \in 1 .. Len(seq) : seq[i] = y
      BY <2>2, InSequence
    <3>2. PICK n \in 1 .. Len(t) : at[n] = i
      BY <1>3, <2>2, <3>1
    <3>3. t[n] = y
      BY <1>3, <3>1, <3>2
    <3> QED
      BY <1>1, <3>3, InSequence
  <2> QED
    BY <2>1, <2>2
<1> QED
  BY <1>1, <1>4, <1>5 DEF EachOnce

LEMMA InsertedOnce ==
    ASSUME NEW seq \in Seq(Nat), NEW x \in Nat, NEW index \in Nat, NEW t, t = Inserted(seq, index, x)
    PROVE  /\ t \in Seq(Nat) /\ Len(t) = Len(seq) + 1 /\ ToSet(t) = ToSet(seq) \cup {x}
           /\ EachOnce(seq) /\ x \notin ToSet(seq) => EachOnce(t)
<1> DEFINE k == Min({index, Len(seq)})
           l == Len(seq)
<1>1. t \in Seq(Nat) /\ InsertedAt(t, seq, k, x)
  BY InsertedIs
<1> HIDE DEF k
<1>2. /\ k \in 0 .. l /\ Len(t) = l + 1 /\ t[k + 1] = x /\ l \in Nat
      /\ \A n \in 1 .. k : t[n] = seq[n]
      /\ \A n \in k + 1 .. l : t[n + 1] = seq[n]
  BY <1>1 DEF InsertedAt
<1> HIDE DEF l
<1>3. ASSUME NEW m \in 1 .. Len(t)
      PROVE  \/ m = k + 1 /\ t[m] = x
             \/ m \in 1 .. k /\ m \in 1 .. l /\ t[m] = seq[m]
             \/ m - 1 \in k + 1 .. l /\ m - 1 \in 1 .. l /\ t[m] = seq[m - 1]
  <2>1. CASE m = k + 1
    BY <1>2, <2>1
  <2>2. CASE m <= k
    BY <1>2, <2>2
  <2>3. CASE m > k + 1
    <3>1. PICK n \in k + 1 .. l : m = n + 1
      <4>1. m - 1 \in k + 1 .. l /\ m = (m - 1) + 1
        BY <1>2, <2>3
      <4> QED
        BY <4>1
    <3>2. n \in Nat /\ m - 1 = n /\ n \in 1 .. l
      BY <1>2, <3>1
    <3> QED
      BY <1>2, <3>1, <3>2
  <2> QED
    BY <1>2, <2>1, <2>2, <2>3
<1>4. ASSUME NEW i \in 1 .. l PROVE \E m \in 1 .. Len(t) : t[m] = seq[i]
  <2>1. CASE i <= k
    BY <1>2, <2>1
  <2>2. CASE i > k
    <3>1. i \in k + 1 .. l /\ i + 1 \in 1 .. Len(t)
      BY <1>2, <2>2
    <3> QED
      BY <1>2, <3>1
  <2> QED
    BY <1>2, <2>1, <2>2
<1>5. ToSet(t) = ToSet(seq) \cup {x}
  <2>1. ASSUME NEW y \in ToSet(t) PROVE y \in ToSet(seq) \/ y = x
    <3>1. PICK m \in 1 .. Len(t) : t[m] = y
      BY <1>1, <2>1, InSequence
    <3>2. y = x \/ \E i \in 1 .. l : seq[i] = y
      BY <1>3, <3>1
    <3> QED
      BY <3>2, InSequence DEF l
  <2>2. ASSUME NEW y \in ToSet(seq) PROVE y \in ToSet(t)
    <3>1. PICK i \in 1 .. l : seq[i] = y
      BY <2>2, InSequence DEF l
    <3> QED
      BY <1>1, <1>4, <3>1, InSequence
  <2>3. x \in ToSet(t)
    <3>1. k + 1 \in 1 .. Len(t)
      BY <1>2
    <3> QED
      BY <1>1, <1>2, <3>1, InSequence
  <2> QED
    BY <2>1, <2>2, <2>3
<1>6. ASSUME EachOnce(seq), x \notin ToSet(seq), NEW m \in 1 .. Len(t), NEW n \in 1 .. Len(t), t[m] = t[n]
      PROVE  m = n
  <2>1. \A i \in 1 .. l : seq[i] # x
    BY <1>6, InSequence DEF l
  <2>2. \A i, j \in 1 .. l : seq[i] = seq[j] => i = j
    BY <1>6 DEF EachOnce, l
  <2>3. \/ m = k + 1 /\ t[m] = x
        \/ m \in 1 .. k /\ m \in 1 .. l /\ t[m] = seq[m]
        \/ m - 1 \in k + 1 .. l /\ m - 1 \in 1 .. l /\ t[m] = seq[m - 1]
    BY <1>3
  <2>4. \/ n = k + 1 /\ t[n] = x
        \/ n \in 1 .. k /\ n \in 1 .. l /\ t[n] = seq[n]
        \/ n - 1 \in k + 1 .. l /\ n - 1 \in 1 .. l /\ t[n] = seq[n - 1]
    BY <1>3
  <2>5. CASE m = k + 1 /\ t[m] = x
    BY <1>6, <2>1, <2>4, <2>5
  <2>6. CASE m \in 1 .. k /\ m \in 1 .. l /\ t[m] = seq[m]
    <3>1. CASE n = k + 1 /\ t[n] = x
      BY <1>6, <2>1, <2>6, <3>1
    <3>2. CASE n \in 1 .. k /\ n \in 1 .. l /\ t[n] = seq[n]
      BY <1>6, <2>2, <2>6, <3>2
    <3>3. CASE n - 1 \in k + 1 .. l /\ n - 1 \in 1 .. l /\ t[n] = seq[n - 1]
      <4>1. m = n - 1
        BY <1>6, <2>2, <2>6, <3>3
      <4> QED
        BY <1>2, <2>6, <3>3, <4>1
    <3> QED
      BY <2>4, <3>1, <3>2, <3>3
  <2>7. CASE m - 1 \in k + 1 .. l /\ m - 1 \in 1 .. l /\ t[m] = seq[m - 1]
    <3>1. CASE n = k + 1 /\ t[n] = x
      BY <1>6, <2>1, <2>7, <3>1
    <3>2. CASE n \in 1 .. k /\ n \in 1 .. l /\ t[n] = seq[n]
      <4>1. m - 1 = n
        BY <1>6, <2>2, <2>7, <3>2
      <4> QED
        BY <1>2, <2>7, <3>2, <4>1
    <3>3. CASE n - 1 \in k + 1 .. l /\ n - 1 \in 1 .. l /\ t[n] = seq[n - 1]
      <4>1. m - 1 = n - 1
        BY <1>6, <2>2, <2>7, <3>3
      <4> QED
        BY <4>1
    <3> QED
      BY <2>4, <3>1, <3>2, <3>3
  <2> QED
    BY <2>3, <2>5, <2>6, <2>7
<1> QED
  BY <1>1, <1>2, <1>5, <1>6 DEF EachOnce, l

-----------------------------------------------------------------------------
(* The columns as they are drawn, and with a card dropped in one.           *)

CardsIn(b, g) == {x \in DOMAIN b.cats : b.cats[x].group = g}

LEMMA ColumnsAre ==
    ASSUME NEW b, IsBoard(b)
    PROVE  /\ OrderedGroups(b) \in Seq(Nat) /\ EachOnce(OrderedGroups(b))
           /\ ToSet(OrderedGroups(b)) = DOMAIN b.groups
           /\ Len(OrderedGroups(b)) = Cardinality(DOMAIN b.groups)
<1> DEFINE s == OrderedGroups(b)
<1>1. s = SortedById(b.groups, DOMAIN b.groups)
  BY DEF OrderedGroups
<1>2. Sortable(b.groups, DOMAIN b.groups)
  BY BoardSortable
<1> HIDE DEF s
<1>3. SortedIs(s, b.groups, DOMAIN b.groups)
  BY <1>1, <1>2, SortedEach
<1>4. s \in Seq(Nat) /\ EachOnce(s) /\ ToSet(s) = DOMAIN b.groups
  BY <1>2, <1>3, SortedOnce
<1> QED
  BY <1>3, <1>4 DEF SortedIs, s

LEMMA CardsAre ==
    ASSUME NEW b, IsBoard(b), NEW g \in DOMAIN b.groups, NEW s, s = CategoriesByGroup(b)[g]
    PROVE  /\ SortedIs(s, b.cats, CardsIn(b, g)) /\ Sortable(b.cats, CardsIn(b, g))
           /\ s \in Seq(Nat) /\ EachOnce(s) /\ ToSet(s) = CardsIn(b, g)
<1>1. s = SortedById(b.cats, CardsIn(b, g))
  BY DEF CategoriesByGroup, CardsIn
<1>2. Sortable(b.cats, CardsIn(b, g))
  <2>1. CardsIn(b, g) \in SUBSET DOMAIN b.cats
    BY DEF CardsIn
  <2> QED
    BY <2>1, BoardSortable
<1>3. SortedIs(s, b.cats, CardsIn(b, g))
  BY <1>1, <1>2, SortedEach
<1> QED
  BY <1>2, <1>3, SortedOnce

\* A column once the dragged card is out of it and dropped in its slot.
Dropped(b, id, slot, g) ==
    LET rest == Others(CategoriesByGroup(b)[g], id)
    IN  IF g = slot.group THEN Inserted(rest, slot.index, id) ELSE rest

Ends(b, id, slot, x) == IF x = id THEN slot.group ELSE b.cats[x].group

LEMMA DroppedIs ==
    ASSUME NEW b, IsBoard(b), NEW id \in DOMAIN b.cats, NEW slot, slot.index \in Nat, NEW g \in DOMAIN b.groups,
           NEW s, s = Dropped(b, id, slot, g)
    PROVE  /\ s \in Seq(Nat) /\ EachOnce(s)
           /\ ToSet(s) = {x \in DOMAIN b.cats : Ends(b, id, slot, x) = g}
<1> DEFINE cards == CategoriesByGroup(b)[g]
           rest  == Others(cards, id)
<1>1. cards \in Seq(Nat) /\ EachOnce(cards) /\ ToSet(cards) = CardsIn(b, g)
  BY CardsAre
<1>2. s = IF g = slot.group THEN Inserted(rest, slot.index, id) ELSE rest
  BY DEF Dropped
<1> HIDE DEF cards
<1>3. rest \in Seq(Nat) /\ EachOnce(rest) /\ ToSet(rest) = CardsIn(b, g) \ {id}
  BY <1>1, OthersOnce
<1> HIDE DEF rest
<1>4. id \in Nat
  BY DEF IsBoard
<1>5. CASE g = slot.group
  <2>1. s = Inserted(rest, slot.index, id)
    BY <1>2, <1>5
  <2>2. id \notin ToSet(rest)
    BY <1>3
  <2>3. s \in Seq(Nat) /\ ToSet(s) = ToSet(rest) \cup {id} /\ EachOnce(s)
    BY <1>3, <1>4, <2>1, <2>2, InsertedOnce
  <2> QED
    BY <1>3, <1>5, <2>3 DEF CardsIn, Ends
<1>6. CASE g # slot.group
  <2>1. s = rest
    BY <1>2, <1>6
  <2> QED
    BY <1>3, <1>6, <2>1 DEF CardsIn, Ends
<1> QED
  BY <1>5, <1>6

DroppedColumns(b, id, slot) ==
    [n \in DOMAIN OrderedGroups(b) |-> Dropped(b, id, slot, OrderedGroups(b)[n])]

LEMMA OrderedIdsIs ==
    ASSUME NEW b, IsBoard(b), NEW id, NEW slot
    PROVE  OrderedIds(b, id, slot) = FlattenSeq(DroppedColumns(b, id, slot))
<1> DEFINE order == OrderedGroups(b)
           cols == [g \in DOMAIN b.groups |->
                LET rest == Others(CategoriesByGroup(b)[g], id)
                IN  IF g = slot.group THEN Inserted(rest, slot.index, id) ELSE rest]
<1>1. \A g \in DOMAIN b.groups : cols[g] = Dropped(b, id, slot, g)
  BY DEF Dropped
<1>2. OrderedIds(b, id, slot) = FlattenSeq([n \in DOMAIN order |-> cols[order[n]]])
  BY DEF OrderedIds
<1>3. order \in Seq(Nat) /\ ToSet(order) = DOMAIN b.groups
  BY ColumnsAre
<1> HIDE DEF cols, order
<1>4. \A n \in DOMAIN order : order[n] \in DOMAIN b.groups
  BY <1>3 DEF ToSet
<1>5. [n \in DOMAIN order |-> cols[order[n]]] = [n \in DOMAIN order |-> Dropped(b, id, slot, order[n])]
  BY <1>1, <1>4
<1> QED
  BY <1>2, <1>5 DEF DroppedColumns, order

LEMMA DroppedEach ==
    ASSUME NEW b, IsBoard(b), NEW id \in DOMAIN b.cats, NEW slot, slot.index \in Nat,
           NEW cols, cols = DroppedColumns(b, id, slot), NEW order, order = OrderedGroups(b)
    PROVE  /\ cols \in Seq(Seq(Nat)) /\ Len(cols) = Len(order)
           /\ \A k \in 1 .. Len(cols) :
                 /\ order[k] \in DOMAIN b.groups /\ cols[k] = Dropped(b, id, slot, order[k])
                 /\ cols[k] \in Seq(Nat) /\ EachOnce(cols[k])
                 /\ ToSet(cols[k]) = {x \in DOMAIN b.cats : Ends(b, id, slot, x) = order[k]}
<1>1. order \in Seq(Nat) /\ ToSet(order) = DOMAIN b.groups /\ Len(order) \in Nat /\ DOMAIN order = 1 .. Len(order)
  BY ColumnsAre
<1>2. cols = [k \in 1 .. Len(order) |-> Dropped(b, id, slot, order[k])]
  BY <1>1 DEF DroppedColumns
<1>3. ASSUME NEW k \in 1 .. Len(order)
      PROVE  /\ order[k] \in DOMAIN b.groups /\ cols[k] = Dropped(b, id, slot, order[k])
             /\ cols[k] \in Seq(Nat) /\ EachOnce(cols[k])
             /\ ToSet(cols[k]) = {x \in DOMAIN b.cats : Ends(b, id, slot, x) = order[k]}
  <2>1. order[k] \in DOMAIN b.groups
    BY <1>1, InSequence
  <2>2. cols[k] = Dropped(b, id, slot, order[k])
    BY <1>2
  <2> QED
    BY <2>1, <2>2, DroppedIs
<1>4. cols \in Seq(Seq(Nat)) /\ Len(cols) = Len(order)
  <2>1. \A k \in 1 .. Len(order) : cols[k] \in Seq(Nat)
    BY <1>3
  <2>2. cols = [k \in 1 .. Len(order) |-> cols[k]]
    BY <1>2
  <2> QED
    BY <1>1, <2>1, <2>2
<1> QED
  BY <1>3, <1>4

LEMMA CountTo == ASSUME NEW n \in Nat PROVE IsFiniteSet(1 .. n) /\ Cardinality(1 .. n) = n
BY FS_Interval

LEMMA OrderedIdsAre ==
    ASSUME NEW b, IsBoard(b), NEW id \in DOMAIN b.cats, NEW slot, slot.index \in Nat,
           NEW ids, ids = OrderedIds(b, id, slot)
    PROVE  /\ ids \in Seq(Nat) /\ EachOnce(ids) /\ ToSet(ids) \subseteq DOMAIN b.cats
           /\ Len(ids) <= Cardinality(DOMAIN b.cats)
<1> DEFINE cols == DroppedColumns(b, id, slot)
           order == OrderedGroups(b)
<1>1. ids = FlattenSeq(cols)
  BY OrderedIdsIs
<1>2. /\ cols \in Seq(Seq(Nat)) /\ Len(cols) = Len(order)
      /\ \A k \in 1 .. Len(cols) :
            /\ order[k] \in DOMAIN b.groups
            /\ cols[k] \in Seq(Nat) /\ EachOnce(cols[k])
            /\ ToSet(cols[k]) = {x \in DOMAIN b.cats : Ends(b, id, slot, x) = order[k]}
  BY DroppedEach
<1>3. order \in Seq(Nat) /\ EachOnce(order)
  BY ColumnsAre
<1> HIDE DEF cols, order
<1>4. ids \in Seq(Nat)
  BY <1>1, <1>2, FlattenTyped
<1>5. ASSUME NEW k \in 1 .. Len(cols), NEW i \in 1 .. Len(cols[k])
      PROVE  cols[k][i] \in DOMAIN b.cats /\ Ends(b, id, slot, cols[k][i]) = order[k]
  <2>1. cols[k][i] \in ToSet(cols[k])
    BY <1>2, InSequence
  <2> QED
    BY <1>2, <2>1
<1>6. \A k, l \in 1 .. Len(cols) : \A i \in 1 .. Len(cols[k]) : \A j \in 1 .. Len(cols[l]) :
         cols[k][i] = cols[l][j] => k = l /\ i = j
  <2> SUFFICES ASSUME NEW k \in 1 .. Len(cols), NEW l \in 1 .. Len(cols),
                      NEW i \in 1 .. Len(cols[k]), NEW j \in 1 .. Len(cols[l]), cols[k][i] = cols[l][j]
               PROVE  k = l /\ i = j
    OBVIOUS
  <2>1. order[k] = order[l]
    BY <1>5
  <2>2. k = l
    BY <1>2, <1>3, <2>1 DEF EachOnce
  <2>3. EachOnce(cols[k])
    BY <1>2
  <2> QED
    BY <2>2, <2>3 DEF EachOnce
<1>7. EachOnce(ids)
  <2>1. cols \in Seq(Seq(Nat))
    BY <1>2
  <2>2. \A m, n \in 1 .. Len(ids) : ids[m] = ids[n] => m = n
    BY <1>1, <1>6, <2>1, FlattenOnce
  <2> QED
    BY <2>2 DEF EachOnce
<1>8. ASSUME NEW m \in 1 .. Len(ids) PROVE ids[m] \in DOMAIN b.cats
  <2>1. Consists(ids, cols, Len(cols))
    BY <1>1, <1>2, FlattenHas
  <2>2. PICK k \in 1 .. Len(cols) : \E j \in 1 .. Len(cols[k]) : ids[m] = cols[k][j]
    BY <2>1 DEF Consists
  <2> QED
    BY <1>5, <2>2
<1>9. ToSet(ids) \subseteq DOMAIN b.cats
  BY <1>4, <1>8, InSequence
<1>10. Len(ids) <= Cardinality(DOMAIN b.cats)
  <2>1. Len(ids) \in Nat
    BY <1>4
  <2> DEFINE f == [m \in 1 .. Len(ids) |-> ids[m]]
  <2>2. f \in Injection(1 .. Len(ids), DOMAIN b.cats)
    BY <1>7, <1>8 DEF Injection, IsInjective, EachOnce
  <2>3. IsFiniteSet(DOMAIN b.cats)
    BY DEF IsBoard
  <2>4. Cardinality(1 .. Len(ids)) <= Cardinality(DOMAIN b.cats)
    BY <2>2, <2>3, FS_Injection
  <2>5. Cardinality(1 .. Len(ids)) = Len(ids)
    BY <2>1, CountTo
  <2> QED
    BY <2>4, <2>5
<1> QED
  BY <1>4, <1>7, <1>9, <1>10

\* Boards that are alike are drawn the same way.
LEMMA AlikeDrawn ==
    ASSUME NEW a, IsBoard(a), NEW b, IsBoard(b), Alike(a, b)
    PROVE  Drawn(a) = Drawn(b)
<1>1. /\ DOMAIN a.groups = DOMAIN b.groups /\ DOMAIN a.cats = DOMAIN b.cats
      /\ \A g \in DOMAIN a.groups : a.groups[g].kind = b.groups[g].kind
      /\ \A x \in DOMAIN a.cats : a.cats[x].group = b.cats[x].group /\ a.cats[x].archived = b.cats[x].archived
      /\ \A x, y \in DOMAIN a.groups : BySortThenId(a.groups, x, y) <=> BySortThenId(b.groups, x, y)
      /\ \A x, y \in DOMAIN a.cats : BySortThenId(a.cats, x, y) <=> BySortThenId(b.cats, x, y)
  BY DEF Alike, SameColumns, SameCards, OrderAs
<1>2. OrderedGroups(a) = OrderedGroups(b)
  <2>1. Sortable(a.groups, DOMAIN a.groups) /\ Sortable(b.groups, DOMAIN a.groups)
    BY <1>1, BoardSortable
  <2> QED
    BY <1>1, <2>1, SortedSame DEF OrderedGroups
<1>3. ASSUME NEW g PROVE SortedById(a.cats, CardsIn(a, g)) = SortedById(b.cats, CardsIn(b, g))
  <2>1. CardsIn(a, g) = CardsIn(b, g) /\ CardsIn(a, g) \in SUBSET DOMAIN a.cats
    BY <1>1 DEF CardsIn
  <2>2. Sortable(a.cats, CardsIn(a, g)) /\ Sortable(b.cats, CardsIn(a, g))
    BY <1>1, <2>1, BoardSortable
  <2>3. \A x, y \in CardsIn(a, g) : BySortThenId(a.cats, x, y) <=> BySortThenId(b.cats, x, y)
    BY <1>1, <2>1
  <2>4. SortedById(a.cats, CardsIn(a, g)) = SortedById(b.cats, CardsIn(a, g))
    BY <2>2, <2>3, SortedSame
  <2> QED
    BY <2>1, <2>4
<1>4. CategoriesByGroup(a) = CategoriesByGroup(b)
  BY <1>1, <1>3 DEF CategoriesByGroup, CardsIn
<1>5. [g \in DOMAIN a.groups |-> a.groups[g].kind] = [g \in DOMAIN b.groups |-> b.groups[g].kind]
  BY <1>1
<1>6. {c \in DOMAIN a.cats : a.cats[c].archived} = {c \in DOMAIN b.cats : b.cats[c].archived}
  BY <1>1
<1> QED
  BY <1>2, <1>4, <1>5, <1>6 DEF Drawn

-----------------------------------------------------------------------------
(* What requests leave saved.                                              *)

CatsNumbered(b, ids)  == [b EXCEPT !.cats = Resorted(b.cats, ids)]
GroupsNumbered(b, ids) == [b EXCEPT !.groups = Resorted(b.groups, ids)]

NewCard(r, sort) == [group |-> r.group, sort |-> sort, target |-> r.target, archived |-> FALSE]
NewColumn(r, sort) == [kind |-> r.kind, sort |-> sort]

RequestTyped(r) ==
    \/ r \in [to : {"create"}, group : Nat, target : Nat]
    \/ r \in [to : {"createGroup"}, kind : Kinds]
    \/ r \in [to : {"patch", "archiveGoal"}, id : Nat, patch : Patches]
    \/ r \in [to : {"delete"}, id : Nat]
    \/ r \in [to : {"patchGroup"}, id : Nat, kind : Kinds]
    \/ r \in [to : {"deleteGroup"}, id : Nat]
    \/ r \in Listing("reorder")
    \/ r \in Listing("reorderGroups")

LEMMA EffectedIs ==
    ASSUME NEW b, NEW r, NEW d, d = Effected(b, r)
    PROVE  /\ r.to = "create" => d = WithCat(b, NewId(b.cats), NewCard(r, LastSort(b.cats) + 1))
           /\ r.to = "createGroup" => d = WithGroup(b, NewId(b.groups), NewColumn(r, LastSort(b.groups) + 1))
           /\ r.to \in {"patch", "archiveGoal"} => d = PutCat(b, r.id, Patched(b, b.cats[r.id], r.patch))
           /\ r.to = "delete" => d = CatsLeft(b, r.id)
           /\ r.to = "patchGroup" => d = PutKind(b, r.id, r.kind)
           /\ r.to = "deleteGroup" => d = GroupsLeft(b, r.id)
           /\ r.to = "reorder" => d = CatsNumbered(b, r.ids)
           /\ r.to = "reorderGroups" => d = GroupsNumbered(b, r.ids)
<1>1. r.to = "create" => d = WithCat(b, NewId(b.cats), NewCard(r, LastSort(b.cats) + 1))
  BY DEF Effected, NewCard
<1>2. r.to = "createGroup" => d = WithGroup(b, NewId(b.groups), NewColumn(r, LastSort(b.groups) + 1))
  BY DEF Effected, NewColumn
<1>3. r.to \in {"patch", "archiveGoal"} => d = PutCat(b, r.id, Patched(b, b.cats[r.id], r.patch))
  BY DEF Effected, PutCat
<1>4. r.to = "delete" => d = CatsLeft(b, r.id)
  BY DEF Effected, CatsLeft
<1>5. r.to = "patchGroup" => d = PutKind(b, r.id, r.kind)
  BY DEF Effected, PutKind
<1>6. r.to = "deleteGroup" => d = GroupsLeft(b, r.id)
  BY DEF Effected, GroupsLeft
<1>7. r.to = "reorder" => d = CatsNumbered(b, r.ids)
  BY DEF Effected, CatsNumbered
<1>8. r.to = "reorderGroups" => d = GroupsNumbered(b, r.ids)
  BY DEF Effected, GroupsNumbered
<1> QED
  BY <1>1, <1>2, <1>3, <1>4, <1>5, <1>6, <1>7, <1>8

LEMMA CatsNumberedIs ==
    ASSUME NEW b, IsBoard(b), NEW ids \in Seq(Nat), NEW d, d = CatsNumbered(b, ids)
    PROVE  /\ IsBoard(d) /\ d.groups = b.groups /\ DOMAIN d.cats = DOMAIN b.cats
           /\ NumberedBy(d.cats, ids) /\ SameCards(d, b)
           /\ \A x \in DOMAIN b.cats : x \notin ToSet(ids) => d.cats[x].sort = b.cats[x].sort
<1> DEFINE f == Resorted(b.cats, ids)
<1>1. b.cats \in [DOMAIN b.cats -> Card]
  BY BoardParts
<1>2. /\ f \in [DOMAIN b.cats -> Card] /\ DOMAIN f = DOMAIN b.cats
      /\ NumberedBy(f, ids)
      /\ \A x \in DOMAIN b.cats :
            /\ f[x].group = b.cats[x].group /\ f[x].archived = b.cats[x].archived
            /\ x \notin ToSet(ids) => f[x].sort = b.cats[x].sort
  BY <1>1, CatsResorted
<1>3. d = [b EXCEPT !.cats = f]
  BY DEF CatsNumbered
<1> HIDE DEF f
<1>4. IsBoard(d) /\ d.groups = b.groups /\ d.cats = f
  <2>1. DOMAIN f \subseteq Nat /\ IsFiniteSet(DOMAIN f)
    BY <1>2 DEF IsBoard
  <2> QED
    BY <1>2, <1>3, <2>1, CatsReplaced
<1> QED
  BY <1>2, <1>4 DEF SameCards

LEMMA GroupsNumberedIs ==
    ASSUME NEW b, IsBoard(b), NEW ids \in Seq(Nat), NEW d, d = GroupsNumbered(b, ids)
    PROVE  /\ IsBoard(d) /\ d.cats = b.cats /\ DOMAIN d.groups = DOMAIN b.groups
           /\ NumberedBy(d.groups, ids) /\ SameColumns(d, b)
           /\ \A x \in DOMAIN b.groups : x \notin ToSet(ids) => d.groups[x].sort = b.groups[x].sort
<1> DEFINE f == Resorted(b.groups, ids)
<1>1. b.groups \in [DOMAIN b.groups -> Column]
  BY BoardParts
<1>2. /\ f \in [DOMAIN b.groups -> Column] /\ DOMAIN f = DOMAIN b.groups
      /\ NumberedBy(f, ids)
      /\ \A x \in DOMAIN b.groups :
            /\ f[x].kind = b.groups[x].kind
            /\ x \notin ToSet(ids) => f[x].sort = b.groups[x].sort
  BY <1>1, GroupsResorted
<1>3. d = [b EXCEPT !.groups = f]
  BY DEF GroupsNumbered
<1> HIDE DEF f
<1>4. IsBoard(d) /\ d.cats = b.cats /\ d.groups = f
  <2>1. DOMAIN f \subseteq Nat /\ IsFiniteSet(DOMAIN f)
    BY <1>2 DEF IsBoard
  <2> QED
    BY <1>2, <1>3, <2>1, GroupsReplaced
<1> QED
  BY <1>2, <1>4 DEF SameColumns

LEMMA CreatedTyped ==
    ASSUME NEW b, IsBoard(b)
    PROVE  /\ NewId(b.cats) \in Nat /\ NewId(b.groups) \in Nat
           /\ LastSort(b.cats) \in Nat /\ LastSort(b.groups) \in Nat
<1>1. NewId(b.cats) \in Nat /\ NewId(b.groups) \in Nat
  BY NewIdIs DEF IsBoard
<1> QED
  BY <1>1, LastSortIs, BoardSortable

\* What the server makes of a request is a board.
LEMMA EffectedTyped ==
    ASSUME NEW b, IsBoard(b), NEW r, RequestTyped(r),
           r.to \in {"patch", "archiveGoal"} => r.id \in DOMAIN b.cats,
           r.to = "patchGroup" => r.id \in DOMAIN b.groups
    PROVE  IsBoard(Effected(b, r))
<1> DEFINE d == Effected(b, r)
<1> HIDE DEF d
<1>0. d = Effected(b, r)
  BY DEF d
<1> SUFFICES IsBoard(d)
  BY <1>0
<1>1. CASE r \in [to : {"create"}, group : Nat, target : Nat]
  <2>1. d = WithCat(b, NewId(b.cats), NewCard(r, LastSort(b.cats) + 1))
    BY <1>0, <1>1, EffectedIs
  <2>2. NewCard(r, LastSort(b.cats) + 1) \in Card
    BY <1>1, CreatedTyped DEF NewCard, Card
  <2> QED
    BY <1>0, <2>1, <2>2, CreatedTyped, CatAdded
<1>2. CASE r \in [to : {"createGroup"}, kind : Kinds]
  <2>1. d = WithGroup(b, NewId(b.groups), NewColumn(r, LastSort(b.groups) + 1))
    BY <1>0, <1>2, EffectedIs
  <2>2. NewColumn(r, LastSort(b.groups) + 1) \in Column
    BY <1>2, CreatedTyped DEF NewColumn, Column, Kinds
  <2> QED
    BY <1>0, <2>1, <2>2, CreatedTyped, GroupAdded
<1>3. CASE r \in [to : {"patch", "archiveGoal"}, id : Nat, patch : Patches]
  <2>1. d = PutCat(b, r.id, Patched(b, b.cats[r.id], r.patch))
    BY <1>0, <1>3, EffectedIs
  <2>2. b.cats[r.id] \in Card /\ r.id \in DOMAIN b.cats /\ r.patch \in Patches
    BY <1>3, BoardParts
  <2>3. Patched(b, b.cats[r.id], r.patch) \in Card
    BY <2>2, PatchedIs
  <2> QED
    BY <1>0, <2>1, <2>2, <2>3, OneCat
<1>4. CASE r \in [to : {"delete"}, id : Nat]
  <2>1. d = CatsLeft(b, r.id)
    BY <1>0, <1>4, EffectedIs
  <2> QED
    BY <1>0, <2>1, CatRemoved
<1>5. CASE r \in [to : {"patchGroup"}, id : Nat, kind : Kinds]
  <2>1. d = PutKind(b, r.id, r.kind)
    BY <1>0, <1>5, EffectedIs
  <2>2. r.id \in DOMAIN b.groups /\ r.kind \in Kinds
    BY <1>5
  <2>3. ASSUME NEW g \in DOMAIN b.groups, NEW kind \in Kinds PROVE IsBoard(PutKind(b, g, kind))
    BY OneGroup
  <2> QED
    BY <2>1, <2>2, <2>3
<1>6. CASE r \in [to : {"deleteGroup"}, id : Nat]
  <2>1. d = GroupsLeft(b, r.id)
    BY <1>0, <1>6, EffectedIs
  <2> QED
    BY <1>0, <2>1, GroupRemoved
<1>7. CASE r \in Listing("reorder")
  <2>1. d = CatsNumbered(b, r.ids) /\ r.ids \in Seq(Nat)
    BY <1>0, <1>7, EffectedIs DEF Listing
  <2> QED
    BY <1>0, <2>1, CatsNumberedIs
<1>8. CASE r \in Listing("reorderGroups")
  <2>1. d = GroupsNumbered(b, r.ids) /\ r.ids \in Seq(Nat)
    BY <1>0, <1>8, EffectedIs DEF Listing
  <2> QED
    BY <1>0, <2>1, GroupsNumberedIs
<1> QED
  BY <1>1, <1>2, <1>3, <1>4, <1>5, <1>6, <1>7, <1>8 DEF RequestTyped

-----------------------------------------------------------------------------
(* Boards that are drawn alike stay so, when both are changed the same way. *)

\* The order depends on the sorts alone.
LEMMA OrderKept ==
    ASSUME NEW f, NEW g, NEW h, NEW k, OrderAs(f, g), DOMAIN h \subseteq DOMAIN f,
           \A x \in DOMAIN h : h[x].sort = f[x].sort /\ k[x].sort = g[x].sort
    PROVE  OrderAs(h, k)
<1> SUFFICES ASSUME NEW x \in DOMAIN h, NEW y \in DOMAIN h
             PROVE  BySortThenId(h, x, y) <=> BySortThenId(k, x, y)
  BY DEF OrderAs
<1>1. x \in DOMAIN f /\ y \in DOMAIN f
  OBVIOUS
<1>2. BySortThenId(h, x, y) <=> BySortThenId(f, x, y)
  BY DEF BySortThenId
<1>3. BySortThenId(k, x, y) <=> BySortThenId(g, x, y)
  BY DEF BySortThenId
<1> QED
  BY <1>1, <1>2, <1>3 DEF OrderAs

\* One that is new and last on both sides keeps the orders the same.
LEMMA OrderGrows ==
    ASSUME NEW f, NEW g, NEW h, NEW k, NEW id \in Nat, OrderAs(f, g), DOMAIN g = DOMAIN f,
           Sortable(f, DOMAIN f), Sortable(g, DOMAIN f), DOMAIN h = DOMAIN f \cup {id},
           \A x \in DOMAIN f : x < id /\ h[x].sort = f[x].sort /\ k[x].sort = g[x].sort,
           h[id].sort \in Nat, k[id].sort \in Nat,
           \A x \in DOMAIN f : f[x].sort <= h[id].sort /\ g[x].sort < k[id].sort
    PROVE  OrderAs(h, k)
<1>1. \A x \in DOMAIN f : x \in Nat /\ f[x].sort \in Nat /\ g[x].sort \in Nat
  BY DEF Sortable
<1> SUFFICES ASSUME NEW x \in DOMAIN h, NEW y \in DOMAIN h
             PROVE  BySortThenId(h, x, y) <=> BySortThenId(k, x, y)
  BY DEF OrderAs
<1>2. CASE x \in DOMAIN f /\ y \in DOMAIN f
  <2>1. BySortThenId(h, x, y) <=> BySortThenId(f, x, y)
    BY <1>2 DEF BySortThenId
  <2>2. BySortThenId(k, x, y) <=> BySortThenId(g, x, y)
    BY <1>2 DEF BySortThenId
  <2> QED
    BY <1>2, <2>1, <2>2 DEF OrderAs
<1>3. CASE x \in DOMAIN f /\ y = id
  <2>1. h[x].sort \in Nat /\ h[x].sort <= h[id].sort /\ x < id
    BY <1>1, <1>3
  <2>2. k[x].sort \in Nat /\ k[x].sort < k[id].sort
    BY <1>1, <1>3
  <2>3. BySortThenId(h, x, y)
    BY <1>3, <2>1 DEF BySortThenId
  <2>4. BySortThenId(k, x, y)
    BY <1>3, <2>2 DEF BySortThenId
  <2> QED
    BY <2>3, <2>4
<1>4. CASE x = id /\ y \in DOMAIN f
  <2>1. h[y].sort \in Nat /\ h[y].sort <= h[id].sort /\ y < id /\ y \in Nat
    BY <1>1, <1>4
  <2>2. k[y].sort \in Nat /\ k[y].sort < k[id].sort
    BY <1>1, <1>4
  <2>3. ~BySortThenId(h, x, y)
    BY <1>4, <2>1 DEF BySortThenId
  <2>4. ~BySortThenId(k, x, y)
    BY <1>4, <2>2 DEF BySortThenId
  <2> QED
    BY <2>3, <2>4
<1>5. CASE x = id /\ y = id
  BY <1>5 DEF BySortThenId
<1> QED
  BY <1>2, <1>3, <1>4, <1>5

LEMMA AlikeGives ==
    ASSUME NEW a, NEW b, Alike(a, b)
    PROVE  /\ DOMAIN a.groups = DOMAIN b.groups /\ DOMAIN a.cats = DOMAIN b.cats
           /\ \A g \in DOMAIN a.groups : a.groups[g].kind = b.groups[g].kind
           /\ \A x \in DOMAIN a.cats : a.cats[x].group = b.cats[x].group /\ a.cats[x].archived = b.cats[x].archived
           /\ OrderAs(a.groups, b.groups) /\ OrderAs(a.cats, b.cats)
           /\ SameColumns(a, b) /\ SameCards(a, b)
BY DEF Alike, SameColumns, SameCards

LEMMA CreatedAlike ==
    ASSUME NEW a, IsBoard(a), NEW b, IsBoard(b), Alike(a, b), NotLater(a),
           NEW r \in [to : {"create"}, group : Nat, target : Nat], NEW id, id = NewId(b.cats)
    PROVE  LET s == WithCat(a, id, NewCard(r, Late))
           IN  IsBoard(s) /\ NotLater(s) /\ Alike(s, WithCat(b, id, NewCard(r, LastSort(b.cats) + 1)))
<1> DEFINE n == LastSort(b.cats) + 1
           u == NewCard(r, Late)
           v == NewCard(r, n)
           s == WithCat(a, id, u)
           d == WithCat(b, id, v)
<1>1. id \in Nat /\ \A x \in DOMAIN b.cats : x < id
  BY NewIdIs DEF IsBoard
<1>2. n \in Nat /\ \A x \in DOMAIN b.cats : b.cats[x].sort < n
  <2>1. LastSort(b.cats) \in Nat /\ \A x \in DOMAIN b.cats : b.cats[x].sort <= LastSort(b.cats)
    BY LastSortIs, BoardSortable
  <2>2. \A x \in DOMAIN b.cats : b.cats[x].sort \in Nat
    BY BoardSortable DEF Sortable
  <2> QED
    BY <2>1, <2>2
<1>3. u \in Card /\ u.sort = Late /\ u.group = r.group /\ u.archived = FALSE
  BY NoneOut DEF NewCard, Card
<1>4. v \in Card /\ v.sort = n /\ v.group = r.group /\ v.archived = FALSE
  BY <1>2 DEF NewCard, Card
<1> HIDE DEF n, u, v
<1>5. /\ IsBoard(s) /\ s.groups = a.groups
      /\ DOMAIN s.cats = DOMAIN a.cats \cup {id} /\ s.cats[id] = u
      /\ \A x \in DOMAIN a.cats : x # id => s.cats[x] = a.cats[x]
  BY <1>1, <1>3, CatAdded
<1>6. /\ d.groups = b.groups
      /\ DOMAIN d.cats = DOMAIN b.cats \cup {id} /\ d.cats[id] = v
      /\ \A x \in DOMAIN b.cats : x # id => d.cats[x] = b.cats[x]
  BY <1>1, <1>4, CatAdded
<1> HIDE DEF s, d
<1>7. /\ DOMAIN a.groups = DOMAIN b.groups /\ DOMAIN a.cats = DOMAIN b.cats
      /\ \A x \in DOMAIN a.cats : a.cats[x].group = b.cats[x].group /\ a.cats[x].archived = b.cats[x].archived
      /\ OrderAs(a.groups, b.groups) /\ OrderAs(a.cats, b.cats) /\ SameColumns(a, b)
  BY AlikeGives
<1>8. /\ DOMAIN s.cats = DOMAIN a.cats \cup {id} /\ DOMAIN d.cats = DOMAIN s.cats
      /\ s.cats[id] = u /\ d.cats[id] = v
      /\ \A x \in DOMAIN a.cats : x # id /\ s.cats[x] = a.cats[x] /\ d.cats[x] = b.cats[x]
  <2>1. \A x \in DOMAIN a.cats : x # id
    BY <1>1, <1>7
  <2> QED
    BY <1>5, <1>6, <1>7, <2>1
<1>9. \A x \in DOMAIN a.cats : a.cats[x].sort <= Late
  BY DEF NotLater
<1>10. OrderAs(s.cats, d.cats)
  <2>1. Sortable(a.cats, DOMAIN a.cats) /\ Sortable(b.cats, DOMAIN a.cats)
    BY <1>7, BoardSortable
  <2>2. \A x \in DOMAIN a.cats : x < id /\ s.cats[x].sort = a.cats[x].sort /\ d.cats[x].sort = b.cats[x].sort
    BY <1>1, <1>7, <1>8
  <2>3. s.cats[id].sort = Late /\ d.cats[id].sort = n /\ Late \in Nat
    BY <1>3, <1>4, <1>8, NoneOut
  <2>4. \A x \in DOMAIN a.cats : a.cats[x].sort <= s.cats[id].sort /\ b.cats[x].sort < d.cats[id].sort
    BY <1>2, <1>7, <1>9, <2>3
  <2> QED
    BY <1>1, <1>2, <1>7, <1>8, <2>1, <2>2, <2>3, <2>4, OrderGrows
<1>11. SameCards(s, d)
  BY <1>3, <1>4, <1>7, <1>8 DEF SameCards
<1>12. SameColumns(s, d) /\ OrderAs(s.groups, d.groups)
  BY <1>5, <1>6, <1>7 DEF SameColumns
<1>13. NotLater(s)
  <2>1. \A x \in DOMAIN s.cats : s.cats[x].sort <= Late
    BY <1>3, <1>8, <1>9, NoneOut
  <2> QED
    BY <1>5, <2>1 DEF NotLater
<1>14. Alike(s, d)
  BY <1>10, <1>11, <1>12 DEF Alike
<1> QED
  BY <1>5, <1>13, <1>14 DEF s, d, u, v, n

LEMMA GroupAlike ==
    ASSUME NEW a, IsBoard(a), NEW b, IsBoard(b), Alike(a, b), NotLater(a),
           NEW r \in [to : {"createGroup"}, kind : Kinds], NEW id, id = NewId(b.groups)
    PROVE  LET s == WithGroup(a, id, NewColumn(r, Late))
           IN  IsBoard(s) /\ NotLater(s) /\ Alike(s, WithGroup(b, id, NewColumn(r, LastSort(b.groups) + 1)))
<1> DEFINE n == LastSort(b.groups) + 1
           u == NewColumn(r, Late)
           v == NewColumn(r, n)
           s == WithGroup(a, id, u)
           d == WithGroup(b, id, v)
<1>1. id \in Nat /\ \A x \in DOMAIN b.groups : x < id
  BY NewIdIs DEF IsBoard
<1>2. n \in Nat /\ \A x \in DOMAIN b.groups : b.groups[x].sort < n
  <2>1. LastSort(b.groups) \in Nat /\ \A x \in DOMAIN b.groups : b.groups[x].sort <= LastSort(b.groups)
    BY LastSortIs, BoardSortable
  <2>2. \A x \in DOMAIN b.groups : b.groups[x].sort \in Nat
    BY BoardSortable DEF Sortable
  <2> QED
    BY <2>1, <2>2
<1>3. u \in Column /\ u.sort = Late /\ u.kind = r.kind
  BY NoneOut DEF NewColumn, Column, Kinds
<1>4. v \in Column /\ v.sort = n /\ v.kind = r.kind
  BY <1>2 DEF NewColumn, Column, Kinds
<1> HIDE DEF n, u, v
<1>5. /\ IsBoard(s) /\ s.cats = a.cats
      /\ DOMAIN s.groups = DOMAIN a.groups \cup {id} /\ s.groups[id] = u
      /\ \A x \in DOMAIN a.groups : x # id => s.groups[x] = a.groups[x]
  BY <1>1, <1>3, GroupAdded
<1>6. /\ d.cats = b.cats
      /\ DOMAIN d.groups = DOMAIN b.groups \cup {id} /\ d.groups[id] = v
      /\ \A x \in DOMAIN b.groups : x # id => d.groups[x] = b.groups[x]
  BY <1>1, <1>4, GroupAdded
<1> HIDE DEF s, d
<1>7. /\ DOMAIN a.groups = DOMAIN b.groups
      /\ \A g \in DOMAIN a.groups : a.groups[g].kind = b.groups[g].kind
      /\ OrderAs(a.groups, b.groups) /\ OrderAs(a.cats, b.cats) /\ SameCards(a, b)
  BY AlikeGives
<1>8. /\ DOMAIN s.groups = DOMAIN a.groups \cup {id} /\ DOMAIN d.groups = DOMAIN s.groups
      /\ s.groups[id] = u /\ d.groups[id] = v
      /\ \A x \in DOMAIN a.groups : x # id /\ s.groups[x] = a.groups[x] /\ d.groups[x] = b.groups[x]
  <2>1. \A x \in DOMAIN a.groups : x # id
    BY <1>1, <1>7
  <2> QED
    BY <1>5, <1>6, <1>7, <2>1
<1>9. \A x \in DOMAIN a.groups : a.groups[x].sort <= Late
  BY DEF NotLater
<1>10. OrderAs(s.groups, d.groups)
  <2>1. Sortable(a.groups, DOMAIN a.groups) /\ Sortable(b.groups, DOMAIN a.groups)
    BY <1>7, BoardSortable
  <2>2. \A x \in DOMAIN a.groups :
            x < id /\ s.groups[x].sort = a.groups[x].sort /\ d.groups[x].sort = b.groups[x].sort
    BY <1>1, <1>7, <1>8
  <2>3. s.groups[id].sort = Late /\ d.groups[id].sort = n /\ Late \in Nat
    BY <1>3, <1>4, <1>8, NoneOut
  <2>4. \A x \in DOMAIN a.groups : a.groups[x].sort <= s.groups[id].sort /\ b.groups[x].sort < d.groups[id].sort
    BY <1>2, <1>7, <1>9, <2>3
  <2> QED
    BY <1>1, <1>2, <1>7, <1>8, <2>1, <2>2, <2>3, <2>4, OrderGrows
<1>11. SameColumns(s, d)
  BY <1>3, <1>4, <1>7, <1>8 DEF SameColumns
<1>12. SameCards(s, d) /\ OrderAs(s.cats, d.cats)
  BY <1>5, <1>6, <1>7 DEF SameCards
<1>13. NotLater(s)
  <2>1. \A x \in DOMAIN s.groups : s.groups[x].sort <= Late
    BY <1>3, <1>8, <1>9, NoneOut
  <2> QED
    BY <1>5, <2>1 DEF NotLater
<1>14. Alike(s, d)
  BY <1>10, <1>11, <1>12 DEF Alike
<1> QED
  BY <1>5, <1>13, <1>14 DEF s, d, u, v, n

\* What a patch shows and what it saves.
LEMMA PatchAlike ==
    ASSUME NEW a, IsBoard(a), NEW b, IsBoard(b), SameCards(a, b),
           NEW id \in DOMAIN b.cats, NEW patch \in Patches,
           NEW s, s = ShownPatch(a, id, patch), NEW d, d = PutCat(b, id, Patched(b, b.cats[id], patch))
    PROVE  /\ IsBoard(s) /\ s.groups = a.groups /\ d.groups = b.groups /\ SameCards(s, d)
           /\ DOMAIN s.cats = DOMAIN a.cats /\ DOMAIN d.cats = DOMAIN b.cats
           /\ \A x \in DOMAIN a.cats : s.cats[x].sort = a.cats[x].sort /\ d.cats[x].sort = b.cats[x].sort
<1>1. /\ DOMAIN a.cats = DOMAIN b.cats /\ id \in DOMAIN a.cats
      /\ \A x \in DOMAIN a.cats : a.cats[x].group = b.cats[x].group /\ a.cats[x].archived = b.cats[x].archived
  BY DEF SameCards
<1>2. IsBoard(s)
  BY ShownPatchIs
<1>3. /\ s.groups = a.groups /\ DOMAIN s.cats = DOMAIN a.cats
      /\ \A x \in DOMAIN a.cats : x # id => s.cats[x] = a.cats[x]
      /\ s.cats[id].sort = a.cats[id].sort
      /\ s.cats[id].group = Given(patch.group, a.cats[id].group)
      /\ s.cats[id].archived = Given(patch.archived, a.cats[id].archived)
  BY <1>1, ShownPatchIs
<1> DEFINE q == Patched(b, b.cats[id], patch)
<1>4. b.cats[id] \in Card
  BY BoardParts
<1>5. /\ q \in Card /\ q.sort = b.cats[id].sort /\ q.group = Given(patch.group, b.cats[id].group)
      /\ q.archived = Given(patch.archived, b.cats[id].archived)
  BY <1>4, PatchedIs
<1> HIDE DEF q
<1>6. d = PutCat(b, id, q)
  BY DEF q
<1>7. d.groups = b.groups /\ d.cats = [b.cats EXCEPT ![id] = q]
  BY <1>5, <1>6, OneCat
<1>8. /\ DOMAIN d.cats = DOMAIN b.cats /\ d.cats[id] = q
      /\ \A x \in DOMAIN a.cats : x # id => d.cats[x] = b.cats[x]
  BY <1>1, <1>7
<1>9. s.cats[id].group = q.group /\ s.cats[id].archived = q.archived
  BY <1>1, <1>3, <1>5
<1>10. ASSUME NEW x \in DOMAIN a.cats
       PROVE  /\ s.cats[x].sort = a.cats[x].sort /\ d.cats[x].sort = b.cats[x].sort
              /\ s.cats[x].group = d.cats[x].group /\ s.cats[x].archived = d.cats[x].archived
  <2>1. CASE x = id
    BY <1>3, <1>5, <1>8, <1>9, <2>1
  <2>2. CASE x # id
    BY <1>1, <1>3, <1>8, <2>2
  <2> QED
    BY <2>1, <2>2
<1> QED
  BY <1>1, <1>2, <1>3, <1>7, <1>8, <1>10 DEF SameCards

LEMMA PatchedAlike ==
    ASSUME NEW a, IsBoard(a), NEW b, IsBoard(b), Alike(a, b), NotLater(a),
           NEW id \in DOMAIN b.cats, NEW patch \in Patches,
           NEW s, s = ShownPatch(a, id, patch), NEW d, d = PutCat(b, id, Patched(b, b.cats[id], patch))
    PROVE  IsBoard(s) /\ NotLater(s) /\ Alike(s, d)
<1>1. /\ IsBoard(s) /\ s.groups = a.groups /\ d.groups = b.groups /\ SameCards(s, d)
      /\ DOMAIN s.cats = DOMAIN a.cats /\ DOMAIN d.cats = DOMAIN b.cats
      /\ \A x \in DOMAIN a.cats : s.cats[x].sort = a.cats[x].sort /\ d.cats[x].sort = b.cats[x].sort
  BY AlikeGives, PatchAlike
<1>2. OrderAs(s.cats, d.cats)
  BY <1>1, AlikeGives, OrderKept
<1>3. SameColumns(s, d) /\ OrderAs(s.groups, d.groups)
  BY <1>1, AlikeGives DEF SameColumns
<1> QED
  BY <1>1, <1>2, <1>3 DEF Alike, NotLater

LEMMA CatsLeftAlike ==
    ASSUME NEW a, IsBoard(a), NEW b, IsBoard(b), Alike(a, b), NotLater(a), NEW id,
           NEW s, s = CatsLeft(a, id), NEW d, d = CatsLeft(b, id)
    PROVE  IsBoard(s) /\ NotLater(s) /\ Alike(s, d)
<1>1. /\ IsBoard(s) /\ s.groups = a.groups /\ DOMAIN s.cats = DOMAIN a.cats \ {id}
      /\ \A x \in DOMAIN s.cats : s.cats[x] = a.cats[x]
  BY CatRemoved
<1>2. /\ d.groups = b.groups /\ DOMAIN d.cats = DOMAIN b.cats \ {id}
      /\ \A x \in DOMAIN d.cats : d.cats[x] = b.cats[x]
  BY CatRemoved
<1>3. /\ DOMAIN s.cats = DOMAIN a.cats \ {id} /\ DOMAIN d.cats = DOMAIN s.cats
      /\ \A x \in DOMAIN s.cats : s.cats[x] = a.cats[x] /\ d.cats[x] = b.cats[x]
  BY <1>1, <1>2, AlikeGives
<1>4. OrderAs(s.cats, d.cats)
  BY <1>3, AlikeGives, OrderKept
<1>5. SameCards(s, d)
  BY <1>3, AlikeGives DEF SameCards
<1>6. SameColumns(s, d) /\ OrderAs(s.groups, d.groups)
  BY <1>1, <1>2, AlikeGives DEF SameColumns
<1> QED
  BY <1>1, <1>3, <1>4, <1>5, <1>6 DEF Alike, NotLater

LEMMA GroupsLeftAlike ==
    ASSUME NEW a, IsBoard(a), NEW b, IsBoard(b), Alike(a, b), NotLater(a), NEW id,
           NEW s, s = GroupsLeft(a, id), NEW d, d = GroupsLeft(b, id)
    PROVE  IsBoard(s) /\ NotLater(s) /\ Alike(s, d)
<1>1. /\ IsBoard(s) /\ s.cats = a.cats /\ DOMAIN s.groups = DOMAIN a.groups \ {id}
      /\ \A x \in DOMAIN s.groups : s.groups[x] = a.groups[x]
  BY GroupRemoved
<1>2. /\ d.cats = b.cats /\ DOMAIN d.groups = DOMAIN b.groups \ {id}
      /\ \A x \in DOMAIN d.groups : d.groups[x] = b.groups[x]
  BY GroupRemoved
<1>3. /\ DOMAIN s.groups = DOMAIN a.groups \ {id} /\ DOMAIN d.groups = DOMAIN s.groups
      /\ \A x \in DOMAIN s.groups : s.groups[x] = a.groups[x] /\ d.groups[x] = b.groups[x]
  BY <1>1, <1>2, AlikeGives
<1>4. OrderAs(s.groups, d.groups)
  BY <1>3, AlikeGives, OrderKept
<1>5. SameColumns(s, d)
  BY <1>3, AlikeGives DEF SameColumns
<1>6. SameCards(s, d) /\ OrderAs(s.cats, d.cats)
  BY <1>1, <1>2, AlikeGives DEF SameCards
<1> QED
  BY <1>1, <1>3, <1>4, <1>5, <1>6 DEF Alike, NotLater

LEMMA KindAlike ==
    ASSUME NEW a, IsBoard(a), NEW b, IsBoard(b), Alike(a, b), NotLater(a),
           NEW g \in DOMAIN b.groups, NEW kind \in Kinds,
           NEW s, s = PutKind(a, g, kind), NEW d, d = PutKind(b, g, kind)
    PROVE  IsBoard(s) /\ NotLater(s) /\ Alike(s, d)
<1>1. g \in DOMAIN a.groups
  BY AlikeGives
<1>2. /\ IsBoard(s) /\ s.cats = a.cats
      /\ s.groups = [a.groups EXCEPT ![g] = [kind |-> kind, sort |-> a.groups[g].sort]]
  BY <1>1, OneGroup
<1>3. d.cats = b.cats /\ d.groups = [b.groups EXCEPT ![g] = [kind |-> kind, sort |-> b.groups[g].sort]]
  BY OneGroup
<1>4. /\ DOMAIN s.groups = DOMAIN a.groups /\ DOMAIN d.groups = DOMAIN b.groups
      /\ DOMAIN a.groups = DOMAIN b.groups
  BY <1>2, <1>3, AlikeGives
<1>5. ASSUME NEW x \in DOMAIN s.groups
      PROVE  /\ s.groups[x].sort = a.groups[x].sort /\ d.groups[x].sort = b.groups[x].sort
             /\ s.groups[x].kind = d.groups[x].kind
  <2>1. CASE x = g
    <3>1. s.groups[x] = [kind |-> kind, sort |-> a.groups[g].sort]
      BY <1>1, <1>2, <2>1
    <3>2. d.groups[x] = [kind |-> kind, sort |-> b.groups[g].sort]
      BY <1>3, <2>1
    <3> QED
      BY <2>1, <3>1, <3>2
  <2>2. CASE x # g
    BY <1>2, <1>3, <1>4, <2>2, AlikeGives
  <2> QED
    BY <2>1, <2>2
<1>6. OrderAs(s.groups, d.groups)
  BY <1>4, <1>5, AlikeGives, OrderKept
<1>7. SameColumns(s, d)
  BY <1>4, <1>5 DEF SameColumns
<1>8. SameCards(s, d) /\ OrderAs(s.cats, d.cats)
  BY <1>2, <1>3, AlikeGives DEF SameCards
<1>9. NotLater(s)
  BY <1>2, <1>4, <1>5 DEF NotLater
<1> QED
  BY <1>2, <1>6, <1>7, <1>8, <1>9 DEF Alike

\* Where all are numbered the same way, they come in the same order.
LEMMA NumberedAlike ==
    ASSUME NEW f, NEW g, NEW ids, DOMAIN g = DOMAIN f, DOMAIN f = ToSet(ids),
           NumberedBy(f, ids), NumberedBy(g, ids)
    PROVE  OrderAs(f, g)
<1>1. \A x \in DOMAIN f : f[x].sort = g[x].sort
  BY DEF NumberedBy
<1> QED
  BY <1>1 DEF OrderAs, BySortThenId

-----------------------------------------------------------------------------
(* Sorts stay below the one of what was just created.                       *)

LEMMA BelowMore ==
    ASSUME NEW m \in Int, NEW n \in Int, m <= n, NEW f, Sortable(f, DOMAIN f), Below(f, m)
    PROVE  Below(f, n)
<1>1. Cardinality(DOMAIN f) \in Nat /\ \A x \in DOMAIN f : f[x].sort \in Nat
  BY FS_CardinalityType DEF Sortable
<1> QED
  BY <1>1 DEF Below

LEMMA BelowLess ==
    ASSUME NEW n \in Int, NEW f, Sortable(f, DOMAIN f), Below(f, n),
           NEW g, DOMAIN g \subseteq DOMAIN f, \A x \in DOMAIN g : g[x].sort = f[x].sort
    PROVE  Below(g, n)
<1>1. /\ Cardinality(DOMAIN f) \in Nat /\ Cardinality(DOMAIN g) \in Nat
      /\ Cardinality(DOMAIN g) <= Cardinality(DOMAIN f)
  BY FS_CardinalityType, FS_Subset DEF Sortable
<1>2. Cardinality(DOMAIN g) < n
  BY <1>1 DEF Below
<1> QED
  BY <1>2 DEF Below

LEMMA BelowNumbered ==
    ASSUME NEW n \in Int, NEW f, Below(f, n), NEW ids \in Seq(Nat), Len(ids) < n,
           NEW g, DOMAIN g = DOMAIN f, NumberedBy(g, ids),
           \A x \in DOMAIN f : x \notin ToSet(ids) => g[x].sort = f[x].sort
    PROVE  Below(g, n)
<1> SUFFICES ASSUME NEW x \in DOMAIN f PROVE g[x].sort < n
  BY DEF Below
<1>1. CASE x \in ToSet(ids)
  <2>1. g[x].sort = IndexIn(ids, x) + 1
    BY <1>1 DEF NumberedBy
  <2>2. IndexIn(ids, x) \in 0 .. Len(ids) /\ IndexIn(ids, x) < Len(ids) /\ Len(ids) \in Nat
    BY <1>1, FirstPlace
  <2> QED
    BY <2>1, <2>2
<1>2. CASE x \notin ToSet(ids)
  BY <1>2 DEF Below
<1> QED
  BY <1>1, <1>2

LEMMA BelowGrows ==
    ASSUME NEW n \in Int, NEW f, Sortable(f, DOMAIN f), Below(f, n), NEW id, id \notin DOMAIN f,
           NEW g, DOMAIN g = DOMAIN f \cup {id}, g[id].sort = LastSort(f) + 1,
           \A x \in DOMAIN f : g[x] = f[x]
    PROVE  Below(g, n + 1)
<1>1. /\ Cardinality(DOMAIN f) \in Nat /\ Cardinality(DOMAIN g) = Cardinality(DOMAIN f) + 1
      /\ Cardinality(DOMAIN f) < n
  BY FS_CardinalityType, FS_AddElement DEF Sortable, Below
<1>2. LastSort(f) \in Nat /\ (LastSort(f) = 0 \/ \E x \in DOMAIN f : f[x].sort = LastSort(f))
  BY LastSortIs
<1>3. LastSort(f) < n
  BY <1>1, <1>2 DEF Below
<1>4. \A x \in DOMAIN f : g[x].sort \in Nat /\ g[x].sort < n
  BY DEF Below, Sortable
<1>5. \A x \in DOMAIN g : g[x].sort < n + 1
  BY <1>2, <1>3, <1>4
<1> QED
  BY <1>1, <1>5 DEF Below

LEMMA RoomMore ==
    ASSUME NEW m \in Int, NEW n \in Int, m <= n, NEW b, IsBoard(b), Room(b, m)
    PROVE  Room(b, n)
BY BelowMore, BoardSortable DEF Room

\* What a request leaves keeps its numbers low, and creating takes one more.
LEMMA RoomLeft ==
    ASSUME NEW n \in Int, NEW b, IsBoard(b), Room(b, n), NEW r, RequestTyped(r),
           r.to \in {"patch", "archiveGoal"} => r.id \in DOMAIN b.cats,
           r.to = "patchGroup" => r.id \in DOMAIN b.groups,
           r.to \in {"reorder", "reorderGroups"} => Len(r.ids) < n,
           NEW d, d = Effected(b, r)
    PROVE  Room(d, IF r.to \in {"create", "createGroup"} THEN n + 1 ELSE n)
<1>0. /\ Below(b.cats, n) /\ Below(b.groups, n) /\ n + 1 \in Int /\ n <= n + 1
      /\ Sortable(b.cats, DOMAIN b.cats) /\ Sortable(b.groups, DOMAIN b.groups)
  BY BoardSortable DEF Room
<1>1. CASE r \in [to : {"create"}, group : Nat, target : Nat]
  <2> DEFINE u == NewCard(r, LastSort(b.cats) + 1)
             id == NewId(b.cats)
  <2>1. d = WithCat(b, id, u)
    BY <1>1, EffectedIs
  <2>2. u \in Card /\ u.sort = LastSort(b.cats) + 1
    BY <1>1, CreatedTyped DEF NewCard, Card
  <2>3. id \in Nat /\ \A x \in DOMAIN b.cats : x < id
    BY NewIdIs DEF IsBoard
  <2> HIDE DEF u, id
  <2>4. /\ d.groups = b.groups
        /\ DOMAIN d.cats = DOMAIN b.cats \cup {id} /\ d.cats[id] = u
        /\ \A x \in DOMAIN b.cats : x # id => d.cats[x] = b.cats[x]
    BY <2>1, <2>2, <2>3, CatAdded
  <2>5. id \notin DOMAIN b.cats
    BY <2>3
  <2>6. /\ DOMAIN d.cats = DOMAIN b.cats \cup {id} /\ d.cats[id].sort = LastSort(b.cats) + 1
        /\ \A x \in DOMAIN b.cats : d.cats[x] = b.cats[x]
    BY <2>2, <2>4, <2>5
  <2>7. Below(d.cats, n + 1)
    BY <1>0, <2>5, <2>6, BelowGrows
  <2>8. Below(d.groups, n + 1)
    BY <1>0, <2>4, BelowMore
  <2> QED
    BY <1>1, <2>7, <2>8 DEF Room
<1>2. CASE r \in [to : {"createGroup"}, kind : Kinds]
  <2> DEFINE u == NewColumn(r, LastSort(b.groups) + 1)
             id == NewId(b.groups)
  <2>1. d = WithGroup(b, id, u)
    BY <1>2, EffectedIs
  <2>2. u \in Column /\ u.sort = LastSort(b.groups) + 1
    BY <1>2, CreatedTyped DEF NewColumn, Column, Kinds
  <2>3. id \in Nat /\ \A x \in DOMAIN b.groups : x < id
    BY NewIdIs DEF IsBoard
  <2> HIDE DEF u, id
  <2>4. /\ d.cats = b.cats
        /\ DOMAIN d.groups = DOMAIN b.groups \cup {id} /\ d.groups[id] = u
        /\ \A x \in DOMAIN b.groups : x # id => d.groups[x] = b.groups[x]
    BY <2>1, <2>2, <2>3, GroupAdded
  <2>5. id \notin DOMAIN b.groups
    BY <2>3
  <2>6. /\ DOMAIN d.groups = DOMAIN b.groups \cup {id} /\ d.groups[id].sort = LastSort(b.groups) + 1
        /\ \A x \in DOMAIN b.groups : d.groups[x] = b.groups[x]
    BY <2>2, <2>4, <2>5
  <2>7. Below(d.groups, n + 1)
    BY <1>0, <2>5, <2>6, BelowGrows
  <2>8. Below(d.cats, n + 1)
    BY <1>0, <2>4, BelowMore
  <2> QED
    BY <1>2, <2>7, <2>8 DEF Room
<1>3. CASE r \in [to : {"patch", "archiveGoal"}, id : Nat, patch : Patches]
  <2> DEFINE q == Patched(b, b.cats[r.id], r.patch)
  <2>1. d = PutCat(b, r.id, q)
    BY <1>3, EffectedIs
  <2>2. b.cats[r.id] \in Card /\ r.id \in DOMAIN b.cats /\ r.patch \in Patches
    BY <1>3, BoardParts
  <2>3. q \in Card /\ q.sort = b.cats[r.id].sort
    BY <2>2, PatchedIs
  <2> HIDE DEF q
  <2>4. d.groups = b.groups /\ d.cats = [b.cats EXCEPT ![r.id] = q]
    BY <2>1, <2>2, <2>3, OneCat
  <2>5. DOMAIN d.cats = DOMAIN b.cats /\ \A x \in DOMAIN b.cats : d.cats[x].sort = b.cats[x].sort
    BY <2>2, <2>3, <2>4
  <2> QED
    BY <1>0, <1>3, <2>4, <2>5, BelowLess DEF Room
<1>4. CASE r \in [to : {"delete"}, id : Nat]
  <2>1. d = CatsLeft(b, r.id)
    BY <1>4, EffectedIs
  <2>2. /\ d.groups = b.groups /\ DOMAIN d.cats = DOMAIN b.cats \ {r.id}
        /\ \A x \in DOMAIN d.cats : d.cats[x] = b.cats[x]
    BY <2>1, CatRemoved
  <2>3. DOMAIN d.cats \subseteq DOMAIN b.cats /\ \A x \in DOMAIN d.cats : d.cats[x].sort = b.cats[x].sort
    BY <2>2
  <2> QED
    BY <1>0, <1>4, <2>2, <2>3, BelowLess DEF Room
<1>5. CASE r \in [to : {"patchGroup"}, id : Nat, kind : Kinds]
  <2>1. d = PutKind(b, r.id, r.kind)
    BY <1>5, EffectedIs
  <2>2. r.id \in DOMAIN b.groups /\ r.kind \in Kinds
    BY <1>5
  <2>3. ASSUME NEW g \in DOMAIN b.groups, NEW kind \in Kinds, d = PutKind(b, g, kind)
        PROVE  d.cats = b.cats /\ d.groups = [b.groups EXCEPT ![g] = [kind |-> kind, sort |-> b.groups[g].sort]]
    BY <2>3, OneGroup
  <2>4. d.cats = b.cats /\ d.groups = [b.groups EXCEPT ![r.id] = [kind |-> r.kind, sort |-> b.groups[r.id].sort]]
    BY <2>1, <2>2, <2>3
  <2>5. DOMAIN d.groups = DOMAIN b.groups /\ \A x \in DOMAIN b.groups : d.groups[x].sort = b.groups[x].sort
    BY <2>2, <2>4
  <2> QED
    BY <1>0, <1>5, <2>4, <2>5, BelowLess DEF Room
<1>6. CASE r \in [to : {"deleteGroup"}, id : Nat]
  <2>1. d = GroupsLeft(b, r.id)
    BY <1>6, EffectedIs
  <2>2. /\ d.cats = b.cats /\ DOMAIN d.groups = DOMAIN b.groups \ {r.id}
        /\ \A x \in DOMAIN d.groups : d.groups[x] = b.groups[x]
    BY <2>1, GroupRemoved
  <2>3. DOMAIN d.groups \subseteq DOMAIN b.groups /\ \A x \in DOMAIN d.groups : d.groups[x].sort = b.groups[x].sort
    BY <2>2
  <2> QED
    BY <1>0, <1>6, <2>2, <2>3, BelowLess DEF Room
<1>7. CASE r \in Listing("reorder")
  <2>1. d = CatsNumbered(b, r.ids) /\ r.ids \in Seq(Nat) /\ Len(r.ids) < n /\ r.to = "reorder"
    BY <1>7, EffectedIs DEF Listing
  <2>2. /\ d.groups = b.groups /\ DOMAIN d.cats = DOMAIN b.cats /\ NumberedBy(d.cats, r.ids)
        /\ \A x \in DOMAIN b.cats : x \notin ToSet(r.ids) => d.cats[x].sort = b.cats[x].sort
    BY <2>1, CatsNumberedIs
  <2>3. Below(d.cats, n)
    BY <1>0, <2>1, <2>2, BelowNumbered
  <2> QED
    BY <1>0, <2>1, <2>2, <2>3 DEF Room
<1>8. CASE r \in Listing("reorderGroups")
  <2>1. d = GroupsNumbered(b, r.ids) /\ r.ids \in Seq(Nat) /\ Len(r.ids) < n /\ r.to = "reorderGroups"
    BY <1>8, EffectedIs DEF Listing
  <2>2. /\ d.cats = b.cats /\ DOMAIN d.groups = DOMAIN b.groups /\ NumberedBy(d.groups, r.ids)
        /\ \A x \in DOMAIN b.groups : x \notin ToSet(r.ids) => d.groups[x].sort = b.groups[x].sort
    BY <2>1, GroupsNumberedIs
  <2>3. Below(d.groups, n)
    BY <1>0, <2>1, <2>2, BelowNumbered
  <2> QED
    BY <1>0, <2>1, <2>2, <2>3 DEF Room
<1> QED
  BY <1>1, <1>2, <1>3, <1>4, <1>5, <1>6, <1>7, <1>8 DEF RequestTyped

-----------------------------------------------------------------------------
(* Calls: their forms, and what each is held to.                           *)

\* Calls as they go on.
CallOk(c, made)   == [c EXCEPT !.stage = "ok", !.made = made]
CallRead(c, read) == [c EXCEPT !.stage = "ok", !.read = read]
CallFailed(c)     == [c EXCEPT !.stage = "failed"]
CallNext(c)       == [c EXCEPT !.requests = Tail(c.requests), !.stage = "sent", !.made = None]
CallLoads(c)      == [c EXCEPT !.requests = <<[to |-> "load"]>>, !.stage = "sent", !.made = None]

LEMMA CallsGoOn ==
    ASSUME NEW c, DOMAIN c = CallFields, NEW m
    PROVE  /\ LET d == CallOk(c, m) IN
              /\ DOMAIN d = CallFields /\ d.stage = "ok" /\ d.made = m /\ d.op = c.op /\ d.requests = c.requests
              /\ d.before = c.before /\ d.read = c.read
           /\ LET d == CallRead(c, m) IN
              /\ DOMAIN d = CallFields /\ d.stage = "ok" /\ d.read = m /\ d.op = c.op /\ d.requests = c.requests
              /\ d.before = c.before
           /\ LET d == CallFailed(c) IN
              /\ DOMAIN d = CallFields /\ d.stage = "failed" /\ d.op = c.op /\ d.requests = c.requests
              /\ d.before = c.before
           /\ LET d == CallNext(c) IN
              /\ DOMAIN d = CallFields /\ d.stage = "sent" /\ d.op = c.op /\ d.requests = Tail(c.requests)
              /\ d.before = c.before
           /\ LET d == CallLoads(c) IN
              /\ DOMAIN d = CallFields /\ d.stage = "sent" /\ d.op = c.op /\ d.requests = <<[to |-> "load"]>>
              /\ d.before = c.before
BY DEF CallFields, CallOk, CallRead, CallFailed, CallNext, CallLoads

\* The five forms of a call.
Asking(c)    == c.requests = <<c.requests[1]>> /\ AsksFor(c.op, c.requests[1])
MovePatch(c) == /\ c.op = "move" /\ Len(c.requests) = 2 /\ c.requests = <<c.requests[1], c.requests[2]>>
                /\ c.requests[1] \in Patching /\ c.requests[2] \in Listing("reorder")
MoveOrder(c) == c.op = "move" /\ c.requests = <<c.requests[1]>> /\ c.requests[1] \in Listing("reorder")
ColumnsOrder(c) == /\ c.op = "reorderGroups" /\ c.requests = <<c.requests[1]>>
                   /\ c.requests[1] \in Listing("reorderGroups")
Loads(c) == c.op \in Dragging /\ c.requests = <<[to |-> "load"]>>

LEMMA CallForms ==
    ASSUME NEW c
    PROVE  CallTyped(c) <=>
             /\ DOMAIN c = CallFields /\ c.stage \in {"sent", "ok", "failed"}
             /\ \/ Asking(c) /\ (c.op \in Creating => IsBoard(c.before) /\ (c.stage = "ok" => c.made \in Nat))
                \/ MovePatch(c)
                \/ MoveOrder(c)
                \/ ColumnsOrder(c)
                \/ Loads(c) /\ (c.stage = "ok" => IsBoard(c.read))
BY DEF CallTyped, Asking, MovePatch, MoveOrder, ColumnsOrder, Loads

\* What each form says of the first request and of the operation.
LEMMA FormsApart ==
    ASSUME NEW c
    PROVE  /\ Asking(c) => /\ Head(c.requests) = c.requests[1] /\ Len(c.requests) = 1 /\ c.op \notin Dragging
                           /\ c.requests[1].to \notin {"load", "reorder", "reorderGroups"}
                           /\ RequestTyped(c.requests[1])
                           /\ (c.requests[1].to \in {"create", "createGroup"} <=> c.op \in Creating)
           /\ MovePatch(c) => /\ Head(c.requests) = c.requests[1] /\ Len(c.requests) = 2 /\ c.op = "move"
                              /\ c.requests[1].to = "patch" /\ RequestTyped(c.requests[1])
                              /\ Tail(c.requests) = <<c.requests[2]>>
           /\ MoveOrder(c) => /\ Head(c.requests) = c.requests[1] /\ Len(c.requests) = 1 /\ c.op = "move"
                              /\ c.requests[1].to = "reorder" /\ RequestTyped(c.requests[1])
           /\ ColumnsOrder(c) => /\ Head(c.requests) = c.requests[1] /\ Len(c.requests) = 1
                                 /\ c.op = "reorderGroups"
                                 /\ c.requests[1].to = "reorderGroups" /\ RequestTyped(c.requests[1])
           /\ Loads(c) => /\ Head(c.requests) = c.requests[1] /\ Len(c.requests) = 1 /\ c.op \in Dragging
                          /\ c.requests[1].to = "load"
<1>1. ASSUME Asking(c)
      PROVE  /\ Head(c.requests) = c.requests[1] /\ Len(c.requests) = 1 /\ c.op \notin Dragging
             /\ c.requests[1].to \notin {"load", "reorder", "reorderGroups"}
             /\ RequestTyped(c.requests[1])
             /\ (c.requests[1].to \in {"create", "createGroup"} <=> c.op \in Creating)
  <2>1. Head(c.requests) = c.requests[1] /\ Len(c.requests) = 1
    <3>1. c.requests = <<c.requests[1]>>
      BY <1>1 DEF Asking
    <3> QED
      BY <3>1
  <2> DEFINE r == c.requests[1]
  <2>2. AsksFor(c.op, r)
    BY <1>1 DEF Asking
  <2> HIDE DEF r
  <2>3. /\ c.op \notin Dragging /\ r.to \notin {"load", "reorder", "reorderGroups"}
        /\ RequestTyped(r) /\ (r.to \in {"create", "createGroup"} <=> c.op \in Creating)
    BY <2>2 DEF AsksFor, Dragging, Creating, RequestTyped
  <2> QED
    BY <2>1, <2>3 DEF r
<1>2. ASSUME MovePatch(c)
      PROVE  /\ Head(c.requests) = c.requests[1] /\ Len(c.requests) = 2 /\ c.op = "move"
             /\ c.requests[1].to = "patch" /\ RequestTyped(c.requests[1])
             /\ Tail(c.requests) = <<c.requests[2]>>
  <2>1. Head(c.requests) = c.requests[1] /\ Tail(c.requests) = <<c.requests[2]>> /\ Len(c.requests) = 2
    <3>1. c.requests = <<c.requests[1], c.requests[2]>>
      BY <1>2 DEF MovePatch
    <3>2. ASSUME NEW p, NEW q, NEW s, s = <<p, q>>
          PROVE  Head(s) = p /\ Tail(s) = <<q>> /\ Len(s) = 2
      BY <3>2
    <3> QED
      BY <3>1, <3>2
  <2>2. c.requests[1].to = "patch" /\ RequestTyped(c.requests[1])
    BY <1>2 DEF MovePatch, Patching, RequestTyped
  <2> QED
    BY <1>2, <2>1, <2>2 DEF MovePatch
<1>3. ASSUME MoveOrder(c)
      PROVE  /\ Head(c.requests) = c.requests[1] /\ Len(c.requests) = 1 /\ c.op = "move"
             /\ c.requests[1].to = "reorder" /\ RequestTyped(c.requests[1])
  <2>1. Head(c.requests) = c.requests[1] /\ Len(c.requests) = 1
    <3>1. c.requests = <<c.requests[1]>>
      BY <1>3 DEF MoveOrder
    <3> QED
      BY <3>1
  <2>2. c.requests[1].to = "reorder" /\ RequestTyped(c.requests[1])
    BY <1>3 DEF MoveOrder, Listing, RequestTyped
  <2> QED
    BY <1>3, <2>1, <2>2 DEF MoveOrder
<1>4. ASSUME ColumnsOrder(c)
      PROVE  /\ Head(c.requests) = c.requests[1] /\ Len(c.requests) = 1
             /\ c.op = "reorderGroups"
             /\ c.requests[1].to = "reorderGroups" /\ RequestTyped(c.requests[1])
  <2>1. Head(c.requests) = c.requests[1] /\ Len(c.requests) = 1
    <3>1. c.requests = <<c.requests[1]>>
      BY <1>4 DEF ColumnsOrder
    <3> QED
      BY <3>1
  <2>2. c.requests[1].to = "reorderGroups" /\ RequestTyped(c.requests[1])
    BY <1>4 DEF ColumnsOrder, Listing, RequestTyped
  <2> QED
    BY <1>4, <2>1, <2>2 DEF ColumnsOrder
<1>5. ASSUME Loads(c)
      PROVE  /\ Head(c.requests) = c.requests[1] /\ Len(c.requests) = 1 /\ c.op \in Dragging
             /\ c.requests[1].to = "load"
  <2>1. c.requests = <<[to |-> "load"]>> /\ c.op \in Dragging
    BY <1>5 DEF Loads
  <2>2. c.requests[1] = [to |-> "load"] /\ Head(c.requests) = c.requests[1] /\ Len(c.requests) = 1
    BY <2>1
  <2> QED
    BY <2>1, <2>2
<1> QED
  BY <1>1, <1>2, <1>3, <1>4, <1>5

LEMMA ShownIs ==
    ASSUME NEW b, NEW c, NEW r, r = Head(c.requests), NEW d, d = ShownOnceSaved(b, c)
    PROVE  /\ c.op = "createCategory" => d = WithCat(c.before, c.made, NewCard(r, Late))
           /\ c.op = "createGroup" => d = WithGroup(c.before, c.made, NewColumn(r, Late))
           /\ c.op = "patchCategory" => d = ShownPatch(b, r.id, r.patch)
           /\ c.op = "deleteCategory" => d = CatsLeft(b, r.id)
           /\ c.op = "patchGroup" => d = IF r.id \in DOMAIN b.groups THEN PutKind(b, r.id, r.kind) ELSE b
           /\ c.op = "deleteGroup" => d = GroupsLeft(b, r.id)
           /\ c.op \in Dragging => d = IF r.to = "load" THEN c.read ELSE b
<1>1. c.op = "createCategory" => d = WithCat(c.before, c.made, NewCard(r, Late))
  BY DEF ShownOnceSaved, NewCard
<1>2. c.op = "createGroup" => d = WithGroup(c.before, c.made, NewColumn(r, Late))
  BY DEF ShownOnceSaved, NewColumn
<1>3. c.op = "patchCategory" => d = ShownPatch(b, r.id, r.patch)
  BY DEF ShownOnceSaved
<1>4. c.op = "deleteCategory" => d = CatsLeft(b, r.id)
  BY DEF ShownOnceSaved, CatsLeft
<1>5. c.op = "patchGroup" => d = IF r.id \in DOMAIN b.groups THEN PutKind(b, r.id, r.kind) ELSE b
  BY DEF ShownOnceSaved, PutKind
<1>6. c.op = "deleteGroup" => d = GroupsLeft(b, r.id)
  BY DEF ShownOnceSaved, GroupsLeft
<1>7. c.op \in Dragging => d = IF r.to = "load" THEN c.read ELSE b
  BY DEF ShownOnceSaved, Dragging
<1> QED
  BY <1>1, <1>2, <1>3, <1>4, <1>5, <1>6, <1>7

\* What was asked for from a dialog, once saved, leaves a board shown.
LEMMA AskShown ==
    ASSUME NEW b, IsBoard(b), NEW c, Asking(c), c.op \in Creating => IsBoard(c.before) /\ c.made \in Nat,
           NEW d, d = ShownOnceSaved(b, c)
    PROVE  IsBoard(d) /\ (NotLater(b) /\ (c.op \in Creating => c.before = b) => NotLater(d))
<1> DEFINE r == c.requests[1]
<1>1. Head(c.requests) = r /\ AsksFor(c.op, r)
  BY FormsApart DEF Asking
<1> HIDE DEF r
<1>2. Late \in Nat /\ Late <= Late
  BY NoneOut
<1>3. CASE c.op = "createCategory"
  <2>1. r \in [to : {"create"}, group : Nat, target : Nat]
    BY <1>1, <1>3 DEF AsksFor
  <2> DEFINE u == NewCard(r, Late)
             e == c.before
             id == c.made
  <2>2. u \in Card /\ u.sort = Late
    BY <1>2, <2>1 DEF NewCard, Card
  <2>3. d = WithCat(e, id, u)
    BY <1>1, <1>3, ShownIs
  <2>4. IsBoard(e) /\ id \in Nat /\ c.op \in Creating
    BY <1>3 DEF Creating
  <2> HIDE DEF u, e, id
  <2>5. /\ IsBoard(d) /\ d.groups = e.groups /\ DOMAIN d.cats = DOMAIN e.cats \cup {id} /\ d.cats[id] = u
        /\ \A x \in DOMAIN e.cats : x # id => d.cats[x] = e.cats[x]
    BY <2>2, <2>3, <2>4, CatAdded
  <2>6. ASSUME NotLater(e) PROVE NotLater(d)
    BY <1>2, <2>2, <2>5, <2>6 DEF NotLater
  <2> QED
    BY <2>4, <2>5, <2>6 DEF e
<1>4. CASE c.op = "createGroup"
  <2>1. r \in [to : {"createGroup"}, kind : Kinds]
    BY <1>1, <1>4 DEF AsksFor
  <2> DEFINE u == NewColumn(r, Late)
             e == c.before
             id == c.made
  <2>2. u \in Column /\ u.sort = Late
    BY <1>2, <2>1 DEF NewColumn, Column, Kinds
  <2>3. d = WithGroup(e, id, u)
    BY <1>1, <1>4, ShownIs
  <2>4. IsBoard(e) /\ id \in Nat /\ c.op \in Creating
    BY <1>4 DEF Creating
  <2> HIDE DEF u, e, id
  <2>5. /\ IsBoard(d) /\ d.cats = e.cats /\ DOMAIN d.groups = DOMAIN e.groups \cup {id} /\ d.groups[id] = u
        /\ \A x \in DOMAIN e.groups : x # id => d.groups[x] = e.groups[x]
    BY <2>2, <2>3, <2>4, GroupAdded
  <2>6. ASSUME NotLater(e) PROVE NotLater(d)
    BY <1>2, <2>2, <2>5, <2>6 DEF NotLater
  <2> QED
    BY <2>4, <2>5, <2>6 DEF e
<1>5. CASE c.op = "patchCategory"
  <2>1. r \in [to : {"patch", "archiveGoal"}, id : Nat, patch : Patches]
    BY <1>1, <1>5 DEF AsksFor
  <2>2. d = ShownPatch(b, r.id, r.patch) /\ r.patch \in Patches
    BY <1>1, <1>5, <2>1, ShownIs
  <2>3. CASE r.id \notin DOMAIN b.cats
    BY <2>2, <2>3, ShownPatchIs
  <2>4. CASE r.id \in DOMAIN b.cats
    <3>1. /\ IsBoard(d) /\ d.groups = b.groups /\ DOMAIN d.cats = DOMAIN b.cats
          /\ \A x \in DOMAIN b.cats : x # r.id => d.cats[x] = b.cats[x]
          /\ d.cats[r.id].sort = b.cats[r.id].sort
      BY <2>2, <2>4, ShownPatchIs
    <3> QED
      BY <3>1 DEF NotLater
  <2> QED
    BY <2>3, <2>4
<1>6. CASE c.op = "deleteCategory"
  <2>1. d = CatsLeft(b, r.id)
    BY <1>1, <1>6, ShownIs
  <2>2. /\ IsBoard(d) /\ d.groups = b.groups /\ DOMAIN d.cats = DOMAIN b.cats \ {r.id}
        /\ \A x \in DOMAIN d.cats : d.cats[x] = b.cats[x]
    BY <2>1, CatRemoved
  <2> QED
    BY <2>2 DEF NotLater
<1>7. CASE c.op = "patchGroup"
  <2>1. r \in [to : {"patchGroup"}, id : Nat, kind : Kinds]
    BY <1>1, <1>7 DEF AsksFor
  <2>2. d = IF r.id \in DOMAIN b.groups THEN PutKind(b, r.id, r.kind) ELSE b
    BY <1>1, <1>7, ShownIs
  <2>3. CASE r.id \notin DOMAIN b.groups
    BY <2>2, <2>3
  <2>4. CASE r.id \in DOMAIN b.groups
    <3>0. r.kind \in Kinds /\ d = PutKind(b, r.id, r.kind)
      BY <2>1, <2>2, <2>4
    <3>1. ASSUME NEW g \in DOMAIN b.groups, NEW kind \in Kinds, d = PutKind(b, g, kind)
          PROVE  /\ IsBoard(d) /\ d.cats = b.cats
                 /\ d.groups = [b.groups EXCEPT ![g] = [kind |-> kind, sort |-> b.groups[g].sort]]
      BY <3>1, OneGroup
    <3>2. /\ IsBoard(d) /\ d.cats = b.cats
          /\ d.groups = [b.groups EXCEPT ![r.id] = [kind |-> r.kind, sort |-> b.groups[r.id].sort]]
      BY <2>4, <3>0, <3>1
    <3>3. DOMAIN d.groups = DOMAIN b.groups /\ \A x \in DOMAIN b.groups : d.groups[x].sort = b.groups[x].sort
      BY <2>4, <3>2
    <3> QED
      BY <3>2, <3>3 DEF NotLater
  <2> QED
    BY <2>3, <2>4
<1>8. CASE c.op = "deleteGroup"
  <2>1. d = GroupsLeft(b, r.id)
    BY <1>1, <1>8, ShownIs
  <2>2. /\ IsBoard(d) /\ d.cats = b.cats /\ DOMAIN d.groups = DOMAIN b.groups \ {r.id}
        /\ \A x \in DOMAIN d.groups : d.groups[x] = b.groups[x]
    BY <2>1, GroupRemoved
  <2> QED
    BY <2>2 DEF NotLater
<1> QED
  BY <1>1, <1>3, <1>4, <1>5, <1>6, <1>7, <1>8 DEF AsksFor

\* What the handlers let through is about what is saved.
Fitting(s, r) ==
    /\ r.to \in {"patch", "archiveGoal"} => r.id \in DOMAIN s.cats
    /\ r.to = "patchGroup" => r.id \in DOMAIN s.groups
    /\ r.to = "reorder" => ToSet(r.ids) = DOMAIN s.cats
    /\ r.to = "reorderGroups" => ToSet(r.ids) = DOMAIN s.groups

LEMMA FitsIs == ASSUME NEW r, Fits(r) PROVE Fitting(onServer, r)
BY DEF Fits, Fitting

\* Once saved, it shows as it was saved.
LEMMA AskAlike ==
    ASSUME NEW b, IsBoard(b), NEW s, IsBoard(s), Alike(b, s), NotLater(b),
           NEW c, Asking(c), c.op \in Creating => c.before = b,
           NEW r, r = c.requests[1], Fitting(s, r),
           c.made = NewId(IF r.to = "createGroup" THEN s.groups ELSE s.cats),
           NEW d, d = ShownOnceSaved(b, c), NEW e, e = Effected(s, r)
    PROVE  Alike(d, e)
<1>1. Head(c.requests) = r /\ AsksFor(c.op, r)
  BY FormsApart DEF Asking
<1>3. CASE c.op = "createCategory"
  <2>1. r \in [to : {"create"}, group : Nat, target : Nat]
    BY <1>1, <1>3 DEF AsksFor
  <2>2. d = WithCat(b, NewId(s.cats), NewCard(r, Late))
    BY <1>1, <1>3, <2>1, ShownIs DEF Creating
  <2>3. e = WithCat(s, NewId(s.cats), NewCard(r, LastSort(s.cats) + 1))
    BY <2>1, EffectedIs
  <2> QED
    BY <2>1, <2>2, <2>3, CreatedAlike
<1>4. CASE c.op = "createGroup"
  <2>1. r \in [to : {"createGroup"}, kind : Kinds]
    BY <1>1, <1>4 DEF AsksFor
  <2>2. d = WithGroup(b, NewId(s.groups), NewColumn(r, Late))
    BY <1>1, <1>4, <2>1, ShownIs DEF Creating
  <2>3. e = WithGroup(s, NewId(s.groups), NewColumn(r, LastSort(s.groups) + 1))
    BY <2>1, EffectedIs
  <2> QED
    BY <2>1, <2>2, <2>3, GroupAlike
<1>5. CASE c.op = "patchCategory"
  <2>1. r \in [to : {"patch", "archiveGoal"}, id : Nat, patch : Patches]
    BY <1>1, <1>5 DEF AsksFor
  <2>2. d = ShownPatch(b, r.id, r.patch) /\ r.patch \in Patches /\ r.id \in DOMAIN s.cats
    BY <1>1, <1>5, <2>1, ShownIs DEF Fitting
  <2>3. e = PutCat(s, r.id, Patched(s, s.cats[r.id], r.patch))
    BY <2>1, EffectedIs
  <2> QED
    BY <2>2, <2>3, PatchedAlike
<1>6. CASE c.op = "deleteCategory"
  <2>1. d = CatsLeft(b, r.id)
    BY <1>1, <1>6, ShownIs
  <2>2. r.to = "delete"
    BY <1>1, <1>6 DEF AsksFor
  <2>3. e = CatsLeft(s, r.id)
    BY <2>2, EffectedIs
  <2> QED
    BY <2>1, <2>3, CatsLeftAlike
<1>7. CASE c.op = "patchGroup"
  <2>1. r \in [to : {"patchGroup"}, id : Nat, kind : Kinds]
    BY <1>1, <1>7 DEF AsksFor
  <2>2. r.id \in DOMAIN s.groups /\ r.id \in DOMAIN b.groups /\ r.kind \in Kinds
    BY <2>1, AlikeGives DEF Fitting
  <2>3. d = PutKind(b, r.id, r.kind)
    BY <1>1, <1>7, <2>2, ShownIs
  <2>4. e = PutKind(s, r.id, r.kind)
    BY <2>1, EffectedIs
  <2> QED
    BY <2>2, <2>3, <2>4, KindAlike
<1>8. CASE c.op = "deleteGroup"
  <2>1. d = GroupsLeft(b, r.id)
    BY <1>1, <1>8, ShownIs
  <2>2. r.to = "deleteGroup"
    BY <1>1, <1>8 DEF AsksFor
  <2>3. e = GroupsLeft(s, r.id)
    BY <2>2, EffectedIs
  <2> QED
    BY <2>1, <2>3, GroupsLeftAlike
<1> QED
  BY <1>1, <1>3, <1>4, <1>5, <1>6, <1>7, <1>8 DEF AsksFor

\* What a call that has one of the forms is held to.
LEMMA AskingInStep ==
    ASSUME NEW b, NEW s, NEW n, NEW c, Asking(c)
    PROVE  CallInStep(b, s, n, c) <=>
             Room(s, IF c.op \in Creating /\ c.stage # "ok" THEN n - 1 ELSE n) /\ AskInStep(b, s, c)
<1>1. c.op \notin Dragging /\ c.requests[1].to \notin {"load", "reorder", "reorderGroups"} /\ c.op # "move"
  BY FormsApart DEF Dragging
<1> QED
  BY <1>1 DEF CallInStep

LEMMA MovingInStep ==
    ASSUME NEW b, NEW s, NEW n, NEW c
    PROVE  /\ MovePatch(c) => (CallInStep(b, s, n, c) <=> Room(s, n) /\ PatchInStep(b, s, n, c))
           /\ MoveOrder(c) => (CallInStep(b, s, n, c) <=> Room(s, n) /\ ReorderInStep(b, s, n, c))
           /\ ColumnsOrder(c) => (CallInStep(b, s, n, c) <=> Room(s, n) /\ ColumnsInStep(b, s, n, c))
           /\ Loads(c) => (CallInStep(b, s, n, c) <=> Room(s, n) /\ (c.stage = "ok" => c.read = s))
<1>1. ASSUME MovePatch(c) PROVE CallInStep(b, s, n, c) <=> Room(s, n) /\ PatchInStep(b, s, n, c)
  <2>1. c.op = "move" /\ c.requests[1].to = "patch" /\ c.op \notin Creating /\ c.op \in Dragging
    BY <1>1, FormsApart DEF Dragging, Creating
  <2> QED
    BY <2>1 DEF CallInStep
<1>2. ASSUME MoveOrder(c) PROVE CallInStep(b, s, n, c) <=> Room(s, n) /\ ReorderInStep(b, s, n, c)
  <2>1. c.op = "move" /\ c.requests[1].to = "reorder" /\ c.op \notin Creating /\ c.op \in Dragging
    BY <1>2, FormsApart DEF Dragging, Creating
  <2> QED
    BY <2>1 DEF CallInStep
<1>3. ASSUME ColumnsOrder(c) PROVE CallInStep(b, s, n, c) <=> Room(s, n) /\ ColumnsInStep(b, s, n, c)
  <2>1. c.op = "reorderGroups" /\ c.requests[1].to = "reorderGroups" /\ c.op \notin Creating /\ c.op \in Dragging
    BY <1>3, FormsApart DEF Dragging, Creating
  <2> QED
    BY <2>1 DEF CallInStep
<1>4. ASSUME Loads(c) PROVE CallInStep(b, s, n, c) <=> Room(s, n) /\ (c.stage = "ok" => c.read = s)
  <2>1. c.requests[1].to = "load" /\ c.op \notin Creating /\ c.op \in Dragging
    BY <1>4, FormsApart DEF Dragging, Creating
  <2> QED
    BY <2>1 DEF CallInStep
<1> QED
  BY <1>1, <1>2, <1>3, <1>4

\* A request that is handled leaves a board, and the call one.
LEMMA AcceptTyped ==
    ASSUME NEW s, IsBoard(s), NEW c, CallTyped(c), NEW r, r = c.requests[1], r.to # "load", Fitting(s, r),
           NEW m \in Nat, NEW k, k = CallOk(c, m), NEW d, d = Effected(s, r)
    PROVE  IsBoard(d) /\ CallTyped(k) /\ RequestTyped(r)
<1>1. /\ DOMAIN k = CallFields /\ k.stage = "ok" /\ k.made = m /\ k.op = c.op /\ k.requests = c.requests
      /\ k.before = c.before
  BY CallForms, CallsGoOn
<1>2. RequestTyped(r) /\ ~Loads(c)
  BY CallForms, FormsApart
<1>3. IsBoard(d)
  BY <1>2, EffectedTyped DEF Fitting
<1>4. /\ Asking(k) <=> Asking(c)
      /\ MovePatch(k) <=> MovePatch(c)
      /\ MoveOrder(k) <=> MoveOrder(c)
      /\ ColumnsOrder(k) <=> ColumnsOrder(c)
  BY <1>1 DEF Asking, MovePatch, MoveOrder, ColumnsOrder
<1>5. CallTyped(k)
  BY <1>1, <1>2, <1>4, CallForms
<1> QED
  BY <1>2, <1>3, <1>5

LEMMA CardsTwice ==
    ASSUME NEW a, NEW b, NEW s, SameCards(a, s), SameCards(b, s) PROVE SameCards(a, b)
BY DEF SameCards

LEMMA ColumnsTwice ==
    ASSUME NEW a, NEW b, NEW s, SameColumns(a, s), SameColumns(b, s) PROVE SameColumns(a, b)
BY DEF SameColumns

\* A request that is handled keeps what the call is held to.
LEMMA AcceptInStep ==
    ASSUME NEW b, IsBoard(b), NEW s, IsBoard(s), NotLater(b), NEW n \in Int,
           NEW c, CallTyped(c), c.stage = "sent", CallInStep(b, s, n, c),
           NEW r, r = c.requests[1], r.to # "load", Fitting(s, r),
           NEW m \in Nat, m = NewId(IF r.to = "createGroup" THEN s.groups ELSE s.cats),
           NEW k, k = CallOk(c, m), NEW d, d = Effected(s, r)
    PROVE  CallInStep(b, d, n, k)
<1>1. /\ DOMAIN k = CallFields /\ k.stage = "ok" /\ k.made = m /\ k.op = c.op /\ k.requests = c.requests
      /\ k.before = c.before
  BY CallForms, CallsGoOn
<1>2. RequestTyped(r) /\ IsBoard(d)
  BY AcceptTyped
<1>3. /\ r.to \in {"patch", "archiveGoal"} => r.id \in DOMAIN s.cats
      /\ r.to = "patchGroup" => r.id \in DOMAIN s.groups
      /\ r.to = "reorder" => ToSet(r.ids) = DOMAIN s.cats
      /\ r.to = "reorderGroups" => ToSet(r.ids) = DOMAIN s.groups
  BY DEF Fitting
<1>4. CASE Asking(c)
  <2>1. Asking(k)
    BY <1>1, <1>4 DEF Asking
  <2>2. /\ Room(s, IF c.op \in Creating THEN n - 1 ELSE n) /\ Alike(b, s)
        /\ c.op \in Creating => c.before = b
    BY <1>4, AskingInStep DEF AskInStep
  <2>3. /\ r.to \in {"create", "createGroup"} <=> c.op \in Creating
        /\ r.to \notin {"reorder", "reorderGroups"}
    BY <1>4, FormsApart
  <2>4. Room(d, n)
    <3>1. CASE c.op \in Creating
      <4>1. Room(s, n - 1) /\ n - 1 \in Int /\ (n - 1) + 1 = n /\ r.to \in {"create", "createGroup"}
        BY <2>2, <2>3, <3>1
      <4>2. Room(d, (n - 1) + 1)
        BY <1>2, <1>3, <2>3, <4>1, RoomLeft
      <4> QED
        BY <4>1, <4>2
    <3>2. CASE c.op \notin Creating
      BY <1>2, <1>3, <2>2, <2>3, <3>2, RoomLeft
    <3> QED
      BY <3>1, <3>2
  <2>5. Alike(ShownOnceSaved(b, k), d)
    BY <1>1, <2>1, <2>2, AskAlike
  <2>6. AskInStep(b, d, k)
    BY <1>1, <2>2, <2>5 DEF AskInStep
  <2> QED
    BY <1>1, <2>1, <2>4, <2>6, AskingInStep
<1>5. CASE MovePatch(c)
  <2>1. MovePatch(k)
    BY <1>1, <1>5 DEF MovePatch
  <2>2. Room(s, n) /\ PatchInStep(b, s, n, c)
    BY <1>5, MovingInStep
  <2>3. r.to = "patch" /\ r.id \in DOMAIN s.cats /\ r \in Patching
    BY <1>3, <1>5, FormsApart DEF MovePatch
  <2>4. /\ SameColumns(b, s) /\ OrderAs(b.groups, s.groups)
        /\ NumberedBy(b.cats, c.requests[2].ids) /\ Len(c.requests[2].ids) < n /\ SameCards(b, d)
    BY <2>2, <2>3 DEF PatchInStep
  <2>5. Room(d, n)
    BY <1>2, <1>3, <2>2, <2>3, RoomLeft
  <2>6. d.groups = s.groups
    <3> DEFINE q == Patched(s, s.cats[r.id], r.patch)
    <3>1. d = PutCat(s, r.id, q)
      BY <2>3, EffectedIs
    <3>2. s.cats[r.id] \in Card /\ r.patch \in Patches
      BY <2>3, BoardParts DEF Patching
    <3>3. q \in Card
      BY <3>2, PatchedIs
    <3> HIDE DEF q
    <3>4. d.groups = s.groups /\ d.cats = [s.cats EXCEPT ![r.id] = q]
      BY <2>3, <3>1, <3>3, OneCat
    <3> QED
      BY <3>4
  <2>7. PatchInStep(b, d, n, k)
    BY <1>1, <2>4, <2>6 DEF PatchInStep, SameColumns
  <2> QED
    BY <2>1, <2>5, <2>7, MovingInStep
<1>6. CASE MoveOrder(c)
  <2>1. MoveOrder(k)
    BY <1>1, <1>6 DEF MoveOrder
  <2>2. Room(s, n) /\ ReorderInStep(b, s, n, c)
    BY <1>6, MovingInStep
  <2>3. r.to = "reorder" /\ ToSet(r.ids) = DOMAIN s.cats /\ r.ids \in Seq(Nat)
    BY <1>3, <1>6, FormsApart DEF MoveOrder, Listing
  <2>4. /\ SameColumns(b, s) /\ OrderAs(b.groups, s.groups) /\ SameCards(b, s)
        /\ NumberedBy(b.cats, r.ids) /\ Len(r.ids) < n
    BY <2>2 DEF ReorderInStep
  <2>5. Room(d, n)
    BY <1>2, <1>3, <2>2, <2>3, <2>4, RoomLeft
  <2>6. d = CatsNumbered(s, r.ids)
    BY <2>3, EffectedIs
  <2>7. d.groups = s.groups /\ DOMAIN d.cats = DOMAIN s.cats /\ NumberedBy(d.cats, r.ids) /\ SameCards(d, s)
    BY <2>3, <2>6, CatsNumberedIs
  <2>8. DOMAIN b.cats = DOMAIN s.cats
    BY <2>4 DEF SameCards
  <2>9. OrderAs(b.cats, d.cats)
    BY <2>3, <2>4, <2>7, <2>8, NumberedAlike
  <2>10. SameCards(b, d)
    BY <2>4, <2>7, CardsTwice
  <2>11. Alike(b, d)
    BY <2>4, <2>7, <2>9, <2>10 DEF Alike, SameColumns
  <2>12. ReorderInStep(b, d, n, k)
    BY <1>1, <2>11 DEF ReorderInStep
  <2> QED
    BY <2>1, <2>5, <2>12, MovingInStep
<1>7. CASE ColumnsOrder(c)
  <2>1. ColumnsOrder(k)
    BY <1>1, <1>7 DEF ColumnsOrder
  <2>2. Room(s, n) /\ ColumnsInStep(b, s, n, c)
    BY <1>7, MovingInStep
  <2>3. r.to = "reorderGroups" /\ ToSet(r.ids) = DOMAIN s.groups /\ r.ids \in Seq(Nat)
    BY <1>3, <1>7, FormsApart DEF ColumnsOrder, Listing
  <2>4. /\ SameCards(b, s) /\ OrderAs(b.cats, s.cats) /\ SameColumns(b, s)
        /\ NumberedBy(b.groups, r.ids) /\ Len(r.ids) < n
    BY <2>2 DEF ColumnsInStep
  <2>5. Room(d, n)
    BY <1>2, <1>3, <2>2, <2>3, <2>4, RoomLeft
  <2>6. d = GroupsNumbered(s, r.ids)
    BY <2>3, EffectedIs
  <2>7. d.cats = s.cats /\ DOMAIN d.groups = DOMAIN s.groups /\ NumberedBy(d.groups, r.ids) /\ SameColumns(d, s)
    BY <2>3, <2>6, GroupsNumberedIs
  <2>8. DOMAIN b.groups = DOMAIN s.groups
    BY <2>4 DEF SameColumns
  <2>9. OrderAs(b.groups, d.groups)
    BY <2>3, <2>4, <2>7, <2>8, NumberedAlike
  <2>10. SameColumns(b, d)
    BY <2>4, <2>7, ColumnsTwice
  <2>11. Alike(b, d)
    BY <2>4, <2>7, <2>9, <2>10 DEF Alike, SameCards
  <2>12. ColumnsInStep(b, d, n, k)
    BY <1>1, <2>11 DEF ColumnsInStep
  <2> QED
    BY <2>1, <2>5, <2>12, MovingInStep
<1>8. ~Loads(c)
  BY FormsApart
<1> QED
  BY <1>4, <1>5, <1>6, <1>7, <1>8, CallForms

LEMMA AlikeItself == ASSUME NEW b PROVE Alike(b, b)
BY DEF Alike, SameColumns, SameCards, OrderAs

LEMMA RoomNotLater ==
    ASSUME NEW n \in Int, n <= Late, NEW b, IsBoard(b), Room(b, n)
    PROVE  NotLater(b)
<1>1. /\ \A g \in DOMAIN b.groups : b.groups[g].sort \in Nat /\ b.groups[g].sort < n
      /\ \A x \in DOMAIN b.cats : b.cats[x].sort \in Nat /\ b.cats[x].sort < n
  BY BoardSortable DEF Room, Below, Sortable
<1>2. Late \in Nat
  BY NoneOut
<1> QED
  BY <1>1, <1>2 DEF NotLater

\* The next request of a move.
LEMMA NextTyped ==
    ASSUME NEW c, CallTyped(c), c.stage = "ok", Len(c.requests) > 1, NEW k, k = CallNext(c)
    PROVE  /\ CallTyped(k)
           /\ \A b, s, n : CallInStep(b, s, n, c) => CallInStep(b, s, n, k)
<1>1. DOMAIN k = CallFields /\ k.stage = "sent" /\ k.op = c.op /\ k.requests = Tail(c.requests)
  BY CallForms, CallsGoOn
<1>2. MovePatch(c)
  <2>1. Len(c.requests) # 1
    <3>1. ~(1 > 1)
      OBVIOUS
    <3>2. ASSUME NEW m, m > 1, m = 1 PROVE FALSE
      BY <3>1, <3>2, Zenon
    <3> QED
      BY <3>2
  <2>2. ~Asking(c) /\ ~MoveOrder(c) /\ ~ColumnsOrder(c) /\ ~Loads(c)
    BY <2>1, FormsApart
  <2> QED
    BY <2>2, CallForms
<1>3. k.requests = <<c.requests[2]>> /\ c.requests[2] \in Listing("reorder") /\ k.op = "move"
  BY <1>1, <1>2, FormsApart DEF MovePatch
<1>4. k.requests[1] = c.requests[2] /\ k.requests = <<k.requests[1]>>
  BY <1>3
<1>5. MoveOrder(k)
  BY <1>3, <1>4 DEF MoveOrder
<1>6. CallTyped(k)
  BY <1>1, <1>5, CallForms
<1>7. ASSUME NEW b, NEW s, NEW n, CallInStep(b, s, n, c) PROVE CallInStep(b, s, n, k)
  <2>1. Room(s, n) /\ PatchInStep(b, s, n, c)
    BY <1>2, <1>7, MovingInStep
  <2>2. ReorderInStep(b, s, n, k)
    BY <1>1, <1>4, <2>1 DEF PatchInStep, ReorderInStep
  <2> QED
    BY <1>5, <2>1, <2>2, MovingInStep
<1> QED
  BY <1>6, <1>7

LEMMA RefusedTyped ==
    ASSUME NEW c, CallTyped(c), NEW k, k = CallFailed(c)
    PROVE  /\ CallTyped(k)
           /\ c.stage = "sent" => \A b, s, n : CallInStep(b, s, n, c) => CallInStep(b, s, n, k)
<1>1. /\ DOMAIN k = CallFields /\ k.stage = "failed" /\ k.op = c.op /\ k.requests = c.requests
      /\ k.before = c.before
  BY CallForms, CallsGoOn
<1>2. /\ Asking(k) <=> Asking(c)
      /\ MovePatch(k) <=> MovePatch(c)
      /\ MoveOrder(k) <=> MoveOrder(c)
      /\ ColumnsOrder(k) <=> ColumnsOrder(c)
      /\ Loads(k) <=> Loads(c)
  BY <1>1 DEF Asking, MovePatch, MoveOrder, ColumnsOrder, Loads
<1>3. CallTyped(k)
  BY <1>1, <1>2, CallForms
<1>4. ASSUME c.stage = "sent", NEW b, NEW s, NEW n, CallInStep(b, s, n, c) PROVE CallInStep(b, s, n, k)
  <2>1. CASE Asking(c)
    <3>1. Room(s, IF c.op \in Creating THEN n - 1 ELSE n) /\ AskInStep(b, s, c)
      BY <1>4, <2>1, AskingInStep
    <3>2. Room(s, IF k.op \in Creating /\ k.stage # "ok" THEN n - 1 ELSE n)
      BY <1>1, <3>1
    <3>3. AskInStep(b, s, k)
      BY <1>1, <1>4, <3>1 DEF AskInStep
    <3> QED
      BY <1>2, <2>1, <3>2, <3>3, AskingInStep
  <2>2. CASE MovePatch(c)
    <3>1. PatchInStep(b, s, n, k)
      BY <1>1 DEF PatchInStep
    <3> QED
      BY <1>2, <1>4, <2>2, <3>1, MovingInStep
  <2>3. CASE MoveOrder(c)
    <3>1. ReorderInStep(b, s, n, k)
      BY <1>1 DEF ReorderInStep
    <3> QED
      BY <1>2, <1>4, <2>3, <3>1, MovingInStep
  <2>4. CASE ColumnsOrder(c)
    <3>1. ColumnsInStep(b, s, n, k)
      BY <1>1 DEF ColumnsInStep
    <3> QED
      BY <1>2, <1>4, <2>4, <3>1, MovingInStep
  <2>5. CASE Loads(c)
    BY <1>1, <1>2, <1>4, <2>5, MovingInStep
  <2> QED
    BY <2>1, <2>2, <2>3, <2>4, <2>5, CallForms
<1> QED
  BY <1>3, <1>4

\* What was read is what is saved.
LEMMA ReadTyped ==
    ASSUME NEW c, CallTyped(c), c.requests[1].to = "load", NEW s, IsBoard(s), NEW k, k = CallRead(c, s)
    PROVE  /\ CallTyped(k)
           /\ \A b, n : CallInStep(b, s, n, c) => CallInStep(b, s, n, k)
<1>1. DOMAIN k = CallFields /\ k.stage = "ok" /\ k.op = c.op /\ k.requests = c.requests /\ k.read = s
  BY CallForms, CallsGoOn
<1>2. Loads(c)
  BY CallForms, FormsApart
<1>3. Loads(k)
  BY <1>1, <1>2 DEF Loads
<1>4. CallTyped(k)
  BY <1>1, <1>3, CallForms
<1>5. ASSUME NEW b, NEW n, CallInStep(b, s, n, c) PROVE CallInStep(b, s, n, k)
  BY <1>1, <1>2, <1>3, <1>5, MovingInStep
<1> QED
  BY <1>4, <1>5

\* Reading again, after what was dragged failed.
LEMMA AgainTyped ==
    ASSUME NEW c, CallTyped(c), c.op \in Dragging, NEW k, k = CallLoads(c)
    PROVE  /\ CallTyped(k)
           /\ \A b, s, n : CallInStep(b, s, n, c) => CallInStep(b, s, n, k)
<1>1. DOMAIN k = CallFields /\ k.stage = "sent" /\ k.op = c.op /\ k.requests = <<[to |-> "load"]>>
  BY CallForms, CallsGoOn
<1>2. ~Asking(c)
  BY FormsApart
<1>3. Loads(k)
  BY <1>1 DEF Loads
<1>4. CallTyped(k)
  BY <1>1, <1>3, CallForms
<1>5. ASSUME NEW b, NEW s, NEW n, CallInStep(b, s, n, c) PROVE CallInStep(b, s, n, k)
  <2>1. Room(s, n)
    BY <1>2, <1>5, CallForms, MovingInStep
  <2> QED
    BY <1>1, <1>3, <2>1, MovingInStep
<1> QED
  BY <1>4, <1>5

\* The last answer: what is shown then is what is saved.
LEMMA SettledInStep ==
    ASSUME NEW b, IsBoard(b), NEW c, CallTyped(c), c.stage = "ok", ~(Len(c.requests) > 1),
           NEW d, d = ShownOnceSaved(b, c)
    PROVE  /\ IsBoard(d)
           /\ \A s, n : NotLater(b) /\ IsBoard(s) /\ n \in Int /\ n <= Late /\ CallInStep(b, s, n, c)
                          => NotLater(d) /\ Alike(d, s) /\ Room(s, n)
<1>1. CASE Asking(c)
  <2>1. c.op \in Creating => IsBoard(c.before) /\ c.made \in Nat
    BY <1>1, CallForms, FormsApart DEF MovePatch, MoveOrder, ColumnsOrder, Loads, Dragging, Creating
  <2>2. IsBoard(d) /\ (NotLater(b) /\ (c.op \in Creating => c.before = b) => NotLater(d))
    BY <1>1, <2>1, AskShown
  <2>3. ASSUME NEW s, NEW n, NotLater(b), CallInStep(b, s, n, c) PROVE NotLater(d) /\ Alike(d, s) /\ Room(s, n)
    <3>1. Room(s, n) /\ AskInStep(b, s, c)
      BY <1>1, <2>3, AskingInStep
    <3>2. Alike(d, s) /\ (c.op \in Creating => c.before = b)
      BY <3>1 DEF AskInStep
    <3> QED
      BY <2>2, <2>3, <3>1, <3>2
  <2> QED
    BY <2>2, <2>3
<1>2. ~MovePatch(c)
  BY FormsApart
<1>3. CASE MoveOrder(c)
  <2>1. Head(c.requests).to # "load" /\ c.op \in Dragging
    BY <1>3, FormsApart DEF Dragging
  <2>2. d = b
    BY <2>1, ShownIs
  <2>3. ASSUME NEW s, NEW n, CallInStep(b, s, n, c) PROVE Alike(b, s) /\ Room(s, n)
    BY <1>3, <2>3, MovingInStep DEF ReorderInStep
  <2> QED
    BY <2>2, <2>3
<1>4. CASE ColumnsOrder(c)
  <2>1. Head(c.requests).to # "load" /\ c.op \in Dragging
    BY <1>4, FormsApart DEF Dragging
  <2>2. d = b
    BY <2>1, ShownIs
  <2>3. ASSUME NEW s, NEW n, CallInStep(b, s, n, c) PROVE Alike(b, s) /\ Room(s, n)
    BY <1>4, <2>3, MovingInStep DEF ColumnsInStep
  <2> QED
    BY <2>2, <2>3
<1>5. CASE Loads(c)
  <2>1. Head(c.requests).to = "load" /\ c.op \in Dragging
    BY <1>5, FormsApart
  <2>2. d = c.read
    BY <2>1, ShownIs
  <2>3. IsBoard(d)
    BY <1>5, <2>2, CallForms, FormsApart DEF MovePatch, MoveOrder, ColumnsOrder
  <2>4. ASSUME NEW s, IsBoard(s), NEW n \in Int, n <= Late, CallInStep(b, s, n, c)
        PROVE  NotLater(d) /\ Alike(d, s) /\ Room(s, n)
    <3>1. Room(s, n) /\ d = s
      BY <1>5, <2>2, <2>4, MovingInStep
    <3> QED
      BY <2>4, <3>1, RoomNotLater, AlikeItself
  <2> QED
    BY <2>3, <2>4
<1> QED
  BY <1>1, <1>2, <1>3, <1>4, <1>5, CallForms

\* What was asked for and is given up leaves both boards as they were.
LEMMA GivenUpInStep ==
    ASSUME NEW b, NEW s, IsBoard(s), NEW n \in Int, NEW c, CallTyped(c), c.stage = "failed",
           c.op \notin Dragging, CallInStep(b, s, n, c)
    PROVE  Alike(b, s) /\ Room(s, n)
<1>1. Asking(c)
  BY CallForms, FormsApart DEF Dragging
<1>2. Room(s, IF c.op \in Creating THEN n - 1 ELSE n) /\ Alike(b, s)
  BY <1>1, AskingInStep DEF AskInStep
<1>3. n - 1 \in Int /\ n - 1 <= n
  OBVIOUS
<1> QED
  BY <1>2, <1>3, RoomMore

Begun(c, op, requests) ==
    DOMAIN c = CallFields /\ c.op = op /\ c.requests = requests /\ c.stage = "sent"

CallBefore(op, requests, b) == [Call(op, requests) EXCEPT !.before = b]
CallMove(requests, id, slot, asked) ==
    [Call("move", requests) EXCEPT !.card = id, !.slot = slot, !.asked = asked]

LEMMA CallIs ==
    ASSUME NEW op, NEW requests
    PROVE  /\ Begun(Call(op, requests), op, requests)
           /\ \A b : Begun(CallBefore(op, requests, b), op, requests) /\ CallBefore(op, requests, b).before = b
           /\ \A id, slot, asked : Begun(CallMove(requests, id, slot, asked), "move", requests)
BY DEF Begun, Call, CallBefore, CallMove, CallFields

\* A call that is asked for from a dialog, made alone.
LEMMA AskBegins ==
    ASSUME NEW c, NEW op, NEW r, AsksFor(op, r), Begun(c, op, <<r>>), op \in Creating => IsBoard(c.before)
    PROVE  /\ CallTyped(c)
           /\ \A b, s, n : /\ op \in Creating => c.before = b
                           /\ n \in Int /\ IsBoard(s) /\ Alike(b, s) /\ Room(s, n)
                          => CallInStep(b, s, n + 1, c)
<1>1. c.requests = <<r>> /\ c.requests[1] = r /\ c.op = op /\ c.stage = "sent" /\ DOMAIN c = CallFields
  BY DEF Begun
<1>2. Asking(c)
  BY <1>1 DEF Asking
<1>3. CallTyped(c)
  BY <1>1, <1>2, CallForms
<1>4. ASSUME NEW b, NEW s, NEW n \in Int, op \in Creating => c.before = b, IsBoard(s), Alike(b, s), Room(s, n)
      PROVE  CallInStep(b, s, n + 1, c)
  <2>1. AskInStep(b, s, c)
    BY <1>1, <1>4 DEF AskInStep
  <2>2. n + 1 \in Int /\ n <= n + 1 /\ (n + 1) - 1 = n
    OBVIOUS
  <2>3. Room(s, n + 1)
    BY <1>4, <2>2, RoomMore
  <2>4. Room(s, IF c.op \in Creating /\ c.stage # "ok" THEN (n + 1) - 1 ELSE n + 1)
    BY <1>4, <2>2, <2>3
  <2> QED
    BY <1>2, <2>1, <2>4, AskingInStep
<1> QED
  BY <1>3, <1>4

LEMMA NumberedNotLater ==
    ASSUME NEW f, \A x \in DOMAIN f : f[x].sort <= Late, NEW ids \in Seq(Nat), Len(ids) <= Late,
           NEW g, DOMAIN g = DOMAIN f, NumberedBy(g, ids),
           \A x \in DOMAIN f : x \notin ToSet(ids) => g[x].sort = f[x].sort
    PROVE  \A x \in DOMAIN g : g[x].sort <= Late
<1> SUFFICES ASSUME NEW x \in DOMAIN f PROVE g[x].sort <= Late
  OBVIOUS
<1>1. CASE x \in ToSet(ids)
  <2>1. g[x].sort = IndexIn(ids, x) + 1
    BY <1>1 DEF NumberedBy
  <2>2. IndexIn(ids, x) \in 0 .. Len(ids) /\ IndexIn(ids, x) < Len(ids) /\ Len(ids) \in Nat
    BY <1>1, FirstPlace
  <2>3. Late \in Nat
    BY NoneOut
  <2> QED
    BY <2>1, <2>2, <2>3
<1>2. CASE x \notin ToSet(ids)
  BY <1>2
<1> QED
  BY <1>1, <1>2

\* A dropped column.
LEMMA ColumnDropped ==
    ASSUME NEW b, IsBoard(b), NEW x \in Nat, NEW index \in Nat,
           NEW ids, ids = Inserted(Others(OrderedGroups(b), x), index, x),
           NEW r, r = [to |-> "reorderGroups", ids |-> ids],
           NEW c, Begun(c, "reorderGroups", <<r>>), NEW d, d = GroupsNumbered(b, ids)
    PROVE  /\ IsBoard(d) /\ CallTyped(c)
           /\ \A s, n : /\ NotLater(b) /\ IsBoard(s) /\ Alike(b, s)
                        /\ n \in Int /\ n <= Late /\ Room(s, n)
                       => NotLater(d) /\ CallInStep(d, s, n + 1, c)
<1>1. /\ OrderedGroups(b) \in Seq(Nat) /\ EachOnce(OrderedGroups(b))
      /\ Len(OrderedGroups(b)) = Cardinality(DOMAIN b.groups)
  BY ColumnsAre
<1> DEFINE t == Others(OrderedGroups(b), x)
<1>2. t \in Seq(Nat) /\ Len(t) <= Cardinality(DOMAIN b.groups)
  BY <1>1, OthersOnce
<1>3. ids = Inserted(t, index, x)
  OBVIOUS
<1> HIDE DEF t
<1>4. ids \in Seq(Nat) /\ Len(ids) = Len(t) + 1
  BY <1>2, <1>3, InsertedOnce
<1>5. /\ IsBoard(d) /\ d.cats = b.cats /\ DOMAIN d.groups = DOMAIN b.groups
      /\ NumberedBy(d.groups, ids) /\ SameColumns(d, b)
      /\ \A g \in DOMAIN b.groups : g \notin ToSet(ids) => d.groups[g].sort = b.groups[g].sort
  BY <1>4, GroupsNumberedIs
<1>6. c.requests = <<r>> /\ c.requests[1] = r /\ c.op = "reorderGroups" /\ c.stage = "sent" /\ DOMAIN c = CallFields
  BY DEF Begun
<1>7. ColumnsOrder(c)
  BY <1>4, <1>6 DEF ColumnsOrder, Listing
<1>8. CallTyped(c)
  BY <1>6, <1>7, CallForms
<1>9. ASSUME NEW s, NEW n \in Int, NotLater(b), IsBoard(s), Alike(b, s), n <= Late, Room(s, n)
      PROVE  NotLater(d) /\ CallInStep(d, s, n + 1, c)
  <2>1. /\ DOMAIN b.groups = DOMAIN s.groups /\ OrderAs(b.cats, s.cats) /\ SameColumns(b, s) /\ SameCards(b, s)
    BY <1>9, AlikeGives
  <2>2. Cardinality(DOMAIN b.groups) < n /\ Cardinality(DOMAIN b.groups) \in Nat
    <3>1. Cardinality(DOMAIN s.groups) < n
      BY <1>9 DEF Room, Below
    <3>2. Cardinality(DOMAIN b.groups) \in Nat
      BY FS_CardinalityType DEF IsBoard
    <3> QED
      BY <2>1, <3>1, <3>2
  <2>3. Len(ids) <= n /\ Len(ids) < n + 1 /\ Len(ids) <= Late /\ n <= n + 1 /\ n + 1 \in Int
    <3>1. Len(t) \in Nat /\ Late \in Nat
      BY <1>2, NoneOut
    <3> QED
      BY <1>2, <1>4, <1>9, <2>2, <3>1
  <2>4. \A g \in DOMAIN d.groups : d.groups[g].sort <= Late
    <3> DEFINE f == b.groups
               h == d.groups
    <3>1. /\ \A g \in DOMAIN f : f[g].sort <= Late
          /\ DOMAIN h = DOMAIN f /\ NumberedBy(h, ids)
          /\ \A g \in DOMAIN f : g \notin ToSet(ids) => h[g].sort = f[g].sort
      BY <1>5, <1>9 DEF NotLater
    <3> HIDE DEF f, h
    <3>2. \A g \in DOMAIN h : h[g].sort <= Late
      BY <1>4, <2>3, <3>1, NumberedNotLater
    <3> QED
      BY <3>2 DEF h
  <2>5. NotLater(d)
    BY <1>5, <1>9, <2>4 DEF NotLater
  <2>6. SameColumns(d, s)
    BY <1>5, <2>1 DEF SameColumns
  <2>7. SameCards(d, s) /\ OrderAs(d.cats, s.cats)
    BY <1>5, <2>1 DEF SameCards
  <2>8. ColumnsInStep(d, s, n + 1, c)
    BY <1>5, <1>6, <2>3, <2>6, <2>7 DEF ColumnsInStep
  <2>9. Room(s, n + 1)
    BY <1>9, <2>3, RoomMore
  <2> QED
    BY <1>7, <2>5, <2>8, <2>9, MovingInStep
<1> QED
  BY <1>5, <1>8, <1>9

CardsMoved(b, id, patch, ids) ==
    [b EXCEPT !.cats = Resorted([b.cats EXCEPT ![id] = Merged(b.cats[id], patch)], ids)]

\* A dropped card: what shows at once.
LEMMA CardShown ==
    ASSUME NEW b, IsBoard(b), NEW id \in DOMAIN b.cats, NEW slot \in Slot, NEW patch \in Patches,
           NEW ids, ids = OrderedIds(b, id, slot),
           NEW d, d = CardsMoved(b, id, patch, ids)
    PROVE  /\ IsBoard(d) /\ d.groups = b.groups /\ DOMAIN d.cats = DOMAIN b.cats
           /\ ids \in Seq(Nat) /\ Len(ids) <= Cardinality(DOMAIN b.cats)
           /\ NumberedBy(d.cats, ids)
           /\ \A x \in DOMAIN b.cats :
                 /\ x \notin ToSet(ids) => d.cats[x].sort = b.cats[x].sort
                 /\ x # id => d.cats[x].group = b.cats[x].group /\ d.cats[x].archived = b.cats[x].archived
           /\ d.cats[id].group = Given(patch.group, b.cats[id].group)
           /\ d.cats[id].archived = Given(patch.archived, b.cats[id].archived)
<1>1. ids \in Seq(Nat) /\ Len(ids) <= Cardinality(DOMAIN b.cats)
  BY OrderedIdsAre DEF Slot
<1> DEFINE cat == b.cats[id]
           m == Merged(cat, patch)
           f == [b.cats EXCEPT ![id] = m]
           g == Resorted(f, ids)
<1>2. cat \in Card /\ b.cats \in [DOMAIN b.cats -> Card]
  BY BoardParts
<1>3. /\ m \in Card /\ m.sort = cat.sort /\ m.group = Given(patch.group, cat.group)
      /\ m.archived = Given(patch.archived, cat.archived)
  BY <1>2, MergedIs, MergedTyped
<1>4. d = [b EXCEPT !.cats = g]
  BY DEF CardsMoved
<1> HIDE DEF m
<1>5. /\ f \in [DOMAIN f -> Card] /\ DOMAIN f = DOMAIN b.cats /\ f[id] = m
      /\ \A x \in DOMAIN b.cats : x # id => f[x] = b.cats[x]
  BY <1>2, <1>3
<1> HIDE DEF f, cat
<1>6. /\ g \in [DOMAIN f -> Card] /\ DOMAIN g = DOMAIN f
      /\ NumberedBy(g, ids)
      /\ \A x \in DOMAIN f :
            /\ g[x].group = f[x].group /\ g[x].archived = f[x].archived
            /\ x \notin ToSet(ids) => g[x].sort = f[x].sort
  BY <1>1, <1>5, CatsResorted
<1> HIDE DEF g
<1>7. IsBoard(d) /\ d.groups = b.groups /\ d.cats = g
  <2>1. DOMAIN g \subseteq Nat /\ IsFiniteSet(DOMAIN g) /\ g \in [DOMAIN g -> Card]
    BY <1>5, <1>6 DEF IsBoard
  <2> QED
    BY <1>4, <2>1, CatsReplaced
<1>8. ASSUME NEW x \in DOMAIN b.cats
      PROVE  /\ x \notin ToSet(ids) => d.cats[x].sort = b.cats[x].sort
             /\ x # id => d.cats[x].group = b.cats[x].group /\ d.cats[x].archived = b.cats[x].archived
  <2>1. f[x].sort = b.cats[x].sort
    BY <1>3, <1>5 DEF cat
  <2> QED
    BY <1>5, <1>6, <1>7, <2>1
<1>9. d.cats[id].group = Given(patch.group, cat.group) /\ d.cats[id].archived = Given(patch.archived, cat.archived)
  BY <1>3, <1>5, <1>6, <1>7
<1> QED
  BY <1>1, <1>5, <1>6, <1>7, <1>8, <1>9 DEF cat

MovedBy(b, id, slot, target) ==
    [NoPatch EXCEPT !.group = IF b.cats[id].group # slot.group THEN slot.group ELSE None,
                    !.target = IF target # 0 THEN target ELSE None]

LEMMA MovedByIs ==
    ASSUME NEW b, NEW id, NEW slot \in Slot, NEW target \in Nat
    PROVE  MovedBy(b, id, slot, target) \in Patches
BY DEF MovedBy, NoPatch, Patches, Slot

LEMMA CardDropped ==
    ASSUME NEW b, IsBoard(b), NEW id \in DOMAIN b.cats, NEW slot \in Slot, NEW patch \in Patches,
           NEW ids, ids = OrderedIds(b, id, slot),
           NEW d, d = CardsMoved(b, id, patch, ids),
           NEW q, q = [to |-> "patch", id |-> id, patch |-> patch],
           NEW r, r = [to |-> "reorder", ids |-> ids],
           NEW c, Begun(c, "move", IF patch = NoPatch THEN <<r>> ELSE <<q, r>>)
    PROVE  /\ IsBoard(d) /\ CallTyped(c)
           /\ \A s, n : /\ NotLater(b) /\ IsBoard(s) /\ Alike(b, s)
                        /\ n \in Int /\ n <= Late /\ Room(s, n)
                       => NotLater(d) /\ CallInStep(d, s, n + 1, c)
<1>1. /\ IsBoard(d) /\ d.groups = b.groups /\ DOMAIN d.cats = DOMAIN b.cats
      /\ ids \in Seq(Nat) /\ Len(ids) <= Cardinality(DOMAIN b.cats)
      /\ NumberedBy(d.cats, ids)
      /\ \A x \in DOMAIN b.cats :
            /\ x \notin ToSet(ids) => d.cats[x].sort = b.cats[x].sort
            /\ x # id => d.cats[x].group = b.cats[x].group /\ d.cats[x].archived = b.cats[x].archived
      /\ d.cats[id].group = Given(patch.group, b.cats[id].group)
      /\ d.cats[id].archived = Given(patch.archived, b.cats[id].archived)
  BY CardShown
<1>2. c.op = "move" /\ c.stage = "sent" /\ DOMAIN c = CallFields
  BY DEF Begun
<1>3. r \in Listing("reorder") /\ r.ids = ids /\ r.to = "reorder"
  BY <1>1 DEF Listing
<1>4. q \in Patching /\ q.to = "patch" /\ q.id = id /\ q.patch = patch
  <2>1. id \in Nat
    BY DEF IsBoard
  <2> QED
    BY <2>1 DEF Patching
<1>5. ASSUME NEW s, NEW n \in Int, NotLater(b), IsBoard(s), Alike(b, s), n <= Late, Room(s, n)
      PROVE  /\ Len(ids) < n + 1 /\ Room(s, n + 1) /\ NotLater(d)
             /\ SameColumns(d, s) /\ OrderAs(d.groups, s.groups)
             /\ patch = NoPatch => SameCards(d, s)
             /\ id \in DOMAIN s.cats => SameCards(d, Effected(s, q))
  <2>1. /\ DOMAIN b.cats = DOMAIN s.cats /\ OrderAs(b.groups, s.groups) /\ SameColumns(b, s)
        /\ \A x \in DOMAIN b.cats :
              b.cats[x].group = s.cats[x].group /\ b.cats[x].archived = s.cats[x].archived
    BY <1>5, AlikeGives
  <2>2. Cardinality(DOMAIN b.cats) < n /\ Cardinality(DOMAIN b.cats) \in Nat
    <3>1. Cardinality(DOMAIN s.cats) < n
      BY <1>5 DEF Room, Below
    <3>2. Cardinality(DOMAIN b.cats) \in Nat
      BY FS_CardinalityType DEF IsBoard
    <3> QED
      BY <2>1, <3>1, <3>2
  <2>3. Len(ids) < n + 1 /\ Len(ids) <= Late /\ n <= n + 1 /\ n + 1 \in Int
    <3>1. Len(ids) \in Nat /\ Late \in Nat
      BY <1>1, NoneOut
    <3> QED
      BY <1>1, <1>5, <2>2, <3>1
  <2>4. Room(s, n + 1)
    BY <1>5, <2>3, RoomMore
  <2>5. NotLater(d)
    <3> DEFINE f == b.cats
               h == d.cats
    <3>1. /\ \A x \in DOMAIN f : f[x].sort <= Late
          /\ DOMAIN h = DOMAIN f /\ NumberedBy(h, ids)
          /\ \A x \in DOMAIN f : x \notin ToSet(ids) => h[x].sort = f[x].sort
      BY <1>1, <1>5 DEF NotLater
    <3> HIDE DEF f, h
    <3>2. \A x \in DOMAIN h : h[x].sort <= Late
      BY <1>1, <2>3, <3>1, NumberedNotLater
    <3> QED
      BY <1>1, <1>5, <3>2 DEF NotLater, h
  <2>6. SameColumns(d, s) /\ OrderAs(d.groups, s.groups)
    BY <1>1, <2>1 DEF SameColumns
  <2>7. ASSUME patch = NoPatch PROVE SameCards(d, s)
    <3>1. patch.group = None /\ patch.archived = None
      BY <2>7 DEF NoPatch
    <3>2. d.cats[id].group = b.cats[id].group /\ d.cats[id].archived = b.cats[id].archived
      BY <1>1, <3>1 DEF Given
    <3>3. ASSUME NEW x \in DOMAIN b.cats
          PROVE  d.cats[x].group = s.cats[x].group /\ d.cats[x].archived = s.cats[x].archived
      BY <1>1, <2>1, <3>2
    <3> QED
      BY <1>1, <2>1, <3>3 DEF SameCards
  <2>8. ASSUME id \in DOMAIN s.cats PROVE SameCards(d, Effected(s, q))
    <3> DEFINE p == Patched(s, s.cats[id], patch)
               e == Effected(s, q)
    <3>1. s.cats[id] \in Card
      BY <1>5, <2>8, BoardParts
    <3>2. /\ p \in Card /\ p.group = Given(patch.group, s.cats[id].group)
          /\ p.archived = Given(patch.archived, s.cats[id].archived)
      BY <3>1, PatchedIs
    <3>3. e = PutCat(s, id, p)
      BY <1>4, EffectedIs
    <3> HIDE DEF p, e
    <3>4. e.groups = s.groups /\ e.cats = [s.cats EXCEPT ![id] = p]
      BY <1>5, <2>8, <3>2, <3>3, OneCat
    <3>5. /\ DOMAIN e.cats = DOMAIN s.cats /\ e.cats[id] = p
          /\ \A x \in DOMAIN s.cats : x # id => e.cats[x] = s.cats[x]
      BY <2>8, <3>4
    <3>6. d.cats[id].group = p.group /\ d.cats[id].archived = p.archived
      BY <1>1, <2>1, <3>2
    <3>7. ASSUME NEW x \in DOMAIN b.cats
          PROVE  d.cats[x].group = e.cats[x].group /\ d.cats[x].archived = e.cats[x].archived
      BY <1>1, <2>1, <3>5, <3>6
    <3>8. SameCards(d, e)
      BY <1>1, <2>1, <3>5, <3>7 DEF SameCards
    <3> QED
      BY <3>8 DEF e
  <2> QED
    BY <2>3, <2>4, <2>5, <2>6, <2>7, <2>8
<1>6. CASE patch = NoPatch
  <2>1. c.requests = <<r>> /\ c.requests[1] = r
    BY <1>6 DEF Begun
  <2>2. MoveOrder(c)
    BY <1>2, <1>3, <2>1 DEF MoveOrder
  <2>3. CallTyped(c)
    BY <1>2, <2>2, CallForms
  <2>4. ASSUME NEW s, NEW n \in Int, NotLater(b), IsBoard(s), Alike(b, s), n <= Late, Room(s, n)
        PROVE  NotLater(d) /\ CallInStep(d, s, n + 1, c)
    <3>1. /\ Len(ids) < n + 1 /\ Room(s, n + 1) /\ NotLater(d)
          /\ SameColumns(d, s) /\ OrderAs(d.groups, s.groups) /\ SameCards(d, s)
      BY <1>5, <1>6, <2>4
    <3>2. ReorderInStep(d, s, n + 1, c)
      BY <1>1, <1>2, <1>3, <2>1, <3>1 DEF ReorderInStep
    <3> QED
      BY <2>2, <3>1, <3>2, MovingInStep
  <2> QED
    BY <1>1, <2>3, <2>4
<1>7. CASE patch # NoPatch
  <2>1. c.requests = <<q, r>> /\ c.requests[1] = q /\ c.requests[2] = r /\ Len(c.requests) = 2
    BY <1>7 DEF Begun
  <2>2. MovePatch(c)
    BY <1>2, <1>3, <1>4, <2>1 DEF MovePatch
  <2>3. CallTyped(c)
    BY <1>2, <2>2, CallForms
  <2>4. ASSUME NEW s, NEW n \in Int, NotLater(b), IsBoard(s), Alike(b, s), n <= Late, Room(s, n)
        PROVE  NotLater(d) /\ CallInStep(d, s, n + 1, c)
    <3>1. /\ Len(ids) < n + 1 /\ Room(s, n + 1) /\ NotLater(d)
          /\ SameColumns(d, s) /\ OrderAs(d.groups, s.groups)
          /\ id \in DOMAIN s.cats => SameCards(d, Effected(s, q))
      BY <1>5, <2>4
    <3>2. PatchInStep(d, s, n + 1, c)
      BY <1>1, <1>2, <1>3, <1>4, <2>1, <3>1 DEF PatchInStep
    <3> QED
      BY <2>2, <3>1, <3>2, MovingInStep
  <2> QED
    BY <1>1, <2>3, <2>4
<1> QED
  BY <1>6, <1>7

-----------------------------------------------------------------------------
(* Every action keeps the page and the server in step.                     *)

LEMMA LimitIs ==
    ASSUME BoardTyped
    PROVE  Limit \in Int /\ Limit <= Late
<1>1. Late \in Nat /\ MaxBoardAsked \in Nat /\ boardAsked \in Nat /\ boardAsked <= MaxBoardAsked
  BY NoneOut DEF BoardTyped
<1> QED
  BY <1>1 DEF Limit

LEMMA InStepIs ==
    ASSUME BoardInv, ~crossed
    PROVE  /\ NotLater(board)
           /\ boardCalls = {} => Alike(board, onServer) /\ Room(onServer, Limit)
           /\ \A c \in boardCalls : boardCalls = {c} /\ CallInStep(board, onServer, Limit, c)
BY DEF BoardInv, InStep, InStepWith

LEMMA BoardStarts == ASSUME BoardInit PROVE BoardInv
<1>1. /\ onServer = StartingBoard /\ board = StartingBoard /\ cardDrag = None /\ goalPrompt = None
      /\ boardCalls = {} /\ boardAsked = 0 /\ crossed = FALSE
  BY DEF BoardInit
<1>2. BoardTyped
  <2>1. MaxBoardAsked \in Nat /\ IsBoard(StartingBoard)
    BY CategoryBoardAssumption
  <2>2. 0 \in 0 .. MaxBoardAsked
    BY <2>1
  <2> QED
    BY <1>1, <2>1, <2>2 DEF BoardTyped, DragTyped, PromptTyped
<1>3. Limit \in Int /\ Limit <= Late /\ Limit = Late - MaxBoardAsked
  <2>1. Late - MaxBoardAsked + 0 = Late - MaxBoardAsked
    BY NoneOut
  <2> QED
    BY <1>1, <1>2, <2>1, LimitIs DEF Limit
<1>4. IsBoard(board) /\ Room(board, Limit)
  BY <1>1, <1>3, CategoryBoardAssumption DEF Room
<1>5. NotLater(board) /\ Alike(board, onServer) /\ Room(onServer, Limit)
  BY <1>1, <1>3, <1>4, RoomNotLater, AlikeItself
<1> QED
  BY <1>1, <1>2, <1>5 DEF BoardInv, InStep, InStepWith

\* A call that starts: alone, or two are under way.
LEMMA StartKeeps ==
    ASSUME BoardInv, NEW c, Start(c), CallTyped(c), IsBoard(board'), DragTyped(cardDrag'), PromptTyped(goalPrompt'),
           \A s, n : /\ NotLater(board) /\ IsBoard(s) /\ Alike(board, s) /\ n \in Int /\ n <= Late /\ Room(s, n)
                    => NotLater(board') /\ CallInStep(board', s, n + 1, c)
    PROVE  BoardInv'
<1>1. /\ boardAsked < MaxBoardAsked /\ boardAsked' = boardAsked + 1 /\ boardCalls' = boardCalls \cup {c}
      /\ crossed' = (crossed \/ boardCalls # {}) /\ onServer' = onServer
  BY DEF Start
<1>2. /\ IsBoard(onServer) /\ boardAsked \in 0 .. MaxBoardAsked /\ crossed \in BOOLEAN
      /\ \A k \in boardCalls : CallTyped(k)
  BY DEF BoardInv, BoardTyped
<1>3. boardAsked' \in 0 .. MaxBoardAsked
  BY <1>1, <1>2, NoneOut
<1>4. crossed' \in BOOLEAN
  BY <1>1, <1>2
<1>5. \A k \in boardCalls' : CallTyped(k)
  BY <1>1, <1>2
<1>6. BoardTyped'
  BY <1>1, <1>2, <1>3, <1>4, <1>5 DEF BoardTyped
<1>7. ASSUME ~crossed' PROVE InStep'
  <2>1. ~crossed /\ boardCalls = {}
    BY <1>1, <1>2, <1>7
  <2>2. NotLater(board) /\ Alike(board, onServer) /\ Room(onServer, Limit)
    BY <2>1, InStepIs
  <2>3. Limit \in Int /\ Limit <= Late
    BY LimitIs DEF BoardInv
  <2>4. NotLater(board') /\ CallInStep(board', onServer, Limit + 1, c)
    BY <1>2, <2>2, <2>3
  <2>5. Limit' = Limit + 1
    <3>1. Late \in Nat /\ MaxBoardAsked \in Nat /\ boardAsked \in Nat
      BY <1>2, NoneOut
    <3>2. Late - MaxBoardAsked + (boardAsked + 1) = (Late - MaxBoardAsked + boardAsked) + 1
      BY <3>1
    <3> QED
      BY <1>1, <3>2 DEF Limit
  <2>6. boardCalls' = {c}
    BY <1>1, <2>1
  <2> QED
    BY <1>1, <2>4, <2>5, <2>6 DEF InStep, InStepWith
<1> QED
  BY <1>6, <1>7 DEF BoardInv

\* One that goes on.
LEMMA GoesOnKeeps ==
    ASSUME BoardInv, NEW c \in boardCalls, NEW k, boardCalls' = (boardCalls \ {c}) \cup {k}, CallTyped(k),
           IsBoard(onServer'), board' = board, boardAsked' = boardAsked, cardDrag' = cardDrag,
           PromptTyped(goalPrompt'), crossed' \in BOOLEAN,
           ~crossed' => /\ ~crossed
                        /\ NotLater(board) /\ CallInStep(board, onServer, Limit, c)
                             => CallInStep(board, onServer', Limit, k)
    PROVE  BoardInv'
<1>1. /\ IsBoard(board) /\ boardAsked \in 0 .. MaxBoardAsked /\ DragTyped(cardDrag)
      /\ \A d \in boardCalls : CallTyped(d)
  BY DEF BoardInv, BoardTyped
<1>2. \A d \in boardCalls' : CallTyped(d)
  BY <1>1
<1>3. BoardTyped'
  BY <1>1, <1>2 DEF BoardTyped
<1>4. ASSUME ~crossed' PROVE InStep'
  <2>1. ~crossed
    BY <1>4
  <2>2. NotLater(board) /\ boardCalls = {c} /\ CallInStep(board, onServer, Limit, c)
    BY <2>1, InStepIs
  <2>3. boardCalls' = {k} /\ CallInStep(board, onServer', Limit, k)
    BY <1>4, <2>2
  <2>4. Limit' = Limit
    BY DEF Limit
  <2> QED
    BY <2>2, <2>3, <2>4 DEF InStep, InStepWith
<1> QED
  BY <1>3, <1>4 DEF BoardInv

\* One that is settled.
LEMMA EndKeeps ==
    ASSUME BoardInv, NEW c \in boardCalls, boardCalls' = boardCalls \ {c}, IsBoard(board'),
           onServer' = onServer, boardAsked' = boardAsked, cardDrag' = cardDrag,
           PromptTyped(goalPrompt'), crossed' \in BOOLEAN,
           ~crossed' => /\ ~crossed
                        /\ NotLater(board) /\ CallInStep(board, onServer, Limit, c)
                             => NotLater(board') /\ Alike(board', onServer) /\ Room(onServer, Limit)
    PROVE  BoardInv'
<1>1. /\ IsBoard(onServer) /\ boardAsked \in 0 .. MaxBoardAsked /\ DragTyped(cardDrag)
      /\ \A d \in boardCalls : CallTyped(d)
  BY DEF BoardInv, BoardTyped
<1>2. \A d \in boardCalls' : CallTyped(d)
  BY <1>1
<1>3. BoardTyped'
  BY <1>1, <1>2 DEF BoardTyped
<1>4. ASSUME ~crossed' PROVE InStep'
  <2>1. ~crossed
    BY <1>4
  <2>2. NotLater(board) /\ boardCalls = {c} /\ CallInStep(board, onServer, Limit, c)
    BY <2>1, InStepIs
  <2>3. boardCalls' = {} /\ NotLater(board') /\ Alike(board', onServer) /\ Room(onServer, Limit)
    BY <1>4, <2>2
  <2>4. Limit' = Limit
    BY DEF Limit
  <2> QED
    BY <2>3, <2>4 DEF InStep, InStepWith
<1> QED
  BY <1>3, <1>4 DEF BoardInv

\* What is dragged, or prompted for, is of no matter.
LEMMA DragKeeps ==
    ASSUME BoardInv, UNCHANGED <<onServer, board, boardCalls, boardAsked, crossed>>,
           DragTyped(cardDrag'), PromptTyped(goalPrompt')
    PROVE  BoardInv'
<1>1. BoardTyped'
  BY DEF BoardInv, BoardTyped
<1>2. ~crossed' => InStep'
  BY DEF BoardInv, InStep, InStepWith, Limit
<1> QED
  BY <1>1, <1>2 DEF BoardInv

\* A call from a dialog or a menu.
LEMMA AskKeeps ==
    ASSUME BoardInv, NEW c, NEW op, NEW r, AsksFor(op, r), Begun(c, op, <<r>>), Start(c),
           op \in Creating => c.before = board, UNCHANGED <<board, cardDrag, goalPrompt>>
    PROVE  BoardInv'
<1>1. IsBoard(board) /\ DragTyped(cardDrag) /\ PromptTyped(goalPrompt)
  BY DEF BoardInv, BoardTyped
<1>2. /\ CallTyped(c)
      /\ \A s, n : n \in Int /\ IsBoard(s) /\ Alike(board, s) /\ Room(s, n) => CallInStep(board, s, n + 1, c)
  BY <1>1, AskBegins
<1> QED
  BY <1>1, <1>2, StartKeeps

LEMMA DialogsKeep == ASSUME BoardInv, BoardDialogs PROVE BoardInv'
<1>0. /\ DOMAIN board.groups \subseteq Nat /\ DOMAIN board.cats \subseteq Nat
      /\ \A id \in DOMAIN board.cats : board.cats[id].archived \in BOOLEAN
  <2>1. IsBoard(board)
    BY DEF BoardInv, BoardTyped
  <2>2. board.cats \in [DOMAIN board.cats -> Card]
    BY <2>1, BoardParts
  <2> QED
    BY <2>1, <2>2 DEF IsBoard, Card
<1>1. ASSUME NEW g \in DOMAIN board.groups, NEW target \in 0 .. 1, CreateCategory(g, target) PROVE BoardInv'
  <2> DEFINE r == [to |-> "create", group |-> g, target |-> target]
             c == CallBefore("createCategory", <<r>>, board)
  <2>1. Start(c) /\ UNCHANGED <<board, cardDrag, goalPrompt>>
    BY <1>1 DEF CreateCategory, CallBefore
  <2>2. AsksFor("createCategory", r)
    BY <1>0 DEF AsksFor
  <2> HIDE DEF r
  <2>3. Begun(c, "createCategory", <<r>>) /\ c.before = board
    BY CallIs
  <2> HIDE DEF c
  <2> QED
    BY <2>1, <2>2, <2>3, AskKeeps
<1>2. ASSUME NEW id \in DOMAIN board.cats, NEW patch \in Patches, PatchCategory(id, patch) PROVE BoardInv'
  <2> DEFINE to == IF patch = [NoPatch EXCEPT !.archived = TRUE] /\ IsGoalGroup(board, board.cats[id].group)
                   THEN "archiveGoal" ELSE "patch"
             r == [to |-> to, id |-> id, patch |-> patch]
             c == Call("patchCategory", <<r>>)
  <2>1. Start(c) /\ UNCHANGED <<board, cardDrag, goalPrompt>>
    BY <1>2 DEF PatchCategory
  <2>2. to \in {"patch", "archiveGoal"}
    OBVIOUS
  <2> HIDE DEF to
  <2>3. AsksFor("patchCategory", r)
    BY <1>0, <2>2 DEF AsksFor
  <2> HIDE DEF r
  <2>4. Begun(c, "patchCategory", <<r>>) /\ "patchCategory" \notin Creating
    BY CallIs DEF Creating
  <2> HIDE DEF c
  <2> QED
    BY <2>1, <2>3, <2>4, AskKeeps
<1>3. ASSUME NEW id \in DOMAIN board.cats, DeleteCard(id) PROVE BoardInv'
  <2> DEFINE r == [to |-> "delete", id |-> id]
             c == Call("deleteCategory", <<r>>)
  <2>1. Start(c) /\ UNCHANGED <<board, cardDrag, goalPrompt>>
    BY <1>3 DEF DeleteCard
  <2>2. AsksFor("deleteCategory", r)
    BY <1>0 DEF AsksFor
  <2> HIDE DEF r
  <2>3. Begun(c, "deleteCategory", <<r>>) /\ "deleteCategory" \notin Creating
    BY CallIs DEF Creating
  <2> HIDE DEF c
  <2> QED
    BY <2>1, <2>2, <2>3, AskKeeps
<1>4. ASSUME NEW kind \in GroupKinds, CreateGroup(kind) PROVE BoardInv'
  <2> DEFINE r == [to |-> "createGroup", kind |-> kind]
             c == CallBefore("createGroup", <<r>>, board)
  <2>1. Start(c) /\ UNCHANGED <<board, cardDrag, goalPrompt>>
    BY <1>4 DEF CreateGroup, CallBefore
  <2>2. AsksFor("createGroup", r)
    BY NoneOut DEF AsksFor
  <2> HIDE DEF r
  <2>3. Begun(c, "createGroup", <<r>>) /\ c.before = board
    BY CallIs
  <2> HIDE DEF c
  <2> QED
    BY <2>1, <2>2, <2>3, AskKeeps
<1>5. ASSUME NEW g \in DOMAIN board.groups, NEW kind \in GroupKinds, PatchGroup(g, kind) PROVE BoardInv'
  <2> DEFINE r == [to |-> "patchGroup", id |-> g, kind |-> kind]
             c == Call("patchGroup", <<r>>)
  <2>1. Start(c) /\ UNCHANGED <<board, cardDrag, goalPrompt>>
    BY <1>5 DEF PatchGroup
  <2>2. AsksFor("patchGroup", r)
    BY <1>0, NoneOut DEF AsksFor
  <2> HIDE DEF r
  <2>3. Begun(c, "patchGroup", <<r>>) /\ "patchGroup" \notin Creating
    BY CallIs DEF Creating
  <2> HIDE DEF c
  <2> QED
    BY <2>1, <2>2, <2>3, AskKeeps
<1>6. ASSUME NEW g \in DOMAIN board.groups, DeleteGroup(g) PROVE BoardInv'
  <2> DEFINE r == [to |-> "deleteGroup", id |-> g]
             c == Call("deleteGroup", <<r>>)
  <2>1. Start(c) /\ UNCHANGED <<board, cardDrag, goalPrompt>>
    BY <1>6 DEF DeleteGroup
  <2>2. AsksFor("deleteGroup", r)
    BY <1>0 DEF AsksFor
  <2> HIDE DEF r
  <2>3. Begun(c, "deleteGroup", <<r>>) /\ "deleteGroup" \notin Creating
    BY CallIs DEF Creating
  <2> HIDE DEF c
  <2> QED
    BY <2>1, <2>2, <2>3, AskKeeps
<1>7. ASSUME NEW g \in DOMAIN board.groups
      PROVE  [NoPatch EXCEPT !.group = g, !.target = IF IsGoalGroup(board, g) THEN 1 ELSE None] \in Patches
  BY <1>0 DEF NoPatch, Patches
<1>8. ASSUME NEW id \in DOMAIN board.cats
      PROVE  [NoPatch EXCEPT !.archived = ~board.cats[id].archived] \in Patches
  <2> DEFINE v == ~board.cats[id].archived
  <2>1. v \in BOOLEAN
    BY <1>0
  <2> HIDE DEF v
  <2>2. [NoPatch EXCEPT !.archived = v] \in Patches
    BY <2>1 DEF NoPatch, Patches
  <2> QED
    BY <2>2 DEF v
<1> QED
  BY <1>1, <1>2, <1>3, <1>4, <1>5, <1>6, <1>7, <1>8 DEF BoardDialogs

LEMMA MoveKeeps ==
    ASSUME BoardInv, NEW id \in DOMAIN board.cats, NEW slot \in Slot, NEW target \in Nat,
           MoveCategory(id, slot, target), DragTyped(cardDrag'), PromptTyped(goalPrompt')
    PROVE  BoardInv'
<1> DEFINE patch == MovedBy(board, id, slot, target)
           ids   == OrderedIds(board, id, slot)
           q     == [to |-> "patch", id |-> id, patch |-> patch]
           r     == [to |-> "reorder", ids |-> ids]
           rs    == IF patch = NoPatch THEN <<r>> ELSE <<q, r>>
           c     == CallMove(rs, id, slot, target # 0)
           d     == CardsMoved(board, id, patch, ids)
<1>1. board' = d /\ Start(c)
  BY DEF MoveCategory, MovedBy, CardsMoved, CallMove
<1>2. IsBoard(board) /\ patch \in Patches
  BY MovedByIs DEF BoardInv, BoardTyped
<1>3. Begun(c, "move", rs)
  BY CallIs
<1> HIDE DEF c
<1>4. /\ IsBoard(d) /\ CallTyped(c)
      /\ \A s, n : /\ NotLater(board) /\ IsBoard(s) /\ Alike(board, s)
                   /\ n \in Int /\ n <= Late /\ Room(s, n)
                  => NotLater(d) /\ CallInStep(d, s, n + 1, c)
  <2> HIDE DEF patch
  <2>1. /\ ids = OrderedIds(board, id, slot) /\ d = CardsMoved(board, id, patch, ids)
        /\ q = [to |-> "patch", id |-> id, patch |-> patch] /\ r = [to |-> "reorder", ids |-> ids]
        /\ Begun(c, "move", IF patch = NoPatch THEN <<r>> ELSE <<q, r>>)
    BY <1>3
  <2> HIDE DEF ids, q, r, d
  <2> QED
    BY <1>2, <2>1, CardDropped
<1> HIDE DEF d
<1> QED
  BY <1>1, <1>4, StartKeeps

LEMMA IdsAre ==
    ASSUME BoardInv
    PROVE  IsBoard(board) /\ DOMAIN board.groups \subseteq Nat /\ DOMAIN board.cats \subseteq Nat
BY DEF BoardInv, BoardTyped, IsBoard

LEMMA BeginDragKeeps ==
    ASSUME BoardInv, NEW kind, NEW id, BeginDrag(kind, id),
           \/ kind = "card" /\ id \in DOMAIN board.cats
           \/ kind = "column" /\ id \in DOMAIN board.groups
    PROVE  BoardInv'
<1>1. UNCHANGED <<onServer, board, goalPrompt, boardCalls, boardAsked, crossed>>
  BY DEF BeginDrag
<1>2. PromptTyped(goalPrompt') /\ IsBoard(board)
  BY <1>1 DEF BoardInv, BoardTyped
<1>3. CASE kind = "card" /\ id \in DOMAIN board.cats
  <2> DEFINE g == board.cats[id].group
             n == IF g \in DOMAIN board.groups THEN IndexIn(CategoriesByGroup(board)[g], id) ELSE 0
  <2>1. g \in Nat /\ id \in Nat
    <3>1. board.cats \in [DOMAIN board.cats -> Card]
      BY <1>2, BoardParts
    <3> QED
      BY <1>3, <3>1, IdsAre DEF Card
  <2>2. n \in Nat
    <3>1. CASE g \in DOMAIN board.groups
      <4> DEFINE s == CategoriesByGroup(board)[g]
      <4>1. s \in Seq(Nat)
        BY <1>2, <3>1, CardsAre
      <4> HIDE DEF s
      <4>2. IndexIn(s, id) \in 0 .. Len(s) /\ Len(s) \in Nat
        BY <4>1, FirstPlace
      <4>3. IndexIn(s, id) \in Nat
        BY <4>2
      <4> QED
        BY <3>1, <4>3 DEF s
    <3>2. CASE g \notin DOMAIN board.groups
      BY <3>2
    <3> QED
      BY <3>1, <3>2
  <2>3. cardDrag' = [kind |-> "card", id |-> id, over |-> [group |-> g, index |-> n]]
    BY <1>3 DEF BeginDrag
  <2> HIDE DEF g, n
  <2>4. DragTyped(cardDrag')
    BY <2>1, <2>2, <2>3 DEF DragTyped, Slot
  <2> QED
    BY <1>1, <1>2, <2>4, DragKeeps
<1>4. CASE kind = "column" /\ id \in DOMAIN board.groups
  <2> DEFINE s == OrderedGroups(board)
             n == IndexIn(s, id)
  <2>1. id \in Nat
    BY <1>4, IdsAre
  <2>2. n \in Nat
    <3>1. s \in Seq(Nat)
      BY <1>2, ColumnsAre
    <3> HIDE DEF s
    <3>2. n \in 0 .. Len(s) /\ Len(s) \in Nat
      BY <3>1, FirstPlace
    <3> QED
      BY <3>2
  <2>3. cardDrag' = [kind |-> "column", id |-> id, over |-> [index |-> n]]
    BY <1>4 DEF BeginDrag
  <2> HIDE DEF n
  <2>4. DragTyped(cardDrag')
    BY <2>1, <2>2, <2>3 DEF DragTyped
  <2> QED
    BY <1>1, <1>2, <2>4, DragKeeps
<1> QED
  BY <1>3, <1>4

LEMMA DragOverKeeps == ASSUME BoardInv, DragOver PROVE BoardInv'
<1>1. PICK slot \in Slots : cardDrag' = [cardDrag EXCEPT !.over = slot]
  BY DEF DragOver
<1>2. cardDrag # None /\ UNCHANGED <<onServer, board, goalPrompt, boardCalls, boardAsked, crossed>>
  BY DEF DragOver
<1>3. PromptTyped(goalPrompt') /\ DragTyped(cardDrag) /\ IsBoard(board)
  BY <1>2 DEF BoardInv, BoardTyped
<1>4. CASE cardDrag \in [kind : {"card"}, id : Nat, over : Slot]
  <2>1. PICK g \in DOMAIN board.groups :
           slot \in {[group |-> g, index |-> n] : n \in 0 .. Len(Others(CategoriesByGroup(board)[g], cardDrag.id))}
    BY <1>1, <1>4 DEF Slots
  <2> DEFINE t == Others(CategoriesByGroup(board)[g], cardDrag.id)
  <2>2. t \in Seq(Nat)
    <3>1. CategoriesByGroup(board)[g] \in Seq(Nat)
      BY <1>3, CardsAre
    <3> QED
      BY <3>1, OthersAre
  <2>3. PICK n \in 0 .. Len(t) : slot = [group |-> g, index |-> n]
    BY <2>1
  <2> HIDE DEF t
  <2>4. n \in Nat /\ g \in Nat
    BY <2>2, IdsAre
  <2>5. slot \in Slot
    BY <2>3, <2>4 DEF Slot
  <2>6. DragTyped(cardDrag')
    BY <1>1, <1>4, <2>5 DEF DragTyped
  <2> QED
    BY <1>2, <1>3, <2>6, DragKeeps
<1>5. CASE cardDrag \in [kind : {"column"}, id : Nat, over : [index : Nat]]
  <2>1. PICK n \in 0 .. Cardinality(DOMAIN board.groups \ {cardDrag.id}) : slot = [index |-> n]
    BY <1>1, <1>5 DEF Slots
  <2>2. n \in Nat
    <3>1. Cardinality(DOMAIN board.groups \ {cardDrag.id}) \in Nat
      BY <1>3, FS_RemoveElement, FS_CardinalityType DEF IsBoard
    <3> QED
      BY <3>1
  <2>3. DragTyped(cardDrag')
    BY <1>1, <1>5, <2>1, <2>2 DEF DragTyped
  <2> QED
    BY <1>2, <1>3, <2>3, DragKeeps
<1> QED
  BY <1>2, <1>3, <1>4, <1>5 DEF DragTyped

LEMMA DropCardKeeps == ASSUME BoardInv, DropCard PROVE BoardInv'
<1> DEFINE id == cardDrag.id
           slot == cardDrag.over
<1>1. cardDrag # None /\ cardDrag.kind = "card" /\ cardDrag' = None
  BY DEF DropCard
<1>2. id \in Nat /\ slot \in Slot /\ PromptTyped(goalPrompt)
  BY <1>1 DEF BoardInv, BoardTyped, DragTyped
<1>3. DragTyped(cardDrag')
  BY <1>1 DEF DragTyped
<1>4. CASE id \notin DOMAIN board.cats \/ slot.group \notin DOMAIN board.groups
  <2>1. UNCHANGED <<onServer, board, goalPrompt, boardCalls, boardAsked, crossed>>
    BY <1>4 DEF DropCard
  <2> QED
    BY <1>2, <1>3, <2>1, DragKeeps
<1>5. CASE /\ id \in DOMAIN board.cats /\ slot.group \in DOMAIN board.groups
           /\ IsGoalGroup(board, slot.group) /\ board.cats[id].target = 0
  <2>1. /\ goalPrompt' = [card |-> id, slot |-> slot, applying |-> FALSE]
        /\ UNCHANGED <<onServer, board, boardCalls, boardAsked, crossed>>
    BY <1>5 DEF DropCard
  <2> HIDE DEF id, slot
  <2>2. PromptTyped(goalPrompt')
    BY <1>2, <2>1 DEF PromptTyped
  <2> QED
    BY <1>3, <2>1, <2>2, DragKeeps
<1>6. CASE /\ id \in DOMAIN board.cats /\ slot.group \in DOMAIN board.groups
           /\ ~(IsGoalGroup(board, slot.group) /\ board.cats[id].target = 0)
  <2>1. MoveCategory(id, slot, 0) /\ UNCHANGED goalPrompt
    BY <1>6 DEF DropCard
  <2> HIDE DEF id, slot
  <2> QED
    BY <1>2, <1>3, <1>6, <2>1, MoveKeeps
<1> QED
  BY <1>4, <1>5, <1>6

LEMMA DropColumnKeeps == ASSUME BoardInv, DropColumn PROVE BoardInv'
<1> DEFINE id == cardDrag.id
           index == cardDrag.over.index
           ids == Inserted(Others(OrderedGroups(board), id), index, id)
           r == [to |-> "reorderGroups", ids |-> ids]
           c == Call("reorderGroups", <<r>>)
           d == GroupsNumbered(board, ids)
<1>1. /\ cardDrag # None /\ cardDrag.kind = "column" /\ cardDrag' = None
      /\ ReorderGroups(ids) /\ UNCHANGED goalPrompt
  BY DEF DropColumn
<1>2. id \in Nat /\ index \in Nat /\ PromptTyped(goalPrompt) /\ IsBoard(board)
  BY <1>1 DEF BoardInv, BoardTyped, DragTyped
<1>3. DragTyped(cardDrag')
  BY <1>1 DEF DragTyped
<1>4. board' = d /\ Start(c)
  BY <1>1 DEF ReorderGroups, GroupsNumbered
<1>5. Begun(c, "reorderGroups", <<r>>)
  BY CallIs
<1> HIDE DEF c, id, index
<1>6. /\ IsBoard(d) /\ CallTyped(c)
      /\ \A s, n : /\ NotLater(board) /\ IsBoard(s) /\ Alike(board, s)
                   /\ n \in Int /\ n <= Late /\ Room(s, n)
                  => NotLater(d) /\ CallInStep(d, s, n + 1, c)
  BY <1>2, <1>5, ColumnDropped
<1> HIDE DEF d
<1> QED
  BY <1>1, <1>2, <1>3, <1>4, <1>6, StartKeeps

LEMMA ApplyGoalKeeps == ASSUME BoardInv, ApplyGoal(1) PROVE BoardInv'
<1>1. /\ goalPrompt # None /\ goalPrompt.card \in DOMAIN board.cats
      /\ MoveCategory(goalPrompt.card, goalPrompt.slot, 1)
      /\ goalPrompt' = [goalPrompt EXCEPT !.applying = TRUE] /\ cardDrag' = cardDrag
  BY DEF ApplyGoal
<1>2. goalPrompt \in [card : Nat, slot : Slot, applying : BOOLEAN] /\ DragTyped(cardDrag)
  BY <1>1 DEF BoardInv, BoardTyped, PromptTyped
<1>3. PromptTyped(goalPrompt') /\ goalPrompt.slot \in Slot
  BY <1>1, <1>2 DEF PromptTyped
<1> QED
  BY <1>1, <1>2, <1>3, MoveKeeps

LEMMA DraggingKeeps == ASSUME BoardInv, BoardDragging PROVE BoardInv'
<1>1. ASSUME EndDrag PROVE BoardInv'
  <2>1. cardDrag' = None /\ UNCHANGED <<onServer, board, goalPrompt, boardCalls, boardAsked, crossed>>
    BY <1>1 DEF EndDrag
  <2>2. DragTyped(cardDrag') /\ PromptTyped(goalPrompt')
    BY <2>1 DEF BoardInv, BoardTyped, DragTyped
  <2> QED
    BY <2>1, <2>2, DragKeeps
<1>2. ASSUME CloseGoal PROVE BoardInv'
  <2>1. goalPrompt' = None /\ UNCHANGED <<onServer, board, cardDrag, boardCalls, boardAsked, crossed>>
    BY <1>2 DEF CloseGoal
  <2>2. DragTyped(cardDrag') /\ PromptTyped(goalPrompt')
    BY <2>1 DEF BoardInv, BoardTyped, PromptTyped
  <2> QED
    BY <2>1, <2>2, DragKeeps
<1>3. ASSUME NEW id \in DOMAIN board.cats, BeginDrag("card", id) PROVE BoardInv'
  BY <1>3, BeginDragKeeps
<1>4. ASSUME NEW g \in DOMAIN board.groups, BeginDrag("column", g) PROVE BoardInv'
  BY <1>4, BeginDragKeeps
<1> QED
  BY <1>1, <1>2, <1>3, <1>4, DragOverKeeps, DropCardKeeps, DropColumnKeeps, ApplyGoalKeeps DEF BoardDragging

LEMMA AcceptsKeeps == ASSUME BoardInv, NEW c \in boardCalls, BoardAccepts(c) PROVE BoardInv'
<1> DEFINE r == Head(c.requests)
<1>1. c.stage = "sent" /\ UNCHANGED <<board, cardDrag, goalPrompt, boardAsked, crossed>>
  BY DEF BoardAccepts
<1>2. /\ IsBoard(board) /\ IsBoard(onServer) /\ CallTyped(c) /\ crossed \in BOOLEAN /\ PromptTyped(goalPrompt)
  BY DEF BoardInv, BoardTyped
<1>3. r = c.requests[1]
  BY <1>2, CallForms, FormsApart
<1>4. Limit \in Int
  BY LimitIs DEF BoardInv
<1>5. CASE r.to = "load"
  <2> DEFINE k == CallRead(c, onServer)
  <2>1. boardCalls' = (boardCalls \ {c}) \cup {k} /\ UNCHANGED onServer
    BY <1>5 DEF BoardAccepts, CallRead
  <2> HIDE DEF r
  <2>2. /\ CallTyped(k)
        /\ \A b, n : CallInStep(b, onServer, n, c) => CallInStep(b, onServer, n, k)
    BY <1>2, <1>3, <1>5, ReadTyped
  <2> HIDE DEF k
  <2> QED
    BY <1>1, <1>2, <2>1, <2>2, GoesOnKeeps
<1>6. CASE r.to # "load"
  <2> DEFINE m == NewId(IF r.to = "createGroup" THEN onServer.groups ELSE onServer.cats)
             k == CallOk(c, m)
             d == Effected(onServer, r)
  <2>1. boardCalls' = (boardCalls \ {c}) \cup {k} /\ onServer' = d /\ Fits(r)
    BY <1>6 DEF BoardAccepts, CallOk
  <2> HIDE DEF r
  <2>2. Fitting(onServer, r)
    BY <2>1, FitsIs
  <2>3. m \in Nat
    BY <1>2, CreatedTyped
  <2> DEFINE mm == m
  <2>4. mm = NewId(IF r.to = "createGroup" THEN onServer.groups ELSE onServer.cats) /\ k = CallOk(c, mm) /\ mm \in Nat
    BY <2>3
  <2> HIDE DEF m, mm, k, d
  <2>5. d = Effected(onServer, r)
    BY DEF d
  <2>6. IsBoard(d) /\ CallTyped(k)
    BY <1>2, <1>3, <1>6, <2>2, <2>4, <2>5, AcceptTyped
  <2>7. ASSUME NotLater(board), CallInStep(board, onServer, Limit, c) PROVE CallInStep(board, d, Limit, k)
    BY <1>1, <1>2, <1>3, <1>4, <1>6, <2>2, <2>4, <2>5, <2>7, AcceptInStep
  <2> QED
    BY <1>1, <1>2, <2>1, <2>6, <2>7, GoesOnKeeps
<1> QED
  BY <1>5, <1>6

LEMMA RefusesKeeps == ASSUME BoardInv, NEW c \in boardCalls, BoardRefuses(c) PROVE BoardInv'
<1> DEFINE k == CallFailed(c)
<1>1. /\ c.stage = "sent" /\ boardCalls' = (boardCalls \ {c}) \cup {k}
      /\ UNCHANGED <<onServer, board, cardDrag, goalPrompt, boardAsked, crossed>>
  BY DEF BoardRefuses, CallFailed
<1>2. IsBoard(onServer) /\ CallTyped(c) /\ crossed \in BOOLEAN /\ PromptTyped(goalPrompt)
  BY DEF BoardInv, BoardTyped
<1>3. /\ CallTyped(k)
      /\ \A b, s, n : CallInStep(b, s, n, c) => CallInStep(b, s, n, k)
  BY <1>1, <1>2, RefusedTyped
<1> HIDE DEF k
<1> QED
  BY <1>1, <1>2, <1>3, GoesOnKeeps

LEMMA LostKeeps == ASSUME BoardInv, NEW c \in boardCalls, BoardAnswerLost(c) PROVE BoardInv'
<1> DEFINE k == CallFailed(c)
<1>1. /\ boardCalls' = (boardCalls \ {c}) \cup {k} /\ crossed' = TRUE
      /\ UNCHANGED <<onServer, board, cardDrag, goalPrompt, boardAsked>>
  BY DEF BoardAnswerLost, CallFailed
<1>2. IsBoard(onServer) /\ CallTyped(c) /\ PromptTyped(goalPrompt)
  BY DEF BoardInv, BoardTyped
<1>3. CallTyped(k)
  BY <1>2, RefusedTyped
<1> HIDE DEF k
<1> QED
  BY <1>1, <1>2, <1>3, GoesOnKeeps

LEMMA ReopenedTyped == ASSUME PromptTyped(goalPrompt), NEW c PROVE PromptTyped(Reopened(c))
BY DEF PromptTyped, Reopened

LEMMA AnswerKeeps == ASSUME BoardInv, NEW c \in boardCalls, BoardAnswer(c) PROVE BoardInv'
<1>1. c.stage = "ok" /\ UNCHANGED <<cardDrag, crossed>>
  BY DEF BoardAnswer
<1>2. /\ IsBoard(board) /\ IsBoard(onServer) /\ CallTyped(c) /\ crossed \in BOOLEAN /\ PromptTyped(goalPrompt)
  BY DEF BoardInv, BoardTyped
<1>3. CASE Len(c.requests) > 1
  <2> DEFINE k == CallNext(c)
  <2>1. /\ boardCalls' = (boardCalls \ {c}) \cup {k} /\ UNCHANGED <<onServer, board, goalPrompt, boardAsked>>
    BY <1>3 DEF BoardAnswer, Settle, CallNext
  <2>2. /\ CallTyped(k)
        /\ \A b, s, n : CallInStep(b, s, n, c) => CallInStep(b, s, n, k)
    BY <1>1, <1>2, <1>3, NextTyped
  <2> HIDE DEF k
  <2> QED
    BY <1>1, <1>2, <2>1, <2>2, GoesOnKeeps
<1>4. CASE ~(Len(c.requests) > 1)
  <2> DEFINE d == ShownOnceSaved(board, c)
  <2>1. /\ board' = d /\ goalPrompt' = (IF FromDialog(c) THEN None ELSE Reopened(c))
        /\ boardCalls' = boardCalls \ {c} /\ UNCHANGED <<onServer, boardAsked>>
    BY <1>4 DEF BoardAnswer, Settle
  <2>2. PromptTyped(goalPrompt')
    <3>1. CASE FromDialog(c)
      BY <2>1, <3>1 DEF PromptTyped
    <3>2. CASE ~FromDialog(c)
      BY <1>2, <2>1, <3>2, ReopenedTyped
    <3> QED
      BY <3>1, <3>2
  <2>3. /\ IsBoard(d)
        /\ \A s, n : NotLater(board) /\ IsBoard(s) /\ n \in Int /\ n <= Late /\ CallInStep(board, s, n, c)
                       => NotLater(d) /\ Alike(d, s) /\ Room(s, n)
    BY <1>1, <1>2, <1>4, SettledInStep
  <2>4. Limit \in Int /\ Limit <= Late
    BY LimitIs DEF BoardInv
  <2> HIDE DEF d
  <2>5. ASSUME NotLater(board), CallInStep(board, onServer, Limit, c)
        PROVE  NotLater(d) /\ Alike(d, onServer) /\ Room(onServer, Limit)
    BY <1>2, <2>3, <2>4, <2>5
  <2> QED
    BY <1>1, <1>2, <2>1, <2>2, <2>3, <2>5, EndKeeps
<1> QED
  BY <1>3, <1>4

LEMMA FailureKeeps == ASSUME BoardInv, NEW c \in boardCalls, BoardFailure(c) PROVE BoardInv'
<1>1. c.stage = "failed" /\ UNCHANGED <<board, cardDrag>>
  BY DEF BoardFailure
<1>2. /\ IsBoard(board) /\ IsBoard(onServer) /\ CallTyped(c) /\ crossed \in BOOLEAN /\ PromptTyped(goalPrompt)
  BY DEF BoardInv, BoardTyped
<1>3. CASE c.op \in Dragging /\ Head(c.requests).to # "load"
  <2> DEFINE k == CallLoads(c)
  <2>1. /\ boardCalls' = (boardCalls \ {c}) \cup {k}
        /\ UNCHANGED <<onServer, goalPrompt, boardAsked, crossed>>
    BY <1>3 DEF BoardFailure, Settle, ReadAgain, CallLoads, Dragging
  <2>2. /\ CallTyped(k)
        /\ \A b, s, n : CallInStep(b, s, n, c) => CallInStep(b, s, n, k)
    BY <1>2, <1>3, AgainTyped
  <2> HIDE DEF k
  <2> QED
    BY <1>1, <1>2, <2>1, <2>2, GoesOnKeeps
<1>4. CASE ~(c.op \in Dragging /\ Head(c.requests).to # "load")
  <2>1. /\ boardCalls' = boardCalls \ {c} /\ goalPrompt' = Reopened(c)
        /\ crossed' = (crossed \/ Head(c.requests).to = "load") /\ UNCHANGED <<onServer, boardAsked>>
    BY <1>4 DEF BoardFailure, Settle, Dragging
  <2>2. PromptTyped(goalPrompt')
    BY <1>2, <2>1, ReopenedTyped
  <2>3. crossed' \in BOOLEAN
    BY <1>2, <2>1
  <2>4. ASSUME ~crossed', NotLater(board), CallInStep(board, onServer, Limit, c)
        PROVE  ~crossed /\ NotLater(board) /\ Alike(board, onServer) /\ Room(onServer, Limit)
    <3>1. ~crossed /\ c.op \notin Dragging
      BY <1>2, <1>4, <2>1, <2>4
    <3>2. Limit \in Int
      BY LimitIs DEF BoardInv
    <3> QED
      BY <1>1, <1>2, <2>4, <3>1, <3>2, GivenUpInStep
  <2>5. ~crossed' => ~crossed
    BY <1>2, <2>1
  <2> QED
    BY <1>1, <1>2, <2>1, <2>2, <2>3, <2>4, <2>5, EndKeeps
<1> QED
  BY <1>3, <1>4

LEMMA BoardKept == ASSUME BoardInv, [BoardNext]_boardVars PROVE BoardInv'
<1>1. CASE UNCHANGED boardVars
  <2>1. UNCHANGED <<onServer, board, cardDrag, goalPrompt, boardCalls, boardAsked, crossed>>
    BY <1>1 DEF boardVars
  <2>2. DragTyped(cardDrag') /\ PromptTyped(goalPrompt')
    BY <2>1 DEF BoardInv, BoardTyped
  <2> QED
    BY <2>1, <2>2, DragKeeps
<1>2. ASSUME NEW c \in boardCalls,
             BoardAccepts(c) \/ BoardRefuses(c) \/ BoardAnswerLost(c) \/ BoardAnswer(c) \/ BoardFailure(c)
      PROVE  BoardInv'
  BY <1>2, AcceptsKeeps, RefusesKeeps, LostKeeps, AnswerKeeps, FailureKeeps
<1> QED
  BY <1>1, <1>2, DialogsKeep, DraggingKeeps DEF BoardNext

LEMMA BoardInvAgrees == ASSUME BoardInv PROVE BoardAgrees
<1> SUFFICES ASSUME boardCalls = {}, ~crossed PROVE Drawn(board) = Drawn(onServer)
  BY DEF BoardAgrees
<1>1. Alike(board, onServer)
  BY InStepIs
<1>2. IsBoard(board) /\ IsBoard(onServer)
  BY DEF BoardInv, BoardTyped
<1> QED
  BY <1>1, <1>2, AlikeDrawn

\* Once nothing is under way the page draws the columns and cards that are saved,
\* whatever was dragged, edited, created, deleted and refused before, as long as
\* calls did not overlap and no answer was lost (moveCategory, patchCategory,
\* createCategory, reorderGroups, load).
THEOREM PageShowsTheBoard == BoardSpec => []BoardAgrees
<1>1. BoardInit => BoardInv
  BY BoardStarts
<1>2. BoardInv /\ [BoardNext]_boardVars => BoardInv'
  BY BoardKept
<1>3. BoardInv => BoardAgrees
  BY BoardInvAgrees
<1> QED
  BY <1>1, <1>2, <1>3, PTL DEF BoardSpec

-----------------------------------------------------------------------------
(* A dropped card lands in its slot.                                       *)

\* A sequence of a finite set's members, each once and in order, is the sorted one.
LEMMA OnceCounts ==
    ASSUME NEW S, IsFiniteSet(S), NEW s \in Seq(S), EachOnce(s), \A x \in S : \E i \in 1 .. Len(s) : s[i] = x
    PROVE  Len(s) = Cardinality(S)
<1> DEFINE n == Len(s)
           f == [i \in 1 .. n |-> s[i]]
<1>1. n \in Nat /\ \A i \in 1 .. n : s[i] \in S
  OBVIOUS
<1> HIDE DEF n
<1>2. f \in Bijection(1 .. n, S)
  <2>1. f \in [1 .. n -> S]
    BY <1>1
  <2>2. \A x \in S : \E i \in 1 .. n : f[i] = x
    BY DEF n
  <2>3. \A i, j \in 1 .. n : f[i] = f[j] => i = j
    BY DEF EachOnce, n
  <2> QED
    BY <2>1, <2>2, <2>3 DEF Bijection, Injection, IsInjective, Surjection
<1>3. ExistsBijection(1 .. n, S)
  BY <1>2 DEF ExistsBijection
<1>4. Cardinality(1 .. n) = Cardinality(S)
  BY <1>1, <1>3, CountTo, FS_Bijection
<1> QED
  BY <1>1, <1>4, CountTo DEF n

LEMMA SortedUnique ==
    ASSUME NEW f, NEW S, Sortable(f, S), NEW s, SortedIs(s, f, S)
    PROVE  s = SortedById(f, S)
<1> DEFINE t == SortedById(f, S)
           R == SortPairs(f, S)
<1>1. /\ s \in Seq(S) /\ Len(s) = Cardinality(S) /\ Cardinality(S) \in Nat
      /\ \A i, j \in 1 .. Len(s) : i < j => BySortThenId(f, s[i], s[j])
      /\ \A x \in S : \E i \in 1 .. Len(s) : s[i] = x
  BY DEF SortedIs
<1>2. /\ t = [i \in 1 .. Len(s) |-> t[i]]
      /\ \A i \in 1 .. Len(s) : t[i] \in S /\ Place(t[i], S, R) = i - 1
  BY <1>1, SortedPlaced
<1> HIDE DEF t, R
<1>3. ASSUME NEW i \in 1 .. Len(s) PROVE Place(s[i], S, R) = i - 1
  <2> DEFINE B == {y \in S : BySortThenId(f, y, s[i])}
             g == [j \in 1 .. i - 1 |-> s[j]]
  <2>1. s[i] \in S /\ i - 1 \in Nat /\ \A j \in 1 .. i - 1 : j \in 1 .. Len(s) /\ j < i
    BY <1>1
  <2>2. g \in Seq(S) /\ Len(g) = i - 1 /\ \A j \in 1 .. i - 1 : g[j] = s[j]
    BY <1>1, <2>1
  <2>3. \A j \in 1 .. i - 1 : g[j] \in B
    BY <1>1, <2>1, <2>2
  <2>4. ASSUME NEW y \in B PROVE \E j \in 1 .. i - 1 : g[j] = y
    <3>1. PICK j \in 1 .. Len(s) : s[j] = y
      BY <1>1
    <3>2. BySortThenId(f, s[j], s[i])
      BY <3>1
    <3>3. ~BySortThenId(f, s[i], s[i]) /\ ~BySortThenId(f, s[i], s[j])
      <4>1. s[j] \in S
        BY <1>1
      <4> QED
        BY <2>1, <3>2, <4>1, SortStrict
    <3>4. j # i /\ ~(i < j)
      BY <1>1, <3>2, <3>3
    <3>5. j \in 1 .. i - 1
      BY <3>4
    <3> QED
      BY <2>2, <3>1, <3>5
  <2>5. EachOnce(s)
    <3>1. SortedIs(s, f, S)
      OBVIOUS
    <3> QED
      BY <3>1, SortedOnce
  <2>6. EachOnce(g)
    BY <2>1, <2>2, <2>5 DEF EachOnce
  <2>7. IsFiniteSet(B) /\ g \in Seq(B)
    <3>1. IsFiniteSet(S)
      BY DEF Sortable
    <3>2. IsFiniteSet(B)
      BY <3>1, FS_Subset
    <3> HIDE DEF B
    <3>3. g \in Seq(B)
      BY <2>1, <2>3
    <3> QED
      BY <3>2, <3>3
  <2> HIDE DEF g
  <2>8. Place(s[i], S, R) = Cardinality(B)
    BY <2>1, SortRanked DEF R
  <2> HIDE DEF B
  <2>9. Len(g) = Cardinality(B)
    BY <2>2, <2>4, <2>6, <2>7, OnceCounts
  <2> QED
    BY <2>2, <2>8, <2>9
<1>4. ASSUME NEW i \in 1 .. Len(s) PROVE s[i] = t[i]
  <2>1. s[i] \in S /\ t[i] \in S /\ Place(s[i], S, R) = Place(t[i], S, R)
    BY <1>1, <1>2, <1>3
  <2> QED
    BY <2>1, SortRanked DEF R
<1>5. s = [i \in 1 .. Len(s) |-> s[i]]
  BY <1>1
<1> QED
  BY <1>2, <1>4, <1>5 DEF t

\* One above the other in a sequence.
AboveIn(s, x, y) == \E m, n \in 1 .. Len(s) : m < n /\ s[m] = x /\ s[n] = y

LEMMA OthersAbove ==
    ASSUME NEW seq \in Seq(Nat), NEW id, NEW t, t = Others(seq, id), NEW x, NEW y, x # id, y # id
    PROVE  AboveIn(t, x, y) <=> AboveIn(seq, x, y)
<1>1. PICK at : OthersAt(t, seq, id, at)
  BY OthersAre
<1>2. /\ \A n \in 1 .. Len(t) : at[n] \in 1 .. Len(seq) /\ t[n] = seq[at[n]]
      /\ \A m, n \in 1 .. Len(t) : m < n => at[m] < at[n]
      /\ \A i \in 1 .. Len(seq) : seq[i] # id => \E n \in 1 .. Len(t) : at[n] = i
      /\ Len(t) \in Nat
  BY <1>1 DEF OthersAt
<1>3. ASSUME AboveIn(t, x, y) PROVE AboveIn(seq, x, y)
  <2>1. PICK m \in 1 .. Len(t), n \in 1 .. Len(t) : m < n /\ t[m] = x /\ t[n] = y
    BY <1>3 DEF AboveIn
  <2>2. at[m] \in 1 .. Len(seq) /\ at[n] \in 1 .. Len(seq) /\ at[m] < at[n] /\ seq[at[m]] = x /\ seq[at[n]] = y
    BY <1>2, <2>1
  <2> QED
    BY <2>2 DEF AboveIn
<1>4. ASSUME AboveIn(seq, x, y) PROVE AboveIn(t, x, y)
  <2>1. PICK i \in 1 .. Len(seq), j \in 1 .. Len(seq) : i < j /\ seq[i] = x /\ seq[j] = y
    BY <1>4 DEF AboveIn
  <2>2. PICK m \in 1 .. Len(t) : at[m] = i
    BY <1>2, <2>1
  <2>3. PICK n \in 1 .. Len(t) : at[n] = j
    BY <1>2, <2>1
  <2>4. t[m] = x /\ t[n] = y
    BY <1>2, <2>1, <2>2, <2>3
  <2>5. ~(n < m) /\ n # m
    BY <1>2, <2>1, <2>2, <2>3
  <2>6. m < n
    BY <2>5
  <2> QED
    BY <2>4, <2>6 DEF AboveIn
<1> QED
  BY <1>3, <1>4

LEMMA InsertedAbove ==
    ASSUME NEW seq \in Seq(Nat), NEW id \in Nat, NEW index \in Nat, NEW t, t = Inserted(seq, index, id),
           NEW x, NEW y, x # id, y # id
    PROVE  AboveIn(t, x, y) <=> AboveIn(seq, x, y)
<1>0. PICK k : k = Min({index, Len(seq)})
  OBVIOUS
<1>1. /\ k \in 0 .. Len(seq) /\ Len(t) = Len(seq) + 1 /\ t[k + 1] = id
      /\ \A n \in 1 .. k : t[n] = seq[n]
      /\ \A n \in k + 1 .. Len(seq) : t[n + 1] = seq[n]
      /\ Len(seq) \in Nat
  <2>1. InsertedAt(t, seq, k, id)
    BY <1>0, InsertedIs
  <2> QED
    BY <2>1 DEF InsertedAt
<1> DEFINE to(n) == IF n <= k THEN n ELSE n + 1
           from(n) == IF n <= k THEN n ELSE n - 1
<1>2. ASSUME NEW n \in 1 .. Len(seq) PROVE to(n) \in 1 .. Len(t) /\ t[to(n)] = seq[n]
  BY <1>1
<1>3. ASSUME NEW n \in 1 .. Len(t), t[n] # id PROVE n # k + 1 /\ from(n) \in 1 .. Len(seq) /\ seq[from(n)] = t[n]
  <2>1. n # k + 1
    BY <1>3, <1>1
  <2>2. CASE n <= k
    BY <1>1, <2>2
  <2>3. CASE n > k + 1
    <3>1. n - 1 \in k + 1 .. Len(seq) /\ (n - 1) + 1 = n
      BY <1>1, <2>3
    <3>2. t[n] = seq[n - 1]
      BY <1>1, <3>1
    <3> QED
      BY <1>1, <2>1, <2>3, <3>1, <3>2
  <2> QED
    BY <1>1, <2>1, <2>2, <2>3
<1>4. ASSUME AboveIn(t, x, y) PROVE AboveIn(seq, x, y)
  <2>1. PICK m \in 1 .. Len(t), n \in 1 .. Len(t) : m < n /\ t[m] = x /\ t[n] = y
    BY <1>4 DEF AboveIn
  <2>2. m # k + 1 /\ from(m) \in 1 .. Len(seq) /\ seq[from(m)] = x
    BY <1>3, <2>1
  <2>3. n # k + 1 /\ from(n) \in 1 .. Len(seq) /\ seq[from(n)] = y
    BY <1>3, <2>1
  <2>4. from(m) < from(n)
    BY <1>1, <2>1, <2>2, <2>3
  <2> HIDE DEF from
  <2> QED
    BY <2>2, <2>3, <2>4 DEF AboveIn
<1>5. ASSUME AboveIn(seq, x, y) PROVE AboveIn(t, x, y)
  <2>1. PICK m \in 1 .. Len(seq), n \in 1 .. Len(seq) : m < n /\ seq[m] = x /\ seq[n] = y
    BY <1>5 DEF AboveIn
  <2>2. to(m) < to(n)
    BY <1>1, <2>1
  <2>3. to(m) \in 1 .. Len(t) /\ t[to(m)] = x /\ to(n) \in 1 .. Len(t) /\ t[to(n)] = y
    BY <1>2, <2>1
  <2> HIDE DEF to
  <2> QED
    BY <2>2, <2>3 DEF AboveIn
<1> QED
  BY <1>4, <1>5

\* The ids of a column come in its order among all ids.
LEMMA IdsInOrder ==
    ASSUME NEW b, IsBoard(b), NEW id \in DOMAIN b.cats, NEW slot, slot.index \in Nat,
           NEW ids, ids = OrderedIds(b, id, slot), NEW g \in DOMAIN b.groups,
           NEW s, s = Dropped(b, id, slot, g)
    PROVE  /\ ToSet(s) \subseteq ToSet(ids)
           /\ \A i, j \in 1 .. Len(s) : i < j => IndexIn(ids, s[i]) < IndexIn(ids, s[j])
<1> DEFINE cols == DroppedColumns(b, id, slot)
           order == OrderedGroups(b)
<1>1. ids = FlattenSeq(cols)
  BY OrderedIdsIs
<1>2. /\ cols \in Seq(Seq(Nat)) /\ Len(cols) = Len(order)
      /\ \A k \in 1 .. Len(cols) : cols[k] = Dropped(b, id, slot, order[k])
  BY DroppedEach
<1>3. order \in Seq(Nat) /\ ToSet(order) = DOMAIN b.groups
  BY ColumnsAre
<1>4. ids \in Seq(Nat) /\ EachOnce(ids)
  BY OrderedIdsAre
<1>5. s \in Seq(Nat)
  BY DroppedIs
<1> HIDE DEF cols, order
<1>6. PICK k \in 1 .. Len(cols) : cols[k] = s
  <2>1. g \in ToSet(order)
    BY <1>3
  <2>2. PICK k \in 1 .. Len(order) : order[k] = g
    BY <1>3, <2>1, InSequence
  <2> QED
    BY <1>2, <2>2
<1>7. PICK flat, off : FlattenSeq(cols) = flat[Len(cols)] /\ Placed(Nat, cols, flat, off, Len(cols))
  <2>1. Len(cols) # 0
    BY <1>2, <1>6
  <2> QED
    BY <1>2, <2>1, FlattenPlaced
<1>8. PICK o \in Nat : /\ Len(s) \in Nat /\ o + Len(s) <= Len(ids)
                       /\ \A j \in 1 .. Len(s) : ids[o + j] = s[j]
  <2>1. ids = flat[Len(cols)]
    BY <1>1, <1>7
  <2>2. \A c \in 1 .. Len(cols) :
           /\ off[c] \in Nat /\ Len(cols[c]) \in Nat
           /\ off[c] + Len(cols[c]) <= Len(ids)
           /\ \A j \in 1 .. Len(cols[c]) : ids[off[c] + j] = cols[c][j]
    BY <1>7, <2>1 DEF Placed
  <2> QED
    BY <1>6, <2>2
<1>9. ASSUME NEW i \in 1 .. Len(s) PROVE s[i] \in ToSet(ids) /\ IndexIn(ids, s[i]) = o + i - 1
  <2>1. PICK p : p = o + i
    OBVIOUS
  <2>2. ids[p] = s[i]
    BY <1>8, <2>1
  <2>3. p \in 1 .. Len(ids)
    BY <1>4, <1>8, <2>1, Z3
  <2>4. s[i] \in ToSet(ids)
    BY <1>4, <2>2, <2>3, InSequence
  <2>5. PICK m : m = IndexIn(ids, s[i])
    OBVIOUS
  <2>6. m \in 0 .. Len(ids) /\ m < Len(ids) /\ ids[m + 1] = s[i]
    BY <1>4, <2>4, <2>5, FirstPlace
  <2>7. PICK n \in 1 .. Len(ids) : n = m + 1 /\ ids[n] = ids[p]
    BY <1>4, <2>2, <2>6
  <2>8. n = p
    BY <1>4, <2>3, <2>7 DEF EachOnce
  <2>9. m \in Int /\ i \in Int
    BY <2>6
  <2>10. m = o + i - 1
    BY <1>8, <2>1, <2>7, <2>8, <2>9
  <2> QED
    BY <2>4, <2>5, <2>10
<1>10. ToSet(s) \subseteq ToSet(ids)
  BY <1>5, <1>9, InSequence
<1>11. ASSUME NEW i \in 1 .. Len(s), NEW j \in 1 .. Len(s), i < j
       PROVE  IndexIn(ids, s[i]) < IndexIn(ids, s[j])
  BY <1>8, <1>9, <1>11
<1> QED
  BY <1>10, <1>11

\* A column of the board, once a card was dropped, is as it was dropped.
LEMMA ColumnAsDropped ==
    ASSUME NEW b, IsBoard(b), NEW id \in DOMAIN b.cats, NEW slot \in Slot, NEW patch \in Patches,
           Given(patch.group, b.cats[id].group) = slot.group,
           NEW ids, ids = OrderedIds(b, id, slot), NEW d, d = CardsMoved(b, id, patch, ids),
           NEW g \in DOMAIN b.groups
    PROVE  g \in DOMAIN d.groups /\ CategoriesByGroup(d)[g] = Dropped(b, id, slot, g)
<1> DEFINE s == Dropped(b, id, slot, g)
           S == CardsIn(d, g)
<1>0. slot.index \in Nat
  BY DEF Slot
<1>1. /\ IsBoard(d) /\ d.groups = b.groups /\ DOMAIN d.cats = DOMAIN b.cats
      /\ NumberedBy(d.cats, ids)
      /\ \A x \in DOMAIN b.cats : x # id => d.cats[x].group = b.cats[x].group
      /\ d.cats[id].group = slot.group
  BY CardShown
<1>2. /\ s \in Seq(Nat) /\ EachOnce(s)
      /\ ToSet(s) = {x \in DOMAIN b.cats : Ends(b, id, slot, x) = g}
  BY <1>0, DroppedIs
<1>3. /\ ToSet(s) \subseteq ToSet(ids)
      /\ \A i, j \in 1 .. Len(s) : i < j => IndexIn(ids, s[i]) < IndexIn(ids, s[j])
  BY <1>0, IdsInOrder
<1>4. ids \in Seq(Nat)
  BY <1>0, OrderedIdsAre
<1> HIDE DEF s
<1>5. ToSet(s) = S
  <2>1. ASSUME NEW x \in DOMAIN b.cats PROVE Ends(b, id, slot, x) = d.cats[x].group
    BY <1>1 DEF Ends
  <2> QED
    BY <1>1, <1>2, <2>1 DEF CardsIn
<1>6. Sortable(d.cats, S)
  <2>1. S \in SUBSET DOMAIN d.cats
    BY DEF CardsIn
  <2> QED
    BY <1>1, <2>1, BoardSortable
<1> HIDE DEF S
<1>7. ASSUME NEW i \in 1 .. Len(s) PROVE s[i] \in S /\ d.cats[s[i]].sort = IndexIn(ids, s[i]) + 1
  <2>1. s[i] \in ToSet(s)
    BY <1>2, InSequence
  <2>2. s[i] \in DOMAIN d.cats /\ s[i] \in ToSet(ids)
    BY <1>1, <1>2, <1>3, <2>1
  <2> QED
    BY <1>1, <1>5, <2>1, <2>2 DEF NumberedBy
<1>8. ASSUME NEW i \in 1 .. Len(s), NEW j \in 1 .. Len(s), i < j PROVE BySortThenId(d.cats, s[i], s[j])
  <2>1. IndexIn(ids, s[i]) < IndexIn(ids, s[j]) /\ IndexIn(ids, s[i]) \in Int /\ IndexIn(ids, s[j]) \in Int
    BY <1>3, <1>4, <1>8, FirstPlace
  <2>2. d.cats[s[i]].sort < d.cats[s[j]].sort
    BY <1>7, <2>1
  <2> QED
    BY <2>2 DEF BySortThenId
<1>9. ASSUME NEW x \in S PROVE \E i \in 1 .. Len(s) : s[i] = x
  BY <1>2, <1>5, <1>9, InSequence
<1>10. s \in Seq(S) /\ Len(s) \in Nat
  BY <1>2, <1>7
<1>11. Len(s) = Cardinality(S)
  <2>1. IsFiniteSet(S)
    BY <1>6 DEF Sortable
  <2> QED
    BY <1>2, <1>9, <1>10, <2>1, OnceCounts
<1>12. SortedIs(s, d.cats, S)
  BY <1>8, <1>9, <1>10, <1>11 DEF SortedIs
<1>13. s = SortedById(d.cats, S)
  BY <1>6, <1>12, SortedUnique
<1>14. CategoriesByGroup(d)[g] = SortedById(d.cats, S)
  BY <1>1 DEF CategoriesByGroup, CardsIn, S
<1> QED
  BY <1>1, <1>13, <1>14 DEF s

\* The dropped card is where it was dropped, and the others keep their order.
LEMMA CardLands ==
    ASSUME NEW b, IsBoard(b), NEW id \in DOMAIN b.cats, NEW slot \in Slot, slot.group \in DOMAIN b.groups,
           NEW patch \in Patches, Given(patch.group, b.cats[id].group) = slot.group,
           NEW ids, ids = OrderedIds(b, id, slot), NEW d, d = CardsMoved(b, id, patch, ids)
    PROVE  /\ IndexIn(CategoriesByGroup(d)[slot.group], id)
                = Min({slot.index, Len(Others(CategoriesByGroup(b)[slot.group], id))})
           /\ \A h \in DOMAIN b.groups, x, y \in DOMAIN b.cats \ {id} :
                 AboveIn(CategoriesByGroup(b)[h], x, y) <=> AboveIn(CategoriesByGroup(d)[h], x, y)
<1>0. slot.index \in Nat /\ id \in Nat
  BY DEF Slot, IsBoard
<1>1. ASSUME NEW h \in DOMAIN b.groups
      PROVE  /\ CategoriesByGroup(d)[h] = Dropped(b, id, slot, h)
             /\ CategoriesByGroup(b)[h] \in Seq(Nat) /\ Others(CategoriesByGroup(b)[h], id) \in Seq(Nat)
  <2>1. CategoriesByGroup(b)[h] \in Seq(Nat)
    BY CardsAre
  <2> QED
    BY <2>1, ColumnAsDropped, OthersAre
<1>2. IndexIn(CategoriesByGroup(d)[slot.group], id)
        = Min({slot.index, Len(Others(CategoriesByGroup(b)[slot.group], id))})
  <2> DEFINE g == slot.group
             rest == Others(CategoriesByGroup(b)[g], id)
             t == Inserted(rest, slot.index, id)
  <2>1. PICK k : k = Min({slot.index, Len(rest)})
    OBVIOUS
  <2>2. CategoriesByGroup(d)[g] = t /\ rest \in Seq(Nat) /\ t = Dropped(b, id, slot, g)
    BY <1>1 DEF Dropped
  <2>3. t \in Seq(Nat) /\ EachOnce(t)
    BY <1>0, <2>2, DroppedIs
  <2> HIDE DEF rest
  <2>4. InsertedAt(t, rest, k, id)
    BY <1>0, <2>1, <2>2, InsertedIs
  <2> HIDE DEF t
  <2>5. k \in Nat /\ k + 1 \in 1 .. Len(t) /\ t[k + 1] = id
    BY <2>2, <2>4 DEF InsertedAt
  <2>6. id \in ToSet(t)
    BY <2>3, <2>5, InSequence
  <2>7. IndexIn(t, id) \in 0 .. Len(t) /\ IndexIn(t, id) < Len(t) /\ t[IndexIn(t, id) + 1] = id
    BY <2>3, <2>6, FirstPlace
  <2>8. IndexIn(t, id) + 1 = k + 1
    BY <2>3, <2>5, <2>7 DEF EachOnce
  <2>9. IndexIn(t, id) = k
    BY <2>5, <2>7, <2>8
  <2> QED
    BY <2>1, <2>2, <2>9 DEF rest
<1>3. ASSUME NEW h \in DOMAIN b.groups, NEW x \in DOMAIN b.cats \ {id}, NEW y \in DOMAIN b.cats \ {id}
      PROVE  AboveIn(CategoriesByGroup(b)[h], x, y) <=> AboveIn(CategoriesByGroup(d)[h], x, y)
  <2> DEFINE s == CategoriesByGroup(b)[h]
             rest == Others(s, id)
  <2>1. s \in Seq(Nat) /\ rest \in Seq(Nat) /\ CategoriesByGroup(d)[h] = Dropped(b, id, slot, h)
    BY <1>1
  <2>2. Dropped(b, id, slot, h) = IF h = slot.group THEN Inserted(rest, slot.index, id) ELSE rest
    BY DEF Dropped
  <2> HIDE DEF s
  <2>3. AboveIn(s, x, y) <=> AboveIn(rest, x, y)
    BY <2>1, OthersAbove
  <2> HIDE DEF rest
  <2>4. AboveIn(rest, x, y) <=> AboveIn(Inserted(rest, slot.index, id), x, y)
    BY <1>0, <2>1, InsertedAbove
  <2> QED
    BY <2>1, <2>2, <2>3, <2>4 DEF s
<1> QED
  BY <1>2, <1>3

\* What a move that is asked for does to the board.
Lands(c) ==
    LET g     == c.slot.group
        cards == CategoriesByGroup(board')[g]
        rest  == Others(CategoriesByGroup(board)[g], c.card)
    IN  /\ IndexIn(cards, c.card) = Min({c.slot.index, Len(rest)})
        /\ \A h \in DOMAIN board.groups, x, y \in DOMAIN board.cats \ {c.card} :
              Above(board, h, x, y) <=> Above(board', h, x, y)

LEMMA AboveIs ==
    ASSUME NEW b, IsBoard(b), NEW h \in DOMAIN b.groups, NEW x, NEW y
    PROVE  Above(b, h, x, y) <=> AboveIn(CategoriesByGroup(b)[h], x, y)
<1> DEFINE s == CategoriesByGroup(b)[h]
<1>1. s \in Seq(Nat)
  BY CardsAre
<1>2. Above(b, h, x, y) <=> \E m, n \in DOMAIN s : m < n /\ s[m] = x /\ s[n] = y
  BY DEF Above
<1> HIDE DEF s
<1>3. DOMAIN s = 1 .. Len(s)
  BY <1>1
<1> QED
  BY <1>2, <1>3 DEF AboveIn, s

LEMMA MoveLands ==
    ASSUME BoardInv, NEW id \in DOMAIN board.cats, NEW slot \in Slot, slot.group \in DOMAIN board.groups,
           NEW target \in Nat, MoveCategory(id, slot, target), IsBoard(board'),
           NEW c \in boardCalls' \ boardCalls
    PROVE  Lands(c)
<1> DEFINE patch == MovedBy(board, id, slot, target)
           ids   == OrderedIds(board, id, slot)
           q     == [to |-> "patch", id |-> id, patch |-> patch]
           r     == [to |-> "reorder", ids |-> ids]
           rs    == IF patch = NoPatch THEN <<r>> ELSE <<q, r>>
           k     == CallMove(rs, id, slot, target # 0)
           d     == CardsMoved(board, id, patch, ids)
<1>1. board' = d /\ boardCalls' = boardCalls \cup {k}
  BY DEF MoveCategory, MovedBy, CardsMoved, CallMove, Start
<1>2. k.card = id /\ k.slot = slot
  BY DEF CallMove, Call
<1>3. c.card = id /\ c.slot = slot
  <2> HIDE DEF k
  <2> QED
    BY <1>1, <1>2
<1>4. IsBoard(board) /\ patch \in Patches
  BY MovedByIs DEF BoardInv, BoardTyped
<1>5. Given(patch.group, board.cats[id].group) = slot.group
  BY NoneOut DEF MovedBy, NoPatch, Given, Slot
<1> HIDE DEF patch, k
<1>6. d = CardsMoved(board, id, patch, ids) /\ ids = OrderedIds(board, id, slot)
  OBVIOUS
<1> HIDE DEF d, ids
<1>7. /\ IndexIn(CategoriesByGroup(d)[slot.group], id)
            = Min({slot.index, Len(Others(CategoriesByGroup(board)[slot.group], id))})
      /\ \A h \in DOMAIN board.groups, x, y \in DOMAIN board.cats \ {id} :
            AboveIn(CategoriesByGroup(board)[h], x, y) <=> AboveIn(CategoriesByGroup(d)[h], x, y)
  BY <1>4, <1>5, <1>6, CardLands
<1>8. ASSUME NEW h \in DOMAIN board.groups, NEW x \in DOMAIN board.cats \ {id}, NEW y \in DOMAIN board.cats \ {id}
      PROVE  Above(board, h, x, y) <=> Above(d, h, x, y)
  <2>1. IsBoard(d) /\ h \in DOMAIN d.groups
    BY <1>1, <1>4, <1>5, <1>6, ColumnAsDropped
  <2>2. Above(board, h, x, y) <=> AboveIn(CategoriesByGroup(board)[h], x, y)
    BY <1>4, AboveIs
  <2>3. Above(d, h, x, y) <=> AboveIn(CategoriesByGroup(d)[h], x, y)
    BY <2>1, AboveIs
  <2> QED
    BY <1>7, <2>2, <2>3
<1> QED
  BY <1>1, <1>3, <1>7, <1>8 DEF Lands

\* Calls from dialogs are no moves.
LEMMA DialogsAsk ==
    ASSUME BoardDialogs, NEW c \in boardCalls' \ boardCalls
    PROVE  c.op # "move"
<1>1. ASSUME NEW op, NEW requests, Start(Call(op, requests)), op # "move" PROVE c.op # "move"
  <2>1. c = Call(op, requests)
    BY <1>1 DEF Start
  <2> QED
    BY <1>1, <2>1, CallIs DEF Begun
<1>2. ASSUME NEW op, NEW requests, NEW b, Start(CallBefore(op, requests, b)), op # "move" PROVE c.op # "move"
  <2>1. c = CallBefore(op, requests, b)
    BY <1>2 DEF Start
  <2>2. Begun(CallBefore(op, requests, b), op, requests)
    BY CallIs
  <2>3. c.op = op
    BY <2>1, <2>2 DEF Begun
  <2> QED
    BY <1>2, <2>3
<1>3. ASSUME NEW g, NEW target, CreateCategory(g, target) PROVE c.op # "move"
  <2>1. Start(CallBefore("createCategory", <<[to |-> "create", group |-> g, target |-> target]>>, board))
    BY <1>3 DEF CreateCategory, CallBefore
  <2> QED
    BY <1>2, <2>1
<1>4. ASSUME NEW id, NEW patch, PatchCategory(id, patch) PROVE c.op # "move"
  <2>1. \E requests : Start(Call("patchCategory", requests))
    BY <1>4 DEF PatchCategory
  <2> QED
    BY <1>1, <2>1
<1>5. ASSUME NEW id, DeleteCard(id) PROVE c.op # "move"
  BY <1>1, <1>5 DEF DeleteCard
<1>6. ASSUME NEW kind, CreateGroup(kind) PROVE c.op # "move"
  <2>1. Start(CallBefore("createGroup", <<[to |-> "createGroup", kind |-> kind]>>, board))
    BY <1>6 DEF CreateGroup, CallBefore
  <2> QED
    BY <1>2, <2>1
<1>7. ASSUME NEW g, NEW kind, PatchGroup(g, kind) PROVE c.op # "move"
  BY <1>1, <1>7 DEF PatchGroup
<1>8. ASSUME NEW g, DeleteGroup(g) PROVE c.op # "move"
  BY <1>1, <1>8 DEF DeleteGroup
<1> QED
  BY <1>3, <1>4, <1>5, <1>6, <1>7, <1>8 DEF BoardDialogs

LEMMA DropsKeepPlace ==
    ASSUME BoardInv, BoardNext, BoardInv', boardAsked' > boardAsked,
           NEW c \in boardCalls' \ boardCalls, c.op = "move"
    PROVE  Lands(c)
<1>1. boardAsked \in Nat /\ IsBoard(board')
  BY DEF BoardInv, BoardTyped
<1>2. boardAsked' # boardAsked
  BY <1>1
<1>3. CASE BoardDialogs
  BY <1>3, DialogsAsk
<1>4. CASE DropCard
  <2>1. /\ cardDrag # None /\ cardDrag.kind = "card" /\ cardDrag.id \in DOMAIN board.cats
        /\ cardDrag.over.group \in DOMAIN board.groups /\ MoveCategory(cardDrag.id, cardDrag.over, 0)
    BY <1>2, <1>4 DEF DropCard
  <2>2. cardDrag.over \in Slot
    BY <2>1 DEF BoardInv, BoardTyped, DragTyped
  <2> QED
    BY <1>1, <2>1, <2>2, MoveLands
<1>5. CASE ApplyGoal(1)
  <2>1. /\ goalPrompt # None /\ goalPrompt.card \in DOMAIN board.cats
        /\ goalPrompt.slot.group \in DOMAIN board.groups /\ MoveCategory(goalPrompt.card, goalPrompt.slot, 1)
    BY <1>5 DEF ApplyGoal
  <2>2. goalPrompt.slot \in Slot
    BY <2>1 DEF BoardInv, BoardTyped, PromptTyped
  <2> QED
    BY <1>1, <2>1, <2>2, MoveLands
<1>6. CASE DropColumn
  <2>1. \E requests : Start(Call("reorderGroups", requests))
    BY <1>6 DEF DropColumn, ReorderGroups
  <2>2. PICK requests : c = Call("reorderGroups", requests)
    BY <2>1 DEF Start
  <2> QED
    BY <2>2, CallIs DEF Begun
<1>7. CASE BoardDragging /\ ~DropCard /\ ~DropColumn /\ ~ApplyGoal(1)
  <2>1. boardAsked' = boardAsked
    BY <1>7 DEF BoardDragging, BeginDrag, DragOver, EndDrag, CloseGoal
  <2> QED
    BY <1>2, <2>1
<1>8. ASSUME NEW k \in boardCalls,
             BoardAccepts(k) \/ BoardRefuses(k) \/ BoardAnswerLost(k) \/ BoardAnswer(k) \/ BoardFailure(k)
      PROVE  FALSE
  <2>1. boardAsked' = boardAsked
    BY <1>8 DEF BoardAccepts, BoardRefuses, BoardAnswerLost, BoardAnswer, BoardFailure, Settle
  <2> QED
    BY <1>2, <2>1
<1> QED
  BY <1>3, <1>4, <1>5, <1>6, <1>7, <1>8 DEF BoardNext

\* A dropped card comes where its slot was drawn, whatever else is under way, and
\* every other card stays in its column, above and below the same cards (onUp,
\* moveCategory).
THEOREM DropsLand == BoardSpec => DropLandsInSlot
<1> DEFINE A == \A c \in boardCalls' \ boardCalls :
                   c.op = "move" /\ c.n = boardAsked /\ boardAsked' > boardAsked => Lands(c)
<1>1. BoardInv /\ [BoardNext]_boardVars => BoardInv'
  BY BoardKept
<1>2. BoardInv /\ BoardInv' /\ [BoardNext]_boardVars => [A]_boardVars
  BY DropsKeepPlace
<1>3. [A]_boardVars => [\A c \in boardCalls' \ boardCalls :
         c.op = "move" /\ c.n = boardAsked /\ boardAsked' > boardAsked =>
           LET g     == c.slot.group
               cards == CategoriesByGroup(board')[g]
               rest  == Others(CategoriesByGroup(board)[g], c.card)
           IN  /\ IndexIn(cards, c.card) = Min({c.slot.index, Len(rest)})
               /\ \A h \in DOMAIN board.groups, x, y \in DOMAIN board.cats \ {c.card} :
                     Above(board, h, x, y) <=> Above(board', h, x, y)]_boardVars
  BY DEF Lands
<1>4. BoardInit => BoardInv
  BY BoardStarts
<1> HIDE DEF A
<1> QED
  BY <1>1, <1>2, <1>3, <1>4, PTL DEF BoardSpec, DropLandsInSlot
=============================================================================
