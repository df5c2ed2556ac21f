------------------------------ MODULE Recursion ------------------------------
(***************************************************************************)
(* Least elements, induction, and recursive definitions, for the functions  *)
(* of this project that search, loop or call themselves.  The statements    *)
(* speak of sets and functions only, never of operators, so that they can   *)
(* be cited for any definition: an induction proves that a set holds all of *)
(* another, a recursion that a functional has a fixed point.  And what the  *)
(* functions that read a text need: its rest behind a piece it begins with.  *)
(***************************************************************************)
EXTENDS CText, FiniteSetsExt, SequenceTheorems, WellFoundedInduction, TLAPS

(* A set of naturals has a least element, which Min chooses.                *)
LEMMA MinIsLeast ==
  ASSUME NEW S \in SUBSET Nat, S # {}
  PROVE  Min(S) \in S /\ \A y \in S : Min(S) <= y
  <1> DEFINE Less == OpToRel(<, Nat)
  <1>1. \A x, y \in Nat : x < y => <<x, y>> \in Less
    BY DEF OpToRel
  <1>2. IsWellFoundedOn(Less, Nat)
    BY NatLessThanWellFounded
  <1> HIDE DEF Less
  <1>3. PICK x \in S : \A y \in S : <<y, x>> \notin Less
    BY <1>2, WFMin
  <1>4. ASSUME NEW y \in S PROVE x <= y
    <2>1. x \in Nat /\ y \in Nat /\ ~(y < x)
      BY <1>1, <1>3
    <2>. QED
      BY <2>1
  <1>. QED
    BY <1>3, <1>4 DEF Min

(* A set that has 0, and n + 1 whenever it has n, has all naturals.          *)
THEOREM SetInduction ==
    ASSUME NEW G, 0 \in G, \A n \in Nat : n \in G => n + 1 \in G
    PROVE  Nat \subseteq G
  <1> DEFINE Less == OpToRel(<, Nat)
             Gap == Nat \ G
  <1>1. \A x, y \in Nat : x < y => <<x, y>> \in Less
    BY DEF OpToRel
  <1>2. IsWellFoundedOn(Less, Nat)
    BY NatLessThanWellFounded
  <1> HIDE DEF Less
  <1>3. SUFFICES ASSUME Gap # {} PROVE FALSE
    OBVIOUS
  <1>4. PICK x \in Gap : \A y \in Gap : <<y, x>> \notin Less
    BY <1>2, <1>3, WFMin
  <1>5. x \in Nat /\ x # 0
    BY <1>4
  <1>6. x - 1 \in Nat /\ <<x - 1, x>> \in Less
    BY <1>1, <1>5
  <1>7. x - 1 \in G
    BY <1>4, <1>6
  <1>. QED
    BY <1>4, <1>5, <1>6, <1>7

(* What holds of x if it holds of all of lower rank holds of all.           *)
THEOREM RankInduction ==
    ASSUME NEW S, NEW rank \in [S -> Nat], NEW G,
           \A x \in S : (\A y \in S : rank[y] < rank[x] => y \in G) => x \in G
    PROVE  S \subseteq G
  <1> DEFINE H == {n \in Nat : \A x \in S : rank[x] < n => x \in G}
  <1>1. 0 \in H
    OBVIOUS
  <1>2. ASSUME NEW n \in Nat, n \in H PROVE n + 1 \in H
    <2>1. ASSUME NEW x \in S, rank[x] < n + 1 PROVE x \in G
      <3>1. \A y \in S : rank[y] < rank[x] => y \in G
        <4>1. rank[x] \in Nat /\ rank[x] <= n
          BY <2>1
        <4>2. \A y \in S : rank[y] < rank[x] => rank[y] < n
          BY <4>1
        <4>. QED
          BY <1>2, <4>2
      <3>. QED
        BY <2>1, <3>1
    <2>. QED
      BY <2>1
  <1> HIDE DEF H
  <1>3. Nat \subseteq H
    BY <1>1, <1>2, SetInduction
  <1>4. ASSUME NEW x \in S PROVE x \in G
    <2>1. rank[x] \in Nat /\ rank[x] + 1 \in H
      BY <1>3
    <2>. QED
      BY <2>1 DEF H
  <1>. QED
    BY <1>4

(* D makes of a function from S to T another; its value at x is found from  *)
(* the values at elements of lower rank.                                    *)
OnLowerRank(S, T, rank, D) ==
    /\ rank \in [S -> Nat] /\ D \in [[S -> T] -> [S -> T]] /\ T # {}
    /\ \A g, h \in [S -> T], x \in S :
          (\A y \in S : rank[y] < rank[x] => g[y] = h[y]) => D[g][x] = D[h][x]

(* A recursion in which the value at x depends on values of lower rank only *)
(* defines a function.                                                     *)
THEOREM FixedPoint ==
    ASSUME NEW S, NEW T, NEW rank, NEW D, OnLowerRank(S, T, rank, D)
    PROVE  \E f \in [S -> T] : f = D[f]
  <1> USE DEF OnLowerRank
  <1> DEFINE Upto(g, n) == \A x \in S : rank[x] < n => D[g][x] = g[x]
             H == {n \in Nat : \E g \in [S -> T] : Upto(g, n)}
  <1>1. ASSUME NEW g \in [S -> T], NEW h \in [S -> T], NEW n \in Nat, Upto(g, n), Upto(h, n)
        PROVE  \A x \in S : rank[x] < n => g[x] = h[x]
    <2> DEFINE G == {x \in S : rank[x] < n => g[x] = h[x]}
    <2>1. ASSUME NEW x \in S, \A y \in S : rank[y] < rank[x] => y \in G PROVE x \in G
      <3>1. CASE rank[x] < n
        <4>1. \A y \in S : rank[y] < rank[x] => g[y] = h[y]
          <5>1. \A y \in S : rank[y] \in Nat
            OBVIOUS
          <5>. QED
            BY <2>1, <3>1, <5>1
        <4>2. D[g][x] = D[h][x]
          BY <4>1
        <4>. QED
          BY <1>1, <3>1, <4>2
      <3>. QED
        BY <3>1
    <2> HIDE DEF G
    <2>2. S \subseteq G
      BY <2>1, RankInduction
    <2>. QED
      BY <2>2 DEF G
  <1>2. 0 \in H
    <2>1. PICK t \in T : TRUE
      OBVIOUS
    <2>2. [x \in S |-> t] \in [S -> T]
      BY <2>1
    <2>3. Upto([x \in S |-> t], 0)
      OBVIOUS
    <2>. QED
      BY <2>2, <2>3
  <1>3. ASSUME NEW n \in Nat, n \in H PROVE n + 1 \in H
    <2>1. PICK g \in [S -> T] : Upto(g, n)
      BY <1>3
    <2>2. D[g] \in [S -> T]
      OBVIOUS
    <2>3. ASSUME NEW x \in S, rank[x] < n + 1 PROVE D[D[g]][x] = D[g][x]
      <3>1. \A y \in S : rank[y] < rank[x] => rank[y] < n
        BY <2>3
      <3>2. \A y \in S : rank[y] < rank[x] => D[g][y] = g[y]
        BY <2>1, <3>1
      <3>. QED
        BY <2>2, <3>2
    <2>. QED
      BY <2>2, <2>3
  <1>4. Nat \subseteq H
    <2> HIDE DEF H
    <2>. QED
      BY <1>2, <1>3, SetInduction
  <1>5. PICK c \in [Nat -> [S -> T]] : \A n \in Nat : Upto(c[n], n)
    <2> DEFINE c == [n \in Nat |-> CHOOSE g \in [S -> T] : Upto(g, n)]
    <2>1. ASSUME NEW n \in Nat PROVE c[n] \in [S -> T] /\ Upto(c[n], n)
      <3>1. \E g \in [S -> T] : Upto(g, n)
        BY <1>4
      <3> HIDE DEF Upto
      <3>2. (CHOOSE g \in [S -> T] : Upto(g, n)) \in [S -> T]
            /\ Upto(CHOOSE g \in [S -> T] : Upto(g, n), n)
        BY <3>1
      <3>. QED
        BY <3>2
    <2> HIDE DEF Upto
    <2>. QED
      BY <2>1
  <1> DEFINE f == [x \in S |-> c[rank[x] + 1][x]]
  <1>6. f \in [S -> T]
    OBVIOUS
  <1>7. ASSUME NEW x \in S PROVE D[f][x] = f[x]
    <2> DEFINE r == rank[x] + 1
    <2>1. r \in Nat /\ c[r] \in [S -> T] /\ Upto(c[r], r)
      BY <1>5
    <2>2. ASSUME NEW y \in S, rank[y] < rank[x] PROVE f[y] = c[r][y]
      <3> DEFINE q == rank[y] + 1
      <3>1. q \in Nat /\ q <= r /\ c[q] \in [S -> T] /\ Upto(c[q], q)
        BY <1>5, <2>2
      <3>2. Upto(c[r], q)
        BY <2>1, <3>1
      <3>3. rank[y] < q
        OBVIOUS
      <3> HIDE DEF Upto, q, r
      <3>4. c[q][y] = c[r][y]
        BY <1>1, <2>1, <3>1, <3>2, <3>3
      <3>. QED
        BY <3>4 DEF q
    <2>3. D[f][x] = D[c[r]][x]
      BY <1>6, <2>1, <2>2
    <2>4. D[c[r]][x] = c[r][x]
      BY <2>1
    <2>. QED
      BY <2>3, <2>4
  <1>8. D[f] = f
    <2>1. D[f] \in [S -> T]
      BY <1>6
    <2> HIDE DEF f
    <2>. QED
      BY <1>6, <1>7, <2>1
  <1>. QED
    BY <1>6, <1>8

(* A loop starts from b, and its i-th turn makes of a value of T another.    *)
IsLoop(n, T, b, turn) == n \in Nat /\ b \in T /\ turn \in [1..n -> [T -> T]]

(* Its values after 0 to n turns.                                            *)
AreValues(f, n, T, b, turn) ==
    f \in [0..n -> T] /\ f[0] = b /\ \A i \in 1..n : f[i] = turn[i][f[i - 1]]

(* A loop has a value after every turn.                                     *)
THEOREM LoopHasValues ==
    ASSUME NEW n, NEW T, NEW b, NEW turn, IsLoop(n, T, b, turn)
    PROVE  \E f : AreValues(f, n, T, b, turn)
  <1> USE DEF IsLoop
  <1> DEFINE S == 0..n
             rank == [i \in S |-> i]
             Body(g) == [i \in S |-> IF i = 0 THEN b ELSE turn[i][g[i - 1]]]
             D == [g \in [S -> T] |-> Body(g)]
  <1>1. rank \in [S -> Nat] /\ T # {}
    OBVIOUS
  <1>2. ASSUME NEW g \in [S -> T] PROVE Body(g) \in [S -> T]
    <2>1. ASSUME NEW i \in S, i # 0 PROVE turn[i][g[i - 1]] \in T
      <3>1. i - 1 \in S /\ i \in 1..n
        BY <2>1
      <3>. QED
        BY <3>1
    <2>. QED
      BY <2>1
  <1>3. D \in [[S -> T] -> [S -> T]]
    BY <1>2
  <1>4. OnLowerRank(S, T, rank, D)
    <2>1. ASSUME NEW g \in [S -> T], NEW h \in [S -> T], NEW x \in S,
                 \A y \in S : rank[y] < rank[x] => g[y] = h[y]
          PROVE  D[g][x] = D[h][x]
      <3>1. x = 0 \/ (x - 1 \in S /\ rank[x - 1] < rank[x])
        OBVIOUS
      <3>. QED
        BY <2>1, <3>1
    <2>. QED
      BY <1>1, <1>3, <2>1 DEF OnLowerRank
  <1>5. PICK f \in [S -> T] : f = D[f]
    <2> HIDE DEF S, rank, Body, D
    <2>. QED
      BY <1>4, FixedPoint
  <1>6. f = Body(f)
    BY <1>5
  <1>7. f[0] = b /\ \A i \in 1..n : f[i] = turn[i][f[i - 1]]
    BY <1>6
  <1>. QED
    BY <1>5, <1>7 DEF AreValues

(* Two loops start from one value, and their turns agree on equal values.    *)
TurnsAgree(n, f, g) ==
    /\ n \in Nat /\ f = [i \in 0..n |-> f[i]] /\ g = [i \in 0..n |-> g[i]]
    /\ f[0] = g[0] /\ \A i \in 1..n : f[i - 1] = g[i - 1] => f[i] = g[i]

(* They have the same values.                                              *)
THEOREM LoopsAgree ==
    ASSUME NEW n, NEW f, NEW g, TurnsAgree(n, f, g)
    PROVE  f = g
  <1> USE DEF TurnsAgree
  <1> DEFINE G == {k \in Nat : k <= n => f[k] = g[k]}
  <1>1. 0 \in G
    OBVIOUS
  <1>2. ASSUME NEW k \in Nat, k \in G PROVE k + 1 \in G
    <2>1. ASSUME k + 1 <= n PROVE f[k + 1] = g[k + 1]
      <3>1. k + 1 \in 1..n /\ (k + 1) - 1 = k /\ f[k] = g[k]
        BY <1>2, <2>1
      <3>. QED
        BY <3>1
    <2>. QED
      BY <2>1
  <1> HIDE DEF G
  <1>3. Nat \subseteq G
    BY <1>1, <1>2, SetInduction
  <1>4. \A i \in 0..n : f[i] = g[i]
    BY <1>3 DEF G
  <1>. QED
    BY <1>4
-----------------------------------------------------------------------------
(* What is left of a sequence behind some of its elements.                   *)
LEMMA FromIs ==
  ASSUME NEW S, NEW s \in Seq(S), NEW i \in 1..(Len(s) + 1)
  PROVE  /\ From(s, i) \in Seq(S)
         /\ Len(From(s, i)) = Len(s) + 1 - i
         /\ \A j \in 1..Len(From(s, i)) : From(s, i)[j] = s[i + j - 1]
  <1>1. Len(s) \in Nat
    BY LenProperties
  <1>2. \A j \in i..Len(s) : s[j] \in S
    BY <1>1, ElementOfSeq
  <1>3. i \in Int /\ Len(s) \in Int
    BY <1>1
  <1>4. /\ SubSeq(s, i, Len(s)) \in Seq(S)
        /\ Len(SubSeq(s, i, Len(s))) = IF i <= Len(s) THEN Len(s) - i + 1 ELSE 0
        /\ \A j \in 1..(Len(s) - i + 1) : SubSeq(s, i, Len(s))[j] = s[i + j - 1]
    BY <1>2, <1>3, SubSeqProperties
  <1>5. Len(s) - i + 1 = Len(s) + 1 - i
    BY <1>1
  <1>. QED
    BY <1>1, <1>4, <1>5 DEF From

LEMMA FromConcat ==
  ASSUME NEW S, NEW s \in Seq(S), NEW q \in Seq(S)
  PROVE  From(s \o q, Len(s) + 1) = q
  <1>1. Len(s) \in Nat /\ Len(q) \in Nat
    BY LenProperties
  <1>2. /\ s \o q \in Seq(S) /\ Len(s \o q) = Len(s) + Len(q)
        /\ \A i \in 1..(Len(s) + Len(q)) :
              (s \o q)[i] = IF i <= Len(s) THEN s[i] ELSE q[i - Len(s)]
    BY ConcatProperties
  <1> DEFINE c == s \o q
             k == Len(s) + 1
             r == From(c, k)
  <1>3. k \in 1..(Len(c) + 1)
    BY <1>1, <1>2
  <1>4. c \in Seq(S)
    BY <1>2
  <1> HIDE DEF k, c
  <1>5. r \in Seq(S) /\ Len(r) = Len(c) + 1 - k /\ \A j \in 1..Len(r) : r[j] = c[k + j - 1]
    BY <1>3, <1>4, FromIs
  <1> HIDE DEF r
  <1>6. Len(r) = Len(q)
    BY <1>1, <1>2, <1>5 DEF k, c
  <1>7. ASSUME NEW j \in 1..Len(q) PROVE r[j] = q[j]
    <2>1. k + j - 1 = Len(s) + j /\ Len(s) + j \in 1..(Len(s) + Len(q))
      BY <1>1 DEF k
    <2>2. ~(Len(s) + j <= Len(s)) /\ (Len(s) + j) - Len(s) = j
      BY <1>1
    <2>3. c[Len(s) + j] = q[j]
      BY <1>2, <2>1, <2>2 DEF c
    <2>. QED
      BY <1>5, <1>6, <2>1, <2>3
  <1>. QED
    BY <1>5, <1>6, <1>7, SeqEqual DEF r, k, c

(* A sequence is its head and its tail.                                     *)
LEMMA HeadAndTail ==
  ASSUME NEW S, NEW s \in Seq(S), s # <<>>
  PROVE  s = <<Head(s)>> \o Tail(s) /\ Head(s) \in S /\ Tail(s) \in Seq(S)
  <1>1. /\ Head(s) \in S /\ Tail(s) \in Seq(S) /\ Head(s) = s[1]
        /\ Len(Tail(s)) = Len(s) - 1 /\ \A i \in 1..Len(Tail(s)) : Tail(s)[i] = s[i + 1]
    BY HeadTailProperties
  <1>2. Len(s) \in Nat \ {0}
    BY EmptySeq
  <1> DEFINE h == <<Head(s)>>
             v == Tail(s)
             r == h \o v
  <1>3. h \in Seq(S) /\ Len(h) = 1 /\ h[1] = s[1]
    BY <1>1
  <1>4. v \in Seq(S) /\ Len(v) = Len(s) - 1 /\ \A i \in 1..Len(v) : v[i] = s[i + 1]
    BY <1>1
  <1> HIDE DEF h, v
  <1>5. /\ r \in Seq(S) /\ Len(r) = 1 + Len(v)
        /\ \A i \in 1..(1 + Len(v)) : r[i] = IF i <= 1 THEN h[i] ELSE v[i - 1]
    <2>1. /\ r \in Seq(S) /\ Len(r) = Len(h) + Len(v)
          /\ \A i \in 1..(Len(h) + Len(v)) :
                r[i] = IF i <= Len(h) THEN h[i] ELSE v[i - Len(h)]
      <3>1. h \in Seq(S) /\ v \in Seq(S)
        BY <1>3, <1>4
      <3>. QED
        BY <3>1, ConcatProperties, Zenon
    <2>. QED
      BY <1>3, <2>1
  <1>6. Len(r) = Len(s)
    BY <1>2, <1>4, <1>5
  <1>7. ASSUME NEW i \in 1..Len(s) PROVE r[i] = s[i]
    <2>1. i = 1 \/ (i - 1 \in 1..Len(v) /\ (i - 1) + 1 = i /\ ~(i <= 1))
      BY <1>2, <1>4
    <2>2. i \in 1..(1 + Len(v)) /\ (i = 1 => i <= 1)
      BY <1>2, <1>4
    <2>. QED
      BY <1>3, <1>4, <1>5, <2>1, <2>2
  <1> HIDE DEF r
  <1>8. r = s
    BY <1>5, <1>6, <1>7, SeqEqual
  <1>. QED
    BY <1>1, <1>8 DEF r, h, v

(* One element in front of a sequence.                                     *)
LEMMA Prefixed ==
  ASSUME NEW S, NEW x \in S, NEW s \in Seq(S), NEW r \in Seq(S),
         Len(r) = Len(s) + 1, r[1] = x, \A i \in 1..Len(s) : r[i + 1] = s[i]
  PROVE  <<x>> \o s = r
  <1> DEFINE l == <<x>>
             c == l \o s
  <1>1. l \in Seq(S) /\ Len(l) = 1 /\ l[1] = x
    OBVIOUS
  <1> HIDE DEF l
  <1>2. /\ c \in Seq(S) /\ Len(c) = Len(l) + Len(s)
        /\ \A i \in 1..(Len(l) + Len(s)) :
              c[i] = IF i <= Len(l) THEN l[i] ELSE s[i - Len(l)]
    BY <1>1, ConcatProperties
  <1>3. Len(s) \in Nat
    BY LenProperties
  <1> HIDE DEF c
  <1>4. Len(c) = Len(r)
    BY <1>1, <1>2, <1>3
  <1>5. ASSUME NEW i \in 1..Len(c) PROVE c[i] = r[i]
    <2>1. i \in 1..(Len(l) + Len(s))
      BY <1>2
    <2>2. i = 1 => i <= Len(l)
      BY <1>1
    <2>3. i # 1 => ~(i <= Len(l)) /\ i - Len(l) \in 1..Len(s) /\ (i - Len(l)) + 1 = i
      BY <1>1, <1>2, <1>3
    <2>. QED
      BY <1>1, <1>2, <2>1, <2>2, <2>3
  <1>6. c = r
    BY <1>2, <1>4, <1>5, SeqEqual
  <1>. QED
    BY <1>6 DEF c, l

(* ... and in front of a sequence that is written out.                      *)
LEMMA Prefixed1 ==
  ASSUME NEW x, NEW y
  PROVE  <<x>> \o <<y>> = <<x, y>>
  <1> DEFINE S == {x, y}
             s == <<y>>
             r == <<x, y>>
  <1>1. x \in S /\ s \in Seq(S) /\ r \in Seq(S)
    OBVIOUS
  <1>2. Len(s) = 1 /\ Len(r) = Len(s) + 1 /\ r[1] = x
    OBVIOUS
  <1>3. r[2] = s[1]
    OBVIOUS
  <1> HIDE DEF S, s, r
  <1>4. \A i \in 1..Len(s) : r[i + 1] = s[i]
    BY <1>2, <1>3
  <1>5. <<x>> \o s = r
    BY <1>1, <1>2, <1>4, Prefixed
  <1>. QED
    BY <1>5 DEF s, r

LEMMA Prefixed2 ==
  ASSUME NEW x, NEW y, NEW z
  PROVE  <<x>> \o <<y, z>> = <<x, y, z>>
  <1> DEFINE S == {x, y, z}
             s == <<y, z>>
             r == <<x, y, z>>
  <1>1. x \in S /\ s \in Seq(S) /\ r \in Seq(S)
    OBVIOUS
  <1>2. Len(s) = 2 /\ Len(r) = Len(s) + 1 /\ r[1] = x
    OBVIOUS
  <1>3. r[2] = s[1] /\ r[3] = s[2]
    OBVIOUS
  <1> HIDE DEF S, s, r
  <1>4. \A i \in 1..Len(s) : r[i + 1] = s[i]
    BY <1>2, <1>3
  <1>5. <<x>> \o s = r
    BY <1>1, <1>2, <1>4, Prefixed
  <1>. QED
    BY <1>5 DEF s, r

LEMMA Prefixed3 ==
  ASSUME NEW x, NEW y, NEW z, NEW v
  PROVE  <<x>> \o <<y, z, v>> = <<x, y, z, v>>
  <1> DEFINE S == {x, y, z, v}
             s == <<y, z, v>>
             r == <<x, y, z, v>>
  <1>1. x \in S /\ s \in Seq(S) /\ r \in Seq(S)
    OBVIOUS
  <1>2. Len(s) = 3 /\ Len(r) = Len(s) + 1 /\ r[1] = x
    OBVIOUS
  <1>3. r[2] = s[1] /\ r[3] = s[2] /\ r[4] = s[3]
    OBVIOUS
  <1> HIDE DEF S, s, r
  <1>4. \A i \in 1..Len(s) : r[i + 1] = s[i]
    BY <1>2, <1>3
  <1>5. <<x>> \o s = r
    BY <1>1, <1>2, <1>4, Prefixed
  <1>. QED
    BY <1>5 DEF s, r

LEMMA Prefixed4 ==
  ASSUME NEW x, NEW y, NEW z, NEW v, NEW w
  PROVE  <<x>> \o <<y, z, v, w>> = <<x, y, z, v, w>>
  <1> DEFINE S == {x, y, z, v, w}
             s == <<y, z, v, w>>
             r == <<x, y, z, v, w>>
  <1>1. x \in S /\ s \in Seq(S) /\ r \in Seq(S)
    OBVIOUS
  <1>2. Len(s) = 4 /\ Len(r) = Len(s) + 1 /\ r[1] = x
    OBVIOUS
  <1>3. r[2] = s[1] /\ r[3] = s[2] /\ r[4] = s[3] /\ r[5] = s[4]
    OBVIOUS
  <1> HIDE DEF S, s, r
  <1>4. \A i \in 1..Len(s) : r[i + 1] = s[i]
    BY <1>2, <1>3
  <1>5. <<x>> \o s = r
    BY <1>1, <1>2, <1>4, Prefixed
  <1>. QED
    BY <1>5 DEF s, r

LEMMA Prefixed5 ==
  ASSUME NEW x, NEW y, NEW z, NEW v, NEW w, NEW u
  PROVE  <<x>> \o <<y, z, v, w, u>> = <<x, y, z, v, w, u>>
  <1> DEFINE S == {x, y, z, v, w, u}
             s == <<y, z, v, w, u>>
             r == <<x, y, z, v, w, u>>
  <1>1. x \in S /\ s \in Seq(S) /\ r \in Seq(S)
    OBVIOUS
  <1>2. Len(s) = 5 /\ Len(r) = Len(s) + 1 /\ r[1] = x
    OBVIOUS
  <1>3. r[2] = s[1] /\ r[3] = s[2] /\ r[4] = s[3] /\ r[5] = s[4] /\ r[6] = s[5]
    OBVIOUS
  <1> HIDE DEF S, s, r
  <1>4. \A i \in 1..Len(s) : r[i + 1] = s[i]
    BY <1>2, <1>3
  <1>5. <<x>> \o s = r
    BY <1>1, <1>2, <1>4, Prefixed
  <1>. QED
    BY <1>5 DEF s, r
=============================================================================
