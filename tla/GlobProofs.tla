----------------------------- MODULE GlobProofs -----------------------------
(***************************************************************************)
(* wildcard_match lets through what its glob stands for, for globs of any   *)
(* number of pieces and texts of any length.                               *)
(***************************************************************************)
EXTENDS GlobInputs, Recursion, SequenceTheorems

(* The characters are the thirteen of the order.                            *)
Letter == {"!", "*", ",", "-", "?", "[", "]", "^", "a", "b", "c", "{", "}"}

LEMMA Letters ==
  /\ DOMAIN CharOrder = 1..13 /\ Len(CharOrder) = 13
  /\ \A i \in 1..13 :
        /\ CharOrder[i] = "a" <=> i = 9
        /\ CharOrder[i] = "b" <=> i = 10
        /\ CharOrder[i] = "c" <=> i = 11
  /\ ToSet(CharOrder) = Letter
  <1>1. DOMAIN CharOrder = 1..13 /\ Len(CharOrder) = 13
    BY DEF CharOrder
  <1>2. \A i \in 1..13 : i \in {1, 2, 3, 4, 5, 6, 7, 8, 9, 10, 11, 12, 13}
    OBVIOUS
  <1>3. /\ CharOrder[1] = "!" /\ CharOrder[2] = "*" /\ CharOrder[3] = ","
        /\ CharOrder[4] = "-" /\ CharOrder[5] = "?" /\ CharOrder[6] = "["
        /\ CharOrder[7] = "]" /\ CharOrder[8] = "^" /\ CharOrder[9] = "a"
        /\ CharOrder[10] = "b" /\ CharOrder[11] = "c" /\ CharOrder[12] = "{"
        /\ CharOrder[13] = "}"
    BY DEF CharOrder
  <1>4. ASSUME NEW c \in ToSet(CharOrder) PROVE c \in Letter
    <2>1. PICK i \in 1..13 : c = CharOrder[i]
      BY <1>1 DEF ToSet
    <2>. QED
      BY <1>2, <1>3, <2>1 DEF Letter
  <1>5. ASSUME NEW c \in Letter PROVE c \in ToSet(CharOrder)
    <2>1. \A i \in 1..13 : CharOrder[i] \in ToSet(CharOrder)
      BY <1>1 DEF ToSet
    <2>2. /\ 1 \in 1..13 /\ 2 \in 1..13 /\ 3 \in 1..13 /\ 4 \in 1..13 /\ 5 \in 1..13
          /\ 6 \in 1..13 /\ 7 \in 1..13 /\ 8 \in 1..13 /\ 9 \in 1..13 /\ 10 \in 1..13
          /\ 11 \in 1..13 /\ 12 \in 1..13 /\ 13 \in 1..13
      OBVIOUS
    <2>. QED
      BY <1>3, <2>1, <2>2 DEF Letter
  <1>. QED
    BY <1>1, <1>2, <1>3, <1>4, <1>5

(* The order of the letters of a name.                                      *)
LEMMA Codes == Code("a") = 9 /\ Code("b") = 10 /\ Code("c") = 11
  <1>1. /\ {i \in 1..13 : CharOrder[i] = "a"} = {9}
        /\ {i \in 1..13 : CharOrder[i] = "b"} = {10}
        /\ {i \in 1..13 : CharOrder[i] = "c"} = {11}
    BY Letters
  <1>2. \A n \in Nat : Min({n}) = n
    <2>1. ASSUME NEW n \in Nat PROVE Min({n}) = n
      <3>1. {n} \in SUBSET Nat /\ {n} # {}
        OBVIOUS
      <3>. QED
        BY <3>1, MinIsLeast
    <2>. QED
      BY <2>1
  <1>. QED
    BY <1>1, <1>2, Letters DEF Code, SelectInSeq

(* The first place of a character, if all before are others.                *)
LEMMA FirstIs ==
  ASSUME NEW S, NEW s \in Seq(S), NEW c, NEW k \in 1..Len(s),
         s[k] = c, \A i \in 1..(k - 1) : s[i] # c
  PROVE  First(s, c) = k
  <1> DEFINE I == {i \in 1..Len(s) : s[i] = c}
  <1>1. Len(s) \in Nat
    BY LenProperties
  <1>2. I \in SUBSET Nat /\ k \in I /\ \A i \in I : k <= i
    BY <1>1
  <1>3. Min(I) = k
    <2> HIDE DEF I
    <2>1. Min(I) \in I /\ \A i \in I : Min(I) <= i
      BY <1>2, MinIsLeast
    <2>2. Min(I) \in Nat /\ k \in Nat /\ Min(I) <= k /\ k <= Min(I)
      BY <1>2, <2>1
    <2>. QED
      BY <2>2
  <1>. QED
    BY <1>2, <1>3 DEF First, SelectInSeq

LEMMA FirstNone ==
  ASSUME NEW s, NEW c, \A i \in 1..Len(s) : s[i] # c
  PROVE  First(s, c) = 0
  BY DEF First, SelectInSeq

(* What a class comes to from its i-th place on.                            *)
ClassAt(g, c, q, i) ==
  IF i > Len(q) THEN [matched |-> FALSE, next |-> i]
  ELSE IF q[i] = "]" THEN [matched |-> FALSE, next |-> i + 1]
  ELSE IF i + 2 <= Len(q) /\ q[i + 1] = "-" /\ q[i + 2] # "]"
  THEN [g[i + 3] EXCEPT !.matched = @ \/ InRange(c, q[i], q[i + 2])]
  ELSE [g[i + 1] EXCEPT !.matched = @ \/ c = q[i]]

Verdicts(n) == [matched : BOOLEAN, next : 1..n]

LEMMA ClassIs ==
  ASSUME NEW c, NEW q \in String
  PROVE  \E scan \in [1..(Len(q) + 1) -> Verdicts(Len(q) + 1)] :
            /\ \A i \in 1..(Len(q) + 1) : scan[i] = ClassAt(scan, c, q, i)
            /\ Class(c, q) = scan[1]
  <1> DEFINE n == Len(q) + 1
             S == 1..n
             T == Verdicts(n)
             Body(g) == [i \in S |-> ClassAt(g, c, q, i)]
             rank == [i \in S |-> n - i]
             D == [g \in [S -> T] |-> Body(g)]
  <1>1. Len(q) \in Nat
    BY LenProperties DEF String
  <1>2. ASSUME NEW i \in S
        PROVE  i \in 1..n /\ (~(i > Len(q)) => i + 1 \in S)
               /\ (i + 2 <= Len(q) => i + 3 \in S)
    BY <1>1
  <1>3. ASSUME NEW v \in T, NEW b \in BOOLEAN PROVE [v EXCEPT !.matched = @ \/ b] \in T
    BY DEF Verdicts
  <1>4. ASSUME NEW i \in S PROVE [matched |-> FALSE, next |-> i] \in T
    BY DEF Verdicts
  <1>5. ASSUME NEW g, NEW i \in S, ~(i > Len(q)) => g[i + 1] \in T,
               i + 2 <= Len(q) => g[i + 3] \in T
        PROVE  ClassAt(g, c, q, i) \in T
    <2> HIDE DEF S, T
    <2>1. CASE i > Len(q)
      BY <1>4, <2>1 DEF ClassAt
    <2>2. CASE ~(i > Len(q)) /\ q[i] = "]"
      BY <1>2, <1>4, <2>2 DEF ClassAt
    <2>3. CASE ~(i > Len(q)) /\ q[i] # "]" /\ (i + 2 <= Len(q) /\ q[i + 1] = "-" /\ q[i + 2] # "]")
      <3> DEFINE b == InRange(c, q[i], q[i + 2])
      <3>1. b \in BOOLEAN /\ g[i + 3] \in T
        BY <1>5, <2>3 DEF InRange
      <3>2. [g[i + 3] EXCEPT !.matched = @ \/ b] \in T
        BY <1>3, <3>1
      <3>. QED
        BY <2>3, <3>2 DEF ClassAt
    <2>4. CASE ~(i > Len(q)) /\ q[i] # "]" /\ ~(i + 2 <= Len(q) /\ q[i + 1] = "-" /\ q[i + 2] # "]")
      <3> DEFINE b == c = q[i]
      <3>1. b \in BOOLEAN /\ g[i + 1] \in T
        BY <1>5, <2>4
      <3>2. [g[i + 1] EXCEPT !.matched = @ \/ b] \in T
        BY <1>3, <3>1
      <3>. QED
        BY <2>4, <3>2 DEF ClassAt
    <2>. QED
      BY <2>1, <2>2, <2>3, <2>4
  <1>6. OnLowerRank(S, T, rank, D)
    <2>1. rank \in [S -> Nat] /\ T # {}
      <3>1. 1 \in S /\ rank \in [S -> Nat]
        BY <1>1
      <3> HIDE DEF T
      <3>. QED
        BY <1>4, <3>1
    <2>2. D \in [[S -> T] -> [S -> T]]
      <3>1. ASSUME NEW g \in [S -> T], NEW i \in S PROVE ClassAt(g, c, q, i) \in T
        <4> HIDE DEF S, T
        <4>. QED
          BY <1>2, <1>5
      <3> HIDE DEF S, T
      <3>. QED
        BY <3>1
    <2>3. ASSUME NEW g \in [S -> T], NEW h \in [S -> T], NEW i \in S,
                 \A y \in S : rank[y] < rank[i] => g[y] = h[y]
          PROVE  D[g][i] = D[h][i]
      <3>1. ~(i > Len(q)) => g[i + 1] = h[i + 1]
        BY <1>1, <1>2, <2>3
      <3>2. i + 2 <= Len(q) => g[i + 3] = h[i + 3]
        BY <1>1, <1>2, <2>3
      <3>3. ClassAt(g, c, q, i) = ClassAt(h, c, q, i)
        BY <3>1, <3>2 DEF ClassAt
      <3> HIDE DEF S, T
      <3>. QED
        BY <3>3
    <2> HIDE DEF S, T, rank, D
    <2>. QED
      BY <2>1, <2>2, <2>3 DEF OnLowerRank
  <1>7. PICK f \in [S -> T] : f = D[f]
    <2> HIDE DEF S, T, rank, D
    <2>. QED
      BY <1>6, FixedPoint
  <1>8. f = Body(f)
    BY <1>7
  <1> DEFINE scan == CHOOSE g : g = Body(g)
  <1>9. scan = Body(scan)
    <2> HIDE DEF Body
    <2>. QED
      BY <1>8
  <1>10. Class(c, q) = scan[1]
    BY DEF Class, ClassAt
  <1> HIDE DEF scan
  <1>11. \A i \in S : scan[i] = ClassAt(scan, c, q, i)
    BY <1>9
  <1>12. \A i \in S : scan[i] \in T
    <2> DEFINE G == {i \in S : scan[i] \in T}
    <2>1. ASSUME NEW i \in S, \A y \in S : rank[y] < rank[i] => y \in G PROVE i \in G
      <3>1. ~(i > Len(q)) => rank[i + 1] < rank[i]
        BY <1>1, <1>2
      <3>2. i + 2 <= Len(q) => rank[i + 3] < rank[i]
        BY <1>1, <1>2
      <3> HIDE DEF S, T, rank
      <3>3. ClassAt(scan, c, q, i) \in T
        BY <1>2, <1>5, <2>1, <3>1, <3>2
      <3>. QED
        BY <1>11, <3>3
    <2>2. rank \in [S -> Nat]
      BY <1>1
    <2> HIDE DEF S, T, rank, G
    <2>3. S \subseteq G
      BY <2>1, <2>2, RankInduction
    <2>. QED
      BY <2>3 DEF G
  <1>13. scan \in [S -> T]
    <2> HIDE DEF T
    <2>. QED
      BY <1>9, <1>12
  <1>. QED
    BY <1>10, <1>11, <1>13

-----------------------------------------------------------------------------
(* What wmatch goes on with is shorter: behind a run of stars, ...           *)
Stars(p) == SelectInSeq(p, LAMBDA d : d # "*")

LEMMA StarsEnd ==
  ASSUME NEW p \in String
  PROVE  \/ Stars(p) = 0 /\ \A i \in 1..Len(p) : p[i] = "*"
         \/ /\ Stars(p) \in 1..Len(p) /\ p[Stars(p)] # "*"
            /\ \A i \in 1..(Stars(p) - 1) : p[i] = "*"
  <1> DEFINE I == {i \in 1..Len(p) : p[i] # "*"}
  <1>1. Len(p) \in Nat
    BY LenProperties DEF String
  <1>2. I \in SUBSET Nat /\ I \subseteq 1..Len(p) /\ \A i \in I : p[i] # "*"
    BY <1>1
  <1>3. \A i \in 1..Len(p) : i \in I \/ p[i] = "*"
    OBVIOUS
  <1>4. Stars(p) = IF I # {} THEN Min(I) ELSE 0
    BY DEF Stars, SelectInSeq
  <1> HIDE DEF I
  <1>5. CASE I = {}
    BY <1>3, <1>4, <1>5
  <1>6. CASE I # {}
    <2> DEFINE k == Min(I)
    <2>1. k \in I /\ \A i \in I : k <= i
      BY <1>2, <1>6, MinIsLeast
    <2> HIDE DEF k
    <2>2. k \in 1..Len(p) /\ p[k] # "*"
      BY <1>2, <2>1
    <2>3. ASSUME NEW i \in 1..(k - 1) PROVE p[i] = "*"
      <3>1. i \in 1..Len(p) /\ ~(k <= i)
        BY <1>1, <2>2
      <3>. QED
        BY <1>3, <2>1, <3>1
    <2>4. Stars(p) = k
      BY <1>4, <1>6 DEF k
    <2>. QED
      BY <2>2, <2>3, <2>4
  <1>. QED
    BY <1>5, <1>6

(* ... and one of the alternatives before the rest.                         *)
LEMMA UptoIs ==
  ASSUME NEW s \in String, NEW c
  PROVE  Upto(s, c) \in String /\ Len(Upto(s, c)) <= Len(s)
  <1>1. Len(s) \in Nat
    BY LenProperties DEF String
  <1>2. CASE First(s, c) = 0
    BY <1>1, <1>2 DEF Upto
  <1>3. CASE First(s, c) # 0
    <2> DEFINE I == {i \in 1..Len(s) : s[i] = c}
    <2>1. I \in SUBSET Nat /\ I \subseteq 1..Len(s)
      BY <1>1
    <2>2. First(s, c) = IF I # {} THEN Min(I) ELSE 0
      BY DEF First, SelectInSeq
    <2> HIDE DEF I
    <2>3. First(s, c) \in 1..Len(s)
      BY <1>3, <2>1, <2>2, MinIsLeast
    <2> DEFINE k == First(s, c) - 1
    <2>4. k \in Int /\ 1 \in Int /\ k <= Len(s) /\ 0 <= k /\ 1..k \subseteq 1..Len(s)
      BY <1>1, <2>3
    <2> HIDE DEF k
    <2>5. \A i \in 1..k : s[i] \in ToSet(CharOrder)
      BY <2>4, ElementOfSeq DEF String
    <2>6. SubSeq(s, 1, k) \in Seq(ToSet(CharOrder))
          /\ Len(SubSeq(s, 1, k)) = IF 1 <= k THEN k - 1 + 1 ELSE 0
      BY <2>4, <2>5, SubSeqProperties
    <2>7. Len(SubSeq(s, 1, k)) <= Len(s)
      BY <1>1, <2>4, <2>6
    <2>. QED
      BY <1>3, <2>6, <2>7 DEF Upto, String, k
  <1>. QED
    BY <1>2, <1>3

LEMMA SegmentIs ==
  ASSUME NEW body \in String, NEW seg \in Alternatives(body)
  PROVE  seg \in String /\ Len(seg) <= Len(body)
  <1>1. PICK i \in DOMAIN body : seg = Upto(From(body, i), ",")
    BY DEF Alternatives
  <1>2. Len(body) \in Nat /\ i \in 1..Len(body)
    BY LenProperties DEF String
  <1>3. i \in 1..(Len(body) + 1)
    BY <1>2
  <1>4. From(body, i) \in Seq(ToSet(CharOrder)) /\ Len(From(body, i)) = Len(body) + 1 - i
    BY <1>3, FromIs DEF String
  <1>5. seg \in String /\ Len(seg) <= Len(From(body, i))
    BY <1>1, <1>4, UptoIs DEF String
  <1>6. Len(seg) \in Nat
    BY <1>5, LenProperties DEF String
  <1>. QED
    BY <1>2, <1>4, <1>5, <1>6

LEMMA TailIs ==
  ASSUME NEW p \in String, p # <<>>
  PROVE  /\ Len(p) \in Nat \ {0} /\ Head(p) = p[1]
         /\ Tail(p) \in String /\ Len(Tail(p)) = Len(p) - 1
  BY EmptySeq, LenProperties, HeadTailProperties DEF String

(* What stands between braces, and behind them.                             *)
Brace(p, k) == p # <<>> /\ Head(p) = "{" /\ First(p, "}") = k /\ k # 0
Tried(p, k) == Alternatives(SubSeq(p, 2, k - 1))

LEMMA BraceIs ==
  ASSUME NEW p \in String, NEW k, NEW seg, Brace(p, k), seg \in Tried(p, k)
  PROVE  seg \o From(p, k + 1) \in String /\ Len(seg \o From(p, k + 1)) < Len(p)
  <1> DEFINE I == {i \in 1..Len(p) : p[i] = "}"}
             body == SubSeq(p, 2, k - 1)
             rest == From(p, k + 1)
  <1>1. Len(p) \in Nat
    BY LenProperties DEF String
  <1>2. p[1] # "}"
    BY TailIs DEF Brace
  <1>3. k \in I
    <2>1. I \in SUBSET Nat
      <3>1. \A i \in 1..Len(p) : i \in Nat
        BY <1>1
      <3>. QED
        BY <3>1, Zenon
    <2>2. k = IF I # {} THEN Min(I) ELSE 0
      BY DEF First, SelectInSeq, Brace
    <2>3. k # 0
      BY DEF Brace
    <2> HIDE DEF I
    <2>. QED
      BY <2>1, <2>2, <2>3, MinIsLeast
  <1>4. k \in 1..Len(p) /\ p[k] = "}"
    BY <1>3
  <1> HIDE DEF I
  <1>5. k \in 2..Len(p)
    <2>1. k # 1
      BY <1>2, <1>4
    <2>2. k \in 1..Len(p)
      BY <1>4
    <2>. QED
      BY <1>1, <2>1, <2>2
  <1>6. body \in String /\ Len(body) = k - 2
    <2>1. k - 1 \in Int /\ 2 \in Int /\ 2..(k - 1) \subseteq 1..Len(p)
      BY <1>1, <1>5
    <2>2. \A i \in 2..(k - 1) : p[i] \in ToSet(CharOrder)
      BY <2>1, ElementOfSeq DEF String
    <2>3. body \in Seq(ToSet(CharOrder))
          /\ Len(body) = IF 2 <= k - 1 THEN (k - 1) - 2 + 1 ELSE 0
      BY <2>1, <2>2, SubSeqProperties
    <2>. QED
      BY <1>5, <2>3 DEF String
  <1>7. rest \in String /\ Len(rest) = Len(p) - k
    <2>1. k + 1 \in 1..(Len(p) + 1)
      BY <1>1, <1>5
    <2>2. rest \in Seq(ToSet(CharOrder)) /\ Len(rest) = Len(p) + 1 - (k + 1)
      BY <2>1, FromIs DEF String
    <2>. QED
      BY <1>1, <1>5, <2>2 DEF String
  <1> HIDE DEF body, rest
  <1>8. seg \in String /\ Len(seg) <= Len(body)
    BY <1>6, SegmentIs DEF body, Tried
  <1>9. seg \o rest \in String /\ Len(seg \o rest) = Len(seg) + Len(rest)
    BY <1>7, <1>8, ConcatProperties DEF String
  <1>10. Len(seg) \in Nat
    BY <1>8, LenProperties DEF String
  <1>11. Len(seg) + Len(rest) < Len(p)
    BY <1>1, <1>5, <1>6, <1>7, <1>8, <1>10
  <1>. QED
    BY <1>9, <1>11 DEF rest

-----------------------------------------------------------------------------
(* One turn of wmatch, with g for what it comes to from there on.            *)
Negated(p) == Len(p) > 1 /\ p[2] \in {"!", "^"}
Inside(p) == From(p, IF Negated(p) THEN 3 ELSE 2)

StarTurn(g, p, t) == Stars(p) = 0 \/ \E tt \in StarEnds(t) : g[From(p, Stars(p))][tt]
AnyTurn(g, p, t) == t # <<>> /\ g[Tail(p)][Tail(t)]
ClassTurn(g, p, t) ==
  /\ t # <<>>
  /\ /\ Class(Head(t), Inside(p)).matched # Negated(p)
     /\ g[From(Inside(p), Class(Head(t), Inside(p)).next)][Tail(t)]
BraceTurn(g, p, t) ==
  \E seg \in Tried(p, First(p, "}")) : g[seg \o From(p, First(p, "}") + 1)][t]
LiteralTurn(g, p, t) == t # <<>> /\ Head(t) = Head(p) /\ g[Tail(p)][Tail(t)]

Turn(g, p, t) ==
  IF p = <<>> THEN t = <<>>
  ELSE CASE Head(p) = "*" -> StarTurn(g, p, t)
         [] Head(p) = "?" -> AnyTurn(g, p, t)
         [] Head(p) = "[" -> ClassTurn(g, p, t)
         [] Head(p) = "{" /\ First(p, "}") # 0 -> BraceTurn(g, p, t)
         [] OTHER -> LiteralTurn(g, p, t)

Below(g, h, p) == \A r \in String : Len(r) < Len(p) => g[r] = h[r]

LEMMA InsideIs ==
  ASSUME NEW p \in String, p # <<>>, NEW c
  PROVE  /\ Inside(p) \in String
         /\ From(Inside(p), Class(c, Inside(p)).next) \in String
         /\ Len(From(Inside(p), Class(c, Inside(p)).next)) < Len(p)
  <1> DEFINE i == IF Negated(p) THEN 3 ELSE 2
             q == Inside(p)
             k == Class(c, q).next
  <1>1. Len(p) \in Nat \ {0}
    BY TailIs
  <1>2. i \in 1..(Len(p) + 1) /\ i >= 2
    BY <1>1 DEF Negated
  <1>3. From(p, i) \in Seq(ToSet(CharOrder)) /\ Len(From(p, i)) = Len(p) + 1 - i
    <2> HIDE DEF i
    <2>. QED
      BY <1>2, FromIs DEF String
  <1>4. q \in String /\ Len(q) < Len(p) /\ Len(q) \in Nat
    <2>1. q = From(p, i)
      BY DEF Inside
    <2> HIDE DEF i, q
    <2>2. Len(q) = Len(p) + 1 - i
      BY <1>3, <2>1
    <2>3. Len(q) < Len(p) /\ Len(q) \in Nat
      BY <1>1, <1>2, <2>2
    <2>. QED
      BY <1>3, <2>1, <2>3 DEF String
  <1> HIDE DEF i, q
  <1>5. k \in 1..(Len(q) + 1)
    <2>1. PICK scan \in [1..(Len(q) + 1) -> Verdicts(Len(q) + 1)] : Class(c, q) = scan[1]
      BY <1>4, ClassIs
    <2>2. 1 \in 1..(Len(q) + 1)
      BY <1>4
    <2>. QED
      BY <2>1, <2>2 DEF Verdicts
  <1> HIDE DEF k
  <1>6. From(q, k) \in String /\ Len(From(q, k)) = Len(q) + 1 - k
    BY <1>4, <1>5, FromIs DEF String
  <1>7. Len(From(q, k)) < Len(p)
    <2>1. Len(q) + 1 - k < Len(p)
      BY <1>1, <1>4, <1>5
    <2>. QED
      BY <1>6, <2>1
  <1>. QED
    BY <1>4, <1>6, <1>7 DEF q, k

LEMMA StarIs ==
  ASSUME NEW p \in String, p # <<>>, Head(p) = "*", Stars(p) # 0
  PROVE  From(p, Stars(p)) \in String /\ Len(From(p, Stars(p))) < Len(p)
  <1> DEFINE k == Stars(p)
  <1>1. Len(p) \in Nat \ {0} /\ Head(p) = p[1]
    BY TailIs
  <1>2. k \in 1..Len(p) /\ p[k] # "*"
    BY StarsEnd
  <1> HIDE DEF k
  <1>3. k # 1
    BY <1>1, <1>2
  <1>4. k \in 1..(Len(p) + 1) /\ Len(p) + 1 - k < Len(p)
    BY <1>1, <1>2, <1>3
  <1>5. From(p, k) \in Seq(ToSet(CharOrder)) /\ Len(From(p, k)) = Len(p) + 1 - k
    BY <1>4, FromIs DEF String
  <1>. QED
    BY <1>4, <1>5 DEF String, k

LEMMA TurnsBelow ==
  ASSUME NEW g, NEW h, NEW p \in String, NEW t \in String, Below(g, h, p)
  PROVE  Turn(g, p, t) <=> Turn(h, p, t)
  <1>1. CASE p = <<>>
    BY <1>1 DEF Turn
  <1>2. CASE p # <<>>
    <2>1. CASE Head(p) = "*"
      <3>1. Stars(p) # 0 => g[From(p, Stars(p))] = h[From(p, Stars(p))]
        BY <1>2, <2>1, StarIs DEF Below
      <3>2. StarTurn(g, p, t) <=> StarTurn(h, p, t)
        BY <3>1 DEF StarTurn
      <3>. QED
        BY <1>2, <2>1, <3>2 DEF Turn
    <2>2. g[Tail(p)] = h[Tail(p)]
      <3>1. Len(Tail(p)) < Len(p) /\ Tail(p) \in String
        BY <1>2, TailIs
      <3>. QED
        BY <3>1 DEF Below
    <2>3. CASE Head(p) = "?"
      <3>1. AnyTurn(g, p, t) <=> AnyTurn(h, p, t)
        BY <2>2 DEF AnyTurn
      <3>. QED
        BY <1>2, <2>3, <3>1 DEF Turn
    <2>4. CASE Head(p) = "["
      <3> DEFINE r == From(Inside(p), Class(Head(t), Inside(p)).next)
      <3>1. g[r] = h[r]
        BY <1>2, InsideIs DEF Below
      <3>2. ClassTurn(g, p, t) <=> ClassTurn(h, p, t)
        BY <3>1 DEF ClassTurn
      <3>. QED
        BY <1>2, <2>4, <3>2 DEF Turn
    <2>5. CASE Head(p) = "{" /\ First(p, "}") # 0
      <3> DEFINE k == First(p, "}")
      <3>1. Brace(p, k)
        BY <1>2, <2>5 DEF Brace
      <3>2. ASSUME NEW seg \in Tried(p, k)
            PROVE  g[seg \o From(p, k + 1)] = h[seg \o From(p, k + 1)]
        BY <3>1, <3>2, BraceIs DEF Below
      <3>3. BraceTurn(g, p, t) <=> BraceTurn(h, p, t)
        BY <3>2 DEF BraceTurn
      <3>. QED
        BY <1>2, <2>5, <3>3 DEF Turn
    <2>6. CASE /\ Head(p) # "*" /\ Head(p) # "?" /\ Head(p) # "["
               /\ ~(Head(p) = "{" /\ First(p, "}") # 0)
      <3>1. LiteralTurn(g, p, t) <=> LiteralTurn(h, p, t)
        BY <2>2 DEF LiteralTurn
      <3>. QED
        BY <1>2, <2>6, <3>1 DEF Turn
    <2>. QED
      BY <2>1, <2>3, <2>4, <2>5, <2>6
  <1>. QED
    BY <1>1, <1>2

(* wmatch does one turn after another.                                      *)
LEMMA MatchIs ==
  /\ wmatch \in [String -> [String -> BOOLEAN]]
  /\ \A p, t \in String : wmatch[p][t] <=> Turn(wmatch, p, t)
  <1> DEFINE V == [String -> BOOLEAN]
             Body(g) == [p \in String |-> [t \in String |-> Turn(g, p, t)]]
             rank == [p \in String |-> Len(p)]
             D == [g \in [String -> V] |-> Body(g)]
  <1>1. ASSUME NEW g, NEW p, NEW t PROVE Turn(g, p, t) \in BOOLEAN
    BY DEF Turn, StarTurn, AnyTurn, ClassTurn, BraceTurn, LiteralTurn
  <1>2. ASSUME NEW g PROVE Body(g) \in [String -> V]
    BY <1>1
  <1>3. rank \in [String -> Nat] /\ V # {}
    <2>1. \A p \in String : Len(p) \in Nat
      BY LenProperties DEF String
    <2>2. [t \in String |-> TRUE] \in V
      OBVIOUS
    <2>. QED
      BY <2>1, <2>2
  <1>4. OnLowerRank(String, V, rank, D)
    <2>1. D \in [[String -> V] -> [String -> V]]
      <3> HIDE DEF V, Body
      <3>. QED
        BY <1>2
    <2>2. ASSUME NEW g \in [String -> V], NEW h \in [String -> V], NEW p \in String,
                 \A y \in String : rank[y] < rank[p] => g[y] = h[y]
          PROVE  D[g][p] = D[h][p]
      <3>1. Below(g, h, p)
        BY <2>2 DEF Below
      <3>2. \A t \in String : Turn(g, p, t) = Turn(h, p, t)
        BY <1>1, <3>1, TurnsBelow
      <3>3. Body(g)[p] = Body(h)[p]
        BY <3>2
      <3> HIDE DEF V, Body
      <3>. QED
        BY <3>3
    <2> HIDE DEF V, rank, D
    <2>. QED
      BY <1>3, <2>1, <2>2 DEF OnLowerRank
  <1>5. PICK f \in [String -> V] : f = D[f]
    <2> HIDE DEF V, rank, D
    <2>. QED
      BY <1>4, FixedPoint
  <1>6. f = Body(f)
    BY <1>5
  <1>7. wmatch = CHOOSE g : g = Body(g)
    BY DEF wmatch, Turn, StarTurn, AnyTurn, ClassTurn, BraceTurn, LiteralTurn,
           Stars, Tried, Inside, Negated
  <1>8. wmatch = Body(wmatch)
    <2> HIDE DEF Body
    <2>. QED
      BY <1>6, <1>7
  <1>9. wmatch \in [String -> V]
    BY <1>2, <1>8
  <1>10. \A p, t \in String : wmatch[p][t] = Turn(wmatch, p, t)
    BY <1>8
  <1>. QED
    BY <1>9, <1>10

-----------------------------------------------------------------------------
(* A pattern that begins with a given character.                            *)
LEMMA ConsIs ==
  ASSUME NEW c \in Letter, NEW q \in String
  PROVE  /\ <<c>> \o q \in String /\ <<c>> \o q # <<>>
         /\ Head(<<c>> \o q) = c /\ Tail(<<c>> \o q) = q
         /\ Len(<<c>> \o q) = Len(q) + 1
         /\ \A i \in 1..Len(q) : (<<c>> \o q)[i + 1] = q[i]
  <1> DEFINE p == <<c>> \o q
  <1>1. <<c>> \in String /\ Len(<<c>>) = 1 /\ <<c>>[1] = c
    BY Letters DEF String
  <1>2. Len(q) \in Nat
    BY LenProperties DEF String
  <1>3. /\ p \in String /\ Len(p) = 1 + Len(q)
        /\ \A i \in 1..(1 + Len(q)) : p[i] = IF i <= 1 THEN <<c>>[i] ELSE q[i - 1]
    BY <1>1, ConcatProperties DEF String
  <1> HIDE DEF p
  <1>4. p[1] = c /\ \A i \in 1..Len(q) : p[i + 1] = q[i]
    <2>1. 1 \in 1..(1 + Len(q)) /\ 1 <= 1
      BY <1>2
    <2>2. p[1] = c
      BY <1>1, <1>3, <2>1
    <2>3. ASSUME NEW i \in 1..Len(q) PROVE p[i + 1] = q[i]
      <3>1. i + 1 \in 1..(1 + Len(q)) /\ ~(i + 1 <= 1) /\ (i + 1) - 1 = i
        BY <1>2
      <3>. QED
        BY <1>3, <3>1
    <2>. QED
      BY <2>2, <2>3
  <1>5. p # <<>>
    BY <1>2, <1>3, EmptySeq
  <1>6. /\ Tail(p) \in String /\ Len(Tail(p)) = Len(p) - 1 /\ Head(p) = p[1]
        /\ \A i \in 1..Len(Tail(p)) : Tail(p)[i] = p[i + 1]
    BY <1>3, <1>5, HeadTailProperties DEF String
  <1>7. Len(Tail(p)) = Len(q) /\ \A i \in 1..Len(q) : Tail(p)[i] = q[i]
    BY <1>2, <1>3, <1>4, <1>6
  <1>8. Tail(p) = q
    BY <1>6, <1>7, SeqEqual DEF String
  <1>. QED
    BY <1>2, <1>3, <1>4, <1>5, <1>6, <1>8 DEF p

(* What it is from a later place on.                                        *)
LEMMA ConsFrom ==
  ASSUME NEW c \in Letter, NEW q \in String
  PROVE  /\ From(<<c>> \o q, 2) = q
         /\ \A k \in 1..(Len(q) + 1) : From(<<c>> \o q, k + 1) = From(q, k)
  <1> DEFINE p == <<c>> \o q
             C == ToSet(CharOrder)
  <1>1. /\ p \in Seq(C) /\ Len(p) = Len(q) + 1 /\ q \in Seq(C)
        /\ \A i \in 1..Len(q) : p[i + 1] = q[i]
    BY ConsIs DEF String
  <1>2. Len(q) \in Nat
    BY LenProperties DEF String
  <1> HIDE DEF p, C
  <1>3. ASSUME NEW k \in 1..(Len(q) + 1) PROVE From(p, k + 1) = From(q, k)
    <2> DEFINE r == From(q, k)
               n == k + 1
               s == From(p, n)
    <2>1. n \in 1..(Len(p) + 1)
      BY <1>1, <1>2
    <2>2. /\ r \in Seq(C) /\ Len(r) = Len(q) + 1 - k
          /\ \A j \in 1..Len(r) : r[j] = q[k + j - 1]
      BY <1>1, FromIs
    <2>3. /\ s \in Seq(C) /\ Len(s) = Len(p) + 1 - n
          /\ \A j \in 1..Len(s) : s[j] = p[n + j - 1]
      <3> HIDE DEF n
      <3>. QED
        BY <1>1, <2>1, FromIs
    <2> HIDE DEF r, s
    <2>4. Len(s) = Len(r) /\ Len(r) \in Nat
      BY <1>1, <1>2, <2>2, <2>3
    <2>5. ASSUME NEW j \in 1..Len(s) PROVE s[j] = r[j]
      <3>1. k + j - 1 \in 1..Len(q) /\ (k + 1) + j - 1 = (k + j - 1) + 1
        BY <1>2, <2>2, <2>4
      <3>2. p[(k + j - 1) + 1] = q[k + j - 1]
        BY <1>1, <3>1
      <3>. QED
        BY <2>2, <2>3, <2>4, <3>1, <3>2
    <2>6. s = r
      BY <2>2, <2>3, <2>4, <2>5, SeqEqual
    <2>. QED
      BY <2>6 DEF r, s
  <1>4. From(p, 2) = q
    <2>1. 1 \in 1..(Len(q) + 1) /\ 1 + 1 = 2
      BY <1>2
    <2>2. From(q, 1) = q
      BY <1>1, SubSeqFull DEF From
    <2>3. From(p, 1 + 1) = From(q, 1)
      BY <1>3, <2>1
    <2>. QED
      BY <2>1, <2>2, <2>3
  <1>. QED
    BY <1>3, <1>4 DEF p

LEMMA MatchEmpty ==
  ASSUME NEW t \in String PROVE wmatch[<<>>][t] <=> t = <<>>
  <1>1. <<>> \in String
    BY EmptySeq DEF String
  <1>. QED
    BY <1>1, MatchIs DEF Turn

LEMMA MatchAny ==
  ASSUME NEW q \in String, NEW t \in String
  PROVE  wmatch[<<"?">> \o q][t] <=> t # <<>> /\ wmatch[q][Tail(t)]
  <1> DEFINE p == <<"?">> \o q
  <1>1. p \in String /\ p # <<>> /\ Head(p) = "?" /\ Tail(p) = q
    BY ConsIs DEF Letter
  <1> HIDE DEF p
  <1>2. wmatch[p][t] <=> AnyTurn(wmatch, p, t)
    BY <1>1, MatchIs DEF Turn
  <1>. QED
    BY <1>1, <1>2 DEF AnyTurn, p

LEMMA MatchLiteral ==
  ASSUME NEW c \in Chars, NEW q \in String, NEW t \in String
  PROVE  wmatch[<<c>> \o q][t] <=> t # <<>> /\ Head(t) = c /\ wmatch[q][Tail(t)]
  <1> DEFINE p == <<c>> \o q
  <1>1. c \in Letter /\ c # "*" /\ c # "?" /\ c # "[" /\ c # "{"
    BY DEF Chars, Letter
  <1>2. p \in String /\ p # <<>> /\ Head(p) = c /\ Tail(p) = q
    BY <1>1, ConsIs
  <1> HIDE DEF p
  <1>3. wmatch[p][t] <=> LiteralTurn(wmatch, p, t)
    BY <1>1, <1>2, MatchIs DEF Turn
  <1>. QED
    BY <1>2, <1>3 DEF LiteralTurn, p

-----------------------------------------------------------------------------
(* Where a text may go on after a "*": at its beginning, at its end, and    *)
(* where it may go on from such a place.                                    *)
LEMMA Ends ==
  ASSUME NEW t \in String
  PROVE  /\ t \in StarEnds(t) /\ <<>> \in StarEnds(t)
         /\ \A u \in StarEnds(t) : u \in String /\ StarEnds(u) \subseteq StarEnds(t)
  <1>1. Len(t) \in Nat
    BY LenProperties DEF String
  <1>2. t \in StarEnds(t)
    <2>1. From(t, 1) = t
      BY SubSeqFull DEF From, String
    <2>2. 1 \in 1..(Len(t) + 1)
      BY <1>1
    <2>. QED
      BY <2>1, <2>2 DEF StarEnds
  <1>3. <<>> \in StarEnds(t)
    <2>1. From(t, Len(t) + 1) = <<>>
      <3>1. Len(t) + 1 \in Int /\ Len(t) \in Int /\ Len(t) < Len(t) + 1
        BY <1>1
      <3>. QED
        BY <3>1, SubSeqEmpty DEF From
    <2>2. Len(t) + 1 \in 1..(Len(t) + 1)
      BY <1>1
    <2>. QED
      BY <2>1, <2>2 DEF StarEnds
  <1>4. ASSUME NEW u \in StarEnds(t) PROVE u \in String /\ StarEnds(u) \subseteq StarEnds(t)
    <2>1. PICK i \in 1..(Len(t) + 1) : u = From(t, i)
      BY DEF StarEnds
    <2>2. /\ u \in String /\ Len(u) = Len(t) + 1 - i
          /\ \A j \in 1..Len(u) : u[j] = t[i + j - 1]
      <3>1. t \in Seq(ToSet(CharOrder))
        BY DEF String
      <3>. QED
        BY <2>1, <3>1, FromIs DEF String
    <2>3. ASSUME NEW v \in StarEnds(u) PROVE v \in StarEnds(t)
      <3>1. PICK j \in 1..(Len(u) + 1) : v = From(u, j)
        BY <2>3 DEF StarEnds
      <3>2. /\ v \in String /\ Len(v) = Len(u) + 1 - j
            /\ \A m \in 1..Len(v) : v[m] = u[j + m - 1]
        <4>1. u \in Seq(ToSet(CharOrder))
          BY <2>2 DEF String
        <4>. QED
          BY <3>1, <4>1, FromIs DEF String
      <3> DEFINE k == i + j - 1
                 w == From(t, k)
      <3>3. k \in 1..(Len(t) + 1)
        BY <1>1, <2>2
      <3>4. /\ w \in String /\ Len(w) = Len(t) + 1 - k
            /\ \A m \in 1..Len(w) : w[m] = t[k + m - 1]
        <4> HIDE DEF k
        <4>. QED
          BY <3>3, FromIs DEF String
      <3>5. Len(w) = Len(v) /\ Len(v) \in Nat
        BY <1>1, <2>2, <3>2, <3>3, <3>4
      <3>6. ASSUME NEW m \in 1..Len(v) PROVE v[m] = w[m]
        <4>1. j + m - 1 \in 1..Len(u) /\ i + (j + m - 1) - 1 = k + m - 1
          BY <1>1, <2>2, <3>2, <3>5
        <4> HIDE DEF k, w
        <4>. QED
          BY <2>2, <3>2, <3>4, <3>5, <4>1
      <3>7. v = w
        <4> HIDE DEF w
        <4>. QED
          BY <3>2, <3>4, <3>5, <3>6, SeqEqual DEF String
      <3>. QED
        BY <3>3, <3>7 DEF StarEnds
    <2>. QED
      BY <2>2, <2>3
  <1>. QED
    BY <1>2, <1>3, <1>4

(* Where the first character that is no star stands.                        *)
LEMMA StarsAre ==
  ASSUME NEW p \in String
  PROVE  /\ (\A i \in 1..Len(p) : p[i] = "*") => Stars(p) = 0
         /\ \A k \in 1..Len(p) :
               p[k] # "*" /\ (\A i \in 1..(k - 1) : p[i] = "*") => Stars(p) = k
  <1>1. Len(p) \in Nat
    BY LenProperties DEF String
  <1>2. \/ Stars(p) = 0 /\ \A i \in 1..Len(p) : p[i] = "*"
        \/ /\ Stars(p) \in 1..Len(p) /\ p[Stars(p)] # "*"
           /\ \A i \in 1..(Stars(p) - 1) : p[i] = "*"
    BY StarsEnd
  <1>3. ASSUME NEW k \in 1..Len(p), p[k] # "*", \A i \in 1..(k - 1) : p[i] = "*"
        PROVE  Stars(p) = k
    <2> DEFINE m == Stars(p)
    <2>1. m \in 1..Len(p) /\ p[m] # "*" /\ \A i \in 1..(m - 1) : p[i] = "*"
      BY <1>2, <1>3
    <2> HIDE DEF m
    <2>2. ~(m < k)
      <3>1. m < k => m \in 1..(k - 1)
        BY <1>1, <2>1
      <3>. QED
        BY <1>3, <2>1, <3>1
    <2>3. ~(k < m)
      <3>1. k < m => k \in 1..(m - 1)
        BY <1>1, <2>1
      <3>. QED
        BY <1>3, <2>1, <3>1
    <2>4. m = k
      BY <1>1, <2>1, <2>2, <2>3
    <2>. QED
      BY <2>4 DEF m
  <1>. QED
    BY <1>2, <1>3

(* A star is matched by any front of the text, also before further stars.    *)
LEMMA MatchStar ==
  ASSUME NEW q \in String, NEW t \in String
  PROVE  wmatch[<<"*">> \o q][t] <=> \E u \in StarEnds(t) : wmatch[q][u]
  <1> DEFINE p == <<"*">> \o q
  <1>1. /\ p \in String /\ p # <<>> /\ Head(p) = "*" /\ Len(p) = Len(q) + 1
        /\ \A i \in 1..Len(q) : p[i + 1] = q[i]
    BY ConsIs DEF Letter
  <1>2. p[1] = "*"
    BY <1>1, TailIs
  <1> HIDE DEF p
  <1>3. wmatch[p][t] <=> StarTurn(wmatch, p, t)
    BY <1>1, MatchIs DEF Turn
  <1>4. Len(q) \in Nat
    BY LenProperties DEF String
  <1>5. CASE q = <<>>
    <2>1. Len(p) = 1
      BY <1>1, <1>5, EmptySeq
    <2>2. \A i \in 1..Len(p) : p[i] = "*"
      BY <1>2, <2>1
    <2>3. Stars(p) = 0
      BY <1>1, <2>2, StarsAre
    <2>4. wmatch[p][t]
      BY <1>3, <2>3 DEF StarTurn
    <2>5. <<>> \in StarEnds(t) /\ <<>> \in String
      BY Ends
    <2>6. wmatch[q][<<>>]
      BY <1>5, <2>5, MatchEmpty
    <2>. QED
      BY <2>4, <2>5, <2>6 DEF p
  <1>6. CASE q # <<>> /\ q[1] # "*"
    <2>1. 1 \in 1..Len(q)
      BY <1>4, <1>6, EmptySeq DEF String
    <2>2. 2 \in 1..Len(p) /\ p[2] # "*"
      <3>1. p[1 + 1] = q[1]
        BY <1>1, <2>1
      <3>2. 2 \in 1..Len(p)
        BY <1>1, <1>4, <2>1
      <3>. QED
        BY <1>6, <3>1, <3>2
    <2>3. \A i \in 1..(2 - 1) : p[i] = "*"
      BY <1>2
    <2>4. Stars(p) = 2
      BY <1>1, <2>2, <2>3, StarsAre
    <2>5. From(p, 2) = q
      BY ConsFrom DEF p, Letter
    <2>. QED
      BY <1>3, <2>4, <2>5 DEF StarTurn, p
  <1>7. CASE q # <<>> /\ q[1] = "*"
    <2>1. Head(q) = "*"
      BY <1>7, TailIs
    <2>2. ASSUME NEW u \in String PROVE wmatch[q][u] <=> StarTurn(wmatch, q, u)
      BY <1>7, <2>1, MatchIs DEF Turn
    <2>3. CASE Stars(q) = 0
      <3>1. \A i \in 1..Len(q) : q[i] = "*"
        <4>1. \/ \A i \in 1..Len(q) : q[i] = "*"
              \/ Stars(q) \in 1..Len(q)
          BY StarsEnd
        <4>. QED
          BY <1>4, <2>3, <4>1
      <3>2. ASSUME NEW i \in 1..Len(p) PROVE p[i] = "*"
        <4>1. i = 1 \/ (i - 1 \in 1..Len(q) /\ (i - 1) + 1 = i)
          BY <1>1, <1>4
        <4>. QED
          BY <1>1, <1>2, <3>1, <4>1
      <3>3. Stars(p) = 0
        BY <1>1, <3>2, StarsAre
      <3>4. wmatch[p][t] /\ wmatch[q][t]
        BY <1>3, <2>2, <2>3, <3>3 DEF StarTurn
      <3>. QED
        BY <3>4, Ends DEF p
    <2>4. CASE Stars(q) # 0
      <3> DEFINE k == Stars(q)
                 r == From(q, k)
      <3>1. k \in 1..Len(q) /\ q[k] # "*" /\ \A i \in 1..(k - 1) : q[i] = "*"
        BY <2>4, StarsEnd
      <3> HIDE DEF k
      <3>2. k + 1 \in 1..Len(p) /\ p[k + 1] # "*"
        BY <1>1, <1>4, <3>1
      <3>3. ASSUME NEW i \in 1..((k + 1) - 1) PROVE p[i] = "*"
        <4>1. i = 1 \/ (i - 1 \in 1..(k - 1) /\ i - 1 \in 1..Len(q) /\ (i - 1) + 1 = i)
          BY <1>4, <3>1
        <4>. QED
          BY <1>1, <1>2, <3>1, <4>1
      <3>4. Stars(p) = k + 1
        BY <1>1, <3>2, <3>3, StarsAre
      <3>5. From(p, k + 1) = r
        <4>1. k \in 1..(Len(q) + 1) /\ "*" \in Letter
          BY <1>4, <3>1 DEF Letter
        <4>. QED
          BY <4>1, ConsFrom DEF p
      <3>6. wmatch[p][t] <=> \E u \in StarEnds(t) : wmatch[r][u]
        <4>1. k + 1 # 0
          BY <1>4, <3>1
        <4>. QED
          BY <1>3, <3>4, <3>5, <4>1 DEF StarTurn
      <3>7. ASSUME NEW u \in String PROVE wmatch[q][u] <=> \E v \in StarEnds(u) : wmatch[r][v]
        BY <2>2, <2>4 DEF StarTurn, k
      <3> HIDE DEF r
      <3>8. ASSUME NEW u \in StarEnds(t), wmatch[q][u] PROVE \E v \in StarEnds(t) : wmatch[r][v]
        <4>1. u \in String /\ StarEnds(u) \subseteq StarEnds(t)
          BY <3>8, Ends
        <4>. QED
          BY <3>7, <3>8, <4>1
      <3>9. ASSUME wmatch[p][t] PROVE wmatch[q][t] /\ t \in StarEnds(t)
        BY <3>6, <3>7, <3>9, Ends
      <3>. QED
        BY <3>6, <3>8, <3>9 DEF p
    <2>. QED
      BY <2>3, <2>4
  <1>. QED
    BY <1>5, <1>6, <1>7

-----------------------------------------------------------------------------
(* The inside of a class, up to its "]", lists the letters S: Class finds    *)
(* out of any pattern that goes on with it whether c is one of them, and     *)
(* where the class ends.                                                   *)
Lists(b, S) ==
  \A c \in Chars, q \in String :
      /\ Class(c, b \o q).matched <=> c \in S
      /\ Class(c, b \o q).next = Len(b) + 1

(* A class that is read from its i-th place on, after what Chars are.        *)
LEMMA MatchClass ==
  ASSUME NEW b \in String, NEW S, NEW q \in String, NEW t \in String,
         Lists(b, S), b # <<>>, b[1] \notin {"!", "^"}, t # <<>> => Head(t) \in Chars
  PROVE  /\ wmatch[<<"[">> \o (b \o q)][t] <=>
                t # <<>> /\ Head(t) \in S /\ wmatch[q][Tail(t)]
         /\ \A n \in {"!", "^"} :
               wmatch[<<"[">> \o (<<n>> \o (b \o q))][t] <=>
                t # <<>> /\ Head(t) \notin S /\ wmatch[q][Tail(t)]
  <1>1. Len(b) \in Nat \ {0} /\ Len(q) \in Nat
    BY LenProperties, EmptySeq DEF String
  <1>2. b \o q \in String /\ Len(b \o q) = Len(b) + Len(q) /\ (b \o q)[1] = b[1]
    <2>1. 1 \in 1..(Len(b) + Len(q)) /\ 1 <= Len(b)
      BY <1>1
    <2>. QED
      BY <2>1, ConcatProperties DEF String
  <1>3. From(b \o q, Len(b) + 1) = q
    BY FromConcat DEF String
  <1> DEFINE r == b \o q
  <1>4. ASSUME t # <<>>
        PROVE  /\ Class(Head(t), r).matched <=> Head(t) \in S
               /\ From(r, Class(Head(t), r).next) = q
    BY <1>3, <1>4 DEF Lists
  <1> HIDE DEF r
  <1>5. r \in String /\ Len(r) \in Nat \ {0} /\ r[1] = b[1]
    BY <1>1, <1>2 DEF r
  <1>6. "[" \in Letter /\ "!" \in Letter /\ "^" \in Letter
    BY DEF Letter
  <1>7. Class(Head(t), r).matched \in BOOLEAN
    <2>1. PICK scan \in [1..(Len(r) + 1) -> Verdicts(Len(r) + 1)] :
              Class(Head(t), r) = scan[1]
      BY <1>5, ClassIs
    <2>2. 1 \in 1..(Len(r) + 1)
      BY <1>5
    <2>. QED
      BY <2>1, <2>2 DEF Verdicts
  <1>8. wmatch[<<"[">> \o r][t] <=> t # <<>> /\ Head(t) \in S /\ wmatch[q][Tail(t)]
    <2> DEFINE p == <<"[">> \o r
    <2>1. /\ p \in String /\ p # <<>> /\ Head(p) = "["
          /\ \A i \in 1..Len(r) : p[i + 1] = r[i]
      BY <1>5, <1>6, ConsIs
    <2>2. From(p, 2) = r
      BY <1>5, <1>6, ConsFrom
    <2>3. p[2] = b[1]
      <3>1. p[1 + 1] = r[1]
        BY <1>5, <2>1
      <3>. QED
        BY <1>5, <3>1
    <2> HIDE DEF p
    <2>4. Negated(p) = FALSE
      BY <2>3 DEF Negated
    <2>5. Inside(p) = r
      BY <2>2, <2>4 DEF Inside
    <2>6. wmatch[p][t] <=> ClassTurn(wmatch, p, t)
      BY <2>1, MatchIs DEF Turn
    <2>7. ClassTurn(wmatch, p, t) <=> t # <<>> /\ Head(t) \in S /\ wmatch[q][Tail(t)]
      <3>1. CASE t = <<>>
        BY <3>1 DEF ClassTurn
      <3>2. CASE t # <<>>
        <4>1. Class(Head(t), r).matched # Negated(p) <=> Head(t) \in S
          BY <1>4, <1>7, <2>4, <3>2
        <4>. QED
          BY <1>4, <2>5, <3>2, <4>1 DEF ClassTurn
      <3>. QED
        BY <3>1, <3>2
    <2>. QED
      BY <2>6, <2>7 DEF p
  <1>9. ASSUME NEW n \in {"!", "^"}
        PROVE  wmatch[<<"[">> \o (<<n>> \o r)][t] <=>
                   t # <<>> /\ Head(t) \notin S /\ wmatch[q][Tail(t)]
    <2> DEFINE m == <<n>> \o r
               p == <<"[">> \o m
    <2>1. m \in String /\ m # <<>> /\ Head(m) = n /\ From(m, 2) = r /\ Len(m) \in Nat \ {0}
      <3>1. n \in Letter
        BY <1>9, <1>6
      <3>. QED
        BY <1>5, <3>1, ConsIs, ConsFrom, TailIs
    <2>2. m[1] = n
      BY <2>1, TailIs
    <2> HIDE DEF m
    <2>3. /\ p \in String /\ p # <<>> /\ Head(p) = "[" /\ Len(p) = Len(m) + 1
          /\ \A i \in 1..Len(m) : p[i + 1] = m[i]
      BY <1>6, <2>1, ConsIs
    <2>4. From(p, 3) = r
      <3>1. 2 \in 1..(Len(m) + 1) /\ 2 + 1 = 3
        BY <2>1
      <3>2. From(p, 2 + 1) = From(m, 2)
        BY <1>6, <2>1, <3>1, ConsFrom
      <3>. QED
        BY <2>1, <3>1, <3>2
    <2>5. p[2] = n
      <3>1. 1 \in 1..Len(m) /\ 1 + 1 = 2
        BY <2>1
      <3>2. p[1 + 1] = m[1]
        BY <2>3, <3>1
      <3>3. p[2] = m[1]
        BY <3>1, <3>2
      <3>. QED
        BY <2>2, <3>3
    <2> HIDE DEF p
    <2>6. Negated(p) = TRUE
      BY <2>1, <2>3, <2>5 DEF Negated
    <2>7. Inside(p) = r
      BY <2>4, <2>6 DEF Inside
    <2>8. wmatch[p][t] <=> ClassTurn(wmatch, p, t)
      BY <2>3, MatchIs DEF Turn
    <2>9. ClassTurn(wmatch, p, t) <=> t # <<>> /\ Head(t) \notin S /\ wmatch[q][Tail(t)]
      <3>1. CASE t = <<>>
        BY <3>1 DEF ClassTurn
      <3>2. CASE t # <<>>
        <4>1. Class(Head(t), r).matched # Negated(p) <=> Head(t) \notin S
          BY <1>4, <1>7, <2>6, <3>2
        <4>. QED
          BY <1>4, <2>7, <3>2, <4>1 DEF ClassTurn
      <3>. QED
        BY <3>1, <3>2
    <2>. QED
      BY <2>8, <2>9 DEF p, m
  <1>. QED
    BY <1>8, <1>9 DEF r

-----------------------------------------------------------------------------
(* How a class is read: its end, a single character, a range.               *)
Scanned(scan, c, s) ==
  /\ scan \in [1..(Len(s) + 1) -> Verdicts(Len(s) + 1)]
  /\ \A i \in 1..(Len(s) + 1) : scan[i] = ClassAt(scan, c, s, i)

LEMMA ReadEnd ==
  ASSUME NEW scan, NEW c, NEW s \in String, Scanned(scan, c, s),
         NEW i \in 1..Len(s), s[i] = "]"
  PROVE  ~scan[i].matched /\ scan[i].next = i + 1
  <1>1. Len(s) \in Nat
    BY LenProperties DEF String
  <1>2. i \in 1..(Len(s) + 1) /\ ~(i > Len(s))
    BY <1>1
  <1>3. scan[i] = [matched |-> FALSE, next |-> i + 1]
    BY <1>2 DEF Scanned, ClassAt
  <1>. QED
    BY <1>3

LEMMA ReadOne ==
  ASSUME NEW scan, NEW c, NEW s \in String, Scanned(scan, c, s),
         NEW i \in 1..(Len(s) - 1), s[i] # "]", s[i + 1] # "-"
  PROVE  /\ scan[i].matched <=> scan[i + 1].matched \/ c = s[i]
         /\ scan[i].next = scan[i + 1].next
  <1>1. Len(s) \in Nat
    BY LenProperties DEF String
  <1>2. i \in 1..(Len(s) + 1) /\ i + 1 \in 1..(Len(s) + 1) /\ ~(i > Len(s))
    BY <1>1
  <1>3. scan[i] = [scan[i + 1] EXCEPT !.matched = @ \/ c = s[i]]
    BY <1>2 DEF Scanned, ClassAt
  <1>4. scan[i + 1] \in Verdicts(Len(s) + 1)
    BY <1>2 DEF Scanned
  <1> DEFINE b == c = s[i]
             v == scan[i + 1]
  <1>5. b \in BOOLEAN
    OBVIOUS
  <1> HIDE DEF b, v
  <1>6. scan[i] = [v EXCEPT !.matched = @ \/ b] /\ v \in Verdicts(Len(s) + 1)
    BY <1>3, <1>4 DEF b, v
  <1>7. (scan[i].matched <=> v.matched \/ b) /\ scan[i].next = v.next
    BY <1>5, <1>6 DEF Verdicts
  <1>. QED
    BY <1>7 DEF b, v

LEMMA ReadRange ==
  ASSUME NEW scan, NEW c, NEW s \in String, Scanned(scan, c, s),
         NEW i \in 1..(Len(s) - 2), s[i] # "]", s[i + 1] = "-", s[i + 2] # "]"
  PROVE  /\ scan[i].matched <=> scan[i + 3].matched \/ InRange(c, s[i], s[i + 2])
         /\ scan[i].next = scan[i + 3].next
  <1>1. Len(s) \in Nat
    BY LenProperties DEF String
  <1>2. /\ i \in 1..(Len(s) + 1) /\ i + 3 \in 1..(Len(s) + 1) /\ ~(i > Len(s))
        /\ i + 2 <= Len(s)
    BY <1>1
  <1>3. scan[i] = [scan[i + 3] EXCEPT !.matched = @ \/ InRange(c, s[i], s[i + 2])]
    BY <1>2 DEF Scanned, ClassAt
  <1>4. scan[i + 3] \in Verdicts(Len(s) + 1)
    BY <1>2 DEF Scanned
  <1> DEFINE b == InRange(c, s[i], s[i + 2])
             v == scan[i + 3]
  <1>5. b \in BOOLEAN
    BY DEF InRange
  <1> HIDE DEF b, v
  <1>6. scan[i] = [v EXCEPT !.matched = @ \/ b] /\ v \in Verdicts(Len(s) + 1)
    BY <1>3, <1>4 DEF b, v
  <1>7. (scan[i].matched <=> v.matched \/ b) /\ scan[i].next = v.next
    BY <1>5, <1>6 DEF Verdicts
  <1>. QED
    BY <1>7 DEF b, v

LEMMA ScanOf ==
  ASSUME NEW c, NEW s \in String
  PROVE  \E scan : Scanned(scan, c, s) /\ Class(c, s) = scan[1]
  <1>1. PICK scan \in [1..(Len(s) + 1) -> Verdicts(Len(s) + 1)] :
            /\ \A i \in 1..(Len(s) + 1) : scan[i] = ClassAt(scan, c, s, i)
            /\ Class(c, s) = scan[1]
    BY ClassIs
  <1>. QED
    BY <1>1 DEF Scanned

LEMMA FrontOf ==
  ASSUME NEW b \in String, NEW q \in String
  PROVE  /\ b \o q \in String /\ Len(b \o q) \in Nat /\ Len(b) <= Len(b \o q)
         /\ \A i \in 1..Len(b) : (b \o q)[i] = b[i]
  <1>1. Len(b) \in Nat /\ Len(q) \in Nat
    BY LenProperties DEF String
  <1>2. /\ b \o q \in String /\ Len(b \o q) = Len(b) + Len(q)
        /\ \A i \in 1..(Len(b) + Len(q)) :
              (b \o q)[i] = IF i <= Len(b) THEN b[i] ELSE q[i - Len(b)]
    BY ConcatProperties DEF String
  <1>3. \A i \in 1..Len(b) : i \in 1..(Len(b) + Len(q)) /\ i <= Len(b)
    BY <1>1
  <1>. QED
    BY <1>1, <1>2, <1>3

LEMMA CharsAre ==
  /\ Chars \subseteq ToSet(CharOrder) /\ "]" \in ToSet(CharOrder) /\ "-" \in ToSet(CharOrder)
  /\ \A c \in Chars : c \notin {"]", "-", "!", "^"}
  BY Letters DEF Letter, Chars

(* The classes of the pieces: one letter, two, and a range.                  *)
LEMMA ListsOne ==
  ASSUME NEW x \in Chars PROVE Lists(<<x, "]">>, {x})
  <1> DEFINE b == <<x, "]">>
  <1>1. b \in String /\ Len(b) = 2 /\ b[1] = x /\ b[2] = "]"
    BY CharsAre DEF String
  <1> HIDE DEF b
  <1>2. ASSUME NEW c \in Chars, NEW q \in String
        PROVE  (Class(c, b \o q).matched <=> c \in {x}) /\ Class(c, b \o q).next = Len(b) + 1
    <2> DEFINE s == b \o q
    <2>1. s \in String /\ Len(s) \in Nat /\ 2 <= Len(s) /\ \A i \in 1..2 : s[i] = b[i]
      BY <1>1, FrontOf
    <2> HIDE DEF s
    <2>2. s[1] = x /\ s[2] = "]"
      BY <1>1, <2>1
    <2>3. PICK scan : Scanned(scan, c, s) /\ Class(c, s) = scan[1]
      BY <2>1, ScanOf
    <2>4. ~scan[2].matched /\ scan[2].next = 2 + 1
      <3>1. 2 \in 1..Len(s)
        BY <2>1
      <3>. QED
        BY <2>1, <2>2, <2>3, <3>1, ReadEnd
    <2>5. (scan[1].matched <=> scan[2].matched \/ c = x) /\ scan[1].next = scan[2].next
      <3>1. 1 \in 1..(Len(s) - 1) /\ 1 + 1 = 2 /\ s[1] # "]" /\ s[2] # "-"
        BY <2>1, <2>2, CharsAre
      <3>2. s[1 + 1] # "-"
        BY <3>1
      <3>3. /\ scan[1].matched <=> scan[1 + 1].matched \/ c = s[1]
            /\ scan[1].next = scan[1 + 1].next
        BY <2>1, <2>3, <3>1, <3>2, ReadOne
      <3>. QED
        BY <2>2, <3>1, <3>3
    <2>. QED
      BY <1>1, <2>3, <2>4, <2>5 DEF s
  <1>. QED
    BY <1>2 DEF Lists, b

LEMMA ListsTwo ==
  ASSUME NEW x \in Chars, NEW y \in Chars PROVE Lists(<<x, y, "]">>, {x, y})
  <1> DEFINE b == <<x, y, "]">>
  <1>1. b \in String /\ Len(b) = 3 /\ b[1] = x /\ b[2] = y /\ b[3] = "]"
    BY CharsAre DEF String
  <1> HIDE DEF b
  <1>2. ASSUME NEW c \in Chars, NEW q \in String
        PROVE  (Class(c, b \o q).matched <=> c \in {x, y}) /\ Class(c, b \o q).next = Len(b) + 1
    <2> DEFINE s == b \o q
    <2>1. s \in String /\ Len(s) \in Nat /\ 3 <= Len(s) /\ \A i \in 1..3 : s[i] = b[i]
      BY <1>1, FrontOf
    <2> HIDE DEF s
    <2>2. s[1] = x /\ s[2] = y /\ s[3] = "]"
      BY <1>1, <2>1
    <2>3. PICK scan : Scanned(scan, c, s) /\ Class(c, s) = scan[1]
      BY <2>1, ScanOf
    <2>4. ~scan[3].matched /\ scan[3].next = 3 + 1
      <3>1. 3 \in 1..Len(s)
        BY <2>1
      <3>. QED
        BY <2>1, <2>2, <2>3, <3>1, ReadEnd
    <2>5. (scan[2].matched <=> scan[3].matched \/ c = y) /\ scan[2].next = scan[3].next
      <3>1. 2 \in 1..(Len(s) - 1) /\ 2 + 1 = 3 /\ s[2] # "]" /\ s[3] # "-"
        BY <2>1, <2>2, CharsAre
      <3>2. s[2 + 1] # "-"
        BY <3>1
      <3>3. /\ scan[2].matched <=> scan[2 + 1].matched \/ c = s[2]
            /\ scan[2].next = scan[2 + 1].next
        BY <2>1, <2>3, <3>1, <3>2, ReadOne
      <3>. QED
        BY <2>2, <3>1, <3>3
    <2>6. (scan[1].matched <=> scan[2].matched \/ c = x) /\ scan[1].next = scan[2].next
      <3>1. 1 \in 1..(Len(s) - 1) /\ 1 + 1 = 2 /\ s[1] # "]" /\ s[2] # "-"
        BY <2>1, <2>2, CharsAre
      <3>2. s[1 + 1] # "-"
        BY <3>1
      <3>3. /\ scan[1].matched <=> scan[1 + 1].matched \/ c = s[1]
            /\ scan[1].next = scan[1 + 1].next
        BY <2>1, <2>3, <3>1, <3>2, ReadOne
      <3>. QED
        BY <2>2, <3>1, <3>3
    <2>. QED
      BY <1>1, <2>3, <2>4, <2>5, <2>6 DEF s
  <1>. QED
    BY <1>2 DEF Lists, b

LEMMA ListsRange ==
  ASSUME NEW x \in Chars, NEW y \in Chars
  PROVE  Lists(<<x, "-", y, "]">>, {c \in Chars : InRange(c, x, y)})
  <1> DEFINE b == <<x, "-", y, "]">>
             S == {c \in Chars : InRange(c, x, y)}
  <1>1. b \in String /\ Len(b) = 4 /\ b[1] = x /\ b[2] = "-" /\ b[3] = y /\ b[4] = "]"
    BY CharsAre DEF String
  <1> HIDE DEF b
  <1>2. ASSUME NEW c \in Chars, NEW q \in String
        PROVE  (Class(c, b \o q).matched <=> c \in S) /\ Class(c, b \o q).next = Len(b) + 1
    <2> DEFINE s == b \o q
    <2>1. s \in String /\ Len(s) \in Nat /\ 4 <= Len(s) /\ \A i \in 1..4 : s[i] = b[i]
      BY <1>1, FrontOf
    <2> HIDE DEF s
    <2>2. s[1] = x /\ s[2] = "-" /\ s[3] = y /\ s[4] = "]"
      BY <1>1, <2>1
    <2>3. PICK scan : Scanned(scan, c, s) /\ Class(c, s) = scan[1]
      BY <2>1, ScanOf
    <2>4. ~scan[4].matched /\ scan[4].next = 4 + 1
      <3>1. 4 \in 1..Len(s)
        BY <2>1
      <3>. QED
        BY <2>1, <2>2, <2>3, <3>1, ReadEnd
    <2>5. (scan[1].matched <=> scan[4].matched \/ InRange(c, x, y)) /\ scan[1].next = scan[4].next
      <3>1. /\ 1 \in 1..(Len(s) - 2) /\ 1 + 1 = 2 /\ 1 + 2 = 3 /\ 1 + 3 = 4
            /\ s[1] # "]" /\ s[3] # "]"
        BY <2>1, <2>2, CharsAre
      <3>2. s[1 + 1] = "-" /\ s[1 + 2] # "]"
        BY <2>2, <3>1
      <3>3. /\ scan[1].matched <=> scan[1 + 3].matched \/ InRange(c, s[1], s[1 + 2])
            /\ scan[1].next = scan[1 + 3].next
        BY <2>1, <2>3, <3>1, <3>2, ReadRange
      <3>. QED
        BY <2>2, <3>1, <3>3
    <2>. QED
      BY <1>1, <2>3, <2>4, <2>5 DEF s
  <1>. QED
    BY <1>2 DEF Lists, b

-----------------------------------------------------------------------------
(* Two alternatives, the second of which is not empty.                      *)
Without(s, c) == \A i \in 1..Len(s) : s[i] # c
Parted(u, v) == Without(u, ",") /\ Without(v, ",") /\ v # <<>>

LEMMA AlternativesAre ==
  ASSUME NEW u \in String, NEW v \in String, Parted(u, v)
  PROVE  Alternatives(u \o (<<",">> \o v)) = {u, v}
  <1> DEFINE C == ToSet(CharOrder)
             w == <<",">> \o v
             s == u \o w
             m == Len(u) + 1
             Starts == {j \in DOMAIN s : j = 1 \/ s[j - 1] = ","}
  <1>1. Len(u) \in Nat /\ Len(v) \in Nat \ {0}
    BY LenProperties, EmptySeq DEF String, Parted
  <1>2. /\ w \in String /\ Len(w) = Len(v) + 1 /\ w[1] = "," /\ From(w, 2) = v
        /\ \A i \in 1..Len(v) : w[i + 1] = v[i]
    <2>1. "," \in Letter
      BY DEF Letter
    <2>. QED
      BY <2>1, ConsIs, ConsFrom, TailIs
  <1>3. Len(w) \in Nat \ {0} /\ Len(w) = Len(v) + 1
    <2>1. Len(w) = Len(v) + 1
      BY <1>2
    <2>. QED
      BY <1>1, <2>1
  <1> HIDE DEF w
  <1>4. /\ s \in String /\ Len(s) = Len(u) + Len(w)
        /\ \A i \in 1..(Len(u) + Len(w)) :
              s[i] = IF i <= Len(u) THEN u[i] ELSE w[i - Len(u)]
    BY <1>2, ConcatProperties DEF String
  <1>5. \A i \in 1..Len(u) : s[i] = u[i] /\ s[i] # ","
    <2>1. \A i \in 1..Len(u) : i \in 1..(Len(u) + Len(w)) /\ i <= Len(u)
      BY <1>1, <1>3
    <2>2. \A i \in 1..Len(u) : s[i] = u[i]
      BY <1>4, <2>1
    <2>. QED
      BY <2>2 DEF Without, Parted
  <1>6. s[m] = "," /\ m \in 1..Len(s)
    <2>1. m \in 1..(Len(u) + Len(w)) /\ ~(m <= Len(u)) /\ m - Len(u) = 1
      BY <1>1, <1>3
    <2>2. s[m] = w[1] /\ Len(s) = Len(u) + Len(w)
      BY <1>4, <2>1
    <2>. QED
      BY <1>2, <2>1, <2>2
  <1>7. ASSUME NEW i \in 1..Len(v) PROVE s[m + i] = v[i] /\ s[m + i] # ","
    <2>1. m + i \in 1..(Len(u) + Len(w)) /\ ~(m + i <= Len(u)) /\ (m + i) - Len(u) = i + 1
      BY <1>1, <1>3
    <2>2. s[m + i] = w[i + 1]
      BY <1>4, <2>1
    <2>3. w[i + 1] = v[i]
      BY <1>2
    <2>. QED
      BY <2>2, <2>3 DEF Without, Parted
  <1>8. Len(s) = m + Len(v) /\ DOMAIN s = 1..Len(s)
    <2>1. DOMAIN s = 1..Len(s) /\ Len(s) = Len(u) + Len(w)
      BY <1>4, LenProperties DEF String
    <2>2. Len(u) + Len(w) = m + Len(v)
      BY <1>1, <1>3
    <2>. QED
      BY <2>1, <2>2
  <1> HIDE DEF s, m
  <1>9. m \in Nat \ {0}
    BY <1>1 DEF m
  <1>10. Starts = {1, m + 1}
    <2>1. ASSUME NEW j \in 1..(m + Len(v)), j = 1 \/ s[j - 1] = "," PROVE j \in {1, m + 1}
      <3>1. j = 1 \/ j = m + 1 \/ j > m + 1 \/ j - 1 \in 1..Len(u)
        BY <1>1, <1>9 DEF m
      <3>2. j - 1 \in 1..Len(u) => s[j - 1] # ","
        BY <1>5
      <3>3. ASSUME j > m + 1 PROVE s[j - 1] # ","
        <4>1. (j - 1) - m \in 1..Len(v) /\ m + ((j - 1) - m) = j - 1
          BY <1>1, <1>9, <3>3
        <4>. QED
          BY <1>7, <4>1
      <3>. QED
        BY <2>1, <3>1, <3>2, <3>3
    <2>2. 1 \in Starts
      BY <1>1, <1>8, <1>9
    <2>3. m + 1 \in Starts
      <3>1. m + 1 \in 1..Len(s) /\ (m + 1) - 1 = m
        BY <1>1, <1>8, <1>9
      <3>. QED
        BY <1>6, <1>8, <3>1
    <2>. QED
      BY <1>8, <2>1, <2>2, <2>3
  <1>11. Upto(From(s, 1), ",") = u
    <2>1. From(s, 1) = s
      BY <1>4, SubSeqFull DEF From, String
    <2>2. First(s, ",") = m
      <3>1. s \in Seq(C)
        BY <1>4 DEF String
      <3>2. \A i \in 1..(m - 1) : s[i] # ","
        <4>1. m - 1 = Len(u)
          BY <1>1 DEF m
        <4>. QED
          BY <1>5, <4>1
      <3>. QED
        BY <1>6, <3>1, <3>2, FirstIs
    <2>3. SubSeq(s, 1, m - 1) = u
      <3> DEFINE r == SubSeq(s, 1, Len(u))
      <3>1. r \in Seq(C) /\ Len(r) = Len(u) /\ \A i \in 1..Len(u) : r[i] = s[i]
        <4>1. 1 \in Int /\ Len(u) \in Int
          BY <1>1
        <4>2. \A i \in 1..Len(u) : s[i] \in C
          BY <1>5, ElementOfSeq DEF String
        <4>3. /\ r \in Seq(C)
              /\ Len(r) = IF 1 <= Len(u) THEN Len(u) - 1 + 1 ELSE 0
              /\ \A i \in 1..(Len(u) - 1 + 1) : r[i] = s[1 + i - 1]
          BY <4>1, <4>2, SubSeqProperties
        <4> HIDE DEF r
        <4>4. Len(u) - 1 + 1 = Len(u) /\ \A i \in 1..Len(u) : 1 + i - 1 = i
          BY <1>1
        <4>5. Len(r) = Len(u)
          BY <1>1, <4>3
        <4>. QED
          BY <4>3, <4>4, <4>5
      <3> HIDE DEF r
      <3>2. r = u
        BY <1>5, <3>1, SeqEqual DEF String
      <3>3. m - 1 = Len(u)
        BY <1>1 DEF m
      <3>. QED
        BY <3>2, <3>3 DEF r
    <2>. QED
      BY <1>9, <2>1, <2>2, <2>3 DEF Upto
  <1>12. Upto(From(s, m + 1), ",") = v
    <2>1. From(s, m + 1) = v
      <3> DEFINE k == m + 1
                 r == From(s, k)
      <3>1. k \in 1..(Len(s) + 1)
        BY <1>1, <1>8, <1>9
      <3>2. r \in Seq(C) /\ Len(r) = Len(s) + 1 - k /\ \A i \in 1..Len(r) : r[i] = s[k + i - 1]
        <4>1. s \in Seq(C)
          BY <1>4 DEF String
        <4> HIDE DEF k
        <4>. QED
          BY <3>1, <4>1, FromIs
      <3>3. Len(r) = Len(v) /\ \A i \in 1..Len(r) : k + i - 1 = m + i
        BY <1>1, <1>8, <1>9, <3>2
      <3> HIDE DEF k, r
      <3>4. \A i \in 1..Len(v) : r[i] = v[i]
        BY <1>7, <3>2, <3>3
      <3>5. r = v
        BY <3>2, <3>3, <3>4, SeqEqual DEF String
      <3>. QED
        BY <3>5 DEF k, r
    <2>2. First(v, ",") = 0
      BY FirstNone DEF Without, Parted
    <2>. QED
      BY <2>1, <2>2 DEF Upto
  <1>13. Alternatives(s) = {Upto(From(s, i), ",") : i \in Starts}
    BY DEF Alternatives
  <1> HIDE DEF Starts
  <1>. QED
    BY <1>10, <1>11, <1>12, <1>13 DEF s, w

(* A text is matched by braces before a pattern, if it is matched by one of  *)
(* the alternatives before that pattern.                                   *)
Encloses(b, body) ==
  /\ Len(b) = Len(body) + 2 /\ b[1] = "{" /\ b[Len(body) + 2] = "}"
  /\ \A i \in 1..Len(body) : b[i + 1] = body[i] /\ body[i] # "}"

LEMMA MatchBrace ==
  ASSUME NEW b \in String, NEW body \in String, Encloses(b, body),
         NEW q \in String, NEW t \in String
  PROVE  wmatch[b \o q][t] <=> \E seg \in Alternatives(body) : wmatch[seg \o q][t]
  <1> DEFINE p == b \o q
             k == Len(body) + 2
             C == ToSet(CharOrder)
  <1>1. Len(body) \in Nat
    BY LenProperties DEF String
  <1>2. Len(b) = k
    BY DEF Encloses
  <1>3. p \in String /\ \A i \in 1..k : p[i] = b[i]
    BY <1>2, FrontOf
  <1>4. k \in 1..Len(p)
    <2>1. Len(p) \in Nat /\ k <= Len(p)
      BY <1>2, FrontOf
    <2> HIDE DEF p
    <2>. QED
      BY <1>1, <2>1
  <1>5. From(p, k + 1) = q
    BY <1>2, FromConcat DEF String
  <1> HIDE DEF p
  <1>6. p[1] = "{" /\ p[k] = "}"
    <2>1. 1 \in 1..k /\ k \in 1..k
      BY <1>1
    <2>. QED
      BY <1>3, <2>1 DEF Encloses
  <1>7. ASSUME NEW i \in 1..Len(body) PROVE p[i + 1] = body[i] /\ p[i + 1] # "}"
    <2>1. i + 1 \in 1..k
      BY <1>1
    <2>. QED
      BY <1>3, <2>1 DEF Encloses
  <1> HIDE DEF k
  <1>8. p # <<>> /\ Head(p) = "{"
    <2>1. p # <<>>
      <3>1. Len(p) # 0
        BY <1>4
      <3>. QED
        BY <3>1, EmptySeq
    <2>. QED
      BY <1>3, <1>6, <2>1, TailIs
  <1>9. First(p, "}") = k /\ k # 0
    <2>1. \A i \in 1..(k - 1) : p[i] # "}"
      <3>1. ASSUME NEW i \in 1..(k - 1) PROVE p[i] # "}"
        <4>1. i = 1 \/ (i - 1 \in 1..Len(body) /\ (i - 1) + 1 = i)
          BY <1>1 DEF k
        <4>. QED
          BY <1>6, <1>7, <4>1
      <3>. QED
        BY <3>1
    <2>2. p \in Seq(C)
      BY <1>3 DEF String
    <2>3. First(p, "}") = k
      BY <1>4, <1>6, <2>1, <2>2, FirstIs
    <2>4. k # 0
      BY <1>1 DEF k
    <2>. QED
      BY <2>3, <2>4
  <1>10. SubSeq(p, 2, k - 1) = body
    <2> DEFINE r == SubSeq(p, 2, k - 1)
    <2>1. k - 1 = Len(body) + 1 /\ k - 1 \in Int /\ 2 \in Int /\ 2..(k - 1) \subseteq 1..Len(p)
      BY <1>1, <1>4 DEF k
    <2>2. \A i \in 2..(k - 1) : p[i] \in C
      BY <1>3, <2>1, ElementOfSeq DEF String
    <2>3. /\ r \in Seq(C)
          /\ Len(r) = IF 2 <= k - 1 THEN k - 1 - 2 + 1 ELSE 0
          /\ \A i \in 1..(k - 1 - 2 + 1) : r[i] = p[2 + i - 1]
      BY <2>1, <2>2, SubSeqProperties
    <2> HIDE DEF r
    <2>4. Len(r) = Len(body) /\ k - 1 - 2 + 1 = Len(body)
      BY <1>1, <2>1, <2>3
    <2>5. \A i \in 1..Len(body) : r[i] = body[i]
      <3>1. ASSUME NEW i \in 1..Len(body) PROVE r[i] = body[i]
        <4>1. 2 + i - 1 = i + 1
          BY <1>1
        <4>2. r[i] = p[2 + i - 1]
          BY <2>3, <2>4
        <4>. QED
          BY <1>7, <4>1, <4>2
      <3>. QED
        BY <3>1
    <2>6. r = body
      BY <2>3, <2>4, <2>5, SeqEqual DEF String
    <2>. QED
      BY <2>6 DEF r
  <1>11. wmatch[p][t] <=> BraceTurn(wmatch, p, t)
    BY <1>3, <1>8, <1>9, MatchIs DEF Turn
  <1>12. BraceTurn(wmatch, p, t) <=> \E seg \in Alternatives(body) : wmatch[seg \o q][t]
    BY <1>5, <1>9, <1>10 DEF BraceTurn, Tried
  <1>. QED
    BY <1>11, <1>12 DEF p

-----------------------------------------------------------------------------
(* What a pattern stands for, whatever follows it: it takes one of its texts *)
(* off the front, and leaves the rest to what follows.                     *)
Begins(t, texts, q) == \E u \in texts, z \in Texts : t = u \o z /\ wmatch[q][z]

Reads(pat, texts) ==
  /\ pat \in String /\ texts \subseteq Seq(Chars)
  /\ \A q \in String, t \in Texts : wmatch[pat \o q][t] <=> Begins(t, texts, q)

LEMMA TextsAre ==
  /\ \A t : t \in Texts <=> t \in Seq(Chars) /\ Len(t) <= MaxText
  /\ Seq(Chars) \subseteq String /\ Texts \subseteq String /\ <<>> \in Texts
  <1>1. MaxText \in Nat
    BY GlobInputsAssumption
  <1>2. ASSUME NEW t \in Texts PROVE t \in Seq(Chars) /\ Len(t) <= MaxText
    <2>1. PICK m \in 0..MaxText : t \in [1..m -> Chars]
      BY DEF Texts, BoundedSeq, SeqOf
    <2>2. t \in Seq(Chars) /\ m \in Nat
      <3>1. m \in Nat
        BY <1>1
      <3>. QED
        BY <2>1, <3>1, SeqDef
    <2>3. Len(t) = m
      <3>1. DOMAIN t = 1..m /\ DOMAIN t = 1..Len(t) /\ Len(t) \in Nat
        BY <2>1, <2>2, LenProperties
      <3>2. \A x, y \in Nat : 1..x = 1..y => x = y
        <4>1. ASSUME NEW x \in Nat, NEW y \in Nat, 1..x = 1..y PROVE ~(x < y)
          <5>1. x < y => y \in 1..y /\ y \notin 1..x
            OBVIOUS
          <5>. QED
            BY <4>1, <5>1
        <4>2. ASSUME NEW x \in Nat, NEW y \in Nat, 1..x = 1..y PROVE x = y
          <5>1. ~(x < y) /\ ~(y < x)
            BY <4>1, <4>2
          <5>. QED
            BY <5>1
        <4>. QED
          BY <4>2
      <3>. QED
        BY <2>2, <3>1, <3>2
    <2>. QED
      BY <1>1, <2>2, <2>3
  <1>3. ASSUME NEW t \in Seq(Chars), Len(t) <= MaxText PROVE t \in Texts
    <2>1. Len(t) \in 0..MaxText /\ t \in [1..Len(t) -> Chars]
      BY <1>1, <1>3, LenProperties
    <2>. QED
      BY <2>1 DEF Texts, BoundedSeq, SeqOf
  <1>4. Seq(Chars) \subseteq String
    BY CharsAre, SeqMonotonic DEF String
  <1>5. <<>> \in Seq(Chars) /\ Len(<<>>) <= MaxText
    BY <1>1, EmptySeq
  <1>. QED
    BY <1>2, <1>3, <1>4, <1>5

(* The parts of a text are texts.                                           *)
LEMMA PartsAre ==
  ASSUME NEW u \in Seq(Chars), NEW z \in Seq(Chars), u \o z \in Texts
  PROVE  u \in Texts /\ z \in Texts
  <1>1. Len(u) \in Nat /\ Len(z) \in Nat /\ MaxText \in Nat
    BY LenProperties, GlobInputsAssumption
  <1>2. Len(u \o z) = Len(u) + Len(z)
    BY ConcatProperties
  <1>3. Len(u \o z) <= MaxText
    BY TextsAre
  <1>4. Len(u) <= MaxText /\ Len(z) <= MaxText
    BY <1>1, <1>2, <1>3
  <1>. QED
    BY <1>4, TextsAre

(* No pattern takes nothing.                                                *)
LEMMA ReadsNone == Reads(<<>>, {<<>>})
  <1>1. <<>> \in String /\ <<>> \in Seq(Chars)
    BY EmptySeq DEF String
  <1>2. ASSUME NEW q \in String, NEW t \in Texts
        PROVE  wmatch[<<>> \o q][t] <=>
                  \E u \in {<<>>}, z \in Texts : t = u \o z /\ wmatch[q][z]
    <2>1. <<>> \o q = q
      BY ConcatEmptySeq DEF String
    <2>2. \A z \in Texts : <<>> \o z = z
      BY TextsAre, ConcatEmptySeq
    <2>. QED
      BY <2>1, <2>2
  <1>. QED
    BY <1>1, <1>2 DEF Reads, Begins

(* A pattern that stands for single characters.                             *)
LEMMA ReadsSingles ==
  ASSUME NEW pat \in String, NEW S \in SUBSET Chars,
         \A q \in String, t \in Texts :
            wmatch[pat \o q][t] <=> t # <<>> /\ Head(t) \in S /\ wmatch[q][Tail(t)]
  PROVE  Reads(pat, Singles(S))
  <1>1. Singles(S) \subseteq Seq(Chars)
    <2>1. \A c \in Chars : <<c>> \in Seq(Chars)
      OBVIOUS
    <2>. QED
      BY <2>1 DEF Singles
  <1>2. ASSUME NEW q \in String, NEW t \in Texts
        PROVE  wmatch[pat \o q][t] <=>
                  \E u \in Singles(S), z \in Texts : t = u \o z /\ wmatch[q][z]
    <2>1. t \in Seq(Chars)
      BY TextsAre
    <2>2. ASSUME t # <<>>, Head(t) \in S, wmatch[q][Tail(t)]
          PROVE  \E u \in Singles(S), z \in Texts : t = u \o z /\ wmatch[q][z]
      <3>1. t = <<Head(t)>> \o Tail(t) /\ Tail(t) \in Seq(Chars)
        BY <2>1, <2>2, HeadAndTail
      <3>2. <<Head(t)>> \in Singles(S) /\ <<Head(t)>> \in Seq(Chars)
        BY <1>1, <2>2 DEF Singles
      <3>3. Tail(t) \in Texts
        BY <3>1, <3>2, PartsAre
      <3>. QED
        BY <2>2, <3>1, <3>2, <3>3
    <2>3. ASSUME NEW u \in Singles(S), NEW z \in Texts, t = u \o z, wmatch[q][z]
          PROVE  t # <<>> /\ Head(t) \in S /\ wmatch[q][Tail(t)]
      <3>1. PICK c \in S : u = <<c>>
        BY DEF Singles
      <3>2. c \in Letter /\ z \in String
        BY CharsAre, Letters, TextsAre
      <3>3. t # <<>> /\ Head(t) = c /\ Tail(t) = z
        BY <2>3, <3>1, <3>2, ConsIs
      <3>. QED
        BY <2>3, <3>3
    <2>. QED
      BY <1>2, <2>2, <2>3
  <1>. QED
    BY <1>1, <1>2 DEF Reads, Begins

(* A star stands for every text.                                            *)
LEMMA ReadsStar == Reads(<<"*">>, Texts)
  <1>1. <<"*">> \in String
    <2>1. "*" \in ToSet(CharOrder)
      BY Letters DEF Letter
    <2>. QED
      BY <2>1 DEF String
  <1>2. ASSUME NEW q \in String, NEW t \in Texts
        PROVE  wmatch[<<"*">> \o q][t] <=>
                  \E u \in Texts, z \in Texts : t = u \o z /\ wmatch[q][z]
    <2>1. t \in Seq(Chars) /\ t \in String /\ Len(t) \in Nat
      BY TextsAre, LenProperties
    <2>2. ASSUME NEW z \in StarEnds(t)
          PROVE  z \in Texts /\ \E u \in Texts : t = u \o z
      <3>1. PICK i \in 1..(Len(t) + 1) : z = SubSeq(t, i, Len(t))
        BY DEF StarEnds, From
      <3> DEFINE u == SubSeq(t, 1, i - 1)
      <3>2. 1 \in 1..(Len(t) + 1) /\ i - 1 \in 0..Len(t) /\ Len(t) \in (i - 1)..Len(t)
            /\ (i - 1) + 1 = i
        BY <2>1
      <3>3. u \o z = SubSeq(t, 1, Len(t))
        <4> DEFINE k == i - 1
        <4>1. k \in (1 - 1)..Len(t) /\ Len(t) \in k..Len(t) /\ k + 1 = i
          BY <2>1, <3>2
        <4> HIDE DEF k
        <4>2. SubSeq(t, 1, k) \o SubSeq(t, k + 1, Len(t)) = SubSeq(t, 1, Len(t))
          BY <2>1, <3>2, <4>1, ConcatAdjacentSubSeq
        <4>3. SubSeq(t, 1, k) \o SubSeq(t, i, Len(t)) = SubSeq(t, 1, Len(t))
          BY <4>1, <4>2
        <4>. QED
          BY <3>1, <4>3 DEF k
      <3>4. u \o z = t
        BY <2>1, <3>3, SubSeqFull
      <3>5. z \in Seq(Chars)
        BY <2>1, <3>1, FromIs DEF From
      <3>6. u \in Seq(Chars)
        <4>1. 1 \in Int /\ i - 1 \in Int /\ \A j \in 1..(i - 1) : j \in 1..Len(t)
          BY <2>1
        <4>2. \A j \in 1..(i - 1) : t[j] \in Chars
          BY <2>1, <4>1, ElementOfSeq
        <4>. QED
          BY <4>1, <4>2, SubSeqProperties
      <3> HIDE DEF u
      <3>7. u \in Texts /\ z \in Texts
        BY <3>4, <3>5, <3>6, PartsAre
      <3>. QED
        BY <3>4, <3>7
    <2>3. ASSUME NEW u \in Texts, NEW z \in Texts, t = u \o z PROVE z \in StarEnds(t)
      <3>1. u \in Seq(Chars) /\ z \in Seq(Chars) /\ Len(u) \in Nat /\ Len(z) \in Nat
        BY TextsAre, LenProperties
      <3>2. From(t, Len(u) + 1) = z
        BY <2>3, <3>1, FromConcat
      <3>3. Len(t) = Len(u) + Len(z)
        BY <2>3, <3>1, ConcatProperties
      <3>4. Len(u) + 1 \in 1..(Len(t) + 1)
        BY <3>1, <3>3
      <3>. QED
        BY <3>2, <3>4 DEF StarEnds
    <2>4. wmatch[<<"*">> \o q][t] <=> \E z \in StarEnds(t) : wmatch[q][z]
      BY <2>1, MatchStar
    <2>. QED
      BY <2>2, <2>3, <2>4
  <1>. QED
    BY <1>1, <1>2, TextsAre DEF Reads, Begins

LEMMA ReadsIs ==
  ASSUME NEW p, NEW X, Reads(p, X), NEW q \in String, NEW t \in Texts
  PROVE  /\ p \in String /\ X \subseteq Seq(Chars)
         /\ wmatch[p \o q][t] <=> Begins(t, X, q)
  BY DEF Reads

(* Two patterns one after the other stand for the texts of the one, each     *)
(* followed by one of the other.                                           *)
Pairs(Z, X, Y) ==
  /\ Z \subseteq Seq(Chars)
  /\ \A w \in Texts : w \in Z <=> \E x \in X, y \in Y : w = x \o y

LEMMA ReadsBoth ==
  ASSUME NEW p, NEW X, NEW r, NEW Y, NEW Z, Reads(p, X), Reads(r, Y), Pairs(Z, X, Y)
  PROVE  Reads(p \o r, Z)
  <1>1. /\ p \in String /\ r \in String /\ X \subseteq Seq(Chars) /\ Y \subseteq Seq(Chars)
        /\ Z \subseteq Seq(Chars)
    BY DEF Reads, Pairs
  <1>2. p \o r \in String
    BY <1>1, ConcatProperties DEF String
  <1>3. ASSUME NEW q \in String, NEW t \in Texts
        PROVE  wmatch[(p \o r) \o q][t] <=> Begins(t, Z, q)
    <2>1. (p \o r) \o q = p \o (r \o q)
      BY <1>1, ConcatAssociative DEF String
    <2>2. r \o q \in String
      BY <1>1, ConcatProperties DEF String
    <2>3. wmatch[(p \o r) \o q][t] <=> Begins(t, X, r \o q)
      BY <2>1, <2>2, ReadsIs
    <2>4. ASSUME NEW v \in Texts PROVE wmatch[r \o q][v] <=> Begins(v, Y, q)
      BY ReadsIs
    <2>5. ASSUME NEW x \in X, NEW y \in Y, NEW z \in Texts
          PROVE  (x \o y) \o z = x \o (y \o z) /\ x \o y \in Seq(Chars) /\ z \in Seq(Chars)
                 /\ y \o z \in Seq(Chars) /\ x \in Seq(Chars)
      <3>1. x \in Seq(Chars) /\ y \in Seq(Chars) /\ z \in Seq(Chars)
        BY <1>1, TextsAre
      <3>2. (x \o y) \o z = x \o (y \o z)
        BY <3>1, ConcatAssociative
      <3>3. x \o y \in Seq(Chars) /\ y \o z \in Seq(Chars)
        BY <3>1, ConcatProperties
      <3>. QED
        BY <3>1, <3>2, <3>3
    <2>6. ASSUME NEW x \in X, NEW v \in Texts, NEW y \in Y, NEW z \in Texts,
                 t = x \o v, v = y \o z, wmatch[q][z]
          PROVE  Begins(t, Z, q)
      <3>1. t = (x \o y) \o z
        BY <2>5, <2>6
      <3>2. x \o y \in Texts
        BY <2>5, <3>1, PartsAre
      <3>3. x \o y \in Z
        BY <3>2 DEF Pairs
      <3>. QED
        BY <2>6, <3>1, <3>3 DEF Begins
    <2>7. ASSUME NEW w \in Z, NEW z \in Texts, t = w \o z, wmatch[q][z]
          PROVE  Begins(t, X, r \o q)
      <3>1. w \in Seq(Chars) /\ z \in Seq(Chars)
        BY <1>1, TextsAre
      <3>2. w \in Texts
        BY <2>7, <3>1, PartsAre
      <3>3. PICK x \in X, y \in Y : w = x \o y
        BY <3>2 DEF Pairs
      <3>4. t = x \o (y \o z)
        BY <2>5, <2>7, <3>3
      <3>5. y \o z \in Texts
        BY <2>5, <3>4, PartsAre
      <3>6. Begins(y \o z, Y, q)
        BY <2>7 DEF Begins
      <3>7. wmatch[r \o q][y \o z]
        BY <2>4, <3>5, <3>6
      <3>. QED
        BY <3>4, <3>5, <3>7 DEF Begins
    <2>8. Begins(t, X, r \o q) => Begins(t, Z, q)
      <3>1. ASSUME NEW x \in X, NEW v \in Texts, t = x \o v, wmatch[r \o q][v]
            PROVE  Begins(t, Z, q)
        <4>1. Begins(v, Y, q)
          BY <2>4, <3>1
        <4>2. PICK y \in Y, z \in Texts : v = y \o z /\ wmatch[q][z]
          BY <4>1 DEF Begins
        <4>. QED
          BY <2>6, <3>1, <4>2
      <3>. QED
        BY <3>1 DEF Begins
    <2>9. Begins(t, Z, q) => Begins(t, X, r \o q)
      BY <2>7 DEF Begins
    <2>. QED
      BY <2>3, <2>8, <2>9
  <1>. QED
    BY <1>1, <1>2, <1>3 DEF Reads

(* Braces stand for the texts of both alternatives.                         *)
LEMMA ReadsEither ==
  ASSUME NEW b \in String, NEW body \in String, Encloses(b, body),
         NEW p, NEW X, NEW r, NEW Y, Reads(p, X), Reads(r, Y), Alternatives(body) = {p, r}
  PROVE  Reads(b, X \cup Y)
  <1>1. ASSUME NEW q \in String, NEW t \in Texts
        PROVE  wmatch[b \o q][t] <=> Begins(t, X \cup Y, q)
    <2>1. t \in String
      BY TextsAre
    <2>2. wmatch[b \o q][t] <=> wmatch[p \o q][t] \/ wmatch[r \o q][t]
      BY <2>1, MatchBrace
    <2>3. wmatch[p \o q][t] <=> Begins(t, X, q)
      BY ReadsIs
    <2>4. wmatch[r \o q][t] <=> Begins(t, Y, q)
      BY ReadsIs
    <2>5. Begins(t, X \cup Y, q) <=> Begins(t, X, q) \/ Begins(t, Y, q)
      BY DEF Begins
    <2>. QED
      BY <2>2, <2>3, <2>4, <2>5
  <1>2. X \cup Y \subseteq Seq(Chars)
    BY DEF Reads
  <1>. QED
    BY <1>1, <1>2 DEF Reads

-----------------------------------------------------------------------------
(* A class stands for the characters it lists, and a negated one for the     *)
(* others.                                                                 *)
LEMMA ReadsClass ==
  ASSUME NEW b \in String, NEW S \in SUBSET Chars, Lists(b, S),
         b # <<>>, b[1] \notin {"!", "^"}
  PROVE  /\ Reads(<<"[">> \o b, Singles(S))
         /\ \A n \in {"!", "^"} : Reads(<<"[">> \o (<<n>> \o b), Singles(Chars \ S))
  <1>1. <<"[">> \in String /\ \A n \in {"!", "^"} : <<n>> \in String
    <2>1. "[" \in ToSet(CharOrder) /\ "!" \in ToSet(CharOrder) /\ "^" \in ToSet(CharOrder)
      BY Letters DEF Letter
    <2>. QED
      BY <2>1 DEF String
  <1>2. <<"[">> \o b \in String /\ \A n \in {"!", "^"} :
          <<n>> \o b \in String /\ <<"[">> \o (<<n>> \o b) \in String
    BY <1>1, ConcatProperties DEF String
  <1>3. ASSUME NEW q \in String
        PROVE  /\ (<<"[">> \o b) \o q = <<"[">> \o (b \o q)
               /\ \A n \in {"!", "^"} :
                    (<<"[">> \o (<<n>> \o b)) \o q = <<"[">> \o (<<n>> \o (b \o q))
    <2>1. (<<"[">> \o b) \o q = <<"[">> \o (b \o q)
      BY <1>1, ConcatAssociative DEF String
    <2>2. ASSUME NEW n \in {"!", "^"}
          PROVE  (<<"[">> \o (<<n>> \o b)) \o q = <<"[">> \o (<<n>> \o (b \o q))
      <3>1. (<<"[">> \o (<<n>> \o b)) \o q = <<"[">> \o ((<<n>> \o b) \o q)
        BY <1>1, <1>2, ConcatAssociative DEF String
      <3>2. (<<n>> \o b) \o q = <<n>> \o (b \o q)
        BY <1>1, ConcatAssociative DEF String
      <3>. QED
        BY <3>1, <3>2
    <2>. QED
      BY <2>1, <2>2
  <1>4. ASSUME NEW t \in Texts PROVE t \in String /\ (t # <<>> => Head(t) \in Chars)
    <2>1. t \in Seq(Chars) /\ t \in String
      BY TextsAre
    <2>. QED
      BY <2>1, HeadAndTail
  <1>5. ASSUME NEW q \in String, NEW t \in Texts
        PROVE  /\ wmatch[(<<"[">> \o b) \o q][t] <=>
                    t # <<>> /\ Head(t) \in S /\ wmatch[q][Tail(t)]
               /\ \A n \in {"!", "^"} :
                    wmatch[(<<"[">> \o (<<n>> \o b)) \o q][t] <=>
                        t # <<>> /\ Head(t) \in Chars \ S /\ wmatch[q][Tail(t)]
    <2>1. t \in String /\ (t # <<>> => Head(t) \in Chars)
      BY <1>4
    <2>2. /\ wmatch[<<"[">> \o (b \o q)][t] <=>
                t # <<>> /\ Head(t) \in S /\ wmatch[q][Tail(t)]
          /\ \A n \in {"!", "^"} :
               wmatch[<<"[">> \o (<<n>> \o (b \o q))][t] <=>
                t # <<>> /\ Head(t) \notin S /\ wmatch[q][Tail(t)]
      BY <2>1, MatchClass
    <2>. QED
      BY <1>3, <2>1, <2>2
  <1>6. Reads(<<"[">> \o b, Singles(S))
    BY <1>2, <1>5, ReadsSingles
  <1>7. ASSUME NEW n \in {"!", "^"}
        PROVE  Reads(<<"[">> \o (<<n>> \o b), Singles(Chars \ S))
    <2>1. \A q \in String, t \in Texts :
            wmatch[(<<"[">> \o (<<n>> \o b)) \o q][t] <=>
                t # <<>> /\ Head(t) \in Chars \ S /\ wmatch[q][Tail(t)]
      BY <1>5
    <2>2. <<"[">> \o (<<n>> \o b) \in String /\ Chars \ S \in SUBSET Chars
      BY <1>2
    <2>. QED
      BY <2>1, <2>2, ReadsSingles
  <1>. QED
    BY <1>6, <1>7

LEMMA ReadsLiteral ==
  ASSUME NEW c \in Chars PROVE Reads(<<c>>, {<<c>>})
  <1>1. <<c>> \in String
    BY CharsAre DEF String
  <1>2. ASSUME NEW q \in String, NEW t \in Texts
        PROVE  wmatch[<<c>> \o q][t] <=> t # <<>> /\ Head(t) \in {c} /\ wmatch[q][Tail(t)]
    <2>1. t \in String
      BY TextsAre
    <2>. QED
      BY <2>1, MatchLiteral
  <1>3. {c} \in SUBSET Chars /\ Singles({c}) = {<<c>>}
    BY DEF Singles
  <1>4. Reads(<<c>>, Singles({c}))
    BY <1>1, <1>2, <1>3, ReadsSingles
  <1>. QED
    BY <1>3, <1>4

LEMMA ReadsAny == Reads(<<"?">>, Singles(Chars))
  <1>1. <<"?">> \in String
    <2>1. "?" \in ToSet(CharOrder)
      BY Letters DEF Letter
    <2>. QED
      BY <2>1 DEF String
  <1>2. ASSUME NEW q \in String, NEW t \in Texts
        PROVE  wmatch[<<"?">> \o q][t] <=> t # <<>> /\ Head(t) \in Chars /\ wmatch[q][Tail(t)]
    <2>1. t \in String /\ t \in Seq(Chars)
      BY TextsAre
    <2>2. t # <<>> => Head(t) \in Chars
      BY <2>1, HeadAndTail
    <2>. QED
      BY <2>1, <2>2, MatchAny
  <1>3. Chars \in SUBSET Chars
    OBVIOUS
  <1>. QED
    BY <1>1, <1>2, <1>3, ReadsSingles

(* A class of the given pieces.                                             *)
LEMMA ReadsClasses ==
  /\ Reads(<<"[", "a", "c", "]">>, Singles({"a", "c"}))
  /\ Reads(<<"[", "a", "-", "b", "]">>, Singles({"a", "b"}))
  /\ Reads(<<"[", "!", "a", "]">>, Singles(Chars \ {"a"}))
  /\ Reads(<<"[", "^", "b", "-", "c", "]">>, Singles({"a"}))
  <1>1. "a" \in Chars /\ "b" \in Chars /\ "c" \in Chars
    BY DEF Chars
  <1>2. "]" \in ToSet(CharOrder) /\ "-" \in ToSet(CharOrder) /\ "a" \in ToSet(CharOrder)
        /\ "b" \in ToSet(CharOrder) /\ "c" \in ToSet(CharOrder)
    BY Letters DEF Letter
  <1>3. Reads(<<"[", "a", "c", "]">>, Singles({"a", "c"}))
    <2> DEFINE b == <<"a", "c", "]">>
               S == {"a", "c"}
    <2>1. b \in String /\ b # <<>> /\ b[1] \notin {"!", "^"} /\ S \in SUBSET Chars
      BY <1>1, <1>2 DEF String
    <2>2. Lists(b, S)
      BY <1>1, ListsTwo
    <2>3. Reads(<<"[">> \o b, Singles(S))
      BY <2>1, <2>2, ReadsClass
    <2>4. <<"[">> \o b = <<"[", "a", "c", "]">>
      BY Prefixed3
    <2>. QED
      BY <2>3, <2>4
  <1>4. Reads(<<"[", "a", "-", "b", "]">>, Singles({"a", "b"}))
    <2> DEFINE b == <<"a", "-", "b", "]">>
               S == {"a", "b"}
    <2>1. b \in String /\ b # <<>> /\ b[1] \notin {"!", "^"} /\ S \in SUBSET Chars
      BY <1>1, <1>2 DEF String
    <2>2. S = {c \in Chars : InRange(c, "a", "b")}
      <3>1. InRange("a", "a", "b") /\ InRange("b", "a", "b") /\ ~InRange("c", "a", "b")
        BY Codes DEF InRange
      <3>. QED
        BY <3>1 DEF Chars
    <2>3. Lists(b, S)
      <3>1. Lists(b, {c \in Chars : InRange(c, "a", "b")})
        BY <1>1, ListsRange
      <3>. QED
        BY <2>2, <3>1
    <2>4. Reads(<<"[">> \o b, Singles(S))
      BY <2>1, <2>3, ReadsClass
    <2>5. <<"[">> \o b = <<"[", "a", "-", "b", "]">>
      BY Prefixed4
    <2>. QED
      BY <2>4, <2>5
  <1>5. Reads(<<"[", "!", "a", "]">>, Singles(Chars \ {"a"}))
    <2> DEFINE b == <<"a", "]">>
               S == {"a"}
    <2>1. b \in String /\ b # <<>> /\ b[1] \notin {"!", "^"} /\ S \in SUBSET Chars
      BY <1>1, <1>2 DEF String
    <2>2. Lists(b, S)
      BY <1>1, ListsOne
    <2>3. Reads(<<"[">> \o (<<"!">> \o b), Singles(Chars \ S))
      BY <2>1, <2>2, ReadsClass
    <2>4. <<"!">> \o b = <<"!", "a", "]">> /\ <<"[">> \o <<"!", "a", "]">> = <<"[", "!", "a", "]">>
      BY Prefixed2, Prefixed3
    <2>. QED
      BY <2>3, <2>4
  <1>6. Reads(<<"[", "^", "b", "-", "c", "]">>, Singles({"a"}))
    <2> DEFINE b == <<"b", "-", "c", "]">>
               S == {"b", "c"}
    <2>1. b \in String /\ b # <<>> /\ b[1] \notin {"!", "^"} /\ S \in SUBSET Chars
      BY <1>1, <1>2 DEF String
    <2>2. S = {c \in Chars : InRange(c, "b", "c")}
      <3>1. ~InRange("a", "b", "c") /\ InRange("b", "b", "c") /\ InRange("c", "b", "c")
        BY Codes DEF InRange
      <3>. QED
        BY <3>1 DEF Chars
    <2>3. Lists(b, S)
      <3>1. Lists(b, {c \in Chars : InRange(c, "b", "c")})
        BY <1>1, ListsRange
      <3>. QED
        BY <2>2, <3>1
    <2>4. Reads(<<"[">> \o (<<"^">> \o b), Singles(Chars \ S))
      BY <2>1, <2>3, ReadsClass
    <2>5. <<"^">> \o b = <<"^", "b", "-", "c", "]">>
          /\ <<"[">> \o <<"^", "b", "-", "c", "]">> = <<"[", "^", "b", "-", "c", "]">>
      BY Prefixed4, Prefixed5
    <2>6. Chars \ S = {"a"}
      BY DEF Chars
    <2>. QED
      BY <2>4, <2>5, <2>6
  <1>. QED
    BY <1>3, <1>4, <1>5, <1>6

(* The two halves of a pair of braces.                                      *)
LEMMA ReadsTwoLetters == Reads(<<"b", "c">>, {<<"b", "c">>})
  <1>1. "b" \in Chars /\ "c" \in Chars
    BY DEF Chars
  <1>2. Reads(<<"b">>, {<<"b">>}) /\ Reads(<<"c">>, {<<"c">>})
    BY <1>1, ReadsLiteral
  <1>3. <<"b">> \o <<"c">> = <<"b", "c">>
    BY Prefixed1
  <1>4. {<<"b", "c">>} \subseteq Seq(Chars)
    BY <1>1
  <1>5. Pairs({<<"b", "c">>}, {<<"b">>}, {<<"c">>})
    BY <1>3, <1>4 DEF Pairs
  <1>6. Reads(<<"b">> \o <<"c">>, {<<"b", "c">>})
    BY <1>2, <1>5, ReadsBoth
  <1>. QED
    BY <1>3, <1>6

LEMMA ReadsLetterAndStar ==
  Reads(<<"c", "*">>, {t \in Texts : t # <<>> /\ Head(t) = "c"})
  <1> DEFINE Z == {t \in Texts : t # <<>> /\ Head(t) = "c"}
  <1>1. "c" \in Chars /\ "c" \in Letter
    BY DEF Chars, Letter
  <1>2. Reads(<<"c">>, {<<"c">>})
    BY <1>1, ReadsLiteral
  <1>3. ASSUME NEW w \in Texts, w # <<>>, Head(w) = "c"
        PROVE  \E y \in Texts : w = <<"c">> \o y
    <2>1. w \in Seq(Chars)
      BY TextsAre
    <2>2. w = <<Head(w)>> \o Tail(w) /\ Tail(w) \in Seq(Chars)
      BY <1>3, <2>1, HeadAndTail
    <2>3. <<Head(w)>> \in Seq(Chars)
      BY <1>1, <1>3
    <2>4. Tail(w) \in Texts
      BY <2>2, <2>3, PartsAre
    <2>. QED
      BY <1>3, <2>2, <2>4
  <1>4. ASSUME NEW y \in Texts PROVE <<"c">> \o y # <<>> /\ Head(<<"c">> \o y) = "c"
    <2>1. y \in String
      BY TextsAre
    <2>. QED
      BY <1>1, <2>1, ConsIs
  <1>5. Z \subseteq Seq(Chars)
    BY TextsAre
  <1>6. ASSUME NEW w \in Texts
        PROVE  w \in Z <=> \E x \in {<<"c">>}, y \in Texts : w = x \o y
    BY <1>3, <1>4
  <1>7. Pairs(Z, {<<"c">>}, Texts)
    BY <1>5, <1>6 DEF Pairs
  <1> HIDE DEF Z
  <1>8. Reads(<<"c">> \o <<"*">>, Z)
    BY <1>2, <1>7, ReadsStar, ReadsBoth
  <1>9. <<"c">> \o <<"*">> = <<"c", "*">>
    BY Prefixed1
  <1>. QED
    BY <1>8, <1>9 DEF Z

(* A sequence of characters that is written out is a string.                *)
LEMMA Written1 ==
  ASSUME NEW x \in Letter
  PROVE  <<x>> \in String
  BY Letters DEF String

LEMMA Written2 ==
  ASSUME NEW x \in Letter, NEW y \in Letter
  PROVE  <<x, y>> \in String
  BY Letters DEF String

LEMMA Written4 ==
  ASSUME NEW x \in Letter, NEW y \in Letter, NEW z \in Letter, NEW v \in Letter
  PROVE  <<x, y, z, v>> \in String
  BY Letters DEF String

LEMMA Written6 ==
  ASSUME NEW x \in Letter, NEW y \in Letter, NEW z \in Letter,
         NEW v \in Letter, NEW w \in Letter, NEW u \in Letter
  PROVE  <<x, y, z, v, w, u>> \in String
  BY Letters DEF String

(* The braces of the given pieces.                                          *)
LEMMA ReadsLetterOrTwo ==
  Reads(<<"{", "a", ",", "b", "c", "}">>, {<<"a">>, <<"b", "c">>})
  <1> DEFINE b    == <<"{", "a", ",", "b", "c", "}">>
             body == <<"a", ",", "b", "c">>
             u    == <<"a">>
             v    == <<"b", "c">>
  <1>1. /\ "{" \in Letter /\ "a" \in Letter /\ "," \in Letter
        /\ "b" \in Letter /\ "c" \in Letter /\ "}" \in Letter
    BY DEF Letter
  <1>2. b \in String /\ body \in String /\ u \in String /\ v \in String
    <2>1. b \in String
      BY <1>1, Written6
    <2>2. body \in String
      BY <1>1, Written4
    <2>3. u \in String
      BY <1>1, Written1
    <2>4. v \in String
      BY <1>1, Written2
    <2>. QED
      BY <2>1, <2>2, <2>3, <2>4
  <1>3. Encloses(b, body)
    <2>1. Len(b) = 6 /\ Len(body) = 4
      OBVIOUS
    <2>2. b[1] = "{" /\ b[6] = "}"
      OBVIOUS
    <2>3. b[2] = body[1] /\ b[3] = body[2] /\ b[4] = body[3] /\ b[5] = body[4]
      OBVIOUS
    <2>4. body[1] # "}" /\ body[2] # "}" /\ body[3] # "}" /\ body[4] # "}"
      OBVIOUS
    <2> HIDE DEF b, body
    <2>5. ASSUME NEW i \in 1..Len(body) PROVE b[i + 1] = body[i] /\ body[i] # "}"
      <3>1. (i = 1 /\ i + 1 = 2) \/ (i = 2 /\ i + 1 = 3)
              \/ (i = 3 /\ i + 1 = 4) \/ (i = 4 /\ i + 1 = 5)
        BY <2>1
      <3>2. b[i + 1] = body[i]
        BY <2>3, <3>1
      <3>3. body[i] # "}"
        BY <2>4, <3>1
      <3>. QED
        BY <3>2, <3>3
    <2>6. Len(b) = Len(body) + 2 /\ Len(body) + 2 = 6
      BY <2>1
    <2>. QED
      BY <2>2, <2>5, <2>6 DEF Encloses
  <1>4. Parted(u, v)
    <2>1. Len(u) = 1 /\ Len(v) = 2
      OBVIOUS
    <2>2. u[1] # "," /\ v[1] # "," /\ v[2] # "," /\ v # <<>>
      OBVIOUS
    <2> HIDE DEF u, v
    <2>3. (\A i \in 1..Len(u) : i = 1) /\ (\A i \in 1..Len(v) : i = 1 \/ i = 2)
      BY <2>1
    <2>. QED
      BY <2>2, <2>3 DEF Parted, Without
  <1>5. Alternatives(u \o (<<",">> \o v)) = {u, v}
    BY <1>2, <1>4, AlternativesAre
  <1>6. u \o (<<",">> \o v) = body
    <2>1. <<",">> \o v = <<",", "b", "c">>
      BY Prefixed2
    <2>2. <<"a">> \o <<",", "b", "c">> = body
      BY Prefixed3
    <2>. QED
      BY <2>1, <2>2
  <1>7. Alternatives(body) = {u, v}
    BY <1>5, <1>6
  <1>8. Reads(u, {u}) /\ Reads(v, {v})
    BY ReadsLiteral, ReadsTwoLetters DEF Chars
  <1> HIDE DEF b, body, u, v
  <1>9. Reads(b, {u} \cup {v})
    BY <1>2, <1>3, <1>7, <1>8, ReadsEither
  <1>10. {u} \cup {v} = {u, v}
    OBVIOUS
  <1>. QED
    BY <1>9, <1>10 DEF b, u, v

LEMMA ReadsNoneOrLetter == Reads(<<"{", ",", "b", "}">>, {<<>>, <<"b">>})
  <1> DEFINE b    == <<"{", ",", "b", "}">>
             body == <<",", "b">>
             v    == <<"b">>
  <1>1. /\ "{" \in Letter /\ "," \in Letter
        /\ "b" \in Letter /\ "}" \in Letter
    BY DEF Letter
  <1>2. b \in String /\ body \in String /\ <<>> \in String /\ v \in String
    <2>1. b \in String
      BY <1>1, Written4
    <2>2. body \in String
      BY <1>1, Written2
    <2>3. v \in String /\ <<>> \in String
      BY <1>1, Written1, EmptySeq DEF String
    <2>. QED
      BY <2>1, <2>2, <2>3
  <1>3. Encloses(b, body)
    <2>1. Len(b) = 4 /\ Len(body) = 2
      OBVIOUS
    <2>2. b[1] = "{" /\ b[4] = "}"
      OBVIOUS
    <2>3. b[2] = body[1] /\ b[3] = body[2]
      OBVIOUS
    <2>4. body[1] # "}" /\ body[2] # "}"
      OBVIOUS
    <2> HIDE DEF b, body
    <2>5. ASSUME NEW i \in 1..Len(body) PROVE b[i + 1] = body[i] /\ body[i] # "}"
      <3>1. (i = 1 /\ i + 1 = 2) \/ (i = 2 /\ i + 1 = 3)
        BY <2>1
      <3>2. b[i + 1] = body[i]
        BY <2>3, <3>1
      <3>3. body[i] # "}"
        BY <2>4, <3>1
      <3>. QED
        BY <3>2, <3>3
    <2>6. Len(b) = Len(body) + 2 /\ Len(body) + 2 = 4
      BY <2>1
    <2>. QED
      BY <2>2, <2>5, <2>6 DEF Encloses
  <1>4. Parted(<<>>, v)
    <2>1. Len(<<>>) = 0 /\ Len(v) = 1
      OBVIOUS
    <2>2. v[1] # "," /\ v # <<>>
      OBVIOUS
    <2> HIDE DEF v
    <2>3. (\A i \in 1..Len(<<>>) : FALSE) /\ (\A i \in 1..Len(v) : i = 1)
      BY <2>1
    <2>. QED
      BY <2>2, <2>3 DEF Parted, Without
  <1>5. Alternatives(<<>> \o (<<",">> \o v)) = {<<>>, v}
    BY <1>2, <1>4, AlternativesAre
  <1>6. <<",">> \o v = body
    BY Prefixed1
  <1>7. <<>> \o body = body
    BY <1>2, ConcatEmptySeq DEF String
  <1>8. Alternatives(body) = {<<>>, v}
    BY <1>5, <1>6, <1>7
  <1>9. Reads(v, {v})
    BY ReadsLiteral DEF Chars
  <1> HIDE DEF b, body, v
  <1>10. Reads(b, {<<>>} \cup {v})
    BY <1>2, <1>3, <1>8, <1>9, ReadsNone, ReadsEither
  <1>11. {<<>>} \cup {v} = {<<>>, v}
    OBVIOUS
  <1>. QED
    BY <1>10, <1>11 DEF b, v

LEMMA ReadsAnyOrStar ==
  Reads(<<"{", "?", ",", "c", "*", "}">>,
        Singles(Chars) \cup {t \in Texts : t # <<>> /\ Head(t) = "c"})
  <1> DEFINE b    == <<"{", "?", ",", "c", "*", "}">>
             body == <<"?", ",", "c", "*">>
             u    == <<"?">>
             v    == <<"c", "*">>
             Z    == {t \in Texts : t # <<>> /\ Head(t) = "c"}
  <1>1. /\ "{" \in Letter /\ "?" \in Letter /\ "," \in Letter
        /\ "c" \in Letter /\ "*" \in Letter /\ "}" \in Letter
    BY DEF Letter
  <1>2. b \in String /\ body \in String /\ u \in String /\ v \in String
    <2>1. b \in String
      BY <1>1, Written6
    <2>2. body \in String
      BY <1>1, Written4
    <2>3. u \in String
      BY <1>1, Written1
    <2>4. v \in String
      BY <1>1, Written2
    <2>. QED
      BY <2>1, <2>2, <2>3, <2>4
  <1>3. Encloses(b, body)
    <2>1. Len(b) = 6 /\ Len(body) = 4
      OBVIOUS
    <2>2. b[1] = "{" /\ b[6] = "}"
      OBVIOUS
    <2>3. b[2] = body[1] /\ b[3] = body[2] /\ b[4] = body[3] /\ b[5] = body[4]
      OBVIOUS
    <2>4. body[1] # "}" /\ body[2] # "}" /\ body[3] # "}" /\ body[4] # "}"
      OBVIOUS
    <2> HIDE DEF b, body
    <2>5. ASSUME NEW i \in 1..Len(body) PROVE b[i + 1] = body[i] /\ body[i] # "}"
      <3>1. (i = 1 /\ i + 1 = 2) \/ (i = 2 /\ i + 1 = 3)
              \/ (i = 3 /\ i + 1 = 4) \/ (i = 4 /\ i + 1 = 5)
        BY <2>1
      <3>2. b[i + 1] = body[i]
        BY <2>3, <3>1
      <3>3. body[i] # "}"
        BY <2>4, <3>1
      <3>. QED
        BY <3>2, <3>3
    <2>6. Len(b) = Len(body) + 2 /\ Len(body) + 2 = 6
      BY <2>1
    <2>. QED
      BY <2>2, <2>5, <2>6 DEF Encloses
  <1>4. Parted(u, v)
    <2>1. Len(u) = 1 /\ Len(v) = 2
      OBVIOUS
    <2>2. u[1] # "," /\ v[1] # "," /\ v[2] # "," /\ v # <<>>
      OBVIOUS
    <2> HIDE DEF u, v
    <2>3. (\A i \in 1..Len(u) : i = 1) /\ (\A i \in 1..Len(v) : i = 1 \/ i = 2)
      BY <2>1
    <2>. QED
      BY <2>2, <2>3 DEF Parted, Without
  <1>5. Alternatives(u \o (<<",">> \o v)) = {u, v}
    BY <1>2, <1>4, AlternativesAre
  <1>6. u \o (<<",">> \o v) = body
    <2>1. <<",">> \o v = <<",", "c", "*">>
      BY Prefixed2
    <2>2. <<"?">> \o <<",", "c", "*">> = body
      BY Prefixed3
    <2>. QED
      BY <2>1, <2>2
  <1>7. Alternatives(body) = {u, v}
    BY <1>5, <1>6
  <1>8. Reads(u, Singles(Chars)) /\ Reads(v, Z)
    BY ReadsAny, ReadsLetterAndStar
  <1> HIDE DEF b, body, u, v, Z
  <1>9. Reads(b, Singles(Chars) \cup Z)
    BY <1>2, <1>3, <1>7, <1>8, ReadsEither
  <1>. QED
    BY <1>9 DEF b, Z

-----------------------------------------------------------------------------
(* Each piece reads its own texts, and is not empty.                        *)
LEMMA PieceReads ==
  ASSUME NEW p \in Pieces PROVE Reads(p.pat, p.texts) /\ p.pat # <<>>
  <1>1. CASE \E c \in Chars : p = Piece(<<c>>, {<<c>>})
    BY <1>1, ReadsLiteral DEF Piece
  <1>2. CASE p = Piece(<<"?">>, Singles(Chars))
    BY <1>2, ReadsAny DEF Piece
  <1>3. CASE p = Piece(<<"*">>, Texts)
    BY <1>3, ReadsStar DEF Piece
  <1>4. CASE p = Piece(<<"[", "a", "c", "]">>, Singles({"a", "c"}))
    BY <1>4, ReadsClasses DEF Piece
  <1>5. CASE p = Piece(<<"[", "a", "-", "b", "]">>, Singles({"a", "b"}))
    BY <1>5, ReadsClasses DEF Piece
  <1>6. CASE p = Piece(<<"[", "!", "a", "]">>, Singles(Chars \ {"a"}))
    BY <1>6, ReadsClasses DEF Piece
  <1>7. CASE p = Piece(<<"[", "^", "b", "-", "c", "]">>, Singles({"a"}))
    BY <1>7, ReadsClasses DEF Piece
  <1>8. CASE p = Piece(<<"{", "a", ",", "b", "c", "}">>, {<<"a">>, <<"b", "c">>})
    BY <1>8, ReadsLetterOrTwo DEF Piece
  <1>9. CASE p = Piece(<<"{", ",", "b", "}">>, {<<>>, <<"b">>})
    BY <1>9, ReadsNoneOrLetter DEF Piece
  <1>10. CASE p = Piece(<<"{", "?", ",", "c", "*", "}">>,
                        Singles(Chars) \cup {t \in Texts : t # <<>> /\ Head(t) = "c"})
    BY <1>10, ReadsAnyOrStar DEF Piece
  <1>. QED
    BY <1>1, <1>2, <1>3, <1>4, <1>5, <1>6, <1>7, <1>8, <1>9, <1>10 DEF Pieces

(* The language a glob grows to.                                            *)
LEMMA JoinedIsPairs ==
  ASSUME NEW X \in SUBSET Seq(Chars), NEW Y \in SUBSET Seq(Chars)
  PROVE  Pairs(Joined(X, Y), X, Y)
  <1>1. ASSUME NEW w PROVE w \in Joined(X, Y) <=>
                              (\E x \in X, y \in Y : w = x \o y) /\ Len(w) <= MaxText
    <2>1. Joined(X, Y) = {s \in {x \o y : x \in X, y \in Y} : Len(s) <= MaxText}
      BY DEF Joined
    <2>2. w \in {x \o y : x \in X, y \in Y} <=> \E x \in X, y \in Y : w = x \o y
      OBVIOUS
    <2>. QED
      BY <2>1, <2>2
  <1>2. ASSUME NEW w \in Joined(X, Y) PROVE w \in Seq(Chars)
    <2>1. PICK x \in X, y \in Y : w = x \o y
      BY <1>1
    <2>2. x \in Seq(Chars) /\ y \in Seq(Chars)
      OBVIOUS
    <2>. QED
      BY <2>1, <2>2, ConcatProperties
  <1>3. \A w \in Texts : Len(w) <= MaxText
    BY TextsAre
  <1>. QED
    BY <1>1, <1>2, <1>3 DEF Pairs

(* However many pieces a glob is built of, it stands for its language.       *)
GlobInv ==
  /\ Reads(pattern, language)
  /\ pieces \in Nat /\ (pieces > 0 => pattern # <<>>)
  /\ text \in Texts

LEMMA GlobStarts == StartGlob => GlobInv
  BY ReadsNone, TextsAre DEF StartGlob, GlobInv

LEMMA GlobGrows ==
  ASSUME GlobInv, AddPiece PROVE GlobInv'
  <1>1. PICK p \in Pieces : pattern' = pattern \o p.pat /\ language' = Joined(language, p.texts)
    BY DEF AddPiece
  <1>2. Reads(pattern, language) /\ Reads(p.pat, p.texts) /\ p.pat # <<>>
    BY PieceReads DEF GlobInv
  <1>3. /\ pattern \in String /\ p.pat \in String
        /\ language \in SUBSET Seq(Chars) /\ p.texts \in SUBSET Seq(Chars)
    BY <1>2 DEF Reads
  <1>4. Reads(pattern', language')
    <2>1. Reads(pattern \o p.pat, Joined(language, p.texts))
      BY <1>2, <1>3, JoinedIsPairs, ReadsBoth
    <2>. QED
      BY <1>1, <2>1
  <1>5. pattern' # <<>>
    <2>1. pattern \in Seq(ToSet(CharOrder)) /\ p.pat \in Seq(ToSet(CharOrder))
      BY <1>3 DEF String
    <2>2. Len(pattern) \in Nat /\ Len(p.pat) \in Nat /\ Len(p.pat) # 0
      BY <1>2, <2>1, EmptySeq, LenProperties
    <2>3. Len(pattern \o p.pat) = Len(pattern) + Len(p.pat)
      BY <2>1, ConcatProperties
    <2>4. Len(pattern \o p.pat) # 0
      BY <2>2, <2>3
    <2>. QED
      BY <1>1, <2>4, EmptySeq
  <1>6. pieces' \in Nat /\ text' \in Texts
    BY DEF AddPiece, GlobInv
  <1>. QED
    BY <1>4, <1>5, <1>6 DEF GlobInv

LEMMA TextGrows ==
  ASSUME GlobInv, AddChar PROVE GlobInv'
  <1>1. PICK c \in Chars : text' = Append(text, c)
    BY DEF AddChar
  <1>2. text \in Seq(Chars) /\ Len(text) < MaxText
    BY TextsAre DEF GlobInv, AddChar
  <1>3. text' \in Seq(Chars) /\ Len(text') = Len(text) + 1
    BY <1>1, <1>2, AppendProperties
  <1>4. Len(text') <= MaxText
    BY <1>2, <1>3, GlobInputsAssumption, LenProperties
  <1>5. text' \in Texts
    BY <1>3, <1>4, TextsAre
  <1>6. pattern' = pattern /\ pieces' = pieces /\ language' = language
    BY DEF AddChar
  <1>. QED
    BY <1>5, <1>6 DEF GlobInv

LEMMA GlobInvHolds == GlobSpec => []GlobInv
  <1>1. ASSUME GlobInv, UNCHANGED glob PROVE GlobInv'
    BY <1>1 DEF GlobInv, glob
  <1>2. GlobInv /\ [AddPiece \/ AddChar]_glob => GlobInv'
    BY <1>1, GlobGrows, TextGrows
  <1>. QED
    BY <1>2, GlobStarts, PTL DEF GlobSpec

LEMMA InvIsLanguage == GlobInv => GlobIsItsLanguage
  <1> SUFFICES ASSUME GlobInv, pieces > 0
               PROVE  wildcard_match(text, pattern) <=> text \in language
    BY DEF GlobIsItsLanguage
  <1>1. /\ Reads(pattern, language) /\ pattern # <<>> /\ text \in Texts
        /\ pattern \in String /\ language \subseteq Seq(Chars)
    BY DEF GlobInv, Reads
  <1>2. <<>> \in String /\ <<>> \in Texts
    BY TextsAre
  <1>3. pattern \o <<>> = pattern
    BY <1>1, ConcatEmptySeq DEF String
  <1>4. wmatch[pattern][text] <=> Begins(text, language, <<>>)
    BY <1>1, <1>2, <1>3, ReadsIs
  <1>5. \A z \in Texts : wmatch[<<>>][z] <=> z = <<>>
    BY TextsAre, MatchEmpty
  <1>6. \A u \in language : u \o <<>> = u
    BY <1>1, ConcatEmptySeq
  <1>7. Begins(text, language, <<>>) <=> text \in language
    BY <1>2, <1>5, <1>6 DEF Begins
  <1>. QED
    BY <1>1, <1>4, <1>7 DEF wildcard_match

(* --type lets through exactly the names its glob stands for (wildcard_match, *)
(* util.c:161), for globs of any number of pieces and names of any length.  *)
THEOREM GlobAlwaysItsLanguage == GlobSpec => []GlobIsItsLanguage
  BY GlobInvHolds, InvIsLanguage, PTL
=============================================================================
