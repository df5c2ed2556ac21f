---------------------------- MODULE NamesProofs ----------------------------
(***************************************************************************)
(* What the functions of Names do with every path and every URL, however    *)
(* long and of whatever bytes and words.                                   *)
(***************************************************************************)
EXTENDS NameInputs, Recursion, SequenceTheorems

(* A set of naturals with an upper bound has a greatest one: Max chooses it. *)
LEMMA MaxIsGreatest ==
  ASSUME NEW n \in Nat, NEW S \in SUBSET (0..n), S # {}
  PROVE  Max(S) \in S /\ \A y \in S : y <= Max(S)
  <1> DEFINE T == {n - y : y \in S}
  <1>1. T \in SUBSET Nat /\ T # {}
    <2>1. PICK y \in S : TRUE
      OBVIOUS
    <2>2. n - y \in T
      OBVIOUS
    <2>3. \A z \in S : n - z \in Nat
      OBVIOUS
    <2>. QED
      BY <2>2, <2>3
  <1>2. Min(T) \in T /\ \A z \in T : Min(T) <= z
    BY <1>1, MinIsLeast
  <1>3. PICK x \in S : Min(T) = n - x
    BY <1>2
  <1>4. \A y \in S : y <= x
    <2>1. ASSUME NEW y \in S PROVE y <= x
      <3>1. n - y \in T
        OBVIOUS
      <3>2. n - x <= n - y
        BY <1>2, <1>3, <3>1
      <3>. QED
        BY <3>2
    <2>. QED
      BY <2>1
  <1>. QED
    BY <1>4 DEF Max

-----------------------------------------------------------------------------
(* What the steps of a behaviour keep.                                     *)
NamesTypeOK ==
    /\ path \in Seq(Bytes)
    /\ tail \in Seq(Words)
    /\ job = "url" => kind \in Kinds

(* A path is made of the bytes, a URL of the words and the page it names.   *)
LEMMA NamesTypesHold == NamesSpec => []NamesTypeOK
  <1>1. StartNames({"path", "url"}) => NamesTypeOK
    BY DEF StartNames, NamesTypeOK
  <1>2. NamesTypeOK /\ [AddByte \/ AddWord]_names => NamesTypeOK'
    <2> SUFFICES ASSUME NamesTypeOK, [AddByte \/ AddWord]_names PROVE NamesTypeOK'
      OBVIOUS
    <2>1. CASE AddByte
      BY <2>1 DEF AddByte, NamesTypeOK
    <2>2. CASE AddWord
      BY <2>2 DEF AddWord, NamesTypeOK
    <2>3. CASE UNCHANGED names
      BY <2>3 DEF names, NamesTypeOK
    <2>. QED
      BY <2>1, <2>2, <2>3
  <1>. QED
    BY <1>1, <1>2, PTL DEF NamesSpec

-----------------------------------------------------------------------------
(* The URL that IdentifierFound takes apart has its first marker in the     *)
(* fifth place.                                                            *)
Page(k) == <<"https:", "/", "/", "archive.org", "/", k, "/">>

LEMMA MarkerFifth ==
  ASSUME NEW W, NEW t \in Seq(W), NEW k \in Kinds,
         NEW n \in DOMAIN Markers, Markers[n] = <<"/", k, "/">>
  PROVE  Places(Page(k) \o t, Markers[n]) \in SUBSET Nat
         /\ 5 \in Places(Page(k) \o t, Markers[n])
         /\ \A i \in Places(Page(k) \o t, Markers[n]) : 5 <= i
  <1> DEFINE url == Page(k) \o t
             m == <<"/", k, "/">>
             V == W \cup {"https:", "/", "archive.org"} \cup Kinds
  <1>1. Page(k) \in Seq(V) /\ Len(Page(k)) = 7
    BY DEF Page
  <1>2. t \in Seq(V)
    BY SeqMonotonic
  <1>3. /\ url \in Seq(V) /\ Len(url) = 7 + Len(t) /\ Len(t) \in Nat
        /\ \A i \in 1..7 : url[i] = Page(k)[i]
    <2> HIDE DEF V
    <2>1. /\ url \in Seq(V) /\ Len(url) = Len(Page(k)) + Len(t)
          /\ \A i \in 1 .. Len(Page(k)) + Len(t) : url[i] =
                IF i <= Len(Page(k)) THEN Page(k)[i] ELSE t[i - Len(Page(k))]
      BY <1>1, <1>2, ConcatProperties
    <2>2. Len(t) \in Nat
      BY LenProperties
    <2> HIDE DEF url
    <2>. QED
      BY <1>1, <2>1, <2>2
  <1>4. /\ url[1] = "https:" /\ url[2] = "/" /\ url[3] = "/" /\ url[4] = "archive.org"
        /\ url[5] = "/" /\ url[6] = k /\ url[7] = "/"
    BY <1>3 DEF Page
  <1>5. ASSUME NEW i \in DOMAIN url, i + 2 <= Len(url)
        PROVE  /\ SubSeq(url, i, i + 2) \in Seq(V) /\ Len(SubSeq(url, i, i + 2)) = 3
               /\ SubSeq(url, i, i + 2)[1] = url[i] /\ SubSeq(url, i, i + 2)[2] = url[i + 1]
               /\ SubSeq(url, i, i + 2)[3] = url[i + 2]
    <2> HIDE DEF url, V
    <2>1. DOMAIN url = 1..Len(url) /\ Len(url) \in Nat
      BY <1>3, LenProperties
    <2>2. \A j \in i..(i + 2) : url[j] \in V
      BY <1>3, <1>5, <2>1, ElementOfSeq
    <2>3. i \in Int /\ i + 2 \in Int /\ i <= i + 2 /\ i + 2 - i + 1 = 3
      BY <1>5, <2>1
    <2> DEFINE p == SubSeq(url, i, i + 2)
    <2>4. p \in Seq(V) /\ Len(p) = 3 /\ \A j \in 1..3 : p[j] = url[i + j - 1]
      BY <2>2, <2>3, SubSeqProperties
    <2> HIDE DEF p
    <2>5. i + 1 - 1 = i /\ i + 2 - 1 = i + 1 /\ i + 3 - 1 = i + 2
      BY <2>3
    <2>6. p[1] = url[i + 1 - 1] /\ p[2] = url[i + 2 - 1] /\ p[3] = url[i + 3 - 1]
      BY <2>4
    <2>7. p \in Seq(V) /\ Len(p) = 3 /\ p[1] = url[i] /\ p[2] = url[i + 1] /\ p[3] = url[i + 2]
      BY <2>4, <2>5, <2>6
    <2>. QED
      BY <2>7 DEF p
  <1>6. m \in Seq(V) /\ Len(m) = 3 /\ m[1] = "/" /\ m[2] = k /\ m[3] = "/"
    OBVIOUS
  <1> HIDE DEF url, m
  <1>7. 5 \in Places(url, m)
    <2>1. 5 \in DOMAIN url /\ 5 + 2 <= Len(url)
      BY <1>3
    <2>2. \A j \in 1..3 : SubSeq(url, 5, 5 + 2)[j] = m[j]
      BY <1>4, <1>5, <1>6, <2>1
    <2>3. SubSeq(url, 5, 5 + 2) = m
      BY <1>5, <1>6, <2>1, <2>2, SeqEqual
    <2>. QED
      BY <2>1, <2>3 DEF Places
  <1>8. ASSUME NEW i \in Places(url, m) PROVE i \in Nat /\ 5 <= i
    <2>1. i \in DOMAIN url /\ i + 2 <= Len(url) /\ SubSeq(url, i, i + 2) = m
      BY <1>8 DEF Places
    <2>2. url[i] = "/" /\ url[i + 1] = k
      BY <1>5, <1>6, <2>1
    <2>4. i \in Nat /\ i >= 1
      BY <1>3, <2>1, LenProperties
    <2>3. k # "/" /\ k # "archive.org"
      BY DEF Kinds
    <2>. QED
      BY <1>4, <2>2, <2>3, <2>4
  <1>. QED
    BY <1>7, <1>8 DEF url, m

(* extract_identifier preferring one marker takes what is after its first    *)
(* place, up to the first word of Enders.                                  *)
LEMMA IdentifierAfter ==
  ASSUME NEW W, NEW t \in Seq(W), NEW k \in Kinds,
         LET hit == {n \in DOMAIN Markers : Places(Page(k) \o t, Markers[n]) # {}}
         IN  hit # {} /\ Markers[Min(hit)] = <<"/", k, "/">>
  PROVE  LET id == extract_identifier(Page(k) \o t)
         IN  /\ Len(id) \in 0..Len(t) /\ id = SubSeq(t, 1, Len(id))
             /\ \A i \in 1..Len(id) : id[i] \notin Enders
             /\ Len(id) = Len(t) \/ t[Len(id) + 1] \in Enders
  <1> DEFINE url == Page(k) \o t
             hit == {n \in DOMAIN Markers : Places(url, Markers[n]) # {}}
             rest == SubSeq(url, Min(Places(url, Markers[Min(hit)])) + 3, Len(url))
             I == {i \in 1..Len(rest) : rest[i] \in Enders}
             id == extract_identifier(url)
  <1>1. Min(hit) \in hit
    <2>1. DOMAIN Markers \subseteq Nat
      BY DEF Markers
    <2>2. hit # {} /\ hit \in SUBSET Nat
      BY <2>1
    <2> HIDE DEF hit
    <2>. QED
      BY <2>2, MinIsLeast
  <1>2. Min(Places(url, Markers[Min(hit)])) = 5
    <2> DEFINE P == Places(url, Markers[Min(hit)])
    <2>1. P \in SUBSET Nat /\ 5 \in P /\ \A i \in P : 5 <= i
      BY <1>1, MarkerFifth
    <2> HIDE DEF P
    <2>2. Min(P) \in P /\ Min(P) <= 5
      BY <2>1, MinIsLeast
    <2>3. Min(P) \in Nat /\ 5 <= Min(P)
      BY <2>1, <2>2
    <2>4. Min(P) = 5
      BY <2>2, <2>3
    <2>. QED
      BY <2>4 DEF P
  <1>3. rest = t
    <2> DEFINE V == W \cup {"https:", "/", "archive.org"} \cup Kinds
    <2>1. Page(k) \in Seq(V) /\ Len(Page(k)) = 7
      BY DEF Page
    <2>2. t \in Seq(V) /\ Len(t) \in Nat
      BY SeqMonotonic, LenProperties
    <2> HIDE DEF V
    <2>3. /\ url \in Seq(V) /\ Len(url) = Len(Page(k)) + Len(t)
          /\ \A i \in 1 .. Len(Page(k)) + Len(t) :
                url[i] = IF i <= Len(Page(k)) THEN Page(k)[i] ELSE t[i - Len(Page(k))]
      BY <2>1, <2>2, ConcatProperties
    <2> HIDE DEF url
    <2>4. \A i \in 8 .. Len(url) : url[i] \in V
      BY <2>1, <2>2, <2>3, ElementOfSeq
    <2> DEFINE r == SubSeq(url, 8, Len(url))
    <2>5. /\ r \in Seq(V) /\ Len(r) = Len(t)
          /\ \A i \in 1..Len(t) : r[i] = url[8 + i - 1]
      BY <2>1, <2>2, <2>3, <2>4, SubSeqProperties
    <2>6. \A i \in 1..Len(t) : r[i] = t[i]
      <3>1. ASSUME NEW i \in 1..Len(t) PROVE r[i] = t[i]
        <4>1. r[i] = url[8 + i - 1] /\ 8 + i - 1 \in 1..7 + Len(t)
          BY <2>2, <2>5
        <4>2. ~(8 + i - 1 <= 7) /\ 8 + i - 1 - 7 = i
          BY <2>2
        <4>. QED
          BY <2>1, <2>3, <4>1, <4>2
      <3>. QED
        BY <3>1
    <2> HIDE DEF r
    <2>7. r = t
      BY <2>2, <2>5, <2>6, SeqEqual
    <2>. QED
      BY <1>2, <2>7 DEF r
  <1> DEFINE n == SelectInSeq(rest, LAMBDA w : w \in Enders)
  <1>4. id = IF n = 0 THEN t ELSE SubSeq(t, 1, n - 1)
    <2>1. hit # {}
      OBVIOUS
    <2>. QED
      BY <1>3, <2>1 DEF extract_identifier
  <1>5. n = IF I # {} THEN Min(I) ELSE 0
    BY DEF SelectInSeq
  <1>6. Len(t) \in Nat /\ I = {i \in 1..Len(t) : t[i] \in Enders}
    BY <1>3, LenProperties
  <1> HIDE DEF I, n
  <1>7. CASE I = {}
    <2>1. id = t
      BY <1>4, <1>5, <1>7
    <2>2. SubSeq(t, 1, Len(t)) = t
      BY SubSeqFull
    <2> HIDE DEF id
    <2>3. /\ Len(id) \in 0..Len(t) /\ id = SubSeq(t, 1, Len(id))
          /\ \A i \in 1..Len(id) : id[i] \notin Enders
          /\ Len(id) = Len(t)
      BY <1>6, <1>7, <2>1, <2>2
    <2>. QED
      BY <2>3 DEF id
  <1>8. CASE I # {}
    <2>1. I \in SUBSET Nat
      BY <1>6
    <2>2. n \in I /\ \A i \in I : n <= i
      BY <1>5, <1>8, <2>1, MinIsLeast
    <2>3. n \in 1..Len(t) /\ t[n] \in Enders
      BY <1>6, <2>2
    <2>4. id = SubSeq(t, 1, n - 1)
      BY <1>4, <2>3
    <2>5. \A i \in 1..(n - 1) : t[i] \in W /\ t[i] \notin Enders
      <3>1. ASSUME NEW i \in 1..(n - 1) PROVE t[i] \in W /\ t[i] \notin Enders
        <4>1. i \in 1..Len(t) /\ ~(n <= i)
          BY <1>6, <2>3
        <4>. QED
          BY <1>6, <2>2, <4>1, ElementOfSeq
      <3>. QED
        BY <3>1
    <2>6. n - 1 \in Int /\ (n - 1) - 1 + 1 = n - 1 /\ n - 1 + 1 = n
      BY <2>3
    <2> HIDE DEF id
    <2>7. Len(id) = n - 1 /\ \A i \in 1..(n - 1) : id[i] = t[1 + i - 1]
      BY <2>3, <2>4, <2>5, <2>6, SubSeqProperties
    <2>8. \A i \in 1..(n - 1) : id[i] = t[i]
      BY <2>3, <2>7
    <2>9. /\ Len(id) \in 0..Len(t) /\ id = SubSeq(t, 1, Len(id))
          /\ \A i \in 1..Len(id) : id[i] \notin Enders
          /\ t[Len(id) + 1] \in Enders
      BY <1>6, <2>3, <2>4, <2>5, <2>6, <2>7, <2>8
    <2>. QED
      BY <2>9 DEF id
  <1>. QED
    BY <1>7, <1>8

(* The identifier of the archive is found in a URL of either page, whatever  *)
(* words follow it, unless a details page is followed by the marker that    *)
(* extract_identifier looks for first.                                     *)
THEOREM IdentifierAlwaysFound == NamesSpec => []IdentifierFound
  <1>1. NamesTypeOK => IdentifierFound
    <2> SUFFICES ASSUME NamesTypeOK, job = "url",
                        LET url == <<"https:", "/", "/", "archive.org", "/", kind, "/">> \o tail
                        IN  kind = "details" => Places(url, Markers[1]) = {}
                 PROVE  LET id == extract_identifier(Page(kind) \o tail)
                            n == Len(id)
                        IN  /\ id = SubSeq(tail, 1, n)
                            /\ \A i \in 1..n : id[i] \notin {"/", "?", "#"}
                            /\ n = Len(tail) \/ tail[n + 1] \in {"/", "?", "#"}
      BY DEF IdentifierFound, Page
    <2> DEFINE hit == {n \in DOMAIN Markers : Places(Page(kind) \o tail, Markers[n]) # {}}
    <2>1. kind \in Kinds /\ tail \in Seq(Words)
      BY DEF NamesTypeOK
    <2>2. /\ DOMAIN Markers = {1, 2} /\ Markers[1] = <<"/", "download", "/">>
          /\ Markers[2] = <<"/", "details", "/">>
      BY DEF Markers
    <2>3. hit # {} /\ Markers[Min(hit)] = <<"/", kind, "/">>
      <3>1. CASE kind = "download"
        <4>1. 1 \in hit
          BY <2>1, <2>2, <3>1, MarkerFifth
        <4>2. hit \in SUBSET Nat /\ \A n \in hit : 1 <= n
          BY <2>2
        <4> HIDE DEF hit
        <4>3. Min(hit) \in hit /\ Min(hit) <= 1
          BY <4>1, <4>2, MinIsLeast
        <4>4. Min(hit) = 1
          <5>1. Min(hit) \in Nat /\ 1 <= Min(hit)
            BY <4>2, <4>3
          <5>. QED
            BY <4>3, <5>1
        <4>. QED
          BY <2>2, <3>1, <4>1, <4>4
      <3>2. CASE kind = "details"
        <4>1. 2 \in hit
          BY <2>1, <2>2, <3>2, MarkerFifth
        <4>2. 1 \notin hit
          BY <3>2 DEF Page
        <4>3. hit = {2}
          BY <2>2, <4>1, <4>2
        <4> HIDE DEF hit
        <4>4. Min(hit) = 2
          BY <4>3, MinIsLeast
        <4>. QED
          BY <2>2, <3>2, <4>1, <4>4
      <3>. QED
        BY <2>1, <3>1, <3>2 DEF Kinds
    <2>. QED
      BY <2>1, <2>3, IdentifierAfter DEF Enders
  <1>. QED
    BY <1>1, NamesTypesHold, PTL

-----------------------------------------------------------------------------
(* A byte is encoded by bytes, one or three.                               *)
LEMMA EncodingBytes ==
  ASSUME NEW c \in 1..255
  PROVE  /\ Encoding(c) \in Seq(Nat) /\ Len(Encoding(c)) \in {1, 3}
         /\ FormEncoding(c) \in Seq(Nat) /\ Len(FormEncoding(c)) \in {1, 3}
  <1>1. c \div 16 \in 0..15 /\ c % 16 \in 0..15
    OBVIOUS
  <1>2. Hex(c \div 16) \in Nat /\ Hex(c % 16) \in Nat
    BY <1>1 DEF Hex
  <1> DEFINE h == Hex(c \div 16)
             l == Hex(c % 16)
  <1> HIDE DEF h, l
  <1>3. <<37, h, l>> \in Seq(Nat) /\ Len(<<37, h, l>>) = 3
    BY <1>2 DEF h, l
  <1>4. <<c>> \in Seq(Nat) /\ Len(<<c>>) = 1
    OBVIOUS
  <1>. QED
    BY <1>3, <1>4 DEF Encoding, FormEncoding, Escape, Percent, h, l

(* The text g[n] is made of the pieces c, one after the other.               *)
Concatenates(n, T, g, c) ==
    /\ n \in Nat /\ g \in [0..n -> Seq(T)] /\ c \in [1..n -> Seq(T)]
    /\ g[0] = <<>> /\ \A i \in 1..n : g[i] = g[i - 1] \o c[i]

LEMMA TextGrows ==
  ASSUME NEW n, NEW T, NEW g, NEW c, Concatenates(n, T, g, c)
  PROVE  \A k \in 0..n : \A m \in k..n :
            /\ Len(g[k]) \in Nat /\ Len(g[k]) <= Len(g[m])
            /\ \A p \in 1..Len(g[k]) : g[m][p] = g[k][p]
  <1> DEFINE Prefix(k, m) == /\ Len(g[k]) <= Len(g[m])
                             /\ \A p \in 1..Len(g[k]) : g[m][p] = g[k][p]
             G == {m \in Nat : m <= n => \A k \in 0..m : Prefix(k, m)}
  <1>1. \A k \in 0..n : Len(g[k]) \in Nat
    BY LenProperties DEF Concatenates
  <1>2. n \in Nat
    BY DEF Concatenates
  <1>3. 0 \in G
    <2>1. \A k \in 0..0 : k = 0
      OBVIOUS
    <2>2. Prefix(0, 0)
      BY <1>1 DEF Concatenates
    <2> HIDE DEF Prefix
    <2>. QED
      BY <2>1, <2>2
  <1>4. ASSUME NEW m \in Nat, m \in G PROVE m + 1 \in G
    <2>1. ASSUME m + 1 <= n, NEW k \in 0..(m + 1) PROVE Prefix(k, m + 1)
      <3>1. m \in 0..n /\ m + 1 \in 1..n /\ m + 1 \in 0..n /\ (m + 1) - 1 = m /\ m <= n
        BY <1>2, <2>1
      <3>2. CASE k = m + 1
        <4>1. Len(g[k]) \in Nat
          BY <1>1, <3>1, <3>2
        <4>. QED
          BY <3>2, <4>1
      <3>3. CASE k # m + 1
        <4>1. k \in 0..m
          BY <2>1, <3>3
        <4>2. Prefix(k, m) /\ k \in 0..n
          <5> HIDE DEF Prefix
          <5>1. Prefix(k, m)
            BY <1>4, <3>1, <4>1
          <5>. QED
            BY <1>2, <3>1, <4>1, <5>1
        <4>3. g[m + 1] = g[m] \o c[m + 1] /\ g[m] \in Seq(T) /\ c[m + 1] \in Seq(T)
          BY <3>1 DEF Concatenates
        <4>4. /\ Len(g[m + 1]) = Len(g[m]) + Len(c[m + 1]) /\ Len(c[m + 1]) \in Nat
              /\ \A p \in 1..(Len(g[m]) + Len(c[m + 1])) :
                    g[m + 1][p] = IF p <= Len(g[m]) THEN g[m][p]
                                  ELSE c[m + 1][p - Len(g[m])]
          <5> DEFINE a == g[m]
                     b == c[m + 1]
          <5> HIDE DEF a, b
          <5>1. /\ Len(a \o b) = Len(a) + Len(b) /\ Len(b) \in Nat
                /\ \A p \in 1 .. Len(a) + Len(b) :
                      (a \o b)[p] = IF p <= Len(a) THEN a[p] ELSE b[p - Len(a)]
            BY <4>3, ConcatProperties, LenProperties DEF a, b
          <5>. QED
            BY <4>3, <5>1 DEF a, b
        <4>5. Len(g[k]) \in Nat /\ Len(g[m]) \in Nat
          BY <1>1, <3>1, <4>2
        <4>6. Len(g[k]) <= Len(g[m + 1])
          <5>1. Len(g[k]) <= Len(g[m])
            BY <4>2
          <5>2. Len(g[m + 1]) = Len(g[m]) + Len(c[m + 1]) /\ Len(c[m + 1]) \in Nat
            BY <4>4
          <5>3. \A x, y, z \in Nat : x <= y => x <= y + z
            OBVIOUS
          <5>4. Len(g[k]) <= Len(g[m]) + Len(c[m + 1])
            BY <4>5, <5>1, <5>2, <5>3
          <5>. QED
            BY <5>2, <5>4
        <4>7. ASSUME NEW p \in 1..Len(g[k]) PROVE g[m + 1][p] = g[k][p]
          <5>1. Len(g[k]) <= Len(g[m]) /\ Len(c[m + 1]) \in Nat
            BY <4>2, <4>4
          <5>2. \A x, y, z \in Nat : x <= y => \A q \in 1..x : q \in 1..(y + z) /\ q <= y
            OBVIOUS
          <5>3. p \in 1 .. Len(g[m]) + Len(c[m + 1]) /\ p <= Len(g[m])
            BY <4>5, <4>7, <5>1, <5>2
          <5>. QED
            BY <4>2, <4>4, <5>3
        <4>. QED
          BY <4>6, <4>7
      <3>. QED
        BY <3>2, <3>3
    <2>. QED
      BY <2>1
  <1> HIDE DEF G
  <1>5. Nat \subseteq G
    BY <1>3, <1>4, SetInduction
  <1>6. ASSUME NEW k \in 0..n, NEW m \in k..n PROVE Prefix(k, m)
    <2>1. m \in Nat /\ m <= n /\ k \in 0..m
      BY <1>2, <1>6
    <2> HIDE DEF Prefix
    <2>. QED
      BY <1>5, <2>1 DEF G
  <1>. QED
    BY <1>1, <1>6

(* Every sequence of pieces can be concatenated.                            *)
LEMMA TextExists ==
  ASSUME NEW n \in Nat, NEW T, NEW c, c \in [1..n -> Seq(T)]
  PROVE  \E g : Concatenates(n, T, g, c)
  <1> DEFINE turn == [i \in 1..n |-> [t \in Seq(T) |-> t \o c[i]]]
  <1>1. <<>> \in Seq(T)
    BY EmptySeq
  <1>2. turn \in [1..n -> [Seq(T) -> Seq(T)]]
    BY ConcatProperties
  <1>3. PICK f \in [0..n -> Seq(T)] : f[0] = <<>> /\ \A i \in 1..n : f[i] = turn[i][f[i - 1]]
    <2> DEFINE U == Seq(T)
               b == <<>>
    <2>1. IsLoop(n, U, b, turn)
      BY <1>1, <1>2 DEF IsLoop
    <2> HIDE DEF turn, U, b
    <2>2. PICK f : AreValues(f, n, U, b, turn)
      BY <2>1, LoopHasValues
    <2>. QED
      BY <2>2 DEF AreValues, U, b
  <1>4. ASSUME NEW i \in 1..n PROVE f[i] = f[i - 1] \o c[i]
    <2>1. i - 1 \in 0..n
      OBVIOUS
    <2>2. f[i - 1] \in Seq(T)
      BY <2>1
    <2>. QED
      BY <1>3, <2>2
  <1>5. Concatenates(n, T, f, c)
    BY <1>3, <1>4 DEF Concatenates
  <1>. QED
    BY <1>5

(* Pieces of three bytes at most.                                           *)
LEMMA TextIsShort ==
  ASSUME NEW n, NEW T, NEW g, NEW c, Concatenates(n, T, g, c),
         \A i \in 1..n : Len(c[i]) <= 3
  PROVE  \A i \in 0..n : Len(g[i]) <= 3 * i
  <1> DEFINE G == {i \in Nat : i <= n => Len(g[i]) <= 3 * i}
  <1>1. n \in Nat /\ \A i \in 0..n : Len(g[i]) \in Nat
    BY LenProperties DEF Concatenates
  <1>2. 0 \in G
    BY DEF Concatenates
  <1>3. ASSUME NEW i \in Nat, i \in G PROVE i + 1 \in G
    <2>1. ASSUME i + 1 <= n PROVE Len(g[i + 1]) <= 3 * (i + 1)
      <3>1. i \in 0..n /\ i + 1 \in 1..n /\ (i + 1) - 1 = i /\ i <= n
        BY <1>1, <2>1
      <3> DEFINE a == g[i]
                 b == c[i + 1]
      <3>2. g[i + 1] = a \o b /\ a \in Seq(T) /\ b \in Seq(T)
        BY <3>1 DEF Concatenates
      <3>3. Len(a) <= 3 * i /\ Len(b) <= 3
        BY <1>3, <3>1
      <3> HIDE DEF a, b
      <3>4. Len(a \o b) = Len(a) + Len(b) /\ Len(a) \in Nat /\ Len(b) \in Nat
        BY <3>2, ConcatProperties, LenProperties
      <3>. QED
        BY <3>2, <3>3, <3>4
    <2>. QED
      BY <2>1
  <1> HIDE DEF G
  <1>4. Nat \subseteq G
    BY <1>2, <1>3, SetInduction
  <1>. QED
    BY <1>1, <1>4 DEF G

(* The bytes of the path, encoded for a URL and for a form.                  *)
UrlPieces(in) == [i \in 1..Len(in) |-> Encoding(in[i])]
FormPieces(in) == [i \in 1..Len(in) |-> FormEncoding(in[i])]

LEMMA PiecesAreShort ==
  ASSUME NEW in \in Seq(1..255)
  PROVE  /\ UrlPieces(in) \in [1..Len(in) -> Seq(Nat)]
         /\ FormPieces(in) \in [1..Len(in) -> Seq(Nat)]
         /\ \A i \in 1..Len(in) : Len(UrlPieces(in)[i]) <= 3 /\ Len(FormPieces(in)[i]) <= 3
  <1>1. \A i \in 1..Len(in) : in[i] \in 1..255
    BY ElementOfSeq
  <1>2. \A c \in {1, 3} : c <= 3
    OBVIOUS
  <1>3. \A i \in 1..Len(in) : /\ Encoding(in[i]) \in Seq(Nat) /\ Len(Encoding(in[i])) <= 3
                              /\ FormEncoding(in[i]) \in Seq(Nat) /\ Len(FormEncoding(in[i])) <= 3
    BY <1>1, <1>2, EncodingBytes
  <1>. QED
    BY <1>3 DEF UrlPieces, FormPieces

(* The loop of url_encode_path concatenates the encodings.                   *)
LEMMA EncodedIs ==
  ASSUME NEW in \in Seq(1..255)
  PROVE  Concatenates(Len(in), Nat, Encoded(in), UrlPieces(in))
  <1> DEFINE n == Len(in)
             Body(g) == [i \in 0..n |-> IF i = 0 THEN <<>> ELSE g[i - 1] \o Encoding(in[i])]
             g == Encoded(in)
  <1>1. n \in Nat
    BY LenProperties
  <1>2. PICK f : Concatenates(n, Nat, f, UrlPieces(in))
    BY <1>1, PiecesAreShort, TextExists
  <1>3. /\ f = [i \in 0..n |-> f[i]] /\ f[0] = <<>>
        /\ \A i \in 1..n : f[i] = f[i - 1] \o Encoding(in[i])
    BY <1>2 DEF Concatenates, UrlPieces
  <1> HIDE DEF n
  <1>4. f = Body(f)
    <2>1. ASSUME NEW i \in 0..n PROVE f[i] = Body(f)[i]
      <3>1. i = 0 \/ i \in 1..n
        BY <1>1
      <3>. QED
        BY <1>3, <3>1
    <2>2. Body(f) = [i \in 0..n |-> Body(f)[i]]
      OBVIOUS
    <2> HIDE DEF Body
    <2>. QED
      BY <1>3, <2>1, <2>2
  <1>5. g = CHOOSE out : out = Body(out)
    BY DEF Encoded, n
  <1>6. g = Body(g)
    <2> HIDE DEF Body, g
    <2>. QED
      BY <1>4, <1>5
  <1> HIDE DEF g
  <1>7. /\ g[0] = <<>> /\ g = [i \in 0..n |-> g[i]]
        /\ \A i \in 1..n : g[i] = g[i - 1] \o Encoding(in[i])
    <2>1. 0 \in 0..n /\ \A i \in 1..n : i \in 0..n /\ i # 0
      BY <1>1
    <2>2. /\ Body(g)[0] = <<>> /\ Body(g) = [i \in 0..n |-> Body(g)[i]]
          /\ \A i \in 1..n : Body(g)[i] = g[i - 1] \o Encoding(in[i])
      BY <2>1
    <2> HIDE DEF Body
    <2>. QED
      BY <1>6, <2>2
  <1>8. f = g
    <2>1. f[0] = g[0] /\ \A i \in 1..n : f[i - 1] = g[i - 1] => f[i] = g[i]
      BY <1>3, <1>7
    <2> HIDE DEF Body
    <2>2. TurnsAgree(n, f, g)
      BY <1>1, <1>3, <1>7, <2>1 DEF TurnsAgree
    <2>. QED
      BY <2>2, LoopsAgree
  <1>. QED
    BY <1>2, <1>8 DEF g, n

(* In a buffer that is large enough, so does the loop of url_encode.         *)
LEMMA FormEncodedIs ==
  ASSUME NEW in \in Seq(1..255), NEW sz \in Nat, sz > 3 * Len(in)
  PROVE  Concatenates(Len(in), Nat, FormEncoded(in, sz), FormPieces(in))
  <1> DEFINE n == Len(in)
             e(i) == FormEncoding(in[i])
             Body(g) == [i \in 0..n |->
                           IF i = 0 THEN <<>>
                           ELSE g[i - 1] \o (IF Len(g[i - 1]) + Len(e(i)) < sz THEN e(i) ELSE <<>>)]
             g == FormEncoded(in, sz)
  <1>1. n \in Nat
    BY LenProperties
  <1>2. PICK f : Concatenates(n, Nat, f, FormPieces(in))
    BY <1>1, PiecesAreShort, TextExists
  <1>3. /\ f = [i \in 0..n |-> f[i]] /\ f[0] = <<>>
        /\ \A i \in 1..n : f[i] = f[i - 1] \o e(i)
    BY <1>2 DEF Concatenates, FormPieces
  <1>4. ASSUME NEW i \in 1..n PROVE Len(f[i - 1]) + Len(e(i)) < sz
    <2>1. /\ \A k \in 0..n : f[k] \in Seq(Nat) /\ Len(f[k]) <= 3 * k
          /\ e(i) \in Seq(Nat) /\ Len(e(i)) <= 3
      BY <1>2, PiecesAreShort, TextIsShort DEF Concatenates, FormPieces
    <2>2. i - 1 \in 0..n /\ 3 * (i - 1) + 3 <= 3 * n
      BY <1>1
    <2>3. Len(f[i - 1]) \in Nat /\ Len(f[i - 1]) <= 3 * (i - 1)
      BY <2>1, <2>2, LenProperties
    <2>4. Len(e(i)) \in Nat /\ Len(e(i)) <= 3
      BY <2>1, LenProperties
    <2>5. \A x, y, z \in Nat : x <= 3 * (i - 1) /\ y <= 3 /\ 3 * n < z => x + y < z
      BY <2>2, <1>1
    <2> HIDE DEF n, e
    <2>6. sz > 3 * n
      BY DEF n
    <2>7. 3 * n < sz
      BY <1>1, <2>6
    <2>. QED
      BY <2>3, <2>4, <2>5, <2>7
  <1> HIDE DEF n, e
  <1>5. f = Body(f)
    <2>1. ASSUME NEW i \in 0..n PROVE f[i] = Body(f)[i]
      <3>1. i = 0 \/ i \in 1..n
        BY <1>1
      <3>. QED
        BY <1>3, <1>4, <3>1
    <2>2. Body(f) = [i \in 0..n |-> Body(f)[i]]
      OBVIOUS
    <2> HIDE DEF Body
    <2>. QED
      BY <1>3, <2>1, <2>2
  <1>6. g = CHOOSE out : out = Body(out)
    BY DEF FormEncoded, n, e
  <1>7. g = Body(g)
    <2> HIDE DEF Body, g
    <2>. QED
      BY <1>5, <1>6
  <1> HIDE DEF g
  <1>8. /\ g[0] = <<>> /\ g = [i \in 0..n |-> g[i]]
        /\ \A i \in 1..n : g[i] = g[i - 1] \o (IF Len(g[i - 1]) + Len(e(i)) < sz THEN e(i) ELSE <<>>)
    <2>1. 0 \in 0..n /\ \A i \in 1..n : i \in 0..n /\ i # 0
      BY <1>1
    <2>2. /\ Body(g)[0] = <<>> /\ Body(g) = [i \in 0..n |-> Body(g)[i]]
          /\ \A i \in 1..n : Body(g)[i] =
                g[i - 1] \o (IF Len(g[i - 1]) + Len(e(i)) < sz THEN e(i) ELSE <<>>)
      BY <2>1
    <2> HIDE DEF Body
    <2>. QED
      BY <1>7, <2>2
  <1>9. f = g
    <2>1. f[0] = g[0] /\ \A i \in 1..n : f[i - 1] = g[i - 1] => f[i] = g[i]
      BY <1>3, <1>4, <1>8
    <2> HIDE DEF Body
    <2>2. TurnsAgree(n, f, g)
      BY <1>1, <1>3, <1>8, <2>1 DEF TurnsAgree
    <2>. QED
      BY <2>2, LoopsAgree
  <1>. QED
    BY <1>2, <1>9 DEF g, n

-----------------------------------------------------------------------------
(* The recursion of Decoded: what is read from each place on.                *)
DecodedAt(s, plus, from) ==
    /\ from[Len(s) + 1] = <<>>
    /\ \A i \in 1..Len(s) :
          from[i] = IF IsEscape(s, i)
                    THEN <<16 * HexValue(s[i + 1]) + HexValue(s[i + 2])>> \o from[i + 3]
                    ELSE <<IF s[i] = 43 THEN plus ELSE s[i]>> \o from[i + 1]

LEMMA DecodedIs ==
  ASSUME NEW s \in Seq(Nat), NEW plus \in Nat
  PROVE  \E from : DecodedAt(s, plus, from) /\ Decoded(s, plus) = from[1]
  <1> DEFINE S == 1..(Len(s) + 1)
             T == Seq(Nat)
             byte(i) == 16 * HexValue(s[i + 1]) + HexValue(s[i + 2])
             here(i) == IF s[i] = 43 THEN plus ELSE s[i]
             Body(g) == [i \in S |->
                            IF i > Len(s) THEN <<>>
                            ELSE IF IsEscape(s, i) THEN <<byte(i)>> \o g[i + 3]
                            ELSE <<here(i)>> \o g[i + 1]]
             rank == [i \in S |-> Len(s) + 1 - i]
             D == [g \in [S -> T] |-> Body(g)]
  <1>1. Len(s) \in Nat
    BY LenProperties
  <1>2. ASSUME NEW i \in 1..Len(s) PROVE here(i) \in Nat /\ (IsEscape(s, i) => byte(i) \in Nat)
    <2>1. s[i] \in Nat
      BY ElementOfSeq
    <2>2. ASSUME IsEscape(s, i) PROVE byte(i) \in Nat
      <3>1. \A h : IsHex(h) => HexValue(h) \in Nat
        BY DEF IsHex, HexValue, Digits
      <3>2. IsHex(s[i + 1]) /\ IsHex(s[i + 2])
        BY <2>2 DEF IsEscape
      <3>3. HexValue(s[i + 1]) \in Nat /\ HexValue(s[i + 2]) \in Nat
        BY <3>1, <3>2
      <3>4. \A x, y \in Nat : 16 * x + y \in Nat
        OBVIOUS
      <3>. QED
        BY <3>3, <3>4
    <2>. QED
      BY <2>1, <2>2
  <1>3. ASSUME NEW i \in S, ~(i > Len(s))
        PROVE  i \in 1..Len(s) /\ i + 1 \in S /\ (IsEscape(s, i) => i + 3 \in S)
    BY <1>1, <1>3 DEF IsEscape
  <1> HIDE DEF byte, here
  <1>4. ASSUME NEW g \in [S -> T] PROVE Body(g) \in [S -> T]
    <2>1. <<>> \in T
      BY EmptySeq
    <2>2. ASSUME NEW a \in Nat, NEW b \in T PROVE <<a>> \o b \in T
      <3>1. <<a>> \in T
        OBVIOUS
      <3>. QED
        BY <3>1, ConcatProperties
    <2> HIDE DEF S, T
    <2>. QED
      BY <1>2, <1>3, <2>1, <2>2
  <1>5. OnLowerRank(S, T, rank, D)
    <2>1. rank \in [S -> Nat] /\ T # {} /\ D \in [[S -> T] -> [S -> T]]
      <3>1. rank \in [S -> Nat]
        BY <1>1
      <3>2. T # {}
        BY EmptySeq
      <3> HIDE DEF S, T, Body
      <3>3. D \in [[S -> T] -> [S -> T]]
        BY <1>4
      <3>. QED
        BY <3>1, <3>2, <3>3
    <2>2. ASSUME NEW g \in [S -> T], NEW h \in [S -> T], NEW x \in S,
                 \A y \in S : rank[y] < rank[x] => g[y] = h[y]
          PROVE  Body(g)[x] = Body(h)[x]
      <3>1. CASE x > Len(s)
        BY <3>1
      <3>2. CASE ~(x > Len(s)) /\ IsEscape(s, x)
        <4>1. x + 3 \in S /\ rank[x + 3] < rank[x]
          BY <1>1, <1>3, <3>2
        <4>. QED
          BY <2>2, <3>2, <4>1
      <3>3. CASE ~(x > Len(s)) /\ ~IsEscape(s, x)
        <4>1. x + 1 \in S /\ rank[x + 1] < rank[x]
          BY <1>1, <1>3, <3>3
        <4>. QED
          BY <2>2, <3>3, <4>1
      <3>. QED
        BY <3>1, <3>2, <3>3
    <2> HIDE DEF S, T, rank, Body
    <2>. QED
      BY <2>1, <2>2 DEF OnLowerRank
  <1>6. PICK f : f = Body(f)
    <2>1. PICK f \in [S -> T] : f = D[f]
      <3> HIDE DEF S, T, rank, Body, D
      <3>. QED
        BY <1>5, FixedPoint
    <2> HIDE DEF Body
    <2>. QED
      BY <2>1
  <1> DEFINE from == CHOOSE g : g = Body(g)
  <1>7. Decoded(s, plus) = from[1]
    BY DEF Decoded, byte, here
  <1>8. from = Body(from)
    <2> HIDE DEF Body
    <2>. QED
      BY <1>6
  <1> HIDE DEF from
  <1>9. DecodedAt(s, plus, from)
    <2>1. Len(s) + 1 \in S /\ Len(s) + 1 > Len(s)
      BY <1>1
    <2>2. \A i \in 1..Len(s) : i \in S /\ ~(i > Len(s))
      BY <1>1
    <2> HIDE DEF S
    <2>3. from[Len(s) + 1] = <<>>
      BY <1>8, <2>1
    <2>4. ASSUME NEW i \in 1..Len(s)
          PROVE  from[i] = IF IsEscape(s, i) THEN <<byte(i)>> \o from[i + 3]
                           ELSE <<here(i)>> \o from[i + 1]
      BY <1>8, <2>2
    <2>. QED
      BY <2>3, <2>4 DEF DecodedAt, byte, here
  <1>. QED
    BY <1>7, <1>9

(* A piece that the reader takes for the byte it was made of.                *)
Reads(e, c) == (e = <<c>> /\ c # 37 /\ c # 43) \/ e = Escape(c)

LEMMA EncodingReads ==
  ASSUME NEW c \in 1..255
  PROVE  Reads(Encoding(c), c) /\ Reads(FormEncoding(c), c)
  BY DEF Reads, Encoding, FormEncoding, Safe, Slash, Digits, Upper, Lower

(* The two digits of an escape have the value of the byte.                   *)
LEMMA EscapeReads ==
  ASSUME NEW c \in 1..255
  PROVE  \E h, l \in Nat : /\ Escape(c) = <<37, h, l>> /\ IsHex(h) /\ IsHex(l)
                           /\ 16 * HexValue(h) + HexValue(l) = c
  <1>1. /\ c \div 16 \in 0..15 /\ c % 16 \in 0..15
        /\ 16 * (c \div 16) + (c % 16) = c
    OBVIOUS
  <1>2. \A d \in 0..15 : Hex(d) \in Nat /\ IsHex(Hex(d)) /\ HexValue(Hex(d)) = d
    BY DEF Hex, IsHex, HexValue, Digits
  <1>3. Escape(c) = <<37, Hex(c \div 16), Hex(c % 16)>>
    BY DEF Escape, Percent
  <1>. QED
    BY <1>1, <1>2, <1>3

(* A text g of pieces c made of the bytes of in, and its reader.             *)
Reading(in, g, c, plus, from) ==
    /\ in \in Seq(1..255) /\ Concatenates(Len(in), Nat, g, c)
    /\ \A k \in 1..Len(in) : Reads(c[k], in[k])
    /\ DecodedAt(g[Len(in)], plus, from)

(* What the reader makes of each piece.                                      *)
LEMMA PieceRead ==
  ASSUME NEW in, NEW g, NEW c, NEW plus, NEW from, Reading(in, g, c, plus, from)
  PROVE  \A k \in 1..Len(in) :
            from[Len(g[k - 1]) + 1] = <<in[k]>> \o from[Len(g[k]) + 1]
  <1> SUFFICES ASSUME NEW k \in 1..Len(in)
               PROVE  from[Len(g[k - 1]) + 1] = <<in[k]>> \o from[Len(g[k]) + 1]
    OBVIOUS
  <1>0. /\ in \in Seq(1..255) /\ Concatenates(Len(in), Nat, g, c)
        /\ Reads(c[k], in[k]) /\ DecodedAt(g[Len(in)], plus, from)
    BY DEF Reading
  <1> DEFINE n == Len(in)
             s == g[n]
             a == g[k - 1]
             e == c[k]
             p == Len(a)
  <1>1. n \in Nat /\ k \in 0..n /\ k - 1 \in 0..n /\ n \in k..n
    BY <1>0, LenProperties
  <1>2. /\ g[k] = a \o e /\ a \in Seq(Nat) /\ e \in Seq(Nat) /\ s \in Seq(Nat)
        /\ in[k] \in 1..255
    <2>1. /\ g \in [0..n -> Seq(Nat)] /\ c \in [1..n -> Seq(Nat)]
          /\ \A i \in 1..n : g[i] = g[i - 1] \o c[i]
      BY <1>0 DEF Concatenates
    <2>2. in[k] \in 1..255
      BY <1>0, ElementOfSeq
    <2>3. \A i \in 0..n : g[i] \in Seq(Nat)
      BY <2>1
    <2>4. n \in 0..n
      BY <1>1
    <2>5. a \in Seq(Nat) /\ s \in Seq(Nat)
      <3> HIDE DEF n
      <3>. QED
        BY <1>1, <2>3, <2>4
    <2>. QED
      BY <2>1, <2>2, <2>5
  <1>3. Len(g[k]) <= Len(s) /\ \A q \in 1..Len(g[k]) : s[q] = g[k][q]
    BY <1>0, <1>1, TextGrows
  <1> HIDE DEF n, s, a, e
  <1>4. /\ Len(g[k]) = p + Len(e) /\ p \in Nat /\ Len(e) \in Nat /\ Len(s) \in Nat
        /\ \A q \in 1..(p + Len(e)) : g[k][q] = IF q <= p THEN a[q] ELSE e[q - p]
    BY <1>2, ConcatProperties, LenProperties
  <1>5. \A q \in 1..Len(e) : p + q \in 1..Len(s) /\ s[p + q] = e[q]
    <2>1. ASSUME NEW q \in 1..Len(e) PROVE p + q \in 1..Len(s) /\ s[p + q] = e[q]
      <3>1. p + q \in 1..(p + Len(e)) /\ ~(p + q <= p) /\ (p + q) - p = q
        BY <1>4
      <3>2. p + q \in 1..Len(g[k])
        BY <1>4, <3>1
      <3>3. g[k][p + q] = e[q]
        BY <1>4, <3>1
      <3>4. s[p + q] = g[k][p + q]
        BY <1>3, <3>2
      <3>5. \A x \in Nat : x <= Len(s) => \A y \in 1..x : y \in 1..Len(s)
        BY <1>4
      <3>6. Len(g[k]) \in Nat
        BY <1>4
      <3>7. p + q \in 1..Len(s)
        BY <1>3, <3>2, <3>5, <3>6
      <3>. QED
        BY <3>3, <3>4, <3>7
    <2>. QED
      BY <2>1
  <1>6. \A i \in 1..Len(s) :
          from[i] = IF IsEscape(s, i)
                    THEN <<16 * HexValue(s[i + 1]) + HexValue(s[i + 2])>> \o from[i + 3]
                    ELSE <<IF s[i] = 43 THEN plus ELSE s[i]>> \o from[i + 1]
    BY <1>0 DEF DecodedAt, s, n
  <1>7. CASE e = <<in[k]>> /\ in[k] # 37 /\ in[k] # 43
    <2>1. Len(e) = 1 /\ e[1] = in[k]
      BY <1>7
    <2>2. p + 1 \in 1..Len(s) /\ s[p + 1] = in[k] /\ Len(g[k]) + 1 = (p + 1) + 1
      BY <1>4, <1>5, <2>1
    <2>3. ~IsEscape(s, p + 1)
      BY <1>7, <2>2 DEF IsEscape, Percent
    <2>. QED
      BY <1>6, <1>7, <2>2, <2>3 DEF a
  <1>8. CASE e = Escape(in[k])
    <2>1. PICK h, l \in Nat : /\ e = <<37, h, l>> /\ IsHex(h) /\ IsHex(l)
                              /\ 16 * HexValue(h) + HexValue(l) = in[k]
      BY <1>2, <1>8, EscapeReads
    <2>2. Len(e) = 3 /\ e[1] = 37 /\ e[2] = h /\ e[3] = l
      BY <2>1
    <2>3. /\ p + 1 \in 1..Len(s) /\ p + 3 <= Len(s)
          /\ s[p + 1] = 37 /\ s[p + 2] = h /\ s[p + 3] = l
      BY <1>4, <1>5, <2>2
    <2>4. (p + 1) + 1 = p + 2 /\ (p + 1) + 2 = p + 3 /\ (p + 1) + 3 = Len(g[k]) + 1
      BY <1>4, <2>2
    <2>5. IsEscape(s, p + 1)
      BY <2>1, <2>3, <2>4 DEF IsEscape, Percent
    <2>6. from[p + 1] = <<16 * HexValue(s[(p + 1) + 1]) + HexValue(s[(p + 1) + 2])>>
                        \o from[(p + 1) + 3]
      BY <1>6, <2>3, <2>5
    <2>7. from[p + 1] = <<in[k]>> \o from[Len(g[k]) + 1]
      BY <2>1, <2>3, <2>4, <2>6
    <2>. QED
      BY <2>7 DEF a
  <1>. QED
    BY <1>0, <1>7, <1>8 DEF Reads, e

(* Reading a text made of such pieces gives the bytes back.                  *)
LEMMA TextReads ==
  ASSUME NEW in \in Seq(1..255), NEW g, NEW c, Concatenates(Len(in), Nat, g, c),
         \A k \in 1..Len(in) : Reads(c[k], in[k]), NEW plus \in Nat
  PROVE  Decoded(g[Len(in)], plus) = in
  <1> DEFINE n == Len(in)
             s == g[n]
  <1>1. n \in Nat /\ s \in Seq(Nat) /\ g[0] = <<>>
    BY LenProperties DEF Concatenates
  <1>2. PICK from : DecodedAt(s, plus, from) /\ Decoded(s, plus) = from[1]
    BY <1>1, DecodedIs
  <1> DEFINE G == {j \in Nat : j <= n => from[Len(g[n - j]) + 1] = SubSeq(in, n - j + 1, n)}
  <1>3. 0 \in G
    <2>1. n - 0 = n /\ n - 0 + 1 = n + 1 /\ SubSeq(in, n + 1, n) = <<>>
      BY <1>1, SubSeqEmpty
    <2>2. from[Len(s) + 1] = <<>>
      BY <1>2 DEF DecodedAt
    <2>3. from[Len(g[n - 0]) + 1] = SubSeq(in, n - 0 + 1, n)
      BY <2>1, <2>2
    <2>. QED
      BY <2>3
  <1>4. ASSUME NEW j \in Nat, j \in G PROVE j + 1 \in G
    <2>1. ASSUME j + 1 <= n
          PROVE  from[Len(g[n - (j + 1)]) + 1] = SubSeq(in, n - (j + 1) + 1, n)
      <3> DEFINE k == n - j
      <3>1. k \in 1..n /\ n \in k..n /\ n - (j + 1) = k - 1 /\ n - (j + 1) + 1 = k /\ j <= n
        BY <1>1, <2>1
      <3>2. from[Len(g[k]) + 1] = SubSeq(in, k + 1, n)
        BY <1>4, <3>1
      <3> HIDE DEF k
      <3>3. from[Len(g[k - 1]) + 1] = <<in[k]>> \o from[Len(g[k]) + 1]
        <4>1. Reading(in, g, c, plus, from) /\ k \in 1..Len(in)
          BY <1>2, <3>1 DEF Reading
        <4>. QED
          BY <4>1, PieceRead
      <3>4. SubSeq(in, k, n) = <<in[k]>> \o SubSeq(in, k + 1, n)
        BY <3>1, SubSeqRecursiveFirst
      <3>. QED
        BY <3>1, <3>2, <3>3, <3>4
    <2>. QED
      BY <2>1
  <1> HIDE DEF G
  <1>5. Nat \subseteq G
    BY <1>3, <1>4, SetInduction
  <1>6. from[Len(g[n - n]) + 1] = SubSeq(in, n - n + 1, n)
    BY <1>1, <1>5 DEF G
  <1>7. n - n = 0 /\ Len(g[0]) + 1 = 1 /\ n - n + 1 = 1 /\ SubSeq(in, 1, n) = in
    BY <1>1, SubSeqFull
  <1>. QED
    BY <1>2, <1>6, <1>7

(* url_encode_path in a buffer of any size.                                  *)
LEMMA UrlEncoded ==
  ASSUME NEW in \in Seq(1..255), NEW sz \in Nat
  PROVE  LET r == url_encode_path(in, sz)
             whole == Encoded(in)[Len(in)]
         IN  /\ Len(whole) \in 0..(3 * Len(in))
             /\ r.ok <=> Len(whole) < sz
             /\ r.ok => r.out = whole
             /\ Len(r.out) <= sz
  <1> DEFINE n == Len(in)
             E == Encoded(in)
             r == url_encode_path(in, sz)
             stops == {i \in 1..n : NoRoom(Len(E[i - 1]), Len(Encoding(in[i])), sz)}
             late == {i \in 1..n : Len(E[i]) >= sz}
  <1>1. n \in Nat /\ Concatenates(n, Nat, E, UrlPieces(in))
    BY LenProperties, EncodedIs
  <1>2. \A i \in 0..n : E[i] \in Seq(Nat) /\ Len(E[i]) \in Nat /\ Len(E[i]) <= 3 * i
    <2>1. \A i \in 1..n : Len(UrlPieces(in)[i]) <= 3
      BY PiecesAreShort
    <2> HIDE DEF n, E
    <2>2. \A i \in 0..n : Len(E[i]) <= 3 * i
      BY <1>1, <2>1, TextIsShort
    <2>3. \A i \in 0..n : E[i] \in Seq(Nat)
      BY <1>1 DEF Concatenates
    <2>. QED
      BY <2>2, <2>3, LenProperties
  <1>3. \A i \in 1..n : Len(E[i]) = Len(E[i - 1]) + Len(Encoding(in[i]))
    <2>1. ASSUME NEW i \in 1..n PROVE Len(E[i]) = Len(E[i - 1]) + Len(Encoding(in[i]))
      <3>1. E[i] = E[i - 1] \o Encoding(in[i]) /\ Encoding(in[i]) \in Seq(Nat)
        BY <1>1, PiecesAreShort DEF Concatenates, UrlPieces
      <3>2. i - 1 \in 0..n
        BY <1>1
      <3>3. E[i - 1] \in Seq(Nat)
        BY <1>2, <3>2
      <3> HIDE DEF E
      <3>. QED
        BY <3>1, <3>3, ConcatProperties
    <2>. QED
      BY <2>1
  <1>4. stops = late
    BY <1>3 DEF NoRoom
  <1>5. r = [ok |-> sz > 0 /\ late = {},
             out |-> E[IF sz = 0 THEN 0 ELSE IF late = {} THEN n ELSE Min(late) - 1]]
    BY <1>4 DEF url_encode_path
  <1>6. \A i \in 0..n : Len(E[i]) <= Len(E[n])
    <2>1. \A i \in 0..n : n \in i..n
      BY <1>1
    <2> HIDE DEF n, E
    <2>. QED
      BY <1>1, <2>1, TextGrows
  <1> HIDE DEF r, stops, E, n
  <1>7. E[0] = <<>>
    BY <1>1 DEF Concatenates
  <1>8. n \in 0..n /\ (n = 0 \/ n \in 1..n)
    BY <1>1
  <1>9. (sz > 0 /\ late = {}) <=> Len(E[n]) < sz
    <2>1. Len(E[n]) \in Nat
      BY <1>2, <1>8
    <2>2. ASSUME sz > 0, late = {} PROVE Len(E[n]) < sz
      <3>1. CASE n = 0
        <4>1. Len(E[n]) = 0
          BY <1>7, <3>1
        <4>. QED
          BY <2>2, <4>1
      <3>2. CASE n \in 1..n
        BY <2>1, <2>2, <3>2
      <3>. QED
        BY <1>8, <3>1, <3>2
    <2>3. ASSUME Len(E[n]) < sz PROVE sz > 0 /\ late = {}
      <3>1. \A i \in 1..n : i \in 0..n
        BY <1>1
      <3>2. \A x, y, z \in Nat : x <= y /\ y < z => ~(x >= z) /\ z > 0
        OBVIOUS
      <3>3. \A i \in 1..n : ~(Len(E[i]) >= sz)
        BY <1>2, <1>6, <2>1, <2>3, <3>1, <3>2
      <3>4. sz > 0
        BY <2>1, <2>3
      <3>. QED
        BY <3>3, <3>4
    <2>. QED
      BY <2>2, <2>3
  <1>10. (sz > 0 /\ late = {}) => r.out = E[n]
    BY <1>5
  <1>11. Len(r.out) <= sz
    <2>1. CASE sz = 0
      BY <1>5, <1>7, <2>1
    <2>2. CASE sz > 0 /\ late = {}
      <3>1. Len(E[n]) \in Nat /\ Len(E[n]) < sz
        BY <1>2, <1>8, <1>9, <2>2
      <3>. QED
        BY <1>10, <2>2, <3>1
    <2>3. CASE sz > 0 /\ late # {}
      <3> DEFINE m == Min(late)
      <3>1. late \in SUBSET Nat
        BY <1>1
      <3>2. m \in late /\ \A i \in late : m <= i
        <4> HIDE DEF late
        <4>. QED
          BY <2>3, <3>1, MinIsLeast
      <3> HIDE DEF m
      <3>3. m \in 1..n
        BY <3>2
      <3>4. r.out = E[m - 1]
        BY <1>5, <2>3 DEF m
      <3>5. CASE m = 1
        <4>1. Len(r.out) = 0
          BY <1>7, <3>4, <3>5
        <4>. QED
          BY <4>1
      <3>6. CASE m # 1
        <4>1. m - 1 \in 1..n /\ m - 1 \in 0..n /\ ~(m <= m - 1)
          BY <1>1, <3>3, <3>6
        <4>2. ~(Len(E[m - 1]) >= sz)
          BY <3>2, <4>1
        <4>3. Len(E[m - 1]) \in Nat
          BY <1>2, <4>1
        <4>. QED
          BY <3>4, <4>2, <4>3
      <3>. QED
        BY <3>5, <3>6
    <2>. QED
      BY <2>1, <2>2, <2>3
  <1>12. Len(E[n]) \in 0..(3 * n)
    BY <1>1, <1>2, <1>8
  <1>13. r.ok <=> (sz > 0 /\ late = {})
    BY <1>5
  <1>14. r.ok <=> Len(E[n]) < sz
    BY <1>9, <1>13
  <1>15. r.ok => r.out = E[n]
    BY <1>10, <1>13
  <1>. QED
    BY <1>11, <1>12, <1>14, <1>15 DEF r, E, n

(* A server reads the bytes that were encoded, whatever they are, and a      *)
(* buffer is refused exactly when it is too small.                          *)
THEOREM EncodingAlwaysExact == NamesSpec => []EncodingExact
  <1>1. NamesTypeOK => EncodingExact
    <2> SUFFICES ASSUME NamesTypeOK PROVE EncodingExact
      OBVIOUS
    <2>1. path \in Seq(1..255) /\ Len(path) \in Nat
      <3>1. path \in Seq(Bytes) /\ Bytes \subseteq 1..255
        BY NameInputsAssumption DEF NamesTypeOK
      <3>2. path \in Seq(1..255)
        <4> DEFINE C == 1..255
        <4>1. Bytes \subseteq C
          BY <3>1
        <4> HIDE DEF C
        <4>2. path \in Seq(C)
          BY <3>1, <4>1, SeqMonotonic
        <4>. QED
          BY <4>2 DEF C
      <3>. QED
        BY <3>2, LenProperties
    <2>2. Ample \in Nat /\ Ample > 3 * Len(path)
      BY <2>1 DEF Ample
    <2> DEFINE n == Len(path)
               whole == Encoded(path)[n]
    <2>3. url_encode_path(path, Ample).ok /\ url_encode_path(path, Ample).out = whole
      BY <2>1, <2>2, UrlEncoded
    <2>4. Decoded(whole, 43) = path
      <3>1. Concatenates(n, Nat, Encoded(path), UrlPieces(path))
        BY <2>1, EncodedIs
      <3>2. \A k \in 1..n : Reads(UrlPieces(path)[k], path[k])
        BY <2>1, EncodingReads, ElementOfSeq DEF UrlPieces
      <3>. QED
        BY <2>1, <3>1, <3>2, TextReads
    <2>5. Decoded(url_encode(path, Ample), 32) = path
      <3>1. Concatenates(n, Nat, FormEncoded(path, Ample), FormPieces(path))
        BY <2>1, <2>2, FormEncodedIs
      <3>2. \A k \in 1..n : Reads(FormPieces(path)[k], path[k])
        BY <2>1, EncodingReads, ElementOfSeq DEF FormPieces
      <3>. QED
        BY <2>1, <3>1, <3>2, TextReads DEF url_encode
    <2>6. ASSUME NEW sz \in 0..Ample
          PROVE  LET r == url_encode_path(path, sz)
                 IN  /\ r.ok <=> Len(whole) < sz
                     /\ Len(r.out) <= sz /\ (r.ok => Len(r.out) < sz)
      <3>1. sz \in Nat
        BY <2>2
      <3>. QED
        BY <2>1, <3>1, UrlEncoded
    <2>. QED
      BY <2>3, <2>4, <2>5, <2>6 DEF EncodingExact
  <1>. QED
    BY <1>1, NamesTypesHold, PTL

-----------------------------------------------------------------------------
(* What the next byte does to the components of a path.                      *)
Step(w, b) ==
    IF b = Slash THEN [closed |-> Closed(w), open |-> <<>>]
    ELSE [closed |-> w.closed, open |-> Append(w.open, b)]

Walks == [closed : Seq(Seq(Nat)), open : Seq(Nat)]

LEMMA StepWalks ==
  ASSUME NEW w \in Walks, NEW b \in Nat
  PROVE  Step(w, b) \in Walks /\ Closed(w) \in Seq(Seq(Nat))
  <1>1. w.closed \in Seq(Seq(Nat)) /\ w.open \in Seq(Nat)
    BY DEF Walks
  <1>2. Append(w.open, b) \in Seq(Nat) /\ Append(w.closed, w.open) \in Seq(Seq(Nat))
    BY <1>1, AppendProperties
  <1>3. <<>> \in Seq(Nat)
    BY EmptySeq
  <1>. QED
    BY <1>1, <1>2, <1>3 DEF Step, Closed, Walks

(* The recursion of Walked.                                                  *)
LEMMA WalkedIs ==
  ASSUME NEW p \in Seq(Nat)
  PROVE  /\ Walked(p)[0] = [closed |-> <<>>, open |-> <<>>]
         /\ \A i \in 1..Len(p) : Walked(p)[i] = Step(Walked(p)[i - 1], p[i])
         /\ \A i \in 0..Len(p) : Walked(p)[i] \in Walks
  <1> DEFINE n == Len(p)
             b == [closed |-> <<>>, open |-> <<>>]
             turn == [i \in 1..n |-> [w \in Walks |-> Step(w, p[i])]]
             Body(g) == [i \in 0..n |->
                           IF i = 0 THEN [closed |-> <<>>, open |-> <<>>]
                           ELSE IF p[i] = Slash THEN [closed |-> Closed(g[i - 1]), open |-> <<>>]
                           ELSE [closed |-> g[i - 1].closed, open |-> Append(g[i - 1].open, p[i])]]
             Turned(g) == [i \in 0..n |-> IF i = 0 THEN b ELSE Step(g[i - 1], p[i])]
             walk == Walked(p)
  <1>1. n \in Nat /\ \A i \in 1..n : p[i] \in Nat
    BY LenProperties, ElementOfSeq
  <1>2. b \in Walks
    BY EmptySeq DEF Walks
  <1>3. turn \in [1..n -> [Walks -> Walks]]
    BY <1>1, StepWalks
  <1> HIDE DEF b
  <1>4. PICK f \in [0..n -> Walks] : f[0] = b /\ \A i \in 1..n : f[i] = turn[i][f[i - 1]]
    <2> HIDE DEF n, turn
    <2>1. IsLoop(n, Walks, b, turn)
      BY <1>1, <1>2, <1>3 DEF IsLoop
    <2>2. PICK f : AreValues(f, n, Walks, b, turn)
      BY <2>1, LoopHasValues
    <2>. QED
      BY <2>2 DEF AreValues
  <1> HIDE DEF n
  <1>5. \A i \in 1..n : f[i] = Step(f[i - 1], p[i])
    <2>1. ASSUME NEW i \in 1..n PROVE f[i] = Step(f[i - 1], p[i])
      <3>1. i - 1 \in 0..n
        BY <1>1
      <3>2. f[i - 1] \in Walks
        BY <3>1
      <3>. QED
        BY <1>4, <3>2
    <2>. QED
      BY <2>1
  <1>6. f = Turned(f)
    <2>1. ASSUME NEW i \in 0..n PROVE f[i] = Turned(f)[i]
      <3>1. i = 0 \/ i \in 1..n
        BY <1>1
      <3>. QED
        BY <1>4, <1>5, <3>1
    <2>2. Turned(f) = [i \in 0..n |-> Turned(f)[i]]
      OBVIOUS
    <2> HIDE DEF Turned
    <2>. QED
      BY <1>4, <2>1, <2>2
  <1>7. \A g : Body(g) = Turned(g)
    BY DEF Step, b
  <1>8. walk = CHOOSE w : w = Body(w)
    BY DEF Walked, n
  <1>9. walk = Turned(walk)
    <2> HIDE DEF Body, Turned, walk
    <2>. QED
      BY <1>6, <1>7, <1>8
  <1> HIDE DEF walk, Body
  <1>10. /\ walk[0] = b /\ walk = [i \in 0..n |-> walk[i]]
         /\ \A i \in 1..n : walk[i] = Step(walk[i - 1], p[i])
    <2>1. 0 \in 0..n /\ \A i \in 1..n : i \in 0..n /\ i # 0
      BY <1>1
    <2>2. /\ Turned(walk)[0] = b /\ Turned(walk) = [i \in 0..n |-> Turned(walk)[i]]
          /\ \A i \in 1..n : Turned(walk)[i] = Step(walk[i - 1], p[i])
      BY <2>1
    <2> HIDE DEF Turned
    <2>. QED
      BY <1>9, <2>2
  <1>11. f = walk
    <2>1. f[0] = walk[0] /\ \A i \in 1..n : f[i - 1] = walk[i - 1] => f[i] = walk[i]
      BY <1>4, <1>5, <1>10
    <2>2. f = [i \in 0..n |-> f[i]]
      BY <1>4
    <2> HIDE DEF Turned
    <2>3. TurnsAgree(n, f, walk)
      BY <1>1, <1>10, <2>1, <2>2 DEF TurnsAgree
    <2>. QED
      BY <2>3, LoopsAgree
  <1>. QED
    BY <1>4, <1>10, <1>11 DEF walk, n, b

(* Paths with the same first bytes lead the same way so far.                 *)
LEMMA WalkedSame ==
  ASSUME NEW p \in Seq(Nat), NEW q \in Seq(Nat), NEW k \in Nat, k <= Len(p), k <= Len(q),
         \A i \in 1..k : p[i] = q[i]
  PROVE  Walked(p)[k] = Walked(q)[k]
  <1> DEFINE G == {i \in Nat : i <= k => Walked(p)[i] = Walked(q)[i]}
  <1>1. Len(p) \in Nat /\ Len(q) \in Nat
    BY LenProperties
  <1>2. 0 \in G
    BY WalkedIs
  <1>3. ASSUME NEW i \in Nat, i \in G PROVE i + 1 \in G
    <2>1. ASSUME i + 1 <= k PROVE Walked(p)[i + 1] = Walked(q)[i + 1]
      <3>1. /\ i <= k /\ i + 1 \in 1..k /\ i + 1 \in 1..Len(p) /\ i + 1 \in 1..Len(q)
            /\ (i + 1) - 1 = i
        BY <1>1, <2>1
      <3>2. Walked(p)[i] = Walked(q)[i] /\ p[i + 1] = q[i + 1]
        BY <1>3, <3>1
      <3>3. Walked(p)[i + 1] = Step(Walked(p)[(i + 1) - 1], p[i + 1])
        BY <3>1, WalkedIs
      <3>4. Walked(q)[i + 1] = Step(Walked(q)[(i + 1) - 1], q[i + 1])
        BY <3>1, WalkedIs
      <3>. QED
        BY <3>1, <3>2, <3>3, <3>4
    <2>. QED
      BY <2>1
  <1> HIDE DEF G
  <1>4. Nat \subseteq G
    BY <1>2, <1>3, SetInduction
  <1>. QED
    BY <1>4 DEF G

(* A sequence without the element that was appended.                         *)
LEMMA FrontOfAppend ==
  ASSUME NEW T, NEW s \in Seq(T), NEW e \in T
  PROVE  Append(s, e) # <<>> /\ Front(Append(s, e)) = s
  <1> DEFINE a == Append(s, e)
             t == SubSeq(a, 1, Len(s))
  <1>1. /\ a \in Seq(T) /\ Len(a) = Len(s) + 1 /\ Len(s) \in Nat
        /\ \A i \in 1..Len(s) : a[i] = s[i]
    BY AppendProperties, LenProperties
  <1>2. a # <<>>
    BY <1>1, EmptySeq
  <1> HIDE DEF a
  <1>3. \A i \in 1..Len(s) : a[i] \in T
    BY <1>1, ElementOfSeq
  <1>4. t \in Seq(T) /\ Len(t) = Len(s) /\ \A i \in 1..Len(s) : t[i] = a[1 + i - 1]
    BY <1>1, <1>3, SubSeqProperties
  <1>5. \A i \in 1..Len(s) : t[i] = s[i]
    <2>1. ASSUME NEW i \in 1..Len(s) PROVE t[i] = s[i]
      <3>1. 1 + i - 1 = i
        BY <1>1
      <3>. QED
        BY <1>1, <1>4, <3>1
    <2>. QED
      BY <2>1
  <1> HIDE DEF t
  <1>6. t = s
    BY <1>4, <1>5, SeqEqual
  <1>7. Len(a) - 1 = Len(s)
    BY <1>1
  <1>. QED
    BY <1>2, <1>6, <1>7 DEF Front, t, a

(* Behind the last slash there is one component more, and the path to its    *)
(* parent is what was closed there.                                        *)
LEMMA ParentOf ==
  ASSUME NEW p \in Seq(Nat), NEW k \in Nat, k < Len(p), Walked(p)[k].open = <<>>,
         \A i \in (k + 1)..Len(p) : p[i] # Slash
  PROVE  Front(Components(p)) = Walked(p)[k].closed
  <1> DEFINE n == Len(p)
             walk == Walked(p)
             G == {j \in Nat : k + 1 + j <= n =>
                       walk[k + 1 + j].closed = walk[k].closed /\ walk[k + 1 + j].open # <<>>}
  <1>1. n \in Nat
    BY LenProperties
  <1>2. \A i \in 1..n : walk[i] = Step(walk[i - 1], p[i])
    BY WalkedIs
  <1>3. \A i \in 0..n : walk[i] \in Walks
    BY WalkedIs
  <1> HIDE DEF n, walk
  <1>4. ASSUME NEW i \in (k + 1)..n
        PROVE  walk[i].closed = walk[i - 1].closed /\ walk[i].open # <<>>
    <2>1. i \in 1..n /\ i - 1 \in 0..n /\ p[i] # Slash /\ p[i] \in Nat
      BY <1>1, ElementOfSeq DEF n
    <2>2. walk[i] = [closed |-> walk[i - 1].closed, open |-> Append(walk[i - 1].open, p[i])]
      BY <1>2, <2>1 DEF Step
    <2>3. walk[i - 1].open \in Seq(Nat)
      BY <1>3, <2>1 DEF Walks
    <2>4. Append(walk[i - 1].open, p[i]) # <<>>
      BY <2>1, <2>3, FrontOfAppend
    <2>. QED
      BY <2>2, <2>4
  <1>5. 0 \in G
    <2>1. k + 1 + 0 \in (k + 1)..n /\ k + 1 + 0 - 1 = k
      BY <1>1 DEF n
    <2>2. walk[k + 1 + 0].closed = walk[k].closed /\ walk[k + 1 + 0].open # <<>>
      BY <1>4, <2>1
    <2>. QED
      BY <2>2
  <1>6. ASSUME NEW j \in Nat, j \in G PROVE j + 1 \in G
    <2>1. ASSUME k + 1 + (j + 1) <= n
          PROVE  walk[k + 1 + (j + 1)].closed = walk[k].closed /\ walk[k + 1 + (j + 1)].open # <<>>
      <3>1. /\ k + 1 + (j + 1) \in (k + 1)..n /\ k + 1 + (j + 1) - 1 = k + 1 + j
            /\ k + 1 + j <= n
        BY <1>1, <2>1
      <3>2. walk[k + 1 + j].closed = walk[k].closed
        BY <1>6, <3>1
      <3>3. /\ walk[k + 1 + (j + 1)].closed = walk[k + 1 + (j + 1) - 1].closed
            /\ walk[k + 1 + (j + 1)].open # <<>>
        BY <1>4, <3>1
      <3>. QED
        BY <3>1, <3>2, <3>3
    <2>. QED
      BY <2>1
  <1> HIDE DEF G
  <1>7. Nat \subseteq G
    BY <1>5, <1>6, SetInduction
  <1>8. walk[n].closed = walk[k].closed /\ walk[n].open # <<>> /\ walk[n] \in Walks
    <2>1. n - (k + 1) \in Nat /\ k + 1 + (n - (k + 1)) = n /\ n \in 0..n
      BY <1>1 DEF n
    <2>2. n - (k + 1) \in G
      BY <1>7, <2>1
    <2>3. walk[n].closed = walk[k].closed /\ walk[n].open # <<>>
      BY <2>1, <2>2 DEF G
    <2>. QED
      BY <1>3, <2>1, <2>3
  <1>9. Components(p) = Append(walk[n].closed, walk[n].open)
    BY <1>8 DEF Components, Closed, walk, n
  <1>10. walk[n].closed \in Seq(Seq(Nat)) /\ walk[n].open \in Seq(Nat)
    BY <1>8 DEF Walks
  <1>11. Front(Append(walk[n].closed, walk[n].open)) = walk[n].closed
    BY <1>10, FrontOfAppend
  <1>. QED
    BY <1>8, <1>9, <1>11 DEF walk, n

-----------------------------------------------------------------------------
(* A directory whose parent is there is made, and no directory disappears.   *)
LEMMA MakeDirMakes ==
  ASSUME NEW dirs, NEW p \in Seq(Nat), p # <<>>,
         [rooted |-> Head(p) = Slash, at |-> Walked(p)[Len(p)].closed] \in dirs
  PROVE  dirs \subseteq make_dir(dirs, p) /\ Directory(p) \in make_dir(dirs, p)
  <1> DEFINE w == Walked(p)[Len(p)]
             d == Directory(p)
  <1>1. w \in Walks
    <2>1. Len(p) \in 0..Len(p)
      BY LenProperties
    <2>. QED
      BY <2>1, WalkedIs
  <1>2. d = [rooted |-> Head(p) = Slash, at |-> Closed(w)]
    BY DEF Directory, Components
  <1>3. CASE w.open = <<>>
    <2>1. d \in dirs
      BY <1>2, <1>3 DEF Closed
    <2>. QED
      BY <2>1 DEF make_dir
  <1>4. CASE w.open # <<>>
    <2>1. Closed(w) = Append(w.closed, w.open)
      BY <1>4 DEF Closed
    <2>2. w.closed \in Seq(Seq(Nat)) /\ w.open \in Seq(Nat)
      BY <1>1 DEF Walks
    <2> HIDE DEF w, d
    <2>3. Closed(w) # <<>> /\ Front(Closed(w)) = w.closed
      <3> DEFINE a == w.closed
                 b == w.open
                 T == Seq(Nat)
      <3>1. a \in Seq(T) /\ b \in T
        BY <2>2
      <3> HIDE DEF a, b, T
      <3>2. Append(a, b) # <<>> /\ Front(Append(a, b)) = a
        BY <3>1, FrontOfAppend
      <3>. QED
        BY <2>1, <3>2 DEF a, b
    <2>4. [d EXCEPT !.at = Front(@)] = [rooted |-> Head(p) = Slash, at |-> w.closed]
      BY <1>2, <2>3
    <2>5. d.at # <<>>
      BY <1>2, <2>3
    <2>6. make_dir(dirs, p) = dirs \cup {d}
      BY <2>4, <2>5 DEF make_dir, d, w
    <2>. QED
      BY <2>6 DEF d
  <1>. QED
    BY <1>3, <1>4

(* The recursion of MadeSoFar.                                               *)
LEMMA MadeSoFarIs ==
  ASSUME NEW dirs, NEW p \in Seq(Nat)
  PROVE  /\ MadeSoFar(dirs, p)[0] = dirs
         /\ \A i \in 1..Len(p) :
               MadeSoFar(dirs, p)[i] =
                   IF p[i] = Slash /\ i > 1
                   THEN make_dir(MadeSoFar(dirs, p)[i - 1], SubSeq(p, 1, i - 1))
                   ELSE MadeSoFar(dirs, p)[i - 1]
  <1> DEFINE n == Len(p)
             after(i, ds) == IF i \in Cuts(p) /\ i > 1 THEN make_dir(ds, SubSeq(p, 1, i - 1)) ELSE ds
             T == SUBSET (dirs \cup {Directory(SubSeq(p, 1, i - 1)) : i \in 1..n})
             turn == [i \in 1..n |-> [ds \in T |-> after(i, ds)]]
             Body(g) == [i \in 0..n |->
                           IF i = 0 THEN dirs
                           ELSE IF i \in Cuts(p) /\ i > 1
                             THEN make_dir(g[i - 1], SubSeq(p, 1, i - 1))
                           ELSE g[i - 1]]
             made == MadeSoFar(dirs, p)
  <1>1. n \in Nat /\ dirs \in T
    BY LenProperties
  <1>2. ASSUME NEW i \in 1..n, NEW ds \in T PROVE after(i, ds) \in T
    <2>1. make_dir(ds, SubSeq(p, 1, i - 1)) \in {ds, ds \cup {Directory(SubSeq(p, 1, i - 1))}}
      BY DEF make_dir
    <2>2. ds \cup {Directory(SubSeq(p, 1, i - 1))} \in T
      OBVIOUS
    <2> HIDE DEF T
    <2>. QED
      BY <2>1, <2>2
  <1> HIDE DEF n, T
  <1>3. turn \in [1..n -> [T -> T]]
    <2> HIDE DEF after
    <2>. QED
      BY <1>2
  <1>4. PICK f \in [0..n -> T] : f[0] = dirs /\ \A i \in 1..n : f[i] = turn[i][f[i - 1]]
    <2> HIDE DEF turn
    <2>1. IsLoop(n, T, dirs, turn)
      BY <1>1, <1>3 DEF IsLoop
    <2>2. PICK f : AreValues(f, n, T, dirs, turn)
      BY <2>1, LoopHasValues
    <2>. QED
      BY <2>2 DEF AreValues
  <1>5. f = Body(f)
    <2>1. ASSUME NEW i \in 0..n PROVE f[i] = Body(f)[i]
      <3>1. CASE i = 0
        BY <1>4, <3>1
      <3>2. CASE i # 0
        <4>1. i \in 1..n /\ i - 1 \in 0..n
          BY <1>1, <3>2
        <4>2. f[i - 1] \in T
          BY <4>1
        <4> HIDE DEF after
        <4>3. f[i] = after(i, f[i - 1])
          BY <1>4, <4>1, <4>2
        <4>. QED
          BY <3>2, <4>3 DEF after
      <3>. QED
        BY <3>1, <3>2
    <2>2. Body(f) = [i \in 0..n |-> Body(f)[i]]
      OBVIOUS
    <2> HIDE DEF Body
    <2>. QED
      BY <1>4, <2>1, <2>2
  <1>6. made = CHOOSE g : g = Body(g)
    BY DEF MadeSoFar, n
  <1>7. made = Body(made)
    <2> HIDE DEF Body, made
    <2>. QED
      BY <1>5, <1>6
  <1> HIDE DEF made
  <1>8. 0 \in 0..n /\ \A i \in 1..n : i \in 0..n /\ i # 0
    BY <1>1
  <1>9. /\ Body(made)[0] = dirs
        /\ \A i \in 1..n : Body(made)[i] = IF i \in Cuts(p) /\ i > 1
                                          THEN make_dir(made[i - 1], SubSeq(p, 1, i - 1))
                                          ELSE made[i - 1]
    BY <1>8
  <1>10. \A i \in 1..n : i \in Cuts(p) <=> p[i] = Slash
    BY LenProperties DEF Cuts, n
  <1> HIDE DEF Body
  <1>. QED
    BY <1>7, <1>9, <1>10 DEF made, n

(* mkdirs makes the directory of every path, whatever slashes it has.        *)
LEMMA MkdirsMakes ==
  ASSUME NEW p \in Seq(Nat), p # <<>>
  PROVE  Directory(p) \in mkdirs(Start, p)
  <1> DEFINE n == Len(p)
             walk == Walked(p)
             made == MadeSoFar(Start, p)
             on(i) == [rooted |-> Head(p) = Slash, at |-> walk[i].closed]
             G == {i \in Nat : i <= n => Start \subseteq made[i] /\ on(i) \in made[i]}
  <1>1. n \in Nat \ {0} /\ \A i \in 1..n : p[i] \in Nat
    BY EmptySeq, ElementOfSeq
  <1>2. Head(p) = p[1]
    OBVIOUS
  <1>3. /\ walk[0] = [closed |-> <<>>, open |-> <<>>]
        /\ \A i \in 1..n : walk[i] = Step(walk[i - 1], p[i])
    BY WalkedIs
  <1>4. /\ made[0] = Start
        /\ \A i \in 1..n : made[i] = IF p[i] = Slash /\ i > 1
                                     THEN make_dir(made[i - 1], SubSeq(p, 1, i - 1))
                                     ELSE made[i - 1]
    BY MadeSoFarIs
  <1>5. 0 \in G
    <2> HIDE DEF walk, made
    <2>2. walk[0].closed = <<>>
      BY <1>3
    <2>3. on(0) \in Start
      BY <2>2 DEF Start
    <2> HIDE DEF on
    <2>1. on(0) \in Start /\ Start \subseteq made[0]
      BY <1>4, <2>3
    <2>. QED
      BY <1>4, <2>1
  <1>6. ASSUME NEW k \in Nat, k \in G PROVE k + 1 \in G
    <2> DEFINE i == k + 1
    <2>1. ASSUME i <= n PROVE Start \subseteq made[i] /\ on(i) \in made[i]
      <3>1. i \in 1..n /\ i - 1 = k /\ k <= n /\ k \in Nat
        BY <1>1, <2>1
      <3>2. Start \subseteq made[k] /\ on(k) \in made[k]
        BY <1>6, <3>1
      <3> HIDE DEF i, walk, made
      <3>3. walk[i] = Step(walk[k], p[i])
        BY <1>3, <3>1
      <3>4. CASE p[i] # Slash
        <4>1. walk[i].closed = walk[k].closed
          BY <3>3, <3>4 DEF Step
        <4>2. made[i] = made[k]
          BY <1>4, <3>1, <3>4
        <4>. QED
          BY <3>2, <4>1, <4>2
      <3>5. CASE p[i] = Slash /\ i = 1
        <4>1. k = 0
          BY <3>1, <3>5
        <4>2. walk[i].closed = <<>>
          BY <1>3, <3>3, <3>5, <4>1 DEF Step, Closed
        <4>3. made[i] = made[k]
          BY <1>4, <3>1, <3>5
        <4>4. on(i) \in Start
          BY <4>2 DEF Start
        <4>. QED
          BY <3>2, <4>3, <4>4
      <3>6. CASE p[i] = Slash /\ i > 1
        <4> DEFINE q == SubSeq(p, 1, k)
        <4>1. k \in 1..n
          BY <1>1, <3>1, <3>6
        <4>2. /\ q \in Seq(Nat) /\ Len(q) = k /\ \A j \in 1..k : q[j] = p[j]
          <5>1. \A j \in 1..k : p[j] \in Nat
            BY <1>1, <4>1
          <5>2. q \in Seq(Nat) /\ Len(q) = k /\ \A j \in 1..k : q[j] = p[1 + j - 1]
            BY <4>1, <5>1, SubSeqProperties
          <5>3. \A j \in 1..k : 1 + j - 1 = j
            OBVIOUS
          <5> HIDE DEF q
          <5>. QED
            BY <5>2, <5>3
        <4>3. Head(q) = p[1] /\ q # <<>>
          <5> HIDE DEF q
          <5>1. q # <<>>
            BY <4>1, <4>2, EmptySeq
          <5>2. Head(q) = q[1] /\ 1 \in 1..k
            BY <4>1, <4>2, <5>1
          <5>. QED
            BY <4>2, <5>1, <5>2
        <4> HIDE DEF q
        <4>4. Walked(q)[k] = walk[k]
          <5>1. k <= n /\ k <= Len(q)
            BY <3>1, <4>2
          <5>. QED
            BY <4>2, <5>1, WalkedSame DEF walk, n
        <4>5. made[i] = make_dir(made[k], q)
          BY <1>4, <3>1, <3>6 DEF q
        <4>6. [rooted |-> Head(q) = Slash, at |-> Walked(q)[Len(q)].closed] = on(k)
          BY <1>2, <4>2, <4>3, <4>4
        <4>7. made[k] \subseteq make_dir(made[k], q) /\ Directory(q) \in make_dir(made[k], q)
          BY <3>2, <4>2, <4>3, <4>6, MakeDirMakes
        <4>8. walk[i].closed = Closed(walk[k])
          BY <3>3, <3>6 DEF Step
        <4>9. Directory(q) = on(i)
          BY <1>2, <4>2, <4>3, <4>4, <4>8 DEF Directory, Components
        <4>. QED
          BY <3>2, <4>5, <4>7, <4>9
      <3>7. i = 1 \/ i > 1
        BY <3>1
      <3>. QED
        BY <3>4, <3>5, <3>6, <3>7
    <2>. QED
      BY <2>1
  <1> HIDE DEF G
  <1>7. Nat \subseteq G
    BY <1>5, <1>6, SetInduction
  <1>8. on(n) \in made[n]
    BY <1>1, <1>7 DEF G
  <1>9. Directory(p) \in make_dir(made[n], p)
    BY <1>8, MakeDirMakes
  <1>. QED
    BY <1>9 DEF mkdirs

(* download_one finds the directory of every file, and opens the file whose  *)
(* size it looked at, whatever separators the path has.                     *)
THEOREM ParentAlwaysMade == NamesSpec => []ParentMade
  <1>1. NamesTypeOK => ParentMade
    <2> DEFINE n == Len(path)
               separator(b) == b \in {Slash, Backslash}
               I == {i \in 1..n : separator(path[i])}
               cut == SelectLastInSeq(path, separator)
               ready == Prepare(Start, path)
               opened == ready.opened
    <2> SUFFICES ASSUME NamesTypeOK, path # <<>>, Last(path) \notin {Slash, Backslash}
                 PROVE  /\ [Directory(opened) EXCEPT !.at = Front(@)] \in ready.dirs
                        /\ Backslash \notin ToSet(path) => opened = path
      BY DEF ParentMade
    <2>1. path \in Seq(Nat) /\ n \in Nat \ {0} /\ \A i \in 1..n : path[i] \in Nat
      <3>1. path \in Seq(Bytes) /\ Bytes \subseteq Nat
        BY NameInputsAssumption DEF NamesTypeOK
      <3>2. path \in Seq(Nat)
        BY <3>1, SeqMonotonic
      <3>. QED
        BY <3>2, EmptySeq, ElementOfSeq
    <2>2. cut = (IF I # {} THEN Max(I) ELSE 0) /\ path[n] \notin {Slash, Backslash}
      BY DEF SelectLastInSeq, Last
    <2>3. ready = IF cut = 0 THEN [dirs |-> Start, opened |-> path]
                  ELSE [dirs |-> mkdirs(Start, SubSeq(path, 1, cut - 1)),
                        opened |-> [path EXCEPT ![cut] = Slash]]
      BY DEF Prepare
    <2>4. I # {} => cut \in I /\ \A i \in I : i <= cut
      <3>1. I \in SUBSET (0..n) /\ n \in Nat
        BY <2>1
      <3> HIDE DEF I, cut
      <3>. QED
        BY <2>2, <3>1, MaxIsGreatest
    <2> HIDE DEF cut, ready, I
    <2>5. CASE I = {}
      <3>1. cut = 0 /\ \A i \in 1..n : path[i] # Slash
        BY <2>2, <2>5 DEF I
      <3>2. opened = path /\ ready.dirs = Start
        BY <2>3, <3>1
      <3>3. Walked(path)[0] = [closed |-> <<>>, open |-> <<>>]
        BY <2>1, WalkedIs
      <3>4. Front(Components(path)) = <<>>
        <4>1. Walked(path)[0].open = <<>> /\ Walked(path)[0].closed = <<>>
          BY <3>3
        <4>2. 0 < n /\ \A i \in (0 + 1)..n : path[i] # Slash
          BY <2>1, <3>1
        <4>. QED
          BY <2>1, <4>1, <4>2, ParentOf
      <3>5. [Directory(path) EXCEPT !.at = Front(@)] \in Start
        <4> DEFINE atRoot == path # <<>> /\ Head(path) = Slash
        <4>1. Directory(path) = [rooted |-> atRoot, at |-> Components(path)]
          BY DEF Directory
        <4>2. atRoot \in BOOLEAN
          OBVIOUS
        <4> HIDE DEF atRoot
        <4>3. [Directory(path) EXCEPT !.at = Front(@)] = [rooted |-> atRoot, at |-> <<>>]
          BY <3>4, <4>1
        <4>4. [rooted |-> atRoot, at |-> <<>>] \in Start
          BY <4>2 DEF Start
        <4>. QED
          BY <4>3, <4>4
      <3>. QED
        BY <3>2, <3>5
    <2>6. CASE I # {}
      <3> DEFINE front == SubSeq(path, 1, cut - 1)
      <3>1. /\ cut \in 1..n /\ cut # n /\ path[cut] \in {Slash, Backslash}
            /\ \A i \in (cut + 1)..n : path[i] # Slash
        <4>1. cut \in 1..n /\ path[cut] \in {Slash, Backslash}
          BY <2>4, <2>6 DEF I
        <4>2. ASSUME NEW i \in (cut + 1)..n PROVE path[i] # Slash
          <5>1. i \in 1..n /\ ~(i <= cut)
            BY <2>1, <4>1
          <5>. QED
            BY <2>4, <2>6, <5>1 DEF I
        <4>. QED
          BY <2>2, <4>1, <4>2
      <3>2. opened = [path EXCEPT ![cut] = Slash] /\ ready.dirs = mkdirs(Start, front)
        BY <2>1, <2>3, <3>1
      <3> HIDE DEF opened
      <3>3. /\ opened \in Seq(Nat) /\ Len(opened) = n
            /\ \A i \in 1..n : opened[i] = IF i = cut THEN Slash ELSE path[i]
        BY <2>1, <3>1, <3>2, ExceptSeq DEF Slash
      <3>4. Backslash \notin ToSet(path) => opened = path
        <4>1. ASSUME Backslash \notin ToSet(path) PROVE opened = path
          <5>1. path[cut] \in ToSet(path)
            BY <2>1, <3>1, LenProperties DEF ToSet
          <5>2. \A i \in 1..n : opened[i] = path[i]
            BY <3>1, <3>3, <4>1, <5>1
          <5>. QED
            BY <2>1, <3>3, <5>2, SeqEqual
        <4>. QED
          BY <4>1
      <3>5. /\ front \in Seq(Nat) /\ Len(front) = cut - 1 /\ cut - 1 \in Nat
            /\ \A i \in 1..(cut - 1) : front[i] = path[i] /\ front[i] = opened[i]
        <4>1. cut - 1 \in Nat /\ \A i \in 1..(cut - 1) : i \in 1..n /\ i # cut
          BY <2>1, <3>1
        <4>2. \A i \in 1..(cut - 1) : path[i] \in Nat
          BY <2>1, <4>1
        <4>3. front \in Seq(Nat) /\ Len(front) = cut - 1
              /\ \A i \in 1..(cut - 1) : front[i] = path[1 + i - 1]
          BY <4>1, <4>2, SubSeqProperties
        <4>4. \A i \in 1..(cut - 1) : 1 + i - 1 = i
          OBVIOUS
        <4> HIDE DEF front
        <4>. QED
          BY <3>3, <4>1, <4>3, <4>4
      <3> HIDE DEF front
      <3>6. Walked(opened)[cut] = [closed |-> Components(front), open |-> <<>>]
        <4>1. Walked(opened)[cut - 1] = Walked(front)[cut - 1]
          <5>1. cut - 1 <= Len(opened) /\ cut - 1 <= Len(front)
            BY <2>1, <3>1, <3>3, <3>5
          <5>. QED
            BY <3>3, <3>5, <5>1, WalkedSame
        <4>2. Walked(opened)[cut] = Step(Walked(opened)[cut - 1], Slash)
          BY <3>1, <3>3, WalkedIs
        <4>. QED
          BY <3>5, <4>1, <4>2 DEF Step, Components
      <3>7. Front(Components(opened)) = Components(front)
        <4>1. cut \in Nat /\ cut < n /\ \A i \in (cut + 1)..n : i \in 1..n /\ i # cut
          BY <2>1, <3>1
        <4>2. \A i \in (cut + 1)..n : opened[i] # Slash
          BY <3>1, <3>3, <4>1
        <4>3. Walked(opened)[cut].open = <<>> /\ Walked(opened)[cut].closed = Components(front)
          BY <3>6
        <4>. QED
          BY <3>3, <4>1, <4>2, <4>3, ParentOf
      <3>8. opened # <<>> /\ Head(opened) = opened[1] /\ 1 \in 1..n
        BY <2>1, <3>3, EmptySeq
      <3>9. [Directory(opened) EXCEPT !.at = Front(@)]
                = [rooted |-> opened[1] = Slash, at |-> Components(front)]
        BY <3>7, <3>8 DEF Directory
      <3>10. CASE cut = 1
        <4>1. opened[1] = Slash /\ front = <<>>
          BY <3>3, <3>5, <3>8, <3>10, EmptySeq
        <4>2. Components(front) = <<>>
          <5>1. Len(front) = 0
            BY <3>5, <3>10
          <5>2. Walked(front)[0] = [closed |-> <<>>, open |-> <<>>]
            BY <3>5, WalkedIs
          <5>. QED
            BY <5>1, <5>2 DEF Components, Closed
        <4>3. mkdirs(Start, front) = Start
          BY <4>1 DEF mkdirs
        <4>4. [rooted |-> TRUE, at |-> <<>>] \in Start
          BY DEF Start
        <4>5. [Directory(opened) EXCEPT !.at = Front(@)] = [rooted |-> TRUE, at |-> <<>>]
          BY <3>9, <4>1, <4>2
        <4>6. [Directory(opened) EXCEPT !.at = Front(@)] \in ready.dirs
          BY <3>2, <4>3, <4>4, <4>5
        <4>. QED
          BY <3>4, <4>6, Zenon
      <3>11. CASE cut # 1
        <4>1. front # <<>> /\ Head(front) = front[1] /\ 1 \in 1..(cut - 1)
          BY <3>1, <3>5, <3>11, EmptySeq
        <4>2. Directory(front) = [rooted |-> opened[1] = Slash, at |-> Components(front)]
          BY <3>5, <4>1 DEF Directory
        <4>3. Directory(front) \in mkdirs(Start, front)
          BY <3>5, <4>1, MkdirsMakes
        <4>4. [Directory(opened) EXCEPT !.at = Front(@)] = Directory(front)
          BY <3>9, <4>2
        <4>5. ready.dirs = mkdirs(Start, front)
          BY <3>2
        <4>6. [Directory(opened) EXCEPT !.at = Front(@)] \in ready.dirs
          BY <4>3, <4>4, <4>5
        <4>. QED
          BY <3>4, <4>6, Zenon
      <3>. QED
        BY <3>10, <3>11
    <2>. QED
      BY <2>5, <2>6
  <1>. QED
    BY <1>1, NamesTypesHold, PTL
=============================================================================
