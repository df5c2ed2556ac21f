---------------------------- MODULE ParsonProofs ----------------------------
(***************************************************************************)
(* The hash table of a JSON object keeps TableOK, for every hash function,  *)
(* every starting capacity and any number of names, and implements a map.   *)
(*                                                                         *)
(* What a probe does is a question of distances on a ring of cells, which   *)
(* the first lemmas settle; that a probe ends, one of counting: a table     *)
(* always has an empty cell.  The heart is the removal, where HoleInv says  *)
(* what is true of a table with a hole in it.                               *)
(*                                                                         *)
(* The second part is about strings: what is read is what stands there, for *)
(* every text, and what is written is read as what it was.  The search for  *)
(* the closing quote (Skips) and the reader (Reads, Fails) pass a piece in   *)
(* a way that does not depend on what follows it, but for the first half of *)
(* a pair; so the pieces read so far are legible and read, or end with such *)
(* a half, or have failed for good (Together).                              *)
(***************************************************************************)
EXTENDS ObjectTable, StringInputs, Recursion, FiniteSets, FiniteSetTheorems, TLAPS

(* A set of natural numbers has a least one.                                *)
LEMMA NatMin ==
  ASSUME NEW T \in SUBSET Nat, T # {}
  PROVE  \E x \in T : \A y \in T : x <= y
  BY MinIsLeast

-----------------------------------------------------------------------------
(* A table with cells, whatever is in them.                                 *)
Sized(t) == t.cap \in Nat \ {0} /\ t.cells \in [Positions(t) -> Nat]

LEMMA StepsRange ==
  ASSUME NEW t, t.cap \in Nat, NEW p \in Positions(t), NEW q \in Positions(t)
  PROVE  /\ Steps(t, p, q) \in 0..(t.cap - 1)
         /\ Steps(t, p, q) = 0 <=> p = q
         /\ \A r \in Positions(t) : Steps(t, p, q) = Steps(t, p, r) => q = r
  BY DEF Steps, Positions

LEMMA SuccSteps ==
  ASSUME NEW t, t.cap \in Nat, NEW p \in Positions(t), NEW q \in Positions(t)
  PROVE  /\ Succ(t, q) \in Positions(t)
         /\ Steps(t, p, q) < t.cap - 1 =>
                Steps(t, p, Succ(t, q)) = Steps(t, p, q) + 1
         /\ p # Succ(t, q) => Steps(t, p, Succ(t, q)) = Steps(t, p, q) + 1
  BY DEF Steps, Positions, Succ

(* A probe that passes a on its way to c passes what is between a and c.    *)
LEMMA StepsBetween ==
  ASSUME NEW t, t.cap \in Nat, NEW h \in Positions(t), NEW a \in Positions(t),
         NEW c \in Positions(t), NEW e \in Positions(t),
         Steps(t, h, a) < Steps(t, h, c), Steps(t, a, e) < Steps(t, a, c)
  PROVE  Steps(t, h, e) < Steps(t, h, c)
  BY DEF Steps, Positions

(* What the condition of the removal loop means (parson.c:689).             *)
LEMMA MustMoveMeaning ==
  ASSUME NEW t, t.cap \in Nat, NEW i \in Positions(t), NEW j \in Positions(t),
         NEW k \in Positions(t), i # j
  PROVE  MustMove(i, j, k) <=> Steps(t, k, i) < Steps(t, k, j)
  BY DEF Steps, Positions, MustMove

LEMMA HomeRange ==
  ASSUME NEW t, t.cap \in Nat \ {0}, NEW n \in Names
  PROVE  Home(t, n) \in Positions(t)
  BY TableAssumption DEF Home, Positions

(* Where a probe ends: at the first cell that stops it.                     *)
LEMMA ProbeEnds ==
  ASSUME NEW t, Sized(t), NEW n \in Names, Stops(t, n) # {}
  PROVE  /\ json_object_get_cell_ix(t, n) \in Stops(t, n)
         /\ \A q \in Stops(t, n) :
               Steps(t, Home(t, n), json_object_get_cell_ix(t, n)) <= Steps(t, Home(t, n), q)
  <1> DEFINE h == Home(t, n)
             D == {Steps(t, h, q) : q \in Stops(t, n)}
             First(p) == \A q \in Stops(t, n) : Steps(t, h, p) <= Steps(t, h, q)
  <1>1. h \in Positions(t)
    BY HomeRange DEF Sized
  <1>2. Stops(t, n) \subseteq Positions(t)
    BY DEF Stops
  <1>3. D \in SUBSET Nat /\ D # {}
    BY <1>1, <1>2, StepsRange DEF Sized
  <1>4. PICK d \in D : \A e \in D : d <= e
    BY <1>3, NatMin
  <1>5. PICK q \in Stops(t, n) : First(q)
    BY <1>4
  <1>6. json_object_get_cell_ix(t, n) = CHOOSE p \in Stops(t, n) : First(p)
    BY DEF json_object_get_cell_ix
  <1> QED
    BY <1>5, <1>6
-----------------------------------------------------------------------------
(* A table with items to spare has an empty cell: otherwise every cell, but *)
(* for the one a removal is about to clear, would hold an item of its own.  *)
LEMMA EmptyCell ==
  ASSUME NEW t, Shape(t), NEW gone, Linked(t, gone), t.cap > 0,
         gone \in Positions(t) => Count(t) < ItemCapacity(t)
  PROVE  \E p \in Positions(t) : t.cells[p] = Empty
  <1> DEFINE m == IF gone \in Positions(t) THEN Count(t) + 1 ELSE Count(t)
             g == [p \in Positions(t) |-> IF p = gone THEN m ELSE t.cells[p]]
  <1>1. t.cap \in Nat /\ Count(t) \in Nat /\ m \in Nat /\ m < t.cap
    BY DEF Shape, Count, ItemCapacity
  <1>2. SUFFICES ASSUME \A p \in Positions(t) : t.cells[p] # Empty PROVE FALSE
    OBVIOUS
  <1>3. ASSUME NEW p \in Positions(t) PROVE g[p] \in 1..m
    BY <1>1, <1>2 DEF Linked
  <1>4. ASSUME NEW p \in Positions(t), NEW q \in Positions(t), g[p] = g[q] PROVE p = q
    BY <1>1, <1>2, <1>4 DEF Linked
  <1>7. g \in [Positions(t) -> 1..m]
    BY <1>3
  <1> HIDE DEF g, m
  <1>5. IsFiniteSet(Positions(t)) /\ Cardinality(Positions(t)) = t.cap
    <2> DEFINE last == t.cap - 1
    <2>1. last \in Int /\ 0 <= last /\ last - 0 + 1 = t.cap
      BY <1>1
    <2> HIDE DEF last
    <2>2. IsFiniteSet(0..last) /\ Cardinality(0..last) = last - 0 + 1
      BY <2>1, FS_Interval
    <2> QED
      BY <2>1, <2>2 DEF Positions, last
  <1>6. IsFiniteSet(1..m) /\ Cardinality(1..m) = m
    <2>1. m \in Int /\ 1 <= m + 1 /\ m - 1 + 1 = m
      BY <1>1
    <2>2. IsFiniteSet(1..m) /\ Cardinality(1..m) = IF 1 > m THEN 0 ELSE m - 1 + 1
      BY ONLY <2>1, FS_Interval
    <2> QED
      BY <1>1, <2>1, <2>2
  <1>8. \E p, q \in Positions(t) : p # q /\ g[p] = g[q]
    BY <1>1, <1>5, <1>6, <1>7, FS_PigeonHole
  <1> QED
    BY <1>4, <1>8
-----------------------------------------------------------------------------
(* Between two calls.                                                       *)
Whole(t) == Shape(t) /\ Linked(t, -1) /\ Reachable(t)

LEMMA WholeSized ==
  ASSUME NEW t, Whole(t)
  PROVE  /\ t.cap \in Nat /\ Count(t) \in Nat
         /\ t.cap > 0 => Sized(t)
         /\ -1 \notin Positions(t)
  BY DEF Whole, Shape, Sized, Count, Positions

(* The name of an item is found at the cell of that item.                   *)
LEMMA PresentFound ==
  ASSUME NEW t, Whole(t), NEW k \in 1..Count(t)
  PROVE  /\ json_object_get_cell_ix(t, t.items[k].name) = t.items[k].cell
         /\ Found(t, t.items[k].name)
         /\ ItemIn(t, t.items[k].name) = k
         /\ t.items[k] \in Item(t)
  <1> DEFINE n == t.items[k].name
             c == t.items[k].cell
             ix == json_object_get_cell_ix(t, n)
             h == Home(t, n)
  <1>1. /\ t.cap \in Nat /\ t.items[k] \in Item(t)
        /\ n \in Names /\ c \in Positions(t) /\ t.cells[c] = k /\ k # Empty
    <2>1. t.cap \in Nat /\ t.items \in Seq(Item(t)) /\ k \in 1..Len(t.items)
      BY DEF Whole, Shape, Count
    <2>2. t.items[k] \in Item(t)
      BY <2>1
    <2>3. t.cells[c] = k
      BY DEF Whole, Linked
    <2> QED
      BY <2>1, <2>2, <2>3 DEF Item, Empty
  <1>2. Sized(t)
    BY <1>1, WholeSized DEF Positions
  <1>3. c \in Stops(t, n)
    BY <1>1 DEF Stops
  <1>4. /\ ix \in Stops(t, n)
        /\ \A q \in Stops(t, n) : Steps(t, h, ix) <= Steps(t, h, q)
    BY <1>2, <1>1, <1>3, ProbeEnds
  <1>5. ix \in Positions(t) /\ h \in Positions(t)
    BY <1>1, <1>2, <1>4, HomeRange DEF Stops, Sized
  <1>6. ix = c
    <2> SUFFICES ASSUME ix # c PROVE FALSE
      OBVIOUS
    <2>1. Steps(t, h, ix) <= Steps(t, h, c)
      BY <1>3, <1>4
    <2>2. Steps(t, h, ix) < Steps(t, h, c)
      BY <2>1, <1>1, <1>5, StepsRange
    <2>3. Passes(t, c, ix) /\ c \in Taken(t)
      BY <2>2, <1>1 DEF Passes, Taken
    <2>4. ix \in Taken(t)
      BY <2>3, <1>5 DEF Whole, Reachable
    <2>5. t.cells[ix] \in 1..Count(t) /\ t.items[t.cells[ix]].cell = ix
      BY <2>4, <1>5, WholeSized DEF Whole, Linked, Taken
    <2>6. t.items[t.cells[ix]].name = n
      BY <1>4, <2>4 DEF Stops, Taken
    <2> QED
      BY <2>5, <2>6 DEF Whole, Linked
  <1> QED
    BY <1>1, <1>6 DEF Found, ItemIn, Positions, INVALID

(* What is found is there; what is not found belongs into an empty cell     *)
(* that a probe for it reaches.                                             *)
LEMMA FoundPresent ==
  ASSUME NEW t, Whole(t), NEW n \in Names
  PROVE  /\ Found(t, n) =>
               /\ json_object_get_cell_ix(t, n) \in Positions(t)
               /\ ItemIn(t, n) \in 1..Count(t)
               /\ t.items[ItemIn(t, n)].name = n
         /\ ~Found(t, n) => \A k \in 1..Count(t) : t.items[k].name # n
  <1>1. ASSUME Found(t, n)
        PROVE  /\ json_object_get_cell_ix(t, n) \in Positions(t)
               /\ ItemIn(t, n) \in 1..Count(t)
               /\ t.items[ItemIn(t, n)].name = n
    <2>1. Stops(t, n) # {}
      BY <1>1 DEF Found, json_object_get_cell_ix
    <2>2. t.cap \in Nat /\ t.cap > 0
      BY <2>1, WholeSized DEF Stops, Positions
    <2>3. json_object_get_cell_ix(t, n) \in Stops(t, n)
      BY <2>1, <2>2, WholeSized, ProbeEnds
    <2> QED
      BY <1>1, <2>3, WholeSized DEF Found, Stops, ItemIn, Whole, Linked
  <1> QED
    BY <1>1, PresentFound

LEMMA ProbeForNew ==
  ASSUME NEW t, Whole(t), t.cap > 0, NEW n \in Names,
         \A k \in 1..Count(t) : t.items[k].name # n
  PROVE  LET ix == json_object_get_cell_ix(t, n)
         IN  /\ ix \in Positions(t) /\ t.cells[ix] = Empty
             /\ \A p \in Positions(t) :
                   Steps(t, Home(t, n), p) < Steps(t, Home(t, n), ix) => p \in Taken(t)
  <1> DEFINE ix == json_object_get_cell_ix(t, n)
             h == Home(t, n)
  <1>1. Sized(t) /\ -1 \notin Positions(t) /\ t.cap \in Nat
    BY WholeSized
  <1>2. Stops(t, n) # {}
    BY <1>1, EmptyCell DEF Whole, Stops
  <1>3. /\ ix \in Stops(t, n)
        /\ \A q \in Stops(t, n) : Steps(t, h, ix) <= Steps(t, h, q)
    BY <1>1, <1>2, ProbeEnds
  <1>4. ix \in Positions(t) /\ h \in Positions(t)
    BY <1>1, <1>3, HomeRange DEF Stops, Sized
  <1>5. t.cells[ix] = Empty
    BY <1>1, <1>3, <1>4 DEF Stops, Whole, Linked
  <1>6. ASSUME NEW p \in Positions(t), Steps(t, h, p) < Steps(t, h, ix)
        PROVE  p \in Taken(t)
    <2>1. Steps(t, h, p) \in Int /\ Steps(t, h, ix) \in Int
      BY <1>1, <1>4, StepsRange
    <2>2. p \notin Stops(t, n)
      BY <1>3, <1>6, <2>1
    <2> QED
      BY <2>2 DEF Stops, Taken
  <1> QED
    BY <1>4, <1>5, <1>6
-----------------------------------------------------------------------------
(* Distances and homes are a matter of the capacity alone.                  *)
LEMMA SameCap ==
  ASSUME NEW t, NEW u, u.cap = t.cap
  PROVE  /\ Positions(u) = Positions(t)
         /\ ItemCapacity(u) = ItemCapacity(t)
         /\ Item(u) = Item(t)
         /\ \A n : Home(u, n) = Home(t, n)
         /\ \A p, q : Steps(u, p, q) = Steps(t, p, q)
         /\ \A p : Succ(u, p) = Succ(t, p)
  BY DEF Positions, ItemCapacity, Item, Home, Steps, Succ

LEMMA PlacedFields ==
  ASSUME NEW t, Shape(t), NEW n \in Names, NEW v \in Values, NEW ix \in Positions(t)
  PROVE  LET u == Placed(t, n, v, ix)
         IN  /\ u.cap = t.cap
             /\ u.cells = [t.cells EXCEPT ![ix] = Count(t) + 1]
             /\ u.items \in Seq(Item(t))
             /\ Count(u) = Count(t) + 1 /\ Count(t) \in Nat
             /\ \A k \in 1..Count(t) : u.items[k] = t.items[k]
             /\ u.items[Count(t) + 1] = [name |-> n, value |-> v, cell |-> ix]
  <1> DEFINE item == [name |-> n, value |-> v, cell |-> ix]
             u == Placed(t, n, v, ix)
  <1>1. t.items \in Seq(Item(t)) /\ item \in Item(t) /\ Count(t) = Len(t.items)
    BY DEF Shape, Item, Count
  <1>2. u = [cap |-> t.cap, cells |-> [t.cells EXCEPT ![ix] = Count(t) + 1],
             items |-> Append(t.items, item)]
    BY DEF Placed, Table
  <1> HIDE DEF item
  <1>3. /\ Append(t.items, item) \in Seq(Item(t))
        /\ Len(Append(t.items, item)) = Len(t.items) + 1
        /\ Len(t.items) \in Nat
        /\ \A k \in 1..Len(t.items) : Append(t.items, item)[k] = t.items[k]
        /\ Append(t.items, item)[Len(t.items) + 1] = item
    BY <1>1
  <1> QED
    BY <1>1, <1>2, <1>3 DEF Count, item

(* An item put where a probe for a new name ends leaves the table whole.    *)
LEMMA AddedWhole ==
  ASSUME NEW t, Whole(t), t.cap > 0, Count(t) < ItemCapacity(t),
         NEW n \in Names, NEW v \in Values, \A k \in 1..Count(t) : t.items[k].name # n
  PROVE  LET u == Added(t, n, v)
         IN  /\ Whole(u)
             /\ u.cap = t.cap /\ Count(u) = Count(t) + 1
             /\ \A k \in 1..Count(t) : u.items[k] = t.items[k]
             /\ u.items[Count(t) + 1].name = n /\ u.items[Count(t) + 1].value = v
  <1> DEFINE u == Added(t, n, v)
             ix == json_object_get_cell_ix(t, n)
             h == Home(t, n)
             last == Count(t) + 1
  <1>1. /\ ix \in Positions(t) /\ t.cells[ix] = Empty
        /\ \A p \in Positions(t) : Steps(t, h, p) < Steps(t, h, ix) => p \in Taken(t)
    BY ProbeForNew
  <1>2. /\ u.cap = t.cap
        /\ u.cells = [t.cells EXCEPT ![ix] = last]
        /\ u.items \in Seq(Item(t))
        /\ Count(u) = last /\ Count(t) \in Nat
        /\ \A k \in 1..Count(t) : u.items[k] = t.items[k]
        /\ u.items[last] = [name |-> n, value |-> v, cell |-> ix]
    BY <1>1, PlacedFields DEF Whole, Added
  <1>3. /\ Positions(u) = Positions(t) /\ ItemCapacity(u) = ItemCapacity(t)
        /\ Item(u) = Item(t)
        /\ \A m : Home(u, m) = Home(t, m)
        /\ \A p, q : Steps(u, p, q) = Steps(t, p, q)
    BY <1>2, SameCap
  <1>4. /\ t.cap \in Nat /\ Count(t) <= ItemCapacity(t) /\ ItemCapacity(t) < t.cap
        /\ ItemCapacity(t) \in Nat
        /\ t.cells \in [Positions(t) -> 0..t.cap]
    BY DEF Whole, Shape, ItemCapacity
  <1>5. u.cells \in [Positions(t) -> 0..t.cap]
    <2>1. last \in 0..t.cap
      BY <1>2, <1>4
    <2> QED
      BY <2>1, <1>2, <1>4
  <1>6. Shape(u)
    BY <1>2, <1>3, <1>4, <1>5 DEF Shape
  <1>7. /\ u.cells[ix] = last
        /\ \A p \in Positions(t) \ {ix} : u.cells[p] = t.cells[p]
    BY <1>1, <1>2, <1>4
  <1>8. /\ \A k \in 1..Count(t) : t.cells[t.items[k].cell] = k /\ t.items[k].cell \in Positions(t)
        /\ \A p \in Positions(t) : t.cells[p] # Empty =>
              t.cells[p] \in 1..Count(t) /\ t.items[t.cells[p]].cell = p
        /\ \A k, l \in 1..Count(t) : t.items[k].name = t.items[l].name => k = l
    BY PresentFound, WholeSized DEF Whole, Linked, Item
  <1>9. Linked(u, -1)
    <2>1. ASSUME NEW k \in 1..last
          PROVE  u.items[k].cell # -1 /\ u.cells[u.items[k].cell] = k
      <3>1. CASE k = last
        BY <3>1, <1>1, <1>2, <1>7, WholeSized
      <3>2. CASE k \in 1..Count(t)
        <4>1. t.items[k].cell # ix
          BY <3>2, <1>1, <1>8 DEF Empty
        <4> QED
          BY <3>2, <4>1, <1>2, <1>7, <1>8, WholeSized
      <3> QED
        BY <3>1, <3>2, <1>2
    <2>2. ASSUME NEW p \in Positions(t), u.cells[p] # Empty
          PROVE  u.cells[p] \in 1..last /\ u.items[u.cells[p]].cell = p
      <3>1. CASE p = ix
        BY <3>1, <1>2, <1>7
      <3>2. CASE p # ix
        BY <3>2, <2>2, <1>2, <1>7, <1>8
      <3> QED
        BY <3>1, <3>2
    <2>3. ASSUME NEW k \in 1..last, NEW l \in 1..last, u.items[k].name = u.items[l].name
          PROVE  k = l
      <3>1. (k \in 1..Count(t) \/ k = last) /\ (l \in 1..Count(t) \/ l = last)
        BY <1>2
      <3>2. u.items[last].name = n /\ \A m \in 1..Count(t) : u.items[m].name = t.items[m].name
        BY <1>2
      <3>3. \A m \in 1..Count(t) : t.items[m].name # n
        OBVIOUS
      <3> QED
        BY <2>3, <1>8, <3>1, <3>2, <3>3
    <2> QED
      BY <2>1, <2>2, <2>3, <1>2, <1>3 DEF Linked
  <1>10. Taken(u) = Taken(t) \cup {ix}
    BY <1>1, <1>2, <1>3, <1>7 DEF Taken, Empty
  <1>11. ASSUME NEW c \in Taken(u), NEW p \in Positions(u), Passes(u, c, p)
         PROVE  p \in Taken(u)
    <2>1. CASE c = ix
      <3>1. Steps(t, h, p) < Steps(t, h, ix)
        BY <2>1, <1>11, <1>2, <1>3, <1>7 DEF Passes
      <3> QED
        BY <3>1, <1>1, <1>3, <1>10
    <2>2. CASE c # ix
      <3>1. c \in Taken(t) /\ c \in Positions(t) /\ t.cells[c] \in 1..Count(t)
        BY <2>2, <1>8, <1>10 DEF Taken
      <3>2. Passes(t, c, p)
        BY <2>2, <3>1, <1>11, <1>2, <1>3, <1>7 DEF Passes
      <3> QED
        BY <3>1, <3>2, <1>3, <1>10 DEF Whole, Reachable
    <2> QED
      BY <2>1, <2>2
  <1>12. Reachable(u)
    BY <1>11 DEF Reachable
  <1> QED
    BY <1>2, <1>6, <1>9, <1>12 DEF Whole
-----------------------------------------------------------------------------
(* The other tables a call may leave behind.                                *)
LEMMA InitWhole ==
  ASSUME NEW c \in Nat
  PROVE  /\ Whole(json_object_init(c))
         /\ json_object_init(c).cap = c /\ Count(json_object_init(c)) = 0
  <1> DEFINE t == json_object_init(c)
  <1>1. /\ t.cap = c /\ t.items = <<>> /\ Count(t) = 0
        /\ t.cells = [p \in Positions(t) |-> Empty]
    BY DEF json_object_init, Table, Count, Positions
  <1>2. t.items \in Seq(Item(t)) /\ t.cells \in [Positions(t) -> 0..t.cap]
    BY <1>1 DEF Empty
  <1>3. 0 <= ItemCapacity(t)
    BY <1>1 DEF ItemCapacity
  <1>4. Shape(t)
    BY <1>1, <1>2, <1>3 DEF Shape
  <1> HIDE DEF t
  <1>5. Linked(t, -1) /\ Reachable(t)
    BY <1>1 DEF Linked, Reachable, Taken
  <1> QED
    BY <1>1, <1>4, <1>5 DEF Whole, t

LEMMA WithValueWhole ==
  ASSUME NEW t, Whole(t), NEW k \in 1..Count(t), NEW v \in Values
  PROVE  Whole(WithValue(t, k, v))
  <1> DEFINE item == [name |-> t.items[k].name, value |-> v, cell |-> t.items[k].cell]
             u == WithValue(t, k, v)
  <1>1. t.items \in Seq(Item(t)) /\ Count(t) = Len(t.items) /\ t.items[k] \in Item(t)
    BY DEF Whole, Shape, Count
  <1>2. item \in Item(t)
    BY <1>1 DEF Item
  <1>3. u.cap = t.cap /\ u.cells = t.cells /\ u.items = [t.items EXCEPT ![k] = item]
    BY DEF WithValue, Table
  <1>4. /\ u.items \in Seq(Item(t)) /\ Count(u) = Count(t)
        /\ \A l \in 1..Count(t) : /\ u.items[l].name = t.items[l].name
                                  /\ u.items[l].cell = t.items[l].cell
    BY <1>1, <1>2, <1>3 DEF Count
  <1>5. /\ Positions(u) = Positions(t) /\ ItemCapacity(u) = ItemCapacity(t)
        /\ Item(u) = Item(t)
        /\ \A m : Home(u, m) = Home(t, m)
        /\ \A p, q : Steps(u, p, q) = Steps(t, p, q)
    BY <1>3, SameCap
  <1> HIDE DEF u
  <1>6. Shape(u)
    BY <1>3, <1>4, <1>5 DEF Shape, Whole
  <1>7. Linked(u, -1)
    <2>1. Linked(t, -1)
      BY DEF Whole
    <2>2. \A l \in 1..Count(u) : u.items[l].cell # -1 /\ u.cells[u.items[l].cell] = l
      BY <1>3, <1>4, <2>1 DEF Linked
    <2>3. \A p \in Positions(u) \ {-1} : u.cells[p] # Empty =>
             u.cells[p] \in 1..Count(u) /\ u.items[u.cells[p]].cell = p
      BY <1>3, <1>4, <1>5, <2>1 DEF Linked
    <2>4. \A l, m \in 1..Count(u) : u.items[l].name = u.items[m].name => l = m
      BY <1>4, <2>1 DEF Linked
    <2> QED
      BY <2>2, <2>3, <2>4 DEF Linked
  <1>8. ASSUME NEW c \in Taken(u), NEW p \in Positions(u), Passes(u, c, p)
        PROVE  p \in Taken(u)
    <2>1. c \in Taken(t) /\ c \in Positions(t) /\ t.cells[c] \in 1..Count(t)
      BY <1>3, <1>5, WholeSized DEF Taken, Whole, Linked
    <2>2. Passes(t, c, p)
      BY <1>3, <1>4, <1>5, <1>8, <2>1 DEF Passes
    <2> QED
      BY <2>1, <2>2, <1>3, <1>5 DEF Whole, Reachable, Taken
  <1> QED
    BY <1>6, <1>7, <1>8 DEF Whole, Reachable, u

-----------------------------------------------------------------------------
(* Removal: the last item has taken the place of item k, whose cell is the  *)
(* hole.                                                                    *)
LEMMA RemovedHole ==
  ASSUME NEW t, Whole(t), NEW k \in 1..Count(t)
  PROVE  LET u == ItemRemoved(t, k)
             i == t.items[k].cell
         IN  /\ Shape(u) /\ Linked(u, i) /\ HoleInv(u, i, i, 0)
             /\ u.cap = t.cap
  <1> DEFINE u == ItemRemoved(t, k)
             i == t.items[k].cell
             last == Count(t)
             kept == SubSeq(t.items, 1, last - 1)
             j == t.items[last].cell
  <1>1. /\ t.cap \in Nat /\ t.items \in Seq(Item(t)) /\ last = Len(t.items) /\ last \in Nat
        /\ last <= ItemCapacity(t) /\ ItemCapacity(t) < t.cap /\ ItemCapacity(t) \in Nat
        /\ t.cells \in [Positions(t) -> 0..t.cap]
    BY SMTT(20) DEF Whole, Shape, Count, ItemCapacity
  <1>2. /\ \A l \in 1..last : t.items[l] \in Item(t)
        /\ \A l \in 1..last : t.cells[t.items[l].cell] = l /\ t.items[l].cell \in Positions(t)
        /\ \A p \in Positions(t) : t.cells[p] # Empty =>
              t.cells[p] \in 1..last /\ t.items[t.cells[p]].cell = p
        /\ \A l, m \in 1..last : t.items[l].name = t.items[m].name => l = m
    BY PresentFound, WholeSized DEF Whole, Linked, Item
  <1>3. /\ kept \in Seq(Item(t)) /\ Len(kept) = last - 1
        /\ \A l \in 1..(last - 1) : kept[l] = t.items[l]
    BY <1>1
  <1>4. /\ u.cap = t.cap
        /\ k < last => /\ u.cells = [t.cells EXCEPT ![j] = k]
                       /\ u.items = [kept EXCEPT ![k] = t.items[last]]
        /\ k = last => u.cells = t.cells /\ u.items = kept
    BY <1>1 DEF ItemRemoved, Table, Count
  <1> HIDE DEF u, kept
  <1>5. /\ Positions(u) = Positions(t) /\ ItemCapacity(u) = ItemCapacity(t)
        /\ Item(u) = Item(t)
        /\ \A m : Home(u, m) = Home(t, m)
        /\ \A p, q : Steps(u, p, q) = Steps(t, p, q)
    BY <1>4, SameCap
  <1>6. k < last \/ k = last
    BY <1>1
  <1>7. /\ u.items \in Seq(Item(t)) /\ Count(u) = last - 1
        /\ \A l \in 1..(last - 1) :
              u.items[l] = IF l = k THEN t.items[last] ELSE t.items[l]
    <2>1. CASE k < last
      <3> DEFINE moved == t.items[last]
      <3>1. moved \in Item(t) /\ k \in 1..Len(kept)
        BY <2>1, <1>1, <1>2, <1>3
      <3>4. u.items = [kept EXCEPT ![k] = moved]
        BY <2>1, <1>4
      <3> HIDE DEF moved
      <3>2. u.items \in Seq(Item(t)) /\ Len(u.items) = last - 1
        BY <3>1, <3>4, <1>3
      <3>3. \A l \in 1..(last - 1) :
              u.items[l] = IF l = k THEN t.items[last] ELSE t.items[l]
        BY <3>1, <3>4, <1>3 DEF moved
      <3> QED
        BY <3>2, <3>3 DEF Count
    <2>2. CASE k = last
      BY <2>2, <1>1, <1>3, <1>4 DEF Count
    <2> QED
      BY <1>6, <2>1, <2>2
  <1>8. /\ u.cells \in [Positions(t) -> 0..t.cap]
        /\ \A p \in Positions(t) :
              u.cells[p] = IF p = j /\ k < last THEN k ELSE t.cells[p]
    <2>1. k \in 0..t.cap /\ j \in Positions(t)
      BY <1>1, <1>2
    <2> QED
      BY <2>1, <1>1, <1>4, <1>6
  <1>9. Shape(u)
    BY <1>1, <1>4, <1>5, <1>7, <1>8 DEF Shape
  <1>10. i \in Positions(t) /\ j \in Positions(t) /\ t.cells[i] = k /\ t.cells[j] = last
    BY <1>1, <1>2
  <1>15. /\ \A p \in Positions(t) : t.cells[p] = k => p = i
         /\ \A p \in Positions(t) : t.cells[p] = last => p = j
         /\ k < last => i # j
    BY <1>1, <1>2, <1>10 DEF Empty
  <1>11. Linked(u, i)
    <2>1. ASSUME NEW l \in 1..(last - 1)
          PROVE  u.items[l].cell # i /\ u.cells[u.items[l].cell] = l
      <3>1. CASE l = k
        <4>1. k < last /\ u.items[l].cell = j
          BY <3>1, <1>1, <1>7
        <4> QED
          BY <3>1, <4>1, <1>8, <1>10, <1>15
      <3>2. CASE l # k
        <4>1. u.items[l] = t.items[l] /\ l \in 1..last /\ l # last
          BY <3>2, <1>1, <1>7
        <4>2. t.items[l].cell # i /\ t.items[l].cell # j
          BY <3>2, <4>1, <1>2, <1>10
        <4> QED
          BY <4>1, <4>2, <1>2, <1>8
      <3> QED
        BY <3>1, <3>2
    <2>2. ASSUME NEW p \in Positions(t) \ {i}, u.cells[p] # Empty
          PROVE  u.cells[p] \in 1..(last - 1) /\ u.items[u.cells[p]].cell = p
      <3>1. CASE p = j /\ k < last
        <4>1. u.cells[p] = k /\ k \in 1..(last - 1)
          BY <3>1, <1>1, <1>8
        <4>2. u.items[k] = t.items[last]
          BY <4>1, <1>7
        <4> QED
          BY <3>1, <4>1, <4>2
      <3>2. CASE ~(p = j /\ k < last)
        <4>1. u.cells[p] = t.cells[p] /\ t.cells[p] \in 1..last /\ t.items[t.cells[p]].cell = p
          BY <3>2, <2>2, <1>2, <1>8
        <4>2. t.cells[p] # k /\ t.cells[p] # last
          BY <3>2, <2>2, <4>1, <1>6, <1>15
        <4>3. t.cells[p] \in 1..(last - 1)
          BY <4>1, <4>2, <1>1
        <4>4. u.items[t.cells[p]] = t.items[t.cells[p]]
          BY <4>2, <4>3, <1>7
        <4> QED
          BY <4>1, <4>3, <4>4
      <3> QED
        BY <3>1, <3>2
    <2>3. ASSUME NEW l \in 1..(last - 1), NEW m \in 1..(last - 1),
                 u.items[l].name = u.items[m].name
          PROVE  l = m
      <3> DEFINE old(x) == IF x = k THEN last ELSE x
      <3>1. old(l) \in 1..last /\ old(m) \in 1..last
        BY <1>1
      <3>2. t.items[old(l)].name = t.items[old(m)].name
        BY <2>3, <1>7
      <3>3. old(l) = old(m)
        BY <3>1, <3>2, <1>2
      <3> QED
        BY <3>3, <1>1
    <2> QED
      BY <2>1, <2>2, <2>3, <1>5, <1>7 DEF Linked
  <1>12. Taken(u) = Taken(t)
    BY <1>1, <1>5, <1>8, <1>10, SMTT(20) DEF Taken, Empty
  <1>13. ASSUME NEW c \in Taken(u) \ {i}, NEW p \in Positions(u)
         PROVE  Passes(u, c, p) <=> Passes(t, c, p)
    <2>1. c \in Positions(t) /\ t.cells[c] \in 1..last /\ t.cells[c] # k
      BY <1>2, <1>12, <1>15 DEF Taken
    <2>2. u.items[u.cells[c]].name = t.items[t.cells[c]].name
      <3>1. CASE c = j /\ k < last
        <4>1. u.cells[c] = k /\ k \in 1..(last - 1)
          BY <3>1, <2>1, <1>1, <1>8
        <4> QED
          BY <3>1, <4>1, <1>7, <1>10
      <3>2. CASE ~(c = j /\ k < last)
        <4>1. u.cells[c] = t.cells[c] /\ t.cells[c] # last
          BY <3>2, <2>1, <1>6, <1>8, <1>15
        <4>2. t.cells[c] \in 1..(last - 1)
          BY <2>1, <4>1, <1>1
        <4> QED
          BY <4>1, <4>2, <2>1, <1>7
      <3> QED
        BY <3>1, <3>2
    <2> QED
      BY <2>2, <1>5 DEF Passes
  <1>14. HoleInv(u, i, i, 0)
    <2>1. i \in Taken(u) /\ i \in Positions(u)
      BY <1>1, <1>5, <1>10, <1>12 DEF Taken, Empty
    <2>2. ~Full(u)
      BY <1>1, <1>5, <1>7 DEF Full
    <2>3. ASSUME NEW c \in Taken(u) \ {i}
          PROVE  /\ \A p \in Positions(u) : Passes(u, c, p) => p \in Taken(u)
                 /\ Passes(u, c, i) => Steps(u, i, i) < Steps(u, i, c)
      <3>1. \A p \in Positions(u) : Passes(u, c, p) => p \in Taken(u)
        BY <1>5, <1>12, <1>13 DEF Whole, Reachable
      <3>2. c \in Positions(t)
        BY <1>12 DEF Taken
      <3>3. Steps(t, i, i) = 0 /\ Steps(t, i, c) \in Nat /\ Steps(t, i, c) # 0
        BY <1>1, <1>10, <3>2, StepsRange
      <3> QED
        BY <1>5, <3>1, <3>3
    <2>4. Steps(u, i, i) <= 0
      BY <1>1, <1>5, <1>10, StepsRange
    <2>5. ASSUME NEW p \in Positions(u), Steps(u, p, i) <= 0 PROVE p \in Taken(u)
      <3>1. Steps(t, p, i) \in Nat /\ (Steps(t, p, i) = 0 => p = i)
        BY <1>1, <1>5, <1>10, StepsRange
      <3> QED
        BY <2>1, <2>5, <3>1, <1>5
    <2> QED
      BY <2>1, <2>2, <2>3, <2>4, <2>5 DEF HoleInv
  <1> QED
    BY <1>4, <1>9, <1>11, <1>14 DEF u
-----------------------------------------------------------------------------
(* One turn of the loop that closes the gap: the name after the probe is    *)
(* brought to the hole, or has no need of it.                               *)
LEMMA ShiftHole ==
  ASSUME NEW t, Shape(t), NEW i, Linked(t, i), NEW j, NEW x, HoleInv(t, i, j, x),
         x < t.cap - 1, t.cells[Succ(t, j)] # Empty
  PROVE  LET e == Succ(t, j)
             u == Moved(t, i, e)
             h == Home(t, t.items[t.cells[e]].name)
         IN  /\ MustMove(i, e, h) =>
                   /\ Shape(u) /\ Linked(u, e) /\ HoleInv(u, e, e, x + 1)
                   /\ u.cap = t.cap
             /\ ~MustMove(i, e, h) => HoleInv(t, i, e, x + 1)
  <1> DEFINE e == Succ(t, j)
             k == t.cells[e]
             n == t.items[k].name
             h == Home(t, n)
             u == Moved(t, i, e)
             item == [name |-> t.items[k].name, value |-> t.items[k].value, cell |-> i]
  <1>1. /\ t.cap \in Nat /\ t.items \in Seq(Item(t)) /\ Count(t) = Len(t.items)
        /\ t.cells \in [Positions(t) -> 0..t.cap] /\ Count(t) \in Nat
        /\ Count(t) <= ItemCapacity(t)
    BY DEF Shape, Count
  <1>2. /\ i \in Taken(t) /\ i \in Positions(t) /\ j \in Positions(t) /\ x \in Nat
        /\ ~Full(t)
        /\ \A c \in Taken(t) \ {i} :
              /\ \A p \in Positions(t) : Passes(t, c, p) => p \in Taken(t)
              /\ Passes(t, c, i) => Steps(t, i, j) < Steps(t, i, c)
        /\ Steps(t, i, j) <= x
        /\ \A p \in Positions(t) : Steps(t, p, j) <= x => p \in Taken(t)
    BY DEF HoleInv, Taken
  <1>3. /\ e \in Positions(t) /\ Steps(t, i, e) = Steps(t, i, j) + 1
        /\ Steps(t, i, j) \in Nat
        /\ i # e
    <2>1. Steps(t, i, j) \in 0..(t.cap - 1) /\ Steps(t, i, j) < t.cap - 1
      BY <1>1, <1>2, StepsRange
    <2>2. e \in Positions(t) /\ Steps(t, i, e) = Steps(t, i, j) + 1
      BY <2>1, <1>1, <1>2, SuccSteps
    <2>3. Steps(t, i, e) # 0
      BY <2>1, <2>2
    <2> QED
      BY <2>1, <2>2, <2>3, <1>1, <1>2, StepsRange
  <1>4. /\ e \in Taken(t) \ {i}
        /\ k \in 1..Count(t) /\ t.items[k].cell = e
    BY <1>3 DEF Taken, Linked
  <1>5. t.items[k] \in Item(t) /\ n \in Names /\ h \in Positions(t) /\ item \in Item(t)
    <2>1. t.items[k] \in Item(t)
      BY <1>1, <1>4
    <2>2. n \in Names /\ item \in Item(t)
      BY <2>1, <1>2 DEF Item
    <2>3. t.cap \in Nat \ {0}
      BY <1>1, <1>2 DEF Positions
    <2> QED
      BY <2>1, <2>2, <2>3, HomeRange
  <1>6. MustMove(i, e, h) <=> Steps(t, h, i) < Steps(t, h, e)
    BY <1>1, <1>2, <1>3, <1>5, MustMoveMeaning
  <1>7. ASSUME NEW p \in Positions(t), Steps(t, p, e) <= x + 1
        PROVE  p \in Taken(t)
    <2>1. CASE p = e
      BY <2>1, <1>4
    <2>2. CASE p # e
      <3>1. Steps(t, p, e) = Steps(t, p, j) + 1 /\ Steps(t, p, j) \in Nat
        BY <2>2, <1>1, <1>2, SuccSteps, StepsRange
      <3> QED
        BY <3>1, <1>2, <1>7
    <2> QED
      BY <2>1, <2>2
  <1> HIDE DEF e, u, item
  <1>8. ASSUME ~MustMove(i, e, h)
        PROVE  HoleInv(t, i, e, x + 1)
    <2>1. ASSUME NEW c \in Taken(t) \ {i}, Passes(t, c, i)
          PROVE  Steps(t, i, e) < Steps(t, i, c)
      <3>1. Steps(t, i, j) < Steps(t, i, c) /\ c \in Positions(t)
        BY <2>1, <1>2 DEF Taken
      <3>2. c # e
        BY <2>1, <1>6, <1>8 DEF Passes
      <3>3. Steps(t, i, c) \in Nat /\ Steps(t, i, c) # Steps(t, i, e)
        BY <3>1, <3>2, <1>1, <1>2, <1>3, StepsRange
      <3> QED
        BY <3>1, <3>3, <1>3
    <2>2. Steps(t, i, e) <= x + 1 /\ x + 1 \in Nat
      BY <1>2, <1>3
    <2> QED
      BY <2>1, <2>2, <1>2, <1>3, <1>7 DEF HoleInv
  <1>9. ASSUME MustMove(i, e, h)
        PROVE  Shape(u) /\ Linked(u, e) /\ HoleInv(u, e, e, x + 1) /\ u.cap = t.cap
    <2>1. /\ u.cap = t.cap
          /\ u.cells = [t.cells EXCEPT ![i] = k]
          /\ u.items = [t.items EXCEPT ![k] = item]
      BY DEF u, Moved, Table, item
    <2>2. /\ Positions(u) = Positions(t) /\ ItemCapacity(u) = ItemCapacity(t)
          /\ Item(u) = Item(t)
          /\ \A m : Home(u, m) = Home(t, m)
          /\ \A p, q : Steps(u, p, q) = Steps(t, p, q)
      BY <2>1, SameCap
    <2>3. /\ u.cells \in [Positions(t) -> 0..t.cap]
          /\ u.cells[i] = k
          /\ \A p \in Positions(t) \ {i} : u.cells[p] = t.cells[p]
      <3>1. k \in 0..t.cap
        BY <1>1, <1>3
      <3> QED
        BY <3>1, <2>1, <1>1, <1>2
    <2>4. u.items \in Seq(Item(t)) /\ Count(u) = Count(t)
      BY <2>1, <1>1, <1>4, <1>5 DEF Count
    <2>5. /\ u.items[k] = item
          /\ \A l \in 1..Count(t) : l # k => u.items[l] = t.items[l]
          /\ \A l \in 1..Count(t) : u.items[l].name = t.items[l].name
      <3>1. /\ u.items[k] = item
            /\ \A l \in 1..Count(t) : l # k => u.items[l] = t.items[l]
        BY <2>1, <1>1, <1>4
      <3> QED
        BY <3>1 DEF item
    <2>6. Shape(u)
      BY <2>1, <2>2, <2>3, <2>4, <1>1 DEF Shape
    <2>7. /\ \A l \in 1..Count(t) : t.items[l].cell # i /\ t.cells[t.items[l].cell] = l
          /\ \A p \in Positions(t) \ {i} : t.cells[p] # Empty =>
                t.cells[p] \in 1..Count(t) /\ t.items[t.cells[p]].cell = p
          /\ \A l \in 1..Count(t) : t.items[l].cell \in Positions(t)
      <3>1. \A l \in 1..Count(t) : t.items[l] \in Item(t)
        BY <1>1
      <3>2. \A l \in 1..Count(t) : t.items[l].cell \in Positions(t)
        BY <3>1 DEF Item
      <3> QED
        BY <3>2 DEF Linked
    <2>8. Linked(u, e)
      <3>1. ASSUME NEW l \in 1..Count(t)
            PROVE  u.items[l].cell # e /\ u.cells[u.items[l].cell] = l
        <4>1. CASE l = k
          BY <4>1, <2>3, <2>5, <1>3 DEF item
        <4>2. CASE l # k
          BY <4>2, <2>3, <2>5, <2>7
        <4> QED
          BY <4>1, <4>2
      <3>2. ASSUME NEW p \in Positions(t) \ {e}, u.cells[p] # Empty
            PROVE  u.cells[p] \in 1..Count(t) /\ u.items[u.cells[p]].cell = p
        <4>1. CASE p = i
          BY <4>1, <2>3, <2>5, <1>4 DEF item
        <4>2. CASE p # i
          <5>1. /\ u.cells[p] = t.cells[p] /\ t.cells[p] \in 1..Count(t)
                /\ t.items[t.cells[p]].cell = p
            BY <4>2, <3>2, <2>3, <2>7
          <5>2. t.cells[p] # k
            BY <5>1, <1>4
          <5> QED
            BY <5>1, <5>2, <2>5
        <4> QED
          BY <4>1, <4>2
      <3>3. \A l, m \in 1..Count(t) : u.items[l].name = u.items[m].name => l = m
        BY <2>5 DEF Linked
      <3> QED
        BY <3>1, <3>2, <3>3, <2>2, <2>4 DEF Linked
    <2>9. Taken(u) = Taken(t)
      BY <2>2, <2>3, <1>1, <1>2, <1>4 DEF Taken, Empty
    <2>10. ASSUME NEW c \in Taken(u) \ {e}
           PROVE  /\ \A p \in Positions(u) : Passes(u, c, p) => p \in Taken(u)
                  /\ Passes(u, c, e) => Steps(u, e, e) < Steps(u, e, c)
      <3>0. c \in Positions(t)
        BY <2>9 DEF Taken
      <3>1. Steps(t, e, e) = 0 /\ Steps(t, e, c) \in Nat /\ Steps(t, e, c) # 0
        BY <3>0, <1>1, <1>3, StepsRange
      <3>2. ASSUME NEW p \in Positions(t), Passes(u, c, p)
            PROVE  p \in Taken(t)
        <4>1. CASE c = i
          <5>1. u.cells[c] = k /\ u.items[k].name = n
            BY <4>1, <2>3, <2>5, <1>4
          <5>2. Steps(t, h, p) < Steps(t, h, i)
            BY <4>1, <5>1, <3>2, <2>2 DEF Passes
          <5>3. Steps(t, h, p) < Steps(t, h, e)
            <6>1. /\ Steps(t, h, p) \in Int /\ Steps(t, h, i) \in Int /\ Steps(t, h, e) \in Int
              BY <1>1, <1>2, <1>3, <1>5, StepsRange
            <6> QED
              BY <6>1, <5>2, <1>6, <1>9
          <5> QED
            BY <5>3, <1>2, <1>4 DEF Passes
        <4>2. CASE c # i
          <5>1. u.cells[c] = t.cells[c] /\ t.cells[c] \in 1..Count(t)
            BY <4>2, <3>0, <2>3, <2>7, <2>9 DEF Taken
          <5>2. Passes(t, c, p)
            BY <5>1, <3>2, <2>2, <2>5 DEF Passes
          <5> QED
            BY <5>2, <4>2, <2>9, <1>2
        <4> QED
          BY <4>1, <4>2
      <3> QED
        BY <3>1, <3>2, <2>2, <2>9
    <2>11. ~Full(u)
      BY <2>2, <2>4, <1>2 DEF Full
    <2>12. Steps(u, e, e) <= x + 1 /\ x + 1 \in Nat
      BY <2>2, <1>1, <1>2, <1>3, StepsRange
    <2>13. \A p \in Positions(u) : Steps(u, p, e) <= x + 1 => p \in Taken(u)
      BY <2>2, <2>9, <1>7
    <2>14. e \in Taken(u) /\ e \in Positions(u)
      BY <2>2, <2>9, <1>3, <1>4
    <2>15. HoleInv(u, e, e, x + 1)
      BY <2>10, <2>11, <2>12, <2>13, <2>14 DEF HoleInv
    <2> QED
      BY <2>1, <2>6, <2>8, <2>15
  <1> QED
    BY <1>8, <1>9 DEF e, u

(* When the loop ends no probe passes the hole, and it becomes empty.       *)
LEMMA FillHole ==
  ASSUME NEW t, Shape(t), NEW i, Linked(t, i), NEW j, NEW x, HoleInv(t, i, j, x),
         ~(x < t.cap - 1 /\ t.cells[Succ(t, j)] # Empty)
  PROVE  LET u == Table(t.cap, [t.cells EXCEPT ![i] = Empty], t.items)
         IN  Whole(u) /\ u.items = t.items
  <1> DEFINE e == Succ(t, j)
             u == Table(t.cap, [t.cells EXCEPT ![i] = Empty], t.items)
  <1>1. /\ t.cap \in Nat /\ t.items \in Seq(Item(t)) /\ Count(t) = Len(t.items)
        /\ t.cells \in [Positions(t) -> 0..t.cap] /\ Count(t) \in Nat
        /\ Count(t) <= ItemCapacity(t) /\ ItemCapacity(t) \in Nat
    BY DEF Shape, Count, ItemCapacity
  <1>2. /\ i \in Taken(t) /\ i \in Positions(t) /\ j \in Positions(t) /\ x \in Nat
        /\ ~Full(t)
        /\ \A c \in Taken(t) \ {i} :
              /\ \A p \in Positions(t) : Passes(t, c, p) => p \in Taken(t)
              /\ Passes(t, c, i) => Steps(t, i, j) < Steps(t, i, c)
        /\ \A p \in Positions(t) : Steps(t, p, j) <= x => p \in Taken(t)
    BY DEF HoleInv, Taken
  <1>3. /\ u.cap = t.cap /\ u.items = t.items /\ Count(u) = Count(t)
        /\ u.cells = [t.cells EXCEPT ![i] = Empty]
    BY DEF Table, Count
  <1>4. /\ Positions(u) = Positions(t) /\ ItemCapacity(u) = ItemCapacity(t)
        /\ Item(u) = Item(t)
        /\ \A m : Home(u, m) = Home(t, m)
        /\ \A p, q : Steps(u, p, q) = Steps(t, p, q)
    BY <1>3, SameCap
  <1> HIDE DEF u, e
  <1>5. /\ u.cells[i] = Empty /\ u.cells \in [Positions(t) -> 0..t.cap]
        /\ \A p \in Positions(t) \ {i} : u.cells[p] = t.cells[p]
    BY <1>1, <1>2, <1>3 DEF Empty
  <1>6. Shape(u)
    BY <1>1, <1>3, <1>4, <1>5 DEF Shape
  <1>7. /\ \A l \in 1..Count(t) : t.items[l] \in Item(t)
        /\ \A l \in 1..Count(t) : t.items[l].cell \in Positions(t)
        /\ -1 \notin Positions(t)
    <2>1. \A l \in 1..Count(t) : t.items[l] \in Item(t)
      BY <1>1
    <2>2. \A l \in 1..Count(t) : t.items[l].cell \in Positions(t)
      BY <2>1 DEF Item
    <2>3. -1 \notin Positions(t)
      BY <1>1 DEF Positions
    <2> QED
      BY <2>1, <2>2, <2>3
  <1>8. Linked(u, -1)
    <2>1. \A l \in 1..Count(t) :
             u.items[l].cell # -1 /\ u.cells[u.items[l].cell] = l
      BY <1>3, <1>5, <1>7 DEF Linked
    <2>2. \A p \in Positions(t) :
             u.cells[p] # Empty => u.cells[p] \in 1..Count(t) /\ u.items[u.cells[p]].cell = p
      BY <1>3, <1>5 DEF Linked
    <2>3. \A l, m \in 1..Count(t) : u.items[l].name = u.items[m].name => l = m
      BY <1>3 DEF Linked
    <2> QED
      BY <2>1, <2>2, <2>3, <1>3, <1>4 DEF Linked
  <1>9. Taken(u) = Taken(t) \ {i}
    BY <1>4, <1>5 DEF Taken
  <1>10. PICK p \in Positions(t) : t.cells[p] = Empty
    <2>1. t.cap > 0
      BY <1>1, <1>2 DEF Positions
    <2>2. Count(t) < ItemCapacity(t)
      BY <1>1, <1>2 DEF Full
    <2> QED
      BY ONLY Shape(t), Linked(t, i), <2>1, <2>2, EmptyCell
  <1>11. t.cells[e] = Empty /\ e \in Positions(t)
    <2>1. Steps(t, p, j) \in 0..(t.cap - 1) /\ p \notin Taken(t)
      BY <1>1, <1>2, <1>10, StepsRange DEF Taken
    <2>2. x < t.cap - 1
      BY <2>1, <1>1, <1>2
    <2> QED
      BY <2>2, <1>1, <1>2, SuccSteps DEF e
  <1>12. ASSUME NEW c \in Taken(t) \ {i}
         PROVE  ~Passes(t, c, i)
    <2> DEFINE h == Home(t, t.items[t.cells[c]].name)
    <2> SUFFICES ASSUME Passes(t, c, i) PROVE FALSE
      OBVIOUS
    <2>1. c \in Positions(t) /\ t.cells[c] \in 1..Count(t) /\ h \in Positions(t)
      <3>1. c \in Positions(t) /\ t.cells[c] \in 1..Count(t)
        BY DEF Taken, Linked
      <3>2. t.items[t.cells[c]] \in Item(t)
        BY ONLY <3>1, <1>7
      <3>3. t.items[t.cells[c]].name \in Names
        BY ONLY <3>2 DEF Item
      <3>4. t.cap \in Nat \ {0}
        BY ONLY <3>1, <1>1 DEF Positions
      <3> QED
        BY <3>1, <3>3, <3>4, HomeRange
    <2>2. Steps(t, i, j) < Steps(t, i, c) /\ Steps(t, h, i) < Steps(t, h, c)
      BY <1>2 DEF Passes
    <2>3. i # e /\ c # e
      BY <1>2, <1>11 DEF Taken
    <2>4. Steps(t, i, e) = Steps(t, i, j) + 1
      BY <2>3, <1>1, <1>2, SuccSteps DEF e
    <2>5. /\ Steps(t, i, e) # Steps(t, i, c)
          /\ Steps(t, i, j) \in Nat /\ Steps(t, i, c) \in Nat
      BY <2>1, <2>3, <1>1, <1>2, <1>11, StepsRange
    <2>6. Steps(t, i, e) < Steps(t, i, c)
      BY <2>2, <2>4, <2>5
    <2>7. Passes(t, c, e)
      BY <2>1, <2>2, <2>6, <1>1, <1>2, <1>11, StepsBetween DEF Passes
    <2> QED
      BY <2>7, <1>2, <1>11 DEF Taken
  <1>13. ASSUME NEW c \in Taken(u), NEW q \in Positions(u), Passes(u, c, q)
         PROVE  q \in Taken(u)
    <2>1. c \in Taken(t) \ {i} /\ u.cells[c] = t.cells[c]
      BY <1>5, <1>9 DEF Taken
    <2>2. Passes(t, c, q)
      BY <2>1, <1>3, <1>4, <1>13 DEF Passes
    <2> QED
      BY <2>1, <2>2, <1>2, <1>4, <1>9, <1>12
  <1> QED
    BY <1>3, <1>6, <1>8, <1>13 DEF Whole, Reachable, u
-----------------------------------------------------------------------------
(* A table twice as large has room for what the full one held, and one more *)
LEMMA GrowthFits ==
  ASSUME NEW t, Shape(t), NEW u, u.cap \in Nat, u.cap >= t.cap * 2, u.cap >= 2
  PROVE  Count(t) < ItemCapacity(u)
  <1> DEFINE c == t.cap
             d == u.cap
             n == Count(t)
  <1>1. c \in Nat /\ d \in Nat /\ n \in Nat /\ n <= (c * 7) \div 10
    BY DEF Shape, Count, ItemCapacity
  <1>2. d >= c * 2 /\ d >= 2
    OBVIOUS
  <1> HIDE DEF c, d, n
  <1>3. (c * 7) \div 10 < (d * 7) \div 10
    BY <1>1, <1>2
  <1>4. n < (d * 7) \div 10
    BY <1>1, <1>3
  <1> QED
    BY <1>4 DEF ItemCapacity, d, n

LEMMA InitOK == Init => TableOK
  <1> SUFFICES ASSUME Init PROVE TableOK
    OBVIOUS
  <1>1. pc = "idle" /\ Whole(object)
    BY InitWhole DEF Init, NoTable
  <1> QED
    BY <1>1 DEF TableOK, Whole, RehashFits, At

(* Between two calls it is enough that the table is whole.                  *)
LEMMA IdleOK ==
  ASSUME pc' = "idle", Whole(object')
  PROVE  TableOK'
  BY DEF TableOK, Whole, RehashFits, At

LEMMA WholeObject ==
  ASSUME TableOK, ~At("shift")
  PROVE  Whole(object)
  BY DEF TableOK, Whole, At

LEMMA SameOK ==
  ASSUME TableOK, UNCHANGED <<object, pc, growth, gap>>
  PROVE  TableOK'
  BY DEF TableOK, RehashFits, At, growth, gap

LEMMA CallOK ==
  ASSUME TableOK, NEW n \in Names, NEW v \in Values, NEW call \in {"add", "set"},
         \/ SetPresent(n, v) \/ Insert(call, n, v) \/ BeginGrowth(call, n, v)
  PROVE  TableOK'
  <1>1. Whole(object) /\ ~At("shift")
    BY WholeObject DEF SetPresent, Insert, BeginGrowth, Idle, At
  <1>2. CASE SetPresent(n, v)
    <2>1. ItemIn(object, n) \in 1..Count(object)
      BY <1>1, <1>2, FoundPresent DEF SetPresent
    <2>2. Whole(object')
      BY <1>1, <1>2, <2>1, WithValueWhole DEF SetPresent
    <2> QED
      BY <1>2, <2>2, IdleOK DEF SetPresent, Idle
  <1>3. CASE Insert(call, n, v)
    <2>1. /\ object.cap > 0 /\ Count(object) < ItemCapacity(object)
          /\ \A k \in 1..Count(object) : object.items[k].name # n
      <3>1. Count(object) \in Nat /\ object.cap \in Nat /\ ItemCapacity(object) \in Nat
        BY <1>1 DEF Whole, Shape, Count, ItemCapacity
      <3>2. Count(object) < ItemCapacity(object)
        BY <1>3, <3>1 DEF Insert, Full
      <3>3. object.cap > 0
        BY <3>1, <3>2 DEF ItemCapacity
      <3> QED
        BY <1>1, <1>3, <3>2, <3>3, FoundPresent DEF Insert
    <2>2. Whole(object')
      BY <1>1, <1>3, <2>1, AddedWhole DEF Insert
    <2> QED
      BY <1>3, <2>2, IdleOK DEF Insert, Idle
  <1>4. CASE BeginGrowth(call, n, v)
    <2> DEFINE c == IF object.cap * 2 > StartCap THEN object.cap * 2 ELSE StartCap
    <2>1. /\ pc' = "grow" /\ object' = object /\ fresh' = json_object_init(c) /\ next' = 1
          /\ arg'.call = call /\ arg'.name = n /\ arg'.value = v
      BY <1>4 DEF BeginGrowth, gap
    <2>2. c \in Nat /\ c >= object.cap * 2 /\ c >= 2
      BY <1>1, TableAssumption DEF Whole, Shape
    <2> HIDE DEF c
    <2>3. Whole(fresh') /\ fresh'.cap = c /\ Count(fresh') = 0
      BY <2>1, <2>2, InitWhole
    <2>4. Count(object) < ItemCapacity(fresh')
      BY <1>1, <2>2, <2>3, GrowthFits DEF Whole
    <2>5. \A k \in 1..Count(object) : object.items[k].name # n
      BY <1>1, <1>4, FoundPresent DEF BeginGrowth
    <2>6. Count(object) \in Nat
      BY <1>1, WholeSized
    <2>7. RehashFits'
      BY <2>1, <2>3, <2>4, <2>5, <2>6 DEF RehashFits, Whole
    <2> QED
      BY <1>1, <2>1, <2>7 DEF TableOK, Whole, At
  <1> QED
    BY <1>2, <1>3, <1>4

LEMMA RehashOK == TableOK /\ Rehash => TableOK'
  <1> SUFFICES ASSUME TableOK, Rehash PROVE TableOK'
    OBVIOUS
  <1> DEFINE item == object.items[next]
  <1>1. At("grow") /\ next <= Count(object) /\ RehashFits /\ Whole(object)
    BY WholeObject DEF Rehash, TableOK, At
  <1>2. /\ fresh' = Added(fresh, item.name, item.value) /\ next' = next + 1
        /\ object' = object /\ pc' = pc /\ arg' = arg
    BY DEF Rehash
  <1>3. /\ Whole(fresh) /\ next \in 1..Count(object) /\ Count(fresh) = next - 1
        /\ \A k \in 1..(next - 1) :
              /\ fresh.items[k].name = object.items[k].name
              /\ fresh.items[k].value = object.items[k].value
        /\ Count(object) < ItemCapacity(fresh)
        /\ Count(object) \in Nat
    BY <1>1, WholeSized DEF RehashFits, Whole
  <1>4. item \in Item(object)
    BY <1>1, <1>3, PresentFound
  <1>5. item.name \in Names /\ item.value \in Values
    BY <1>4 DEF Item
  <1>6. fresh.cap > 0 /\ Count(fresh) < ItemCapacity(fresh)
    <2>1. fresh.cap \in Nat /\ ItemCapacity(fresh) \in Nat /\ ItemCapacity(fresh) > 0
      BY <1>3 DEF Whole, Shape, ItemCapacity
    <2> QED
      BY <2>1, <1>3 DEF ItemCapacity
  <1>7. \A k \in 1..Count(fresh) : fresh.items[k].name # item.name
    <2>1. \A k \in 1..(next - 1) : k \in 1..Count(object) /\ k # next
      BY <1>3
    <2>2. \A k, l \in 1..Count(object) : object.items[k].name = object.items[l].name => k = l
      BY <1>1 DEF Whole, Linked
    <2> QED
      BY <2>1, <2>2, <1>3
  <1> HIDE DEF item
  <1>8. /\ Whole(fresh') /\ fresh'.cap = fresh.cap /\ Count(fresh') = Count(fresh) + 1
        /\ \A k \in 1..Count(fresh) : fresh'.items[k] = fresh.items[k]
        /\ fresh'.items[next].name = item.name /\ fresh'.items[next].value = item.value
    <2>1. Count(fresh) + 1 = next
      BY <1>3
    <2> QED
      BY <2>1, <1>2, <1>3, <1>5, <1>6, <1>7, AddedWhole
  <1>9. \A k \in 1..next : /\ fresh'.items[k].name = object.items[k].name
                           /\ fresh'.items[k].value = object.items[k].value
    BY <1>3, <1>8 DEF item
  <1>10. /\ next' \in 1..(Count(object) + 1) /\ Count(fresh') = next' - 1
         /\ next' - 1 = next
    BY <1>2, <1>3, <1>8
  <1>11. ItemCapacity(fresh') = ItemCapacity(fresh)
    BY <1>8 DEF ItemCapacity
  <1>12. RehashFits'
    BY <1>1, <1>2, <1>3, <1>8, <1>9, <1>10, <1>11 DEF RehashFits, Whole
  <1> QED
    BY <1>1, <1>2, <1>12 DEF TableOK, Whole, At

LEMMA FinishGrowthOK == TableOK /\ (FinishGrowth \/ KeyNotCopied) => TableOK'
  <1> SUFFICES ASSUME TableOK, FinishGrowth \/ KeyNotCopied PROVE TableOK'
    OBVIOUS
  <1>1. RehashFits /\ At("grow") /\ next > Count(object) /\ pc' = "idle" /\ Whole(object)
    BY WholeObject DEF FinishGrowth, KeyNotCopied, EndGrowth, TableOK, At
  <1>2. /\ Whole(fresh) /\ Count(fresh) = Count(object) /\ next - 1 = Count(object)
        /\ Count(fresh) < ItemCapacity(fresh)
        /\ arg.name \in Names /\ arg.value \in Values
        /\ \A k \in 1..Count(fresh) : fresh.items[k].name # arg.name
    <2>1. Count(object) \in Nat
      BY <1>1, WholeSized
    <2>2. next - 1 = Count(object) /\ Count(fresh) = Count(object)
      BY <1>1, <2>1 DEF RehashFits
    <2> QED
      BY <1>1, <2>2 DEF RehashFits, Whole
  <1>3. CASE KeyNotCopied
    BY <1>1, <1>2, <1>3, IdleOK DEF KeyNotCopied
  <1>4. CASE FinishGrowth
    <2>1. fresh.cap \in Nat /\ Count(fresh) \in Nat /\ fresh.cap > 0
      <3>1. fresh.cap \in Nat /\ Count(fresh) \in Nat
        BY <1>2, WholeSized
      <3> QED
        BY <3>1, <1>2 DEF ItemCapacity
    <2>2. Whole(Grown)
      BY <2>1, <1>2, AddedWhole DEF Grown
    <2> QED
      BY <2>2, <1>1, <1>4, IdleOK DEF FinishGrowth
  <1> QED
    BY <1>3, <1>4

LEMMA RemoveOK ==
  ASSUME TableOK, NEW n \in Names, Remove(n)
  PROVE  TableOK'
  <1> DEFINE k == ItemIn(object, n)
             i == object.items[k].cell
  <1>1. Whole(object)
    BY WholeObject DEF Remove, Idle, At
  <1>2. k \in 1..Count(object) /\ object.items[k].name = n
    BY <1>1, FoundPresent DEF Remove
  <1>3. json_object_get_cell_ix(object, n) = i
    BY <1>1, <1>2, PresentFound
  <1>4. /\ object' = ItemRemoved(object, k) /\ pc' = "shift"
        /\ hole' = i /\ probe' = i /\ turns' = 0
    BY <1>3 DEF Remove
  <1> HIDE DEF k, i
  <1>5. Shape(object') /\ Linked(object', i) /\ HoleInv(object', i, i, 0)
    BY <1>1, <1>2, <1>4, RemovedHole DEF i
  <1> QED
    BY <1>4, <1>5 DEF TableOK, At, RehashFits

LEMMA ShiftOK == TableOK /\ Shift => TableOK'
  <1> SUFFICES ASSUME TableOK, Shift PROVE TableOK'
    OBVIOUS
  <1> DEFINE e == Succ(object, probe)
             h == Home(object, object.items[object.cells[e]].name)
             u == Moved(object, hole, e)
  <1>1. /\ Shape(object) /\ Linked(object, hole) /\ HoleInv(object, hole, probe, turns)
        /\ turns < object.cap - 1 /\ object.cells[e] # Empty
        /\ pc = "shift"
    BY DEF TableOK, Shift, Onward, At
  <1>2. /\ MustMove(hole, e, h) =>
              Shape(u) /\ Linked(u, e) /\ HoleInv(u, e, e, turns + 1)
        /\ ~MustMove(hole, e, h) => HoleInv(object, hole, e, turns + 1)
    BY <1>1, ShiftHole
  <1>3. /\ pc' = "shift" /\ probe' = e /\ turns' = turns + 1
        /\ IF MustMove(hole, e, h) THEN object' = u /\ hole' = e
                                   ELSE object' = object /\ hole' = hole
    BY <1>1 DEF Shift
  <1> HIDE DEF e, h, u
  <1>4. Shape(object') /\ Linked(object', hole') /\ HoleInv(object', hole', e, turns + 1)
    BY <1>1, <1>2, <1>3
  <1> QED
    BY <1>3, <1>4 DEF TableOK, At, RehashFits

LEMMA FinishRemoveOK == TableOK /\ FinishRemove => TableOK'
  <1> SUFFICES ASSUME TableOK, FinishRemove PROVE TableOK'
    OBVIOUS
  <1>1. /\ Shape(object) /\ Linked(object, hole) /\ HoleInv(object, hole, probe, turns)
        /\ ~(turns < object.cap - 1 /\ object.cells[Succ(object, probe)] # Empty)
        /\ pc' = "idle"
        /\ object' = Table(object.cap, [object.cells EXCEPT ![hole] = Empty], object.items)
    BY DEF TableOK, FinishRemove, Onward, At
  <1>2. Whole(object')
    BY <1>1, FillHole
  <1> QED
    BY <1>1, <1>2, IdleOK

LEMMA StepOK == TableOK /\ [Next]_vars => TableOK'
  <1> SUFFICES ASSUME TableOK, [Next]_vars PROVE TableOK'
    OBVIOUS
  <1>1. CASE UNCHANGED vars
    BY <1>1, SameOK DEF vars
  <1>2. CASE Rehash
    BY <1>2, RehashOK
  <1>3. CASE FinishGrowth \/ KeyNotCopied
    BY <1>3, FinishGrowthOK
  <1>4. CASE Shift
    BY <1>4, ShiftOK
  <1>5. CASE FinishRemove
    BY <1>5, FinishRemoveOK
  <1>6. CASE json_object_clear
    <2>1. Whole(object) /\ pc' = "idle"
      BY <1>6, WholeObject DEF json_object_clear, Idle, At
    <2>2. Whole(object')
      BY <1>6, <2>1, InitWhole DEF json_object_clear, Whole, Shape
    <2> QED
      BY <2>1, <2>2, IdleOK
  <1>7. ASSUME NEW n \in Names,
               \/ AddPresent(n) \/ SetAttached(n) \/ RemoveAbsent(n) \/ Get(n)
               \/ NoMemory("add", n) \/ NoMemory("set", n)
        PROVE  TableOK'
    BY <1>7, SameOK DEF AddPresent, SetAttached, RemoveAbsent, Get, NoMemory, Failing
  <1>8. ASSUME NEW n \in Names, Remove(n) PROVE TableOK'
    BY <1>8, RemoveOK
  <1>9. ASSUME NEW n \in Names, NEW v \in Values,
               json_object_add(n, v) \/ json_object_set_value(n, v)
        PROVE  TableOK'
    BY <1>9, CallOK DEF json_object_add, json_object_set_value
  <1> QED
    BY <1>1, <1>2, <1>3, <1>4, <1>5, <1>6, <1>7, <1>8, <1>9 DEF Next

(* The arrays of the table of an object (parson.c, JSON_Object) stay in     *)
(* step and every name in it can be found: for any set of names, any hash   *)
(* function and any starting capacity of at least two cells.                *)
THEOREM TableSafe == Spec => []TableOK
  <1> QED
    BY InitOK, StepOK, PTL DEF Spec

-----------------------------------------------------------------------------
(* The hash table implements a map: every step of ObjectTable is a step of  *)
(* ObjectMap or leaves the map alone.                                       *)

Distinct(t) == \A k, l \in 1..Count(t) : t.items[k].name = t.items[l].name => k = l

(* The map of a table has the value of each item under its name.            *)
LEMMA ContentsAt ==
  ASSUME NEW t, Distinct(t), NEW k \in 1..Count(t)
  PROVE  /\ t.items[k].name \in DOMAIN Contents(t)
         /\ Contents(t)[t.items[k].name] = t.items[k].value
  <1> DEFINE n == t.items[k].name
  <1>1. n \in NamesIn(t)
    BY DEF NamesIn
  <1>2. NumberOf(t, n) \in 1..Count(t) /\ t.items[NumberOf(t, n)].name = n
    BY DEF NumberOf
  <1>3. NumberOf(t, n) = k
    BY <1>2 DEF Distinct
  <1> QED
    BY <1>1, <1>3 DEF Contents

(* To compare the map of a table with a function item by item.              *)
LEMMA ContentsAre ==
  ASSUME NEW t, Distinct(t), NEW S, NEW f, f = [n \in S |-> f[n]],
         \A k \in 1..Count(t) : t.items[k].name \in S /\ f[t.items[k].name] = t.items[k].value,
         \A n \in S : \E k \in 1..Count(t) : t.items[k].name = n
  PROVE  Contents(t) = f
  <1>1. NamesIn(t) = S
    BY DEF NamesIn
  <1>2. ASSUME NEW n \in S PROVE Contents(t)[n] = f[n]
    BY ContentsAt
  <1>3. Contents(t) = [n \in S |-> Contents(t)[n]]
    BY <1>1 DEF Contents
  <1> QED
    BY <1>2, <1>3

LEMMA SameContents ==
  ASSUME NEW t, Distinct(t), NEW u, Count(u) = Count(t),
         \A k \in 1..Count(t) : /\ u.items[k].name = t.items[k].name
                                /\ u.items[k].value = t.items[k].value
  PROVE  Contents(u) = Contents(t) /\ Distinct(u)
  <1>1. Distinct(u)
    BY DEF Distinct
  <1>2. Contents(t) = [n \in NamesIn(t) |-> Contents(t)[n]]
    BY DEF Contents
  <1>3. ASSUME NEW k \in 1..Count(u)
        PROVE  /\ u.items[k].name \in NamesIn(t)
               /\ Contents(t)[u.items[k].name] = u.items[k].value
    BY ContentsAt DEF NamesIn
  <1>4. \A n \in NamesIn(t) : \E k \in 1..Count(u) : u.items[k].name = n
    BY DEF NamesIn
  <1> HIDE DEF Contents
  <1> QED
    BY <1>1, <1>2, <1>3, <1>4, ContentsAre

LEMMA WholeDistinct == ASSUME NEW t, Whole(t) PROVE Distinct(t)
  BY DEF Whole, Linked, Distinct

(* What a probe finds is what the map has.                                  *)
LEMMA FoundIsPresent ==
  ASSUME NEW t, Whole(t), NEW n \in Names
  PROVE  /\ Found(t, n) <=> n \in DOMAIN Contents(t)
         /\ Found(t, n) => Contents(t)[n] = t.items[ItemIn(t, n)].value
  <1>1. ASSUME Found(t, n)
        PROVE  n \in DOMAIN Contents(t) /\ Contents(t)[n] = t.items[ItemIn(t, n)].value
    BY <1>1, FoundPresent, WholeDistinct, ContentsAt
  <1>2. ASSUME ~Found(t, n) PROVE n \notin DOMAIN Contents(t)
    BY <1>2, FoundPresent DEF Contents, NamesIn
  <1> QED
    BY <1>1, <1>2
-----------------------------------------------------------------------------
(* The maps that calls leave behind, in the terms of ObjectMap.             *)
WithName(f, n, v) == [m \in DOMAIN f \cup {n} |-> IF m = n THEN v ELSE f[m]]

LEMMA AddedContents ==
  ASSUME NEW t, Distinct(t), Count(t) \in Nat, NEW u, Distinct(u), NEW n, NEW v,
         Count(u) = Count(t) + 1,
         \A k \in 1..Count(t) : /\ u.items[k].name = t.items[k].name
                                /\ u.items[k].value = t.items[k].value,
         u.items[Count(t) + 1].name = n, u.items[Count(t) + 1].value = v
  PROVE  Contents(u) = WithName(Contents(t), n, v)
  <1> DEFINE S == DOMAIN Contents(t) \cup {n}
             f == WithName(Contents(t), n, v)
             last == Count(t) + 1
  <1>1. f = [m \in S |-> f[m]] /\ f[n] = v
        /\ \A m \in DOMAIN Contents(t) : m # n => f[m] = Contents(t)[m]
    BY DEF WithName
  <1>2. ASSUME NEW k \in 1..Count(u)
        PROVE  u.items[k].name \in S /\ f[u.items[k].name] = u.items[k].value
    <2>1. CASE k = last
      BY <2>1, <1>1
    <2>2. CASE k \in 1..Count(t)
      <3>1. /\ t.items[k].name \in DOMAIN Contents(t)
            /\ Contents(t)[t.items[k].name] = t.items[k].value
        BY <2>2, ContentsAt
      <3>2. u.items[k].name # n
        BY <2>2 DEF Distinct
      <3> HIDE DEF f
      <3> QED
        BY <2>2, <3>1, <3>2, <1>1
    <2> QED
      BY <2>1, <2>2
  <1>3. ASSUME NEW m \in S PROVE \E k \in 1..Count(u) : u.items[k].name = m
    <2>1. CASE m = n
      BY <2>1
    <2>2. CASE m \in DOMAIN Contents(t)
      <3>1. PICK k \in 1..Count(t) : t.items[k].name = m
        BY <2>2 DEF Contents, NamesIn
      <3> QED
        BY <3>1
    <2> QED
      BY <2>1, <2>2
  <1> HIDE DEF f, S
  <1> QED
    BY <1>1, <1>2, <1>3, ContentsAre DEF f

LEMMA SetContents ==
  ASSUME NEW t, Whole(t), NEW k \in 1..Count(t), NEW v
  PROVE  Contents(WithValue(t, k, v)) = WithName(Contents(t), t.items[k].name, v)
  <1> DEFINE u == WithValue(t, k, v)
             n == t.items[k].name
             S == DOMAIN Contents(t) \cup {n}
             f == WithName(Contents(t), n, v)
  <1>1. t.items \in Seq(Item(t)) /\ Count(t) = Len(t.items) /\ Count(t) \in Nat
    BY DEF Whole, Shape, Count
  <1>2. /\ Count(u) = Count(t)
        /\ u.items[k].name = n /\ u.items[k].value = v
        /\ \A l \in 1..Count(t) : l # k => u.items[l] = t.items[l]
    BY <1>1 DEF WithValue, Table, Count
  <1>3. Distinct(t)
    BY WholeDistinct
  <1>4. Distinct(u)
    BY <1>2, <1>3 DEF Distinct
  <1> HIDE DEF u
  <1>5. f = [m \in S |-> f[m]] /\ f[n] = v
        /\ \A m \in DOMAIN Contents(t) : m # n => f[m] = Contents(t)[m]
    BY DEF WithName
  <1>6. ASSUME NEW l \in 1..Count(u)
        PROVE  u.items[l].name \in S /\ f[u.items[l].name] = u.items[l].value
    <2>1. CASE l = k
      BY <2>1, <1>2, <1>5
    <2>2. CASE l # k
      <3>1. /\ t.items[l].name \in DOMAIN Contents(t)
            /\ Contents(t)[t.items[l].name] = t.items[l].value
        BY <1>2, <1>3, ContentsAt
      <3>2. t.items[l].name # n
        BY <2>2, <1>2, <1>3 DEF Distinct
      <3> HIDE DEF f
      <3> QED
        BY <2>2, <3>1, <3>2, <1>2, <1>5
    <2> QED
      BY <2>1, <2>2
  <1>7. ASSUME NEW m \in S PROVE \E l \in 1..Count(u) : u.items[l].name = m
    <2>1. PICK l \in 1..Count(t) : t.items[l].name = m
      BY DEF Contents, NamesIn
    <2> QED
      BY <2>1, <1>2
  <1> HIDE DEF f, S
  <1> QED
    BY <1>4, <1>5, <1>6, <1>7, ContentsAre DEF f, u

LEMMA RemovedContents ==
  ASSUME NEW t, Whole(t), NEW k \in 1..Count(t)
  PROVE  Contents(ItemRemoved(t, k)) =
            [m \in DOMAIN Contents(t) \ {t.items[k].name} |-> Contents(t)[m]]
  <1> DEFINE u == ItemRemoved(t, k)
             n == t.items[k].name
             last == Count(t)
             S == DOMAIN Contents(t) \ {n}
             f == [m \in S |-> Contents(t)[m]]
             old(l) == IF l = k THEN last ELSE l
  <1>1. t.items \in Seq(Item(t)) /\ last = Len(t.items) /\ last \in Nat /\ Distinct(t)
    BY WholeDistinct DEF Whole, Shape, Count
  <1>2. Count(u) = last - 1 /\ \A l \in 1..(last - 1) : u.items[l] = t.items[old(l)]
    <2> DEFINE kept == SubSeq(t.items, 1, last - 1)
               item == t.items[last]
    <2>1. /\ Len(kept) = last - 1 /\ kept \in Seq(Item(t))
          /\ \A l \in 1..(last - 1) : kept[l] = t.items[l]
      BY <1>1
    <2>2. u.items = IF k < last THEN [kept EXCEPT ![k] = item] ELSE kept
      BY <1>1 DEF ItemRemoved, Table, Count
    <2> HIDE DEF kept, item, u
    <2>3. CASE k < last
      <3>1. u.items = [kept EXCEPT ![k] = item] /\ k \in 1..Len(kept)
        BY <2>1, <2>2, <2>3, <1>1
      <3>2. /\ Len(u.items) = Len(kept)
            /\ \A l \in 1..Len(kept) : u.items[l] = IF l = k THEN item ELSE kept[l]
        BY <3>1, <2>1
      <3> QED
        BY <3>2, <2>1 DEF Count, item
    <2>4. CASE k = last
      BY <2>1, <2>2, <2>4, <1>1 DEF Count
    <2> QED
      BY <2>3, <2>4, <1>1
  <1>3. \A l \in 1..(last - 1) : old(l) \in 1..last /\ old(l) # k
    BY <1>1
  <1>5. Distinct(u)
    BY RemovedHole DEF Linked, Distinct
  <1> HIDE DEF u, old
  <1>6. ASSUME NEW l \in 1..Count(u)
        PROVE  u.items[l].name \in S /\ f[u.items[l].name] = u.items[l].value
    <2>1. u.items[l] = t.items[old(l)] /\ old(l) \in 1..last /\ old(l) # k
      BY <1>2, <1>3
    <2>2. t.items[old(l)].name # n
      BY <2>1, <1>1 DEF Distinct
    <2> QED
      BY <2>1, <2>2, <1>1, ContentsAt
  <1>7. ASSUME NEW m \in S PROVE \E l \in 1..Count(u) : u.items[l].name = m
    <2>1. PICK l \in 1..Count(t) : t.items[l].name = m
      BY DEF Contents, NamesIn
    <2>2. l # k
      BY <2>1
    <2>3. CASE l = last
      <3>1. k \in 1..(last - 1) /\ old(k) = l
        BY <2>2, <2>3, <1>1 DEF old
      <3> QED
        BY <3>1, <2>1, <1>2
    <2>4. CASE l # last
      <3>1. l \in 1..(last - 1) /\ old(l) = l
        BY <2>2, <2>4, <1>1 DEF old
      <3> QED
        BY <3>1, <2>1, <1>2
    <2> QED
      BY <2>3, <2>4
  <1>8. f = [m \in S |-> f[m]]
    OBVIOUS
  <1> HIDE DEF S, f
  <1>9. Contents(u) = f
    BY <1>5, <1>6, <1>7, <1>8, ContentsAre
  <1> QED
    BY <1>9 DEF u, f, S
-----------------------------------------------------------------------------
LEMMA InitMaps == Init => Map!Init
  <1> SUFFICES ASSUME Init PROVE Map!Init
    OBVIOUS
  <1>1. Contents(object) = [m \in {} |-> {}]
    <2>1. Count(object) = 0
      BY InitWhole DEF Init, NoTable
    <2> QED
      BY <2>1 DEF Contents, NamesIn
  <1> QED
    BY <1>1 DEF Init, Map!Init, Answer, Map!Answer

(* A call that stores, given what it leaves in the table.                   *)
LEMMA StoreMaps ==
  ASSUME NEW n \in Names, NEW v \in Values, NEW call \in {"add", "set"},
         answer' = Answer(call, n, "success"), scarce' = scarce,
         call = "set" \/ n \notin DOMAIN Contents(object),
         Contents(object)' = WithName(Contents(object), n, v)
  PROVE  Map!Next
  <1>1. Map!Store(call, n, v)
    BY DEF Map!Store, Map!Present, Map!With, Map!Answer, Answer, WithName
  <1> QED
    BY <1>1 DEF Map!Next

(* A call that fails, and why.                                              *)
LEMMA RefuseMaps ==
  ASSUME NEW n \in Names, NEW call \in {"add", "set", "set_attached", "remove"},
         answer' = Answer(call, n, "failure"), scarce' = scarce,
         Contents(object)' = Contents(object),
         \/ call = "add" /\ n \in DOMAIN Contents(object)
         \/ call = "set_attached"
         \/ call \in {"add", "set"} /\ n \notin DOMAIN Contents(object) /\ scarce
         \/ call = "remove" /\ n \notin DOMAIN Contents(object)
  PROVE  Map!Next
  <1>1. Map!Refuse(call, n)
    BY DEF Map!Refuse, Map!Present, Map!Answer, Answer
  <1> QED
    BY <1>1 DEF Map!Next

LEMMA SilentMaps ==
  ASSUME UNCHANGED <<scarce, answer>>, Contents(object)' = Contents(object)
  PROVE  UNCHANGED Map!vars
  BY DEF Map!vars

LEMMA CallMaps ==
  ASSUME TableOK, NEW n \in Names, NEW v \in Values, NEW call \in {"add", "set"},
         \/ SetPresent(n, v) \/ Insert(call, n, v) \/ BeginGrowth(call, n, v)
  PROVE  [Map!Next]_(Map!vars)
  <1>1. Whole(object)
    BY WholeObject DEF SetPresent, Insert, BeginGrowth, Idle, At
  <1>2. CASE SetPresent(n, v)
    <2>1. /\ ItemIn(object, n) \in 1..Count(object)
          /\ object.items[ItemIn(object, n)].name = n
      BY <1>1, <1>2, FoundPresent DEF SetPresent
    <2>2. Contents(object') = WithName(Contents(object), n, v)
      BY <1>1, <1>2, <2>1, SetContents DEF SetPresent
    <2> QED
      BY <1>2, <2>2, StoreMaps DEF SetPresent
  <1>3. CASE Insert(call, n, v)
    <2>1. /\ object.cap > 0 /\ Count(object) < ItemCapacity(object) /\ Count(object) \in Nat
          /\ \A k \in 1..Count(object) : object.items[k].name # n
      <3>1. Count(object) \in Nat /\ object.cap \in Nat /\ ItemCapacity(object) \in Nat
        BY <1>1 DEF Whole, Shape, Count, ItemCapacity
      <3>2. Count(object) < ItemCapacity(object)
        BY <1>3, <3>1 DEF Insert, Full
      <3>3. object.cap > 0
        BY <3>1, <3>2 DEF ItemCapacity
      <3> QED
        BY <1>1, <1>3, <3>1, <3>2, <3>3, FoundPresent DEF Insert
    <2>2. /\ Whole(object') /\ Count(object') = Count(object) + 1
          /\ \A k \in 1..Count(object) : object'.items[k] = object.items[k]
          /\ object'.items[Count(object) + 1].name = n
          /\ object'.items[Count(object) + 1].value = v
      BY <1>1, <1>3, <2>1, AddedWhole DEF Insert
    <2>3. Contents(object') = WithName(Contents(object), n, v)
      BY <1>1, <2>1, <2>2, WholeDistinct, AddedContents
    <2>4. n \notin DOMAIN Contents(object)
      BY <1>1, <1>3, FoundIsPresent DEF Insert
    <2> QED
      BY <1>3, <2>3, <2>4, StoreMaps DEF Insert
  <1>4. CASE BeginGrowth(call, n, v)
    BY <1>4, SilentMaps DEF BeginGrowth
  <1> QED
    BY <1>2, <1>3, <1>4

LEMMA GrowthMaps ==
  ASSUME TableOK, FinishGrowth \/ KeyNotCopied
  PROVE  Map!Next
  <1>1. RehashFits /\ At("grow") /\ next > Count(object) /\ Whole(object)
    BY WholeObject DEF FinishGrowth, KeyNotCopied, TableOK, At
  <1>2. /\ Whole(fresh) /\ Count(fresh) = Count(object)
        /\ \A k \in 1..Count(object) : /\ fresh.items[k].name = object.items[k].name
                                       /\ fresh.items[k].value = object.items[k].value
        /\ Count(fresh) < ItemCapacity(fresh)
        /\ arg.call \in {"add", "set"} /\ arg.name \in Names /\ arg.value \in Values
        /\ \A k \in 1..Count(fresh) : fresh.items[k].name # arg.name
    <2>1. Count(object) \in Nat
      BY <1>1, WholeSized
    <2>2. next - 1 = Count(object) /\ Count(fresh) = Count(object)
      BY <1>1, <2>1 DEF RehashFits
    <2> QED
      BY <1>1, <2>2 DEF RehashFits, Whole
  <1>3. Contents(fresh) = Contents(object)
    BY <1>1, <1>2, WholeDistinct, SameContents
  <1>4. arg.name \notin DOMAIN Contents(object)
    BY <1>2, <1>3 DEF Contents, NamesIn
  <1>5. CASE KeyNotCopied
    <2>1. /\ Contents(object') = Contents(object) /\ scarce' = scarce /\ scarce
          /\ answer' = Answer("set", arg.name, "failure")
      BY <1>3, <1>5 DEF KeyNotCopied, EndGrowth
    <2> QED
      BY <2>1, <1>2, <1>4, RefuseMaps
  <1>6. CASE FinishGrowth
    <2>1. fresh.cap > 0 /\ Count(fresh) \in Nat
      <3>1. fresh.cap \in Nat /\ Count(fresh) \in Nat
        BY <1>2, WholeSized
      <3> QED
        BY <3>1, <1>2 DEF ItemCapacity
    <2>2. object' = Added(fresh, arg.name, arg.value)
      BY <1>6 DEF FinishGrowth, Grown
    <2>3. /\ Whole(object') /\ Count(object') = Count(fresh) + 1
          /\ \A k \in 1..Count(fresh) : object'.items[k] = fresh.items[k]
          /\ object'.items[Count(fresh) + 1].name = arg.name
          /\ object'.items[Count(fresh) + 1].value = arg.value
      BY <2>1, <2>2, <1>2, AddedWhole
    <2>4. Contents(object') = WithName(Contents(object), arg.name, arg.value)
      BY <2>1, <2>3, <1>2, <1>3, WholeDistinct, AddedContents
    <2>5. answer' = Answer(arg.call, arg.name, "success") /\ scarce' = scarce
      BY <1>6 DEF FinishGrowth, EndGrowth
    <2> QED
      BY <2>4, <2>5, <1>2, <1>4, StoreMaps
  <1> QED
    BY <1>5, <1>6

LEMMA ShiftMaps ==
  ASSUME TableOK, Shift \/ FinishRemove
  PROVE  UNCHANGED Map!vars
  <1> DEFINE e == Succ(object, probe)
             k == object.cells[e]
             item == [name |-> object.items[k].name, value |-> object.items[k].value,
                      cell |-> hole]
  <1>1. Shape(object) /\ Linked(object, hole) /\ Distinct(object)
    BY DEF TableOK, Shift, FinishRemove, At, Linked, Distinct
  <1>2. object.items \in Seq(Item(object)) /\ Count(object) = Len(object.items)
    BY <1>1 DEF Shape, Count
  <1>3. \/ object' = object
        \/ object'.items = object.items
        \/ object'.items = [object.items EXCEPT ![k] = item]
    BY DEF Shift, FinishRemove, Moved, Table
  <1> HIDE DEF k
  <1>4. /\ Count(object') = Count(object)
        /\ \A l \in 1..Count(object) : /\ object'.items[l].name = object.items[l].name
                                       /\ object'.items[l].value = object.items[l].value
    BY <1>2, <1>3 DEF Count
  <1>5. Contents(object') = Contents(object)
    BY <1>1, <1>4, SameContents
  <1> QED
    BY <1>5, SilentMaps DEF Shift, FinishRemove

LEMMA NameMaps ==
  ASSUME TableOK, NEW n \in Names,
         \/ AddPresent(n) \/ SetAttached(n) \/ RemoveAbsent(n)
         \/ NoMemory("add", n) \/ NoMemory("set", n)
         \/ Remove(n) \/ Get(n)
  PROVE  Map!Next
  <1>1. Whole(object)
    BY WholeObject
       DEF AddPresent, SetAttached, RemoveAbsent, NoMemory, Remove, Get, Idle, At
  <1>2. /\ Found(object, n) <=> n \in DOMAIN Contents(object)
        /\ Found(object, n) => Contents(object)[n] = object.items[ItemIn(object, n)].value
    BY <1>1, FoundIsPresent
  <1>3. CASE AddPresent(n) \/ SetAttached(n) \/ RemoveAbsent(n)
             \/ NoMemory("add", n) \/ NoMemory("set", n)
    <2>1. \E call \in {"add", "set", "set_attached", "remove"} : Failing(call, n) /\
            (\/ call = "add" /\ n \in DOMAIN Contents(object)
             \/ call = "set_attached"
             \/ call \in {"add", "set"} /\ n \notin DOMAIN Contents(object) /\ scarce
             \/ call = "remove" /\ n \notin DOMAIN Contents(object))
      BY <1>2, <1>3 DEF AddPresent, SetAttached, RemoveAbsent, NoMemory
    <2> QED
      BY <2>1, RefuseMaps DEF Failing
  <1>4. CASE Remove(n)
    <2> DEFINE k == ItemIn(object, n)
    <2>1. k \in 1..Count(object) /\ object.items[k].name = n
      BY <1>1, <1>4, FoundPresent DEF Remove
    <2>2. Contents(object') = [m \in DOMAIN Contents(object) \ {n} |-> Contents(object)[m]]
      BY <1>1, <1>4, <2>1, RemovedContents DEF Remove
    <2>3. Map!Delete(n) /\ scarce' = scarce
      BY <1>2, <1>4, <2>2
         DEF Remove, Map!Delete, Map!Present, Map!Without, Map!Answer, Answer
    <2> QED
      BY <2>3 DEF Map!Next
  <1>5. CASE Get(n)
    <2>1. Map!Look(n) /\ scarce' = scarce
      BY <1>2, <1>5
         DEF Get, json_object_getn_value, Map!Look, Map!Present, Map!Answer, Answer
    <2> QED
      BY <2>1 DEF Map!Next
  <1> QED
    BY <1>3, <1>4, <1>5

LEMMA ClearMaps ==
  ASSUME TableOK, json_object_clear
  PROVE  Map!Next
  <1>1. Count(json_object_init(object.cap)) = 0
    BY DEF json_object_init, Table, Count
  <1>2. Contents(object') = [m \in {} |-> {}]
    <2>1. Count(object') = 0
      BY <1>1 DEF json_object_clear
    <2>2. NamesIn(object') = {}
      BY <2>1 DEF NamesIn
    <2> QED
      BY <2>2 DEF Contents
  <1>3. Map!Clear /\ scarce' = scarce
    BY <1>2 DEF json_object_clear, Map!Clear, Map!Answer, Answer
  <1> QED
    BY <1>3 DEF Map!Next

LEMMA StepMaps == TableOK /\ [Next]_vars => [Map!Next]_(Map!vars)
  <1> SUFFICES ASSUME TableOK, [Next]_vars PROVE [Map!Next]_(Map!vars)
    OBVIOUS
  <1>1. CASE UNCHANGED vars
    BY <1>1, SilentMaps DEF vars
  <1>2. CASE Rehash
    BY <1>2, SilentMaps DEF Rehash
  <1>3. CASE FinishGrowth \/ KeyNotCopied
    BY <1>3, GrowthMaps
  <1>4. CASE Shift \/ FinishRemove
    BY <1>4, ShiftMaps
  <1>5. CASE json_object_clear
    BY <1>5, ClearMaps
  <1>6. ASSUME NEW n \in Names,
               \/ AddPresent(n) \/ SetAttached(n) \/ RemoveAbsent(n)
               \/ NoMemory("add", n) \/ NoMemory("set", n)
               \/ Remove(n) \/ Get(n)
        PROVE  [Map!Next]_(Map!vars)
    BY <1>6, NameMaps
  <1>7. ASSUME NEW n \in Names, NEW v \in Values,
               json_object_add(n, v) \/ json_object_set_value(n, v)
        PROVE  [Map!Next]_(Map!vars)
    BY <1>7, CallMaps DEF json_object_add, json_object_set_value
  <1> QED
    BY <1>1, <1>2, <1>3, <1>4, <1>5, <1>6, <1>7 DEF Next

(* Callers of the object functions of parson.h see a map: a lookup returns  *)
(* what was stored last under the name, a failing call changes nothing, and *)
(* growing the table or closing the gap of a removal cannot be seen.        *)
THEOREM TableImplementsMap == Spec => ImplementsMap
  <1>1. Spec => []TableOK
    BY TableSafe
  <1> QED
    BY <1>1, InitMaps, StepMaps, PTL DEF Spec, ImplementsMap, Map!Spec
-----------------------------------------------------------------------------
(* Memory that ends with a NUL has a first byte, and a rest behind each of  *)
(* its bytes but the last.                                                 *)
LEMMA TerminatedIs ==
  ASSUME NEW s \in Terminated
  PROVE  /\ s \in Seq(Byte) /\ s # <<>> /\ Len(s) \in Nat \ {0}
         /\ Head(s) = s[1] /\ s[Len(s)] = Nul
         /\ \A i \in 1..Len(s) : s[i] \in Byte
  <1>1. s \in Seq(Byte) /\ s # <<>> /\ s[Len(s)] = Nul
    BY DEF Terminated
  <1>2. Len(s) \in Nat \ {0}
    BY <1>1, LenProperties, EmptySeq
  <1>3. Head(s) = s[1]
    BY <1>1, HeadTailProperties
  <1>4. \A i \in 1..Len(s) : s[i] \in Byte
    BY <1>1, ElementOfSeq
  <1>. QED
    BY <1>1, <1>2, <1>3, <1>4

LEMMA RestIs ==
  ASSUME NEW s \in Terminated, NEW k \in 1..Len(s)
  PROVE  /\ From(s, k) \in Terminated /\ Len(From(s, k)) = Len(s) + 1 - k
         /\ \A i \in 1..(Len(s) + 1 - k) : From(s, k)[i] = s[k + i - 1]
  <1> DEFINE r == From(s, k)
             n == Len(s) + 1 - k
  <1>1. s \in Seq(Byte) /\ Len(s) \in Nat \ {0} /\ s[Len(s)] = Nul
    BY TerminatedIs
  <1>2. k \in 1..(Len(s) + 1) /\ n \in Nat \ {0} /\ k + n - 1 = Len(s)
    BY <1>1
  <1>3. r \in Seq(Byte) /\ Len(r) = n /\ \A i \in 1..Len(r) : r[i] = s[k + i - 1]
    BY <1>1, <1>2, FromIs
  <1> HIDE DEF r, n
  <1>4. r # <<>>
    BY <1>2, <1>3, EmptySeq
  <1>5. n \in 1..Len(r)
    BY <1>2, <1>3
  <1>6. r[Len(r)] = Nul
    BY <1>1, <1>2, <1>3, <1>5
  <1>7. r \in Terminated
    BY <1>3, <1>4, <1>6 DEF Terminated
  <1>. QED
    BY <1>3, <1>7 DEF r, n

(* Texts behind one another.                                               *)
LEMMA BytesConcat ==
  ASSUME NEW a \in Seq(Byte), NEW b \in Seq(Byte), NEW c \in Seq(Byte)
  PROVE  (a \o b) \o c = a \o (b \o c)
  BY ConcatAssociative

(* A text in front of it.                                                  *)
LEMMA InFront ==
  ASSUME NEW b \in Seq(Byte), NEW q \in Terminated
  PROVE  /\ b \o q \in Terminated /\ Len(b \o q) = Len(b) + Len(q) /\ Len(b) \in Nat
         /\ \A i \in 1..Len(b) : (b \o q)[i] = b[i]
         /\ \A i \in 1..Len(q) : (b \o q)[Len(b) + i] = q[i]
         /\ From(b \o q, Len(b) + 1) = q
  <1> DEFINE c == b \o q
             m == Len(b)
             n == Len(q)
  <1>1. m \in Nat
    BY LenProperties
  <1>2. q \in Seq(Byte) /\ n \in Nat \ {0} /\ q[n] = Nul
    BY TerminatedIs
  <1>3. /\ c \in Seq(Byte) /\ Len(c) = m + n
        /\ \A i \in 1..(m + n) : c[i] = IF i <= m THEN b[i] ELSE q[i - m]
    BY <1>2, ConcatProperties
  <1>4. From(c, m + 1) = q
    BY <1>2, FromConcat
  <1> HIDE DEF c, m, n
  <1>5. \A i \in 1..m : c[i] = b[i]
    <2>1. ASSUME NEW i \in 1..m PROVE c[i] = b[i]
      <3>1. i \in 1..(m + n) /\ i <= m
        BY <1>1, <1>2
      <3>. QED
        BY <1>3, <3>1
    <2>. QED
      BY <2>1
  <1>6. \A i \in 1..n : c[m + i] = q[i]
    <2>1. ASSUME NEW i \in 1..n PROVE c[m + i] = q[i]
      <3>1. m + i \in 1..(m + n) /\ ~(m + i <= m) /\ (m + i) - m = i
        BY <1>1, <1>2
      <3>. QED
        BY <1>3, <3>1
    <2>. QED
      BY <2>1
  <1>7. c[Len(c)] = Nul /\ c # <<>>
    <2>1. n \in 1..n
      BY <1>2
    <2>2. c[m + n] = Nul
      BY <1>2, <1>6, <2>1
    <2>3. m + n # 0
      BY <1>1, <1>2
    <2>. QED
      BY <1>3, <2>2, <2>3, EmptySeq
  <1>8. c \in Terminated
    BY <1>3, <1>7 DEF Terminated
  <1>. QED
    BY <1>1, <1>3, <1>4, <1>5, <1>6, <1>8 DEF c, m, n

-----------------------------------------------------------------------------
(* A function that calls itself for the rest of a text: what it calls is    *)
(* shorter.                                                                *)
Shorter(s) == {r \in Terminated : Len(r) < Len(s)}

LEMMA Behind ==
  ASSUME NEW s \in Terminated, NEW k \in 1..(Len(s) - 1)
  PROVE  From(s, k + 1) \in Shorter(s)
  <1> DEFINE i == k + 1
  <1>1. Len(s) \in Nat \ {0}
    BY TerminatedIs
  <1>2. i \in 1..Len(s) /\ Len(s) + 1 - i < Len(s)
    BY <1>1
  <1> HIDE DEF i
  <1>3. From(s, i) \in Terminated /\ Len(From(s, i)) = Len(s) + 1 - i
    BY <1>2, RestIs
  <1>. QED
    BY <1>2, <1>3 DEF Shorter, i

(* There is such a function: what it is for a text is a matter of what it   *)
(* is for shorter ones.                                                    *)
LEMMA ShorterFirst ==
  ASSUME NEW V, V # {}, NEW D \in [[Terminated -> V] -> [Terminated -> V]],
         \A g, h \in [Terminated -> V], s \in Terminated :
            (\A r \in Shorter(s) : g[r] = h[r]) => D[g][s] = D[h][s]
  PROVE  \E f \in [Terminated -> V] : f = D[f]
  <1> DEFINE rank == [s \in Terminated |-> Len(s)]
  <1>1. rank \in [Terminated -> Nat]
    BY TerminatedIs
  <1>2. ASSUME NEW g \in [Terminated -> V], NEW h \in [Terminated -> V], NEW s \in Terminated,
               \A r \in Terminated : rank[r] < rank[s] => g[r] = h[r]
        PROVE  D[g][s] = D[h][s]
    BY <1>2 DEF Shorter
  <1> HIDE DEF rank
  <1>3. OnLowerRank(Terminated, V, rank, D)
    BY <1>1, <1>2 DEF OnLowerRank
  <1>. QED
    BY <1>3, FixedPoint

(* What holds of a text if it holds of all shorter ones holds of all.       *)
LEMMA ShorterInduction ==
  ASSUME NEW G, \A s \in Terminated : Shorter(s) \subseteq G => s \in G
  PROVE  Terminated \subseteq G
  <1> DEFINE rank == [s \in Terminated |-> Len(s)]
  <1>1. rank \in [Terminated -> Nat]
    BY TerminatedIs
  <1>2. ASSUME NEW s \in Terminated, \A r \in Terminated : rank[r] < rank[s] => r \in G
        PROVE  s \in G
    <2>1. Shorter(s) \subseteq G
      BY <1>2 DEF Shorter
    <2>. QED
      BY <2>1
  <1> HIDE DEF rank
  <1>. QED
    BY <1>1, <1>2, RankInduction

-----------------------------------------------------------------------------
(* One step of the search for the closing quote, g for the rest.            *)
ClosingTurn(g, s) ==
    CASE Head(s) = Quote -> 0
      [] Head(s) = Nul -> -1
      [] Head(s) = Backslash -> IF s[2] = Nul THEN -1 ELSE Beyond(2, g[From(s, 3)])
      [] OTHER -> Beyond(1, g[From(s, 2)])

Length == Nat \cup {-1}

LEMMA ClosingGoesOn ==
  ASSUME NEW s \in Terminated
  PROVE  /\ Head(s) # Nul => From(s, 2) \in Shorter(s)
         /\ (Head(s) = Backslash /\ s[2] # Nul) => From(s, 3) \in Shorter(s)
  <1>1. Len(s) \in Nat \ {0} /\ Head(s) = s[1] /\ s[Len(s)] = Nul
    BY TerminatedIs
  <1>2. ASSUME Head(s) # Nul PROVE From(s, 2) \in Shorter(s)
    <2>1. Len(s) # 1
      BY <1>1, <1>2
    <2>2. 1 \in 1..(Len(s) - 1) /\ 1 + 1 = 2
      BY <1>1, <2>1
    <2>. QED
      BY <2>2, Behind
  <1>3. ASSUME Head(s) = Backslash, s[2] # Nul PROVE From(s, 3) \in Shorter(s)
    <2>1. Len(s) # 1 /\ Len(s) # 2
      BY <1>1, <1>3 DEF Backslash, Nul
    <2>2. 2 \in 1..(Len(s) - 1) /\ 2 + 1 = 3
      <3> DEFINE n == Len(s)
      <3>1. n \in Nat \ {0} /\ n # 1 /\ n # 2
        BY <1>1, <2>1
      <3> HIDE DEF n
      <3>2. 2 \in 1..(n - 1) /\ 2 + 1 = 3
        BY <3>1
      <3>. QED
        BY <3>2 DEF n
    <2>. QED
      BY <2>2, Behind
  <1>. QED
    BY <1>2, <1>3

LEMMA ClosingSame ==
  ASSUME NEW g, NEW h, NEW s \in Terminated, \A r \in Shorter(s) : g[r] = h[r]
  PROVE  ClosingTurn(g, s) = ClosingTurn(h, s)
  BY ClosingGoesOn DEF ClosingTurn

LEMMA ClosingTyped ==
  ASSUME NEW g, NEW s \in Terminated, \A r \in Shorter(s) : g[r] \in Length
  PROVE  ClosingTurn(g, s) \in Length
  <1>1. ASSUME NEW n \in Length PROVE Beyond(1, n) \in Length /\ Beyond(2, n) \in Length
    BY DEF Beyond, Length
  <1>2. 0 \in Length /\ -1 \in Length
    BY DEF Length
  <1> HIDE DEF Length
  <1>3. CASE Head(s) = Quote
    <2>1. ClosingTurn(g, s) = 0
      BY <1>3 DEF ClosingTurn, Nul, Quote, Backslash
    <2>. QED
      BY <1>2, <2>1
  <1>4. CASE Head(s) = Nul
    <2>1. ClosingTurn(g, s) = -1
      BY <1>4 DEF ClosingTurn, Nul, Quote, Backslash
    <2>. QED
      BY <1>2, <2>1
  <1>5. CASE Head(s) = Backslash
    <2>1. ClosingTurn(g, s) = IF s[2] = Nul THEN -1 ELSE Beyond(2, g[From(s, 3)])
      BY <1>5 DEF ClosingTurn, Nul, Quote, Backslash
    <2>. QED
      BY <1>1, <1>2, <1>5, <2>1, ClosingGoesOn
  <1>6. CASE Head(s) \notin {Quote, Nul, Backslash}
    <2>1. ClosingTurn(g, s) = Beyond(1, g[From(s, 2)])
      BY <1>6 DEF ClosingTurn
    <2>. QED
      BY <1>1, <1>6, <2>1, ClosingGoesOn
  <1>. QED
    BY <1>3, <1>4, <1>5, <1>6

LEMMA ClosingIs ==
  /\ Closing \in [Terminated -> Length]
  /\ \A s \in Terminated : Closing[s] = ClosingTurn(Closing, s)
  <1> DEFINE Body(g) == [s \in Terminated |-> ClosingTurn(g, s)]
             D == [g \in [Terminated -> Length] |-> Body(g)]
  <1>1. \A g \in [Terminated -> Length] : Body(g) \in [Terminated -> Length]
    BY ClosingTyped DEF Shorter
  <1>2. PICK f \in [Terminated -> Length] : f = D[f]
    <2>1. D \in [[Terminated -> Length] -> [Terminated -> Length]]
      BY <1>1
    <2>2. ASSUME NEW g \in [Terminated -> Length], NEW h \in [Terminated -> Length],
                 NEW s \in Terminated, \A r \in Shorter(s) : g[r] = h[r]
          PROVE  D[g][s] = D[h][s]
      BY <2>2, ClosingSame
    <2>3. Length # {}
      BY DEF Length
    <2> HIDE DEF D
    <2>. QED
      BY <2>1, <2>2, <2>3, ShorterFirst
  <1>3. f = Body(f)
    BY <1>2
  <1>4. Closing = CHOOSE g : g = Body(g)
    BY DEF Closing, ClosingTurn
  <1>5. Closing = Body(Closing)
    <2> HIDE DEF Body
    <2>. QED
      BY <1>3, <1>4
  <1>6. \A s \in Terminated : Closing[s] = ClosingTurn(Closing, s)
    BY <1>5
  <1> DEFINE G == {s \in Terminated : Closing[s] \in Length}
  <1>7. Terminated \subseteq G
    <2>1. ASSUME NEW s \in Terminated, Shorter(s) \subseteq G PROVE s \in G
      BY <1>6, <2>1, ClosingTyped
    <2> HIDE DEF G
    <2>. QED
      BY <2>1, ShorterInduction
  <1>8. Closing \in [Terminated -> Length]
    <2>1. \A s \in Terminated : Closing[s] \in Length
      BY <1>7
    <2>. QED
      BY <1>5, <2>1
  <1>. QED
    BY <1>6, <1>8

-----------------------------------------------------------------------------
(* The search passes b and goes on behind it, whatever follows.             *)
Skips(b) == \A q \in Terminated : Closing[b \o q] = Beyond(Len(b), Closing[q])

LEMMA BeyondTwice ==
  ASSUME NEW k \in Nat, NEW m \in Nat, NEW n \in Length
  PROVE  Beyond(k, Beyond(m, n)) = Beyond(k + m, n) /\ Beyond(0, n) = n
  BY DEF Beyond, Length

LEMMA SkipsNone == Skips(<<>>)
  <1>1. Len(<<>>) = 0
    BY EmptySeq
  <1>2. ASSUME NEW q \in Terminated PROVE <<>> \o q = q /\ Closing[q] \in Length
    <2>1. q \in Seq(Byte)
      BY TerminatedIs
    <2>. QED
      BY <2>1, ClosingIs, ConcatEmptySeq
  <1>3. 0 \in Nat
    OBVIOUS
  <1>. QED
    BY <1>1, <1>2, <1>3, BeyondTwice DEF Skips

LEMMA SkipsBoth ==
  ASSUME NEW b \in Seq(Byte), NEW d \in Seq(Byte), Skips(b), Skips(d)
  PROVE  Skips(b \o d)
  <1>1. Len(b) \in Nat /\ Len(d) \in Nat
    BY LenProperties
  <1>2. Len(b \o d) = Len(b) + Len(d)
    BY ConcatProperties
  <1>3. ASSUME NEW q \in Terminated
        PROVE  Closing[(b \o d) \o q] = Beyond(Len(b) + Len(d), Closing[q])
    <2>1. q \in Seq(Byte) /\ d \o q \in Terminated
      BY InFront, TerminatedIs
    <2>2. (b \o d) \o q = b \o (d \o q)
      BY <2>1, BytesConcat
    <2>3. Closing[b \o (d \o q)] = Beyond(Len(b), Beyond(Len(d), Closing[q]))
      BY <2>1 DEF Skips
    <2>4. Closing[q] \in Length
      BY ClosingIs
    <2>. QED
      BY <1>1, <2>2, <2>3, <2>4, BeyondTwice
  <1>. QED
    BY <1>2, <1>3 DEF Skips

(* One or two bytes in front of it.                                         *)
LEMMA ByteInFront ==
  ASSUME NEW c \in Byte, NEW q \in Terminated
  PROVE  /\ <<c>> \in Seq(Byte) /\ Len(<<c>>) = 1 /\ <<c>> \o q \in Terminated
         /\ (<<c>> \o q)[1] = c /\ Head(<<c>> \o q) = c /\ From(<<c>> \o q, 2) = q
  <1> DEFINE b == <<c>>
  <1>1. b \in Seq(Byte) /\ Len(b) = 1 /\ b[1] = c
    OBVIOUS
  <1> HIDE DEF b
  <1>2. /\ b \o q \in Terminated /\ From(b \o q, Len(b) + 1) = q
        /\ \A i \in 1..Len(b) : (b \o q)[i] = b[i]
    BY <1>1, InFront
  <1>3. 1 \in 1..Len(b) /\ Len(b) + 1 = 2
    BY <1>1
  <1>4. (b \o q)[1] = c /\ From(b \o q, 2) = q
    BY <1>1, <1>2, <1>3
  <1>5. Head(b \o q) = (b \o q)[1]
    BY <1>2, TerminatedIs
  <1>. QED
    BY <1>1, <1>2, <1>4, <1>5 DEF b

LEMMA TwoInFront ==
  ASSUME NEW c \in Byte, NEW d \in Byte, NEW q \in Terminated
  PROVE  /\ <<c, d>> \in Seq(Byte) /\ Len(<<c, d>>) = 2 /\ <<c, d>> \o q \in Terminated
         /\ (<<c, d>> \o q)[2] = d /\ Head(<<c, d>> \o q) = c /\ From(<<c, d>> \o q, 3) = q
  <1> DEFINE b == <<c, d>>
  <1>1. b \in Seq(Byte) /\ Len(b) = 2 /\ b[1] = c /\ b[2] = d
    OBVIOUS
  <1> HIDE DEF b
  <1>2. /\ b \o q \in Terminated /\ From(b \o q, Len(b) + 1) = q
        /\ \A i \in 1..Len(b) : (b \o q)[i] = b[i]
    BY <1>1, InFront
  <1>3. 1 \in 1..Len(b) /\ 2 \in 1..Len(b) /\ Len(b) + 1 = 3
    BY <1>1
  <1>4. (b \o q)[1] = c /\ (b \o q)[2] = d /\ From(b \o q, 3) = q
    BY <1>1, <1>2, <1>3
  <1>5. Head(b \o q) = (b \o q)[1]
    BY <1>2, TerminatedIs
  <1>. QED
    BY <1>1, <1>2, <1>4, <1>5 DEF b

LEMMA SkipsByte ==
  ASSUME NEW c \in Byte, c \notin {Nul, Quote, Backslash}
  PROVE  Skips(<<c>>)
  <1>1. ASSUME NEW q \in Terminated PROVE Closing[<<c>> \o q] = Beyond(1, Closing[q])
    <2> DEFINE s == <<c>> \o q
    <2>1. s \in Terminated /\ Head(s) = c /\ From(s, 2) = q
      BY ByteInFront
    <2> HIDE DEF s
    <2>2. Closing[s] = ClosingTurn(Closing, s)
      BY <2>1, ClosingIs
    <2>3. ClosingTurn(Closing, s) = Beyond(1, Closing[From(s, 2)])
      BY <2>1 DEF ClosingTurn
    <2>. QED
      BY <2>1, <2>2, <2>3 DEF s
  <1>2. Len(<<c>>) = 1
    OBVIOUS
  <1>. QED
    BY <1>1, <1>2 DEF Skips

LEMMA SkipsEscape ==
  ASSUME NEW c \in Byte, c # Nul
  PROVE  Skips(<<Backslash, c>>)
  <1>1. ASSUME NEW q \in Terminated
        PROVE  Closing[<<Backslash, c>> \o q] = Beyond(2, Closing[q])
    <2> DEFINE s == <<Backslash, c>> \o q
    <2>1. s \in Terminated /\ Head(s) = Backslash /\ s[2] = c /\ From(s, 3) = q
      <3>1. Backslash \in Byte
        BY DEF Byte, Backslash
      <3>. QED
        BY <3>1, TwoInFront
    <2> HIDE DEF s
    <2>2. Closing[s] = ClosingTurn(Closing, s)
      BY <2>1, ClosingIs
    <2>3. ClosingTurn(Closing, s) = Beyond(2, Closing[From(s, 3)])
      BY <2>1 DEF ClosingTurn, Quote, Nul, Backslash
    <2>. QED
      BY <2>1, <2>2, <2>3 DEF s
  <1>2. Len(<<Backslash, c>>) = 2
    OBVIOUS
  <1>. QED
    BY <1>1, <1>2 DEF Skips

(* The search stops at the quote, and ends without one at the NUL.          *)
LEMMA ClosingEnds ==
  /\ <<Quote, Nul>> \in Terminated /\ Closing[<<Quote, Nul>>] = 0
  /\ <<Nul>> \in Terminated /\ Closing[<<Nul>>] = -1
  <1> DEFINE q == <<Quote, Nul>>
             z == <<Nul>>
  <1>1. q \in Seq(Byte) /\ Len(q) = 2 /\ q[2] = Nul /\ q # <<>> /\ q[1] = Quote
    BY DEF Byte, Quote, Nul
  <1>2. z \in Seq(Byte) /\ Len(z) = 1 /\ z[1] = Nul /\ z # <<>>
    BY DEF Byte, Nul
  <1> HIDE DEF q, z
  <1>3. q \in Terminated /\ z \in Terminated
    BY <1>1, <1>2 DEF Terminated
  <1>4. Head(q) = Quote /\ Head(z) = Nul
    BY <1>1, <1>2, <1>3, TerminatedIs
  <1>5. ClosingTurn(Closing, q) = 0
    BY <1>4 DEF ClosingTurn, Quote, Nul, Backslash
  <1>6. ClosingTurn(Closing, z) = -1
    BY <1>4 DEF ClosingTurn, Quote, Nul, Backslash
  <1>. QED
    BY <1>3, <1>5, <1>6, ClosingIs DEF q, z

(* Plain bytes are passed, however many.                                    *)
LEMMA SkipsPlain ==
  ASSUME NEW b \in Seq(Byte), \A i \in 1..Len(b) : b[i] \notin {Nul, Quote, Backslash}
  PROVE  Skips(b)
  <1> DEFINE IsPlain(d) == \A i \in 1..Len(d) : d[i] \notin {Nul, Quote, Backslash}
             G == {n \in Nat : \A d \in Seq(Byte) : Len(d) = n /\ IsPlain(d) => Skips(d)}
  <1>1. 0 \in G
    <2>1. ASSUME NEW d \in Seq(Byte), Len(d) = 0 PROVE Skips(d)
      <3>1. d = <<>>
        BY <2>1, EmptySeq
      <3>. QED
        BY <3>1, SkipsNone
    <2>. QED
      BY <2>1
  <1>2. ASSUME NEW n \in Nat, n \in G PROVE n + 1 \in G
    <2>1. ASSUME NEW d \in Seq(Byte), Len(d) = n + 1, IsPlain(d) PROVE Skips(d)
      <3>1. d # <<>>
        BY <2>1, EmptySeq
      <3>2. /\ d = <<Head(d)>> \o Tail(d) /\ Head(d) \in Byte /\ Tail(d) \in Seq(Byte)
        BY <3>1, HeadAndTail
      <3>3. Len(Tail(d)) = Len(d) - 1 /\ \A i \in 1..Len(Tail(d)) : Tail(d)[i] = d[i + 1]
        BY <3>1, HeadTailProperties
      <3>4. Head(d) = d[1] /\ 1 \in 1..Len(d)
        BY <2>1, <3>1
      <3>5. Skips(<<Head(d)>>)
        BY <2>1, <3>2, <3>4, SkipsByte
      <3>6. Len(Tail(d)) = n
        BY <2>1, <3>3
      <3>7. ASSUME NEW i \in 1..Len(Tail(d)) PROVE Tail(d)[i] \notin {Nul, Quote, Backslash}
        <4>1. i + 1 \in 1..Len(d)
          BY <2>1, <3>6
        <4>. QED
          BY <2>1, <3>3, <4>1
      <3>8. Skips(Tail(d))
        BY <1>2, <3>2, <3>6, <3>7
      <3>9. <<Head(d)>> \in Seq(Byte)
        BY <3>2
      <3>10. Skips(<<Head(d)>> \o Tail(d))
        BY <3>2, <3>5, <3>8, <3>9, SkipsBoth
      <3>. QED
        BY <3>2, <3>10, Zenon
    <2>. QED
      BY <2>1
  <1> HIDE DEF G
  <1>3. Nat \subseteq G
    BY <1>1, <1>2, SetInduction
  <1>4. Len(b) \in G
    BY <1>3, LenProperties
  <1>. QED
    BY <1>4 DEF G
-----------------------------------------------------------------------------
(* A byte that is no NUL has another behind it.                             *)
LEMMA NotTheEnd ==
  ASSUME NEW s \in Terminated, NEW i \in 1..Len(s), s[i] # Nul
  PROVE  i + 1 \in 1..Len(s)
  <1> DEFINE n == Len(s)
  <1>1. n \in Nat \ {0} /\ s[n] = Nul
    BY TerminatedIs
  <1>2. i \in 1..n /\ i # n
    BY <1>1
  <1> HIDE DEF n
  <1>3. i + 1 \in 1..n
    <2>1. n \in Nat \ {0}
      BY <1>1
    <2>. QED
      BY <1>2, <2>1
  <1>. QED
    BY <1>3 DEF n

(* Digits, and the codes that four of them make.                           *)
LEMMA HexValues ==
  ASSUME NEW c
  PROVE  /\ c \in HexDigits => hex_char_to_int(c) \in 0..15 /\ c \in Byte \ {Nul}
         /\ c \notin HexDigits => hex_char_to_int(c) = -1
  <1>1. ASSUME c \in HexDigits PROVE hex_char_to_int(c) \in 0..15 /\ c \in Byte \ {Nul}
    BY <1>1 DEF HexDigits, hex_char_to_int, Byte, Nul
  <1>2. ASSUME c \notin HexDigits PROVE hex_char_to_int(c) = -1
    BY <1>2 DEF HexDigits, hex_char_to_int
  <1>. QED
    BY <1>1, <1>2

Hex(a, b, c, d) == a * 4096 + b * 256 + c * 16 + d

HexOf(s, i) ==
  Hex(hex_char_to_int(s[i + 1]), hex_char_to_int(s[i + 2]),
      hex_char_to_int(s[i + 3]), hex_char_to_int(s[i + 4]))

IsCode(n) == n \in Nat /\ n < 65536

LEMMA HexIs ==
  ASSUME NEW a \in 0..15, NEW b \in 0..15, NEW c \in 0..15, NEW d \in 0..15
  PROVE  IsCode(Hex(a, b, c, d))
  <1>1. /\ a \in Int /\ 0 <= a /\ a <= 15 /\ b \in Int /\ 0 <= b /\ b <= 15
        /\ c \in Int /\ 0 <= c /\ c <= 15 /\ d \in Int /\ 0 <= d /\ d <= 15
    OBVIOUS
  <1>2. a * 4096 + b * 256 + c * 16 + d \in Int
    BY <1>1, SMT
  <1>3. 0 <= a * 4096 + b * 256 + c * 16 + d /\ a * 4096 + b * 256 + c * 16 + d < 65536
    BY <1>1, SMT
  <1>. QED
    BY <1>2, <1>3, SMT DEF Hex, IsCode

LEMMA CodeIs ==
  ASSUME NEW s, NEW i \in Nat
  PROVE  /\ parse_utf16_hex(s, i) = -1 \/ IsCode(parse_utf16_hex(s, i))
         /\ (\E k \in 1..4 : s[i + k] \notin HexDigits) => parse_utf16_hex(s, i) = -1
         /\ (\A k \in 1..4 : s[i + k] \in HexDigits) =>
               parse_utf16_hex(s, i) = HexOf(s, i) /\ IsCode(HexOf(s, i))
  <1> DEFINE p == parse_utf16_hex(s, i)
             x(k) == hex_char_to_int(s[i + k])
  <1>1. \A k \in 1..4 : /\ s[i + k] \notin HexDigits => x(k) = -1
                        /\ s[i + k] \in HexDigits => x(k) \in 0..15
    BY HexValues
  <1>2. p = IF \E k \in 1..4 : x(k) = -1 THEN -1
            ELSE Hex(x(1), x(2), x(3), x(4))
    BY DEF parse_utf16_hex, Hex
  <1>3. HexOf(s, i) = Hex(x(1), x(2), x(3), x(4))
    BY DEF HexOf
  <1> HIDE DEF p, x
  <1>4. ASSUME NEW k \in 1..4, s[i + k] \notin HexDigits PROVE p = -1
    BY <1>1, <1>2, <1>4
  <1>5. ASSUME \A k \in 1..4 : s[i + k] \in HexDigits
        PROVE  p = HexOf(s, i) /\ IsCode(p)
    <2>1. \A k \in 1..4 : x(k) \in 0..15
      BY <1>1, <1>5
    <2>2. ~\E k \in 1..4 : x(k) = -1
      BY <2>1
    <2>3. p = Hex(x(1), x(2), x(3), x(4))
      BY <1>2, <2>2
    <2>4. 1 \in 1..4 /\ 2 \in 1..4 /\ 3 \in 1..4 /\ 4 \in 1..4
      OBVIOUS
    <2>5. x(1) \in 0..15 /\ x(2) \in 0..15 /\ x(3) \in 0..15 /\ x(4) \in 0..15
      BY <2>1, <2>4
    <2>6. IsCode(p)
      BY <2>3, <2>5, HexIs
    <2>. QED
      BY <1>3, <2>3, <2>6
  <1>. QED
    BY <1>4, <1>5 DEF p

(* Four digits are not at the end.                                          *)
LEMMA CodeEnds ==
  ASSUME NEW s \in Terminated, NEW i \in Nat, i + 1 \in 1..Len(s),
         parse_utf16_hex(s, i) # -1
  PROVE  i + 5 \in 1..Len(s) /\ \A k \in 1..4 : s[i + k] \in HexDigits
  <1>1. \A k \in 1..4 : s[i + k] \in HexDigits
    BY CodeIs
  <1>2. \A k \in 1..4 : s[i + k] # Nul
    BY <1>1, HexValues
  <1>3. s[i + 1] # Nul /\ s[i + 2] # Nul /\ s[i + 3] # Nul /\ s[i + 4] # Nul
    BY <1>2
  <1>4. (i + 1) + 1 = i + 2 /\ (i + 2) + 1 = i + 3 /\ (i + 3) + 1 = i + 4 /\ (i + 4) + 1 = i + 5
    OBVIOUS
  <1>5. i + 2 \in 1..Len(s)
    BY <1>3, <1>4, NotTheEnd
  <1>6. i + 3 \in 1..Len(s)
    BY <1>3, <1>4, <1>5, NotTheEnd
  <1>7. i + 4 \in 1..Len(s)
    BY <1>3, <1>4, <1>6, NotTheEnd
  <1>8. i + 5 \in 1..Len(s)
    BY <1>3, <1>4, <1>7, NotTheEnd
  <1>. QED
    BY <1>1, <1>8
-----------------------------------------------------------------------------
(* What is read of a number in places of base 64 makes it up again.          *)
IsPoint(n) == n \in Nat /\ n < 1114112

LEMMA Sixtyfour ==
  ASSUME NEW n \in Nat
  PROVE  /\ n \div 64 \in Nat /\ n \div 4096 \in Nat /\ n \div 262144 \in Nat
         /\ n = 64 * (n \div 64) + (n % 64) /\ n % 64 \in 0..63
         /\ (n \div 64) \div 64 = n \div 4096 /\ (n \div 4096) \div 64 = n \div 262144
         /\ n < 2048 => n \div 64 < 32
         /\ n < 65536 => n \div 4096 < 16
         /\ n < 1114112 => n \div 262144 < 5
         /\ n >= 128 => n \div 64 >= 2
         /\ n >= 65536 => n \div 4096 >= 16
  <1>1. n \div 64 \in Nat /\ n \div 4096 \in Nat /\ n \div 262144 \in Nat
    BY SMT
  <1>2. n = 64 * (n \div 64) + (n % 64) /\ n % 64 \in 0..63
    BY SMT
  <1>3. (n \div 64) \div 64 = n \div 4096 /\ (n \div 4096) \div 64 = n \div 262144
    BY SMT
  <1>4. /\ n < 2048 => n \div 64 < 32
        /\ n < 65536 => n \div 4096 < 16
        /\ n < 1114112 => n \div 262144 < 5
        /\ n >= 128 => n \div 64 >= 2
        /\ n >= 65536 => n \div 4096 >= 16
    BY SMT
  <1>. QED
    BY <1>1, <1>2, <1>3, <1>4, SMT

LEMMA ContIs ==
  ASSUME NEW n \in Nat
  PROVE  Cont(n) \in Byte /\ IS_CONT(Cont(n)) /\ Cont(n) % 64 = n % 64
  BY SMT DEF Cont, IS_CONT, Byte

(* The bytes of a code point.                                              *)
LEMMA OneByte == ASSUME NEW a \in Byte PROVE <<a>> \in Seq(Byte) /\ Len(<<a>>) = 1
  OBVIOUS

LEMMA TwoBytes ==
  ASSUME NEW a \in Byte, NEW b \in Byte PROVE <<a, b>> \in Seq(Byte) /\ Len(<<a, b>>) = 2
  OBVIOUS

LEMMA ThreeBytes ==
  ASSUME NEW a \in Byte, NEW b \in Byte, NEW c \in Byte
  PROVE  <<a, b, c>> \in Seq(Byte) /\ Len(<<a, b, c>>) = 3
  OBVIOUS

LEMMA FourBytes ==
  ASSUME NEW a \in Byte, NEW b \in Byte, NEW c \in Byte, NEW d \in Byte
  PROVE  <<a, b, c, d>> \in Seq(Byte) /\ Len(<<a, b, c, d>>) = 4
  OBVIOUS

LEMMA Utf8Bytes ==
  ASSUME NEW cp, IsPoint(cp)
  PROVE  /\ cp < 128 => cp \in Byte
         /\ cp < 2048 => 192 + cp \div 64 \in Byte
         /\ cp < 65536 => 224 + cp \div 4096 \in Byte
         /\ 240 + cp \div 262144 \in Byte
         /\ Cont(cp) \in Byte /\ Cont(cp \div 64) \in Byte /\ Cont(cp \div 4096) \in Byte
  <1>1. cp \in Nat /\ cp < 1114112
    BY DEF IsPoint
  <1>2. /\ cp \div 64 \in Nat /\ cp \div 4096 \in Nat /\ cp \div 262144 \in Nat
        /\ cp < 2048 => cp \div 64 < 32
        /\ cp < 65536 => cp \div 4096 < 16
        /\ cp \div 262144 < 5
    BY <1>1, Sixtyfour, SMT
  <1>3. Cont(cp) \in Byte /\ Cont(cp \div 64) \in Byte /\ Cont(cp \div 4096) \in Byte
    BY <1>1, <1>2, ContIs
  <1>4. cp < 128 => cp \in Byte
    BY <1>1, SMT DEF Byte
  <1>5. cp < 2048 => 192 + cp \div 64 \in Byte
    BY <1>2, SMT DEF Byte
  <1>6. cp < 65536 => 224 + cp \div 4096 \in Byte
    BY <1>2, SMT DEF Byte
  <1>7. 240 + cp \div 262144 \in Byte
    BY <1>2, SMT DEF Byte
  <1>. QED
    BY <1>3, <1>4, <1>5, <1>6, <1>7

LEMMA Utf8Is ==
  ASSUME NEW cp, IsPoint(cp)
  PROVE  /\ Utf8(cp) \in Seq(Byte) /\ Len(Utf8(cp)) \in 1..4
         /\ cp < 65536 => Len(Utf8(cp)) <= 3
  <1>1. CASE cp < 128
    <2>1. Utf8(cp) = <<cp>>
      BY <1>1, SMT DEF Utf8
    <2>2. Utf8(cp) \in Seq(Byte) /\ Len(Utf8(cp)) = 1
      BY <1>1, <2>1, OneByte, Utf8Bytes
    <2>. QED
      BY <2>2
  <1>2. CASE ~(cp < 128) /\ cp < 2048
    <2> DEFINE a == 192 + cp \div 64
    <2>1. Utf8(cp) = <<a, Cont(cp)>>
      BY <1>2, SMT DEF Utf8
    <2>2. a \in Byte /\ Cont(cp) \in Byte
      BY <1>2, Utf8Bytes
    <2> HIDE DEF a
    <2>3. Utf8(cp) \in Seq(Byte) /\ Len(Utf8(cp)) = 2
      BY <2>1, <2>2, TwoBytes
    <2>. QED
      BY <2>3
  <1>3. CASE ~(cp < 128) /\ ~(cp < 2048) /\ cp < 65536
    <2> DEFINE a == 224 + cp \div 4096
               b == Cont(cp \div 64)
    <2>1. Utf8(cp) = <<a, b, Cont(cp)>>
      BY <1>3, SMT DEF Utf8
    <2>2. a \in Byte /\ b \in Byte /\ Cont(cp) \in Byte
      BY <1>3, Utf8Bytes
    <2> HIDE DEF a, b
    <2>3. Utf8(cp) \in Seq(Byte) /\ Len(Utf8(cp)) = 3
      BY <2>1, <2>2, ThreeBytes
    <2>. QED
      BY <2>3
  <1>4. CASE ~(cp < 128) /\ ~(cp < 2048) /\ ~(cp < 65536)
    <2> DEFINE a == 240 + cp \div 262144
               b == Cont(cp \div 4096)
               c == Cont(cp \div 64)
    <2>1. Utf8(cp) = <<a, b, c, Cont(cp)>>
      BY <1>4, SMT DEF Utf8
    <2>2. a \in Byte /\ b \in Byte /\ c \in Byte /\ Cont(cp) \in Byte
      BY Utf8Bytes
    <2> HIDE DEF a, b, c
    <2>3. Utf8(cp) \in Seq(Byte) /\ Len(Utf8(cp)) = 4
      BY <2>1, <2>2, FourBytes
    <2>. QED
      BY <1>4, <2>3
  <1>. QED
    BY <1>1, <1>2, <1>3, <1>4
-----------------------------------------------------------------------------
(* Two halves make a character.                                             *)
LEMMA PairedIs ==
  ASSUME NEW l \in Leads, NEW t \in Trails
  PROVE  IsPoint(Paired(l, t)) /\ Paired(l, t) >= 65536
  <1>1. /\ l \in Int /\ 55296 <= l /\ l <= 56319
        /\ t \in Int /\ 56320 <= t /\ t <= 57343
    BY SMT DEF Leads, Trails
  <1>2. /\ Paired(l, t) = (l - 55296) * 1024 + (t - 56320) + 65536
    BY DEF Paired
  <1>. QED
    BY <1>1, <1>2, SMT DEF IsPoint

LEMMA CodeIsPoint == ASSUME NEW n, IsCode(n) PROVE IsPoint(n)
  BY SMT DEF IsCode, IsPoint

LEMMA TookIs ==
  ASSUME NEW k, NEW out
  PROVE  Took(k, out).len = k /\ Took(k, out).out = out /\ (k # 0 => Took(k, out) # Nothing)
  BY DEF Took, Nothing

(* A turn takes some of the text, its NUL never, and no less than it makes   *)
(* of it.                                                                  *)
Takes(s, t) ==
  \E k \in 1..(Len(s) - 1), out \in Seq(Byte) : Len(out) <= k /\ t = Took(k, out)

LEMMA EscapeGoesOn ==
  ASSUME NEW s \in Terminated, Head(s) = Backslash
  PROVE  2 \in 1..Len(s) /\ (s[2] # Nul => 3 \in 1..Len(s))
  <1>1. Len(s) \in Nat \ {0} /\ Head(s) = s[1]
    BY TerminatedIs
  <1>2. 1 \in 1..Len(s) /\ s[1] # Nul
    BY <1>1 DEF Backslash, Nul
  <1>3. 1 + 1 \in 1..Len(s)
    BY <1>2, NotTheEnd
  <1>4. 2 \in 1..Len(s)
    BY <1>3
  <1>5. s[2] # Nul => 2 + 1 \in 1..Len(s)
    BY <1>4, NotTheEnd
  <1>. QED
    BY <1>4, <1>5

LEMMA TakenIs ==
  ASSUME NEW s \in Terminated, NEW k \in Nat \ {0}, k + 1 \in 1..Len(s),
         NEW out \in Seq(Byte), Len(out) <= k
  PROVE  Takes(s, Took(k, out))
  <1> DEFINE n == Len(s)
  <1>1. n \in Nat \ {0} /\ k + 1 \in 1..n
    BY TerminatedIs
  <1> HIDE DEF n
  <1>2. k \in 1..(n - 1)
    BY <1>1
  <1>. QED
    BY <1>2 DEF Takes, n

LEMMA Utf16Takes ==
  ASSUME NEW s \in Terminated, Head(s) = Backslash, s[2] = LetterU
  PROVE  parse_utf16(s) = Nothing \/ Takes(s, parse_utf16(s))
  <1> DEFINE cp == parse_utf16_hex(s, 2)
             trail == parse_utf16_hex(s, 8)
  <1>1. 2 + 1 \in 1..Len(s) /\ 2 \in Nat
    <2>1. s[2] # Nul
      BY DEF LetterU, Nul
    <2>. QED
      BY <2>1, EscapeGoesOn
  <1>2. /\ cp # -1 => IsCode(cp) /\ 2 + 5 \in 1..Len(s)
    BY <1>1, CodeIs, CodeEnds
  <1>3. parse_utf16(s) =
          IF cp = -1 \/ cp \in Trails THEN Nothing
          ELSE IF cp \notin Leads THEN Took(6, Utf8(cp))
          ELSE IF s[7] = Backslash /\ s[8] = LetterU /\ trail \in Trails
            THEN Took(12, Utf8(Paired(cp, trail)))
          ELSE Nothing
    BY DEF parse_utf16
  <1> HIDE DEF cp
  <1>4. CASE cp # -1 /\ cp \notin Leads \cup Trails
    <2>1. parse_utf16(s) = Took(6, Utf8(cp))
      BY <1>3, <1>4
    <2>2. Utf8(cp) \in Seq(Byte) /\ Len(Utf8(cp)) <= 6
      <3> DEFINE m == Len(Utf8(cp))
      <3>1. Utf8(cp) \in Seq(Byte) /\ m \in 1..4
        BY <1>2, <1>4, CodeIsPoint, Utf8Is
      <3> HIDE DEF m
      <3>2. m <= 6
        BY <3>1
      <3>. QED
        BY <3>1, <3>2 DEF m
    <2>3. 6 \in Nat \ {0} /\ 6 + 1 \in 1..Len(s)
      BY <1>2, <1>4
    <2>. QED
      BY <2>1, <2>2, <2>3, TakenIs
  <1>5. CASE cp # -1 /\ cp \in Leads /\ s[7] = Backslash /\ s[8] = LetterU /\ trail \in Trails
    <2>1. parse_utf16(s) = Nothing \/ parse_utf16(s) = Took(12, Utf8(Paired(cp, trail)))
      BY <1>3, <1>5
    <2>2. Utf8(Paired(cp, trail)) \in Seq(Byte) /\ Len(Utf8(Paired(cp, trail))) <= 12
      <3> DEFINE c == Paired(cp, trail)
      <3>1. IsPoint(c)
        BY <1>5, PairedIs
      <3> DEFINE m == Len(Utf8(c))
      <3> HIDE DEF c
      <3>2. Utf8(c) \in Seq(Byte) /\ m \in 1..4
        BY <3>1, Utf8Is
      <3> HIDE DEF m
      <3>3. m <= 12
        BY <3>2
      <3>. QED
        BY <3>2, <3>3 DEF c, m
    <2>3. 7 \in 1..Len(s) /\ s[7] # Nul /\ s[8] # Nul /\ trail # -1
      <3>1. 2 + 5 \in 1..Len(s) /\ 2 + 5 = 7
        BY <1>2, <1>5
      <3>2. s[7] # Nul /\ s[8] # Nul
        BY <1>5 DEF Backslash, LetterU, Nul
      <3>3. trail # -1
        <4> HIDE DEF trail
        <4>. QED
          BY <1>5, SMT DEF Trails
      <3>. QED
        BY <3>1, <3>2, <3>3
    <2>4. 7 + 1 \in 1..Len(s)
      BY <2>3, NotTheEnd
    <2>5. 8 + 1 \in 1..Len(s)
      <3>1. 8 \in 1..Len(s)
        BY <2>4
      <3>. QED
        BY <2>3, <3>1, NotTheEnd
    <2>6. 8 + 5 \in 1..Len(s)
      BY <2>3, <2>5, CodeEnds
    <2>7. 12 \in Nat \ {0} /\ 12 + 1 \in 1..Len(s)
      BY <2>6
    <2>. QED
      BY <2>1, <2>2, <2>7, TakenIs
  <1>. QED
    BY <1>3, <1>4, <1>5

LEMMA MeantIs ==
  ASSUME NEW c \in Simple
  PROVE  Meant(c) \in Byte /\ c \in Byte /\ c # Nul
  BY DEF Simple, Meant, Byte, Nul, Quote, Backslash, Slash

LEMMA TurnTakes ==
  ASSUME NEW s \in Terminated, Head(s) # Nul
  PROVE  Turn(s) = Nothing \/ Takes(s, Turn(s))
  <1>1. Len(s) \in Nat \ {0} /\ Head(s) = s[1] /\ Head(s) \in Byte
    BY TerminatedIs
  <1>2. 1 + 1 \in 1..Len(s)
    BY <1>1, NotTheEnd
  <1>3. CASE Head(s) # Backslash /\ ~(Head(s) < 32)
    <2>1. Turn(s) = Took(1, <<Head(s)>>)
      BY <1>3 DEF Turn
    <2>2. <<Head(s)>> \in Seq(Byte) /\ Len(<<Head(s)>>) = 1
      BY <1>1, OneByte
    <2>3. Len(<<Head(s)>>) <= 1 /\ 1 \in Nat \ {0}
      BY <2>2
    <2>. QED
      BY <1>2, <2>1, <2>2, <2>3, TakenIs
  <1>4. CASE Head(s) = Backslash /\ s[2] \in Simple
    <2> DEFINE o == <<Meant(s[2])>>
    <2>1. Turn(s) = Took(2, o)
      BY <1>4 DEF Turn
    <2>2. o \in Seq(Byte) /\ Len(o) = 1
      BY <1>4, MeantIs, OneByte
    <2>3. 3 \in 1..Len(s)
      BY <1>4, MeantIs, EscapeGoesOn
    <2> HIDE DEF o
    <2>4. 2 \in Nat \ {0} /\ Len(o) <= 2 /\ 2 + 1 \in 1..Len(s)
      BY <2>2, <2>3
    <2>. QED
      BY <2>1, <2>2, <2>4, TakenIs
  <1>5. CASE Head(s) = Backslash /\ s[2] \notin Simple /\ s[2] = LetterU
    <2>1. Turn(s) = parse_utf16(s)
      BY <1>5 DEF Turn
    <2>. QED
      BY <1>5, <2>1, Utf16Takes
  <1>6. ASSUME ~(Head(s) # Backslash /\ ~(Head(s) < 32)),
               ~(Head(s) = Backslash /\ s[2] \in Simple),
               ~(Head(s) = Backslash /\ s[2] \notin Simple /\ s[2] = LetterU)
        PROVE  Turn(s) = Nothing
    BY <1>6 DEF Turn
  <1>. QED
    BY <1>3, <1>4, <1>5, <1>6
-----------------------------------------------------------------------------
(* One step of the reader, g for the rest, with n bytes to go.              *)
ProcessTurn(g, s) ==
  [n \in Int |->
      IF Head(s) = Nul \/ n <= 0 THEN Passed(<<>>)
      ELSE LET t == Turn(s)
           IN  IF t = Nothing THEN Failed
               ELSE Onto(t.out, g[From(s, t.len + 1)][n - t.len])]

Outcome == {Failed} \cup {Passed(out) : out \in Seq(Byte)}
Outcomes == [Int -> Outcome]

LEMMA OutcomeIs ==
  ASSUME NEW out \in Seq(Byte), NEW r \in Outcome
  PROVE  /\ Passed(out) \in Outcome /\ Failed \in Outcome /\ Passed(<<>>) \in Outcome
         /\ Onto(out, r) \in Outcome
  <1>1. <<>> \in Seq(Byte)
    BY EmptySeq
  <1>2. ASSUME NEW o \in Seq(Byte) PROVE Passed(o) \in Outcome
    BY DEF Outcome
  <1>3. Failed \in Outcome
    BY DEF Outcome
  <1>4. ASSUME r = Failed PROVE Onto(out, r) \in Outcome
    BY <1>3, <1>4 DEF Onto, Failed
  <1>5. ASSUME NEW o \in Seq(Byte), r = Passed(o) PROVE Onto(out, r) \in Outcome
    <2>1. out \o o \in Seq(Byte)
      BY ConcatProperties
    <2>2. Onto(out, r) = Passed(out \o o)
      BY <1>5 DEF Onto, Passed
    <2>. QED
      BY <1>2, <2>1, <2>2
  <1>6. r = Failed \/ \E o \in Seq(Byte) : r = Passed(o)
    BY DEF Outcome
  <1>7. Onto(out, r) \in Outcome
    BY <1>4, <1>5, <1>6
  <1>. QED
    BY <1>1, <1>2, <1>3, <1>7

LEMMA ProcessGoesOn ==
  ASSUME NEW s \in Terminated, Head(s) # Nul, Turn(s) # Nothing
  PROVE  /\ Turn(s).out \in Seq(Byte) /\ Turn(s).len \in Nat
         /\ From(s, Turn(s).len + 1) \in Shorter(s)
  <1>1. PICK k \in 1..(Len(s) - 1), out \in Seq(Byte) : Turn(s) = Took(k, out)
    BY TurnTakes DEF Takes
  <1>2. Turn(s).out = out /\ Turn(s).len = k
    BY <1>1, TookIs
  <1>3. From(s, k + 1) \in Shorter(s)
    BY Behind
  <1>4. k \in Nat
    OBVIOUS
  <1>. QED
    BY <1>2, <1>3, <1>4

LEMMA ProcessSame ==
  ASSUME NEW g, NEW h, NEW s \in Terminated, \A r \in Shorter(s) : g[r] = h[r]
  PROVE  ProcessTurn(g, s) = ProcessTurn(h, s)
  <1>1. CASE Head(s) = Nul
    BY <1>1 DEF ProcessTurn
  <1>2. CASE Turn(s) = Nothing
    BY <1>2 DEF ProcessTurn
  <1>3. CASE Head(s) # Nul /\ Turn(s) # Nothing
    <2>1. From(s, Turn(s).len + 1) \in Shorter(s)
      BY <1>3, ProcessGoesOn
    <2>2. g[From(s, Turn(s).len + 1)] = h[From(s, Turn(s).len + 1)]
      BY <2>1
    <2>. QED
      BY <2>2 DEF ProcessTurn
  <1>. QED
    BY <1>1, <1>2, <1>3

LEMMA ProcessTyped ==
  ASSUME NEW g, NEW s \in Terminated, \A r \in Shorter(s) : g[r] \in Outcomes
  PROVE  ProcessTurn(g, s) \in Outcomes
  <1>1. ASSUME NEW n \in Int PROVE ProcessTurn(g, s)[n] \in Outcome
    <2>1. Passed(<<>>) \in Outcome /\ Failed \in Outcome
      <3>1. <<>> \in Seq(Byte)
        BY EmptySeq
      <3>. QED
        BY <3>1 DEF Outcome
    <2>2. CASE Head(s) = Nul \/ n <= 0
      <3>1. ProcessTurn(g, s)[n] = Passed(<<>>)
        BY <2>2 DEF ProcessTurn
      <3>. QED
        BY <2>1, <3>1
    <2>3. CASE ~(Head(s) = Nul \/ n <= 0) /\ Turn(s) = Nothing
      <3>1. ProcessTurn(g, s)[n] = Failed
        BY <2>3 DEF ProcessTurn
      <3>. QED
        BY <2>1, <3>1
    <2>4. CASE ~(Head(s) = Nul \/ n <= 0) /\ Turn(s) # Nothing
      <3> DEFINE t == Turn(s)
                 r == From(s, t.len + 1)
      <3>1. t.out \in Seq(Byte) /\ t.len \in Nat /\ r \in Shorter(s)
        BY <2>4, ProcessGoesOn
      <3>2. ProcessTurn(g, s)[n] = Onto(t.out, g[r][n - t.len])
        BY <2>4 DEF ProcessTurn
      <3> HIDE DEF t, r
      <3>3. n - t.len \in Int /\ g[r] \in Outcomes
        BY <3>1
      <3>4. g[r][n - t.len] \in Outcome
        BY <3>3 DEF Outcomes
      <3>. QED
        BY <3>1, <3>2, <3>4, OutcomeIs
    <2>. QED
      BY <2>2, <2>3, <2>4
  <1>2. ProcessTurn(g, s) = [n \in Int |-> ProcessTurn(g, s)[n]]
    BY DEF ProcessTurn
  <1> HIDE DEF ProcessTurn
  <1>. QED
    BY <1>1, <1>2 DEF Outcomes

LEMMA ProcessIs ==
  /\ process_string \in [Terminated -> Outcomes]
  /\ \A s \in Terminated : process_string[s] = ProcessTurn(process_string, s)
  <1> DEFINE Body(g) == [s \in Terminated |-> ProcessTurn(g, s)]
             D == [g \in [Terminated -> Outcomes] |-> Body(g)]
  <1>1. \A g \in [Terminated -> Outcomes] : Body(g) \in [Terminated -> Outcomes]
    BY ProcessTyped DEF Shorter
  <1>2. PICK f \in [Terminated -> Outcomes] : f = D[f]
    <2>1. D \in [[Terminated -> Outcomes] -> [Terminated -> Outcomes]]
      BY <1>1
    <2>2. ASSUME NEW g \in [Terminated -> Outcomes], NEW h \in [Terminated -> Outcomes],
                 NEW s \in Terminated, \A r \in Shorter(s) : g[r] = h[r]
          PROVE  D[g][s] = D[h][s]
      BY <2>2, ProcessSame
    <2>3. Outcomes # {}
      <3>1. <<>> \in Seq(Byte)
        BY EmptySeq
      <3>2. Passed(<<>>) \in Outcome
        BY <3>1 DEF Outcome
      <3>3. [n \in Int |-> Passed(<<>>)] \in Outcomes
        BY <3>2 DEF Outcomes
      <3>. QED
        BY <3>3
    <2> HIDE DEF D
    <2>. QED
      BY <2>1, <2>2, <2>3, ShorterFirst
  <1>3. f = Body(f)
    BY <1>2
  <1>4. process_string = CHOOSE g : g = Body(g)
    BY DEF process_string, ProcessTurn
  <1>5. process_string = Body(process_string)
    <2> HIDE DEF Body
    <2>. QED
      BY <1>3, <1>4
  <1>6. \A s \in Terminated : process_string[s] = ProcessTurn(process_string, s)
    BY <1>5
  <1> DEFINE G == {s \in Terminated : process_string[s] \in Outcomes}
  <1>7. Terminated \subseteq G
    <2>1. ASSUME NEW s \in Terminated, Shorter(s) \subseteq G PROVE s \in G
      BY <1>6, <2>1, ProcessTyped
    <2> HIDE DEF G
    <2>. QED
      BY <2>1, ShorterInduction
  <1>8. process_string \in [Terminated -> Outcomes]
    <2>1. \A s \in Terminated : process_string[s] \in Outcomes
      BY <1>7
    <2>. QED
      BY <1>5, <2>1
  <1>. QED
    BY <1>6, <1>8
-----------------------------------------------------------------------------
(* The reader makes out of b, whatever follows; or fails on it.             *)
Reads(b, out) ==
  \A q \in Terminated, n \in Nat :
      process_string[b \o q][Len(b) + n] = Onto(out, process_string[q][n])

Fails(b) ==
  \A q \in Terminated, n \in Nat : process_string[b \o q][Len(b) + n] = Failed

LEMMA ReadIs ==
  ASSUME NEW s \in Terminated, NEW n \in Int
  PROVE  /\ process_string[s][n] \in Outcome
         /\ n <= 0 => process_string[s][n] = Passed(<<>>)
         /\ (Head(s) # Nul /\ n > 0 /\ Turn(s) = Nothing) => process_string[s][n] = Failed
         /\ \A k \in Nat : \A out : (Head(s) # Nul /\ n > 0 /\ k # 0 /\ Turn(s) = Took(k, out)) =>
               process_string[s][n] = Onto(out, process_string[From(s, k + 1)][n - k])
  <1>1. process_string[s] \in Outcomes /\ process_string[s] = ProcessTurn(process_string, s)
    BY ProcessIs
  <1>2. process_string[s][n] \in Outcome
    BY <1>1 DEF Outcomes
  <1>3. ProcessTurn(process_string, s)[n] =
           IF Head(s) = Nul \/ n <= 0 THEN Passed(<<>>)
           ELSE LET t == Turn(s)
                IN  IF t = Nothing THEN Failed
                    ELSE Onto(t.out, process_string[From(s, t.len + 1)][n - t.len])
    BY DEF ProcessTurn
  <1>4. n <= 0 => process_string[s][n] = Passed(<<>>)
    BY <1>1, <1>3
  <1>5. ASSUME Head(s) # Nul, n > 0, Turn(s) = Nothing PROVE process_string[s][n] = Failed
    BY <1>1, <1>3, <1>5
  <1>6. ASSUME NEW k \in Nat, NEW out, Head(s) # Nul, n > 0, k # 0, Turn(s) = Took(k, out)
        PROVE  process_string[s][n] = Onto(out, process_string[From(s, k + 1)][n - k])
    <2>1. Turn(s) # Nothing /\ Turn(s).len = k /\ Turn(s).out = out
      BY <1>6, TookIs
    <2>. QED
      BY <1>1, <1>3, <1>6, <2>1
  <1>. QED
    BY <1>2, <1>4, <1>5, <1>6

LEMMA OntoTwice ==
  ASSUME NEW o \in Seq(Byte), NEW u \in Seq(Byte), NEW r \in Outcome
  PROVE  /\ Onto(o, Onto(u, r)) = Onto(o \o u, r) /\ Onto(<<>>, r) = r
         /\ Onto(o, Failed) = Failed /\ Onto(o, Passed(<<>>)) = Passed(o)
  <1>1. Onto(o, Failed) = Failed
    BY DEF Onto, Failed
  <1>2. Onto(o, Passed(<<>>)) = Passed(o)
    <2>1. o \o <<>> = o
      BY ConcatEmptySeq
    <2>. QED
      BY <2>1 DEF Onto, Passed
  <1>3. ASSUME r = Failed
        PROVE  Onto(o, Onto(u, r)) = Onto(o \o u, r) /\ Onto(<<>>, r) = r
    BY <1>3 DEF Onto, Failed
  <1>4. ASSUME NEW x \in Seq(Byte), r = Passed(x)
        PROVE  Onto(o, Onto(u, r)) = Onto(o \o u, r) /\ Onto(<<>>, r) = r
    <2>1. (o \o u) \o x = o \o (u \o x) /\ <<>> \o x = x
      BY ConcatAssociative, ConcatEmptySeq
    <2>2. Onto(u, r) = Passed(u \o x) /\ Onto(<<>>, r) = Passed(<<>> \o x)
      BY <1>4 DEF Onto, Passed
    <2>3. Onto(o, Onto(u, r)) = Passed(o \o (u \o x)) /\ Onto(o \o u, r) = Passed((o \o u) \o x)
      BY <1>4, <2>2 DEF Onto, Passed
    <2>. QED
      BY <1>4, <2>1, <2>2, <2>3
  <1>5. r = Failed \/ \E x \in Seq(Byte) : r = Passed(x)
    BY DEF Outcome
  <1>6. Onto(o, Onto(u, r)) = Onto(o \o u, r) /\ Onto(<<>>, r) = r
    BY <1>3, <1>4, <1>5
  <1>. QED
    BY <1>1, <1>2, <1>6

LEMMA ReadsNone == Reads(<<>>, <<>>)
  <1>1. ASSUME NEW q \in Terminated, NEW n \in Nat
        PROVE  process_string[<<>> \o q][Len(<<>>) + n] = Onto(<<>>, process_string[q][n])
    <2>1. Len(<<>>) = 0 /\ 0 + n = n
      BY EmptySeq
    <2>2. <<>> \o q = q
      BY TerminatedIs, ConcatEmptySeq
    <2>3. process_string[q][n] \in Outcome
      BY ReadIs
    <2>4. <<>> \in Seq(Byte)
      BY EmptySeq
    <2>. QED
      BY <2>1, <2>2, <2>3, <2>4, OntoTwice
  <1>. QED
    BY <1>1 DEF Reads

LEMMA BothInFront ==
  ASSUME NEW b \in Seq(Byte), NEW d \in Seq(Byte), NEW q \in Terminated, NEW n \in Nat
  PROVE  /\ d \o q \in Terminated /\ (b \o d) \o q = b \o (d \o q)
         /\ Len(b \o d) + n = Len(b) + (Len(d) + n) /\ Len(d) + n \in Nat /\ Len(d) \in Nat
  <1>1. q \in Seq(Byte) /\ d \o q \in Terminated
    BY InFront, TerminatedIs
  <1>2. (b \o d) \o q = b \o (d \o q)
    BY <1>1, ConcatAssociative
  <1>3. Len(b \o d) = Len(b) + Len(d)
    BY ConcatProperties
  <1>4. Len(b) \in Nat /\ Len(d) \in Nat
    BY LenProperties
  <1>5. (Len(b) + Len(d)) + n = Len(b) + (Len(d) + n) /\ Len(d) + n \in Nat
    BY <1>4
  <1>. QED
    BY <1>1, <1>2, <1>3, <1>4, <1>5

LEMMA ReadsBoth ==
  ASSUME NEW b \in Seq(Byte), NEW d \in Seq(Byte), NEW o \in Seq(Byte), NEW u \in Seq(Byte),
         Reads(b, o), Reads(d, u)
  PROVE  Reads(b \o d, o \o u)
  <1>1. ASSUME NEW q \in Terminated, NEW n \in Nat
        PROVE  process_string[(b \o d) \o q][Len(b \o d) + n] = Onto(o \o u, process_string[q][n])
    <2>1. /\ d \o q \in Terminated /\ (b \o d) \o q = b \o (d \o q)
          /\ Len(b \o d) + n = Len(b) + (Len(d) + n) /\ Len(d) + n \in Nat /\ Len(d) \in Nat
      BY BothInFront
    <2>2. process_string[b \o (d \o q)][Len(b) + (Len(d) + n)]
            = Onto(o, process_string[d \o q][Len(d) + n])
      BY <2>1 DEF Reads
    <2>3. process_string[d \o q][Len(d) + n] = Onto(u, process_string[q][n])
      BY DEF Reads
    <2>4. process_string[q][n] \in Outcome
      BY ReadIs
    <2>5. Onto(o, Onto(u, process_string[q][n])) = Onto(o \o u, process_string[q][n])
      BY <2>4, OntoTwice
    <2>. QED
      BY <2>1, <2>2, <2>3, <2>5
  <1>. QED
    BY <1>1 DEF Reads

LEMMA FailsBehind ==
  ASSUME NEW b \in Seq(Byte), NEW d \in Seq(Byte), NEW o \in Seq(Byte), Reads(b, o), Fails(d)
  PROVE  Fails(b \o d)
  <1>1. ASSUME NEW q \in Terminated, NEW n \in Nat
        PROVE  process_string[(b \o d) \o q][Len(b \o d) + n] = Failed
    <2>1. /\ d \o q \in Terminated /\ (b \o d) \o q = b \o (d \o q)
          /\ Len(b \o d) + n = Len(b) + (Len(d) + n) /\ Len(d) + n \in Nat /\ Len(d) \in Nat
      BY BothInFront
    <2>2. process_string[b \o (d \o q)][Len(b) + (Len(d) + n)]
            = Onto(o, process_string[d \o q][Len(d) + n])
      BY <2>1 DEF Reads
    <2>3. process_string[d \o q][Len(d) + n] = Failed
      BY DEF Fails
    <2>4. Onto(o, Failed) = Failed
      BY DEF Onto, Failed
    <2>. QED
      BY <2>1, <2>2, <2>3, <2>4
  <1>. QED
    BY <1>1 DEF Fails

LEMMA FailsFirst ==
  ASSUME NEW b \in Seq(Byte), NEW d \in Seq(Byte), Fails(b)
  PROVE  Fails(b \o d)
  <1>1. ASSUME NEW q \in Terminated, NEW n \in Nat
        PROVE  process_string[(b \o d) \o q][Len(b \o d) + n] = Failed
    <2>1. /\ d \o q \in Terminated /\ (b \o d) \o q = b \o (d \o q)
          /\ Len(b \o d) + n = Len(b) + (Len(d) + n) /\ Len(d) + n \in Nat /\ Len(d) \in Nat
      BY BothInFront
    <2>2. process_string[b \o (d \o q)][Len(b) + (Len(d) + n)] = Failed
      BY <2>1 DEF Fails
    <2>. QED
      BY <2>1, <2>2
  <1>. QED
    BY <1>1 DEF Fails

(* What one turn makes of it.                                              *)
LEMMA ReadsTurn ==
  ASSUME NEW b \in Seq(Byte), NEW out \in Seq(Byte), Len(b) # 0,
         \A q \in Terminated : Head(b \o q) # Nul /\ Turn(b \o q) = Took(Len(b), out)
  PROVE  Reads(b, out)
  <1>1. ASSUME NEW q \in Terminated, NEW n \in Nat
        PROVE  process_string[b \o q][Len(b) + n] = Onto(out, process_string[q][n])
    <2>1. b \o q \in Terminated /\ From(b \o q, Len(b) + 1) = q /\ Len(b) \in Nat
      BY InFront
    <2>2. Len(b) + n \in Int /\ Len(b) + n > 0 /\ (Len(b) + n) - Len(b) = n
      BY <2>1
    <2>3. process_string[b \o q][Len(b) + n]
            = Onto(out, process_string[From(b \o q, Len(b) + 1)][(Len(b) + n) - Len(b)])
      BY <2>1, <2>2, ReadIs
    <2>. QED
      BY <2>1, <2>2, <2>3
  <1>. QED
    BY <1>1 DEF Reads

LEMMA FailsTurn ==
  ASSUME NEW b \in Seq(Byte), Len(b) # 0,
         \A q \in Terminated : Head(b \o q) # Nul /\ Turn(b \o q) = Nothing
  PROVE  Fails(b)
  <1>1. ASSUME NEW q \in Terminated, NEW n \in Nat
        PROVE  process_string[b \o q][Len(b) + n] = Failed
    <2>1. b \o q \in Terminated /\ Len(b) \in Nat
      BY InFront
    <2>2. Len(b) + n \in Int /\ Len(b) + n > 0
      BY <2>1
    <2>. QED
      BY <2>1, <2>2, ReadIs
  <1>. QED
    BY <1>1 DEF Fails
-----------------------------------------------------------------------------
(* The pieces of a string: plain bytes and escapes ...                      *)
LEMMA ByteReads ==
  ASSUME NEW c \in Byte, c >= 32, c # Backslash
  PROVE  Reads(<<c>>, <<c>>)
  <1> DEFINE b == <<c>>
  <1>1. b \in Seq(Byte) /\ Len(b) = 1
    BY OneByte
  <1>2. ASSUME NEW q \in Terminated PROVE Head(b \o q) # Nul /\ Turn(b \o q) = Took(Len(b), b)
    <2>1. Head(b \o q) = c
      BY ByteInFront
    <2>2. c # Nul /\ ~(c < 32)
      BY DEF Nul, Byte
    <2>3. Turn(b \o q) = Took(1, <<Head(b \o q)>>)
      BY <2>1, <2>2 DEF Turn
    <2>. QED
      BY <1>1, <2>1, <2>2, <2>3
  <1> HIDE DEF b
  <1>3. Len(b) # 0
    BY <1>1
  <1>4. Reads(b, b)
    BY <1>1, <1>2, <1>3, ReadsTurn
  <1>. QED
    BY <1>4 DEF b

LEMMA EscapeReads ==
  ASSUME NEW c \in Simple
  PROVE  Reads(<<Backslash, c>>, <<Meant(c)>>)
  <1> DEFINE b == <<Backslash, c>>
             o == <<Meant(c)>>
  <1>1. Backslash \in Byte /\ c \in Byte /\ c # Nul
    BY MeantIs DEF Backslash, Byte
  <1>2. b \in Seq(Byte) /\ Len(b) = 2
    BY <1>1, TwoBytes
  <1>3. o \in Seq(Byte)
    BY MeantIs, OneByte
  <1>4. ASSUME NEW q \in Terminated PROVE Head(b \o q) # Nul /\ Turn(b \o q) = Took(Len(b), o)
    <2>1. Head(b \o q) = Backslash /\ (b \o q)[2] = c
      BY <1>1, TwoInFront
    <2>2. Turn(b \o q) = Took(2, <<Meant((b \o q)[2])>>)
      BY <2>1 DEF Turn
    <2>3. Backslash # Nul
      BY DEF Backslash, Nul
    <2>. QED
      BY <1>2, <2>1, <2>2, <2>3
  <1> HIDE DEF b, o
  <1>5. Len(b) # 0
    BY <1>2
  <1>6. Reads(b, o)
    BY <1>2, <1>3, <1>4, <1>5, ReadsTurn
  <1>. QED
    BY <1>6 DEF b, o

LEMMA ControlFails ==
  ASSUME NEW c \in 1..31
  PROVE  Fails(<<c>>)
  <1> DEFINE b == <<c>>
  <1>1. c \in Byte /\ c # Nul /\ c # Backslash /\ c < 32
    BY DEF Byte, Nul, Backslash
  <1>2. b \in Seq(Byte) /\ Len(b) = 1
    BY <1>1, OneByte
  <1>3. ASSUME NEW q \in Terminated PROVE Head(b \o q) # Nul /\ Turn(b \o q) = Nothing
    <2>1. Head(b \o q) = c
      BY <1>1, ByteInFront
    <2>. QED
      BY <1>1, <2>1 DEF Turn
  <1> HIDE DEF b
  <1>4. Len(b) # 0
    BY <1>2
  <1>5. Fails(b)
    BY <1>2, <1>3, <1>4, FailsTurn
  <1>. QED
    BY <1>5 DEF b

LEMMA UnknownFails ==
  ASSUME NEW c \in Byte, c \notin Simple \cup {Nul, LetterU}
  PROVE  Fails(<<Backslash, c>>)
  <1> DEFINE b == <<Backslash, c>>
  <1>1. Backslash \in Byte /\ Backslash # Nul
    BY DEF Backslash, Byte, Nul
  <1>2. b \in Seq(Byte) /\ Len(b) = 2
    BY <1>1, TwoBytes
  <1>3. ASSUME NEW q \in Terminated PROVE Head(b \o q) # Nul /\ Turn(b \o q) = Nothing
    <2>1. Head(b \o q) = Backslash /\ (b \o q)[2] = c
      BY <1>1, TwoInFront
    <2>. QED
      BY <1>1, <2>1 DEF Turn
  <1> HIDE DEF b
  <1>4. Len(b) # 0
    BY <1>2
  <1>5. Fails(b)
    BY <1>2, <1>3, <1>4, FailsTurn
  <1>. QED
    BY <1>5 DEF b

(* ... however many plain bytes ...                                         *)
LEMMA PlainReads ==
  ASSUME NEW b \in Seq(Byte), \A i \in 1..Len(b) : b[i] >= 32 /\ b[i] # Backslash
  PROVE  Reads(b, b)
  <1> DEFINE IsPlain(d) == \A i \in 1..Len(d) : d[i] >= 32 /\ d[i] # Backslash
             G == {n \in Nat : \A d \in Seq(Byte) : Len(d) = n /\ IsPlain(d) => Reads(d, d)}
  <1>1. 0 \in G
    <2>1. ASSUME NEW d \in Seq(Byte), Len(d) = 0 PROVE Reads(d, d)
      <3>1. d = <<>>
        BY <2>1, EmptySeq
      <3>. QED
        BY <3>1, ReadsNone
    <2>. QED
      BY <2>1
  <1>2. ASSUME NEW n \in Nat, n \in G PROVE n + 1 \in G
    <2>1. ASSUME NEW d \in Seq(Byte), Len(d) = n + 1, IsPlain(d) PROVE Reads(d, d)
      <3>1. d # <<>>
        BY <2>1, EmptySeq
      <3>2. /\ d = <<Head(d)>> \o Tail(d) /\ Head(d) \in Byte /\ Tail(d) \in Seq(Byte)
        BY <3>1, HeadAndTail
      <3>3. Len(Tail(d)) = Len(d) - 1 /\ \A i \in 1..Len(Tail(d)) : Tail(d)[i] = d[i + 1]
        BY <3>1, HeadTailProperties
      <3>4. Head(d) = d[1] /\ 1 \in 1..Len(d)
        BY <2>1, <3>1
      <3>5. Reads(<<Head(d)>>, <<Head(d)>>)
        BY <2>1, <3>2, <3>4, ByteReads
      <3>6. Len(Tail(d)) = n
        BY <2>1, <3>3
      <3>7. ASSUME NEW i \in 1..Len(Tail(d)) PROVE Tail(d)[i] >= 32 /\ Tail(d)[i] # Backslash
        <4>1. i + 1 \in 1..Len(d)
          BY <2>1, <3>6
        <4>. QED
          BY <2>1, <3>3, <4>1
      <3>8. Reads(Tail(d), Tail(d))
        BY <1>2, <3>2, <3>6, <3>7
      <3>9. <<Head(d)>> \in Seq(Byte)
        BY <3>2
      <3>10. Reads(<<Head(d)>> \o Tail(d), <<Head(d)>> \o Tail(d))
        BY <3>2, <3>5, <3>8, <3>9, ReadsBoth
      <3>. QED
        BY <3>2, <3>10, Zenon
    <2>. QED
      BY <2>1
  <1> HIDE DEF G
  <1>3. Nat \subseteq G
    BY <1>1, <1>2, SetInduction
  <1>4. Len(b) \in G
    BY <1>3, LenProperties
  <1>. QED
    BY <1>4 DEF G
-----------------------------------------------------------------------------
(* ... and codes.                                                          *)
LEMMA HexBehind ==
  ASSUME NEW b \in Seq(Byte), NEW r \in Terminated, NEW i \in Nat, i + 1 \in 1..Len(r)
  PROVE  parse_utf16_hex(b \o r, Len(b) + i) = parse_utf16_hex(r, i)
  <1> DEFINE s == b \o r
             m == Len(b)
             n == Len(r)
  <1>1. /\ s \in Terminated /\ Len(s) = m + n /\ m \in Nat
        /\ \A j \in 1..n : s[m + j] = r[j]
    BY InFront
  <1>2. n \in Nat \ {0}
    BY TerminatedIs
  <1>3. m + i \in Nat /\ (m + i) + 1 \in 1..(m + n)
    <2> HIDE DEF m, n, s
    <2>1. i + 1 \in 1..n
      BY DEF n
    <2>. QED
      BY <1>1, <1>2, <2>1
  <1>4. ASSUME parse_utf16_hex(r, i) # -1 \/ parse_utf16_hex(s, m + i) # -1
        PROVE  i + 5 \in 1..n
    <2>1. CASE parse_utf16_hex(r, i) # -1
      BY <2>1, CodeEnds
    <2>2. CASE parse_utf16_hex(s, m + i) # -1
      <3>1. (m + i) + 1 \in 1..Len(s)
        BY <1>1, <1>3
      <3>2. (m + i) + 5 \in 1..Len(s)
        BY <1>1, <1>3, <2>2, <3>1, CodeEnds
      <3> HIDE DEF m, n, s
      <3>3. (m + i) + 5 \in 1..(m + n)
        BY <1>1, <3>2
      <3>4. i + 5 \in 1..n
        BY <1>1, <1>2, <3>3
      <3>. QED
        BY <3>4
    <2>. QED
      BY <1>4, <2>1, <2>2
  <1>5. ASSUME i + 5 \in 1..n PROVE parse_utf16_hex(s, m + i) = parse_utf16_hex(r, i)
    <2>1. \A k \in 1..4 : s[(m + i) + k] = r[i + k]
      <3> HIDE DEF m, n, s
      <3>1. ASSUME NEW k \in 1..4 PROVE i + k \in 1..n /\ (m + i) + k = m + (i + k)
        BY <1>1, <1>2, <1>5
      <3>. QED
        BY <1>1, <3>1
    <2>2. 1 \in 1..4 /\ 2 \in 1..4 /\ 3 \in 1..4 /\ 4 \in 1..4
      OBVIOUS
    <2> HIDE DEF m, n, s
    <2>3. HexOf(s, m + i) = HexOf(r, i)
      BY <2>1, <2>2 DEF HexOf
    <2>4. CASE \A k \in 1..4 : r[i + k] \in HexDigits
      <3>1. \A k \in 1..4 : s[(m + i) + k] \in HexDigits
        BY <2>1, <2>4
      <3>2. parse_utf16_hex(s, m + i) = HexOf(s, m + i) /\ parse_utf16_hex(r, i) = HexOf(r, i)
        BY <1>3, <2>4, <3>1, CodeIs
      <3>. QED
        BY <2>3, <3>2
    <2>5. CASE \E k \in 1..4 : r[i + k] \notin HexDigits
      <3>1. \E k \in 1..4 : s[(m + i) + k] \notin HexDigits
        BY <2>1, <2>5
      <3>2. parse_utf16_hex(s, m + i) = -1 /\ parse_utf16_hex(r, i) = -1
        BY <1>3, <2>5, <3>1, CodeIs
      <3>. QED
        BY <3>2
    <2>. QED
      BY <2>4, <2>5
  <1>. QED
    BY <1>4, <1>5 DEF s, m

(* b is a code, and stands for c.                                           *)
IsCoded(b, c) ==
  /\ b \in Seq(Byte) /\ Len(b) = 6 /\ b[1] = Backslash /\ b[2] = LetterU
  /\ (\A k \in 1..4 : b[2 + k] \in HexDigits) /\ HexOf(b, 2) = c

LEMMA CodedFirst ==
  ASSUME NEW b, NEW c, IsCoded(b, c), NEW q \in Terminated
  PROVE  /\ b \o q \in Terminated /\ Head(b \o q) # Nul /\ IsCode(c)
         /\ (b \o q)[1] = Backslash /\ (b \o q)[2] = LetterU
         /\ Turn(b \o q) = parse_utf16(b \o q)
         /\ parse_utf16_hex(b \o q, 2) = c
         /\ (b \o q)[7] = q[1] /\ (2 \in 1..Len(q) => (b \o q)[8] = q[2])
         /\ 3 \in 1..Len(q) => parse_utf16_hex(b \o q, 8) = parse_utf16_hex(q, 2)
  <1> DEFINE s == b \o q
  <1>1. /\ b \in Seq(Byte) /\ Len(b) = 6 /\ b[1] = Backslash /\ b[2] = LetterU
        /\ (\A k \in 1..4 : b[2 + k] \in HexDigits) /\ HexOf(b, 2) = c
    BY DEF IsCoded
  <1>2. /\ s \in Terminated
        /\ \A i \in 1..Len(b) : s[i] = b[i]
        /\ \A i \in 1..Len(q) : s[Len(b) + i] = q[i]
    BY <1>1, InFront
  <1>3. Len(q) \in Nat \ {0}
    BY TerminatedIs
  <1> HIDE DEF s
  <1>4. /\ \A i \in 1..6 : s[i] = b[i]
        /\ \A i \in 1..Len(q) : s[6 + i] = q[i]
    BY <1>1, <1>2
  <1>5. s[1] = Backslash /\ s[2] = LetterU
    <2>1. 1 \in 1..6 /\ 2 \in 1..6
      OBVIOUS
    <2>. QED
      BY <1>1, <1>4, <2>1
  <1>6. Head(s) = Backslash /\ Head(s) # Nul
    <2>1. Head(s) = s[1]
      BY <1>2, TerminatedIs
    <2>. QED
      BY <1>5, <2>1 DEF Backslash, Nul
  <1>7. Turn(s) = parse_utf16(s)
    <2>1. LetterU \notin Simple
      BY DEF LetterU, Simple, Quote, Backslash, Slash
    <2>. QED
      BY <1>5, <1>6, <2>1 DEF Turn
  <1>8. \A k \in 1..4 : s[2 + k] = b[2 + k]
    <2>1. \A k \in 1..4 : 2 + k \in 1..6
      OBVIOUS
    <2>. QED
      BY <1>4, <2>1
  <1>9. parse_utf16_hex(s, 2) = c /\ IsCode(c)
    <2>1. \A k \in 1..4 : s[2 + k] \in HexDigits
      BY <1>1, <1>8
    <2>2. 1 \in 1..4 /\ 2 \in 1..4 /\ 3 \in 1..4 /\ 4 \in 1..4 /\ 2 \in Nat
      OBVIOUS
    <2>3. HexOf(s, 2) = HexOf(b, 2)
      BY <1>8, <2>2 DEF HexOf
    <2>4. parse_utf16_hex(s, 2) = HexOf(s, 2) /\ IsCode(HexOf(s, 2))
      BY <2>1, <2>2, CodeIs
    <2>. QED
      BY <1>1, <2>3, <2>4
  <1>10. s[7] = q[1] /\ (2 \in 1..Len(q) => s[8] = q[2])
    <2>1. 1 \in 1..Len(q) /\ 6 + 1 = 7 /\ 6 + 2 = 8
      BY <1>3
    <2>. QED
      BY <1>4, <2>1
  <1>11. ASSUME 3 \in 1..Len(q) PROVE parse_utf16_hex(s, 8) = parse_utf16_hex(q, 2)
    <2>1. 2 \in Nat /\ 2 + 1 \in 1..Len(q) /\ 6 + 2 = 8
      BY <1>11
    <2>2. parse_utf16_hex(b \o q, Len(b) + 2) = parse_utf16_hex(q, 2)
      BY <1>1, <2>1, HexBehind
    <2>. QED
      BY <1>1, <2>1, <2>2 DEF s
  <1>. QED
    BY <1>2, <1>5, <1>6, <1>7, <1>9, <1>10, <1>11 DEF s

(* A code that is no half stands for itself; a second half alone fails.      *)
LEMMA CodeReads ==
  ASSUME NEW b, NEW c, IsCoded(b, c)
  PROVE  /\ c \notin Leads \cup Trails => Reads(b, Utf8(c))
         /\ c \in Trails => Fails(b)
  <1>1. b \in Seq(Byte) /\ Len(b) = 6
    BY DEF IsCoded
  <1>2. Len(b) # 0
    BY <1>1
  <1>3. ASSUME NEW q \in Terminated
        PROVE  /\ Head(b \o q) # Nul /\ IsCode(c)
               /\ c \notin Leads \cup Trails => Turn(b \o q) = Took(Len(b), Utf8(c))
               /\ c \in Trails => Turn(b \o q) = Nothing
    <2> DEFINE s == b \o q
    <2>1. /\ Head(s) # Nul /\ IsCode(c) /\ Turn(s) = parse_utf16(s)
          /\ parse_utf16_hex(s, 2) = c
      <3>1. Head(s) # Nul /\ IsCode(c)
        BY CodedFirst
      <3>2. Turn(s) = parse_utf16(s)
        BY CodedFirst
      <3>3. parse_utf16_hex(s, 2) = c
        BY CodedFirst
      <3>. QED
        BY <3>1, <3>2, <3>3
    <2> HIDE DEF s
    <2>2. c # -1
      BY <2>1, SMT DEF IsCode
    <2>3. c \notin Leads \cup Trails => parse_utf16(s) = Took(6, Utf8(c))
      BY <2>1, <2>2 DEF parse_utf16
    <2>4. c \in Trails => parse_utf16(s) = Nothing
      BY <2>1, <2>2 DEF parse_utf16
    <2>. QED
      BY <1>1, <2>1, <2>3, <2>4 DEF s
  <1>4. ASSUME c \notin Leads \cup Trails PROVE Reads(b, Utf8(c))
    <2>1. IsCode(c)
      BY <1>3, ClosingEnds
    <2>2. Utf8(c) \in Seq(Byte)
      BY <2>1, CodeIsPoint, Utf8Is
    <2>. QED
      BY <1>1, <1>2, <1>3, <1>4, <2>2, ReadsTurn
  <1>5. ASSUME c \in Trails PROVE Fails(b)
    BY <1>1, <1>2, <1>3, <1>5, FailsTurn
  <1>. QED
    BY <1>4, <1>5

LEMMA HalvesDiffer == ASSUME NEW c \in Leads PROVE c \notin Trails
  <1>1. c \in Int /\ c <= 56319
    BY SMT DEF Leads
  <1>2. ASSUME c \in Trails PROVE 56320 <= c
    BY <1>2, SMT DEF Trails
  <1>. QED
    BY <1>1, <1>2, SMT

(* A second half follows at once.                                           *)
LowFirst(r) == r[1] = Backslash /\ r[2] = LetterU /\ parse_utf16_hex(r, 2) \in Trails

LEMMA HighTurn ==
  ASSUME NEW b, NEW c, IsCoded(b, c), c \in Leads, NEW q \in Terminated
  PROVE  Turn(b \o q) = IF LowFirst(q) THEN Took(12, Utf8(Paired(c, parse_utf16_hex(q, 2))))
                        ELSE Nothing
  <1> DEFINE s == b \o q
  <1>1. /\ IsCode(c) /\ Turn(s) = parse_utf16(s) /\ parse_utf16_hex(s, 2) = c
        /\ s[7] = q[1] /\ (2 \in 1..Len(q) => s[8] = q[2])
        /\ 3 \in 1..Len(q) => parse_utf16_hex(s, 8) = parse_utf16_hex(q, 2)
    <2>1. IsCode(c) /\ Turn(s) = parse_utf16(s)
      BY CodedFirst
    <2>2. parse_utf16_hex(s, 2) = c
      BY CodedFirst
    <2>3. s[7] = q[1] /\ (2 \in 1..Len(q) => s[8] = q[2])
      BY CodedFirst
    <2>4. 3 \in 1..Len(q) => parse_utf16_hex(s, 8) = parse_utf16_hex(q, 2)
      BY CodedFirst
    <2>. QED
      BY <2>1, <2>2, <2>3, <2>4
  <1> HIDE DEF s
  <1>2. c # -1 /\ c \notin Trails
    <2>1. c # -1
      BY <1>1, SMT DEF IsCode
    <2>. QED
      BY <2>1, HalvesDiffer
  <1>3. parse_utf16(s) = IF s[7] = Backslash /\ s[8] = LetterU /\ parse_utf16_hex(s, 8) \in Trails
                         THEN Took(12, Utf8(Paired(c, parse_utf16_hex(s, 8)))) ELSE Nothing
    BY <1>1, <1>2 DEF parse_utf16
  <1>4. q[1] = Backslash => s[8] = q[2]
    BY <1>1, EscapeGoesOn, TerminatedIs
  <1>5. ASSUME q[1] = Backslash, q[2] = LetterU
        PROVE  parse_utf16_hex(s, 8) = parse_utf16_hex(q, 2)
    <2>1. q[2] # Nul /\ Head(q) = Backslash
      BY <1>5, TerminatedIs DEF LetterU, Nul
    <2>. QED
      BY <1>1, <2>1, EscapeGoesOn
  <1>6. CASE q[1] = Backslash /\ q[2] = LetterU
    BY <1>1, <1>3, <1>4, <1>5, <1>6 DEF LowFirst, s
  <1>7. CASE ~(q[1] = Backslash /\ q[2] = LetterU)
    BY <1>1, <1>3, <1>4, <1>7 DEF LowFirst, s
  <1>. QED
    BY <1>6, <1>7

LEMMA CodedLow ==
  ASSUME NEW b, NEW c, IsCoded(b, c), c \in Trails, NEW q \in Terminated
  PROVE  LowFirst(b \o q) /\ parse_utf16_hex(b \o q, 2) = c
  <1>1. (b \o q)[1] = Backslash
    BY CodedFirst
  <1>2. (b \o q)[2] = LetterU
    BY CodedFirst
  <1>3. parse_utf16_hex(b \o q, 2) = c
    BY CodedFirst
  <1>. QED
    BY <1>1, <1>2, <1>3 DEF LowFirst

(* The two halves together are a character.                                 *)
LEMMA PairReads ==
  ASSUME NEW b, NEW c, IsCoded(b, c), c \in Leads, NEW d, NEW t, IsCoded(d, t), t \in Trails
  PROVE  Reads(b \o d, Utf8(Paired(c, t)))
  <1> DEFINE o == Utf8(Paired(c, t))
             bd == b \o d
  <1>1. b \in Seq(Byte) /\ Len(b) = 6 /\ d \in Seq(Byte) /\ Len(d) = 6
    BY DEF IsCoded
  <1>2. o \in Seq(Byte)
    BY PairedIs, Utf8Is
  <1>3. bd \in Seq(Byte) /\ Len(bd) = 12
    <2>1. bd \in Seq(Byte) /\ Len(bd) = Len(b) + Len(d)
      BY <1>1, ConcatProperties
    <2> HIDE DEF bd
    <2>. QED
      BY <1>1, <2>1
  <1>4. ASSUME NEW q \in Terminated PROVE Head(bd \o q) # Nul /\ Turn(bd \o q) = Took(Len(bd), o)
    <2>1. q \in Seq(Byte) /\ d \o q \in Terminated
      BY <1>1, InFront, TerminatedIs
    <2>2. bd \o q = b \o (d \o q)
      BY <1>1, <2>1, ConcatAssociative
    <2>3. LowFirst(d \o q) /\ parse_utf16_hex(d \o q, 2) = t
      BY CodedLow
    <2>4. Turn(b \o (d \o q)) = Took(12, o)
      BY <2>1, <2>3, HighTurn
    <2>5. Head(b \o (d \o q)) # Nul
      BY <2>1, CodedFirst
    <2> HIDE DEF bd, o
    <2>. QED
      BY <1>3, <2>2, <2>4, <2>5
  <1> HIDE DEF bd, o
  <1>5. Len(bd) # 0
    BY <1>3
  <1>6. Reads(bd, o)
    BY <1>2, <1>3, <1>4, <1>5, ReadsTurn
  <1>. QED
    BY <1>6 DEF bd, o

(* A first half fails where none follows.                                   *)
LEMMA HighAlone ==
  ASSUME NEW b, NEW c, IsCoded(b, c), c \in Leads, NEW q \in Terminated, ~LowFirst(q),
         NEW n \in Nat
  PROVE  process_string[b \o q][Len(b) + n] = Failed
  <1>1. Turn(b \o q) = Nothing
    BY HighTurn
  <1>2. b \o q \in Terminated /\ Head(b \o q) # Nul
    BY CodedFirst
  <1>3. Len(b) + n \in Int /\ Len(b) + n > 0
    <2>1. Len(b) = 6
      BY DEF IsCoded
    <2>. QED
      BY <2>1
  <1>. QED
    BY <1>1, <1>2, <1>3, ReadIs

LEMMA HighFails ==
  ASSUME NEW b, NEW c, IsCoded(b, c), c \in Leads, NEW d \in Seq(Byte),
         \A q \in Terminated : ~LowFirst(d \o q)
  PROVE  Fails(b \o d)
  <1>1. b \in Seq(Byte)
    BY DEF IsCoded
  <1>2. ASSUME NEW q \in Terminated, NEW n \in Nat
        PROVE  process_string[(b \o d) \o q][Len(b \o d) + n] = Failed
    <2>1. /\ d \o q \in Terminated /\ (b \o d) \o q = b \o (d \o q)
          /\ Len(b \o d) + n = Len(b) + (Len(d) + n) /\ Len(d) + n \in Nat /\ Len(d) \in Nat
      BY <1>1, BothInFront
    <2>2. process_string[b \o (d \o q)][Len(b) + (Len(d) + n)] = Failed
      BY <2>1, HighAlone
    <2>. QED
      BY <2>1, <2>2
  <1>. QED
    BY <1>2 DEF Fails
-----------------------------------------------------------------------------
(* A code is written with the digits it is read from.                       *)
LEMMA DigitIs ==
  ASSUME NEW n \in 0..15, NEW a \in {65, 97}
  PROVE  Digit(n, a) \in HexDigits /\ hex_char_to_int(Digit(n, a)) = n
  <1>1. CASE n < 10
    <2>1. Digit(n, a) = 48 + n /\ 48 + n \in 48..57
      BY <1>1 DEF Digit
    <2>2. hex_char_to_int(48 + n) = (48 + n) - 48
      BY <2>1 DEF hex_char_to_int
    <2>3. (48 + n) - 48 = n
      OBVIOUS
    <2>. QED
      BY <2>1, <2>2, <2>3 DEF HexDigits
  <1>2. CASE ~(n < 10) /\ a = 65
    <2> DEFINE d == 65 + n - 10
    <2>1. Digit(n, a) = d /\ d \in 65..70 /\ d - 65 + 10 = n
      BY <1>2 DEF Digit
    <2>2. d \notin 48..57 /\ d \notin 97..102
      BY <2>1
    <2> HIDE DEF d
    <2>3. hex_char_to_int(d) = d - 65 + 10
      BY <2>1, <2>2 DEF hex_char_to_int
    <2>. QED
      BY <2>1, <2>3 DEF HexDigits
  <1>3. CASE ~(n < 10) /\ a = 97
    <2> DEFINE d == 97 + n - 10
    <2>1. Digit(n, a) = d /\ d \in 97..102 /\ d - 97 + 10 = n
      BY <1>3 DEF Digit
    <2>2. d \notin 48..57
      BY <2>1
    <2> HIDE DEF d
    <2>3. hex_char_to_int(d) = d - 97 + 10
      BY <2>1, <2>2 DEF hex_char_to_int
    <2>. QED
      BY <2>1, <2>3 DEF HexDigits
  <1>. QED
    BY <1>1, <1>2, <1>3

LEMMA Sixteens ==
  ASSUME NEW c, IsCode(c)
  PROVE  /\ c \div 4096 \in 0..15 /\ (c \div 256) % 16 \in 0..15
         /\ (c \div 16) % 16 \in 0..15 /\ c % 16 \in 0..15
         /\ Hex(c \div 4096, (c \div 256) % 16, (c \div 16) % 16, c % 16) = c
  <1>1. c \in Nat /\ c < 65536
    BY DEF IsCode
  <1>2. c \div 4096 \in 0..15 /\ (c \div 256) % 16 \in 0..15
    BY <1>1, SMT
  <1>3. (c \div 16) % 16 \in 0..15 /\ c % 16 \in 0..15
    BY <1>1, SMT
  <1>4. (c \div 4096) * 4096 + ((c \div 256) % 16) * 256 + ((c \div 16) % 16) * 16 + (c % 16) = c
    BY <1>1, SMT
  <1>. QED
    BY <1>2, <1>3, <1>4, SMT DEF Hex

LEMMA SixBytes ==
  ASSUME NEW a \in Byte, NEW b \in Byte, NEW c \in Byte, NEW d \in Byte, NEW e \in Byte,
         NEW f \in Byte, NEW s, s = <<a, b, c, d, e, f>>
  PROVE  /\ s \in Seq(Byte) /\ Len(s) = 6 /\ s[1] = a /\ s[2] = b
         /\ s[2 + 1] = c /\ s[2 + 2] = d /\ s[2 + 3] = e /\ s[2 + 4] = f
  <1>1. s \in Seq(Byte) /\ Len(s) = 6 /\ s[1] = a /\ s[2] = b
    OBVIOUS
  <1>2. s[3] = c /\ s[4] = d /\ s[5] = e /\ s[6] = f
    OBVIOUS
  <1>3. 2 + 1 = 3 /\ 2 + 2 = 4 /\ 2 + 3 = 5 /\ 2 + 4 = 6
    OBVIOUS
  <1>. QED
    BY <1>1, <1>2, <1>3

LEMMA CodedIs ==
  ASSUME NEW c, IsCode(c), NEW a \in {65, 97}
  PROVE  IsCoded(Coded(c, a), c)
  <1> DEFINE x == Digit(c \div 4096, a)
             y == Digit((c \div 256) % 16, a)
             z == Digit((c \div 16) % 16, a)
             w == Digit(c % 16, a)
             b == Coded(c, a)
  <1>1. /\ x \in HexDigits /\ y \in HexDigits /\ z \in HexDigits /\ w \in HexDigits
        /\ hex_char_to_int(x) = c \div 4096 /\ hex_char_to_int(y) = (c \div 256) % 16
        /\ hex_char_to_int(z) = (c \div 16) % 16 /\ hex_char_to_int(w) = c % 16
    BY Sixteens, DigitIs
  <1>2. Hex(hex_char_to_int(x), hex_char_to_int(y), hex_char_to_int(z), hex_char_to_int(w)) = c
    BY <1>1, Sixteens
  <1>3. b = <<Backslash, LetterU, x, y, z, w>>
    BY DEF Coded
  <1>4. x \in Byte /\ y \in Byte /\ z \in Byte /\ w \in Byte
    BY <1>1, HexValues
  <1>5. Backslash \in Byte /\ LetterU \in Byte
    BY DEF Backslash, LetterU, Byte
  <1> HIDE DEF x, y, z, w, b
  <1>6. /\ b \in Seq(Byte) /\ Len(b) = 6 /\ b[1] = Backslash /\ b[2] = LetterU
        /\ b[2 + 1] = x /\ b[2 + 2] = y /\ b[2 + 3] = z /\ b[2 + 4] = w
    BY <1>3, <1>4, <1>5, SixBytes
  <1>7. HexOf(b, 2) = c
    BY <1>2, <1>6 DEF HexOf
  <1>8. \A k \in 1..4 : b[2 + k] \in HexDigits
    <2>1. ASSUME NEW k \in 1..4 PROVE b[2 + k] \in HexDigits
      <3>1. k = 1 \/ k = 2 \/ k = 3 \/ k = 4
        OBVIOUS
      <3>. QED
        BY <1>1, <1>6, <3>1
    <2>. QED
      BY <2>1
  <1>. QED
    BY <1>6, <1>7, <1>8 DEF IsCoded, b

(* A text of two bytes and more.                                            *)
LEMMA TwoAndRest ==
  ASSUME NEW b \in Seq(Byte), Len(b) >= 2
  PROVE  \E r \in Seq(Byte) :
            /\ b = <<b[1], b[2]>> \o r /\ Len(r) = Len(b) - 2
            /\ \A i \in 1..Len(r) : r[i] = b[i + 2]
            /\ b[1] \in Byte /\ b[2] \in Byte
  <1> DEFINE t == Tail(b)
             r == Tail(t)
  <1>0. Len(b) \in Nat
    BY LenProperties
  <1>1. b # <<>>
    <2>1. Len(b) # 0
      BY <1>0
    <2>. QED
      BY <2>1, EmptySeq
  <1>2. b = <<Head(b)>> \o t /\ Head(b) \in Byte /\ t \in Seq(Byte)
    BY <1>1, HeadAndTail
  <1>3. Head(b) = b[1] /\ Len(t) = Len(b) - 1 /\ \A i \in 1..Len(t) : t[i] = b[i + 1]
    BY <1>1, HeadTailProperties
  <1>4. t # <<>>
    <2>1. Len(t) = Len(b) - 1
      BY <1>3
    <2> HIDE DEF t
    <2>2. Len(t) # 0
      BY <1>0, <2>1
    <2>. QED
      BY <2>2, EmptySeq
  <1>5. t = <<Head(t)>> \o r /\ Head(t) \in Byte /\ r \in Seq(Byte)
    BY <1>2, <1>4, HeadAndTail
  <1>6. Head(t) = t[1] /\ Len(r) = Len(t) - 1 /\ \A i \in 1..Len(r) : r[i] = t[i + 1]
    BY <1>2, <1>4, HeadTailProperties
  <1> HIDE DEF t, r
  <1>7. t[1] = b[2] /\ Len(r) = Len(b) - 2
    <2>1. 1 \in 1..Len(t) /\ 1 + 1 = 2
      BY <1>0, <1>3
    <2>. QED
      BY <1>0, <1>3, <1>6, <2>1
  <1>8. ASSUME NEW i \in 1..Len(r) PROVE r[i] = b[i + 2]
    <2>1. i + 1 \in 1..Len(t) /\ (i + 1) + 1 = i + 2
      BY <1>0, <1>3, <1>6
    <2>. QED
      BY <1>3, <1>6, <2>1
  <1>9. b = <<b[1], b[2]>> \o r
    <2>1. b = <<b[1]>> \o (<<b[2]>> \o r)
      BY <1>2, <1>3, <1>5, <1>6, <1>7
    <2>2. b[1] \in Byte /\ b[2] \in Byte
      BY <1>2, <1>3, <1>5, <1>6, <1>7
    <2>3. <<b[1]>> \in Seq(Byte) /\ <<b[2]>> \in Seq(Byte)
      BY <2>2, OneByte
    <2>4. <<b[1]>> \o (<<b[2]>> \o r) = (<<b[1]>> \o <<b[2]>>) \o r
      BY <1>5, <2>3, ConcatAssociative
    <2>5. <<b[1]>> \o <<b[2]>> = <<b[1], b[2]>>
      BY Prefixed1
    <2>. QED
      BY <2>1, <2>4, <2>5
  <1>10. b[1] \in Byte /\ b[2] \in Byte
    BY <1>2, <1>3, <1>5, <1>6, <1>7
  <1>. QED
    BY <1>5, <1>7, <1>8, <1>9, <1>10

(* The search passes a code, complete or not.                               *)
LEMMA SkipsCode ==
  ASSUME NEW b \in Seq(Byte), Len(b) >= 2, b[1] = Backslash, b[2] # Nul,
         \A i \in 3..Len(b) : b[i] \notin {Nul, Quote, Backslash}
  PROVE  Skips(b)
  <1>1. PICK r \in Seq(Byte) :
            /\ b = <<b[1], b[2]>> \o r /\ Len(r) = Len(b) - 2
            /\ \A i \in 1..Len(r) : r[i] = b[i + 2]
            /\ b[1] \in Byte /\ b[2] \in Byte
    BY TwoAndRest
  <1>2. Skips(<<Backslash, b[2]>>)
    BY <1>1, SkipsEscape
  <1>3. ASSUME NEW i \in 1..Len(r) PROVE r[i] \notin {Nul, Quote, Backslash}
    <2>1. Len(b) \in Nat
      BY LenProperties
    <2>2. i + 2 \in 3..Len(b)
      BY <1>1, <2>1
    <2>. QED
      BY <1>1, <2>2
  <1>4. Skips(r)
    BY <1>3, SkipsPlain
  <1>5. <<b[1], b[2]>> \in Seq(Byte)
    BY <1>1, TwoBytes
  <1>6. Skips(<<b[1], b[2]>> \o r)
    BY <1>2, <1>4, <1>5, SkipsBoth
  <1>. QED
    BY <1>1, <1>6, Zenon
-----------------------------------------------------------------------------
(* What the reader makes of a piece that stands for u.                      *)
StandsFor(b, u) ==
  /\ b \in Seq(Byte) /\ Skips(b)
  /\ \/ u = Wrong /\ Fails(b)
     \/ IsCharacter(u) /\ Reads(b, Utf8(u)) /\ Len(Utf8(u)) <= Len(b)
     \/ HighHalf(u) /\ IsCoded(b, u)
     \/ LowHalf(u) /\ IsCoded(b, u)
  /\ ~LowHalf(u) => \A q \in Terminated : ~LowFirst(b \o q)

LEMMA PointIs ==
  ASSUME NEW c
  PROVE  /\ IsCharacter(c) <=> IsPoint(c) /\ c \notin Leads /\ c \notin Trails
         /\ HighHalf(c) <=> c \in Leads
         /\ LowHalf(c) <=> c \in Trails
  <1>1. (HighHalf(c) <=> c \in Leads) /\ (LowHalf(c) <=> c \in Trails)
    BY DEF HighHalf, LowHalf, Leads, Trails
  <1>2. c \in Nat /\ c <= 1114111 <=> IsPoint(c)
    BY SMT DEF IsPoint
  <1>. QED
    BY <1>1, <1>2 DEF IsCharacter

(* A character that stands for itself.                                      *)
LEMMA PlainBytes ==
  ASSUME NEW c, IsPoint(c), c >= 32, c \notin {Quote, Backslash}
  PROVE  \A i \in 1..Len(Utf8(c)) :
            Utf8(c)[i] >= 32 /\ Utf8(c)[i] \notin {Nul, Quote, Backslash}
  <1> DEFINE IsPlain(b) == b >= 32 /\ b \notin {Nul, Quote, Backslash}
  <1>1. ASSUME NEW b \in Int, b >= 128 PROVE IsPlain(b)
    BY <1>1 DEF Nul, Quote, Backslash
  <1>2. c \in Nat /\ c \div 64 \in Nat /\ c \div 4096 \in Nat /\ c \div 262144 \in Nat
    <2>1. c \in Nat
      BY DEF IsPoint
    <2>. QED
      BY <2>1, Sixtyfour
  <1>3. ASSUME NEW n \in Nat PROVE IsPlain(Cont(n))
    <2>1. Cont(n) \in Int /\ Cont(n) >= 128
      BY SMT DEF Cont
    <2>. QED
      BY <1>1, <2>1
  <1>4. CASE c < 128
    <2>1. Utf8(c) = <<c>>
      BY <1>4, SMT DEF Utf8
    <2>2. IsPlain(c)
      BY <1>2 DEF Nul
    <2> HIDE DEF IsPlain
    <2>3. \A i \in 1..Len(<<c>>) : IsPlain(<<c>>[i])
      BY <2>2
    <2>. QED
      BY <2>1, <2>3 DEF IsPlain
  <1>5. CASE ~(c < 128) /\ c < 2048
    <2> DEFINE a == 192 + c \div 64
               b == Cont(c)
    <2>1. Utf8(c) = <<a, b>>
      BY <1>5, SMT DEF Utf8
    <2>2. IsPlain(a) /\ IsPlain(b)
      <3>1. a \in Int /\ a >= 128
        BY <1>2
      <3>. QED
        BY <1>1, <1>2, <1>3, <3>1
    <2> HIDE DEF IsPlain, a, b
    <2>3. \A i \in 1..Len(<<a, b>>) : IsPlain(<<a, b>>[i])
      BY <2>2
    <2>. QED
      BY <2>1, <2>3 DEF IsPlain
  <1>6. CASE ~(c < 128) /\ ~(c < 2048) /\ c < 65536
    <2> DEFINE a == 224 + c \div 4096
               b == Cont(c \div 64)
               d == Cont(c)
    <2>1. Utf8(c) = <<a, b, d>>
      BY <1>6, SMT DEF Utf8
    <2>2. IsPlain(a) /\ IsPlain(b) /\ IsPlain(d)
      <3>1. a \in Int /\ a >= 128
        BY <1>2
      <3>. QED
        BY <1>1, <1>2, <1>3, <3>1
    <2> HIDE DEF IsPlain, a, b, d
    <2>3. \A i \in 1..Len(<<a, b, d>>) : IsPlain(<<a, b, d>>[i])
      BY <2>2
    <2>. QED
      BY <2>1, <2>3 DEF IsPlain
  <1>7. CASE ~(c < 128) /\ ~(c < 2048) /\ ~(c < 65536)
    <2> DEFINE a == 240 + c \div 262144
               b == Cont(c \div 4096)
               d == Cont(c \div 64)
               e == Cont(c)
    <2>1. Utf8(c) = <<a, b, d, e>>
      BY <1>7, SMT DEF Utf8
    <2>2. IsPlain(a) /\ IsPlain(b) /\ IsPlain(d) /\ IsPlain(e)
      <3>1. a \in Int /\ a >= 128
        BY <1>2
      <3>. QED
        BY <1>1, <1>2, <1>3, <3>1
    <2> HIDE DEF IsPlain, a, b, d, e
    <2>3. \A i \in 1..Len(<<a, b, d, e>>) : IsPlain(<<a, b, d, e>>[i])
      BY <2>2
    <2>. QED
      BY <2>1, <2>3 DEF IsPlain
  <1>. QED
    BY <1>4, <1>5, <1>6, <1>7

LEMMA FirstIs ==
  ASSUME NEW b \in Seq(Byte), Len(b) # 0, NEW q \in Terminated
  PROVE  (b \o q)[1] = b[1] /\ (Len(b) # 1 => (b \o q)[2] = b[2])
  <1>1. Len(b) \in Nat /\ \A i \in 1..Len(b) : (b \o q)[i] = b[i]
    BY InFront
  <1>2. 1 \in 1..Len(b) /\ (Len(b) # 1 => 2 \in 1..Len(b))
    <2> DEFINE n == Len(b)
    <2>1. n \in Nat /\ n # 0
      BY <1>1
    <2> HIDE DEF n
    <2>2. 1 \in 1..n /\ (n # 1 => 2 \in 1..n)
      BY <2>1
    <2>. QED
      BY <2>2 DEF n
  <1>. QED
    BY <1>1, <1>2

LEMMA PlainStands ==
  ASSUME NEW c, IsCharacter(c), c >= 32, c \notin {Quote, Backslash}
  PROVE  StandsFor(Utf8(c), c)
  <1> DEFINE b == Utf8(c)
  <1>1. IsPoint(c) /\ ~LowHalf(c)
    BY PointIs
  <1>2. b \in Seq(Byte) /\ Len(b) \in 1..4
    BY <1>1, Utf8Is
  <1>3. \A i \in 1..Len(b) : b[i] >= 32 /\ b[i] \notin {Nul, Quote, Backslash}
    BY <1>1, PlainBytes
  <1> HIDE DEF b
  <1>4. Skips(b)
    BY <1>2, <1>3, SkipsPlain
  <1>5. Reads(b, b)
    BY <1>2, <1>3, PlainReads
  <1>6. Len(b) # 0 /\ 1 \in 1..Len(b) /\ Len(b) <= Len(b)
    <2> DEFINE n == Len(b)
    <2>1. n \in 1..4
      BY <1>2
    <2> HIDE DEF n
    <2>2. n # 0 /\ 1 \in 1..n /\ n <= n
      BY <2>1
    <2>. QED
      BY <2>2 DEF n
  <1>7. ASSUME NEW q \in Terminated PROVE ~LowFirst(b \o q)
    <2>1. (b \o q)[1] # Backslash
      BY <1>2, <1>3, <1>6, FirstIs
    <2>. QED
      BY <2>1 DEF LowFirst
  <1>. QED
    BY <1>2, <1>4, <1>5, <1>6, <1>7 DEF StandsFor, b

LEMMA EscapeStands ==
  ASSUME NEW e \in Escapes
  PROVE  StandsFor(<<Backslash, e[1]>>, e[2])
  <1> DEFINE b == <<Backslash, e[1]>>
             c == e[2]
             x == e[1]
  <1>1. x \in Simple /\ c = Meant(x) /\ c \in 0..127
    <2>1. /\ <<34, 34>>[1] = 34 /\ <<34, 34>>[2] = 34
          /\ <<92, 92>>[1] = 92 /\ <<92, 92>>[2] = 92
          /\ <<47, 47>>[1] = 47 /\ <<47, 47>>[2] = 47
          /\ <<98, 8>>[1] = 98 /\ <<98, 8>>[2] = 8
          /\ <<102, 12>>[1] = 102 /\ <<102, 12>>[2] = 12
          /\ <<110, 10>>[1] = 110 /\ <<110, 10>>[2] = 10
          /\ <<114, 13>>[1] = 114 /\ <<114, 13>>[2] = 13
          /\ <<116, 9>>[1] = 116 /\ <<116, 9>>[2] = 9
      OBVIOUS
    <2>2. \/ x = 34 /\ c = 34
          \/ x = 92 /\ c = 92
          \/ x = 47 /\ c = 47
          \/ x = 98 /\ c = 8
          \/ x = 102 /\ c = 12
          \/ x = 110 /\ c = 10
          \/ x = 114 /\ c = 13
          \/ x = 116 /\ c = 9
      BY <2>1 DEF Escapes
    <2> HIDE DEF x, c
    <2>3. x \in Simple /\ c = Meant(x)
      BY <2>2 DEF Simple, Meant, Quote, Backslash, Slash
    <2>4. c \in 0..127
      BY <2>2
    <2>. QED
      BY <2>3, <2>4
  <1> HIDE DEF x, c
  <1>2. Utf8(c) = <<c>> /\ c \in Byte
    BY <1>1, SMT DEF Utf8, Byte
  <1>3. IsPoint(c) /\ c \notin Leads /\ c \notin Trails
    <2>1. c \in Int /\ 0 <= c /\ c <= 127
      BY <1>1
    <2>2. IsPoint(c)
      BY <2>1, SMT DEF IsPoint
    <2>3. c \notin Leads
      BY <2>1, SMT DEF Leads
    <2>4. c \notin Trails
      BY <2>1, SMT DEF Trails
    <2>. QED
      BY <2>2, <2>3, <2>4
  <1>4. IsCharacter(c) /\ ~LowHalf(c)
    BY <1>3, PointIs
  <1>5. Backslash \in Byte /\ x \in Byte /\ x # Nul /\ x # LetterU
    BY <1>1, MeantIs DEF Backslash, Byte, Simple, LetterU, Quote, Slash
  <1>6. b \in Seq(Byte) /\ Len(b) = 2
    BY <1>5, TwoBytes DEF x
  <1>7. Skips(b)
    BY <1>5, SkipsEscape DEF x
  <1>8. Reads(b, Utf8(c))
    BY <1>1, <1>2, EscapeReads DEF x
  <1>9. Len(Utf8(c)) <= Len(b)
    <2>1. Len(<<c>>) = 1
      OBVIOUS
    <2> HIDE DEF b
    <2>. QED
      BY <1>2, <1>6, <2>1
  <1>10. ASSUME NEW q \in Terminated PROVE ~LowFirst(b \o q)
    <2>1. (b \o q)[2] = x
      BY <1>5, TwoInFront DEF x
    <2>. QED
      BY <1>5, <2>1 DEF LowFirst
  <1> HIDE DEF b
  <1>11. StandsFor(b, c)
    BY <1>4, <1>6, <1>7, <1>8, <1>9, <1>10 DEF StandsFor
  <1>. QED
    BY <1>11 DEF b, c

LEMMA CodeStands ==
  ASSUME NEW c, IsCode(c), NEW a \in {65, 97}
  PROVE  StandsFor(Coded(c, a), c)
  <1> DEFINE b == Coded(c, a)
  <1>1. IsCoded(b, c)
    BY CodedIs
  <1> HIDE DEF b
  <1>2. /\ b \in Seq(Byte) /\ Len(b) = 6 /\ b[1] = Backslash /\ b[2] = LetterU
        /\ \A k \in 1..4 : b[2 + k] \in HexDigits
    BY <1>1 DEF IsCoded
  <1>3. ASSUME NEW i \in 3..Len(b) PROVE b[i] \notin {Nul, Quote, Backslash}
    <2>1. i - 2 \in 1..4 /\ 2 + (i - 2) = i
      BY <1>2
    <2>2. b[2 + (i - 2)] \in HexDigits
      BY <1>2, <2>1
    <2>3. b[i] \in HexDigits
      BY <2>1, <2>2
    <2> DEFINE d == b[i]
    <2> HIDE DEF d
    <2>4. d \in HexDigits
      BY <2>3 DEF d
    <2>5. d \notin {Nul, Quote, Backslash}
      BY <2>4 DEF HexDigits, Nul, Quote, Backslash
    <2>. QED
      BY <2>5 DEF d
  <1>4. Skips(b)
    <2>1. Len(b) >= 2 /\ b[2] # Nul
      BY <1>2 DEF LetterU, Nul
    <2>. QED
      BY <1>2, <1>3, <2>1, SkipsCode
  <1>5. IsPoint(c) /\ (HighHalf(c) \/ LowHalf(c) \/ IsCharacter(c))
    BY CodeIsPoint, PointIs
  <1>6. ASSUME NEW q \in Terminated, ~LowHalf(c) PROVE ~LowFirst(b \o q)
    <2>1. parse_utf16_hex(b \o q, 2) = c
      BY <1>1, CodedFirst
    <2>2. c \notin Trails
      BY <1>6, PointIs
    <2>. QED
      BY <2>1, <2>2 DEF LowFirst
  <1>7. ASSUME IsCharacter(c) PROVE Reads(b, Utf8(c)) /\ Len(Utf8(c)) <= Len(b)
    <2>1. c \notin Leads \cup Trails
      BY <1>7, PointIs
    <2>2. Reads(b, Utf8(c))
      BY <1>1, <2>1, CodeReads
    <2>3. Len(Utf8(c)) <= Len(b)
      <3> DEFINE n == Len(Utf8(c))
      <3>1. n \in 1..4
        BY <1>5, Utf8Is
      <3> HIDE DEF n
      <3>2. n <= Len(b)
        BY <1>2, <3>1
      <3>. QED
        BY <3>2 DEF n
    <2>. QED
      BY <2>2, <2>3
  <1>. QED
    BY <1>1, <1>2, <1>4, <1>5, <1>6, <1>7 DEF StandsFor, b

LEMMA OneIs == ASSUME NEW b \in Seq(Byte), Len(b) = 1 PROVE b = <<b[1]>> /\ b[1] \in Byte
  <1>1. 1 \in 1..Len(b)
    OBVIOUS
  <1>2. b[1] \in Byte
    BY <1>1, ElementOfSeq
  <1> DEFINE d == <<b[1]>>
  <1>3. d \in Seq(Byte) /\ Len(d) = 1 /\ d[1] = b[1]
    BY <1>2
  <1> HIDE DEF d
  <1>4. \A i \in 1..Len(b) : b[i] = d[i]
    BY <1>3
  <1>5. b = d
    BY <1>3, <1>4, SeqEqual
  <1>. QED
    BY <1>2, <1>5 DEF d

LEMMA TwoIs ==
  ASSUME NEW b \in Seq(Byte), Len(b) = 2
  PROVE  b = <<b[1], b[2]>> /\ b[1] \in Byte /\ b[2] \in Byte
  <1>1. 1 \in 1..Len(b) /\ 2 \in 1..Len(b)
    OBVIOUS
  <1>2. b[1] \in Byte /\ b[2] \in Byte
    BY <1>1, ElementOfSeq
  <1> DEFINE d == <<b[1], b[2]>>
  <1>3. d \in Seq(Byte) /\ Len(d) = 2 /\ d[1] = b[1] /\ d[2] = b[2]
    BY <1>2
  <1> HIDE DEF d
  <1>4. \A i \in 1..Len(b) : b[i] = d[i]
    BY <1>3
  <1>5. b = d
    BY <1>3, <1>4, SeqEqual
  <1>. QED
    BY <1>2, <1>5 DEF d

(* Pieces that stand for nothing.                                           *)
LEMMA IllegalStands ==
  ASSUME NEW b \in Seq(Byte), Illegal(b)
  PROVE  StandsFor(b, Wrong)
  <1>1. ASSUME Len(b) = 1, b[1] \in 1..31
        PROVE  Skips(b) /\ Fails(b) /\ \A q \in Terminated : ~LowFirst(b \o q)
    <2>1. b = <<b[1]>> /\ b[1] \in Byte
      BY <1>1, OneIs
    <2>2. b[1] \notin {Nul, Quote, Backslash}
      <3>1. ASSUME NEW x \in 1..31 PROVE x \notin {Nul, Quote, Backslash}
        BY DEF Nul, Quote, Backslash
      <3>. QED
        BY <1>1, <3>1
    <2>3. Skips(<<b[1]>>) /\ Fails(<<b[1]>>)
      BY <1>1, <2>1, <2>2, SkipsByte, ControlFails
    <2>4. ASSUME NEW q \in Terminated PROVE ~LowFirst(b \o q)
      <3>0. Len(b) # 0
        BY <1>1
      <3>1. (b \o q)[1] = b[1]
        BY <3>0, FirstIs, Zenon
      <3>. QED
        BY <2>2, <3>1 DEF LowFirst
    <2>. QED
      BY <2>1, <2>3, <2>4, Zenon
  <1>2. ASSUME Len(b) = 2, b[1] = Backslash, b[2] \notin Simple \cup {Nul, LetterU}
        PROVE  Skips(b) /\ Fails(b) /\ \A q \in Terminated : ~LowFirst(b \o q)
    <2>1. b = <<b[1], b[2]>> /\ b[2] \in Byte
      BY <1>2, TwoIs
    <2>2. Skips(<<Backslash, b[2]>>) /\ Fails(<<Backslash, b[2]>>)
      BY <1>2, <2>1, SkipsEscape, UnknownFails
    <2>3. ASSUME NEW q \in Terminated PROVE ~LowFirst(b \o q)
      <3>0. Len(b) # 0 /\ Len(b) # 1
        BY <1>2
      <3>1. (b \o q)[2] = b[2]
        BY <3>0, FirstIs, Zenon
      <3>. QED
        BY <1>2, <3>1 DEF LowFirst
    <2>. QED
      BY <1>2, <2>1, <2>2, <2>3, Zenon
  <1>3. ASSUME Len(b) > 2, b[1] = Backslash, b[2] = LetterU,
               \A k \in 3..Len(b) : b[k] \notin {Nul, Quote, Backslash},
               \E k \in 3..6 : k <= Len(b) /\ b[k] \notin HexDigits
        PROVE  Skips(b) /\ Fails(b) /\ \A q \in Terminated : ~LowFirst(b \o q)
    <2>0. Len(b) \in Nat
      BY LenProperties
    <2>1. Skips(b)
      <3>1. Len(b) >= 2 /\ b[2] # Nul
        BY <1>3, <2>0 DEF LetterU, Nul
      <3>. QED
        BY <1>3, <3>1, SkipsCode
    <2>2. PICK k \in 3..6 : k <= Len(b) /\ b[k] \notin HexDigits
      BY <1>3
    <2>3. ASSUME NEW q \in Terminated
          PROVE  /\ parse_utf16_hex(b \o q, 2) = -1
                 /\ Head(b \o q) # Nul /\ Turn(b \o q) = Nothing
      <3> DEFINE s == b \o q
      <3>1. /\ s \in Terminated /\ \A i \in 1..Len(b) : s[i] = b[i]
        BY InFront
      <3>2. s[1] = Backslash /\ s[2] = LetterU
        <4>1. Len(b) # 0 /\ Len(b) # 1
          BY <1>3, <2>0
        <4>. QED
          BY <1>3, <4>1, FirstIs
      <3> HIDE DEF s
      <3>3. s[k] \notin HexDigits
        <4>1. k \in 1..Len(b)
          BY <2>0, <2>2
        <4>. QED
          BY <2>2, <3>1, <4>1
      <3>4. parse_utf16_hex(s, 2) = -1
        <4>1. k - 2 \in 1..4 /\ 2 + (k - 2) = k /\ 2 \in Nat
          BY <2>2
        <4>2. \E j \in 1..4 : s[2 + j] \notin HexDigits
          BY <3>3, <4>1
        <4>. QED
          BY <4>1, <4>2, CodeIs
      <3>5. Head(s) = Backslash
        BY <3>1, <3>2, TerminatedIs
      <3>6. Turn(s) = parse_utf16(s)
        <4>1. LetterU \notin Simple
          BY DEF LetterU, Simple, Quote, Backslash, Slash
        <4>. QED
          BY <3>2, <3>5, <4>1 DEF Turn
      <3>7. parse_utf16(s) = Nothing
        BY <3>4 DEF parse_utf16
      <3>8. Backslash # Nul
        BY DEF Backslash, Nul
      <3>. QED
        BY <3>4, <3>5, <3>6, <3>7, <3>8 DEF s
    <2>4. Fails(b)
      <3>1. Len(b) # 0
        BY <1>3, <2>0
      <3>. QED
        BY <2>3, <3>1, FailsTurn
    <2>5. ASSUME NEW q \in Terminated PROVE ~LowFirst(b \o q)
      <3>1. -1 \notin Trails
        <4> DEFINE m == -1
        <4>1. m \in Int /\ m < 0
          OBVIOUS
        <4> HIDE DEF m
        <4>2. ASSUME m \in Trails PROVE 56320 <= m
          BY <4>2, SMT DEF Trails
        <4>3. m \notin Trails
          BY <4>1, <4>2, SMT
        <4>. QED
          BY <4>3 DEF m
      <3>. QED
        BY <2>3, <3>1 DEF LowFirst
    <2>. QED
      BY <2>1, <2>4, <2>5
  <1>4. Skips(b) /\ Fails(b) /\ \A q \in Terminated : ~LowFirst(b \o q)
    BY <1>1, <1>2, <1>3 DEF Illegal
  <1>. QED
    BY <1>4 DEF StandsFor

LEMMA UnitsStand ==
  ASSUME NEW x \in Units
  PROVE  StandsFor(x.bytes, x.unit)
  <1>1. ASSUME NEW b, NEW u, x = Unit(b, u), StandsFor(b, u) PROVE StandsFor(x.bytes, x.unit)
    BY <1>1 DEF Unit
  <1>2. ASSUME NEW c \in Plain, x = Unit(Utf8(c), c) PROVE StandsFor(x.bytes, x.unit)
    <2>1. IsCharacter(c) /\ c >= 32 /\ c \notin {Quote, Backslash}
      BY StringInputsAssumption
    <2>2. StandsFor(Utf8(c), c)
      BY <2>1, PlainStands
    <2>. QED
      BY <1>1, <1>2, <2>2
  <1>3. ASSUME NEW e \in Escapes, x = Unit(<<Backslash, e[1]>>, e[2])
        PROVE  StandsFor(x.bytes, x.unit)
    <2>1. StandsFor(<<Backslash, e[1]>>, e[2])
      BY EscapeStands
    <2>. QED
      BY <1>1, <1>3, <2>1
  <1>4. ASSUME NEW c \in Codes, NEW a \in {65, 97}, x = Unit(Coded(c, a), c)
        PROVE  StandsFor(x.bytes, x.unit)
    <2>1. c \in Nat /\ c <= 65535
      BY StringInputsAssumption
    <2>2. IsCode(c)
      BY <2>1, SMT DEF IsCode
    <2>3. StandsFor(Coded(c, a), c)
      BY <2>2, CodeStands
    <2>. QED
      BY <1>1, <1>4, <2>3
  <1>5. ASSUME NEW b \in Malformed, x = Unit(b, Wrong) PROVE StandsFor(x.bytes, x.unit)
    <2>1. b \in Seq(Byte) /\ Illegal(b)
      BY StringInputsAssumption
    <2>2. StandsFor(b, Wrong)
      BY <2>1, IllegalStands
    <2>. QED
      BY <1>1, <1>5, <2>2
  <1>6. \/ \E c \in Plain : x = Unit(Utf8(c), c)
        \/ \E e \in Escapes : x = Unit(<<Backslash, e[1]>>, e[2])
        \/ \E c \in Codes, a \in {65, 97} : x = Unit(Coded(c, a), c)
        \/ \E b \in Malformed : x = Unit(b, Wrong)
    BY DEF Units
  <1>. QED
    BY <1>2, <1>3, <1>4, <1>5, <1>6, Zenon
-----------------------------------------------------------------------------
(* The sequences of UTF-8: one that is valid does not reach the NUL.         *)
LEMMA SequenceEnds ==
  ASSUME NEW s \in Terminated, Len(s) # 1, verify_utf8_sequence(s) # -1
  PROVE  Sequence(s) \in Nat /\ From(s, Sequence(s) + 1) \in Shorter(s)
  <1> DEFINE l == num_bytes_in_utf8_sequence(Head(s))
  <1>1. l \in {0, 1, 2, 3, 4}
    BY DEF num_bytes_in_utf8_sequence
  <1>2. l # 0 /\ \A k \in 2..l : IS_CONT(s[k])
    BY DEF verify_utf8_sequence, Sequence
  <1>3. Sequence(s) = l
    BY DEF Sequence
  <1>4. ASSUME NEW i \in Nat, IS_CONT(s[i]), i \in 1..Len(s) PROVE i + 1 \in 1..Len(s)
    <2>1. ASSUME NEW x, IS_CONT(x) PROVE x # Nul
      BY <2>1 DEF IS_CONT, Nul
    <2>2. s[i] # Nul
      BY <1>4, <2>1
    <2>. QED
      BY <1>4, <2>2, NotTheEnd
  <1> HIDE DEF l
  <1>5. l \in {1, 2, 3, 4}
    BY <1>1, <1>2
  <1>6. 2 \in 1..Len(s)
    <2> DEFINE n == Len(s)
    <2>1. n \in Nat \ {0} /\ n # 1
      BY TerminatedIs
    <2> HIDE DEF n
    <2>2. 2 \in 1..n
      BY <2>1
    <2>. QED
      BY <2>2 DEF n
  <1>7. l >= 2 => 3 \in 1..Len(s)
    <2>1. ASSUME l >= 2 PROVE 2 + 1 \in 1..Len(s)
      <3>1. IS_CONT(s[2])
        BY <1>2, <1>5, <2>1
      <3>. QED
        BY <1>4, <1>6, <3>1
    <2>. QED
      BY <2>1
  <1>8. l >= 3 => 4 \in 1..Len(s)
    <2>1. ASSUME l >= 3 PROVE 3 + 1 \in 1..Len(s)
      <3>1. IS_CONT(s[3]) /\ 3 \in 1..Len(s)
        BY <1>2, <1>5, <1>7, <2>1
      <3>. QED
        BY <1>4, <3>1
    <2>. QED
      BY <2>1
  <1>9. l >= 4 => 5 \in 1..Len(s)
    <2>1. ASSUME l >= 4 PROVE 4 + 1 \in 1..Len(s)
      <3>1. IS_CONT(s[4]) /\ 4 \in 1..Len(s)
        BY <1>2, <1>5, <1>8, <2>1
      <3>. QED
        BY <1>4, <3>1
    <2>. QED
      BY <2>1
  <1>10. l + 1 \in 1..Len(s) /\ l \in Nat
    BY <1>5, <1>6, <1>7, <1>8, <1>9
  <1>11. l \in 1..(Len(s) - 1)
    <2> DEFINE n == Len(s)
    <2>1. n \in Nat /\ l + 1 \in 1..n
      BY <1>10, TerminatedIs
    <2> HIDE DEF n
    <2>2. l \in 1..(n - 1)
      BY <1>5, <2>1
    <2>. QED
      BY <2>2 DEF n
  <1>. QED
    BY <1>3, <1>10, <1>11, Behind

(* One step of the check, and one of taking the characters.                 *)
ValidTurn(g, s) ==
  \/ Len(s) = 1
  \/ verify_utf8_sequence(s) # -1 /\ g[From(s, Sequence(s) + 1)]

CharacterTurn(g, s) ==
  IF Len(s) = 1 \/ verify_utf8_sequence(s) = -1 THEN <<>>
  ELSE <<verify_utf8_sequence(s)>> \o g[From(s, Sequence(s) + 1)]

(* What a character may be read as.                                         *)
Verified == Nat \cup {verify_utf8_sequence(s) : s \in Terminated}

LEMMA ValidSame ==
  ASSUME NEW g, NEW h, NEW s \in Terminated, \A r \in Shorter(s) : g[r] = h[r]
  PROVE  ValidTurn(g, s) = ValidTurn(h, s) /\ CharacterTurn(g, s) = CharacterTurn(h, s)
  <1>1. CASE Len(s) = 1
    BY <1>1 DEF ValidTurn, CharacterTurn
  <1>2. CASE verify_utf8_sequence(s) = -1
    BY <1>2 DEF ValidTurn, CharacterTurn
  <1>3. CASE Len(s) # 1 /\ verify_utf8_sequence(s) # -1
    <2>1. g[From(s, Sequence(s) + 1)] = h[From(s, Sequence(s) + 1)]
      BY <1>3, SequenceEnds
    <2>. QED
      BY <2>1 DEF ValidTurn, CharacterTurn
  <1>. QED
    BY <1>1, <1>2, <1>3

LEMMA CharacterTyped ==
  ASSUME NEW g, NEW s \in Terminated, \A r \in Shorter(s) : g[r] \in Seq(Verified)
  PROVE  CharacterTurn(g, s) \in Seq(Verified)
  <1>1. CASE Len(s) = 1 \/ verify_utf8_sequence(s) = -1
    <2>1. CharacterTurn(g, s) = <<>>
      BY <1>1 DEF CharacterTurn
    <2>2. <<>> \in Seq(Verified)
      BY EmptySeq
    <2>. QED
      BY <2>1, <2>2
  <1>2. CASE Len(s) # 1 /\ verify_utf8_sequence(s) # -1
    <2> DEFINE x == verify_utf8_sequence(s)
               r == From(s, Sequence(s) + 1)
    <2>1. CharacterTurn(g, s) = <<x>> \o g[r]
      BY <1>2 DEF CharacterTurn
    <2>2. x \in Verified
      BY DEF Verified
    <2>3. g[r] \in Seq(Verified)
      BY <1>2, SequenceEnds
    <2> HIDE DEF x, r
    <2>4. <<x>> \in Seq(Verified)
      BY <2>2
    <2>5. <<x>> \o g[r] \in Seq(Verified)
      BY <2>3, <2>4, ConcatProperties
    <2>. QED
      BY <2>1, <2>5
  <1>. QED
    BY <1>1, <1>2

LEMMA ValidIs ==
  \A s \in Terminated : is_valid_utf8[s] = ValidTurn(is_valid_utf8, s)
  <1> DEFINE Body(g) == [s \in Terminated |-> ValidTurn(g, s)]
             D == [g \in [Terminated -> BOOLEAN] |-> Body(g)]
  <1>1. ASSUME NEW g \in [Terminated -> BOOLEAN], NEW s \in Terminated
        PROVE  ValidTurn(g, s) \in BOOLEAN
    BY Zenon DEF ValidTurn
  <1>2. PICK f \in [Terminated -> BOOLEAN] : f = D[f]
    <2>1. D \in [[Terminated -> BOOLEAN] -> [Terminated -> BOOLEAN]]
      BY <1>1, Zenon
    <2>2. ASSUME NEW g \in [Terminated -> BOOLEAN], NEW h \in [Terminated -> BOOLEAN],
                 NEW s \in Terminated, \A r \in Shorter(s) : g[r] = h[r]
          PROVE  D[g][s] = D[h][s]
      <3>1. ValidTurn(g, s) = ValidTurn(h, s)
        BY <2>2, ValidSame
      <3>2. D[g] = Body(g) /\ D[h] = Body(h)
        BY <2>2
      <3> HIDE DEF D
      <3>3. D[g][s] = ValidTurn(g, s) /\ D[h][s] = ValidTurn(h, s)
        BY <3>2
      <3>. QED
        BY <3>1, <3>3, Zenon
    <2>3. BOOLEAN # {}
      OBVIOUS
    <2> HIDE DEF D
    <2>. QED
      BY <2>1, <2>2, <2>3, ShorterFirst
  <1>3. f = Body(f)
    BY <1>2, Zenon
  <1>4. is_valid_utf8 = CHOOSE g : g = Body(g)
    BY Zenon DEF is_valid_utf8, ValidTurn
  <1>5. is_valid_utf8 = Body(is_valid_utf8)
    <2> HIDE DEF Body
    <2>. QED
      BY <1>3, <1>4
  <1>. QED
    BY <1>5, Zenon

LEMMA CharactersOfIs ==
  /\ \A s \in Terminated : CharactersOf[s] \in Seq(Verified)
  /\ \A s \in Terminated : CharactersOf[s] = CharacterTurn(CharactersOf, s)
  <1> DEFINE Body(g) == [s \in Terminated |-> CharacterTurn(g, s)]
             T == Seq(Verified)
             D == [g \in [Terminated -> T] |-> Body(g)]
  <1>1. \A g \in [Terminated -> T] : Body(g) \in [Terminated -> T]
    BY CharacterTyped DEF Shorter
  <1>2. PICK f \in [Terminated -> T] : f = D[f]
    <2>1. D \in [[Terminated -> T] -> [Terminated -> T]]
      BY <1>1
    <2>2. ASSUME NEW g \in [Terminated -> T], NEW h \in [Terminated -> T],
                 NEW s \in Terminated, \A r \in Shorter(s) : g[r] = h[r]
          PROVE  D[g][s] = D[h][s]
      <3>1. CharacterTurn(g, s) = CharacterTurn(h, s)
        BY <2>2, ValidSame
      <3>2. D[g] = Body(g) /\ D[h] = Body(h)
        BY <2>2
      <3> HIDE DEF D
      <3>3. D[g][s] = CharacterTurn(g, s) /\ D[h][s] = CharacterTurn(h, s)
        BY <3>2
      <3>. QED
        BY <3>1, <3>3
    <2>3. T # {}
      BY EmptySeq
    <2> HIDE DEF D, T
    <2>. QED
      BY <2>1, <2>2, <2>3, ShorterFirst
  <1>3. f = Body(f)
    BY <1>2
  <1>4. CharactersOf = CHOOSE g : g = Body(g)
    BY DEF CharactersOf, CharacterTurn
  <1>5. CharactersOf = Body(CharactersOf)
    <2> HIDE DEF Body
    <2>. QED
      BY <1>3, <1>4
  <1>6. \A s \in Terminated : CharactersOf[s] = CharacterTurn(CharactersOf, s)
    BY <1>5
  <1> DEFINE G == {s \in Terminated : CharactersOf[s] \in T}
  <1>7. Terminated \subseteq G
    <2>1. ASSUME NEW s \in Terminated, Shorter(s) \subseteq G PROVE s \in G
      BY <1>6, <2>1, CharacterTyped
    <2> HIDE DEF G
    <2>. QED
      BY <2>1, ShorterInduction
  <1>. QED
    BY <1>6, <1>7
-----------------------------------------------------------------------------
(* The bytes of a character are read as that character.                     *)
LEMMA NumberOfBytes ==
  ASSUME NEW h \in Nat
  PROVE  /\ h < 128 => num_bytes_in_utf8_sequence(h) = 1
         /\ (194 <= h /\ h <= 223) => num_bytes_in_utf8_sequence(h) = 2
         /\ (224 <= h /\ h <= 239) => num_bytes_in_utf8_sequence(h) = 3
         /\ (240 <= h /\ h <= 244) => num_bytes_in_utf8_sequence(h) = 4
  <1> DEFINE l == num_bytes_in_utf8_sequence(h)
             None == h \in {192, 193} \cup (245..255) \/ h \in 128..191
  <1>1. l = IF None THEN 0 ELSE IF h < 128 THEN 1 ELSE IF h \in 194..223 THEN 2
            ELSE IF h \in 224..239 THEN 3 ELSE 4
    <2>1. CASE None
      <3>1. l = 0
        BY <2>1 DEF num_bytes_in_utf8_sequence, IS_CONT
      <3>. QED
        BY <2>1, <3>1
    <2>2. CASE ~None /\ h < 128
      <3>1. l = 1
        BY <2>2 DEF num_bytes_in_utf8_sequence, IS_CONT
      <3>. QED
        BY <2>2, <3>1
    <2>3. CASE ~None /\ ~(h < 128)
      <3>1. l = CASE h \in 194..223 -> 2 [] h \in 224..239 -> 3 [] OTHER -> 4
        BY <2>3 DEF num_bytes_in_utf8_sequence, IS_CONT
      <3>2. h \in 194..223 => h \notin 224..239
        OBVIOUS
      <3> HIDE DEF None, l
      <3>. QED
        BY <2>3, <3>1, <3>2
    <2>. QED
      BY <2>1, <2>2, <2>3
  <1>2. (h < 128 \/ (194 <= h /\ h <= 244)) => ~None
    OBVIOUS
  <1> HIDE DEF l
  <1>3. h < 128 => l = 1
    BY <1>1, <1>2
  <1>4. (194 <= h /\ h <= 223) => l = 2
    BY <1>1, <1>2
  <1>5. (224 <= h /\ h <= 239) => l = 3
    BY <1>1, <1>2
  <1>6. (240 <= h /\ h <= 244) => l = 4
    BY <1>1, <1>2
  <1>. QED
    BY <1>3, <1>4, <1>5, <1>6 DEF l

LEMMA VerifiesAs ==
  ASSUME NEW s, NEW c, IsCharacter(c), NEW l \in 1..4, Sequence(s) = l,
         \A k \in 2..l : IS_CONT(s[k]), PointOf(s, l) = c,
         l > 1 => c >= 128, l > 2 => c >= 2048, l > 3 => c >= 65536
  PROVE  verify_utf8_sequence(s) = c
  <1>1. IsPoint(c) /\ c \notin Leads \cup Trails
    BY PointIs
  <1>2. c \in Nat /\ ~(c > 1114111)
    BY <1>1, SMT DEF IsPoint
  <1>3. ~Overlong(c, l)
    BY <1>2, SMT DEF Overlong
  <1>4. l # 0
    OBVIOUS
  <1>. QED
    BY <1>1, <1>2, <1>3, <1>4 DEF verify_utf8_sequence

(* A character in UTF-8, with z behind it.                                  *)
ReadAs(s, c, l) == Sequence(s) = l /\ verify_utf8_sequence(s) = c

LEMMA Front ==
  ASSUME NEW b \in Seq(Byte), NEW z \in Terminated, NEW l \in 1..4, Len(b) = l
  PROVE  Head(b \o z) = b[1] /\ \A k \in 1..l : (b \o z)[k] = b[k]
  <1>1. b \o z \in Terminated /\ \A k \in 1..l : (b \o z)[k] = b[k]
    BY InFront
  <1>2. Head(b \o z) = (b \o z)[1] /\ 1 \in 1..l
    BY <1>1, TerminatedIs
  <1>. QED
    BY <1>1, <1>2

LEMMA ReadsOne ==
  ASSUME NEW c, IsCharacter(c), c < 128, NEW z \in Terminated
  PROVE  ReadAs(<<c>> \o z, c, 1)
  <1> DEFINE s == <<c>> \o z
  <1>1. c \in Nat /\ c \in Byte
    BY PointIs, Utf8Bytes DEF IsPoint
  <1>2. Head(s) = c
    BY <1>1, ByteInFront
  <1> HIDE DEF s
  <1>3. Sequence(s) = 1
    BY <1>1, <1>2, NumberOfBytes DEF Sequence
  <1>4. PointOf(s, 1) = c
    BY <1>2 DEF PointOf
  <1>5. verify_utf8_sequence(s) = c
    BY <1>3, <1>4, VerifiesAs
  <1>. QED
    BY <1>3, <1>5 DEF ReadAs, s

LEMMA ReadsTwo ==
  ASSUME NEW c, IsCharacter(c), c >= 128, c < 2048, NEW z \in Terminated
  PROVE  ReadAs(<<192 + c \div 64, Cont(c)>> \o z, c, 2)
  <1> DEFINE a == 192 + c \div 64
             b == Cont(c)
             t == <<a, b>>
             s == t \o z
  <1>1. IsPoint(c)
    BY PointIs
  <1>2. c \in Nat
    BY <1>1 DEF IsPoint
  <1>3. a \in Byte /\ b \in Byte
    BY <1>1, Utf8Bytes
  <1>4. /\ c \div 64 \in Nat /\ c \div 64 < 32 /\ c \div 64 >= 2
        /\ c = 64 * (c \div 64) + (c % 64)
    BY <1>2, Sixtyfour
  <1>5. IS_CONT(b) /\ b % 64 = c % 64
    BY <1>2, ContIs
  <1>6. a \in Nat /\ 194 <= a /\ a <= 223 /\ a % 32 = c \div 64
    BY <1>4, SMT
  <1> HIDE DEF a, b
  <1>7. t \in Seq(Byte) /\ Len(t) = 2 /\ t[1] = a /\ t[2] = b
    BY <1>3
  <1> HIDE DEF t
  <1>8. Head(s) = a /\ s[2] = b
    <2>1. 2 \in 1..4 /\ 2 \in 1..2
      OBVIOUS
    <2>. QED
      BY <1>7, <2>1, Front
  <1> HIDE DEF s
  <1>9. Sequence(s) = 2
    BY <1>6, <1>8, NumberOfBytes DEF Sequence
  <1>10. PointOf(s, 2) = c
    <2>1. PointOf(s, 2) = (c \div 64) * 64 + (c % 64)
      BY <1>5, <1>6, <1>8 DEF PointOf
    <2>. QED
      BY <1>2, <1>4, <2>1, SMT
  <1>11. \A k \in 2..2 : IS_CONT(s[k])
    BY <1>5, <1>8
  <1>12. verify_utf8_sequence(s) = c
    BY <1>9, <1>10, <1>11, VerifiesAs
  <1>. QED
    BY <1>9, <1>12 DEF ReadAs, s, t, a, b

LEMMA ReadsThree ==
  ASSUME NEW c, IsCharacter(c), c >= 2048, c < 65536, NEW z \in Terminated
  PROVE  ReadAs(<<224 + c \div 4096, Cont(c \div 64), Cont(c)>> \o z, c, 3)
  <1> DEFINE a == 224 + c \div 4096
             b == Cont(c \div 64)
             d == Cont(c)
             t == <<a, b, d>>
             s == t \o z
  <1>1. IsPoint(c)
    BY PointIs
  <1>2. c \in Nat
    BY <1>1 DEF IsPoint
  <1>3. a \in Byte /\ b \in Byte /\ d \in Byte
    BY <1>1, Utf8Bytes
  <1>4. /\ c \div 64 \in Nat /\ c \div 4096 \in Nat /\ c \div 4096 < 16
        /\ c = 64 * (c \div 64) + (c % 64) /\ (c \div 64) \div 64 = c \div 4096
    BY <1>2, Sixtyfour
  <1>5. c \div 64 = 64 * (c \div 4096) + ((c \div 64) % 64)
    BY <1>4, Sixtyfour
  <1>6. IS_CONT(b) /\ b % 64 = (c \div 64) % 64 /\ IS_CONT(d) /\ d % 64 = c % 64
    BY <1>2, <1>4, ContIs
  <1>7. a \in Nat /\ 224 <= a /\ a <= 239 /\ a % 16 = c \div 4096
    BY <1>4, SMT
  <1> HIDE DEF a, b, d
  <1>8. t \in Seq(Byte) /\ Len(t) = 3 /\ t[1] = a /\ t[2] = b /\ t[3] = d
    BY <1>3
  <1> HIDE DEF t
  <1>9. Head(s) = a /\ s[2] = b /\ s[3] = d
    <2>1. 3 \in 1..4 /\ 2 \in 1..3 /\ 3 \in 1..3
      OBVIOUS
    <2>. QED
      BY <1>8, <2>1, Front
  <1> HIDE DEF s
  <1>10. Sequence(s) = 3
    BY <1>7, <1>9, NumberOfBytes DEF Sequence
  <1>11. PointOf(s, 3) = c
    <2>1. PointOf(s, 3) = (c \div 4096) * 4096 + ((c \div 64) % 64) * 64 + (c % 64)
      BY <1>6, <1>7, <1>9 DEF PointOf
    <2>. QED
      BY <1>2, <1>4, <1>5, <2>1, SMT
  <1>12. \A k \in 2..3 : IS_CONT(s[k])
    BY <1>6, <1>9
  <1>13. verify_utf8_sequence(s) = c
    <2>1. 3 > 1 => c >= 128
      BY <1>2
    <2>. QED
      BY <1>10, <1>11, <1>12, <2>1, VerifiesAs
  <1>. QED
    BY <1>10, <1>13 DEF ReadAs, s, t, a, b, d

LEMMA ReadsFour ==
  ASSUME NEW c, IsCharacter(c), c >= 65536, NEW z \in Terminated
  PROVE  ReadAs(<<240 + c \div 262144, Cont(c \div 4096), Cont(c \div 64), Cont(c)>> \o z, c, 4)
  <1> DEFINE a == 240 + c \div 262144
             b == Cont(c \div 4096)
             d == Cont(c \div 64)
             e == Cont(c)
             t == <<a, b, d, e>>
             s == t \o z
  <1>1. IsPoint(c)
    BY PointIs
  <1>2. c \in Nat /\ c < 1114112
    BY <1>1 DEF IsPoint
  <1>3. a \in Byte /\ b \in Byte /\ d \in Byte /\ e \in Byte
    BY <1>1, Utf8Bytes
  <1>4. /\ c \div 64 \in Nat /\ c \div 4096 \in Nat /\ c \div 262144 \in Nat
        /\ c \div 262144 < 5 /\ c = 64 * (c \div 64) + (c % 64)
        /\ (c \div 64) \div 64 = c \div 4096 /\ (c \div 4096) \div 64 = c \div 262144
    BY <1>2, Sixtyfour
  <1>5. c \div 64 = 64 * (c \div 4096) + ((c \div 64) % 64)
    BY <1>4, Sixtyfour
  <1>6. c \div 4096 = 64 * (c \div 262144) + ((c \div 4096) % 64)
    BY <1>4, Sixtyfour
  <1>7. /\ IS_CONT(b) /\ b % 64 = (c \div 4096) % 64
        /\ IS_CONT(d) /\ d % 64 = (c \div 64) % 64
        /\ IS_CONT(e) /\ e % 64 = c % 64
    BY <1>2, <1>4, ContIs
  <1>8. a \in Nat /\ 240 <= a /\ a <= 244 /\ a % 8 = c \div 262144
    BY <1>4, SMT
  <1> HIDE DEF a, b, d, e
  <1>9. t \in Seq(Byte) /\ Len(t) = 4 /\ t[1] = a /\ t[2] = b /\ t[3] = d /\ t[4] = e
    BY <1>3
  <1> HIDE DEF t
  <1>10. Head(s) = a /\ s[2] = b /\ s[3] = d /\ s[4] = e
    <2>1. 4 \in 1..4 /\ 2 \in 1..4 /\ 3 \in 1..4
      OBVIOUS
    <2>. QED
      BY <1>9, <2>1, Front
  <1> HIDE DEF s
  <1>11. Sequence(s) = 4
    BY <1>8, <1>10, NumberOfBytes DEF Sequence
  <1>12. PointOf(s, 4) = c
    <2>1. PointOf(s, 4) = (c \div 262144) * 262144 + ((c \div 4096) % 64) * 4096
                             + ((c \div 64) % 64) * 64 + (c % 64)
      BY <1>7, <1>8, <1>10 DEF PointOf
    <2>. QED
      BY <1>2, <1>4, <1>5, <1>6, <2>1, SMT
  <1>13. \A k \in 2..4 : IS_CONT(s[k])
    BY <1>7, <1>10
  <1>14. verify_utf8_sequence(s) = c
    <2>1. (4 > 1 => c >= 128) /\ (4 > 2 => c >= 2048)
      BY <1>2
    <2>. QED
      BY <1>11, <1>12, <1>13, <2>1, VerifiesAs
  <1>. QED
    BY <1>11, <1>14 DEF ReadAs, s, t, a, b, d, e
-----------------------------------------------------------------------------
(* The bytes out are the characters chars in UTF-8, whatever is behind.      *)
Stands(out, chars) ==
  /\ out \in Seq(Byte) /\ chars \in Seq(Nat)
  /\ \A z \in Terminated :
        /\ is_valid_utf8[out \o z] <=> is_valid_utf8[z]
        /\ CharactersOf[out \o z] = chars \o CharactersOf[z]

LEMMA VerifiedSeq ==
  ASSUME NEW chars \in Seq(Nat)
  PROVE  chars \in Seq(Verified)
  <1>1. \A i \in 1..Len(chars) : chars[i] \in Verified
    BY ElementOfSeq DEF Verified
  <1>. QED
    BY <1>1

LEMMA VerifiedConcat ==
  ASSUME NEW a \in Seq(Verified), NEW b \in Seq(Verified), NEW c \in Seq(Verified)
  PROVE  (a \o b) \o c = a \o (b \o c)
  BY ConcatAssociative

LEMMA StandsNone == Stands(<<>>, <<>>)
  <1>1. <<>> \in Seq(Byte) /\ <<>> \in Seq(Nat)
    BY EmptySeq
  <1>2. ASSUME NEW z \in Terminated
        PROVE  <<>> \o z = z /\ <<>> \o CharactersOf[z] = CharactersOf[z]
    <2>1. z \in Seq(Byte) /\ CharactersOf[z] \in Seq(Verified)
      BY TerminatedIs, CharactersOfIs
    <2>. QED
      BY <2>1, ConcatEmptySeq
  <1>. QED
    BY <1>1, <1>2 DEF Stands

LEMMA StandsBoth ==
  ASSUME NEW o, NEW c, NEW u, NEW d, Stands(o, c), Stands(u, d)
  PROVE  Stands(o \o u, c \o d)
  <1>1. o \in Seq(Byte) /\ c \in Seq(Nat) /\ u \in Seq(Byte) /\ d \in Seq(Nat)
    BY DEF Stands
  <1>2. o \o u \in Seq(Byte) /\ c \o d \in Seq(Nat)
    BY <1>1, ConcatProperties
  <1>3. ASSUME NEW z \in Terminated
        PROVE  /\ is_valid_utf8[(o \o u) \o z] <=> is_valid_utf8[z]
               /\ CharactersOf[(o \o u) \o z] = (c \o d) \o CharactersOf[z]
    <2>1. z \in Seq(Byte) /\ u \o z \in Terminated
      BY <1>1, TerminatedIs, InFront
    <2>2. (o \o u) \o z = o \o (u \o z)
      BY <1>1, <2>1, ConcatAssociative
    <2>3. /\ is_valid_utf8[o \o (u \o z)] <=> is_valid_utf8[u \o z]
          /\ is_valid_utf8[u \o z] <=> is_valid_utf8[z]
      BY <2>1, Zenon DEF Stands
    <2>4. CharactersOf[o \o (u \o z)] = c \o (d \o CharactersOf[z])
      <3>1. CharactersOf[o \o (u \o z)] = c \o CharactersOf[u \o z]
        BY <2>1, Zenon DEF Stands
      <3>2. CharactersOf[u \o z] = d \o CharactersOf[z]
        BY Zenon DEF Stands
      <3>. QED
        BY <3>1, <3>2
    <2>5. (c \o d) \o CharactersOf[z] = c \o (d \o CharactersOf[z])
      <3>1. c \in Seq(Verified) /\ d \in Seq(Verified) /\ CharactersOf[z] \in Seq(Verified)
        BY <1>1, VerifiedSeq, CharactersOfIs
      <3>. QED
        BY <3>1, VerifiedConcat
    <2>6. is_valid_utf8[(o \o u) \o z] <=> is_valid_utf8[z]
      BY <2>2, <2>3, Zenon
    <2>. QED
      BY <2>2, <2>4, <2>5, <2>6
  <1>. QED
    BY <1>2, <1>3 DEF Stands

LEMMA ReadAsStands ==
  ASSUME NEW c, IsCharacter(c), NEW b \in Seq(Byte), NEW l \in 1..4, Len(b) = l,
         \A z \in Terminated : ReadAs(b \o z, c, l)
  PROVE  Stands(b, <<c>>)
  <1>1. c \in Nat /\ c # -1
    <2>1. c \in Nat
      BY PointIs DEF IsPoint
    <2>. QED
      BY <2>1
  <1>2. <<c>> \in Seq(Nat)
    BY <1>1
  <1>3. ASSUME NEW z \in Terminated
        PROVE  /\ is_valid_utf8[b \o z] <=> is_valid_utf8[z]
               /\ CharactersOf[b \o z] = <<c>> \o CharactersOf[z]
    <2> DEFINE s == b \o z
    <2>1. /\ s \in Terminated /\ Len(s) = l + Len(z) /\ From(s, l + 1) = z
          /\ Len(z) \in Nat \ {0}
      BY InFront, TerminatedIs
    <2>2. Sequence(s) = l /\ verify_utf8_sequence(s) = c
      BY DEF ReadAs
    <2> HIDE DEF s
    <2>3. Len(s) # 1
      BY <2>1
    <2>4. is_valid_utf8[s] = ValidTurn(is_valid_utf8, s)
      BY <2>1, ValidIs, Zenon
    <2>5. ValidTurn(is_valid_utf8, s) <=> is_valid_utf8[z]
      BY <1>1, <2>1, <2>2, <2>3, Zenon DEF ValidTurn
    <2>6. CharactersOf[s] = CharacterTurn(CharactersOf, s)
      BY <2>1, CharactersOfIs
    <2>7. CharacterTurn(CharactersOf, s) = <<c>> \o CharactersOf[z]
      BY <1>1, <2>1, <2>2, <2>3 DEF CharacterTurn
    <2>8. is_valid_utf8[s] <=> is_valid_utf8[z]
      BY <2>4, <2>5, Zenon
    <2>. QED
      BY <2>6, <2>7, <2>8 DEF s
  <1>. QED
    BY <1>2, <1>3 DEF Stands

LEMMA Utf8Stands ==
  ASSUME NEW c, IsCharacter(c)
  PROVE  Stands(Utf8(c), <<c>>)
  <1>1. IsPoint(c)
    BY PointIs
  <1>2. c \in Nat
    BY <1>1 DEF IsPoint
  <1>3. CASE c < 128
    <2>1. Utf8(c) = <<c>>
      BY <1>3, SMT DEF Utf8
    <2>2. <<c>> \in Seq(Byte) /\ Len(<<c>>) = 1
      BY <1>1, <1>3, Utf8Bytes, OneByte
    <2>3. 1 \in 1..4
      OBVIOUS
    <2>4. Stands(<<c>>, <<c>>)
      BY <1>3, <2>2, <2>3, ReadsOne, ReadAsStands
    <2>. QED
      BY <2>1, <2>4
  <1>4. CASE c >= 128 /\ c < 2048
    <2> DEFINE t == <<192 + c \div 64, Cont(c)>>
    <2>1. Utf8(c) = t
      BY <1>2, <1>4, SMT DEF Utf8
    <2>2. t \in Seq(Byte) /\ Len(t) = 2
      BY <1>1, <1>4, Utf8Bytes, TwoBytes
    <2>3. \A z \in Terminated : ReadAs(t \o z, c, 2)
      BY <1>4, ReadsTwo
    <2>4. 2 \in 1..4
      OBVIOUS
    <2> HIDE DEF t
    <2>5. Stands(t, <<c>>)
      BY <2>2, <2>3, <2>4, ReadAsStands
    <2>. QED
      BY <2>1, <2>5
  <1>5. CASE c >= 2048 /\ c < 65536
    <2> DEFINE t == <<224 + c \div 4096, Cont(c \div 64), Cont(c)>>
    <2>1. Utf8(c) = t
      BY <1>2, <1>5, SMT DEF Utf8
    <2>2. t \in Seq(Byte) /\ Len(t) = 3
      BY <1>1, <1>5, Utf8Bytes, ThreeBytes
    <2>3. \A z \in Terminated : ReadAs(t \o z, c, 3)
      BY <1>5, ReadsThree
    <2>4. 3 \in 1..4
      OBVIOUS
    <2> HIDE DEF t
    <2>5. Stands(t, <<c>>)
      BY <2>2, <2>3, <2>4, ReadAsStands
    <2>. QED
      BY <2>1, <2>5
  <1>6. CASE c >= 65536
    <2> DEFINE t == <<240 + c \div 262144, Cont(c \div 4096), Cont(c \div 64), Cont(c)>>
    <2>1. Utf8(c) = t
      BY <1>2, <1>6, SMT DEF Utf8
    <2>2. t \in Seq(Byte) /\ Len(t) = 4
      BY <1>1, Utf8Bytes, FourBytes
    <2>3. \A z \in Terminated : ReadAs(t \o z, c, 4)
      BY <1>6, ReadsFour
    <2>4. 4 \in 1..4
      OBVIOUS
    <2> HIDE DEF t
    <2>5. Stands(t, <<c>>)
      BY <2>2, <2>3, <2>4, ReadAsStands
    <2>. QED
      BY <2>1, <2>5
  <1>7. c < 128 \/ (c >= 128 /\ c < 2048) \/ (c >= 2048 /\ c < 65536) \/ c >= 65536
    BY <1>2, SMT
  <1>. QED
    BY <1>3, <1>4, <1>5, <1>6, <1>7

(* Of the bytes alone.                                                      *)
LEMMA StandsAlone ==
  ASSUME NEW out, NEW chars, Stands(out, chars)
  PROVE  is_valid_utf8[out \o <<Nul>>] /\ CharactersOf[out \o <<Nul>>] = chars
  <1> DEFINE z == <<Nul>>
  <1>1. z \in Terminated /\ Len(z) = 1
    BY ClosingEnds
  <1> HIDE DEF z
  <1>2. is_valid_utf8[z]
    <2>1. ValidTurn(is_valid_utf8, z)
      BY <1>1, Zenon DEF ValidTurn
    <2>. QED
      BY <1>1, <2>1, ValidIs, Zenon
  <1>3. CharactersOf[z] = <<>>
    BY <1>1, CharactersOfIs DEF CharacterTurn
  <1>4. chars \in Seq(Nat)
    BY DEF Stands
  <1>5. CharactersOf[out \o z] = chars
    <2>1. CharactersOf[out \o z] = chars \o <<>>
      BY <1>1, <1>3 DEF Stands
    <2>. QED
      BY <1>4, <2>1, ConcatEmptySeq
  <1>6. is_valid_utf8[out \o z]
    BY <1>1, <1>2, Zenon DEF Stands
  <1>. QED
    BY <1>5, <1>6 DEF z
-----------------------------------------------------------------------------
(* A loop that puts pieces behind one another has a value after every turn,  *)
(* and only one.                                                           *)
Chain(n, b, c, f) == f[0] = b /\ \A i \in 1..n : f[i] = f[i - 1] \o c[i]

Chained(g, n, b, c) == [i \in 0..n |-> IF i = 0 THEN b ELSE g[i - 1] \o c[i]]

LEMMA ChainExists ==
  ASSUME NEW n \in Nat, NEW T, NEW b \in Seq(T), NEW c, c \in [1..n -> Seq(T)]
  PROVE  \E f \in [0..n -> Seq(T)] : f = Chained(f, n, b, c)
  <1> DEFINE turn == [i \in 1..n |-> [t \in Seq(T) |-> t \o c[i]]]
  <1>1. turn \in [1..n -> [Seq(T) -> Seq(T)]]
    BY ConcatProperties
  <1>2. PICK f \in [0..n -> Seq(T)] : f[0] = b /\ \A i \in 1..n : f[i] = turn[i][f[i - 1]]
    <2> DEFINE U == Seq(T)
    <2>1. IsLoop(n, U, b, turn)
      BY <1>1 DEF IsLoop
    <2> HIDE DEF turn, U
    <2>2. PICK f : AreValues(f, n, U, b, turn)
      BY <2>1, LoopHasValues
    <2>. QED
      BY <2>2 DEF AreValues, U
  <1>3. ASSUME NEW i \in 1..n PROVE f[i] = f[i - 1] \o c[i]
    <2>1. i - 1 \in 0..n
      OBVIOUS
    <2>2. f[i - 1] \in Seq(T)
      BY <2>1
    <2>. QED
      BY <1>2, <2>2
  <1> DEFINE h == Chained(f, n, b, c)
  <1>4. ASSUME NEW i \in 0..n PROVE f[i] = h[i]
    <2>1. i = 0 \/ (i # 0 /\ i \in 1..n)
      OBVIOUS
    <2>. QED
      BY <1>2, <1>3, <2>1 DEF Chained
  <1>5. f = h
    <2>1. f = [i \in 0..n |-> f[i]]
      OBVIOUS
    <2>2. h = [i \in 0..n |-> h[i]]
      BY DEF Chained
    <2> HIDE DEF h
    <2>. QED
      BY <1>4, <2>1, <2>2
  <1>. QED
    BY <1>5

LEMMA ChainedIs ==
  ASSUME NEW n \in Nat, NEW b, NEW c, NEW f, f = Chained(f, n, b, c)
  PROVE  Chain(n, b, c, f)
  <1>1. f = [i \in 0..n |-> IF i = 0 THEN b ELSE f[i - 1] \o c[i]]
    BY DEF Chained
  <1>2. 0 \in 0..n
    OBVIOUS
  <1>3. f[0] = b
    BY <1>1, <1>2
  <1>4. ASSUME NEW i \in 1..n PROVE f[i] = f[i - 1] \o c[i]
    <2>1. i \in 0..n /\ i # 0
      OBVIOUS
    <2>. QED
      BY <1>1, <2>1
  <1>. QED
    BY <1>3, <1>4 DEF Chain

LEMMA ChainsAgree ==
  ASSUME NEW n \in Nat, NEW m \in Nat, n <= m, NEW b, NEW c, NEW d, NEW f, NEW g,
         Chain(n, b, c, f), Chain(m, b, d, g), \A i \in 1..n : c[i] = d[i]
  PROVE  f[n] = g[n]
  <1> DEFINE G == {i \in Nat : i <= n => f[i] = g[i]}
  <1>1. 0 \in G
    BY DEF Chain
  <1>2. ASSUME NEW i \in Nat, i \in G PROVE i + 1 \in G
    <2>1. ASSUME i + 1 <= n PROVE f[i + 1] = g[i + 1]
      <3>1. i + 1 \in 1..n /\ i + 1 \in 1..m /\ (i + 1) - 1 = i /\ i <= n
        BY <2>1
      <3>2. f[i + 1] = f[i] \o c[i + 1]
        BY <3>1 DEF Chain
      <3>3. g[i + 1] = g[i] \o d[i + 1]
        BY <3>1 DEF Chain
      <3>. QED
        BY <1>2, <3>1, <3>2, <3>3
    <2>. QED
      BY <2>1
  <1> HIDE DEF G
  <1>3. Nat \subseteq G
    BY <1>1, <1>2, SetInduction
  <1>. QED
    BY <1>3 DEF G

(* The characters of a sequence of units: what the i-th adds.               *)
CharAt(us, i) ==
  CASE HighHalf(us[i]) -> <<>>
    [] LowHalf(us[i]) -> <<65536 + (us[i - 1] - 55296) * 1024 + us[i] - 56320>>
    [] OTHER -> <<us[i]>>

CharactersAdded(us) == [i \in 1..Len(us) |-> CharAt(us, i)]

LEMMA CharactersTyped ==
  ASSUME NEW us
  PROVE  \E T : CharactersAdded(us) \in [1..Len(us) -> Seq(T)]
  <1> DEFINE n == Len(us)
             T == {us[i] : i \in 1..n}
                  \cup {65536 + (us[i - 1] - 55296) * 1024 + us[i] - 56320 : i \in 1..n}
  <1>1. ASSUME NEW i \in 1..n PROVE CharAt(us, i) \in Seq(T)
    <2> DEFINE x == 65536 + (us[i - 1] - 55296) * 1024 + us[i] - 56320
    <2>1. x \in T /\ us[i] \in T
      OBVIOUS
    <2>2. CharAt(us, i) = <<>> \/ CharAt(us, i) = <<x>> \/ CharAt(us, i) = <<us[i]>>
      BY DEF CharAt
    <2> HIDE DEF T, x, n
    <2>3. <<>> \in Seq(T) /\ <<x>> \in Seq(T) /\ <<us[i]>> \in Seq(T)
      BY <2>1
    <2>. QED
      BY <2>2, <2>3
  <1> HIDE DEF T
  <1>. QED
    BY <1>1 DEF CharactersAdded

LEMMA ChainedCharacters ==
  ASSUME NEW us, NEW n \in Nat, n = Len(us), NEW g
  PROVE  Chained(g, n, <<>>, CharactersAdded(us))
           = [i \in 0..n |-> IF i = 0 THEN <<>> ELSE g[i - 1] \o CharAt(us, i)]
  <1> DEFINE c == CharactersAdded(us)
  <1>1. \A i \in 0..n : i # 0 => c[i] = CharAt(us, i)
    BY DEF CharactersAdded
  <1> HIDE DEF c
  <1>. QED
    BY <1>1 DEF Chained, c

LEMMA CharactersAre ==
  ASSUME NEW us \in Seq(Int)
  PROVE  \E f : Chain(Len(us), <<>>, CharactersAdded(us), f) /\ Characters(us) = f[Len(us)]
  <1> DEFINE n == Len(us)
             c == CharactersAdded(us)
             Body(g) == [i \in 0..n |-> IF i = 0 THEN <<>> ELSE g[i - 1] \o CharAt(us, i)]
             read == CHOOSE g : g = Body(g)
  <1>1. n \in Nat
    BY LenProperties
  <1>2. PICK f : f = Chained(f, n, <<>>, c)
    <2> HIDE DEF n
    <2>1. PICK T : c \in [1..n -> Seq(T)]
      BY CharactersTyped DEF n
    <2>2. <<>> \in Seq(T)
      BY EmptySeq
    <2> HIDE DEF c
    <2>3. \E f \in [0..n -> Seq(T)] : f = Chained(f, n, <<>>, c)
      BY <1>1, <2>1, <2>2, ChainExists, Zenon
    <2>. QED
      BY <2>3
  <1>3. \A g : Chained(g, n, <<>>, c) = Body(g)
    BY <1>1, ChainedCharacters
  <1>4. f = Body(f)
    BY <1>2, <1>3
  <1>5. read = Body(read)
    <2> HIDE DEF Body
    <2>. QED
      BY <1>4
  <1>6. Characters(us) = read[n]
    BY DEF Characters, CharAt
  <1> HIDE DEF read, Body, n, c
  <1>7. read = Chained(read, n, <<>>, c)
    BY <1>3, <1>5
  <1>8. Chain(n, <<>>, c, read)
    BY <1>1, <1>7, ChainedIs
  <1>. QED
    BY <1>6, <1>8 DEF n, c

(* One unit more.                                                          *)
NoFirstLow(us) == Len(us) # 0 => ~LowHalf(us[1])

LEMMA MoreIs ==
  ASSUME NEW us \in Seq(Int), NEW u \in Int
  PROVE  /\ Append(us, u) \in Seq(Int) /\ Len(us) \in Nat
         /\ Len(Append(us, u)) = Len(us) + 1 /\ Append(us, u)[Len(us) + 1] = u
         /\ \A i \in 1..Len(us) : Append(us, u)[i] = us[i]
  <1>1. Len(us) \in Nat
    BY LenProperties
  <1>2. /\ Append(us, u) \in Seq(Int)
        /\ Len(Append(us, u)) = Len(us) + 1
        /\ \A i \in 1..Len(us) : Append(us, u)[i] = us[i]
        /\ Append(us, u)[Len(us) + 1] = u
    BY AppendProperties
  <1>. QED
    BY <1>1, <1>2

LEMMA CharAtSame ==
  ASSUME NEW us, NEW vs, NEW n \in Nat, \A i \in 1..n : vs[i] = us[i],
         n # 0 => ~LowHalf(us[1]), NEW i \in 1..n
  PROVE  CharAt(us, i) = CharAt(vs, i)
  <1>1. vs[i] = us[i]
    OBVIOUS
  <1>2. CASE ~LowHalf(us[i])
    BY <1>1, <1>2 DEF CharAt
  <1>3. CASE LowHalf(us[i])
    <2>1. i # 1
      BY <1>3
    <2>2. i - 1 \in 1..n
      BY <2>1
    <2>3. vs[i - 1] = us[i - 1]
      BY <2>2
    <2>. QED
      BY <1>1, <2>3 DEF CharAt
  <1>. QED
    BY <1>2, <1>3

LEMMA CharactersMore ==
  ASSUME NEW us \in Seq(Int), NEW u \in Int, NoFirstLow(us)
  PROVE  Characters(Append(us, u)) = Characters(us) \o CharAt(Append(us, u), Len(us) + 1)
  <1> DEFINE vs == Append(us, u)
             n == Len(us)
             c == CharactersAdded(us)
             d == CharactersAdded(vs)
             e == <<>>
  <1>1. /\ vs \in Seq(Int) /\ n \in Nat /\ Len(vs) = n + 1
        /\ \A i \in 1..n : vs[i] = us[i]
    BY MoreIs
  <1>2. n # 0 => ~LowHalf(us[1])
    BY DEF NoFirstLow
  <1>3. PICK f : Chain(n, e, c, f) /\ Characters(us) = f[n]
    BY CharactersAre
  <1>4. PICK g : Chain(n + 1, e, d, g) /\ Characters(vs) = g[n + 1]
    <2> HIDE DEF vs, n
    <2>. QED
      BY <1>1, CharactersAre
  <1>5. \A i \in 1..n : c[i] = d[i]
    <2> HIDE DEF vs, n
    <2>1. ASSUME NEW i \in 1..n PROVE c[i] = d[i]
      <3>1. CharAt(us, i) = CharAt(vs, i)
        BY <1>1, <1>2, CharAtSame
      <3>2. i \in 1..Len(us) /\ i \in 1..Len(vs)
        BY <1>1 DEF n
      <3>. QED
        BY <3>1, <3>2 DEF CharactersAdded
    <2>. QED
      BY <2>1
  <1>6. d[n + 1] = CharAt(vs, n + 1)
    <2> HIDE DEF vs, n
    <2>1. n + 1 \in 1..Len(vs)
      BY <1>1
    <2>. QED
      BY <2>1 DEF CharactersAdded
  <1> HIDE DEF vs, n, c, d, e
  <1>7. f[n] = g[n]
    <2>1. n + 1 \in Nat /\ n <= n + 1
      BY <1>1
    <2>. QED
      BY <1>1, <1>3, <1>4, <1>5, <2>1, ChainsAgree
  <1>8. g[n + 1] = g[n] \o d[n + 1]
    <2>1. n + 1 \in 1..(n + 1) /\ (n + 1) - 1 = n
      BY <1>1
    <2>2. g[n + 1] = g[(n + 1) - 1] \o d[n + 1]
      BY <1>4, <2>1 DEF Chain
    <2>. QED
      BY <2>1, <2>2
  <1>9. Characters(vs) = Characters(us) \o CharAt(vs, n + 1)
    BY <1>3, <1>4, <1>6, <1>7, <1>8
  <1>. QED
    BY <1>9 DEF vs, n

LEMMA CharactersNone == Characters(<<>>) = <<>>
  <1> DEFINE e == <<>>
  <1>1. e \in Seq(Int) /\ Len(e) = 0
    BY EmptySeq
  <1>2. PICK f : Chain(Len(e), e, CharactersAdded(e), f) /\ Characters(e) = f[Len(e)]
    BY <1>1, CharactersAre
  <1> HIDE DEF e
  <1>3. f[0] = e
    BY <1>2 DEF Chain
  <1>. QED
    BY <1>1, <1>2, <1>3 DEF e

(* What the unit at the end adds.                                           *)
LEMMA Half == ASSUME NEW u PROVE ~(HighHalf(u) /\ LowHalf(u))
  BY HalvesDiffer, PointIs

LEMMA CharactersEnd ==
  ASSUME NEW us \in Seq(Int), NEW u \in Int, NoFirstLow(us)
  PROVE  /\ IsCharacter(u) => Characters(Append(us, u)) = Characters(us) \o <<u>>
         /\ HighHalf(u) => Characters(Append(us, u)) = Characters(us) \o <<>>
         /\ (LowHalf(u) /\ Len(us) # 0) =>
              Characters(Append(us, u)) = Characters(us) \o <<Paired(us[Len(us)], u)>>
  <1> DEFINE vs == Append(us, u)
             n == Len(us)
             c == CharAt(vs, n + 1)
  <1>1. n \in Nat /\ vs[n + 1] = u /\ \A i \in 1..n : vs[i] = us[i]
    BY MoreIs
  <1>2. Characters(vs) = Characters(us) \o c
    BY CharactersMore
  <1> HIDE DEF vs, n
  <1>3. IsCharacter(u) => c = <<u>>
    BY <1>1 DEF CharAt, IsCharacter
  <1>4. ASSUME HighHalf(u) PROVE c = <<>>
    <2>1. ~LowHalf(u)
      BY <1>4, Half
    <2>. QED
      BY <1>1, <1>4, <2>1, SMT DEF CharAt
  <1>5. ASSUME LowHalf(u), n # 0 PROVE c = <<Paired(us[n], u)>>
    <2>1. (n + 1) - 1 = n /\ vs[n] = us[n]
      BY <1>1, <1>5
    <2> DEFINE x == us[n]
    <2>2. x \in Int
      BY <1>1, <1>5, ElementOfSeq DEF n
    <2> HIDE DEF x
    <2>3. ~HighHalf(u)
      BY <1>5, Half
    <2>4. c = <<65536 + (vs[(n + 1) - 1] - 55296) * 1024 + vs[n + 1] - 56320>>
      BY <1>1, <1>5, <2>3, SMT DEF CharAt
    <2>5. c = <<65536 + (x - 55296) * 1024 + u - 56320>>
      BY <1>1, <2>1, <2>4 DEF x
    <2>6. 65536 + (x - 55296) * 1024 + u - 56320 = Paired(x, u)
      BY <2>2, SMT DEF Paired
    <2>. QED
      BY <2>5, <2>6 DEF x
  <1> HIDE DEF c
  <1>. QED
    BY <1>2, <1>3, <1>4, <1>5 DEF vs, n
-----------------------------------------------------------------------------
(* Units that no further unit makes legible.                                *)
BadAt(us, i, n) ==
  \/ us[i] = Wrong
  \/ HighHalf(us[i]) /\ i < n /\ ~LowHalf(us[i + 1])
  \/ LowHalf(us[i]) /\ ~(i > 1 /\ HighHalf(us[i - 1]))

Hopeless(us) == \E i \in 1..Len(us) : BadAt(us, i, Len(us))

LEMMA HopelessIs ==
  ASSUME NEW us \in Seq(Int), NEW u \in Int, Hopeless(us)
  PROVE  ~Legible(us) /\ Hopeless(Append(us, u))
  <1> DEFINE n == Len(us)
             vs == Append(us, u)
  <1>1. PICK i \in 1..n : BadAt(us, i, n)
    BY DEF Hopeless
  <1>2. ~Legible(us)
    BY <1>1 DEF Legible, BadAt
  <1>3. /\ n \in Nat /\ Len(vs) = n + 1
        /\ \A j \in 1..n : vs[j] = us[j]
    BY MoreIs
  <1> HIDE DEF n, vs
  <1>4. i \in 1..(n + 1) /\ vs[i] = us[i]
    BY <1>1, <1>3
  <1>5. BadAt(vs, i, n + 1)
    <2>1. CASE us[i] = Wrong
      BY <1>4, <2>1 DEF BadAt
    <2>2. CASE HighHalf(us[i]) /\ i < n /\ ~LowHalf(us[i + 1])
      <3>1. i + 1 \in 1..n /\ i < n + 1
        BY <1>3, <2>2
      <3>2. vs[i + 1] = us[i + 1]
        BY <1>3, <3>1
      <3>. QED
        BY <1>4, <2>2, <3>1, <3>2 DEF BadAt
    <2>3. CASE LowHalf(us[i]) /\ ~(i > 1 /\ HighHalf(us[i - 1]))
      <3>1. i > 1 => i - 1 \in 1..n
        BY <1>3
      <3>2. i > 1 => vs[i - 1] = us[i - 1]
        BY <1>3, <3>1
      <3>. QED
        BY <1>4, <2>3, <3>2 DEF BadAt
    <2>. QED
      BY <1>1, <2>1, <2>2, <2>3 DEF BadAt
  <1>6. Hopeless(vs)
    BY <1>3, <1>4, <1>5 DEF Hopeless
  <1>. QED
    BY <1>2, <1>6 DEF vs

LEMMA LegibleFirst ==
  ASSUME NEW us \in Seq(Int), Legible(us)
  PROVE  NoFirstLow(us)
  <1> DEFINE n == Len(us)
  <1>1. n \in Nat
    BY LenProperties
  <1>2. ASSUME n # 0, LowHalf(us[1]) PROVE FALSE
    <2>1. 1 \in 1..n
      BY <1>1, <1>2
    <2>2. 1 > 1
      BY <1>2, <2>1 DEF Legible
    <2>. QED
      BY <2>2
  <1>. QED
    BY <1>2 DEF NoFirstLow

(* A character more.                                                       *)
LEMMA UnitIs ==
  ASSUME NEW u
  PROVE  /\ IsCharacter(u) => u \in Int /\ u # Wrong /\ ~HighHalf(u) /\ ~LowHalf(u)
         /\ HighHalf(u) => u \in Int /\ u # Wrong /\ ~LowHalf(u)
         /\ LowHalf(u) => u \in Int /\ u # Wrong /\ ~HighHalf(u)
  <1>1. ASSUME IsCharacter(u) PROVE u \in Int /\ u # Wrong /\ ~HighHalf(u) /\ ~LowHalf(u)
    BY <1>1 DEF IsCharacter, Wrong
  <1>2. ASSUME HighHalf(u) PROVE u \in Int /\ u # Wrong
    <2>1. u \in Int /\ u >= 0
      BY <1>2, SMT DEF HighHalf
    <2>. QED
      BY <2>1 DEF Wrong
  <1>3. ASSUME LowHalf(u) PROVE u \in Int /\ u # Wrong
    <2>1. u \in Int /\ u >= 0
      BY <1>3, SMT DEF LowHalf
    <2>. QED
      BY <2>1 DEF Wrong
  <1>. QED
    BY <1>1, <1>2, <1>3, Half

LEMMA LegibleMore ==
  ASSUME NEW us \in Seq(Int), NEW u \in Int, Legible(us)
  PROVE  /\ IsCharacter(u) => Legible(Append(us, u))
         /\ (u = Wrong \/ LowHalf(u)) => Hopeless(Append(us, u))
  <1> DEFINE n == Len(us)
             vs == Append(us, u)
  <1>1. /\ n \in Nat /\ Len(vs) = n + 1 /\ vs[n + 1] = u
        /\ \A j \in 1..n : vs[j] = us[j]
    BY MoreIs
  <1>2. \A i \in 1..n : /\ us[i] # Wrong
                        /\ HighHalf(us[i]) => i < n /\ LowHalf(us[i + 1])
                        /\ LowHalf(us[i]) => i > 1 /\ HighHalf(us[i - 1])
    BY DEF Legible
  <1> HIDE DEF n, vs
  <1>3. ASSUME IsCharacter(u), NEW i \in 1..(n + 1)
        PROVE  /\ vs[i] # Wrong
               /\ HighHalf(vs[i]) => i < n + 1 /\ LowHalf(vs[i + 1])
               /\ LowHalf(vs[i]) => i > 1 /\ HighHalf(vs[i - 1])
    <2>1. CASE i = n + 1
      BY <1>1, <1>3, <2>1, UnitIs
    <2>2. CASE i # n + 1
      <3>1. i \in 1..n
        BY <1>1, <2>2
      <3>2. vs[i] = us[i] /\ vs[i] # Wrong
        BY <1>1, <1>2, <3>1
      <3>3. ASSUME HighHalf(vs[i]) PROVE i < n + 1 /\ LowHalf(vs[i + 1])
        <4>1. i < n /\ LowHalf(us[i + 1])
          BY <1>2, <3>1, <3>2, <3>3
        <4>2. i + 1 \in 1..n
          BY <1>1, <4>1
        <4>. QED
          BY <1>1, <4>1, <4>2
      <3>4. ASSUME LowHalf(vs[i]) PROVE i > 1 /\ HighHalf(vs[i - 1])
        <4>1. i > 1 /\ HighHalf(us[i - 1])
          BY <1>2, <3>1, <3>2, <3>4
        <4>2. i - 1 \in 1..n
          BY <1>1, <3>1, <4>1
        <4>. QED
          BY <1>1, <4>1, <4>2
      <3>. QED
        BY <3>2, <3>3, <3>4
    <2>. QED
      BY <2>1, <2>2
  <1>4. IsCharacter(u) => Legible(vs)
    BY <1>1, <1>3 DEF Legible
  <1>5. n + 1 \in 1..(n + 1)
    BY <1>1
  <1>6. ASSUME u = Wrong \/ LowHalf(u) PROVE Hopeless(vs)
    <2>1. CASE u = Wrong
      BY <1>1, <1>5, <2>1 DEF Hopeless, BadAt
    <2>2. CASE LowHalf(u)
      <3>1. ~(n + 1 > 1 /\ HighHalf(vs[(n + 1) - 1]))
        <4>1. SUFFICES ASSUME n + 1 > 1, HighHalf(vs[(n + 1) - 1]) PROVE FALSE
          OBVIOUS
        <4>2. n \in 1..n /\ (n + 1) - 1 = n
          BY <1>1, <4>1
        <4>3. HighHalf(us[n])
          BY <1>1, <4>1, <4>2
        <4>4. n < n
          BY <1>2, <4>2, <4>3
        <4>. QED
          BY <1>1, <4>4
      <3>2. BadAt(vs, n + 1, n + 1)
        BY <1>1, <2>2, <3>1 DEF BadAt
      <3>. QED
        BY <1>1, <1>5, <3>2 DEF Hopeless
    <2>. QED
      BY <1>6, <2>1, <2>2
  <1>. QED
    BY <1>4, <1>6 DEF vs

(* A first half more.                                                       *)
LEMMA OpenIs ==
  ASSUME NEW us \in Seq(Int), NEW h \in Int, Legible(us), HighHalf(h)
  PROVE  ~Legible(Append(us, h)) /\ NoFirstLow(Append(us, h))
  <1> DEFINE n == Len(us)
             vs == Append(us, h)
  <1>1. /\ n \in Nat /\ Len(vs) = n + 1 /\ vs[n + 1] = h
        /\ \A j \in 1..n : vs[j] = us[j]
    BY MoreIs
  <1> HIDE DEF vs
  <1>2. ~Legible(vs)
    <2>1. n + 1 \in 1..(n + 1) /\ ~(n + 1 < n + 1)
      BY <1>1
    <2>. QED
      BY <1>1, <2>1 DEF Legible
  <1>3. ASSUME LowHalf(vs[1]) PROVE FALSE
    <2>1. CASE n = 0
      BY <1>1, <1>3, <2>1, Half
    <2>2. CASE n # 0
      <3>1. 1 \in 1..n
        BY <1>1, <2>2
      <3>2. LowHalf(us[1])
        BY <1>1, <1>3, <3>1
      <3>. QED
        BY <2>2, <3>2, LegibleFirst DEF NoFirstLow
    <2>. QED
      BY <2>1, <2>2
  <1>. QED
    BY <1>2, <1>3 DEF NoFirstLow, vs

LEMMA OpenMore ==
  ASSUME NEW us \in Seq(Int), NEW h \in Int, Legible(us), HighHalf(h), NEW u \in Int
  PROVE  /\ LowHalf(u) => Legible(Append(Append(us, h), u))
         /\ ~LowHalf(u) => Hopeless(Append(Append(us, h), u))
  <1> DEFINE n == Len(us)
             vs == Append(us, h)
             ws == Append(vs, u)
  <1>1. /\ n \in Nat /\ Len(vs) = n + 1 /\ vs[n + 1] = h /\ vs \in Seq(Int)
        /\ \A j \in 1..n : vs[j] = us[j]
    BY MoreIs
  <1> HIDE DEF vs
  <1>2. /\ Len(ws) = (n + 1) + 1 /\ ws[(n + 1) + 1] = u
        /\ \A j \in 1..(n + 1) : ws[j] = vs[j]
    <2>1. /\ Len(ws) = Len(vs) + 1 /\ ws[Len(vs) + 1] = u
          /\ \A j \in 1..Len(vs) : ws[j] = vs[j]
      BY <1>1, MoreIs
    <2>. QED
      BY <1>1, <2>1
  <1>3. \A i \in 1..n : /\ us[i] # Wrong
                        /\ HighHalf(us[i]) => i < n /\ LowHalf(us[i + 1])
                        /\ LowHalf(us[i]) => i > 1 /\ HighHalf(us[i - 1])
    BY DEF Legible
  <1> HIDE DEF n, ws
  <1>4. (n + 1) + 1 = n + 2 /\ n + 1 \in 1..(n + 1)
    BY <1>1
  <1>5. /\ Len(ws) = n + 2 /\ ws[n + 2] = u /\ ws[n + 1] = h
        /\ \A j \in 1..n : ws[j] = us[j]
    <2>1. \A j \in 1..n : j \in 1..(n + 1)
      BY <1>1
    <2>. QED
      BY <1>1, <1>2, <1>4, <2>1
  <1>6. ASSUME LowHalf(u), NEW i \in 1..(n + 2)
        PROVE  /\ ws[i] # Wrong
               /\ HighHalf(ws[i]) => i < n + 2 /\ LowHalf(ws[i + 1])
               /\ LowHalf(ws[i]) => i > 1 /\ HighHalf(ws[i - 1])
    <2>1. CASE i = n + 2
      <3>1. i > 1 /\ i - 1 = n + 1
        BY <1>1, <2>1
      <3>. QED
        BY <1>5, <1>6, <2>1, <3>1, UnitIs
    <2>2. CASE i = n + 1
      <3>1. i < n + 2 /\ i + 1 = n + 2
        BY <1>1, <2>2
      <3>. QED
        BY <1>5, <1>6, <2>2, <3>1, UnitIs
    <2>3. CASE i # n + 1 /\ i # n + 2
      <3>1. i \in 1..n
        BY <1>1, <2>3
      <3>2. ws[i] = us[i] /\ ws[i] # Wrong
        BY <1>3, <1>5, <3>1
      <3>3. ASSUME HighHalf(ws[i]) PROVE i < n + 2 /\ LowHalf(ws[i + 1])
        <4>1. i < n /\ LowHalf(us[i + 1])
          BY <1>3, <3>1, <3>2, <3>3
        <4>2. i + 1 \in 1..n /\ i < n + 2
          BY <1>1, <4>1
        <4>. QED
          BY <1>5, <4>1, <4>2
      <3>4. ASSUME LowHalf(ws[i]) PROVE i > 1 /\ HighHalf(ws[i - 1])
        <4>1. i > 1 /\ HighHalf(us[i - 1])
          BY <1>3, <3>1, <3>2, <3>4
        <4>2. i - 1 \in 1..n
          BY <1>1, <3>1, <4>1
        <4>. QED
          BY <1>5, <4>1, <4>2
      <3>. QED
        BY <3>2, <3>3, <3>4
    <2>. QED
      BY <2>1, <2>2, <2>3
  <1>7. LowHalf(u) => Legible(ws)
    BY <1>5, <1>6 DEF Legible
  <1>8. ASSUME ~LowHalf(u) PROVE Hopeless(ws)
    <2>1. n + 1 \in 1..(n + 2) /\ n + 1 < n + 2 /\ (n + 1) + 1 = n + 2
      BY <1>1
    <2>2. BadAt(ws, n + 1, n + 2)
      BY <1>5, <1>8, <2>1 DEF BadAt
    <2>. QED
      BY <1>5, <2>1, <2>2 DEF Hopeless
  <1>. QED
    BY <1>7, <1>8 DEF ws, vs
-----------------------------------------------------------------------------
(* The pieces read so far are legible and read as their characters.         *)
Readable(us, b) ==
  \E out \in Seq(Byte) : Reads(b, out) /\ Stands(out, Characters(us)) /\ Len(out) <= Len(b)

LEMMA RoomAdds ==
  ASSUME NEW o \in Seq(Byte), NEW b \in Seq(Byte), NEW u \in Seq(Byte), NEW d \in Seq(Byte),
         Len(o) <= Len(b), Len(u) <= Len(d)
  PROVE  /\ o \o u \in Seq(Byte) /\ b \o d \in Seq(Byte) /\ Len(o \o u) <= Len(b \o d)
  <1> DEFINE m == Len(o)
             n == Len(b)
             j == Len(u)
             k == Len(d)
  <1>1. m \in Nat /\ n \in Nat /\ j \in Nat /\ k \in Nat /\ m <= n /\ j <= k
    BY LenProperties
  <1>2. /\ o \o u \in Seq(Byte) /\ Len(o \o u) = m + j
        /\ b \o d \in Seq(Byte) /\ Len(b \o d) = n + k
    BY ConcatProperties
  <1> HIDE DEF m, n, j, k
  <1>3. m + j <= n + k
    BY <1>1
  <1>. QED
    BY <1>2, <1>3

LEMMA ReadableMore ==
  ASSUME NEW us \in Seq(Int), NoFirstLow(us), NEW b \in Seq(Byte), Readable(us, b),
         NEW u, IsCharacter(u), NEW d \in Seq(Byte), Reads(d, Utf8(u)), Len(Utf8(u)) <= Len(d)
  PROVE  Readable(Append(us, u), b \o d)
  <1> DEFINE x == Utf8(u)
             c == Characters(us)
  <1>1. PICK o \in Seq(Byte) : Reads(b, o) /\ Stands(o, c) /\ Len(o) <= Len(b)
    BY DEF Readable
  <1>2. x \in Seq(Byte)
    BY PointIs, Utf8Is
  <1>3. Stands(x, <<u>>)
    BY Utf8Stands
  <1>4. u \in Int
    BY UnitIs
  <1>5. Characters(Append(us, u)) = c \o <<u>>
    BY <1>4, CharactersEnd
  <1> HIDE DEF x, c
  <1>6. Len(x) <= Len(d) /\ Reads(d, x)
    BY DEF x
  <1>7. Reads(b \o d, o \o x)
    BY <1>1, <1>2, <1>6, ReadsBoth
  <1>8. Stands(o \o x, c \o <<u>>)
    BY <1>1, <1>3, StandsBoth
  <1>9. o \o x \in Seq(Byte) /\ Len(o \o x) <= Len(b \o d)
    BY <1>1, <1>2, <1>6, RoomAdds
  <1>. QED
    BY <1>5, <1>7, <1>8, <1>9 DEF Readable

LEMMA ReadablePair ==
  ASSUME NEW us \in Seq(Int), Legible(us), NEW b \in Seq(Byte), Readable(us, b),
         NEW h \in Int, HighHalf(h), NEW hb \in Seq(Byte), IsCoded(hb, h),
         NEW u \in Int, LowHalf(u), NEW d \in Seq(Byte), IsCoded(d, u)
  PROVE  Readable(Append(Append(us, h), u), (b \o hb) \o d)
  <1> DEFINE p == Paired(h, u)
             x == Utf8(p)
             c == Characters(us)
             vs == Append(us, h)
  <1>1. PICK o \in Seq(Byte) : Reads(b, o) /\ Stands(o, c) /\ Len(o) <= Len(b)
    BY DEF Readable
  <1>2. h \in Leads /\ u \in Trails
    BY PointIs
  <1>3. IsPoint(p) /\ p >= 65536
    BY <1>2, PairedIs
  <1>4. Reads(hb \o d, x)
    BY <1>2, PairReads
  <1>5. Characters(Append(vs, u)) = c \o <<p>>
    <2>1. NoFirstLow(us)
      BY LegibleFirst
    <2>2. Characters(vs) = c \o <<>>
      BY <2>1, CharactersEnd
    <2>3. c \in Seq(Nat)
      BY <1>1 DEF Stands
    <2>4. Characters(vs) = c
      BY <2>2, <2>3, ConcatEmptySeq
    <2>5. vs \in Seq(Int) /\ Len(vs) = Len(us) + 1 /\ vs[Len(us) + 1] = h /\ Len(us) \in Nat
      BY MoreIs
    <2>6. NoFirstLow(vs)
      BY OpenIs
    <2> HIDE DEF vs, c, p
    <2>7. Len(vs) # 0 /\ vs[Len(vs)] = h
      BY <2>5
    <2>8. Characters(Append(vs, u)) = Characters(vs) \o <<Paired(vs[Len(vs)], u)>>
      BY <2>5, <2>6, <2>7, CharactersEnd
    <2>. QED
      BY <2>4, <2>7, <2>8 DEF p
  <1> HIDE DEF p, c, vs
  <1>6. IsCharacter(p)
    <2>1. p \in Int /\ p >= 65536
      BY <1>3 DEF IsPoint
    <2>2. p \notin Leads
      <3>1. ASSUME p \in Leads PROVE p <= 56319
        BY <3>1, SMT DEF Leads
      <3>. QED
        BY <2>1, <3>1, SMT
    <2>3. p \notin Trails
      <3>1. ASSUME p \in Trails PROVE p <= 57343
        BY <3>1, SMT DEF Trails
      <3>. QED
        BY <2>1, <3>1, SMT
    <2>. QED
      BY <1>3, <2>2, <2>3, PointIs
  <1>7. Stands(x, <<p>>)
    BY <1>6, Utf8Stands
  <1>8. x \in Seq(Byte) /\ Len(x) \in 1..4
    BY <1>3, Utf8Is
  <1>9. hb \o d \in Seq(Byte) /\ Len(hb \o d) = 12
    <2>1. Len(hb) = 6 /\ Len(d) = 6
      BY DEF IsCoded
    <2>2. hb \o d \in Seq(Byte) /\ Len(hb \o d) = Len(hb) + Len(d)
      BY ConcatProperties
    <2>. QED
      BY <2>1, <2>2
  <1> HIDE DEF x
  <1>10. Len(x) <= Len(hb \o d)
    <2> DEFINE n == Len(x)
    <2>1. n \in 1..4
      BY <1>8
    <2> HIDE DEF n
    <2>2. n <= 12
      BY <2>1
    <2>. QED
      BY <1>9, <2>2 DEF n
  <1>11. Reads(b \o (hb \o d), o \o x)
    BY <1>1, <1>4, <1>8, <1>9, ReadsBoth DEF x
  <1>12. Stands(o \o x, c \o <<p>>)
    BY <1>1, <1>7, StandsBoth
  <1>13. o \o x \in Seq(Byte) /\ Len(o \o x) <= Len(b \o (hb \o d))
    BY <1>1, <1>8, <1>9, <1>10, RoomAdds
  <1>14. (b \o hb) \o d = b \o (hb \o d)
    BY BytesConcat, SMTT(20)
  <1>. QED
    BY <1>5, <1>11, <1>12, <1>13, <1>14 DEF Readable, vs
-----------------------------------------------------------------------------
(* ... or a first half waits at their end for a second one ...              *)
HalfRead(us, b) ==
  \E vs \in Seq(Int), h \in Int, fb \in Seq(Byte), hb \in Seq(Byte) :
      /\ us = Append(vs, h) /\ b = fb \o hb
      /\ Legible(vs) /\ Readable(vs, fb)
      /\ HighHalf(h) /\ IsCoded(hb, h)

(* ... or the reader has failed, and nothing that follows mends it.          *)
Together(us, b) ==
  /\ us \in Seq(Int) /\ b \in Seq(Byte) /\ Skips(b)
  /\ \/ Legible(us) /\ Readable(us, b)
     \/ HalfRead(us, b)
     \/ Hopeless(us) /\ Fails(b)

LEMMA TogetherNone == Together(<<>>, <<>>)
  <1> DEFINE e == <<>>
  <1>1. e \in Seq(Int) /\ e \in Seq(Byte) /\ Len(e) = 0
    BY EmptySeq
  <1>2. Skips(e) /\ Reads(e, e) /\ Stands(e, e) /\ Characters(e) = e
    BY SkipsNone, ReadsNone, StandsNone, CharactersNone
  <1> HIDE DEF e
  <1>3. Legible(e)
    BY <1>1 DEF Legible
  <1>4. Readable(e, e)
    <2>1. Len(e) <= Len(e)
      BY <1>1
    <2>. QED
      BY <1>1, <1>2, <2>1 DEF Readable
  <1>5. Together(e, e)
    BY <1>1, <1>2, <1>3, <1>4 DEF Together
  <1>. QED
    BY <1>5 DEF e

LEMMA TogetherMore ==
  ASSUME NEW us, NEW b, Together(us, b), NEW d, NEW u, StandsFor(d, u)
  PROVE  Together(Append(us, u), b \o d)
  <1> DEFINE ws == Append(us, u)
             bd == b \o d
  <1>1. us \in Seq(Int) /\ b \in Seq(Byte) /\ Skips(b)
    BY DEF Together
  <1>2. d \in Seq(Byte) /\ Skips(d)
    BY DEF StandsFor
  <1>3. u = Wrong \/ IsCharacter(u) \/ HighHalf(u) \/ LowHalf(u)
    BY DEF StandsFor
  <1>4. u \in Int
    <2>1. Wrong \in Int
      BY DEF Wrong
    <2>. QED
      BY <1>3, <2>1, UnitIs
  <1>5. /\ u = Wrong => Fails(d)
        /\ IsCharacter(u) => Reads(d, Utf8(u)) /\ Len(Utf8(u)) <= Len(d)
        /\ (HighHalf(u) \/ LowHalf(u)) => IsCoded(d, u)
    BY UnitIs DEF StandsFor
  <1>6. ws \in Seq(Int) /\ bd \in Seq(Byte) /\ Skips(bd)
    <2>1. ws \in Seq(Int)
      BY <1>1, <1>4, MoreIs
    <2>2. bd \in Seq(Byte)
      BY <1>1, <1>2, ConcatProperties
    <2>3. Skips(bd)
      BY <1>1, <1>2, SkipsBoth
    <2>. QED
      BY <2>1, <2>2, <2>3
  <1>7. ASSUME Legible(us), Readable(us, b)
        PROVE  \/ Legible(ws) /\ Readable(ws, bd)
               \/ HalfRead(ws, bd)
               \/ Hopeless(ws) /\ Fails(bd)
    <2>1. CASE IsCharacter(u)
      <3>1. Legible(ws)
        BY <1>1, <1>4, <1>7, <2>1, LegibleMore
      <3>2. NoFirstLow(us)
        BY <1>1, <1>7, LegibleFirst
      <3>3. Readable(ws, bd)
        BY <1>1, <1>2, <1>5, <1>7, <2>1, <3>2, ReadableMore
      <3>. QED
        BY <3>1, <3>3
    <2>2. CASE HighHalf(u)
      <3>1. IsCoded(d, u)
        BY <1>5, <2>2
      <3>2. HalfRead(ws, bd)
        BY <1>1, <1>2, <1>4, <1>7, <2>2, <3>1 DEF HalfRead
      <3>. QED
        BY <3>2
    <2>3. CASE u = Wrong \/ LowHalf(u)
      <3>1. Hopeless(ws)
        BY <1>1, <1>4, <1>7, <2>3, LegibleMore
      <3>2. Fails(d)
        <4>1. CASE u = Wrong
          BY <1>5, <4>1
        <4>2. CASE LowHalf(u)
          <5>1. u \in Trails /\ IsCoded(d, u)
            BY <1>5, <4>2, PointIs
          <5>. QED
            BY <5>1, CodeReads
        <4>. QED
          BY <2>3, <4>1, <4>2
      <3>3. PICK o \in Seq(Byte) : Reads(b, o)
        BY <1>7 DEF Readable
      <3>4. Fails(bd)
        BY <1>1, <1>2, <3>2, <3>3, FailsBehind
      <3>. QED
        BY <3>1, <3>4
    <2>. QED
      BY <1>3, <2>1, <2>2, <2>3
  <1>8. ASSUME HalfRead(us, b)
        PROVE  (Legible(ws) /\ Readable(ws, bd)) \/ (Hopeless(ws) /\ Fails(bd))
    <2>1. PICK vs \in Seq(Int), h \in Int, fb \in Seq(Byte), hb \in Seq(Byte) :
            /\ us = Append(vs, h) /\ b = fb \o hb
            /\ Legible(vs) /\ Readable(vs, fb)
            /\ HighHalf(h) /\ IsCoded(hb, h)
      BY <1>8 DEF HalfRead
    <2>2. ASSUME LowHalf(u) PROVE Legible(ws) /\ Readable(ws, bd)
      <3>1. Legible(ws)
        BY <1>4, <2>1, <2>2, OpenMore
      <3>2. IsCoded(d, u)
        BY <1>5, <2>2
      <3>3. Readable(Append(Append(vs, h), u), (fb \o hb) \o d)
        BY <1>2, <1>4, <2>1, <2>2, <3>2, ReadablePair
      <3>. QED
        BY <2>1, <3>1, <3>3
    <2>3. ASSUME ~LowHalf(u) PROVE Hopeless(ws) /\ Fails(bd)
      <3>1. Hopeless(ws)
        BY <1>4, <2>1, <2>3, OpenMore
      <3>2. h \in Leads
        BY <2>1, PointIs
      <3>3. \A q \in Terminated : ~LowFirst(d \o q)
        BY <2>3 DEF StandsFor
      <3>4. Fails(hb \o d)
        BY <1>2, <2>1, <3>2, <3>3, HighFails
      <3>5. PICK o \in Seq(Byte) : Reads(fb, o)
        BY <2>1 DEF Readable
      <3>6. hb \o d \in Seq(Byte)
        BY <1>2, ConcatProperties
      <3>7. Fails(fb \o (hb \o d))
        BY <3>4, <3>5, <3>6, FailsBehind
      <3>8. (fb \o hb) \o d = fb \o (hb \o d)
        BY <1>2, BytesConcat, SMTT(20)
      <3>. QED
        BY <2>1, <3>1, <3>7, <3>8
    <2>. QED
      BY <2>2, <2>3
  <1>9. ASSUME Hopeless(us), Fails(b) PROVE Hopeless(ws) /\ Fails(bd)
    <2>1. Hopeless(ws)
      BY <1>1, <1>4, <1>9, HopelessIs
    <2>2. Fails(bd)
      BY <1>1, <1>2, <1>9, FailsFirst
    <2>. QED
      BY <2>1, <2>2
  <1>10. \/ Legible(us) /\ Readable(us, b)
         \/ HalfRead(us, b)
         \/ Hopeless(us) /\ Fails(b)
    BY DEF Together
  <1> HIDE DEF ws, bd
  <1>11. Together(ws, bd)
    BY <1>6, <1>7, <1>8, <1>9, <1>10 DEF Together
  <1>. QED
    BY <1>11 DEF ws, bd
-----------------------------------------------------------------------------
(* What the reader makes of a quoted text.                                  *)
LEMMA QuotedIs ==
  ASSUME NEW t \in Terminated
  PROVE  get_quoted_string(<<Quote>> \o t) =
            IF Closing[t] # -1 /\ process_string[t][Closing[t]].ok
              THEN Took(Closing[t] + 2, process_string[t][Closing[t]].out)
              ELSE Nothing
  <1> DEFINE s == <<Quote>> \o t
  <1>1. Quote \in Byte
    BY DEF Quote, Byte
  <1>2. Head(s) = Quote /\ From(s, 2) = t
    BY <1>1, ByteInFront
  <1> HIDE DEF s
  <1>3. skip_quotes(s) = Closing[t]
    BY <1>2 DEF skip_quotes
  <1>4. get_quoted_string(s) =
            IF Closing[t] # -1 /\ process_string[t][Closing[t]].ok
              THEN Took(Closing[t] + 2, process_string[t][Closing[t]].out)
              ELSE Nothing
    BY <1>2, <1>3 DEF get_quoted_string
  <1>. QED
    BY <1>4 DEF s

LEMMA ClosedAt ==
  ASSUME NEW b \in Seq(Byte), Skips(b)
  PROVE  /\ b \o <<Quote, Nul>> \in Terminated /\ Closing[b \o <<Quote, Nul>>] = Len(b)
         /\ b \o <<Nul>> \in Terminated /\ Closing[b \o <<Nul>>] = -1
         /\ Len(b) \in Nat /\ Len(b) # -1
  <1> DEFINE q == <<Quote, Nul>>
             z == <<Nul>>
             n == Len(b)
  <1>1. q \in Terminated /\ Closing[q] = 0 /\ z \in Terminated /\ Closing[z] = -1
    BY ClosingEnds
  <1>2. n \in Nat
    BY LenProperties
  <1> HIDE DEF q, z
  <1>3. b \o q \in Terminated /\ b \o z \in Terminated
    BY <1>1, InFront
  <1>4. Closing[b \o q] = Beyond(n, 0) /\ Closing[b \o z] = Beyond(n, -1)
    BY <1>1 DEF Skips
  <1> HIDE DEF n
  <1>5. Beyond(n, 0) = n /\ Beyond(n, -1) = -1 /\ n # -1
    BY <1>2 DEF Beyond
  <1>. QED
    BY <1>2, <1>3, <1>4, <1>5 DEF q, z, n

LEMMA ReadWhole ==
  ASSUME NEW b \in Seq(Byte), Skips(b), NEW out \in Seq(Byte), Reads(b, out)
  PROVE  get_quoted_string(<<Quote>> \o (b \o <<Quote, Nul>>)) = Took(Len(b) + 2, out)
  <1> DEFINE q == <<Quote, Nul>>
             t == b \o q
             n == Len(b)
  <1>1. t \in Terminated /\ Closing[t] = n /\ n \in Nat /\ n # -1
    BY ClosedAt
  <1>2. q \in Terminated
    BY ClosingEnds
  <1>3. process_string[q][0] = Passed(<<>>)
    BY <1>2, ReadIs
  <1>4. process_string[t][n + 0] = Onto(out, process_string[q][0])
    BY <1>2 DEF Reads
  <1>5. Passed(<<>>) \in Outcome
    <2>1. <<>> \in Seq(Byte)
      BY EmptySeq
    <2>. QED
      BY <2>1 DEF Outcome
  <1>6. Onto(out, Passed(<<>>)) = Passed(out)
    BY <1>5, OntoTwice
  <1> HIDE DEF t, q, n
  <1>7. process_string[t][n] = Passed(out)
    <2>1. n + 0 = n
      BY <1>1
    <2>. QED
      BY <1>3, <1>4, <1>6, <2>1
  <1>8. Passed(out).ok = TRUE /\ Passed(out).out = out
    BY DEF Passed
  <1>9. get_quoted_string(<<Quote>> \o t) = Took(n + 2, out)
    BY <1>1, <1>7, <1>8, QuotedIs
  <1>. QED
    BY <1>9 DEF t, q, n

LEMMA RefusedWhole ==
  ASSUME NEW b \in Seq(Byte), Skips(b),
         process_string[b \o <<Quote, Nul>>][Len(b)] = Failed
  PROVE  get_quoted_string(<<Quote>> \o (b \o <<Quote, Nul>>)) = Nothing
  <1> DEFINE t == b \o <<Quote, Nul>>
             n == Len(b)
  <1>1. t \in Terminated /\ Closing[t] = n
    BY ClosedAt
  <1> HIDE DEF t, n
  <1>2. process_string[t][n] = Failed
    BY DEF t, n
  <1>3. Failed.ok = FALSE
    BY DEF Failed
  <1>4. get_quoted_string(<<Quote>> \o t) = Nothing
    BY <1>1, <1>2, <1>3, QuotedIs
  <1>. QED
    BY <1>4 DEF t

LEMMA UnclosedIs ==
  ASSUME NEW b \in Seq(Byte), Skips(b)
  PROVE  get_quoted_string(<<Quote>> \o (b \o <<Nul>>)) = Nothing
  <1> DEFINE t == b \o <<Nul>>
  <1>1. t \in Terminated /\ Closing[t] = -1
    BY ClosedAt
  <1> HIDE DEF t
  <1>2. get_quoted_string(<<Quote>> \o t) = Nothing
    BY <1>1, QuotedIs
  <1>. QED
    BY <1>2 DEF t

(* No second half comes with the closing quote.                             *)
LEMMA QuoteIsNoLow == ~LowFirst(<<Quote, Nul>>)
  BY DEF LowFirst, Quote, Backslash

LEMMA TogetherRead ==
  ASSUME NEW us, NEW b, Together(us, b)
  PROVE  /\ us \in Seq(Int) /\ b \in Seq(Byte) /\ Skips(b)
         /\ Legible(us) => Readable(us, b)
         /\ ~Legible(us) =>
              get_quoted_string(<<Quote>> \o (b \o <<Quote, Nul>>)) = Nothing
  <1> DEFINE q == <<Quote, Nul>>
  <1>1. us \in Seq(Int) /\ b \in Seq(Byte) /\ Skips(b)
    BY DEF Together
  <1>2. q \in Terminated /\ ~LowFirst(q)
    BY ClosingEnds, QuoteIsNoLow
  <1>3. PICK k \in Nat : Len(b) + k = Len(b)
    <2>1. Len(b) \in Nat
      BY <1>1, LenProperties
    <2>. QED
      BY <2>1
  <1> HIDE DEF q
  <1>4. ASSUME HalfRead(us, b)
        PROVE  ~Legible(us) /\ process_string[b \o q][Len(b)] = Failed
    <2>1. PICK vs \in Seq(Int), h \in Int, fb \in Seq(Byte), hb \in Seq(Byte) :
            /\ us = Append(vs, h) /\ b = fb \o hb
            /\ Legible(vs) /\ Readable(vs, fb)
            /\ HighHalf(h) /\ IsCoded(hb, h)
      BY <1>4 DEF HalfRead
    <2>2. ~Legible(us)
      BY <2>1, OpenIs
    <2>3. h \in Leads
      BY <2>1, PointIs
    <2>4. PICK o \in Seq(Byte) : Reads(fb, o)
      BY <2>1 DEF Readable
    <2>5. /\ hb \o q \in Terminated /\ (fb \o hb) \o q = fb \o (hb \o q)
          /\ Len(fb \o hb) + k = Len(fb) + (Len(hb) + k) /\ Len(hb) + k \in Nat
      <3>1. hb \o q \in Terminated /\ q \in Seq(Byte)
        BY <1>2, InFront, TerminatedIs
      <3>4. (fb \o hb) \o q = fb \o (hb \o q)
        BY <3>1, BytesConcat, SMTT(20)
      <3>2. Len(fb \o hb) + k = Len(fb) + (Len(hb) + k)
        BY <1>2, BothInFront
      <3>3. Len(hb) + k \in Nat
        BY <1>2, BothInFront
      <3>. QED
        BY <3>1, <3>2, <3>3, <3>4
    <2>6. process_string[hb \o q][Len(hb) + k] = Failed
      BY <1>2, <2>1, <2>3, HighAlone
    <2>7. process_string[fb \o (hb \o q)][Len(fb) + (Len(hb) + k)]
            = Onto(o, process_string[hb \o q][Len(hb) + k])
      BY <2>4, <2>5 DEF Reads
    <2>8. Onto(o, Failed) = Failed
      BY DEF Onto, Failed
    <2>9. process_string[b \o q][Len(b) + k] = Failed
      BY <2>1, <2>5, <2>6, <2>7, <2>8
    <2>. QED
      BY <1>3, <2>2, <2>9
  <1>5. ASSUME Hopeless(us), Fails(b)
        PROVE  ~Legible(us) /\ process_string[b \o q][Len(b)] = Failed
    <2>1. ~Legible(us)
      <3>1. 0 \in Int
        OBVIOUS
      <3>. QED
        BY <1>1, <1>5, <3>1, HopelessIs
    <2>2. process_string[b \o q][Len(b) + k] = Failed
      BY <1>2, <1>3, <1>5 DEF Fails
    <2>. QED
      BY <1>3, <2>1, <2>2
  <1>6. \/ Legible(us) /\ Readable(us, b)
        \/ HalfRead(us, b)
        \/ Hopeless(us) /\ Fails(b)
    BY DEF Together
  <1>7. Legible(us) => Readable(us, b)
    BY <1>4, <1>5, <1>6
  <1>8. ASSUME ~Legible(us) PROVE get_quoted_string(<<Quote>> \o (b \o q)) = Nothing
    <2>1. process_string[b \o q][Len(b)] = Failed
      BY <1>4, <1>5, <1>6, <1>8
    <2>. QED
      BY <1>1, <2>1, RefusedWhole DEF q
  <1>. QED
    BY <1>1, <1>7, <1>8 DEF q
-----------------------------------------------------------------------------
(* A byte as it is written is read as itself.                               *)
WritesAs(w, b) == w \in Seq(Byte) /\ Skips(w) /\ Reads(w, b)

LEMMA WrittenAlone ==
  ASSUME NEW c \in Byte, c >= 32, c \notin {Quote, Backslash}
  PROVE  WritesAs(<<c>>, <<c>>)
  <1>1. c \notin {Nul, Quote, Backslash}
    BY DEF Nul, Byte
  <1>. QED
    BY <1>1, OneByte, SkipsByte, ByteReads DEF WritesAs

LEMMA WrittenEscaped ==
  ASSUME NEW e \in Simple
  PROVE  WritesAs(<<Backslash, e>>, <<Meant(e)>>)
  <1>1. e \in Byte /\ e # Nul /\ Backslash \in Byte
    BY MeantIs DEF Backslash, Byte
  <1>. QED
    BY <1>1, TwoBytes, SkipsEscape, EscapeReads DEF WritesAs

LEMMA WrittenCoded ==
  ASSUME NEW c \in 0..31
  PROVE  WritesAs(<<Backslash, LetterU, 48, 48, HexDigit(c \div 16), HexDigit(c % 16)>>, <<c>>)
  <1> DEFINE w == <<Backslash, LetterU, 48, 48, HexDigit(c \div 16), HexDigit(c % 16)>>
  <1>1. c \in Int /\ 0 <= c /\ c <= 31
    OBVIOUS
  <1>2. IsCode(c) /\ IsPoint(c)
    BY <1>1, SMT DEF IsCode, IsPoint
  <1>3. c \notin Leads /\ c \notin Trails
    <2>1. c \notin Leads
      BY <1>1, SMT DEF Leads
    <2>2. c \notin Trails
      BY <1>1, SMT DEF Trails
    <2>. QED
      BY <2>1, <2>2
  <1>4. IsCharacter(c) /\ ~HighHalf(c) /\ ~LowHalf(c) /\ c # Wrong
    BY <1>2, <1>3, PointIs, UnitIs
  <1>5. Utf8(c) = <<c>>
    BY <1>1, SMT DEF Utf8
  <1>6. w = Coded(c, 97)
    <2>1. /\ c \div 4096 = 0 /\ (c \div 256) % 16 = 0 /\ (c \div 16) % 16 = c \div 16
      BY <1>1, SMT
    <2>2. Digit(0, 97) = 48
      BY DEF Digit
    <2>3. \A n : HexDigit(n) = Digit(n, 97)
      BY DEF HexDigit, Digit
    <2> DEFINE x == c \div 16
               y == c % 16
               k == c \div 4096
               m == (c \div 256) % 16
               l == (c \div 16) % 16
    <2>4. k = 0 /\ m = 0 /\ l = x
      BY <2>1
    <2>5. Coded(c, 97)
            = <<Backslash, LetterU, Digit(k, 97), Digit(m, 97), Digit(l, 97), Digit(y, 97)>>
      BY DEF Coded
    <2>6. w = <<Backslash, LetterU, 48, 48, HexDigit(x), HexDigit(y)>>
      OBVIOUS
    <2> HIDE DEF k, m, l, x, y, w
    <2>. QED
      BY <2>2, <2>3, <2>4, <2>5, <2>6
  <1> HIDE DEF w
  <1>7. StandsFor(w, c)
    BY <1>2, <1>6, CodeStands
  <1>8. w \in Seq(Byte) /\ Skips(w) /\ Reads(w, Utf8(c))
    BY <1>4, <1>7 DEF StandsFor
  <1>9. WritesAs(w, <<c>>)
    BY <1>5, <1>8 DEF WritesAs
  <1>. QED
    BY <1>9 DEF w

LEMMA WrittenReads ==
  ASSUME NEW c \in Byte, NEW slashes \in BOOLEAN
  PROVE  WritesAs(Written(c, slashes), <<c>>)
  <1> DEFINE w == Written(c, slashes)
  <1>1. CASE c = Slash
    <2>1. c >= 32 /\ c \notin {Quote, Backslash} /\ c \in Simple /\ Meant(c) = c
      BY <1>1 DEF Slash, Quote, Backslash, Simple, Meant
    <2>2. w = IF slashes THEN <<Backslash, c>> ELSE <<c>>
      BY <1>1 DEF Written
    <2>3. WritesAs(<<c>>, <<c>>)
      BY <2>1, WrittenAlone
    <2>4. WritesAs(<<Backslash, c>>, <<Meant(c)>>)
      BY <2>1, WrittenEscaped
    <2>. QED
      BY <2>1, <2>2, <2>3, <2>4
  <1>2. CASE c # Slash /\ \E e \in Simple : Meant(e) = c
    <2> DEFINE e == CHOOSE e \in Simple : Meant(e) = c
    <2>1. w = <<Backslash, e>>
      BY <1>2 DEF Written
    <2>2. e \in Simple /\ Meant(e) = c
      BY <1>2
    <2> HIDE DEF e
    <2>3. WritesAs(<<Backslash, e>>, <<Meant(e)>>)
      BY <2>2, WrittenEscaped
    <2>. QED
      BY <2>1, <2>2, <2>3
  <1>3. CASE c # Slash /\ ~(\E e \in Simple : Meant(e) = c) /\ c < 32
    <2>1. c \in 0..31
      BY <1>3 DEF Byte
    <2>2. w = <<Backslash, LetterU, 48, 48, HexDigit(c \div 16), HexDigit(c % 16)>>
      BY <1>3 DEF Written
    <2>. QED
      BY <2>1, <2>2, WrittenCoded
  <1>4. CASE c # Slash /\ ~(\E e \in Simple : Meant(e) = c) /\ ~(c < 32)
    <2>1. c >= 32
      BY <1>4 DEF Byte
    <2>2. /\ Quote \in Simple /\ Meant(Quote) = Quote
          /\ Backslash \in Simple /\ Meant(Backslash) = Backslash
      BY DEF Simple, Meant, Quote, Backslash
    <2>3. c \notin {Quote, Backslash}
      BY <1>4, <2>2
    <2>4. w = <<c>>
      BY <1>4 DEF Written
    <2>. QED
      BY <2>1, <2>3, <2>4, WrittenAlone
  <1>. QED
    BY <1>1, <1>2, <1>3, <1>4

-----------------------------------------------------------------------------
(* What is written for a string: a piece for each of its bytes.             *)
WrittenFor(s, slashes) == [i \in 1..Len(s) |-> Written(s[i], slashes)]

WrittenLoop(g, s, slashes, b) ==
  [i \in 0..Len(s) |-> IF i = 0 THEN b ELSE g[i - 1] \o Written(s[i], slashes)]

LEMMA ChainedWritten ==
  ASSUME NEW s, NEW slashes, Len(s) \in Nat, NEW b, NEW g
  PROVE  Chained(g, Len(s), b, WrittenFor(s, slashes)) = WrittenLoop(g, s, slashes, b)
  <1> DEFINE c == WrittenFor(s, slashes)
             n == Len(s)
  <1>1. \A i \in 0..n : i # 0 => c[i] = Written(s[i], slashes)
    BY DEF WrittenFor
  <1> HIDE DEF c
  <1>. QED
    BY <1>1 DEF Chained, WrittenLoop, c

LEMMA SerializedIs ==
  ASSUME NEW s \in Seq(Byte), NEW slashes \in BOOLEAN
  PROVE  \E f : /\ Chain(Len(s), <<Quote>>, WrittenFor(s, slashes), f)
                /\ json_serialize_string(s, slashes) = Append(f[Len(s)], Quote)
  <1> DEFINE n == Len(s)
             b == <<Quote>>
             c == WrittenFor(s, slashes)
             Body(g) == WrittenLoop(g, s, slashes, b)
             buf == CHOOSE g : g = Body(g)
  <1>1. n \in Nat
    BY LenProperties
  <1>2. b \in Seq(Byte)
    BY DEF Quote, Byte
  <1>3. c \in [1..n -> Seq(Byte)]
    <2>1. ASSUME NEW i \in 1..n PROVE Written(s[i], slashes) \in Seq(Byte)
      <3>1. s[i] \in Byte
        BY ElementOfSeq
      <3>. QED
        BY <3>1, WrittenReads DEF WritesAs
    <2>. QED
      BY <2>1 DEF WrittenFor
  <1>11. ASSUME NEW g PROVE Chained(g, n, b, c) = Body(g)
    BY <1>1, ChainedWritten
  <1> HIDE DEF c, b, n
  <1>4. PICK f : f = Chained(f, n, b, c)
    BY <1>1, <1>2, <1>3, ChainExists
  <1>6. f = Body(f)
    BY <1>4, <1>11
  <1>7. buf = Body(buf)
    <2> HIDE DEF Body
    <2>. QED
      BY <1>6
  <1>8. json_serialize_string(s, slashes) = Append(buf[n], Quote)
    BY DEF json_serialize_string, WrittenLoop, n, b
  <1> HIDE DEF buf, Body
  <1>9. buf = Chained(buf, n, b, c)
    BY <1>7, <1>11
  <1>10. Chain(n, b, c, buf)
    BY <1>1, <1>9, ChainedIs
  <1>. QED
    BY <1>8, <1>10 DEF n, b, c

(* Behind the quote there is, after every turn, what is read as the bytes    *)
(* written so far.                                                         *)
FirstOf(s, i, o) == Len(o) = i /\ \A j \in 1..i : o[j] = s[j]

LEMMA FirstMore ==
  ASSUME NEW s \in Seq(Byte), NEW i \in Nat, i + 1 <= Len(s),
         NEW o \in Seq(Byte), FirstOf(s, i, o)
  PROVE  o \o <<s[i + 1]>> \in Seq(Byte) /\ FirstOf(s, i + 1, o \o <<s[i + 1]>>)
  <1> DEFINE x == s[i + 1]
             e == <<x>>
             p == o \o e
  <1>1. x \in Byte
    <2>1. Len(s) \in Nat
      BY LenProperties
    <2>2. i + 1 \in 1..Len(s)
      BY <2>1
    <2>. QED
      BY <2>2, ElementOfSeq
  <1>2. e \in Seq(Byte) /\ Len(e) = 1 /\ e[1] = x
    BY <1>1
  <1>3. Len(o) = i /\ \A j \in 1..i : o[j] = s[j]
    BY DEF FirstOf
  <1> HIDE DEF x, e
  <1>4. /\ p \in Seq(Byte) /\ Len(p) = Len(o) + Len(e)
        /\ \A j \in 1..(Len(o) + Len(e)) : p[j] = IF j <= Len(o) THEN o[j] ELSE e[j - Len(o)]
    <2>1. e \in Seq(Byte)
      BY <1>2
    <2>. QED
      BY <2>1, ConcatProperties
  <1> HIDE DEF p
  <1>5. ASSUME NEW j \in 1..(i + 1) PROVE p[j] = s[j]
    <2>1. p[j] = IF j <= i THEN o[j] ELSE e[j - i]
      BY <1>2, <1>3, <1>4
    <2>2. (j \in 1..i /\ j <= i) \/ (j = i + 1 /\ ~(j <= i) /\ j - i = 1)
      OBVIOUS
    <2>. QED
      BY <1>2, <1>3, <2>1, <2>2 DEF x
  <1>. QED
    BY <1>2, <1>3, <1>4, <1>5 DEF FirstOf, p, e, x

LEMMA FirstIsAll ==
  ASSUME NEW s \in Seq(Byte), NEW o \in Seq(Byte), FirstOf(s, Len(s), o)
  PROVE  o = s
  BY SeqEqual DEF FirstOf

LEMMA WritesBoth ==
  ASSUME NEW v, NEW a \in Seq(Byte), NEW w, NEW b \in Seq(Byte), WritesAs(v, a), WritesAs(w, b)
  PROVE  WritesAs(v \o w, a \o b)
  <1>1. /\ v \in Seq(Byte) /\ Skips(v) /\ Reads(v, a)
        /\ w \in Seq(Byte) /\ Skips(w) /\ Reads(w, b)
    BY DEF WritesAs
  <1>2. v \o w \in Seq(Byte)
    BY <1>1, ConcatProperties
  <1>3. Skips(v \o w)
    BY <1>1, SkipsBoth
  <1>4. Reads(v \o w, a \o b)
    BY <1>1, ReadsBoth
  <1>. QED
    BY <1>2, <1>3, <1>4 DEF WritesAs

LEMMA WrittenAfter ==
  ASSUME NEW s \in Seq(Byte), NEW slashes \in BOOLEAN, NEW f,
         Chain(Len(s), <<Quote>>, WrittenFor(s, slashes), f)
  PROVE  \E w : WritesAs(w, s) /\ f[Len(s)] = <<Quote>> \o w
  <1> DEFINE n == Len(s)
             b == <<Quote>>
             c == WrittenFor(s, slashes)
             Done(i) == \E w \in Seq(Byte), o \in Seq(Byte) :
                           WritesAs(w, o) /\ FirstOf(s, i, o) /\ f[i] = b \o w
             G == {i \in Nat : i <= n => Done(i)}
  <1>1. n \in Nat
    BY LenProperties
  <1>2. b \in Seq(Byte)
    BY DEF Quote, Byte
  <1>3. f[0] = b /\ \A i \in 1..n : f[i] = f[i - 1] \o c[i]
    BY DEF Chain
  <1>4. \A i \in 1..n : c[i] = Written(s[i], slashes)
    BY DEF WrittenFor
  <1> HIDE DEF b, c, n
  <1>5. 0 \in G
    <2> DEFINE e == <<>>
    <2>1. e \in Seq(Byte) /\ Len(e) = 0 /\ b \o e = b
      BY <1>2, EmptySeq, ConcatEmptySeq
    <2>2. WritesAs(e, e)
      BY <2>1, SkipsNone, ReadsNone DEF WritesAs
    <2> HIDE DEF e
    <2>3. FirstOf(s, 0, e)
      BY <2>1 DEF FirstOf
    <2>. QED
      BY <1>3, <2>1, <2>2, <2>3
  <1>6. ASSUME NEW i \in Nat, i \in G PROVE i + 1 \in G
    <2>1. ASSUME i + 1 <= n PROVE Done(i + 1)
      <3>1. i <= n /\ i + 1 \in 1..n /\ (i + 1) - 1 = i
        BY <1>1, <2>1
      <3>2. PICK w \in Seq(Byte), o \in Seq(Byte) :
              WritesAs(w, o) /\ FirstOf(s, i, o) /\ f[i] = b \o w
        BY <1>6, <3>1
      <3> DEFINE x == s[i + 1]
                 v == Written(x, slashes)
      <3>3. x \in Byte
        BY <3>1, ElementOfSeq DEF n
      <3>4. WritesAs(v, <<x>>)
        BY <3>3, WrittenReads
      <3>5. f[i + 1] = (b \o w) \o v
        BY <1>3, <1>4, <3>1, <3>2
      <3>6. o \o <<x>> \in Seq(Byte) /\ FirstOf(s, i + 1, o \o <<x>>)
        BY <2>1, <3>2, FirstMore DEF n
      <3>7. <<x>> \in Seq(Byte)
        BY <3>3, OneByte
      <3> HIDE DEF v, x
      <3>8. v \in Seq(Byte)
        BY <3>4 DEF WritesAs
      <3>9. WritesAs(w \o v, o \o <<x>>)
        BY <3>2, <3>4, <3>7, WritesBoth
      <3>10. (b \o w) \o v = b \o (w \o v)
        BY <1>2, <3>2, <3>8, BytesConcat
      <3>11. w \o v \in Seq(Byte)
        BY <3>2, <3>8, ConcatProperties
      <3>. QED
        BY <3>5, <3>6, <3>9, <3>10, <3>11
    <2> HIDE DEF Done
    <2>. QED
      BY <2>1
  <1> HIDE DEF G
  <1>7. Nat \subseteq G
    BY <1>5, <1>6, SetInduction
  <1>8. Done(n)
    <2>1. n \in G /\ n <= n
      BY <1>1, <1>7
    <2>. QED
      BY <2>1 DEF G
  <1>9. PICK w \in Seq(Byte), o \in Seq(Byte) :
          WritesAs(w, o) /\ FirstOf(s, n, o) /\ f[n] = b \o w
    BY <1>8
  <1>10. o = s
    BY <1>9, FirstIsAll DEF n
  <1>. QED
    BY <1>9, <1>10 DEF n, b

(* What json_serialize_string writes for a string is read by               *)
(* get_quoted_string as that string, for any bytes, NULs and what is no     *)
(* UTF-8 among them, and however slashes are written.                       *)
THEOREM WrittenIsRead ==
  ASSUME NEW s \in Seq(Byte), NEW slashes \in BOOLEAN
  PROVE  LET written == json_serialize_string(s, slashes)
         IN  get_quoted_string(written \o <<Nul>>) = Took(Len(written), s)
  <1> DEFINE written == json_serialize_string(s, slashes)
             b == <<Quote>>
             z == <<Nul>>
             q == <<Quote, Nul>>
  <1>1. PICK f : /\ Chain(Len(s), b, WrittenFor(s, slashes), f)
                 /\ written = Append(f[Len(s)], Quote)
    BY SerializedIs
  <1>2. PICK w : WritesAs(w, s) /\ f[Len(s)] = b \o w
    BY <1>1, WrittenAfter
  <1>3. w \in Seq(Byte) /\ Skips(w) /\ Reads(w, s)
    BY <1>2 DEF WritesAs
  <1>4. get_quoted_string(b \o (w \o q)) = Took(Len(w) + 2, s)
    BY <1>3, ReadWhole
  <1>5. Quote \in Byte /\ Nul \in Byte
    BY DEF Quote, Nul, Byte
  <1>6. b \in Seq(Byte) /\ z \in Seq(Byte) /\ Len(b) = 1
    BY <1>5
  <1>7. q = b \o z
    BY Prefixed1
  <1> HIDE DEF written, z, q
  <1>8. b \o w \in Seq(Byte) /\ Len(b \o w) = 1 + Len(w) /\ Len(w) \in Nat
    BY <1>3, <1>6, ConcatProperties, LenProperties
  <1>9. written = (b \o w) \o b
    <2>1. Append(b \o w, Quote) = (b \o w) \o <<Quote>>
      BY <1>5, <1>8, AppendIsConcat
    <2>. QED
      BY <1>1, <1>2, <2>1
  <1> HIDE DEF b
  <1>10. Len(written) = Len(w) + 2
    <2>1. Len((b \o w) \o b) = Len(b \o w) + Len(b)
      BY <1>6, <1>8, ConcatProperties
    <2>2. (1 + Len(w)) + 1 = Len(w) + 2
      BY <1>8
    <2>. QED
      BY <1>6, <1>8, <1>9, <2>1, <2>2
  <1>11. written \o z = b \o (w \o q)
    <2>1. ((b \o w) \o b) \o z = (b \o w) \o (b \o z)
      BY <1>6, <1>8, BytesConcat, SMTT(20)
    <2>2. q \in Seq(Byte)
      BY <1>6, <1>7, ConcatProperties
    <2>3. (b \o w) \o q = b \o (w \o q)
      <3>1. b \in Seq(Byte) /\ w \in Seq(Byte)
        BY <1>3, <1>6
      <3>. QED
        BY <2>2, <3>1, BytesConcat
    <2>. QED
      BY <1>7, <1>9, <2>1, <2>3
  <1>12. get_quoted_string(written \o z) = Took(Len(written), s)
    BY <1>4, <1>10, <1>11
  <1>. QED
    BY <1>12 DEF written, z
-----------------------------------------------------------------------------
(* However a string is put together, it is read up to where its pieces say,  *)
(* and refused for good once one of them is wrong.                          *)
LEMMA PiecesTogether == StringSpec => []Together(units, bytes)
  <1>1. StartString => Together(units, bytes)
    BY TogetherNone DEF StartString
  <1>2. Together(units, bytes) /\ [AddUnit]_string => Together(units, bytes)'
    <2> SUFFICES ASSUME Together(units, bytes), [AddUnit]_string
                 PROVE  Together(units', bytes')
      BY DEF Together, Readable, HalfRead, Legible, Hopeless
    <2>1. CASE AddUnit
      <3>1. PICK u \in Units : bytes' = bytes \o u.bytes /\ units' = Append(units, u.unit)
        BY <2>1 DEF AddUnit
      <3>2. StandsFor(u.bytes, u.unit)
        BY UnitsStand
      <3>. QED
        BY <3>1, <3>2, TogetherMore
    <2>2. CASE UNCHANGED string
      BY <2>2 DEF string
    <2>. QED
      BY <2>1, <2>2
  <1>. QED
    BY <1>1, <1>2, PTL DEF StringSpec

LEMMA TogetherExact ==
  ASSUME Together(units, bytes)
  PROVE  StringsExact
  <1> DEFINE r == get_quoted_string(<<Quote>> \o (bytes \o <<Quote, Nul>>))
             unclosed == get_quoted_string(<<Quote>> \o (bytes \o <<Nul>>))
             Back == \A slashes \in BOOLEAN :
                       LET written == json_serialize_string(r.out, slashes)
                       IN  get_quoted_string(written \o <<Nul>>) = Took(Len(written), r.out)
  <1>1. /\ units \in Seq(Int) /\ bytes \in Seq(Byte) /\ Skips(bytes)
        /\ Legible(units) => Readable(units, bytes)
        /\ ~Legible(units) => r = Nothing
    BY TogetherRead
  <1>2. unclosed = Nothing
    BY <1>1, UnclosedIs
  <1>3. ASSUME ~Legible(units) PROVE r.len = 0
    BY <1>1, <1>3, TookIs DEF Nothing
  <1>4. ASSUME Legible(units)
        PROVE  /\ r.len = Len(bytes) + 2
               /\ is_valid_utf8[r.out \o <<Nul>>]
               /\ CharactersOf[r.out \o <<Nul>>] = Characters(units)
               /\ Len(r.out) <= Len(bytes)
               /\ Back
    <2>1. PICK out \in Seq(Byte) : /\ Reads(bytes, out) /\ Stands(out, Characters(units))
                                   /\ Len(out) <= Len(bytes)
      BY <1>1, <1>4 DEF Readable
    <2>2. r = Took(Len(bytes) + 2, out)
      BY <1>1, <2>1, ReadWhole
    <2>3. r.len = Len(bytes) + 2 /\ r.out = out
      BY <2>2, TookIs
    <2>4. is_valid_utf8[out \o <<Nul>>] /\ CharactersOf[out \o <<Nul>>] = Characters(units)
      BY <2>1, StandsAlone
    <2> HIDE DEF r
    <2>5. Back
      BY <2>3, WrittenIsRead
    <2>. QED
      BY <2>1, <2>3, <2>4, <2>5
  <1> HIDE DEF r, unclosed
  <1>5. r.len = IF Legible(units) THEN Len(bytes) + 2 ELSE 0
    BY <1>3, <1>4
  <1>6. StringsExact <=>
          /\ r.len = IF Legible(units) THEN Len(bytes) + 2 ELSE 0
          /\ Legible(units) =>
               /\ is_valid_utf8[r.out \o <<Nul>>]
               /\ CharactersOf[r.out \o <<Nul>>] = Characters(units)
               /\ Len(r.out) <= Len(bytes)
               /\ Back
          /\ unclosed = Nothing
    BY DEF StringsExact, r, unclosed
  <1> HIDE DEF Back
  <1>. QED
    BY <1>2, <1>4, <1>5, <1>6

(* Every quoted text is read as the characters its pieces stand for by       *)
(* RFC 8259, within the room process_string has made, and refused exactly   *)
(* when they stand for none or the closing quote is missing; and what       *)
(* json_serialize_string writes for what was read is read as that again:    *)
(* for any characters, codes and malformed pieces, in any number and order. *)
THEOREM StringsAlwaysExact == StringSpec => []StringsExact
  <1>1. Together(units, bytes) => StringsExact
    BY TogetherExact
  <1>. QED
    BY <1>1, PiecesTogether, PTL
=============================================================================
