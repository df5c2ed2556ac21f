----------------------------- MODULE ObjectTable -----------------------------
(***************************************************************************)
(* The hash table behind a JSON object (parson.c): an array of items in    *)
(* the order they came, and an array of cells with linear probing that     *)
(* holds their numbers.  A full table is copied item by item into one      *)
(* twice as large; a removal moves the last item into the gap and then     *)
(* closes the gap the name leaves among the cells.  Each turn of these two *)
(* loops is a step, so that what holds in their midst can be stated.       *)
(*                                                                         *)
(* Items are counted from 1, so that 0 in a cell is OBJECT_INVALID_IX.     *)
(* An item is a record of what names, values and cell_ixs hold under one   *)
(* index; hashes, the fourth such array, is a function of the name.        *)
(* Capacities are powers of two, so h & (cell_capacity - 1) is h modulo    *)
(* cell_capacity.  Names are compared as such, hash_string is any function *)
(* to the natural numbers: names with one hash are to be told apart.       *)
(***************************************************************************)
EXTENDS Integers, Sequences

CONSTANTS
    Names,
    Values,
    hash_string,   \* a number for each name
    StartCap       \* STARTING_CAPACITY

ASSUME TableAssumption ==
    /\ hash_string \in [Names -> Nat]
    /\ StartCap \in Nat /\ StartCap >= 2
    /\ {"success", "failure", "null"} \cap Values = {}

VARIABLES
    scarce,        \* rigid: malloc may fail
    object,        \* the JSON_Object
    pc,            \* "idle", in the loop of a growth, or in that of a removal
    arg,           \* what is being added or set
    fresh,         \* new_object of json_object_grow_and_rehash
    next,          \* the item to copy
    hole, probe, turns,   \* i, j and x of json_object_remove_internal
    answer         \* the last call and its result

growth == <<arg, fresh, next>>
gap == <<hole, probe, turns>>
vars == <<scarce, object, pc, growth, gap, answer>>

Empty == 0
INVALID == -1

Positions(t) == 0..(t.cap - 1)
Count(t) == Len(t.items)
ItemCapacity(t) == (t.cap * 7) \div 10
Full(t) == Count(t) >= ItemCapacity(t)

Table(cap, cells, items) == [cap |-> cap, cells |-> cells, items |-> items]

json_object_init(c) == Table(c, [p \in 0..(c - 1) |-> Empty], <<>>)

Home(t, n) == hash_string[n] % t.cap
Succ(t, p) == IF p + 1 = t.cap THEN 0 ELSE p + 1

(* How many steps a probe takes from cell p to cell q.                      *)
Steps(t, p, q) == IF p <= q THEN q - p ELSE (t.cap - p) + q

(* The cells at which a probe for n ends: empty, or with the item of n.     *)
Stops(t, n) ==
    {p \in Positions(t) : t.cells[p] = Empty \/ t.items[t.cells[p]].name = n}

(* The cell where n is or belongs, the first of them from n's home on;      *)
(* INVALID when a probe goes all round.                                     *)
json_object_get_cell_ix(t, n) ==
    LET stops == Stops(t, n)
        h == Home(t, n)
    IN  IF stops = {} THEN INVALID
        ELSE CHOOSE p \in stops : \A q \in stops : Steps(t, h, p) <= Steps(t, h, q)

ItemIn(t, n) == t.cells[json_object_get_cell_ix(t, n)]

Found(t, n) ==
    LET ix == json_object_get_cell_ix(t, n)
    IN  ix # INVALID /\ t.cells[ix] # Empty

(* The five assignments at the end of json_object_add.                      *)
Placed(t, n, v, ix) ==
    Table(t.cap, [t.cells EXCEPT ![ix] = Count(t) + 1],
          Append(t.items, [name |-> n, value |-> v, cell |-> ix]))

Added(t, n, v) == Placed(t, n, v, json_object_get_cell_ix(t, n))
-----------------------------------------------------------------------------
NoTable == json_object_init(0)
NoArg == [call |-> "none", name |-> "", value |-> "null"]

Answer(call, n, result) == [call |-> call, name |-> n, result |-> result]
Idle == pc = "idle"
At(place) == pc = place

(* json_object_make: no cells before the first name.                        *)
Init ==
    /\ scarce \in BOOLEAN
    /\ object = NoTable
    /\ pc = "idle"
    /\ arg = NoArg /\ fresh = NoTable /\ next = 0
    /\ hole = 0 /\ probe = 0 /\ turns = 0
    /\ answer = Answer("none", "", "success")

Failing(call, n) ==
    /\ answer' = Answer(call, n, "failure")
    /\ UNCHANGED <<scarce, object, pc, growth, gap>>

AddPresent(n) ==
    /\ Idle
    /\ Found(object, n)
    /\ Failing("add", n)

(* json_object_set_value refuses a value that has a parent.                 *)
SetAttached(n) ==
    /\ Idle
    /\ Failing("set_attached", n)

(* The old value is freed and the new one put in its place.                 *)
WithValue(t, k, v) ==
    Table(t.cap, t.cells,
          [t.items EXCEPT ![k] = [name |-> t.items[k].name, value |-> v, cell |-> t.items[k].cell]])

SetPresent(n, v) ==
    /\ Idle
    /\ Found(object, n)
    /\ object' = WithValue(object, ItemIn(object, n), v)
    /\ answer' = Answer("set", n, "success")
    /\ UNCHANGED <<scarce, pc, growth, gap>>

(* json_object_add and json_object_set_value with room for another item.    *)
Insert(call, n, v) ==
    /\ Idle
    /\ ~Found(object, n)
    /\ ~Full(object)
    /\ object' = Added(object, n, v)
    /\ answer' = Answer(call, n, "success")
    /\ UNCHANGED <<scarce, pc, growth, gap>>

(* json_object_init has made the new table; the old one is still in use.    *)
BeginGrowth(call, n, v) ==
    /\ Idle
    /\ ~Found(object, n)
    /\ Full(object)
    /\ arg' = [call |-> call, name |-> n, value |-> v]
    /\ fresh' = json_object_init(IF object.cap * 2 > StartCap THEN object.cap * 2
                                                             ELSE StartCap)
    /\ next' = 1
    /\ pc' = "grow"
    /\ UNCHANGED <<scarce, object, gap, answer>>

(* No memory for the larger table, or for the copy of the key of a set.     *)
NoMemory(call, n) ==
    /\ Idle
    /\ scarce
    /\ ~Found(object, n)
    /\ call = "set" \/ Full(object)
    /\ Failing(call, n)
-----------------------------------------------------------------------------
(* One turn of the copying loop.  That the copy could refuse the item or    *)
(* have to grow itself is left out: RehashFits shows that it cannot.        *)
Rehash ==
    /\ At("grow") /\ next <= Count(object)
    /\ LET item == object.items[next]
       IN  fresh' = Added(fresh, item.name, item.value)
    /\ next' = next + 1
    /\ UNCHANGED <<scarce, object, pc, arg, gap, answer>>

(* Mutant: the cell found before the growth is used after it.               *)
GrownUnprobed ==
    Placed(fresh, arg.name, arg.value,
           IF object.cap = 0 THEN 0 ELSE json_object_get_cell_ix(object, arg.name))

(* The item goes where a second probe, of the new table, ends.              *)
Grown == Added(fresh, arg.name, arg.value)

EndGrowth ==
    /\ pc' = "idle"
    /\ arg' = NoArg /\ fresh' = NoTable /\ next' = 0
    /\ UNCHANGED <<scarce, gap>>

FinishGrowth ==
    /\ At("grow") /\ next > Count(object)
    /\ object' = Grown
    /\ answer' = Answer(arg.call, arg.name, "success")
    /\ EndGrowth

(* parson_strdup fails when the table has grown already.                    *)
KeyNotCopied ==
    /\ At("grow") /\ next > Count(object)
    /\ scarce /\ arg.call = "set"
    /\ object' = fresh
    /\ answer' = Answer("set", arg.name, "failure")
    /\ EndGrowth
-----------------------------------------------------------------------------
RemoveAbsent(n) ==
    /\ Idle
    /\ ~Found(object, n)
    /\ Failing("remove", n)

(* The table without item k: the last item takes its place and its cell     *)
(* learns the new number.  The cell of k itself still holds k.              *)
ItemRemoved(t, k) ==
    LET last == Count(t)
        kept == SubSeq(t.items, 1, last - 1)
    IN  IF k < last
          THEN Table(t.cap, [t.cells EXCEPT ![t.items[last].cell] = k],
                     [kept EXCEPT ![k] = t.items[last]])
          ELSE Table(t.cap, t.cells, kept)

Remove(n) ==
    /\ Idle
    /\ Found(object, n)
    /\ object' = ItemRemoved(object, ItemIn(object, n))
    /\ hole' = json_object_get_cell_ix(object, n)
    /\ probe' = hole' /\ turns' = 0
    /\ pc' = "shift"
    /\ answer' = Answer("remove", n, "success")
    /\ UNCHANGED <<scarce, growth>>

(* Mutant: a cluster that goes round the end of the cells is forgotten.     *)
MustMoveStraight(i, j, k) == j > i /\ (k <= i \/ k > j)

(* Whether the name in cell j, whose probe begins at k, has to pass i.      *)
MustMove(i, j, k) ==
    \/ j > i /\ (k <= i \/ k > j)
    \/ j < i /\ (k <= i /\ k > j)

(* The item of cell j moves to cell i.                                      *)
Moved(t, i, j) ==
    LET k == t.cells[j]
        item == t.items[k]
    IN  Table(t.cap, [t.cells EXCEPT ![i] = k],
              [t.items EXCEPT ![k] = [name |-> item.name, value |-> item.value, cell |-> i]])

Onward == turns < object.cap - 1 /\ object.cells[Succ(object, probe)] # Empty

Shift ==
    /\ At("shift") /\ Onward
    /\ probe' = Succ(object, probe) /\ turns' = turns + 1
    /\ LET k == Home(object, object.items[object.cells[probe']].name)
       IN  IF MustMove(hole, probe', k)
             THEN object' = Moved(object, hole, probe') /\ hole' = probe'
             ELSE UNCHANGED <<object, hole>>
    /\ UNCHANGED <<scarce, pc, growth, answer>>

FinishRemove ==
    /\ At("shift") /\ ~Onward
    /\ object' = Table(object.cap, [object.cells EXCEPT ![hole] = Empty], object.items)
    /\ pc' = "idle"
    /\ hole' = 0 /\ probe' = 0 /\ turns' = 0
    /\ UNCHANGED <<scarce, growth, answer>>

json_object_clear ==
    /\ Idle
    /\ object' = json_object_init(object.cap)
    /\ answer' = Answer("clear", "", "success")
    /\ UNCHANGED <<scarce, pc, growth, gap>>

json_object_getn_value(t, n) ==
    IF Found(t, n) THEN t.items[ItemIn(t, n)].value ELSE "null"

Get(n) ==
    /\ Idle
    /\ answer' = Answer("get", n, json_object_getn_value(object, n))
    /\ UNCHANGED <<scarce, object, pc, growth, gap>>
-----------------------------------------------------------------------------
json_object_add(n, v) == Insert("add", n, v) \/ BeginGrowth("add", n, v)

json_object_set_value(n, v) ==
    SetPresent(n, v) \/ Insert("set", n, v) \/ BeginGrowth("set", n, v)

Next ==
    \/ Rehash \/ FinishGrowth \/ KeyNotCopied
    \/ Shift \/ FinishRemove \/ json_object_clear
    \/ \E n \in Names :
          \/ AddPresent(n) \/ SetAttached(n) \/ RemoveAbsent(n) \/ Remove(n) \/ Get(n)
          \/ NoMemory("add", n) \/ NoMemory("set", n)
          \/ \E v \in Values : json_object_add(n, v) \/ json_object_set_value(n, v)

Spec == Init /\ [][Next]_vars

-----------------------------------------------------------------------------
Item(t) == [name : Names, value : Values, cell : Positions(t)]

Shape(t) ==
    /\ t.cap \in Nat
    /\ t.items \in Seq(Item(t))
    /\ t.cells \in [Positions(t) -> 0..t.cap]
    /\ Count(t) <= ItemCapacity(t)

(* Items and cells point at each other, but for the cell a removal is about *)
(* to clear; no name is there twice.                                        *)
Linked(t, gone) ==
    /\ \A k \in 1..Count(t) :
          t.items[k].cell # gone /\ t.cells[t.items[k].cell] = k
    /\ \A p \in Positions(t) \ {gone} :
          t.cells[p] # Empty =>
              t.cells[p] \in 1..Count(t) /\ t.items[t.cells[p]].cell = p
    /\ \A k, l \in 1..Count(t) : t.items[k].name = t.items[l].name => k = l

(* A probe for the name in cell c passes cell p.                            *)
Passes(t, c, p) ==
    LET h == Home(t, t.items[t.cells[c]].name)
    IN  Steps(t, h, p) < Steps(t, h, c)

Taken(t) == {p \in Positions(t) : t.cells[p] # Empty}

(* No probe for a name that is there stops before it.                       *)
Reachable(t) == \A c \in Taken(t), p \in Positions(t) : Passes(t, c, p) => p \in Taken(t)

(* In the midst of a removal only names behind the probe are still cut off  *)
(* by the hole, and the probe has met no empty cell.                        *)
HoleInv(t, i, j, x) ==
    /\ i \in Taken(t) /\ j \in Positions(t) /\ x \in Nat
    /\ ~Full(t)
    /\ \A c \in Taken(t) \ {i} :
          /\ \A p \in Positions(t) : Passes(t, c, p) => p \in Taken(t)
          /\ Passes(t, c, i) => Steps(t, i, j) < Steps(t, i, c)
    /\ Steps(t, i, j) <= x
    /\ \A p \in Positions(t) : Steps(t, p, j) <= x => p \in Taken(t)

(* While a table is copied, the copy has the items copied so far, and room  *)
(* for the next one and for the new name.                                   *)
RehashFits ==
    At("grow") =>
        /\ next \in 1..(Count(object) + 1)
        /\ Count(fresh) = next - 1
        /\ \A k \in 1..(next - 1) :
              /\ fresh.items[k].name = object.items[k].name
              /\ fresh.items[k].value = object.items[k].value
        /\ Count(object) < ItemCapacity(fresh)
        /\ arg.call \in {"add", "set"} /\ arg.name \in Names /\ arg.value \in Values
        /\ \A k \in 1..Count(object) : object.items[k].name # arg.name
        /\ Shape(fresh) /\ Linked(fresh, -1) /\ Reachable(fresh)

(* The two arrays of the table stay in step, and every name in it is found  *)
(* by a probe, whatever was added, replaced and removed in whatever order   *)
(* (parson.c, json_object_get_cell_ix).                                     *)
TableOK ==
    /\ pc \in {"idle", "grow", "shift"}
    /\ Shape(object)
    /\ pc # "shift" => Linked(object, -1) /\ Reachable(object)
    /\ At("shift") => Linked(object, hole) /\ HoleInv(object, hole, probe, turns)
    /\ RehashFits

NamesIn(t) == {t.items[k].name : k \in 1..Count(t)}
NumberOf(t, n) == CHOOSE k \in 1..Count(t) : t.items[k].name = n
Contents(t) == [n \in NamesIn(t) |-> t.items[NumberOf(t, n)].value]

Map == INSTANCE ObjectMap WITH contents <- Contents(object)

(* Callers see a map: a lookup returns what was stored last under the name, *)
(* a call that fails has changed nothing, and only a name that is there or  *)
(* a failing malloc makes adding fail.                                      *)
ImplementsMap == Map!Spec
=============================================================================
