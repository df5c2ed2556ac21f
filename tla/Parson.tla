------------------------------- MODULE Parson -------------------------------
(***************************************************************************)
(* The JSON parser (parson.c, parse_value and what it calls), with every    *)
(* call of malloc and free it makes.  A text is a sequence of tokens; a     *)
(* blank stands between two that would run together.  What is inside the    *)
(* quotes of a string is the matter of JsonString.                          *)
(*                                                                         *)
(* A heap names its blocks by the number of the call that made them; one    *)
(* call, `fails', returns NULL.  Freeing what is not there is a fault.  A   *)
(* value owns blocks of its own and those of its array (five arrays, for an *)
(* object), which grow; a name is one more block.                           *)
(***************************************************************************)
EXTENDS Integers, Sequences, SequencesExt

CONSTANTS
    MAX_NESTING,
    STARTING_CAPACITY

NUL == "NUL"
Blank == " "
Literals == {"true", "false", "null"}
Numbers == {"1", "2"}
Minus == "-x"       \* a minus sign without a number: strtod reads nothing
NotNumbers == {"01", "1e999"}     \* with a zero too many, out of range
Infinite == "-inf"  \* strtod reads it, json_value_init_number refuses it
CutWord == "tru"
CutString == "'"    \* no quote closes it
BadString == "'\\x'"            \* process_string refuses it
ZeroString == "'k\\u0000'"      \* it has a NUL inside
Blemishes ==
    NotNumbers \cup {Minus, Infinite, CutWord, CutString, BadString, ZeroString}

IsString(token) ==
    token \notin Literals \cup Numbers \cup Blemishes \cup
                 {NUL, Blank, "{", "}", "[", "]", ":", ","}

At(text, i) == IF i \in 1..Len(text) THEN text[i] ELSE NUL

(* SKIP_WHITESPACES                                                         *)
Skip(text, i) == CHOOSE j \in i..(Len(text) + 2) :
    At(text, j) # Blank /\ \A l \in i..(j - 1) : At(text, l) = Blank
-----------------------------------------------------------------------------
Heap(fails) == [live |-> {}, made |-> 0, fails |-> fails, fault |-> FALSE]

Malloc(h, n) ==
    [h EXCEPT !.made = @ + n,
              !.live = @ \cup (((h.made + 1)..(h.made + n)) \ {h.fails})]

(* Of the last n calls: did all succeed, and which blocks did they make?    *)
Asked(h, n) == (h.made - n + 1)..h.made
Got(h, n) == h.fails \notin Asked(h, n)
New(h, n) == Asked(h, n) \ {h.fails}

Free(h, blocks) ==
    [h EXCEPT !.live = @ \ blocks, !.fault = @ \/ ~(blocks \subseteq h.live)]

Null == [type |-> "none"]
Value(type, data, own) ==
    [type |-> type, data |-> data, own |-> own, store |-> {}, room |-> 0, items |-> <<>>]
Item(name, key, value) == [name |-> name, key |-> key, value |-> value]

RECURSIVE json_value_free(_, _)
json_value_free(h, v) ==
    IF v = Null THEN h
    ELSE Free(FoldLeft(LAMBDA g, item : json_value_free(Free(g, item.key), item.value),
                       h, v.items),
              v.own \cup v.store)

Result(at, h, v) == [at |-> at, h |-> h, v |-> v]

(* A null, boolean or number, and the wrapper of a string.                  *)
InitScalar(at, h, type, data, chars) ==
    LET g == Malloc(h, 1)
    IN  IF Got(g, 1) THEN Result(at, g, Value(type, data, New(g, 1) \cup chars))
                     ELSE Result(at, Free(g, chars), Null)

(* json_value_init_object and json_value_init_array                         *)
InitContainer(at, h, type) ==
    LET wrapper == Malloc(h, 1)
        both == Malloc(wrapper, 1)
    IN  IF ~Got(wrapper, 1) THEN Result(at, wrapper, Null)
        ELSE IF ~Got(both, 1) THEN Result(at, Free(both, New(wrapper, 1)), Null)
        ELSE Result(at, both, Value(type, "", New(both, 2)))

(* Larger arrays, or none of them.                                          *)
Resized(h, v, arrays, room) ==
    LET g == Malloc(h, arrays)
    IN  IF Got(g, arrays)
          THEN [ok |-> TRUE, h |-> Free(g, v.store),
                v |-> [v EXCEPT !.store = New(g, arrays), !.room = room]]
          ELSE [ok |-> FALSE, h |-> Free(g, New(g, arrays)), v |-> v]

Larger(room) == IF room * 2 > STARTING_CAPACITY THEN room * 2 ELSE STARTING_CAPACITY

json_array_resize(h, v, room) == Resized(h, v, 1, room)
json_object_grow_and_rehash(h, v) == Resized(h, v, 5, Larger(v.room))

Appended(r, item) ==
    IF r.ok THEN [r EXCEPT !.v.items = Append(@, item)] ELSE r

json_array_add(h, v, new) ==
    Appended(IF Len(v.items) >= v.room THEN json_array_resize(h, v, Larger(v.room))
                                       ELSE [ok |-> TRUE, h |-> h, v |-> v],
             Item("", {}, new))

HasName(v, name) == \E i \in 1..Len(v.items) : v.items[i].name = name

(* The table itself is the matter of ObjectTable.                           *)
json_object_add(h, v, name, key, new) ==
    IF HasName(v, name) THEN [ok |-> FALSE, h |-> h, v |-> v]
    ELSE Appended(IF Len(v.items) >= (v.room * 7) \div 10
                    THEN json_object_grow_and_rehash(h, v)
                    ELSE [ok |-> TRUE, h |-> h, v |-> v],
                  Item(name, key, new))
-----------------------------------------------------------------------------
(* get_quoted_string, of a token: process_string works in one block and     *)
(* returns another.                                                        *)
QuotedToken(text, at, h) ==
    LET token == At(text, at)
        work == Malloc(h, 1)
        out == Malloc(work, 1)
        No(i, g) == [ok |-> FALSE, at |-> i, h |-> g, chars |-> {}]
    IN  IF token = CutString THEN No(Len(text) + 1, h)
        ELSE IF ~IsString(token) /\ token \notin {BadString, ZeroString} THEN No(at, h)
        ELSE IF ~Got(work, 1) THEN No(at + 1, work)
        ELSE IF token = BadString THEN No(at + 1, Free(work, New(work, 1)))
        ELSE IF ~Got(out, 1) THEN No(at + 1, Free(out, New(work, 1)))
        ELSE [ok |-> TRUE, at |-> at + 1, h |-> Free(out, New(work, 1)),
              chars |-> New(out, 1)]

(* What a failed member leaves to free: its key, its value, the container.  *)
Dropped(h, v, key, new) == json_value_free(json_value_free(Free(h, key), new), v)

(* Mutant: a value whose name is there already is forgotten.                *)
RefusedForgetting(h, v, key, new) == json_value_free(Free(h, key), v)
Refused(h, v, key, new) == Dropped(h, v, key, new)

(* Mutant: one level less than MAX_NESTING.                                 *)
TooDeepAt(nesting) == nesting >= MAX_NESTING
TooDeep(nesting) == nesting > MAX_NESTING

parse_string_value(text, at, h) ==
    LET s == QuotedToken(text, at, h)
    IN  IF s.ok THEN InitScalar(s.at, s.h, "string", At(text, at), s.chars)
                ELSE Result(s.at, s.h, Null)

CloseObject(text, at, h, v) ==
    LET end == Skip(text, at)
    IN  IF At(text, end) = "}" THEN Result(end + 1, h, v)
                               ELSE Result(end, json_value_free(h, v), Null)

(* The array is trimmed when it is complete.                                *)
CloseArray(text, at, h, v) ==
    LET end == Skip(text, at)
        trimmed == json_array_resize(h, v, Len(v.items))
    IN  IF At(text, end) # "]" THEN Result(end, json_value_free(h, v), Null)
        ELSE IF trimmed.ok THEN Result(end + 1, trimmed.h, trimmed.v)
        ELSE Result(end, json_value_free(trimmed.h, v), Null)

RECURSIVE parse_value(_, _, _, _), parse_pairs(_, _, _, _, _), parse_items(_, _, _, _, _)

(* What parse_object_value does with a pair that has been added, or refused. *)
NextPair(text, nesting, key, new, added) ==
    LET comma == Skip(text, new.at)
        behind == Skip(text, comma + 1)
    IN  IF ~added.ok
          THEN Result(new.at, Refused(added.h, added.v, key.chars, new.v), Null)
        ELSE IF At(text, comma) # "," THEN CloseObject(text, comma, added.h, added.v)
        ELSE IF At(text, behind) = "}" THEN CloseObject(text, behind, added.h, added.v)
        ELSE parse_pairs(text, behind, added.h, nesting, added.v)

(* Its loop: a name, a colon, and a value.                                  *)
AddPair(text, nesting, v, name, key, new) ==
    IF new.v = Null THEN Result(new.at, Dropped(new.h, v, key.chars, Null), Null)
    ELSE NextPair(text, nesting, key, new,
                  json_object_add(new.h, v, name, key.chars, new.v))

ReadPair(text, nesting, v, name, key) ==
    LET colon == Skip(text, key.at)
    IN  IF ~key.ok THEN Result(key.at, json_value_free(key.h, v), Null)
        ELSE IF name = ZeroString \/ At(text, colon) # ":"
          THEN Result(key.at, Dropped(key.h, v, key.chars, Null), Null)
        ELSE AddPair(text, nesting, v, name, key,
                     parse_value(text, colon + 1, key.h, nesting))

parse_pairs(text, at, h, nesting, v) ==
    IF At(text, at) = NUL THEN CloseObject(text, at, h, v)
    ELSE ReadPair(text, nesting, v, At(text, at), QuotedToken(text, at, h))

(* The loop of parse_array_value.                                           *)
NextItem(text, nesting, new, added) ==
    LET comma == Skip(text, new.at)
        behind == Skip(text, comma + 1)
    IN  IF ~added.ok THEN Result(new.at, Dropped(added.h, added.v, {}, new.v), Null)
        ELSE IF At(text, comma) # "," THEN CloseArray(text, comma, added.h, added.v)
        ELSE IF At(text, behind) = "]" THEN CloseArray(text, behind, added.h, added.v)
        ELSE parse_items(text, behind, added.h, nesting, added.v)

AddItem(text, nesting, v, new) ==
    IF new.v = Null THEN Result(new.at, json_value_free(new.h, v), Null)
    ELSE NextItem(text, nesting, new, json_array_add(new.h, v, new.v))

parse_items(text, at, h, nesting, v) ==
    IF At(text, at) = NUL THEN CloseArray(text, at, h, v)
    ELSE AddItem(text, nesting, v, parse_value(text, at, h, nesting))

parse_object_value(text, at, h, nesting) ==
    LET r == InitContainer(at, h, "object")
        first == Skip(text, at + 1)
    IN  IF r.v = Null THEN r
        ELSE IF At(text, first) = "}" THEN Result(first + 1, r.h, r.v)
        ELSE parse_pairs(text, first, r.h, nesting, r.v)

parse_array_value(text, at, h, nesting) ==
    LET r == InitContainer(at, h, "array")
        first == Skip(text, at + 1)
    IN  IF r.v = Null THEN r
        ELSE IF At(text, first) = "]" THEN Result(first + 1, r.h, r.v)
        ELSE parse_items(text, first, r.h, nesting, r.v)

(* A minus sign alone passes for a zero, and is not skipped.                *)
parse_number_value(text, at, h) ==
    LET token == At(text, at)
    IN  IF token \in NotNumbers THEN Result(at, h, Null)
        ELSE IF token = Infinite THEN Result(at + 1, h, Null)
        ELSE IF token = Minus THEN InitScalar(at, h, "number", "0", {})
        ELSE InitScalar(at + 1, h, "number", token, {})

parse_value(text, start, h, nesting) ==
    LET at == Skip(text, start)
        token == At(text, at)
    IN  IF TooDeep(nesting) THEN Result(start, h, Null)
        ELSE IF token = "{" THEN parse_object_value(text, at, h, nesting + 1)
        ELSE IF token = "[" THEN parse_array_value(text, at, h, nesting + 1)
        ELSE IF token \in {"true", "false"} THEN InitScalar(at + 1, h, "boolean", token, {})
        ELSE IF token = "null" THEN InitScalar(at + 1, h, "null", token, {})
        ELSE IF token \in Numbers \cup NotNumbers \cup {Minus, Infinite}
          THEN parse_number_value(text, at, h)
        ELSE IF IsString(token) \/ token \in {CutString, BadString, ZeroString}
          THEN parse_string_value(text, at, h)
        ELSE Result(at, h, Null)

(* What follows the value is not looked at.                                 *)
json_parse_string(text, fails) == parse_value(text, 1, Heap(fails), 0)
-----------------------------------------------------------------------------
(* A copy in blocks of its own, or nothing.                                 *)
RECURSIVE json_value_deep_copy(_, _)
json_value_deep_copy(h, v) ==
    LET object == v.type = "object"
        CopyItem(r, item) ==
            LET new == json_value_deep_copy(r.h, item.value)
                keyed == IF object THEN Malloc(new.h, 1) ELSE new.h
                key == IF object THEN New(keyed, 1) ELSE {}
                added == IF object THEN json_object_add(keyed, r.v, item.name, key, new.v)
                                   ELSE json_array_add(keyed, r.v, new.v)
            IN  IF r.v = Null THEN r
                ELSE IF new.v = Null THEN Result(0, json_value_free(new.h, r.v), Null)
                ELSE IF object /\ key = {}
                  THEN Result(0, Dropped(keyed, r.v, {}, new.v), Null)
                ELSE IF ~added.ok
                  THEN Result(0, Dropped(added.h, added.v, key, new.v), Null)
                ELSE Result(0, added.h, added.v)
        chars == Malloc(h, 1)
    IN  IF object \/ v.type = "array"
          THEN FoldLeft(CopyItem, InitContainer(0, h, v.type), v.items)
        ELSE IF v.type # "string" THEN InitScalar(0, h, v.type, v.data, {})
        ELSE IF Got(chars, 1) THEN InitScalar(0, chars, "string", v.data, New(chars, 1))
        ELSE Result(0, chars, Null)
=============================================================================
