------------------------------ MODULE ObjectMap ------------------------------
(***************************************************************************)
(* What an object of the JSON library promises its callers (parson.h,      *)
(* json_object_set_value to json_object_clear, and json_object_add for the *)
(* parser): a map from names to values, without cells, hashes or growth.   *)
(* A call and what it returned are one step, recorded in `answer'.         *)
(***************************************************************************)
EXTENDS Integers

CONSTANTS
    Names,
    Values

VARIABLES
    scarce,        \* rigid: malloc may fail
    contents,      \* a function from the names in the object
    answer         \* the last call: what was called, with which name, result

vars == <<scarce, contents, answer>>

Calls == {"none", "add", "set", "set_attached", "remove", "clear", "get"}

Answer(call, n, result) == [call |-> call, name |-> n, result |-> result]

Present(n) == n \in DOMAIN contents

With(n, v) ==
    [m \in DOMAIN contents \cup {n} |-> IF m = n THEN v ELSE contents[m]]

Without(n) == [m \in DOMAIN contents \ {n} |-> contents[m]]

Init ==
    /\ scarce \in BOOLEAN
    /\ contents = [m \in {} |-> {}]
    /\ answer = Answer("none", "", "success")

(* Adding is for a new name only; setting replaces what was there.          *)
Store(call, n, v) ==
    /\ answer' = Answer(call, n, "success")
    /\ call = "set" \/ ~Present(n)
    /\ contents' = With(n, v)

(* Nothing is changed by a call that fails, and it has a reason.            *)
Refuse(call, n) ==
    /\ answer' = Answer(call, n, "failure")
    /\ \/ call = "add" /\ Present(n)
       \/ call = "set_attached"
       \/ call \in {"add", "set"} /\ ~Present(n) /\ scarce
       \/ call = "remove" /\ ~Present(n)
    /\ UNCHANGED contents

Delete(n) ==
    /\ answer' = Answer("remove", n, "success")
    /\ Present(n)
    /\ contents' = Without(n)

Clear ==
    /\ answer' = Answer("clear", "", "success")
    /\ contents' = [m \in {} |-> {}]

Look(n) ==
    /\ answer' = Answer("get", n, IF Present(n) THEN contents[n] ELSE "null")
    /\ UNCHANGED contents

Next ==
    /\ \/ Clear
       \/ \E n \in Names :
             \/ Delete(n) \/ Look(n)
             \/ \E call \in {"add", "set", "set_attached", "remove"} : Refuse(call, n)
             \/ \E call \in {"add", "set"}, v \in Values : Store(call, n, v)
    /\ UNCHANGED scarce

Spec == Init /\ [][Next]_vars

=============================================================================
