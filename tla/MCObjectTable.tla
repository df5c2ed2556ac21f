---------------------------- MODULE MCObjectTable ----------------------------
(* Hashes for TLC: two names with one hash, whose cluster goes round the    *)
(* end of every table; one that parts from them when the table has grown to *)
(* eight cells; and one whose cell comes right before theirs.               *)
EXTENDS ObjectTable

CONSTANTS n1, n2, n3, n4

MCHash == [n \in {n1, n2, n3, n4} |->
              CASE n = n1 -> 7 [] n = n2 -> 7 [] n = n3 -> 3 [] n = n4 -> 6]
=============================================================================
