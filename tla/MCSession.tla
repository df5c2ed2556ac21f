------------------------------ MODULE MCSession ------------------------------
(* The constants of Session for TLC.                                        *)
EXTENDS Session

CONSTANTS a1, a2, p1, p2

MCAccounts == {a1, a2}
MCProcs == {p1, p2}

(* Texts that differ in length by less than the cookie lines, texts of      *)
(* which the shorter leaves the whole pair of the longer behind, and texts  *)
(* of which it would leave the signature.                                  *)
At3(u, s, e) == [user |-> u, sig |-> s, end |-> e]
Nearly == [a \in MCAccounts |-> IF a = a1 THEN At3(1, 3, 5) ELSE At3(2, 4, 6)]
Apart  == [a \in MCAccounts |-> IF a = a1 THEN At3(1, 2, 3) ELSE At3(4, 5, 6)]
Amid   == [a \in MCAccounts |-> IF a = a1 THEN At3(1, 2, 4) ELSE At3(3, 4, 5)]

(* Two terminals at once on a disk that has room, or one terminal at a time *)
(* on one that may be full.                                                *)
MCSettings ==
    {[procs |-> {p1, p2}, troubles |-> {"open", "remove", "crash"}, layout |-> Nearly],
     [procs |-> {p1, p2}, troubles |-> {"open", "remove", "crash"}, layout |-> Apart],
     [procs |-> {p1},     troubles |-> {"full", "remove", "crash"}, layout |-> Amid]}

(* One terminal, one trouble: the credentials file cannot be written.      *)
MCReadOnly == {[procs |-> {p1}, troubles |-> {"open"}, layout |-> Nearly]}
=============================================================================
