------------------------------- MODULE MCText -------------------------------
(***************************************************************************)
(* The algorithms on text, on every input up to a bound: a behaviour builds *)
(* an input of GlobInputs or one of NameInputs.                            *)
(***************************************************************************)
EXTENDS GlobInputs, NameInputs

vars == <<names, glob>>

StartWith(jobs) == StartNames(jobs) /\ StartGlob
Init == StartWith({"glob", "path", "url"})

Next ==
    \/ job = "glob" /\ (AddPiece \/ AddChar) /\ UNCHANGED names
    \/ (AddByte \/ AddWord) /\ UNCHANGED glob

Spec == Init /\ [][Next]_vars
=============================================================================
