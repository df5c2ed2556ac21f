-------------------------------- MODULE CText --------------------------------
(***************************************************************************)
(* Text as C sees it.  A pointer into a string is what it points at: the    *)
(* rest of the string.                                                     *)
(***************************************************************************)
EXTENDS Integers, Sequences

Byte == 0..255
Nul == 0
Slash == 47
Backslash == 92

(* The rest of s from position i on.                                       *)
From(s, i) == SubSeq(s, i, Len(s))

(* What a pointer may point at: bytes with a NUL at their end.              *)
Terminated == {s \in Seq(Byte) : s # <<>> /\ s[Len(s)] = Nul}
=============================================================================
