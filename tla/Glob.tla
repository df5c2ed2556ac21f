-------------------------------- MODULE Glob --------------------------------
(***************************************************************************)
(* wildcard_match of util.c, which decides for --type what is filtered.     *)
(* A text and a pattern are sequences of characters.                       *)
(***************************************************************************)
EXTENDS CText, SequencesExt

(* The characters a class may range over, in the order of their codes.      *)
CharOrder == <<"!", "*", ",", "-", "?", "[", "]", "^", "a", "b", "c", "{", "}">>
Code(c) == SelectInSeq(CharOrder, LAMBDA d : d = c)

String == Seq(ToSet(CharOrder))

(* The first place of c in s, or 0.                                         *)
First(s, c) == SelectInSeq(s, LAMBDA d : d = c)

(* Mutant: the upper end of a range is left out.                           *)
InRangeOpen(c, lo, hi) == Code(lo) <= Code(c) /\ Code(c) < Code(hi)

InRange(c, lo, hi) == Code(lo) <= Code(c) /\ Code(c) <= Code(hi)

(* What follows "[" or "[!": whether c is in the class, and where the       *)
(* pattern goes on.  A class that is never closed ends with the pattern.    *)
Class(c, q) ==
    LET scan[i \in 1..(Len(q) + 1)] ==
            IF i > Len(q) THEN [matched |-> FALSE, next |-> i]
            ELSE IF q[i] = "]" THEN [matched |-> FALSE, next |-> i + 1]
            ELSE IF i + 2 <= Len(q) /\ q[i + 1] = "-" /\ q[i + 2] # "]"
            THEN [scan[i + 3] EXCEPT !.matched = @ \/ InRange(c, q[i], q[i + 2])]
            ELSE [scan[i + 1] EXCEPT !.matched = @ \/ c = q[i]]
    IN  scan[1]

(* The alternatives wmatch tries of what stands between the braces, each    *)
(* from its first place to the next comma; the loop ends before an empty    *)
(* alternative that comes last.                                            *)
Upto(s, c) == IF First(s, c) = 0 THEN s ELSE SubSeq(s, 1, First(s, c) - 1)
Alternatives(body) ==
    {Upto(From(body, i), ",") : i \in {j \in DOMAIN body : j = 1 \/ body[j - 1] = ","}}

(* Where the text may go on after a "*".                                   *)
StarEnds(t) == {From(t, i) : i \in 1..(Len(t) + 1)}

(* Whether the text t is matched by the pattern p.                         *)
wmatch[p \in String] ==
    [t \in String |->
        IF p = <<>> THEN t = <<>>
        ELSE CASE Head(p) = "*" ->
                    LET n == SelectInSeq(p, LAMBDA d : d # "*")
                    IN  n = 0 \/ \E tt \in StarEnds(t) : wmatch[From(p, n)][tt]
               [] Head(p) = "?" ->
                    t # <<>> /\ wmatch[Tail(p)][Tail(t)]
               [] Head(p) = "[" ->
                    /\ t # <<>>
                    /\ LET negate == Len(p) > 1 /\ p[2] \in {"!", "^"}
                           q      == From(p, IF negate THEN 3 ELSE 2)
                           class  == Class(Head(t), q)
                       IN  class.matched # negate /\ wmatch[From(q, class.next)][Tail(t)]
               [] Head(p) = "{" /\ First(p, "}") # 0 ->
                    LET close == First(p, "}")
                    IN  \E seg \in Alternatives(SubSeq(p, 2, close - 1)) :
                            wmatch[seg \o From(p, close + 1)][t]
               [] OTHER ->
                    t # <<>> /\ Head(t) = Head(p) /\ wmatch[Tail(p)][Tail(t)]]

(* No pattern, or an empty one, lets every name through.                   *)
wildcard_match(text, pattern) == pattern = <<>> \/ wmatch[pattern][text]
=============================================================================
