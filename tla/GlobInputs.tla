----------------------------- MODULE GlobInputs -----------------------------
(***************************************************************************)
(* Inputs for wildcard_match: a behaviour builds a glob out of well-formed  *)
(* pieces and then a text for it; the language of the glob, by the meaning  *)
(* the README gives its pieces, is built along with it.                    *)
(***************************************************************************)
EXTENDS Glob

CONSTANTS
    MaxPieces,    \* pieces of a glob
    MaxText       \* characters of a text

ASSUME GlobInputsAssumption == MaxText \in Nat

VARIABLES
    pattern,      \* the glob
    pieces,       \* how many pieces it has
    language,     \* the texts up to MaxText it stands for
    text

glob == <<pattern, pieces, language, text>>

Chars == {"a", "b", "c"}
Texts == BoundedSeq(Chars, MaxText)
Singles(S) == {<<c>> : c \in S}

(* What a piece of a glob stands for.                                      *)
Piece(pat, texts) == [pat |-> pat, texts |-> texts]

Pieces ==
    {Piece(<<c>>, {<<c>>}) : c \in Chars} \cup
    {Piece(<<"?">>, Singles(Chars)),
     Piece(<<"*">>, Texts),
     Piece(<<"[", "a", "c", "]">>, Singles({"a", "c"})),
     Piece(<<"[", "a", "-", "b", "]">>, Singles({"a", "b"})),
     Piece(<<"[", "!", "a", "]">>, Singles(Chars \ {"a"})),
     Piece(<<"[", "^", "b", "-", "c", "]">>, Singles({"a"})),
     Piece(<<"{", "a", ",", "b", "c", "}">>, {<<"a">>, <<"b", "c">>}),
     Piece(<<"{", ",", "b", "}">>, {<<>>, <<"b">>}),
     Piece(<<"{", "?", ",", "c", "*", "}">>,
           Singles(Chars) \cup {t \in Texts : t # <<>> /\ Head(t) = "c"})}

Joined(A, B) == {s \in {x \o y : x \in A, y \in B} : Len(s) <= MaxText}

StartGlob == pattern = <<>> /\ pieces = 0 /\ language = {<<>>} /\ text = <<>>

AddPiece ==
    /\ text = <<>> /\ pieces < MaxPieces
    /\ \E p \in Pieces :
        /\ pattern' = pattern \o p.pat
        /\ language' = Joined(language, p.texts)
    /\ pieces' = pieces + 1
    /\ UNCHANGED text

AddChar ==
    /\ Len(text) < MaxText
    /\ \E c \in Chars : text' = Append(text, c)
    /\ UNCHANGED <<pattern, pieces, language>>

GlobSpec == StartGlob /\ [][AddPiece \/ AddChar]_glob

-----------------------------------------------------------------------------
(* --type lets through exactly the names its glob stands for.  The empty    *)
(* glob, a class that is not closed, and alternatives that end in an empty  *)
(* one are not among the pieces: the loop at util.c:204 ends before such a  *)
(* one.                                                                    *)
GlobIsItsLanguage ==
    pieces > 0 => (wildcard_match(text, pattern) <=> text \in language)
=============================================================================
