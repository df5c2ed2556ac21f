----------------------------- MODULE StringInputs -----------------------------
(***************************************************************************)
(* Inputs for the reader of JSON strings: a behaviour puts one together of  *)
(* pieces, along with what each of them stands for by RFC 8259.             *)
(***************************************************************************)
EXTENDS JsonString

CONSTANTS
    Plain,        \* characters that stand for themselves, in UTF-8
    Codes,        \* codes written as a u and four digits
    Malformed,    \* pieces that stand for nothing
    MaxUnits      \* pieces of a string

HighHalf(u) == u \in 55296..56319
LowHalf(u) == u \in 56320..57343
IsCharacter(c) == c \in Nat /\ c <= 1114111 /\ ~HighHalf(c) /\ ~LowHalf(c)

HexDigits == (48..57) \cup (65..70) \cup (97..102)

(* A control character, an unknown escape, or a code with a digit missing.  *)
Illegal(b) ==
    \/ Len(b) = 1 /\ b[1] \in 1..31
    \/ Len(b) = 2 /\ b[1] = Backslash /\ b[2] \notin Simple \cup {Nul, LetterU}
    \/ /\ Len(b) > 2 /\ b[1] = Backslash /\ b[2] = LetterU
       /\ \A k \in 3..Len(b) : b[k] \notin {Nul, Quote, Backslash}
       /\ \E k \in 3..6 : k <= Len(b) /\ b[k] \notin HexDigits

ASSUME StringInputsAssumption ==
    /\ \A c \in Plain : IsCharacter(c) /\ c >= 32 /\ c \notin {Quote, Backslash}
    /\ \A c \in Codes : c \in Nat /\ c <= 65535
    /\ \A b \in Malformed : b \in Seq(Byte) /\ Illegal(b)

VARIABLES
    bytes,        \* the string, without its quotes
    units         \* what its pieces stand for

string == <<bytes, units>>

(* The bytes of a piece, and its character, its half of a pair, or Wrong.   *)
Wrong == -1
Unit(b, u) == [bytes |-> b, unit |-> u]

Escapes == {<<34, 34>>, <<92, 92>>, <<47, 47>>, <<98, 8>>,
            <<102, 12>>, <<110, 10>>, <<114, 13>>, <<116, 9>>}

(* Digits above nine are letters, from a or from A on.                      *)
Digit(n, a) == IF n < 10 THEN 48 + n ELSE a + n - 10
Coded(c, a) ==
    <<Backslash, LetterU, Digit(c \div 4096, a), Digit((c \div 256) % 16, a),
      Digit((c \div 16) % 16, a), Digit(c % 16, a)>>

Units ==
    {Unit(Utf8(c), c) : c \in Plain}
    \cup {Unit(<<Backslash, e[1]>>, e[2]) : e \in Escapes}
    \cup {Unit(Coded(c, a), c) : c \in Codes, a \in {65, 97}}
    \cup {Unit(b, Wrong) : b \in Malformed}

StartString == bytes = <<>> /\ units = <<>>

AddUnit ==
    /\ Len(units) < MaxUnits
    /\ \E u \in Units : bytes' = bytes \o u.bytes /\ units' = Append(units, u.unit)

StringSpec == StartString /\ [][AddUnit]_string
-----------------------------------------------------------------------------
(* Halves come in pairs, and nothing is wrong.                              *)
Legible(us) ==
    \A i \in 1..Len(us) :
        /\ us[i] # Wrong
        /\ HighHalf(us[i]) => i < Len(us) /\ LowHalf(us[i + 1])
        /\ LowHalf(us[i]) => i > 1 /\ HighHalf(us[i - 1])

(* The characters of a legible sequence, halves put together.               *)
Characters(us) ==
    LET Char(i) ==
            CASE HighHalf(us[i]) -> <<>>
              [] LowHalf(us[i]) ->
                    <<65536 + (us[i - 1] - 55296) * 1024 + us[i] - 56320>>
              [] OTHER -> <<us[i]>>
        read[i \in 0..Len(us)] == IF i = 0 THEN <<>> ELSE read[i - 1] \o Char(i)
    IN  read[Len(us)]

(* The characters a text in UTF-8 begins with.                              *)
CharactersOf[s \in Terminated] ==
    IF Len(s) = 1 \/ verify_utf8_sequence(s) = -1 THEN <<>>
    ELSE <<verify_utf8_sequence(s)>> \o CharactersOf[From(s, Sequence(s) + 1)]

(* A quoted text is read as the characters it stands for, in the room       *)
(* process_string has made, and refused exactly when it stands for none or  *)
(* is not closed; what is written for a string is read back as that string. *)
StringsExact ==
    LET r == get_quoted_string(<<Quote>> \o (bytes \o <<Quote, Nul>>))
        unclosed == get_quoted_string(<<Quote>> \o (bytes \o <<Nul>>))
    IN  /\ r.len = IF Legible(units) THEN Len(bytes) + 2 ELSE 0
        /\ Legible(units) =>
            /\ is_valid_utf8[r.out \o <<Nul>>]
            /\ CharactersOf[r.out \o <<Nul>>] = Characters(units)
            /\ Len(r.out) <= Len(bytes)
            /\ \A slashes \in BOOLEAN :
                  LET written == json_serialize_string(r.out, slashes)
                  IN  get_quoted_string(written \o <<Nul>>) = Took(Len(written), r.out)
        /\ unclosed = Nothing
=============================================================================
