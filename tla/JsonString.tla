----------------------------- MODULE JsonString -----------------------------
(***************************************************************************)
(* The inside of a JSON string (parson.c): the escapes its reader undoes    *)
(* and its writer makes, byte by byte.  Each loop is a function of what its *)
(* pointer points at, and never looks behind the NUL.                      *)
(***************************************************************************)
EXTENDS CText

Quote == 34
LetterU == 117

(* What may follow a backslash alone (quote, backslash, slash, b, f, n, r   *)
(* and t), and what it stands for.                                         *)
Simple == {Quote, Backslash, Slash, 98, 102, 110, 114, 116}

Meant(c) ==
    CASE c = 98 -> 8
      [] c = 102 -> 12
      [] c = 110 -> 10
      [] c = 114 -> 13
      [] c = 116 -> 9
      [] OTHER -> c

Beyond(k, n) == IF n = -1 THEN -1 ELSE k + n

(* How many bytes there are before the closing quote, or -1.  A character   *)
(* behind a backslash closes nothing.                                      *)
Closing[s \in Terminated] ==
    CASE Head(s) = Quote -> 0
      [] Head(s) = Nul -> -1
      [] Head(s) = Backslash -> IF s[2] = Nul THEN -1 ELSE Beyond(2, Closing[From(s, 3)])
      [] OTHER -> Beyond(1, Closing[From(s, 2)])

skip_quotes(s) == IF Head(s) # Quote THEN -1 ELSE Closing[From(s, 2)]
-----------------------------------------------------------------------------
hex_char_to_int(c) ==
    CASE c \in 48..57 -> c - 48
      [] c \in 97..102 -> c - 97 + 10
      [] c \in 65..70 -> c - 65 + 10
      [] OTHER -> -1

(* The four digits behind place i as a number, or -1; a NUL is no digit.    *)
parse_utf16_hex(s, i) ==
    LET x(k) == hex_char_to_int(s[i + k])
    IN  IF \E k \in 1..4 : x(k) = -1 THEN -1
        ELSE x(1) * 4096 + x(2) * 256 + x(3) * 16 + x(4)

Leads == 55296..56319       \* D800 to DBFF
Trails == 56320..57343      \* DC00 to DFFF

(* Mutant: the offset of the higher planes is forgotten.                    *)
PairedLow(lead, trail) == (lead - 55296) * 1024 + (trail - 56320)
Paired(lead, trail) == (lead - 55296) * 1024 + (trail - 56320) + 65536

(* The bytes of a code point.                                               *)
Cont(n) == 128 + (n % 64)
Utf8(cp) ==
    IF cp < 128 THEN <<cp>>
    ELSE IF cp < 2048 THEN <<192 + cp \div 64, Cont(cp)>>
    ELSE IF cp < 65536 THEN <<224 + cp \div 4096, Cont(cp \div 64), Cont(cp)>>
    ELSE <<240 + cp \div 262144, Cont(cp \div 4096), Cont(cp \div 64), Cont(cp)>>

(* What is taken of a text, and the bytes it stands for.                    *)
Took(len, out) == [len |-> len, out |-> out]
Nothing == Took(0, <<>>)

(* s is at the backslash; the pair of a lead is another escape behind it.   *)
parse_utf16(s) ==
    LET cp == parse_utf16_hex(s, 2)
        trail == parse_utf16_hex(s, 8)
    IN  IF cp = -1 \/ cp \in Trails THEN Nothing
        ELSE IF cp \notin Leads THEN Took(6, Utf8(cp))
        ELSE IF s[7] = Backslash /\ s[8] = LetterU /\ trail \in Trails
          THEN Took(12, Utf8(Paired(cp, trail)))
        ELSE Nothing

(* One turn of the loop of process_string.                                  *)
Turn(s) ==
    IF Head(s) # Backslash THEN (IF Head(s) < 32 THEN Nothing ELSE Took(1, <<Head(s)>>))
    ELSE IF s[2] \in Simple THEN Took(2, <<Meant(s[2])>>)
    ELSE IF s[2] = LetterU THEN parse_utf16(s)
    ELSE Nothing

Failed == [ok |-> FALSE, out |-> <<>>]
Passed(out) == [ok |-> TRUE, out |-> out]
Onto(out, r) == IF r.ok THEN Passed(out \o r.out) ELSE Failed

(* What the next n bytes of s stand for.                                    *)
process_string[s \in Terminated] ==
    [n \in Int |->
        IF Head(s) = Nul \/ n <= 0 THEN Passed(<<>>)
        ELSE LET t == Turn(s)
             IN  IF t = Nothing THEN Failed
                 ELSE Onto(t.out, process_string[From(s, t.len + 1)][n - t.len])]

(* The quotes are taken as well.                                            *)
get_quoted_string(s) ==
    LET n == skip_quotes(s)
        r == process_string[From(s, 2)][n]
    IN  IF n # -1 /\ r.ok THEN Took(n + 2, r.out) ELSE Nothing
-----------------------------------------------------------------------------
IS_CONT(b) == b \in 128..191

num_bytes_in_utf8_sequence(c) ==
    CASE c \in {192, 193} \cup (245..255) \/ IS_CONT(c) -> 0
      [] c < 128 -> 1
      [] c \in 194..223 -> 2
      [] c \in 224..239 -> 3
      [] OTHER -> 4

Sequence(s) == num_bytes_in_utf8_sequence(Head(s))

(* The number in the l bytes that s begins with.                            *)
PointOf(s, l) ==
    LET x(k) == s[k] % 64
    IN  CASE l = 1 -> Head(s)
          [] l = 2 -> (Head(s) % 32) * 64 + x(2)
          [] l = 3 -> (Head(s) % 16) * 4096 + x(2) * 64 + x(3)
          [] OTHER -> (Head(s) % 8) * 262144 + x(2) * 4096 + x(3) * 64 + x(4)

Overlong(cp, l) ==
    \/ cp < 128 /\ l > 1
    \/ cp < 2048 /\ l > 2
    \/ cp < 65536 /\ l > 3

(* The code point s begins with, or -1: too long, too large, surrogate.     *)
verify_utf8_sequence(s) ==
    LET len == Sequence(s)
        cp == PointOf(s, len)
    IN  IF \/ len = 0 \/ \E k \in 2..len : ~IS_CONT(s[k])
           \/ Overlong(cp, len) \/ cp > 1114111 \/ cp \in Leads \cup Trails
          THEN -1 ELSE cp

(* The string ends with the NUL at string_end.                              *)
is_valid_utf8[s \in Terminated] ==
    \/ Len(s) = 1
    \/ verify_utf8_sequence(s) # -1 /\ is_valid_utf8[From(s, Sequence(s) + 1)]
-----------------------------------------------------------------------------
HexDigit(n) == IF n < 10 THEN 48 + n ELSE 97 + n - 10

Written(c, slashes) ==
    IF c = Slash THEN (IF slashes THEN <<Backslash, c>> ELSE <<c>>)
    ELSE IF \E e \in Simple : Meant(e) = c
      THEN <<Backslash, CHOOSE e \in Simple : Meant(e) = c>>
    ELSE IF c < 32
      THEN <<Backslash, LetterU, 48, 48, HexDigit(c \div 16), HexDigit(c % 16)>>
    ELSE <<c>>

(* slashes is parson_escape_slashes.                                        *)
json_serialize_string(string, slashes) ==
    LET buf[i \in 0..Len(string)] ==
            IF i = 0 THEN <<Quote>> ELSE buf[i - 1] \o Written(string[i], slashes)
    IN  Append(buf[Len(string)], Quote)
=============================================================================
