------------------------------- MODULE MCJson -------------------------------
(***************************************************************************)
(* The reader of JSON, on every input up to a bound, next to the            *)
(* algorithms of MCText.  A behaviour begins with the text of a small       *)
(* document and edits it, or builds a string out of its pieces, or holds an *)
(* answer of the server; `meaning' is what the input stands for.            *)
(***************************************************************************)
EXTENDS MCText, Listing, StringInputs

CONSTANTS
    MaxEdits,     \* edits of a document
    MaxEdited     \* tokens of a document that is edited more than once

VARIABLES
    input,        \* tokens
    meaning,
    edits

json == <<input, meaning, edits, string>>

(* A document: its type, its data, and its members with their names.        *)
Doc(type, data, members) == [type |-> type, data |-> data, members |-> members]
Num == Doc("number", "1", <<>>)
Str(s) == Doc("string", s, <<>>)
Arr(docs) == Doc("array", "", [i \in DOMAIN docs |-> <<"", docs[i]>>])
Obj(pairs) == Doc("object", "", pairs)

RECURSIVE Tokens(_)
Tokens(doc) ==
    LET Member(m) == (IF doc.type = "object" THEN <<m[1], ":">> ELSE <<>>) \o Tokens(m[2])
        n == Len(doc.members)
        Members == FlattenSeq([i \in 1..n |->
                       Member(doc.members[i]) \o (IF i < n THEN <<",">> ELSE <<>>)])
    IN  CASE doc.type = "object" -> <<"{">> \o Members \o <<"}">>
          [] doc.type = "array" -> <<"[">> \o Members \o <<"]">>
          [] OTHER -> <<doc.data>>

Scalars == {Num, Str("'s'"), Doc("boolean", "true", <<>>), Doc("null", "null", <<>>)}
Few == {Num, Str("'s'")}
Keys == <<"'k'", "'l'", "'m'">>

Lists == BoundedSeq(Few, 2) \cup {<<Num, Num, Num>>}
Flat == UNION {{Arr(l), Obj([i \in DOMAIN l |-> <<Keys[i], l[i]>>])} : l \in Lists}
Documents ==
    Scalars \cup Flat
    \cup UNION {{Arr(<<d>>), Arr(<<Num, d>>), Obj(<<<<"'k'", d>>>>),
               Arr(<<Arr(<<Arr(<<d>>)>>)>>)} : d \in Flat}

Alphabet ==
    {"{", "}", "[", "]", ":", ",", Blank, "1", "true", "'k'", "'l'"} \cup Blemishes
-----------------------------------------------------------------------------
(* The entries of a listing in the making: a field as JSON, or without one, *)
(* and what the program should make of it.                                  *)
FieldWith(json_value, expected) == [json |-> json_value, expected |-> expected]
None == Doc("absent", "", <<>>)
NameFields == {FieldWith(None, ""), FieldWith(Str("'a'"), "'a'"), FieldWith(Num, "")}
PrivateFields ==
    {FieldWith(None, FALSE), FieldWith(Str("'true'"), TRUE), FieldWith(Str("'false'"), FALSE),
     FieldWith(Doc("boolean", "true", <<>>), FALSE)}
SizeFields ==
    {FieldWith(None, "0"), FieldWith(Str("'2'"), "2"), FieldWith(Num, "1"),
     FieldWith(Doc("null", "null", <<>>), "0")}

Present(pairs) == SelectSeq(pairs, LAMBDA p : p[2] # None)

FileOfFields(name, private, size) ==
    [json |-> Obj(Present(<<<<"'size'", size.json>>, <<"'name'", name.json>>,
                            <<"'private'", private.json>>>>)),
     name |-> name.expected, private |-> private.expected, size |-> size.expected]

AllFiles ==
    {FileOfFields(n, p, s) : n \in NameFields, p \in PrivateFields, s \in SizeFields}
    \cup {[json |-> Num, name |-> "", private |-> FALSE, size |-> "0"]}

OneFile == FileOfFields(FieldWith(Str("'b'"), "'b'"), FieldWith(None, FALSE), FieldWith(Num, "1"))

Listings == {<<>>} \cup {<<f>> : f \in AllFiles} \cup
    UNION {{<<f, OneFile>>, <<OneFile, f>>} : f \in AllFiles}

Answered(files) ==
    Obj(<<<<"'created'", Num>>, <<"'result'", Arr([i \in DOMAIN files |-> files[i].json])>>>>)

Cookies == {None, Str("''"), Str("'c'")}
LoginOf(success, user, sig) ==
    Obj(Present(<<<<"'success'", success>>,
        <<"'values'", Obj(<<<<"'cookies'",
            Obj(Present(<<<<"'logged-in-user'", user>>, <<"'logged-in-sig'", sig>>>>))>>>>)>>>>))

Logins ==
    {[json |-> LoginOf(success, user, sig),
      in |-> success.data = "true" /\ success.type = "boolean"
                /\ user = Str("'c'") /\ sig = Str("'c'")] :
        success \in {None, Doc("boolean", "true", <<>>), Doc("boolean", "false", <<>>),
                     Str("'true'")},
        user \in Cookies, sig \in Cookies}
-----------------------------------------------------------------------------
(* Strings: characters of one to four bytes, codes with and without letters *)
(* among their digits, both halves of a pair.                              *)
PlainChars == {97, 117, 233, 8364, 128512}
SomeCodes == {0, 65, 233, 8364, 55357, 56832}
Misspelt == {<<31>>, <<92, 120>>, <<92, 117, 49, 50, 103>>}
-----------------------------------------------------------------------------
NoJson == input = <<>> /\ meaning = <<>> /\ edits = 0

StartJson ==
    \/ Init /\ NoJson
    \/ StartWith({"string"}) /\ NoJson
    \/ /\ StartWith({"document"})
       /\ meaning \in Documents /\ input = Tokens(meaning) /\ edits = 0
    \/ /\ StartWith({"listing"})
       /\ meaning \in Listings /\ input = Tokens(Answered(meaning)) /\ edits = 0
    \/ /\ StartWith({"login"})
       /\ meaning \in Logins /\ input = Tokens(meaning.json) /\ edits = 0

JsonInit == StartJson /\ StartString

(* A text ends with a string that is not closed.                            *)
Until(i, token, rest) ==
    SubSeq(input, 1, i) \o <<token>> \o (IF token = CutString THEN <<>> ELSE rest)

EditToken ==
    /\ job = "document"
    /\ edits < MaxEdits /\ (edits = 0 \/ Len(input) <= MaxEdited)
    /\ \/ \E i \in 1..Len(input), t \in Alphabet : input' = Until(i - 1, t, From(input, i + 1))
       \/ \E i \in 0..Len(input), t \in Alphabet : input' = Until(i, t, From(input, i + 1))
       \/ \E i \in 1..Len(input) : input' = RemoveAt(input, i)
    /\ edits' = edits + 1
    /\ meaning' = None
    /\ UNCHANGED <<vars, string>>

JsonNext ==
    \/ Next /\ UNCHANGED json
    \/ EditToken
    \/ job = "string" /\ AddUnit /\ UNCHANGED <<vars, input, meaning, edits>>

JsonSpec == JsonInit /\ [][JsonNext]_<<vars, json>>
-----------------------------------------------------------------------------
(* What a text without blanks denotes as a value within `level' others: one *)
(* document, or none.  Unlike the standard, the library takes a comma       *)
(* behind the last member, and it takes no name twice.                      *)
RECURSIVE Denoted(_, _), Memberships(_, _, _)

Denoted(t, level) ==
    LET inner == SubSeq(t, 2, Len(t) - 1)
        Around(a, b) == Len(t) > 1 /\ t[1] = a /\ Last(t) = b /\ inner # <<",">>
        Distinct(members) ==
            \A i, j \in DOMAIN members : members[i][1] = members[j][1] => i = j
    IN  IF level > MAX_NESTING THEN {}
        ELSE IF Around("[", "]")
          THEN {Doc("array", "", m) : m \in Memberships(inner, level + 1, FALSE)}
        ELSE IF Around("{", "}")
          THEN {Doc("object", "", m) : m \in {m \in Memberships(inner, level + 1, TRUE) : Distinct(m)}}
        ELSE IF Len(t) # 1 THEN {}
        ELSE IF t[1] \in Numbers THEN {Doc("number", t[1], <<>>)}
        ELSE IF t[1] \in {"true", "false"} THEN {Doc("boolean", t[1], <<>>)}
        ELSE IF t[1] = "null" THEN {Doc("null", "null", <<>>)}
        ELSE IF IsString(t[1]) \/ t[1] = ZeroString THEN {Str(t[1])}
        ELSE {}

Memberships(t, level, named) ==
    LET One(s) ==
            IF ~named THEN {<<"", d>> : d \in Denoted(s, level)}
            ELSE IF Len(s) > 2 /\ IsString(s[1]) /\ s[2] = ":"
              THEN {<<s[1], d>> : d \in Denoted(SubSeq(s, 3, Len(s)), level)}
            ELSE {}
        Commas == {i \in 1..Len(t) : t[i] = ","}
    IN  IF t = <<>> THEN {<<>>}
        ELSE {<<m>> : m \in One(t)} \cup
             UNION {{<<m>> \o more : m \in One(SubSeq(t, 1, i - 1)),
                                     more \in Memberships(SubSeq(t, i + 1, Len(t)), level, named)} :
                    i \in Commas}

(* The text of the value ends where the value is complete; a minus sign     *)
(* alone is read as zero.                                                   *)
Reading ==
    LET t == SelectSeq(input, LAMBDA token : token # Blank)
    IN  (IF t # <<>> /\ t[1] = Minus THEN {Doc("number", "0", <<>>)} ELSE {})
        \cup UNION {Denoted(SubSeq(t, 1, n), 0) : n \in 1..Len(t)}

RECURSIVE DocOf(_)
DocOf(v) ==
    Doc(v.type, v.data, [i \in 1..Len(v.items) |-> <<v.items[i].name, DocOf(v.items[i].value)>>])

(* The parser builds the one value the text begins with, and nothing from   *)
(* any other text (json_parse_string).                                      *)
ParserReadsJson ==
    job = "document" =>
        LET r == json_parse_string(input, 0)
        IN  /\ Reading = IF r.v = Null THEN {} ELSE {DocOf(r.v)}
            /\ edits = 0 => Reading = (IF Reading = {} THEN {} ELSE {meaning})
            /\ r.at <= Len(input) + 1

(* Everything the parser or a copy has allocated is in the value it         *)
(* returns, and freed with it, once; nothing of it remains when they fail,  *)
(* whichever call of malloc or character of the text that is due to.        *)
Balanced(h) == h.live = {} /\ ~h.fault

CopyIsClean(r, c, g) ==
    /\ c.v # Null => DocOf(c.v) = DocOf(r.v)
    /\ g = 0 => c.v # Null
    /\ Balanced(json_value_free(json_value_free(c.h, r.v), c.v))

(* The copy fails at its g-th call of malloc, or at none.                   *)
CopiesAreClean(r) ==
    \A g \in 0..r.h.made :
        CopyIsClean(r, json_value_deep_copy([r.h EXCEPT !.fails = r.h.made + g], r.v), g)

ParseIsClean(r, f) ==
    /\ Balanced(json_value_free(r.h, r.v))
    /\ f > 0 => r.v = Null
    /\ (edits = 0 /\ f = 0 /\ r.v # Null) => CopiesAreClean(r)

NothingLeaks ==
    job = "document" =>
        \A f \in (IF edits = 0 THEN 0..json_parse_string(input, 0).h.made ELSE {0}) :
            ParseIsClean(json_parse_string(input, f), f)

(* The ways to cut an answer short: between tokens, or within a string, a   *)
(* word or a number.                                                        *)
CutAfter(n) ==
    LET front == SubSeq(input, 1, n)
    IN  {front, Append(front, CutString), Append(front, CutWord), Append(front, "1")}

EntriesOf(listing, is_auth) ==
    [i \in 1..Len(listing.files) |->
        Entry(listing.files[i], is_auth, listing.files[i].name = "'a'")]

(* The downloader is given one entry for each item of the answer, in order, *)
(* restricted when the item is private and nobody is logged in; and of an   *)
(* answer that was cut short, none at all.  Likewise a login.               *)
AnswersWhole ==
    /\ job = "listing" =>
        /\ \A is_auth \in BOOLEAN :
              EntriesOf(archive_fetch(input), is_auth) =
                  [i \in 1..Len(meaning) |->
                      [name |-> meaning[i].name, size |-> meaning[i].size,
                       restricted |-> meaning[i].private /\ ~is_auth,
                       filtered |-> meaning[i].name # "'a'"]]
        /\ archive_fetch(input).rc = 0
        /\ \A n \in 0..(Len(input) - 1) : \A cut \in CutAfter(n) : archive_fetch(cut) = NoListing
    /\ job = "login" =>
        /\ (auth_login(input).rc = 0) <=> meaning.in
        /\ \A n \in 0..(Len(input) - 1) : \A cut \in CutAfter(n) : auth_login(cut).rc = -1
=============================================================================
