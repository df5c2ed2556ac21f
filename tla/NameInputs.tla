----------------------------- MODULE NameInputs -----------------------------
(***************************************************************************)
(* Inputs for the functions of Names: a behaviour builds a path byte by     *)
(* byte, or a URL word by word, and in every state the functions must do    *)
(* with it what they are for.                                              *)
(***************************************************************************)
EXTENDS Names

CONSTANTS
    Bytes,        \* the bytes paths are made of
    Words,        \* the words that may follow the marker of a URL
    MaxPath,      \* bytes of a path
    MaxWords      \* words of a URL after the first marker

(* A C string holds any byte but NUL.                                      *)
ASSUME NameInputsAssumption == Bytes \subseteq 1..255

VARIABLES
    job,          \* "path" or "url"
    path,
    kind,         \* which page of an item the URL names
    tail          \* the words after it

names == <<job, path, kind, tail>>

Kinds == {"download", "details"}

StartNames(jobs) ==
    /\ job \in jobs
    /\ path = <<>>
    /\ kind \in (IF job = "url" THEN Kinds ELSE {"none"})
    /\ tail = <<>>

AddByte ==
    /\ job = "path" /\ Len(path) < MaxPath
    /\ \E b \in Bytes : path' = Append(path, b)
    /\ UNCHANGED <<job, kind, tail>>

AddWord ==
    /\ job = "url" /\ Len(tail) < MaxWords
    /\ \E w \in Words : tail' = Append(tail, w)
    /\ UNCHANGED <<job, path, kind>>

NamesSpec == StartNames({"path", "url"}) /\ [][AddByte \/ AddWord]_names

-----------------------------------------------------------------------------
HexValue(h) == IF h \in Digits THEN h - 48 ELSE h - 55
IsHex(h) == h \in Digits \cup 65..70

IsEscape(s, i) == s[i] = Percent /\ i + 2 <= Len(s) /\ IsHex(s[i + 1]) /\ IsHex(s[i + 2])

(* What a server makes of an encoded text; plus is what a bare "+" means.   *)
Decoded(s, plus) ==
    LET from[i \in 1..(Len(s) + 1)] ==
            IF i > Len(s) THEN <<>>
            ELSE IF IsEscape(s, i)
              THEN <<16 * HexValue(s[i + 1]) + HexValue(s[i + 2])>> \o from[i + 3]
            ELSE <<IF s[i] = 43 THEN plus ELSE s[i]>> \o from[i + 1]
    IN  from[1]

Ample == 3 * Len(path) + 1

(* The server reads the very name that was encoded, so no two names share a *)
(* URL, whatever percent signs and digits they contain; and the very        *)
(* password, where a form means a space by "+".  A buffer is refused        *)
(* exactly when text and NUL do not fit, and not written beyond its end.    *)
EncodingExact ==
    LET whole == url_encode_path(path, Ample)
        needed == Len(whole.out)
    IN  /\ whole.ok /\ Decoded(whole.out, 43) = path
        /\ Decoded(url_encode(path, Ample), 32) = path
        /\ \A out_sz \in 0..Ample :
              LET r == url_encode_path(path, out_sz)
              IN  /\ r.ok <=> needed < out_sz
                  /\ Len(r.out) <= out_sz /\ (r.ok => Len(r.out) < out_sz)

(* Whatever separators a path has, when download_one comes to open the file *)
(* every directory on the way is there, though mkdirs looks at no result    *)
(* and the path is not mended with the byte that was cut out; without a     *)
(* backslash it is the file whose size was looked at (downloader.c:253).    *)
Start == {[rooted |-> TRUE, at |-> <<>>], [rooted |-> FALSE, at |-> <<>>]}

ParentMade ==
    (path # <<>> /\ Last(path) \notin {Slash, Backslash}) =>
        LET ready == Prepare(Start, path)
            place == Directory(ready.opened)
        IN  /\ [place EXCEPT !.at = Front(@)] \in ready.dirs
            /\ Backslash \notin ToSet(path) => ready.opened = path

(* The archive's identifier is found in a URL of either page, whatever      *)
(* follows it.  On a details page nothing after it may look like a download *)
(* page, which extract_identifier prefers: see the hazard at util.c:76.     *)
IdentifierFound ==
    LET url == <<"https:", "/", "/", "archive.org", "/", kind, "/">> \o tail
        id == extract_identifier(url)
        n == Len(id)
    IN  (job = "url" /\ (kind = "details" => Places(url, Markers[1]) = {})) =>
            /\ id = SubSeq(tail, 1, n)
            /\ \A i \in 1..n : id[i] \notin {"/", "?", "#"}
            /\ n = Len(tail) \/ tail[n + 1] \in {"/", "?", "#"}
=============================================================================
