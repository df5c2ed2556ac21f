-------------------------------- MODULE Names --------------------------------
(***************************************************************************)
(* What becomes of names: the identifier in the URL on the command line     *)
(* (extract_identifier), the URL a file is asked for under                  *)
(* (url_encode_path), the login form (url_encode), and the directories made *)
(* for a file (mkdirs, download_one); util.c, auth.c and downloader.c.      *)
(* A string is a sequence of bytes; in a URL to take apart, of words.       *)
(***************************************************************************)
EXTENDS CText, SequencesExt

(* A place in front of an identifier, the one preferred first.              *)
Markers == << <<"/", "download", "/">>, <<"/", "details", "/">> >>
Places(url, m) == {i \in DOMAIN url : i + 2 <= Len(url) /\ SubSeq(url, i, i + 2) = m}

(* Mutant: a query is taken for a part of the identifier.                   *)
EndersNoQuery == {"/", "#"}

Enders == {"/", "?", "#"}

(* The identifier, <<>> when the function returns -1.  That out may be too  *)
(* small for it (511 bytes) is left out.                                   *)
extract_identifier(url) ==
    LET hit == {k \in DOMAIN Markers : Places(url, Markers[k]) # {}}
    IN  IF hit = {} THEN <<>>
        ELSE LET rest == SubSeq(url, Min(Places(url, Markers[Min(hit)])) + 3, Len(url))
                 n == SelectInSeq(rest, LAMBDA w : w \in Enders)
             IN  IF n = 0 THEN rest ELSE SubSeq(rest, 1, n - 1)

-----------------------------------------------------------------------------
Percent == 37

Digits == 48..57
Upper == 65..90
Lower == 97..122

(* Mutant: a percent sign passes through.                                  *)
SafePercent(c) == c \in Digits \cup Upper \cup Lower \cup {Slash, 45, 95, 46, 126, Percent}

(* The unreserved bytes of RFC 3986, and the slash.                        *)
Safe(c) == c \in Digits \cup Upper \cup Lower \cup {Slash, 45, 95, 46, 126}

Hex(d) == IF d < 10 THEN 48 + d ELSE 55 + d
Escape(c) == <<Percent, Hex(c \div 16), Hex(c % 16)>>

Encoding(c) == IF Safe(c) THEN <<c>> ELSE Escape(c)

(* A form has no slashes.                                                  *)
FormEncoding(c) == IF Safe(c) /\ c # Slash THEN <<c>> ELSE Escape(c)

NoRoom(o, need, out_sz) == o + need >= out_sz

(* What the loop of url_encode_path has written after each byte, in a       *)
(* buffer that is large enough.                                            *)
Encoded(in) ==
    LET out[i \in 0..Len(in)] == IF i = 0 THEN <<>> ELSE out[i - 1] \o Encoding(in[i])
    IN  out

(* url_encode_path: whether it does not return -1, and the bytes written.   *)
url_encode_path(in, out_sz) ==
    LET stops == {i \in 1..Len(in) :
                    NoRoom(Len(Encoded(in)[i - 1]), Len(Encoding(in[i])), out_sz)}
        done == IF out_sz = 0 THEN 0 ELSE IF stops = {} THEN Len(in) ELSE Min(stops) - 1
    IN  [ok |-> out_sz > 0 /\ stops = {}, out |-> Encoded(in)[done]]

(* url_encode, for a form: what does not fit is dropped byte by byte.       *)
FormEncoded(in, out_sz) ==
    LET out[i \in 0..Len(in)] ==
            IF i = 0 THEN <<>>
            ELSE out[i - 1] \o (IF Len(out[i - 1]) + Len(FormEncoding(in[i])) < out_sz
                                THEN FormEncoding(in[i]) ELSE <<>>)
    IN  out

url_encode(in, out_sz) == FormEncoded(in, out_sz)[Len(in)]

-----------------------------------------------------------------------------
(* A directory is where its path leads: from the root or from the working   *)
(* directory, and through which components; empty components lead nowhere.  *)
Closed(w) == IF w.open = <<>> THEN w.closed ELSE Append(w.closed, w.open)

(* The components that are complete after each byte, and the one begun.     *)
Walked(path) ==
    LET walk[i \in 0..Len(path)] ==
            IF i = 0 THEN [closed |-> <<>>, open |-> <<>>]
            ELSE IF path[i] = Slash THEN [closed |-> Closed(walk[i - 1]), open |-> <<>>]
            ELSE [closed |-> walk[i - 1].closed, open |-> Append(walk[i - 1].open, path[i])]
    IN  walk

Components(path) == Closed(Walked(path)[Len(path)])

Directory(path) ==
    [rooted |-> path # <<>> /\ Head(path) = Slash, at |-> Components(path)]

(* make_dir makes a directory in one that exists; that it already exists or *)
(* cannot be made is not looked at.                                        *)
make_dir(dirs, path) ==
    LET d == Directory(path)
    IN  IF d.at = <<>> \/ [d EXCEPT !.at = Front(@)] \notin dirs THEN dirs
        ELSE dirs \cup {d}

(* Mutant: only the last cut is made.                                      *)
CutsLast(path) == {i \in DOMAIN path : path[i] = Slash /\ i = Len(path)}

(* Where mkdirs cuts the path to make a directory of its front.             *)
Cuts(path) == {i \in DOMAIN path : path[i] = Slash}

(* mkdirs: every front that ends before a slash, then the whole path.       *)
MadeSoFar(dirs, path) ==
    LET made[i \in 0..Len(path)] ==
            IF i = 0 THEN dirs
            ELSE IF i \in Cuts(path) /\ i > 1
              THEN make_dir(made[i - 1], SubSeq(path, 1, i - 1))
            ELSE made[i - 1]
    IN  made

mkdirs(dirs, path) ==
    IF path = <<>> THEN dirs ELSE make_dir(MadeSoFar(dirs, path)[Len(path)], path)

(* download_one, before fopen: the path is cut at its last slash or         *)
(* backslash, the directories of the front are made, and the cut is mended  *)
(* with a slash, whatever byte was there.                                  *)
Prepare(dirs, path) ==
    LET cut == SelectLastInSeq(path, LAMBDA b : b \in {Slash, Backslash})
    IN  IF cut = 0 THEN [dirs |-> dirs, opened |-> path]
        ELSE [dirs |-> mkdirs(dirs, SubSeq(path, 1, cut - 1)),
              opened |-> [path EXCEPT ![cut] = Slash]]
=============================================================================
