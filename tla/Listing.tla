------------------------------- MODULE Listing -------------------------------
(***************************************************************************)
(* What the program makes of the two JSON answers it asks for: the files of *)
(* an archive (archive_fetch, and the loop of main that prepares them for   *)
(* the downloader) and the outcome of a login (auth_login).                 *)
(***************************************************************************)
EXTENDS Parson

(* json_object_get_value, which takes NULL and what is no object as well.   *)
Field(v, name) ==
    IF v.type = "object" /\ HasName(v, name)
      THEN (CHOOSE item \in ToSet(v.items) : item.name = name).value
      ELSE Null

(* json_object_dotget_value, the names between the dots being a sequence.   *)
Dotget(v, names) == FoldLeft(Field, v, names)

(* json_value_get_string: NULL for what is no string.                       *)
NoString == "NULL"
StringOf(v) == IF v.type = "string" THEN v.data ELSE NoString
-----------------------------------------------------------------------------
(* atof, of the strings that occur here.                                    *)
Atof(s) == IF s = "'2'" THEN "2" ELSE "0"

(* The size of a file, zero where there is none.                            *)
SizeOf(f) ==
    LET size == Field(f, "'size'")
    IN  CASE size.type = "string" -> Atof(size.data)
          [] size.type = "number" -> size.data
          [] OTHER -> "0"

(* An item that is no object becomes a file without a name.                 *)
FileOf(f) ==
    [name |-> IF StringOf(Field(f, "'name'")) = NoString THEN "" ELSE StringOf(Field(f, "'name'")),
     private |-> StringOf(Field(f, "'private'")),
     size |-> SizeOf(f)]

NoListing == [rc |-> -1, files |-> <<>>]

FilesOf(arr) ==
    IF arr.type # "array" THEN NoListing
    ELSE [rc |-> 0, files |-> [i \in 1..Len(arr.items) |-> FileOf(arr.items[i].value)]]

(* The part of archive_fetch behind a reply with status 200.                *)
archive_fetch(text) == FilesOf(Field(json_parse_string(text, 0).v, "'result'"))

(* Mutant: any private field will do.                                       *)
IsPrivateIfThere(file) == file.private # NoString
IsPrivate(file) == file.private = "'true'"

(* The four arrays main fills, one record for each index.                   *)
Entry(file, is_auth, matches) ==
    [name |-> file.name,
     size |-> file.size,
     restricted |-> IsPrivate(file) /\ ~is_auth,
     filtered |-> ~matches]
-----------------------------------------------------------------------------
Cookie(v, name) == StringOf(Dotget(v, <<"'values'", "'cookies'", name>>))

(* copy_cookie_value leaves nothing of an empty cookie.                     *)
EmptyCookie == "''"

LoginOutcome(success, user, sig) ==
    IF /\ success.type = "boolean" /\ success.data = "true"
       /\ {user, sig} \cap {NoString, EmptyCookie} = {}
      THEN [rc |-> 0, user |-> user, sig |-> sig]
      ELSE [rc |-> -1, user |-> NoString, sig |-> NoString]

LoginOfRoot(root) ==
    LoginOutcome(Field(root, "'success'"),
                 Cookie(root, "'logged-in-user'"), Cookie(root, "'logged-in-sig'"))

(* What auth_login answers, and the cookies it keeps when that is 0.  A     *)
(* login that comes without cookies is refused, and one with an empty one.  *)
auth_login(text) == LoginOfRoot(json_parse_string(text, 0).v)
=============================================================================
