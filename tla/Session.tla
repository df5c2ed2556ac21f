------------------------------- MODULE Session -------------------------------
(***************************************************************************)
(* Accounts, the credentials file and the Cookie header: auth.c as main.c  *)
(* drives it.  Every element of Procs is one invocation after another of    *)
(* archive_downloader by the same user; the invocations share nothing but   *)
(* the credentials file (~/.ia, or the --config path), and two of them may  *)
(* overlap.  An invocation may log out, log in, or log in and download;     *)
(* login answers, failing file operations and a killed process are         *)
(* choices, the troubles of a run being those of its rigid `setting'.       *)
(*                                                                         *)
(* The credentials file has two lines that matter, the logged-in-user and   *)
(* the logged-in-sig cookie, written in that order.  The rest of it (s3     *)
(* keys, screen name) is stored but never used by the program; it decides   *)
(* at which offsets the two lines of an account stand, which is the layout  *)
(* of a setting.  The file has POSIX semantics: a writer that was unlinked  *)
(* under its handle writes into a file nobody will open, and one that finds *)
(* a longer text than its own leaves the end of that text behind.          *)
(***************************************************************************)
EXTENDS Naturals

CONSTANTS
    Accounts,   \* who can log in
    Procs,      \* the user's terminals, each running the program repeatedly
    Settings,   \* [procs: who runs at all, troubles: what may go wrong,
                \*  layout: where the lines of each account's text stand]
    None        \* no account, no cookie, no file, no header

(* A cookie belongs to one account and is whole, or cut short by a file     *)
(* that could not be written to its end.                                   *)
Cookies == [of : Accounts, whole : BOOLEAN]

(* The pair of cookies in memory, and a line of the credentials file.       *)
Pairs == [user : Cookies \cup {None}, sig : Cookies \cup {None}]
Lines == [key : {"user", "sig"}, of : Accounts, whole : BOOLEAN]

ASSUME NoneIsNothing ==
    /\ None \notin Accounts /\ None \notin Cookies /\ None \notin Pairs
    /\ \A f \in SUBSET Lines : f # None

Troubles == {"open", "full", "remove", "crash"}

(* Bytes of text that stdio holds back until fclose.                       *)
BufSize == 4096

(* The layout gives the offsets of the two lines in the text auth_save      *)
(* writes for an account, and the length of that text.                     *)
ASSUME SettingsKnown ==
    \A s \in Settings :
        /\ s.procs \subseteq Procs
        /\ s.troubles \subseteq Troubles
        /\ s.layout \in [Accounts -> [user : 0..BufSize, sig : 0..BufSize, end : 0..BufSize]]
        /\ \A a \in Accounts :
            s.layout[a].user < s.layout[a].sig /\ s.layout[a].sig < s.layout[a].end

VARIABLES
    setting,    \* rigid: the element of Settings this behaviour runs under
    file,       \* the credentials file: None when there is none, else the
                \* whole lines in it
    linked,     \* linked[p]: the file p has open for writing is still `file'
    pc,         \* where main of p stands
    cmd,        \* the command line of p
    mem,        \* g_user, g_sig of p
    auth,       \* g_authenticated of p
    header,     \* g_cookie_header of p's http layer
    stored,     \* history: the account the last completed auth_save stored
    shared,     \* history: who has the file open, and has had it open together
                \* with another
    out,        \* history: a logout emptied the place and no save began since
    barred      \* history: the invocations that began while `out' held

vars == <<setting, file, linked, pc, cmd, mem, auth, header, stored, shared, out, barred>>

own == <<cmd, mem, auth, header>>
history == <<stored, shared, out, barred>>

Nothing == [user |-> None, sig |-> None]
CookieOf(a) == [of |-> a, whole |-> TRUE]
CookiesOf(a) == [user |-> CookieOf(a), sig |-> CookieOf(a)]

(* Mutant: One cookie is enough for auth_load. *)
CompleteEither(m) == m.user # None \/ m.sig # None

(* Both cookies there: what makes auth_load and auth_login succeed.        *)
Complete(m) == m.user # None /\ m.sig # None

(* The command lines main tells apart; `as' is whom --email, the            *)
(* environment or the prompt log in, None when they do not yield a pair of  *)
(* credentials, and src whether a URL is given and has an identifier.       *)
Commands ==
    {c \in [login : BOOLEAN, logout : BOOLEAN, src : {"none", "bad", "good"},
            as : Accounts \cup {None}] : ~c.login => c.as = None}

NoCommand == [login |-> FALSE, logout |-> FALSE, src |-> "none", as |-> None]

(* Where main goes first.  --logout counts only when it stands alone, and a *)
(* URL without an identifier ends the run before any login.                *)
Entry(c) ==
    CASE c.src = "bad"  -> "exit"
      [] c.src # "bad" /\ c.login -> "login"
      [] c.src = "good" /\ ~c.login -> "load"
      [] c.src = "none" /\ ~c.login -> IF c.logout THEN "logout" ELSE "exit"

Init ==
    /\ setting \in Settings
    /\ file = None
    /\ linked = [p \in Procs |-> FALSE]
    /\ pc = [p \in Procs |-> "idle"]
    /\ cmd = [p \in Procs |-> NoCommand]
    /\ mem = [p \in Procs |-> Nothing]
    /\ auth = [p \in Procs |-> FALSE]
    /\ header = [p \in Procs |-> None]
    /\ stored = None
    /\ shared = {}
    /\ out = FALSE
    /\ barred = {}

Trouble(t) == t \in setting.troubles
At(p, place) == pc[p] = place
GoTo(p, place) == pc' = [pc EXCEPT ![p] = place]

(* A new process: static storage is zero, the http layer has no header.    *)
Start(p) ==
    /\ p \in setting.procs
    /\ At(p, "idle")
    /\ \E c \in Commands :
        /\ cmd' = [cmd EXCEPT ![p] = c]
        /\ GoTo(p, Entry(c))
    /\ barred' = IF out THEN barred \cup {p} ELSE barred \ {p}
    /\ UNCHANGED <<setting, file, linked, mem, auth, header, stored, shared, out>>

(* The process is gone, by return or by a signal: its memory with it.      *)
Gone(p) ==
    /\ GoTo(p, "idle")
    /\ mem' = [mem EXCEPT ![p] = Nothing]
    /\ auth' = [auth EXCEPT ![p] = FALSE]
    /\ header' = [header EXCEPT ![p] = None]
    /\ linked' = [linked EXCEPT ![p] = FALSE]
    /\ shared' = shared \ {p}

(* auth_close, http_cleanup and the return of main; the error returns skip  *)
(* auth_close, which the end of the process makes up for.                  *)
Exit(p) ==
    /\ At(p, "exit")
    /\ Gone(p)
    /\ UNCHANGED <<setting, file, cmd, stored, out, barred>>

(* auth_logout: the file goes, also under the hands of a writer.           *)
Logout(p) ==
    /\ At(p, "logout")
    /\ \/ /\ file' = None
          /\ linked' = [q \in Procs |-> FALSE]
          /\ stored' = None
          /\ shared' = {}
          /\ out' = TRUE
       \/ /\ Trouble("remove")
          /\ UNCHANGED <<file, linked, stored, shared, out>>
    /\ mem' = [mem EXCEPT ![p] = Nothing]
    /\ auth' = [auth EXCEPT ![p] = FALSE]
    /\ header' = [header EXCEPT ![p] = None]
    /\ GoTo(p, "exit")
    /\ UNCHANGED <<setting, cmd, barred>>

AfterLogin(p) == IF cmd[p].src = "none" THEN "exit" ELSE "load"

(* auth_login accepted: success, both cookies there and neither empty.     *)
LoginAccepted(p) ==
    /\ At(p, "login")
    /\ cmd[p].as # None
    /\ mem' = [mem EXCEPT ![p] = CookiesOf(cmd[p].as)]
    /\ auth' = [auth EXCEPT ![p] = TRUE]
    /\ GoTo(p, "open")
    /\ UNCHANGED <<setting, file, linked, cmd, header, history>>

(* http_post_form brings no answer with status 200.                        *)
LoginUnanswered(p) ==
    /\ At(p, "login")
    /\ cmd[p].as # None
    /\ GoTo(p, "exit")
    /\ UNCHANGED <<setting, file, linked, own, history>>

(* No credentials to post, or an answer that is no JSON, reports no success *)
(* or lacks a cookie.                                                      *)
LoginRefused(p) ==
    /\ At(p, "login")
    /\ GoTo(p, "exit")
    /\ UNCHANGED <<setting, file, linked, own, history>>

(* An answer with an empty cookie: the other one is copied, then do_login   *)
(* fails all the same.                                                     *)
LoginEmptyCookie(p) ==
    /\ At(p, "login")
    /\ cmd[p].as # None
    /\ \E k \in {"user", "sig"} :
        mem' = [mem EXCEPT ![p] = [CookiesOf(cmd[p].as) EXCEPT ![k] = None]]
    /\ GoTo(p, "exit")
    /\ UNCHANGED <<setting, file, linked, cmd, auth, header, history>>

(* Who has the credentials file open for writing.                          *)
Writers == {q \in Procs : linked[q]}

(* auth_save, first half: fopen with "w" empties the file or creates it,    *)
(* also when another invocation has it open.                               *)
SaveOpen(p) ==
    /\ At(p, "open")
    /\ auth[p]
    /\ file' = {}
    /\ linked' = [linked EXCEPT ![p] = TRUE]
    /\ stored' = None
    /\ shared' = IF Writers = {} THEN shared ELSE shared \cup Writers \cup {p}
    /\ out' = FALSE
    /\ barred' = {}
    /\ GoTo(p, "write")
    /\ UNCHANGED <<setting, own>>

(* It cannot be opened: a warning, and "Login stored" all the same.        *)
SaveFails(p) ==
    /\ At(p, "open")
    /\ Trouble("open")
    /\ GoTo(p, AfterLogin(p))
    /\ UNCHANGED <<setting, file, linked, own, history>>

(* The offset at which a line stands: auth_save writes its text from the    *)
(* start of the file.                                                      *)
Offset(l) == setting.layout[l.of][l.key]

Text(a) == [key : {"user", "sig"}, of : {a}, whole : {TRUE}]

(* The whole lines of longer texts that a text of a does not reach.  What   *)
(* remains of a line it ends in has lost the start of its key.             *)
Behind(a) == {l \in file : Offset(l) >= setting.layout[a].end}

(* What a full disk leaves of a text of a, none of it noticed.             *)
Fronts(a) ==
    LET Line(k, w) == [key |-> k, of |-> a, whole |-> w]
    IN  {{}, {Line("user", FALSE)}, {Line("user", TRUE)},
         {Line("user", TRUE), Line("sig", FALSE)}}

(* No text of one account leaves a cookie of a longer one behind.           *)
Alike(layout) == \A a, b \in Accounts : layout[a].sig < layout[b].end

(* Mutant: auth_save writes under the file's name, whatever it opened.      *)
SaveWriteByName(p) ==
    /\ At(p, "write")
    /\ file' = Text(mem[p].user.of)
    /\ stored' = IF linked[p] THEN mem[p].user.of ELSE stored
    /\ linked' = [linked EXCEPT ![p] = FALSE]
    /\ shared' = shared \ {p}
    /\ GoTo(p, AfterLogin(p))
    /\ UNCHANGED <<setting, own, out, barred>>

(* Mutant: auth_save returns early without closing the file. *)
SaveWriteUnclosed(p) ==
    /\ At(p, "write")
    /\ GoTo(p, AfterLogin(p))
    /\ UNCHANGED <<setting, file, linked, own, history>>

(* auth_save, second half: at fclose the buffered text reaches the file it  *)
(* was opened for, from offset 0 and without truncating it again.  The      *)
(* account counts as stored unless another writer may have left, or may     *)
(* leave, a cookie behind the text.  (With a full disk the text also        *)
(* replaces what it may not have reached: more than can happen.)           *)
SaveWrite(p) ==
    /\ At(p, "write")
    /\ LET a == mem[p].user.of
       IN  \/ /\ ~linked[p]
              /\ UNCHANGED <<file, stored>>
           \/ /\ linked[p]
              /\ file' = Text(a) \cup Behind(a)
              /\ stored' = IF p \notin shared \/ Alike(setting.layout) THEN a ELSE None
           \/ /\ linked[p]
              /\ Trouble("full") /\ Behind(a) = {}
              /\ file' \in Fronts(a)
              /\ stored' = None
    /\ linked' = [linked EXCEPT ![p] = FALSE]
    /\ shared' = shared \ {p}
    /\ GoTo(p, AfterLogin(p))
    /\ UNCHANGED <<setting, own, out, barred>>

(* The cookie auth_load is left with for a key: each line of the file is    *)
(* copied over the one before, and when there is none the old value stands. *)
Reading(key, old) ==
    LET there == {l \in file : l.key = key}
        last  == CHOOSE l \in there : \A k \in there : Offset(k) <= Offset(l)
    IN  IF there = {} THEN old ELSE [of |-> last.of, whole |-> last.whole]

(* Mutant: auth_load only fills in what is missing. *)
MemoryWins(m) ==
    IF file = None THEN m
    ELSE [user |-> IF m.user # None THEN m.user ELSE Reading("user", None),
          sig  |-> IF m.sig # None THEN m.sig ELSE Reading("sig", None)]

(* auth_load reads over what is in memory.                                 *)
Overlaid(m) ==
    IF file = None THEN m
    ELSE [user |-> Reading("user", m.user), sig |-> Reading("sig", m.sig)]

(* rebuild_cookie and auth_cookie_header: both cookies as they stand, no    *)
(* header when there is neither.                                           *)
CookieHeader(m) == IF m.user = None /\ m.sig = None THEN None ELSE m

(* Mutant: auth_load calls any file it can open an authentication.         *)
LoadMarks(p) ==
    /\ At(p, "load")
    /\ mem' = [mem EXCEPT ![p] = Overlaid(mem[p])]
    /\ auth' = [auth EXCEPT ![p] = @ \/ file # None]
    /\ IF file # None /\ Complete(Overlaid(mem[p]))
       THEN header' = [header EXCEPT ![p] = CookieHeader(Overlaid(mem[p]))]
       ELSE UNCHANGED header
    /\ GoTo(p, "fetch")
    /\ UNCHANGED <<setting, file, linked, cmd, history>>

(* auth_load, and the header set from it when it succeeds.                 *)
Load(p) ==
    /\ At(p, "load")
    /\ mem' = [mem EXCEPT ![p] = Overlaid(mem[p])]
    /\ IF file # None /\ Complete(Overlaid(mem[p]))
       THEN /\ auth' = [auth EXCEPT ![p] = TRUE]
            /\ header' = [header EXCEPT ![p] = CookieHeader(Overlaid(mem[p]))]
       ELSE UNCHANGED <<auth, header>>
    /\ GoTo(p, "fetch")
    /\ UNCHANGED <<setting, file, linked, cmd, history>>

(* archive_fetch, with the header: no listing ends the run.                *)
Fetch(p) ==
    /\ At(p, "fetch")
    /\ \/ GoTo(p, "download")
       \/ GoTo(p, "exit")
    /\ UNCHANGED <<setting, file, linked, own, history>>

(* The restricted files of the listing are requested, with the header, only *)
(* when the program holds itself authenticated.                            *)
AsksRestricted(p) == At(p, "download") /\ auth[p]

Download(p) ==
    /\ At(p, "download")
    /\ GoTo(p, "exit")
    /\ UNCHANGED <<setting, file, linked, own, history>>

(* The process is killed; what it had not flushed never reaches the file.  *)
Crash(p) ==
    /\ Trouble("crash")
    /\ pc[p] # "idle"
    /\ Gone(p)
    /\ UNCHANGED <<setting, file, cmd, stored, out, barred>>

Next ==
    \E p \in Procs :
        \/ Start(p) \/ Exit(p) \/ Logout(p)
        \/ LoginAccepted(p) \/ LoginEmptyCookie(p)
        \/ LoginUnanswered(p) \/ LoginRefused(p)
        \/ SaveOpen(p) \/ SaveFails(p) \/ SaveWrite(p)
        \/ Load(p) \/ Fetch(p) \/ Download(p) \/ Crash(p)

Spec == Init /\ [][Next]_vars

-----------------------------------------------------------------------------
Places == {"idle", "exit", "logout", "login", "open", "write", "load", "fetch", "download"}

(* The values the variables take; a credentials file is open for writing    *)
(* only between the two halves of auth_save, and then it exists.           *)
TypeOK ==
    /\ setting \in Settings
    /\ file = None \/ file \subseteq Lines
    /\ linked \in [Procs -> BOOLEAN]
    /\ \A p \in Procs : linked[p] => At(p, "write") /\ file # None
    /\ pc \in [Procs -> Places]
    /\ cmd \in [Procs -> Commands]
    /\ mem \in [Procs -> Pairs]
    /\ auth \in [Procs -> BOOLEAN]
    /\ header \in [Procs -> Pairs \cup {None}]
    /\ stored \in Accounts \cup {None}
    /\ shared \subseteq Writers
    /\ out \in BOOLEAN
    /\ barred \subseteq Procs

(* A Cookie header carries both cookies and both are one account's: the     *)
(* file read over the login just made (auth_load does not clear first) and  *)
(* the file other invocations are rewriting never make a mixture.  It needs *)
(* a disk with room, or a user who waits for one invocation to end: see the *)
(* hazard at auth.c:222.  And of texts of different lengths the shorter     *)
(* must not end between the two cookies of the longer, which would leave    *)
(* the signature of one account behind the cookies of another: see the      *)
(* hazard at auth.c:187.                                                   *)
HeaderPaired ==
    \A p \in Procs :
        header[p] # None =>
            /\ header[p].user # None /\ header[p].sig # None
            /\ header[p].user.of = header[p].sig.of

(* A layout whose texts end before both cookies of a longer one, or behind  *)
(* them.                                                                   *)
Unsplit(layout) ==
    \A a, b \in Accounts : layout[a].user < layout[b].end => layout[a].sig < layout[b].end

(* Once a logout has emptied the place, an invocation that begins sends no  *)
(* cookies, until somebody saves a login again: not even a login that was   *)
(* half saved when the file was removed brings the account back.           *)
LogoutStops == \A p \in barred : header[p] = None

(* A login persists: whatever was started, killed or refused since          *)
(* auth_save completed, an invocation that comes to auth_load sends exactly *)
(* the cookies of the account last stored; also when the save overlapped    *)
(* with others, as long as the lengths of the texts are such that none can  *)
(* leave a cookie of another behind.                                       *)
LoginLasts ==
    [][\A p \in Procs :
        (Load(p) /\ stored # None) => header'[p] = CookiesOf(stored)]_vars

(* Restricted files are skipped up front without authentication: without    *)
(* --login they are only asked for under a Cookie header (main.c:334).     *)
AnonymousSkips ==
    \A p \in Procs : (AsksRestricted(p) /\ ~cmd[p].login) => header[p] # None

(* "Login stored. You're now able to download restricted collections."      *)
(* (main.c:135): after an accepted --login the restricted files are asked   *)
(* for with the cookies of that account.                                   *)
LoginUnlocks ==
    \A p \in Procs :
        (AsksRestricted(p) /\ cmd[p].login) => header[p] = CookiesOf(cmd[p].as)
=============================================================================
