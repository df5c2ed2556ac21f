---------------------------- MODULE SessionProofs ----------------------------
(***************************************************************************)
(* What holds of accounts and the credentials file for every set of        *)
(* accounts, any number of terminals, every trouble and every layout of the *)
(* texts, a full disk and a split pair excepted where that is said.         *)
(***************************************************************************)
EXTENDS Session, Recursion, TLAPS

(* Steps of p, by what they leave alone.                                   *)
Step(p) ==
    \/ Start(p) \/ Exit(p) \/ Logout(p)
    \/ LoginAccepted(p) \/ LoginEmptyCookie(p)
    \/ LoginUnanswered(p) \/ LoginRefused(p)
    \/ SaveOpen(p) \/ SaveFails(p) \/ SaveWrite(p)
    \/ Load(p) \/ Fetch(p) \/ Download(p) \/ Crash(p)

LEMMA NextIsStep == Next => \E p \in Procs : Step(p)
  BY DEF Next, Step

(* Values the actions build have the types they are stored at.             *)
LEMMA NothingType == Nothing \in Pairs /\ NoCommand \in Commands
  BY DEF Nothing, Pairs, NoCommand, Commands

LEMMA CookiesType ==
    ASSUME NEW a \in Accounts
    PROVE  /\ CookiesOf(a) \in Pairs
           /\ Complete(CookiesOf(a))
           /\ CookiesOf(a).user = CookieOf(a) /\ CookiesOf(a).sig = CookieOf(a)
  <1>1. CookieOf(a) \in Cookies
    BY DEF CookieOf, Cookies
  <1>2. CookiesOf(a) \in Pairs
    BY <1>1 DEF CookiesOf, Pairs
  <1>3. Complete(CookiesOf(a))
    BY <1>1, NoneIsNothing DEF CookiesOf, Complete
  <1>. QED
    BY <1>2, <1>3 DEF CookiesOf

LEMMA HalfType ==
    ASSUME NEW a \in Accounts, NEW k \in {"user", "sig"}
    PROVE  [CookiesOf(a) EXCEPT ![k] = None] \in Pairs
  <1>1. CASE k = "user"
    BY <1>1 DEF CookiesOf, CookieOf, Pairs, Cookies
  <1>2. CASE k = "sig"
    BY <1>2 DEF CookiesOf, CookieOf, Pairs, Cookies
  <1>. QED
    BY <1>1, <1>2

LEMMA EntryType == ASSUME NEW c \in Commands PROVE Entry(c) \in Places
  BY DEF Entry, Commands, Places

(* Where the lines of an account stand.                                    *)
LEMMA LayoutKnown ==
    ASSUME setting \in Settings, NEW a \in Accounts
    PROVE  /\ setting.layout[a].user \in 0..BufSize
           /\ setting.layout[a].sig \in 0..BufSize
           /\ setting.layout[a].end \in 0..BufSize
           /\ setting.layout[a].user < setting.layout[a].sig
           /\ setting.layout[a].sig < setting.layout[a].end
  BY SettingsKnown

LEMMA OffsetKnown ==
    ASSUME setting \in Settings, NEW l \in Lines
    PROVE  /\ Offset(l) \in 0..BufSize
           /\ l.key = "user" => Offset(l) = setting.layout[l.of].user
           /\ l.key = "sig" => Offset(l) = setting.layout[l.of].sig
  <1>1. l.of \in Accounts /\ l.key \in {"user", "sig"}
    BY DEF Lines
  <1>2. CASE l.key = "user"
    BY <1>1, <1>2, LayoutKnown DEF Offset
  <1>3. CASE l.key = "sig"
    BY <1>1, <1>3, LayoutKnown DEF Offset
  <1>. QED
    BY <1>1, <1>2, <1>3

LineOf(k, a) == [key |-> k, of |-> a, whole |-> TRUE]

LEMMA TextIs ==
    ASSUME NEW a \in Accounts
    PROVE  /\ Text(a) \subseteq Lines
           /\ \A k \in {"user", "sig"} : LineOf(k, a) \in Text(a)
           /\ \A l \in Text(a) : l.of = a /\ l.whole = TRUE
  BY DEF Text, Lines, LineOf

LEMMA FrontsType == ASSUME NEW a \in Accounts PROVE Fronts(a) \subseteq SUBSET Lines
  BY DEF Fronts, Lines

(* The line auth_load reads last for a key.                                *)
LEMMA ReadsLast ==
    ASSUME setting \in Settings, file \subseteq Lines,
           NEW key, \E l \in file : l.key = key
    PROVE  \E l \in file :
              /\ l.key = key
              /\ \A k \in file : k.key = key => Offset(k) <= Offset(l)
              /\ \A old : Reading(key, old) = [of |-> l.of, whole |-> l.whole]
  <1> DEFINE there == {l \in file : l.key = key}
             S == {BufSize - Offset(l) : l \in there}
             IsLast(l) == \A k \in there : Offset(k) <= Offset(l)
             last == CHOOSE l \in there : IsLast(l)
  <1>1. \A l \in there : Offset(l) \in 0..BufSize
    BY OffsetKnown
  <1>2. BufSize \in Nat
    BY DEF BufSize
  <1>3. S \in SUBSET Nat /\ S # {}
    BY <1>1, <1>2
  <1>4. Min(S) \in S /\ \A y \in S : Min(S) <= y
    BY <1>3, MinIsLeast
  <1>5. PICK l \in there : Min(S) = BufSize - Offset(l)
    BY <1>4
  <1>6. IsLast(l)
    <2>. SUFFICES ASSUME NEW k \in there PROVE Offset(k) <= Offset(l)
      OBVIOUS
    <2>1. Min(S) <= BufSize - Offset(k)
      BY <1>4
    <2>. QED
      BY <1>1, <1>2, <1>5, <2>1
  <1>7. last \in there /\ IsLast(last)
    BY <1>6
  <1>8. \A old : Reading(key, old) = [of |-> last.of, whole |-> last.whole]
    BY <1>7 DEF Reading
  <1>. QED
    BY <1>7, <1>8

LEMMA ReadsNone ==
    ASSUME NEW key, ~\E l \in file : l.key = key, NEW old
    PROVE  Reading(key, old) = old
  BY DEF Reading

LEMMA ReadingType ==
    ASSUME setting \in Settings, file \subseteq Lines, NEW key, NEW old \in Cookies \cup {None}
    PROVE  Reading(key, old) \in Cookies \cup {None}
  <1>1. CASE \E l \in file : l.key = key
    <2>1. PICK l \in file : Reading(key, old) = [of |-> l.of, whole |-> l.whole]
      BY <1>1, ReadsLast
    <2>. QED
      BY <2>1 DEF Lines, Cookies
  <1>2. CASE ~\E l \in file : l.key = key
    BY <1>2, ReadsNone
  <1>. QED
    BY <1>1, <1>2

LEMMA OverlaidType ==
    ASSUME setting \in Settings, file = None \/ file \subseteq Lines, NEW m \in Pairs
    PROVE  Overlaid(m) \in Pairs
  <1>1. CASE file = None
    BY <1>1 DEF Overlaid
  <1>2. CASE file # None
    <2>1. m.user \in Cookies \cup {None} /\ m.sig \in Cookies \cup {None}
      BY DEF Pairs
    <2>2. Reading("user", m.user) \in Cookies \cup {None} /\ Reading("sig", m.sig) \in Cookies \cup {None}
      BY <1>2, <2>1, ReadingType
    <2>. QED
      BY <1>2, <2>2 DEF Overlaid, Pairs
  <1>. QED
    BY <1>1, <1>2

(* A pair that is being saved is one account's, whole: between the accepted *)
(* login and the end of auth_save nothing else touches g_user and g_sig.   *)
SavesWhole ==
    \A p \in Procs : pc[p] \in {"open", "write"} =>
        cmd[p].as \in Accounts /\ mem[p] = CookiesOf(cmd[p].as)

TypeInv == TypeOK /\ SavesWhole

(* The types hold at the start, and nobody is about to save anything.       *)
THEOREM InitType == Init => TypeInv
  BY NothingType DEF Init, TypeInv, TypeOK, SavesWhole, At, Places, Writers

LEMMA SavesOwn ==
    ASSUME TypeInv, NEW p \in Procs, At(p, "write")
    PROVE  cmd[p].as \in Accounts /\ mem[p].user.of = cmd[p].as
  <1>1. cmd[p].as \in Accounts /\ mem[p] = CookiesOf(cmd[p].as)
    BY DEF TypeInv, SavesWhole, At
  <1>. QED
    BY <1>1 DEF CookiesOf, CookieOf

LEMMA StepType ==
    ASSUME TypeInv, NEW p \in Procs, Step(p)
    PROVE  TypeInv'
  <1> USE DEF TypeInv, TypeOK, SavesWhole, At, GoTo, Places, own, history, Writers
  <1>1. CASE Start(p)
    <2>1. PICK c \in Commands : cmd' = [cmd EXCEPT ![p] = c] /\ pc' = [pc EXCEPT ![p] = Entry(c)]
      BY <1>1 DEF Start
    <2>2. Entry(c) \in Places \ {"open", "write"}
      BY DEF Entry, Commands
    <2>. QED
      BY <1>1, <2>1, <2>2 DEF Start
  <1>2. CASE Exit(p)
    BY <1>2, NothingType DEF Exit, Gone
  <1>3. CASE Logout(p)
    BY <1>3, NothingType DEF Logout
  <1>4. CASE LoginAccepted(p)
    <2>1. cmd[p].as \in Accounts
      BY <1>4 DEF LoginAccepted, Commands
    <2>2. CookiesOf(cmd[p].as) \in Pairs
      BY <2>1, CookiesType
    <2>. QED
      BY <1>4, <2>1, <2>2 DEF LoginAccepted
  <1>5. CASE LoginUnanswered(p) \/ LoginRefused(p) \/ Fetch(p) \/ Download(p)
    BY <1>5 DEF LoginUnanswered, LoginRefused, Fetch, Download
  <1>6. CASE LoginEmptyCookie(p)
    <2>1. cmd[p].as \in Accounts
      BY <1>6 DEF LoginEmptyCookie, Commands
    <2>2. \A k \in {"user", "sig"} : [CookiesOf(cmd[p].as) EXCEPT ![k] = None] \in Pairs
      BY <2>1, HalfType
    <2>3. PICK m \in Pairs : mem' = [mem EXCEPT ![p] = m]
      BY <1>6, <2>2 DEF LoginEmptyCookie
    <2>. QED
      BY <1>6, <2>3 DEF LoginEmptyCookie
  <1>7. CASE SaveOpen(p)
    <2>1. file' = {} /\ {} \in SUBSET Lines /\ {} # None
      BY <1>7, NoneIsNothing DEF SaveOpen
    <2>2. /\ linked' = [linked EXCEPT ![p] = TRUE]
          /\ shared' \subseteq Writers \cup {p}
          /\ pc' = [pc EXCEPT ![p] = "write"]
      BY <1>7 DEF SaveOpen
    <2>3. /\ linked' \in [Procs -> BOOLEAN]
          /\ \A q \in Procs : linked'[q] => pc'[q] = "write"
          /\ shared' \subseteq {q \in Procs : linked'[q]}
      BY <2>2
    <2>4. /\ UNCHANGED <<setting, cmd, mem, auth, header>>
          /\ pc[p] = "open" /\ stored' = None /\ out' = FALSE /\ barred' = {}
      BY <1>7 DEF SaveOpen
    <2>5. SavesWhole'
      BY <2>2, <2>4
    <2>. QED
      BY <2>1, <2>2, <2>3, <2>4, <2>5
  <1>8. CASE SaveFails(p)
    BY <1>8 DEF SaveFails, AfterLogin
  <1>9. CASE SaveWrite(p)
    <2>1. /\ cmd[p].as \in Accounts
          /\ mem[p].user.of = cmd[p].as
      BY <1>9 DEF SaveWrite, CookiesOf, CookieOf
    <2>2. /\ Text(mem[p].user.of) \subseteq Lines
          /\ Fronts(mem[p].user.of) \subseteq SUBSET Lines
          /\ linked[p] => Behind(mem[p].user.of) \subseteq Lines
      BY <2>1, TextIs, FrontsType DEF Behind
    <2>3. /\ file' = None \/ file' \subseteq Lines
          /\ stored' \in Accounts \cup {None}
      BY <1>9, <2>1, <2>2 DEF SaveWrite
    <2>4. ~linked[p] => file' = file
      BY <1>9 DEF SaveWrite
    <2>5. linked[p] => file' \in SUBSET Lines
      BY <1>9, <2>2 DEF SaveWrite
    <2>6. \A q \in Procs : linked'[q] => pc'[q] = "write" /\ file' # None
      BY <1>9, <2>4, <2>5, NoneIsNothing DEF SaveWrite, AfterLogin
    <2>. QED
      BY <1>9, <2>3, <2>6 DEF SaveWrite, AfterLogin
  <1>10. CASE Load(p)
    <2>1. mem[p] \in Pairs /\ setting \in Settings /\ (file = None \/ file \subseteq Lines)
      OBVIOUS
    <2>2. Overlaid(mem[p]) \in Pairs
      BY <2>1, OverlaidType
    <2>3. CookieHeader(Overlaid(mem[p])) \in Pairs \cup {None}
      BY <2>2 DEF CookieHeader
    <2>4. ASSUME header' = [header EXCEPT ![p] = CookieHeader(Overlaid(mem[p]))]
          PROVE  header' \in [Procs -> Pairs \cup {None}]
      BY <2>3, <2>4
    <2>5. ASSUME UNCHANGED header
          PROVE  header' \in [Procs -> Pairs \cup {None}]
      BY <2>5
    <2>6. /\ auth' = [auth EXCEPT ![p] = TRUE] \/ UNCHANGED auth
          /\ \/ header' = [header EXCEPT ![p] = CookieHeader(Overlaid(mem[p]))]
             \/ UNCHANGED header
      BY <1>10 DEF Load
    <2>7. header' \in [Procs -> Pairs \cup {None}] /\ auth' \in [Procs -> BOOLEAN]
      BY <2>4, <2>5, <2>6
    <2>. QED
      BY <1>10, <2>2, <2>7 DEF Load
  <1>11. CASE Crash(p)
    BY <1>11, NothingType DEF Crash, Gone
  <1>. QED
    BY <1>1, <1>2, <1>3, <1>4, <1>5, <1>6, <1>7, <1>8, <1>9, <1>10, <1>11 DEF Step

LEMMA StutterType == TypeInv /\ UNCHANGED vars => TypeInv'
  BY DEF TypeInv, TypeOK, SavesWhole, vars, At, Writers

(* The types hold in every state, and whoever is in auth_save has the whole  *)
(* pair of cookies of the account it logged in to.                         *)
THEOREM SessionTypeInv == Spec => []TypeInv
  <1>1. TypeInv /\ [Next]_vars => TypeInv'
    BY NextIsStep, StepType, StutterType
  <1>. QED
    BY InitType, <1>1, PTL DEF Spec

(* The variables of the model keep their types, and a credentials file is   *)
(* held open only between the two halves of auth_save.                     *)
THEOREM SessionTypes == Spec => []TypeOK
  <1>1. TypeInv => TypeOK
    BY DEF TypeInv
  <1>. QED
    BY <1>1, SessionTypeInv, PTL

-----------------------------------------------------------------------------
(* While the place is empty after a logout, no open handle leads to a file  *)
(* that could come back, and the only processes that are barred are those   *)
(* that began since.                                                       *)
Emptied ==
    /\ barred # {} => out
    /\ out => file = None /\ (\A q \in Procs : ~linked[q])
    /\ \A p \in Procs : pc[p] = "idle" => header[p] = None

LogoutInv == Emptied /\ LogoutStops

LEMMA StepLogout ==
    ASSUME TypeInv, LogoutInv, NEW p \in Procs, Step(p)
    PROVE  LogoutInv'
  <1> USE DEF TypeInv, TypeOK, LogoutInv, Emptied, LogoutStops, At, GoTo, own, history
  <1>1. CASE Start(p)
    <2>1. PICK c \in Commands : pc' = [pc EXCEPT ![p] = Entry(c)]
      BY <1>1 DEF Start
    <2>2. Entry(c) # "idle"
      BY DEF Entry, Commands
    <2>. QED
      BY <1>1, <2>1, <2>2 DEF Start
  <1>2. CASE Exit(p) \/ Crash(p)
    BY <1>2 DEF Exit, Crash, Gone
  <1>3. CASE Logout(p)
    BY <1>3 DEF Logout
  <1>4. CASE LoginAccepted(p) \/ LoginEmptyCookie(p) \/ LoginUnanswered(p) \/ LoginRefused(p)
    BY <1>4 DEF LoginAccepted, LoginEmptyCookie, LoginUnanswered, LoginRefused
  <1>5. CASE SaveOpen(p)
    BY <1>5 DEF SaveOpen
  <1>6. CASE SaveFails(p)
    BY <1>6 DEF SaveFails, AfterLogin
  <1>7. CASE SaveWrite(p)
    BY <1>7 DEF SaveWrite, AfterLogin
  <1>8. CASE Load(p)
    BY <1>8 DEF Load, CookieHeader
  <1>9. CASE Fetch(p) \/ Download(p)
    BY <1>9 DEF Fetch, Download
  <1>. QED
    BY <1>1, <1>2, <1>3, <1>4, <1>5, <1>6, <1>7, <1>8, <1>9 DEF Step

(* Whatever goes wrong, an invocation that begins after a logout and before *)
(* the next save sends no cookie.                                          *)
THEOREM LogoutHolds == Spec => []LogoutStops
  <1>1. Init => LogoutInv
    BY DEF Init, LogoutInv, Emptied, LogoutStops
  <1>2. TypeInv /\ LogoutInv /\ [Next]_vars => LogoutInv'
    <2>1. LogoutInv /\ UNCHANGED vars => LogoutInv'
      BY DEF LogoutInv, Emptied, LogoutStops, vars
    <2>. QED
      BY <2>1, NextIsStep, StepLogout
  <1>3. LogoutInv => LogoutStops
    BY DEF LogoutInv
  <1>. QED
    BY <1>1, <1>2, <1>3, SessionTypeInv, PTL DEF Spec

-----------------------------------------------------------------------------
(* What the history calls stored is on file, alone; and whoever has the     *)
(* file open and has not shared it, has it empty and to himself.            *)
OnFile ==
    /\ stored # None => file = Text(stored)
    /\ \A p \in Procs : linked[p] =>
        \/ p \in shared
        \/ file = {} /\ \A q \in Procs : linked[q] => q = p

LEMMA NothingBehind ==
    ASSUME TypeInv, NEW a \in Accounts, file # None,
           file = {} \/ Alike(setting.layout)
    PROVE  Behind(a) = {}
  <1>1. CASE file = {}
    BY <1>1 DEF Behind
  <1>2. ASSUME Alike(setting.layout), NEW l \in file
        PROVE  ~(Offset(l) >= setting.layout[a].end)
    <2>1. setting \in Settings /\ l \in Lines /\ l.of \in Accounts /\ l.key \in {"user", "sig"}
      BY DEF TypeInv, TypeOK, Lines
    <2>2. Offset(l) <= setting.layout[l.of].sig
      BY <2>1, OffsetKnown, LayoutKnown
    <2>3. setting.layout[l.of].sig < setting.layout[a].end
      BY <1>2, <2>1 DEF Alike
    <2>. QED
      BY <2>1, <2>2, <2>3, LayoutKnown, OffsetKnown
  <1>. QED
    BY <1>1, <1>2 DEF Behind

LEMMA StepOnFile ==
    ASSUME TypeInv, OnFile, NEW p \in Procs, Step(p)
    PROVE  OnFile'
  <1>0. /\ linked \in [Procs -> BOOLEAN] /\ shared \subseteq Procs
        /\ \A q \in Procs : linked[q] => file # None
    BY DEF TypeInv, TypeOK, Writers
  <1>1. CASE SaveWrite(p)
    <2>1. cmd[p].as \in Accounts /\ mem[p].user.of = cmd[p].as
      BY <1>1, SavesOwn DEF SaveWrite
    <2>2. linked' = [linked EXCEPT ![p] = FALSE] /\ shared' = shared \ {p}
      BY <1>1 DEF SaveWrite
    <2>3. stored' # None => file' = Text(stored')
      <3>1. CASE ~linked[p]
        BY <1>1, <3>1 DEF SaveWrite, OnFile
      <3>2. CASE linked[p] /\ stored' # None
        <4>1. /\ file' = Text(cmd[p].as) \cup Behind(cmd[p].as)
              /\ stored' = cmd[p].as
              /\ p \notin shared \/ Alike(setting.layout)
          BY <1>1, <2>1, <3>2 DEF SaveWrite
        <4>2. file = {} \/ Alike(setting.layout)
          BY <3>2, <4>1 DEF OnFile
        <4>3. Behind(cmd[p].as) = {}
          BY <1>0, <2>1, <3>2, <4>2, NothingBehind
        <4>. QED
          BY <4>1, <4>3
      <3>. QED
        BY <3>1, <3>2
    <2>4. ASSUME NEW q \in Procs, linked'[q], q \notin shared'
          PROVE  file' = {} /\ \A r \in Procs : linked'[r] => r = q
      <3>1. q # p /\ linked[q] /\ q \notin shared
        BY <1>0, <2>2, <2>4
      <3>2. file = {} /\ \A r \in Procs : linked[r] => r = q
        BY <3>1 DEF OnFile
      <3>3. ~linked[p]
        BY <3>1, <3>2
      <3>4. file' = file
        BY <1>1, <3>3 DEF SaveWrite
      <3>. QED
        BY <1>0, <2>2, <3>2, <3>4
    <2>. QED
      BY <2>3, <2>4 DEF OnFile
  <1>2. CASE Logout(p)
    BY <1>2 DEF Logout, OnFile
  <1>3. CASE SaveOpen(p)
    BY <1>0, <1>3 DEF SaveOpen, OnFile, Writers
  <1>4. CASE Exit(p) \/ Crash(p)
    <2>1. /\ UNCHANGED <<file, stored>>
          /\ linked' = [linked EXCEPT ![p] = FALSE] /\ shared' = shared \ {p}
      BY <1>4 DEF Exit, Crash, Gone
    <2>. QED
      BY <1>0, <2>1 DEF OnFile
  <1>5. CASE ~(SaveWrite(p) \/ Logout(p) \/ SaveOpen(p) \/ Exit(p) \/ Crash(p))
    <2>1. UNCHANGED <<file, linked, stored, shared>>
      BY <1>5 DEF Step, Start, LoginAccepted, LoginEmptyCookie, LoginUnanswered, LoginRefused,
                  SaveFails, Load, CookieHeader, Fetch, Download, history
    <2>. QED
      BY <2>1 DEF OnFile
  <1>. QED
    BY <1>1, <1>2, <1>3, <1>4, <1>5

LEMMA ReadsText ==
    ASSUME setting \in Settings, NEW a \in Accounts, file = Text(a), NEW k \in {"user", "sig"}, NEW old
    PROVE  Reading(k, old) = CookieOf(a)
  <1>1. file \subseteq Lines /\ LineOf(k, a) \in file
    BY TextIs
  <1>2. \E l \in file : l.key = k
    BY <1>1 DEF LineOf
  <1>3. PICK l \in file : Reading(k, old) = [of |-> l.of, whole |-> l.whole]
    BY <1>1, <1>2, ReadsLast
  <1>4. l.of = a /\ l.whole = TRUE
    BY TextIs
  <1>. QED
    BY <1>3, <1>4 DEF CookieOf

LEMMA LoadGives ==
    ASSUME TypeInv, OnFile, NEW p \in Procs, Load(p), stored # None
    PROVE  header'[p] = CookiesOf(stored)
  <1>1. stored \in Accounts /\ file = Text(stored) /\ setting \in Settings
    BY DEF TypeInv, TypeOK, OnFile
  <1>2. CookiesOf(stored) \in Pairs /\ Complete(CookiesOf(stored))
    BY <1>1, CookiesType
  <1>3. file # None
    BY <1>1, TextIs, NoneIsNothing
  <1>4. Overlaid(mem[p]) = CookiesOf(stored)
    BY <1>1, <1>3, ReadsText DEF Overlaid, CookiesOf
  <1>5. CookieHeader(CookiesOf(stored)) = CookiesOf(stored)
    BY <1>2 DEF Complete, CookieHeader
  <1>6. header' = [header EXCEPT ![p] = CookiesOf(stored)]
    BY <1>2, <1>3, <1>4, <1>5 DEF Load
  <1>. QED
    BY <1>6 DEF TypeInv, TypeOK

(* After auth_save has completed, every auth_load finds that account, until *)
(* somebody logs out or saves another login: for every layout of the texts  *)
(* if no other invocation had the file open meanwhile, and for layouts that *)
(* leave no cookie behind however many had.                                *)
THEOREM LoginHolds == Spec => LoginLasts
  <1>1. Init => OnFile
    BY DEF Init, OnFile
  <1>2. TypeInv /\ OnFile /\ [Next]_vars => OnFile'
    <2>1. OnFile /\ UNCHANGED vars => OnFile'
      BY DEF OnFile, vars
    <2>. QED
      BY <2>1, NextIsStep, StepOnFile
  <1>3. TypeInv /\ OnFile /\ [Next]_vars =>
            [\A p \in Procs :
                (Load(p) /\ stored # None) => header'[p] = CookiesOf(stored)]_vars
    BY LoadGives
  <1>. QED
    BY <1>1, <1>2, <1>3, SessionTypeInv, PTL DEF Spec, LoginLasts

-----------------------------------------------------------------------------
(* Without full disks, and with texts that do not split a pair, the file is *)
(* made of whole pairs that follow one another, so that the user and the    *)
(* signature read last belong together.  In memory a pair can be half only  *)
(* after a login answer with an empty cookie, and such a run is about to    *)
(* end.                                                                    *)
RoomOnDisk == \A s \in Settings : "full" \notin s.troubles
NoSplit == \A s \in Settings : Unsplit(s.layout)

OnePair(m) == m = Nothing \/ \E a \in Accounts : m = CookiesOf(a)

Follows(layout, a, b) == layout[a].end <= layout[b].user

WholePairs(layout, f) ==
    /\ \A l \in f : l.whole = TRUE /\ \A k \in {"user", "sig"} : LineOf(k, l.of) \in f
    /\ \A l, m \in f : l.of = m.of \/ Follows(layout, l.of, m.of) \/ Follows(layout, m.of, l.of)

Whole ==
    /\ file = None \/ WholePairs(setting.layout, file)
    /\ \A p \in Procs : pc[p] # "exit" => OnePair(mem[p])
    /\ HeaderPaired

LEMMA OverlaidWhole ==
    ASSUME setting \in Settings, file = None \/ file \subseteq Lines,
           file = None \/ WholePairs(setting.layout, file),
           NEW m \in Pairs, OnePair(m)
    PROVE  OnePair(Overlaid(m))
  <1>1. CASE file = None
    BY <1>1 DEF Overlaid
  <1>2. CASE file = {} /\ file # None
    <2>1. Overlaid(m) = [user |-> m.user, sig |-> m.sig]
      BY <1>2, ReadsNone DEF Overlaid
    <2>. QED
      BY <2>1 DEF Pairs
  <1>3. CASE file # {} /\ file # None
    <2>1. PICK l0 \in file : TRUE
      BY <1>3
    <2>2. LineOf("user", l0.of) \in file /\ LineOf("sig", l0.of) \in file
      BY <1>3, <2>1 DEF WholePairs
    <2>3. PICK u \in file :
            /\ u.key = "user"
            /\ \A k \in file : k.key = "user" => Offset(k) <= Offset(u)
            /\ \A old : Reading("user", old) = [of |-> u.of, whole |-> u.whole]
      BY <1>3, <2>2, ReadsLast DEF LineOf
    <2>4. PICK s \in file :
            /\ s.key = "sig"
            /\ \A k \in file : k.key = "sig" => Offset(k) <= Offset(s)
            /\ \A old : Reading("sig", old) = [of |-> s.of, whole |-> s.whole]
      BY <1>3, <2>2, ReadsLast DEF LineOf
    <2>5. u \in Lines /\ s \in Lines /\ u.of \in Accounts /\ s.of \in Accounts
          /\ u.whole = TRUE /\ s.whole = TRUE
      BY <1>3 DEF Lines, WholePairs
    <2>6. u.of = s.of
      <3> DEFINE L == setting.layout
      <3>1. LineOf("user", s.of) \in file /\ LineOf("sig", u.of) \in file
        BY <1>3 DEF WholePairs
      <3>2. L[s.of].user <= L[u.of].user
        BY <1>3, <2>3, <2>5, <3>1, OffsetKnown DEF LineOf
      <3>3. L[u.of].sig <= L[s.of].sig
        BY <1>3, <2>4, <2>5, <3>1, OffsetKnown DEF LineOf
      <3>4. ~Follows(setting.layout, u.of, s.of) /\ ~Follows(setting.layout, s.of, u.of)
        BY <2>5, <3>2, <3>3, LayoutKnown DEF Follows
      <3>. QED
        BY <1>3, <3>4 DEF WholePairs
    <2>7. Overlaid(m) = CookiesOf(u.of)
      BY <1>3, <2>3, <2>4, <2>5, <2>6 DEF Overlaid, CookiesOf, CookieOf
    <2>. QED
      BY <2>5, <2>7 DEF OnePair
  <1>. QED
    BY <1>1, <1>2, <1>3

LEMMA CompletePaired ==
    ASSUME NEW m, OnePair(m), Complete(m)
    PROVE  m.user.of = m.sig.of
  BY DEF OnePair, Complete, Nothing, CookiesOf

(* A text written over whole pairs leaves whole pairs behind, if any.       *)
LEMMA WritesWhole ==
    ASSUME setting \in Settings, file \subseteq Lines, Unsplit(setting.layout),
           WholePairs(setting.layout, file), NEW a \in Accounts
    PROVE  WholePairs(setting.layout, Text(a) \cup Behind(a))
  <1> DEFINE L == setting.layout
             f == Text(a) \cup Behind(a)
  <1>1. ASSUME NEW l \in Behind(a)
        PROVE  /\ l \in Lines /\ l.of \in Accounts /\ l.whole = TRUE
               /\ Follows(setting.layout, a, l.of)
               /\ \A k \in {"user", "sig"} : LineOf(k, l.of) \in Behind(a)
    <2>1. l \in file /\ l \in Lines /\ l.of \in Accounts /\ l.key \in {"user", "sig"}
          /\ l.whole = TRUE /\ Offset(l) >= L[a].end
      BY DEF Behind, Lines, WholePairs
    <2>2. L[l.of].user >= L[a].end
      <3>1. CASE l.key = "user"
        BY <2>1, <3>1, OffsetKnown
      <3>2. CASE l.key = "sig"
        <4>1. ~(L[l.of].sig < L[a].end)
          BY <2>1, <3>2, OffsetKnown, LayoutKnown
        <4>2. ~(L[l.of].user < L[a].end)
          BY <2>1, <4>1 DEF Unsplit
        <4>. QED
          BY <2>1, <4>2, LayoutKnown
      <3>. QED
        BY <2>1, <3>1, <3>2
    <2>3. \A k \in {"user", "sig"} : LineOf(k, l.of) \in file
      BY <2>1 DEF WholePairs
    <2>4. \A k \in {"user", "sig"} : Offset(LineOf(k, l.of)) >= L[a].end
      <3>1. LineOf("user", l.of) \in Lines /\ LineOf("sig", l.of) \in Lines
        BY <2>1 DEF LineOf, Lines
      <3>2. Offset(LineOf("user", l.of)) = L[l.of].user /\ Offset(LineOf("sig", l.of)) = L[l.of].sig
        BY DEF LineOf, Offset
      <3>. QED
        BY <2>1, <2>2, <3>2, LayoutKnown
    <2>. QED
      BY <2>1, <2>2, <2>3, <2>4 DEF Follows, Behind
  <1>2. \A l \in Text(a) : l.of = a /\ l.whole = TRUE
    BY TextIs
  <1>3. \A l \in f : l.whole = TRUE /\ \A k \in {"user", "sig"} : LineOf(k, l.of) \in f
    BY <1>1, <1>2, TextIs
  <1>4. ASSUME NEW l \in f, NEW m \in f
        PROVE  l.of = m.of \/ Follows(setting.layout, l.of, m.of) \/ Follows(setting.layout, m.of, l.of)
    <2>1. CASE l \in Text(a) \/ m \in Text(a)
      BY <1>1, <1>2, <2>1
    <2>2. CASE l \in Behind(a) /\ m \in Behind(a)
      BY <2>2 DEF Behind, WholePairs
    <2>. QED
      BY <2>1, <2>2
  <1>. QED
    BY <1>3, <1>4 DEF WholePairs

LEMMA StepWhole ==
    ASSUME RoomOnDisk, NoSplit, TypeInv, Whole, NEW p \in Procs, Step(p)
    PROVE  Whole'
  <1> USE DEF Whole, HeaderPaired, OnePair, At, GoTo, own, history
  <1>0. /\ linked \in [Procs -> BOOLEAN] /\ pc \in [Procs -> Places]
        /\ mem \in [Procs -> Pairs] /\ header \in [Procs -> Pairs \cup {None}]
        /\ cmd \in [Procs -> Commands] /\ (file = None \/ file \subseteq Lines)
        /\ setting \in Settings
        /\ \A q \in Procs : linked[q] => file # None
    BY DEF TypeInv, TypeOK
  <1>00. setting' = setting
    BY DEF Step, Start, Exit, Crash, Logout, LoginAccepted, LoginEmptyCookie, LoginUnanswered,
           LoginRefused, SaveOpen, SaveFails, SaveWrite, Load, CookieHeader, Fetch, Download
  <1>1. CASE Start(p)
    BY <1>0, <1>00, <1>1 DEF Start
  <1>2. CASE Exit(p) \/ Crash(p)
    BY <1>0, <1>00, <1>2 DEF Exit, Crash, Gone
  <1>3. CASE Logout(p)
    BY <1>0, <1>00, <1>3 DEF Logout
  <1>4. CASE LoginAccepted(p)
    <2>1. cmd[p].as \in Accounts
      BY <1>0, <1>00, <1>4 DEF LoginAccepted, Commands
    <2>. QED
      BY <1>0, <1>00, <1>4, <2>1 DEF LoginAccepted
  <1>5. CASE LoginUnanswered(p) \/ LoginRefused(p) \/ Fetch(p) \/ Download(p)
    BY <1>0, <1>00, <1>5 DEF LoginUnanswered, LoginRefused, Fetch, Download
  <1>6. CASE LoginEmptyCookie(p)
    <2>1. /\ \A q \in Procs : q # p => mem'[q] = mem[q] /\ pc'[q] = pc[q]
          /\ pc'[p] = "exit"
          /\ UNCHANGED <<file, header>>
      BY <1>0, <1>00, <1>6 DEF LoginEmptyCookie
    <2>. QED
      BY <1>00, <2>1
  <1>7. CASE SaveOpen(p)
    <2>1. WholePairs(setting.layout, {})
      BY DEF WholePairs
    <2>. QED
      BY <1>0, <1>00, <1>7, <2>1 DEF SaveOpen
  <1>8. CASE SaveFails(p)
    BY <1>0, <1>00, <1>8 DEF SaveFails, AfterLogin
  <1>9. CASE SaveWrite(p)
    <2>1. "full" \notin setting.troubles
      BY DEF RoomOnDisk, TypeInv, TypeOK
    <2>2. cmd[p].as \in Accounts /\ mem[p].user.of = cmd[p].as
      BY <1>9, SavesOwn DEF SaveWrite
    <2>3. /\ ~linked[p] => file' = file
          /\ linked[p] => file' = Text(cmd[p].as) \cup Behind(cmd[p].as)
      BY <1>9, <2>1, <2>2 DEF SaveWrite, Trouble
    <2>4. Unsplit(setting.layout)
      BY <1>0 DEF NoSplit
    <2>5. file' = None \/ WholePairs(setting.layout, file')
      <3>1. CASE linked[p]
        BY <1>0, <2>2, <2>3, <2>4, <3>1, WritesWhole
      <3>2. CASE ~linked[p]
        BY <2>3, <3>2
      <3>. QED
        BY <3>1, <3>2
    <2>6. \A q \in Procs : pc'[q] # "exit" => OnePair(mem'[q])
      BY <1>0, <1>9 DEF SaveWrite, AfterLogin
    <2>7. HeaderPaired'
      BY <1>9 DEF SaveWrite
    <2>. QED
      BY <1>00, <2>5, <2>6, <2>7
  <1>10. CASE Load(p)
    <2>1. OnePair(Overlaid(mem[p]))
      BY <1>0, <1>00, <1>10, OverlaidWhole DEF Load, CookieHeader
    <2>2. mem' = [mem EXCEPT ![p] = Overlaid(mem[p])] /\ file' = file
          /\ pc' = [pc EXCEPT ![p] = "fetch"]
      BY <1>10 DEF Load, CookieHeader, history
    <2>3. \A q \in Procs : pc'[q] # "exit" => OnePair(mem'[q])
      BY <1>0, <1>00, <1>10, <2>1, <2>2 DEF Load, CookieHeader
    <2>4. HeaderPaired'
      <3>1. CASE Complete(Overlaid(mem[p]))
        <4>1. /\ Overlaid(mem[p]).user # None /\ Overlaid(mem[p]).sig # None
              /\ Overlaid(mem[p]).user.of = Overlaid(mem[p]).sig.of
          BY <2>1, <3>1, CompletePaired DEF Complete
        <4>. QED
          BY <1>0, <1>00, <1>10, <3>1, <4>1 DEF Load, CookieHeader
      <3>2. CASE ~Complete(Overlaid(mem[p]))
        BY <1>10, <3>2 DEF Load, CookieHeader
      <3>. QED
        BY <3>1, <3>2
    <2>. QED
      BY <1>00, <2>2, <2>3, <2>4
  <1>. QED
    BY <1>1, <1>2, <1>3, <1>4, <1>5, <1>6, <1>7, <1>8, <1>9, <1>10 DEF Step

(* On disks with room, and for texts none of which ends between the two     *)
(* cookies of another, a Cookie header is complete and one account's,       *)
(* however the invocations that share the credentials file interleave.     *)
THEOREM HeaderHolds == RoomOnDisk /\ NoSplit => (Spec => []HeaderPaired)
  <1> SUFFICES ASSUME RoomOnDisk, NoSplit PROVE Spec => []HeaderPaired
    OBVIOUS
  <1>1. Init => Whole
    BY DEF Init, Whole, OnePair, HeaderPaired
  <1>2. TypeInv /\ Whole /\ [Next]_vars => Whole'
    <2>1. Whole /\ UNCHANGED vars => Whole'
      BY DEF Whole, OnePair, HeaderPaired, vars
    <2>. QED
      BY <2>1, NextIsStep, StepWhole
  <1>3. Whole => HeaderPaired
    BY DEF Whole
  <1>. QED
    BY <1>1, <1>2, <1>3, SessionTypeInv, PTL DEF Spec
-----------------------------------------------------------------------------
(* A process without --login holds itself authenticated only by auth_load,  *)
(* and that sets the header in the same call.                              *)
AuthOf(p) ==
    /\ pc[p] = "idle" => ~auth[p]
    /\ pc[p] \in {"login", "open", "write"} => cmd[p].login
    /\ auth[p] /\ ~cmd[p].login => header[p] # None

AuthInv == \A p \in Procs : AuthOf(p)

LEMMA StepAuth ==
    ASSUME TypeInv, AuthInv, NEW p \in Procs, Step(p)
    PROVE  AuthInv'
  <1> USE DEF TypeInv, TypeOK, AuthInv, AuthOf, At, GoTo, own, history
  <1>1. CASE Start(p)
    <2>1. PICK c \in Commands : cmd' = [cmd EXCEPT ![p] = c] /\ pc' = [pc EXCEPT ![p] = Entry(c)]
      BY <1>1 DEF Start
    <2>2. Entry(c) \in {"login", "load", "logout", "exit"} /\ (Entry(c) = "login" => c.login)
      BY DEF Entry, Commands
    <2>. QED
      BY <1>1, <2>1, <2>2 DEF Start
  <1>2. CASE Exit(p) \/ Crash(p)
    BY <1>2 DEF Exit, Crash, Gone
  <1>3. CASE Logout(p)
    BY <1>3 DEF Logout
  <1>4. CASE LoginAccepted(p) \/ LoginEmptyCookie(p) \/ LoginUnanswered(p) \/ LoginRefused(p)
    BY <1>4 DEF LoginAccepted, LoginEmptyCookie, LoginUnanswered, LoginRefused
  <1>5. CASE SaveOpen(p) \/ SaveFails(p) \/ SaveWrite(p)
    BY <1>5 DEF SaveOpen, SaveFails, SaveWrite, AfterLogin
  <1>6. CASE Load(p)
    <2> DEFINE m == Overlaid(mem[p])
    <2>1. Complete(m) => CookieHeader(m) = m /\ m # None
      <3>1. m \in Pairs
        BY OverlaidType
      <3>. QED
        BY <3>1, NoneIsNothing DEF Complete, CookieHeader
    <2>2. \/ header' = [header EXCEPT ![p] = CookieHeader(m)] /\ Complete(m)
          \/ UNCHANGED <<auth, header>>
      BY <1>6 DEF Load
    <2>3. /\ pc' = [pc EXCEPT ![p] = "fetch"] /\ cmd' = cmd
          /\ \A q \in Procs : q # p => auth'[q] = auth[q]
      BY <1>6 DEF Load
    <2> HIDE DEF m
    <2>. QED
      BY <2>1, <2>2, <2>3
  <1>7. CASE Fetch(p) \/ Download(p)
    BY <1>7 DEF Fetch, Download
  <1>. QED
    BY <1>1, <1>2, <1>3, <1>4, <1>5, <1>6, <1>7 DEF Step

(* Without --login the restricted files are never asked for bare: the flag  *)
(* that unlocks them and the header come from one call, whatever other      *)
(* invocations do to the credentials file.                                 *)
THEOREM AnonymousHolds == Spec => []AnonymousSkips
  <1>1. Init => AuthInv
    BY DEF Init, AuthInv, AuthOf
  <1>2. TypeInv /\ AuthInv /\ [Next]_vars => AuthInv'
    <2>1. AuthInv /\ UNCHANGED vars => AuthInv'
      BY DEF AuthInv, AuthOf, vars, own
    <2>. QED
      BY <2>1, NextIsStep, StepAuth
  <1>3. AuthInv => AnonymousSkips
    BY DEF AuthInv, AuthOf, AnonymousSkips, AsksRestricted
  <1>. QED
    BY <1>1, <1>2, <1>3, SessionTypeInv, PTL DEF Spec

=============================================================================
