------------------------------ MODULE Transfer ------------------------------
(***************************************************************************)
(* One file of an archive, from the local disk to the server and back,     *)
(* over any number of program runs: the per-file body of download_one      *)
(* (downloader.c) together with http_get and its write callback (http.c,   *)
(* both back ends).  The size on disk is the only thing the program        *)
(* remembers of a file between two runs, so the disk is the only variable  *)
(* that survives a crash.                                                  *)
(*                                                                         *)
(* A file is a sequence of blocks.  Block i of the served file is the      *)
(* number i; block 0 is anything that is not a part of it (the text of an  *)
(* error page).  A file that is absent and a file that is empty are both   *)
(* <<>>: no statement of the code tells -1 from 0 apart.                   *)
(***************************************************************************)
EXTENDS Integers, Sequences

CONSTANTS
    FileLen,       \* blocks of the file the server holds
    ListedSizes,   \* sizes the archive listing may give it (0: not listed)
    Backends,      \* "curl" (POSIX), "winhttp" (Windows)
    FaultSets,     \* the sets of faults an environment may show
    PageLen        \* blocks of an error page

AllFaults == {"page",        \* error replies carry a body
              "http2",       \* the status line may be the one of HTTP/2
              "lost_write"}  \* fwrite may fail (disk full)

ASSUME TransferAssumption ==
    /\ FileLen \in Nat \ {0}
    /\ ListedSizes \subseteq Nat
    /\ Backends \subseteq {"curl", "winhttp"}
    /\ FaultSets \subseteq SUBSET AllFaults
    /\ PageLen \in Nat

VARIABLES
    backend,       \* what the program was built for and where it runs: fixed
    faults,        \* by Init, for all runs
    disk,          \* the local file
    pc,            \* where download_one is; "off": no run handles the file
    fsz,           \* expected size, from the listing
    exist,         \* size found on disk
    resume_from,   \* DownloadContext.resume_from
    downloaded,    \* DownloadContext.downloaded
    code,          \* status of the server's reply, 0 before it
    seen,          \* g_curl_status: what curl_header_cb made of the status line
    body,          \* blocks of the reply not yet delivered
    sc,            \* what http_get returned
    outcome        \* how the last finished run counted the file

env == <<backend, faults>>
vars == <<env, disk, pc, fsz, exist, resume_from, downloaded, code, seen, body, sc,
          outcome>>

FileFrom(k) == [i \in 1..(FileLen - k) |-> k + i]
ServedFile == FileFrom(0)
Page == [i \in 1..PageLen |-> 0]

Open == {"request", "body", "close"}       \* the local file is open for writing

-----------------------------------------------------------------------------

Init ==
    /\ backend \in Backends /\ faults \in FaultSets
    /\ disk = <<>>
    /\ pc = "off"
    /\ fsz = 0 /\ exist = 0 /\ resume_from = 0 /\ downloaded = 0
    /\ code = 0 /\ seen = 0 /\ body = <<>> /\ sc = 0
    /\ outcome = "none"

(* A run of the program reaches the file: its size comes from the listing   *)
(* fetched by this run; the locals and the DownloadContext start at zero.   *)
Start ==
    /\ pc = "off"
    /\ fsz' \in ListedSizes
    /\ exist' = 0 /\ resume_from' = 0 /\ downloaded' = 0
    /\ code' = 0 /\ seen' = 0 /\ body' = <<>> /\ sc' = 0
    /\ outcome' = "none"
    /\ pc' = "stat"
    /\ UNCHANGED <<env, disk>>

(* Mutant: a failed file is tried again, without a limit.                   *)
SettleRetrying(how) ==
    /\ outcome' = how
    /\ pc' = IF how = "failed" THEN "stat" ELSE "off"

Settle(how) ==
    /\ outcome' = how
    /\ pc' = "off"

(* Mutants: any file on disk will do; off by one.                           *)
AnythingThere == Len(disk) > 0 /\ fsz > 0
MoreThanThere == Len(disk) > fsz /\ fsz > 0

AlreadyThere == Len(disk) >= fsz /\ fsz > 0

(* file_size_on_disk and the early return for a file already there.         *)
Stat ==
    /\ pc = "stat"
    /\ exist' = Len(disk)
    /\ IF AlreadyThere
         THEN Settle("skipped")
         ELSE pc' = "open" /\ UNCHANGED outcome
    /\ UNCHANGED <<disk, fsz, resume_from, downloaded, code, seen, body, sc>>

Resumable == exist > 0 /\ exist < fsz

(* Mutant: the file to resume is opened with "wb".                          *)
OpenAppendTruncating ==
    /\ pc = "open"
    /\ Resumable
    /\ disk' = <<>>
    /\ resume_from' = exist
    /\ pc' = "request"
    /\ UNCHANGED <<fsz, exist, downloaded, code, seen, body, sc, outcome>>

(* fopen(path, "ab"), and the Range header asks for the rest.               *)
OpenAppend ==
    /\ pc = "open"
    /\ Resumable
    /\ resume_from' = exist
    /\ pc' = "request"
    /\ UNCHANGED <<disk, fsz, exist, downloaded, code, seen, body, sc, outcome>>

(* fopen(path, "wb") truncates.                                             *)
OpenFresh ==
    /\ pc = "open"
    /\ ~Resumable
    /\ disk' = <<>>
    /\ pc' = "request"
    /\ UNCHANGED <<fsz, exist, resume_from, downloaded, code, seen, body, sc,
                   outcome>>

OpenFails ==
    /\ pc = "open"
    /\ Settle("failed")
    /\ UNCHANGED <<disk, fsz, exist, resume_from, downloaded, code, seen, body,
                   sc>>
-----------------------------------------------------------------------------

(* http_get gives up before a status line: no handle, no connection, or     *)
(* no answer within the low-speed limit.                                    *)
NoReply ==
    /\ pc = "request"
    /\ sc' = -1
    /\ pc' = "close"
    /\ UNCHANGED <<disk, fsz, exist, resume_from, downloaded, code, seen, body,
                   outcome>>

(* Mutant: the status is read one character too late.                       *)
StatusSeenLate(c) == {c % 100}

(* atoi(buffer + 9): the code itself after "HTTP/1.1 ", its last digit      *)
(* after the shorter "HTTP/2 ".                                             *)
StatusSeen(c) == IF "http2" \in faults THEN {c, c % 10} ELSE {c}

(* Mutant: a full reply to a Range does not reopen the file.                *)
ReceiveWithoutReopen(c, b) ==
    /\ pc = "request"
    /\ code' = c
    /\ seen' \in StatusSeen(c)
    /\ body' = b
    /\ pc' = "body"
    /\ UNCHANGED <<disk, fsz, exist, resume_from, downloaded, sc, outcome>>

(* The headers of a reply arrive; WinHTTP reopens the file here when the    *)
(* server ignored the Range.                                                *)
Receive(c, b) ==
    /\ pc = "request"
    /\ code' = c
    /\ seen' \in StatusSeen(c)
    /\ body' = b
    /\ pc' = "body"
    /\ IF backend = "winhttp" /\ c = 200 /\ resume_from > 0
         THEN disk' = <<>> /\ resume_from' = 0 /\ downloaded' = 0
         ELSE UNCHANGED <<disk, resume_from, downloaded>>
    /\ UNCHANGED <<fsz, exist, sc, outcome>>

ErrorBodies == IF "page" \in faults THEN {<<>>, Page} ELSE {<<>>}

(* The whole file: no Range was asked for, or the server ignored it.        *)
ReplyFull == Receive(200, FileFrom(0))

ReplyPart ==
    /\ resume_from > 0 /\ resume_from < FileLen
    /\ Receive(206, FileFrom(resume_from))

ReplyPastEnd ==
    /\ resume_from >= FileLen
    /\ \E b \in ErrorBodies : Receive(416, b)

(* 404 stands for every other status (401, 403, 5xx).                       *)
ReplyError == \E b \in ErrorBodies : Receive(404, b)

(* Mutant: the write callback never reopens the file.                       *)
RestartNever == FALSE

RestartDue == backend = "curl" /\ resume_from > 0 /\ seen = 200

(* Mutant: the restart keeps the old offset.                                *)
DeliverKeepingOffset ==
    /\ pc = "body" /\ body # <<>>
    /\ disk' = Append(IF RestartDue /\ downloaded = 0 THEN <<>> ELSE disk, Head(body))
    /\ downloaded' = downloaded + 1
    /\ body' = Tail(body)
    /\ UNCHANGED <<pc, fsz, exist, resume_from, code, seen, sc, outcome>>

(* One block reaches the write callback.  curl_file_cb reopens the file on  *)
(* the first block of a 200 reply to a Range; progress_display writes it    *)
(* and counts it without looking at what fwrite returned.                   *)
Deliver ==
    /\ pc = "body" /\ body # <<>>
    /\ \E lost \in (IF "lost_write" \in faults THEN BOOLEAN ELSE {FALSE}) :
          LET kept == IF RestartDue THEN <<>> ELSE disk
          IN  disk' = IF lost THEN kept ELSE Append(kept, Head(body))
    /\ downloaded' = (IF RestartDue THEN 0 ELSE downloaded) + 1
    /\ resume_from' = IF RestartDue THEN 0 ELSE resume_from
    /\ body' = Tail(body)
    /\ UNCHANGED <<pc, fsz, exist, code, seen, sc, outcome>>

(* The body is complete: http_get returns the status.                       *)
EndBody ==
    /\ pc = "body" /\ body = <<>>
    /\ sc' = code
    /\ pc' = "close"
    /\ UNCHANGED <<disk, fsz, exist, resume_from, downloaded, code, seen, body,
                   outcome>>

(* The connection breaks or stalls inside the body.  curl reports it; the   *)
(* WinHTTP loop leaves its loop and returns the status it had.              *)
CutStatus == IF backend = "curl" THEN -1 ELSE code

Cut ==
    /\ pc = "body" /\ body # <<>>
    /\ sc' = CutStatus
    /\ pc' = "close"
    /\ UNCHANGED <<disk, fsz, exist, resume_from, downloaded, code, seen, body,
                   outcome>>

(* Mutant: the size on disk is not looked at after the transfer.            *)
ClassifyByStatus ==
    IF sc \in {200, 206} THEN "downloaded"
    ELSE IF sc = 416 THEN "skipped" ELSE "failed"

Classify ==
    IF sc \in {200, 206}
      THEN IF Len(disk) >= fsz \/ fsz <= 0 THEN "downloaded" ELSE "failed"
      ELSE IF sc = 416 THEN "skipped" ELSE "failed"

(* fclose, and the file is counted.                                         *)
Close ==
    /\ pc = "close"
    /\ Settle(Classify)
    /\ UNCHANGED <<disk, fsz, exist, resume_from, downloaded, code, seen, body,
                   sc>>

(* The process dies.  What stdio had not flushed is lost: the file keeps    *)
(* what it had when it was opened and any part of what came since.          *)
Crash ==
    /\ pc # "off"
    /\ IF pc \in Open
         THEN \E n \in resume_from..Len(disk) : disk' = SubSeq(disk, 1, n)
         ELSE UNCHANGED disk
    /\ Settle("none")
    /\ UNCHANGED <<env, fsz, exist, resume_from, downloaded, code, seen, body, sc>>

-----------------------------------------------------------------------------

Reply == ReplyFull \/ ReplyPart \/ ReplyPastEnd \/ ReplyError

Work ==
    /\ \/ Stat \/ OpenAppend \/ OpenFresh \/ OpenFails
       \/ NoReply \/ Reply \/ Deliver \/ EndBody \/ Cut \/ Close
    /\ UNCHANGED env

Next == Start \/ Work \/ Crash

Spec == Init /\ [][Next]_vars

(* A run goes on by itself; curl's low-speed limit and WinHTTP's default    *)
(* timeouts end a request nobody answers.  That a run is ever started again *)
(* is the user's doing and assumed only by Rerun.                           *)
FairSpec == Spec /\ WF_vars(Work)
RerunSpec == FairSpec /\ WF_vars(Start)

-----------------------------------------------------------------------------

Blocks == 0..FileLen

(* Type invariant of download_one's locals, the DownloadContext and disk.   *)
TypeOK ==
    /\ backend \in {"curl", "winhttp"} /\ faults \subseteq AllFaults
    /\ disk \in Seq(Blocks)
    /\ pc \in {"off", "stat", "open"} \union Open
    /\ fsz \in Nat /\ exist \in Nat /\ resume_from \in Nat /\ downloaded \in Nat
    /\ code \in {0, 200, 206, 404, 416}
    /\ seen \in {0, 200, 206, 404, 416, 4, 6}
    /\ body \in Seq(Blocks)
    /\ sc \in {-1, 0, 200, 206, 404, 416}
    /\ outcome \in {"none", "downloaded", "skipped", "failed"}

(* In all its states, in the middle of a transfer and after a crash as      *)
(* well, the local file is a beginning of the served one: the resume offset *)
(* of download_one, the Range the server honours or ignores and the restart *)
(* of the write callback agree.  Error pages, misread status lines and lost *)
(* writes break it.                                                         *)
LocalIsPrefix ==
    faults = {} => /\ Len(disk) <= FileLen
                   /\ \A i \in DOMAIN disk : disk[i] = i

Served == disk = ServedFile

(* A file counted as downloaded or as already there (downloader.c:257, 334, *)
(* 348) is the served file, whole.  WinHTTP's broken bodies pass for        *)
(* complete when the size is not listed.                                    *)
SettledIsComplete ==
    faults = {} /\ (backend = "curl" \/ fsz > 0) =>
        (outcome \in {"downloaded", "skipped"} => Served)

(* "Already-downloaded files are detected and skipped" (README.md): a file  *)
(* that is skipped is the served file.                                      *)
SkippedIsComplete == outcome = "skipped" => Served

(* The progress a transfer shows, resume_from + downloaded, is the size of  *)
(* the file being written, whatever was restarted in between, as long as    *)
(* the writes succeed.                                                      *)
ProgressTruth ==
    "lost_write" \notin faults /\ pc \in Open =>
        resume_from + downloaded = Len(disk)

(* A reply with status 200 leaves exactly the served file, whether it was   *)
(* asked for or answers a Range (http.h: "reopens the file at offset 0"),   *)
(* and whatever junk earlier runs left in the file.                         *)
FullReplyReplaces == pc = "close" /\ code = 200 /\ body = <<>> => Served

FullReplyReplacesOnHttp1 == faults \subseteq {"page"} => FullReplyReplaces

(* A run of a file with a listed size never loses a block that an earlier   *)
(* run left, broken connections and crashes included, unless the server     *)
(* sends the whole file again: append mode, resume_from and the restart     *)
(* together keep the ground that was won.                                   *)
KeepsGround ==
    [][(pc \in {"open"} \union Open /\ fsz > 0 /\ code' # 200)
         => Len(disk') >= exist]_vars

(* Once a file is complete and no transfer of it is open, no run that knows *)
(* its size, no reply and no crash touches it.                              *)
CompleteIsKept ==
    [][(pc \notin Open /\ fsz > 0 /\ Served) => disk' = disk]_vars

(* Every run gets done with the file.                                       *)
RunEnds == pc # "off" ~> pc = "off"

Disturbed == OpenFails \/ NoReply \/ ReplyError \/ Cut \/ Crash

(* If runs are repeated and from some time on nothing goes wrong any more,  *)
(* the file gets complete, from whatever the earlier runs left on disk.     *)
Recovers == faults = {} => ([]<><<Disturbed>>_vars \/ <>Served)

=============================================================================
