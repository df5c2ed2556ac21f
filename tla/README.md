# Verification of the archive.org downloader

TLA+ models of `archive_downloader` (the C program in this repository), TLC
configurations that check them on small instances, and TLAPS proofs of what
holds for every instance. The models are written from the source; where the
code and one of its documents disagree, the model follows the code and a run
shows the disagreement.

## 1. The system

The program takes the URL of an archive.org item, fetches the item's file list
and downloads its files with a pool of threads into a folder. It may be stopped
and started again at any time: what is on disk is resumed or skipped.

| component | source | state it keeps | operations | correct when |
|---|---|---|---|---|
| command line | `main.c` | options, the parallel arrays of the listing | parse, log in or out, fetch, download, report | restricted files are not asked for anonymously; `--login`, `--logout` and a URL do what they say |
| accounts | `auth.c` | the two cookies, `g_authenticated`, the credentials file (`~/.ia`) | login, save, load, logout, close | a Cookie header is whole and of one account; a stored login lasts; a logout ends it |
| file transfer | `downloader.c` (`download_one`, `progress_display`), `http.c` (`http_get`) | the local file, `DownloadContext`, the thread's `g_curl_status` | stat, skip, open, request, restart, write, classify | the local file is a beginning of the served one; what is called complete is; no run loses ground |
| download pool | `downloader.c` (`download_all`, `next_index`, `count_one`), `thrd.c` | `DownloadShared`: `next`, totals, `bytes_done`, one mutex | spawn, claim, count, join | each entry is handled once and counted once; 0 means nothing failed; nothing runs on after the return |
| dashboard | `dashboard.c` | slots, totals, a ring of log lines, the throttle, one mutex | the `dash_` calls of the workers, shutdown | the panel lists the running downloads; the panels share the height; the last frame is final; the mutex outlives its users |
| metadata | `archive.c` | the listing | fetch, free | every item of the answer is in the listing, at its index; a cut answer is no listing |
| text | `util.c`, `url_encode` of `auth.c` | none | glob, identifier, encodings, `mkdirs` | each is the function its comment or the README describes |
| log, colours | `log.c`, `color.c` | level, colour flag, a static buffer | print | – |
| JSON | `parson.c` (vendored) | the objects' hash tables, the heap | parse, copy, free; add, set, get, remove, clear | the value is the one the text begins with; an object is a map; nothing leaks |

How they interact. `main` runs the others in sequence. The pool's workers call
`http_get`, which calls back `progress_display` for every block; that takes the
pool's mutex, and inside it the dashboard's (`dash_set_agg`), so the order of
the two locks is fixed. `auth.c` reaches the requests only through
`http_set_cookie_header`, set before the first thread starts. Two invocations
of the program share the disk: the downloaded files and the credentials file.

What is hard about it:

* *stops at any point*. Nothing but the size of a local file says what an
  earlier run has done;
* *servers that ignore a Range*, answer with an error page, or break off;
* *threads*: claims, counts, copies of the totals handed to the dashboard, the
  end of the pool when threads could not be created, the end of the dashboard;
* *overlapping invocations* around one credentials file, full disks, files that
  cannot be opened or removed;
* *two HTTP back ends* that notice a restart and a broken body at different
  places;
* *answers of any form*: a JSON text may be cut short, nested, odd, or refused for
  want of memory half way, and what is made of it decides which files are asked for;
* *open addressing*: a hash table whose growth and whose removals move names
  while others must stay reachable.

`PROJECT.json` lists every hazard at its line, with the properties that cover
it or the reason why none does.

## 2. The modules

| module | models | state and actions |
|---|---|---|
| `Transfer` | one file over any number of program runs | `disk` survives; the rest are the locals of `download_one`, the `DownloadContext` and the reply. One action per step: `Start`, `Stat`, `OpenAppend`, `OpenFresh`, `OpenFails`, `NoReply`, four replies, `Deliver`, `EndBody`, `Cut`, `Close`, `Crash` |
| `Batch` | what `downloader.h` promises of `download_all` | one verdict per entry, totals, the return code; no threads |
| `Downloader` | `download_all` and its workers | `DownloadShared`, each worker's locals, the caller's loops. Each critical section is three steps (lock and read, write, publish and unlock), so the mutex has to do its work |
| `Session` | `main.c` and `auth.c` for several terminals of one user | the credentials file, per terminal the cookies, `g_authenticated` and the header. `auth_save` is two steps: `fopen` empties the file, `fclose` writes the text from offset 0 on, over what another save may have put there, and truncates nothing |
| `Dashboard` | `dashboard.c`, the workers that call it, the shutdown | the static variables of the module, the frame on the screen, and where each worker is, the files it passes over included. A call is two steps: the unlocked look at `g_active` and the body under the lock. `Join` is the loop of `download_all`, by position, and `Shutdown` comes when it is done, not when all workers are |
| `CText` | what a C string is: bytes up to a NUL, a pointer being the rest it points at | operators |
| `Glob` | `wildcard_match` | a recursive function of the pattern; the loops of a class and of the alternatives as functions of the place |
| `Names` | `extract_identifier`, `url_encode_path`, `url_encode`, `make_dir`, `mkdirs`, the path surgery of `download_one` | operators, and each loop as a recursive function of the bytes read so far |
| `GlobInputs`, `NameInputs` | nothing of the code: what it is called with | a behaviour builds a glob piece by piece (together with the language it stands for) and a name for it; a path byte by byte; a URL word by word |
| `ObjectMap` | what the object functions of `parson.h` promise: a map | the contents, and the last call with its result |
| `ObjectTable` | the hash table behind it | the arrays of `JSON_Object`; each turn of the copying loop of a growth (`Rehash`) and of the gap-closing loop of a removal (`Shift`) is a step |
| `Parson` | the parser and the deep copy | operators on tokens, with a heap: every `malloc` is numbered and one of them may fail, every `free` must free what is there |
| `JsonString` | escapes, surrogates and UTF-8, read and written | each loop as a recursive function of what its pointer points at |
| `StringInputs` | nothing of the code: texts for `get_quoted_string`, with what they stand for by RFC 8259 | a behaviour puts a string together of characters, escapes, codes and misspelt pieces |
| `Listing` | `archive_fetch`, the arrays of `main.c`, the answer of `auth_login` | operators on what `Parson` returns |
| `MC...` | constants of the runs; `MCText` joins the inputs of `Glob` and `Names`, `MCJson` also builds those of the JSON modules | |
| `...Proofs` | theorems and proofs; `Recursion` has the lemmas on induction, recursive functions and texts that they share | |

Composition. `Downloader` implements `Batch` (`ImplementsBatch`, by an
`INSTANCE` with the totals mapped). `Downloader` takes a transfer as some
blocks and one of its results; that a transfer ends with one is `Transfer`'s
`RunEnds`. `Dashboard` takes the pool as workers that take files one after
another, some of which may never have come to life, and has the join loop of
`Downloader` in one action, with the same gap: when a thread is created after one
that could not be, the loop misses a live worker. `Session`
leaves the download itself as one step. `ObjectTable` implements `ObjectMap`
(`ImplementsMap`), so `Parson` takes an object as a list of named items, and
`Listing` reads what `Parson` builds; the entries `Listing` yields are the
constants of `Downloader` and `Transfer`, the refusals of a login those of
`Session`.

What stands for what. A file is a sequence of blocks, block *i* of the served
file being the number *i* and 0 anything foreign, so "prefix of the served file"
is a statement about contents and not only lengths. A cookie knows whose it is and
whether it is whole; the credentials file is the set of the whole cookie lines in
it, and at which offset the lines of an account stand is the layout of a setting, so
that it can be told which lines of a longer text a shorter one leaves behind. Log
lines are numbered; in a frame one takes two lines of the terminal. Accounts, entries and slots are model values or numbers;
names matter only in `Names`, where they are bytes. A JSON text is a sequence of
tokens, the defective ones among them (a number with a zero too many, a string
with a bad escape, a word cut short) included; the inside of a string is bytes,
in `JsonString` alone. The hash of a name is a constant function: the model
says nothing of how `hash_string` computes it, and needs nothing.

## 3. The runs

| run | question | result |
|---|---|---|
| `TransferFile` | One file, any number of runs, both back ends, sizes right, missing or stale, breaks, crashes, and environments with error pages, HTTP/2 and lost writes | passes: the file is a prefix of the served one (without faults), what settles is complete, the progress shown is the size written, a 200 replaces the file, no run loses ground, a complete file is left alone, runs end, and if nothing more goes wrong the file gets complete |
| `TransferErrorPage` | Is a skipped file the served one? | violated, see 6 |
| `TransferHttp2` | Does a 200 reply to a Range replace the file? | violated, see 6 |
| `DownloaderPool` | Two workers (the last may not come to life), three entries, all listings, dashboard on | passes: none lost, fresh and monotone footer, nobody running at the return, 0 means all there, it returns, and it implements `Batch` |
| `DownloaderThree` | Three workers at the mutex, any of which may not come to life | passes: exclusive claims, exact totals |
| `DownloaderTransient` | Is everybody done at the return if the *first* creation fails? | violated, see 6 |
| `SessionRuns` | Two terminals with kills and failing opens and removes, and texts of nearly one length or of very different ones; one terminal with a full disk | passes: one account per header, logout, persistence, no anonymous request for restricted files |
| `SessionUnsaved` | Does an accepted login unlock the restricted files? | violated, see 6 |
| `DashboardPanel` | Three workers (the last may not come to life), two slots, two files, a second that passes | passes: ring order, truth of the panel, what the row budget comes to, final frame, no use after destroy |
| `DashboardLatest` | Is the latest operation in the log panel? | violated, see 6 |
| `ObjectTable` | Four names, two with one hash at the end of every table, any calls in any order, two growths, mallocs that may fail | passes: items and cells in step, every name found, also in the midst of a growth or a removal; callers see a map |
| `TextAlgorithms` | The functions on text and on JSON against their reference definitions, on every input up to a bound | passes: globs, encodings, directories and identifiers; the parser reads the value a text begins with and no other text, and leaks nothing whichever `malloc` fails; strings are read and written exactly; the downloader gets one right entry for each item, and of an answer cut short nothing |

Every property of a passing run is broken by a mutant of the code it is about
(`PROJECT.json`, "mutants"; the mutated forms stand before the definitions they
replace and are marked as such).

### Bounds, and why they are enough

* `Transfer`: a file of 3 blocks has a first, an inner and a last block, so a
  transfer can stop before, between and at the end; listed sizes 0 (missing), 3
  (right) and 4 (one too large, which asks beyond the end: 416). An error page
  of 2 blocks makes a fresh file shorter, and a resumed one as long or longer
  than the served. A listed size smaller than the file is not in the run: the
  code then calls a longer file complete by `>=`, which no promise of it excludes
  and `SettledIsComplete` would report. The number of runs and of crashes is not
  bounded.
* `Downloader`: three entries and two workers give every worker a second claim
  and make them meet at the end of the listing; the listings cover all early
  exits of the loop. `MaxChunks` bounds the calls of `progress_display` that
  count bytes; two suffice for two workers to race on them. `DownloaderThree` has three workers because a
  mutex that fails only among three would pass with two; it leaves chunks out.
* `Session`: two accounts and two invocations are what a mixture takes. Nothing
  else is bounded: terminals run the program for ever. There are three settings.
  In the first the texts of the two accounts differ in length by less than a cookie
  line, so that of two saves that overlap the later one leaves no cookie of the other
  behind; in the second the shorter text ends before both cookies of the longer, which
  then outlive it; the third is one terminal whose disk may be full. Two things are
  left out because the program does mix two accounts there: a full disk for two
  terminals (the hazard at `auth.c:222`), and a text that ends *between* the two
  cookies of a longer one for two terminals (the hazard at `auth.c:187`). Texts of at
  most 4096 bytes (`BufSize`) reach the file in one write at `fclose`.
* `Dashboard`: three workers against two slots (one is never shown), a ring of
  four lines that wraps, one row for downloads at the height of 19 so that the
  panel overflows. Only the last worker may not come to life; if an earlier one may,
  `NoUseAfterDestroy` and `FinalFrame` are false, for the reason that
  `DownloaderTransient` shows. The row constants are parameters; the code's own values (2, 20, 128,
  512) satisfy the assumption the proofs make of them. `MaxChunks` and
  `MaxTime` bound deliveries and seconds.
* `TextAlgorithms`: globs of up to 3 pieces out of 12 (literals, `?`, `*`, classes,
  ranges, negations, braces with an empty first or a nested-wildcard alternative; no
  class that is not closed and no empty last alternative) and
  texts of 3 characters over 3 letters; paths of 5 bytes over 8 (the shortest
  path with two directories is `a/b/c`); URLs of 5 words after the marker. None
  of these bounds is one of the theorems of section 4, which hold for every value
  of `MaxPieces`, `MaxText`, `MaxPath`, `MaxWords`, `MaxUnits`,
  `Bytes` and `Words`. JSON
  documents of up to three members and four levels (one more than `MAX_NESTING`
  = 3 allows; the code has 2048), every single edit of each, and two edits of
  those of up to four tokens; for the unedited ones every `malloc` of the parser
  and of the copy fails once. `STARTING_CAPACITY` = 2 (the code has 16) so that
  three members make a table or an array grow. Strings of three pieces, a lead and
  a trail of a pair and one more; listings of one and of two items with every
  combination of fields, cut after every token and within one.
* `ObjectTable`: four names fill a table of eight cells to its item capacity of
  five less one, after growths from none to two, four and eight cells; two names
  share a hash whose cell is the last of every table, so that their cluster goes
  round the end. A growth beyond that repeats the same step, and `TableSafe`
  holds for every number of names and every hash function.

`CHECK_DEADLOCK FALSE` is set for `Dashboard`, where all is over after the
shutdown (or, with the dashboard off, when the workers have stopped), and for
`TextAlgorithms`, which stops at its bounds. `Transfer` and `Session` can always start
another run; `Downloader` has an explicit step of a finished call (`Finished`).

### Fairness

* `Transfer`: weak fairness of the program's own steps (`Work`). The code does not
  wait for anything without a limit: libcurl is given
  `CURLOPT_LOW_SPEED_TIME` (`http.c:418`), WinHTTP has default timeouts, so a
  request gets a reply or fails. `Recovers` also assumes that the user starts
  the program again (`WF_vars(Start)`), and says only what follows if from some
  point on no request fails and no run is killed.
* `Downloader`: weak fairness of the caller and of each worker: the operating
  system runs every thread, and a transfer ends (`RunEnds`). Weak fairness is
  enough for the mutex because each worker locks it a bounded number of times
  and the others thus cannot keep it from one for ever.
* `Session` and `Dashboard` have safety properties only.

## 4. What is proved

All theorems hold for every value of the constants that satisfies the `ASSUME`
of the module.

**Transfer** (`TransferProofs`). `TransferTypes`: the type invariant is
inductive as it stands. `TransferPrefix`: `LocalIsPrefix` is not inductive: that
the file is a prefix says nothing of the block that is appended next. `IInv` adds
what the code keeps silently: the offset asked for is the size of the file that
was opened, and the rest of a reply starts where the file ends, unless a restart
is due. `Receive` establishes it for each reply, `Deliver` keeps it.

* `TransferProgress` adds where a run stands before its file is open: nothing is
  received and the size read is the file's (`ProgressInv`).
* `TransferKeepsGround`, `TransferKeepsComplete`: a file with a listed size is opened
  only if it was shorter, and until a 200 arrives its old blocks lie below the
  offset that was asked for, where no write and no crash reaches (`GroundInv`). Both
  hold under all faults.
* `TransferSettled`: a reply that ended where it should was written to its end
  (`WholeInv`), and with `TransferPrefix` a prefix that is long enough is the file
  (`WholeIsServed`). It assumes that no listed size is below the real one
  (`NoSizeTooSmall`): the code skips a file as soon as it has the listed length.
* `TransferFullReply`: what is left of a full reply is all of it while the
  restart is due, then what follows the file as it stands (`FullInv`).

**Downloader** (`DownloaderProofs`). `DownloaderTypes` needs one fact more than
the types: the spawn loop has counted no slot it has not reached.
`EachFileOneWorker` needs mutual exclusion, that the value a worker read inside
the critical section is still the current one, that entries in hand have
indices below `next`, and that they are pending (`PoolInv`); everything below
rests on it, and up to `NoEntryLost` nothing is assumed of which `thrd_create` fail.

* `FooterIsFresh`, `FooterMonotone`: the dashboard knows the totals unless a
  worker is about to hand them over, and never more than they are (`Told`).
* `TotalsExact`: a store adds one to a total and one entry to the set with that
  verdict (`VerdictAdds`, by the cardinality of finite sets).
* `NoEntryLost`: the claim puts the entry in its worker's hands (`ClaimTaken`),
  and a worker gives up an entry only together with a verdict (`HandsKept`).

The last three assume `OnlyLastFails`: no `thrd_create` fails but perhaps that of
the last slot. The run `DownloaderTransient` shows why: after an earlier
failure the join loop counts wrong slots.

* `NothingLeftRunning`: the filled handles and the threads are those of the first
  `spawned` slots (`Ranked`).
* `ZeroIsSuccess` (also assumes the first thread): a worker ends only past
  the last entry, so by `NoEntryLost` all entries have verdicts, by `TotalsExact`
  none is a failure, and a wanted entry gets none of the flags' verdicts
  (`ReturnInv`).
* `PoolRefinesBatch` (same assumptions): what a worker is about to count is what
  `Batch` allows for its entry (`Judged`), so the store of a count is
  `Settle`, and every other step of a worker but `PickNameless` a stutter.

**Session** (`SessionProofs`). `SessionTypes` carries along that whoever stands
between the two halves of `auth_save` has a whole pair in memory.
`LogoutHolds`: between a logout and the next save the file stays absent, also
when a writer was unlinked under its handle (`Emptied`). `LoginHolds`: what counts as
stored is on file, alone, and whoever has the file open without ever having shared it
has it empty and to himself (`OnFile`); so a load leaves nothing of what was in memory.
A save that overlapped another counts as stored only where no text can leave a cookie
of another behind (`Alike`). `HeaderHolds` assumes a disk with room (`RoomOnDisk`) and
that no account's text ends between the two cookies of another's (`NoSplit`): then the file
is made of whole pairs that follow one another (`Whole`), of which the last user and the
last signature belong together, and each process's memory is one account's when it loads.
Without either assumption the program does mix accounts (the hazards at `auth.c:222` and
`auth.c:187`). `AnonymousHolds`:
the flag that lets restricted files through is, without `--login`, set only by
the `auth_load` that sets the header too (`AuthInv`).

**Dashboard** (`DashboardProofs`). `RowBudgetHolds`: the frame was laid out within
the budget (`Budgeted`), which `layout()` guarantees for any number of slots, and has
one line more for every text in its log panel; that is at most the height with three
texts and more with the fourth. `DestroyHolds`: whoever stands before the index of the
join loop, or never lived, has stopped (`JoinInv`); where no thread is created after
one that could not be (`OnlyLastFails`) the live workers are those of the first
positions, so that the loop has waited for all of them when it ends (`AllJoined`), and
a worker inside a call has not stopped. `RingHolds`: until the ring is full its next
place is the number of lines logged (`RingType`), and each retained line is at
its place behind the next one, without and with the wrap (`RingInv`), for
every size of the ring. `DashboardTypes` needs that only workers with a row are
inside a slot's call (`SlotsHad`). `PanelHolds`: while the dashboard is on, the slots
in use are those of the workers between `dash_begin_worker` and `dash_end_worker`,
each with its file (`SlotsTrue`), and the frame lists the first of them
(`FrameTrue`), since every call that gives out or takes back a slot repaints; that the first `dl`
of them are `dl` is a count of finite sets (`FirstRows`). `FinalFrameHolds`, on the same assumption as `DestroyHolds`: at the
shutdown all workers have stopped, so no slot is in use and the totals handed
over are the totals (`PanelInv`).

**Objects** (`ParsonProofs`, first part), for any set of names and any
hash function. `TableSafe`: between calls a table is `Whole`, that is items and
cells point at each other, no name is there twice, and no probe for a name that
is there stops before it (`Reachable`); a probe then finds a name exactly if it
is there (`PresentFound`, `FoundPresent`), and ends, as a table always has an
empty cell (`EmptyCell`, by the pigeonhole principle). In the midst of a removal
`Reachable` is false. `HoleInv` says what is true: only a name further from the
hole than the probe has come is still cut off. A turn of the loop moves the
next name when its probe passes the hole, which is what the condition with the
three comparisons means on a ring (`MustMoveMeaning`), and then the hole is at
the probe; otherwise that name was not cut off (`ShiftHole`). When the loop ends
at an empty cell no name can be beyond it, so nothing is cut off (`FillHole`). In
the midst of a growth the copy has the items so far and room for the rest
(`RehashFits`, `GrowthFits`). `TableImplementsMap`: the map of a table is
determined by its names and values (`ContentsAre`), which the loops do not
touch, and each call does to them what `ObjectMap` says.

**Recursive functions** (`Recursion`). The functions of `Glob`, `Names` and `JsonString` loop
or call themselves, and what they compute is proved by induction on the length of their
input. The induction theorems of the library take a predicate as a parameter,
which the provers cannot instantiate, so `SetInduction` and `RankInduction` say
the same of sets: a set that holds an element whenever it holds all that come before
it holds them all, by the well-foundedness of the naturals, which is a fact
about sets already. That a recursive definition has the values its text says is a
theorem too and not a matter of course: `FixedPoint` proves it for a functional
whose value at a point depends only on points of smaller rank.

**Names** (`NamesProofs`), for all bytes and words and every length.

* `IdentifierAlwaysFound`: the marker of the page is at the fifth word and none is
  before it (`MarkerFifth`), so what is cut out begins behind it and goes on to the
  first word that ends an identifier (`IdentifierAfter`). A details page with
  `/download/` later in its URL is left out: there the code takes what follows the
  latter (`util.c:76`).
* `EncodingAlwaysExact`: the text written so far is the concatenation of the pieces
  so far (`TextExists`, `EncodedIs`, `FormEncodedIs`). Read from the back, each
  place where a piece begins is read as that piece's byte and the rest as the bytes
  behind it (`PieceRead`, `TextReads`); a percent sign is never taken for an
  escape that the encoder did not write, since it is itself escaped. As the
  text only grows, the loop that stops for want of room stops exactly if
  the whole does not fit (`UrlEncoded`).
* `ParentAlwaysMade`: after each byte that `mkdirs` has read, the directories of
  all fronts of the path that end before a separator are there (`MadeSoFarIs`,
  `MkdirsMakes`), and the file system closes a component exactly there
  (`StepWalks`, `ParentOf`): `make_dir` never meets a missing parent, which is
  why it does no harm that no result is looked at.

**Globs** (`GlobProofs`), for globs of any number of pieces and names up to any length.
`MatchIs`: `wmatch` is well defined, each call being for a shorter pattern; that
includes a brace, whose alternative and rest are shorter than the whole. One lemma
for each kind of piece says what the match of a pattern that begins with it comes to
(`MatchLiteral`, `MatchAny`, `MatchStar`, `MatchClass`, `MatchBrace`), whatever
follows. The inductive invariant is `Reads(pattern, language)`: *for every
continuation* `q`, the pattern followed by `q` matches a text exactly if some
text of the language is its beginning and `q` matches the rest. Without the
continuation it would not be inductive: that a glob matches its language says nothing
of what a star in it leaves to the next piece. Concatenation keeps it
(`ReadsBoth`), alternatives unite (`ReadsEither`), every piece has it
(`PieceReads`), and with an empty continuation it is `GlobIsItsLanguage`
(`GlobAlwaysItsLanguage`). The characters of names are the three letters of the
model; the pieces are those of `Pieces`.

**Strings** (`ParsonProofs`, second part), for strings of any number of pieces,
any characters of UTF-8, any codes, and misspelt pieces of any of the forms of
`Illegal` (an assumption on the constant `Malformed` that TLC checks). As for globs,
that a text is read rightly is not inductive by itself, and what is needed
speaks of every continuation: `Skips(b)`, the search for the closing quote passes `b`
as a whole, and then does what it does with what follows; `Reads(b, out)`, so does
`process_string`, and puts `out` in front; `Fails(b)`, it fails whatever follows.
Concatenation keeps each of them. The first half of a pair has neither of the last
two: it is read or refused by what comes next. The inductive invariant is therefore
`Together(units, bytes)`: the bytes are skipped, and the pieces are legible and
read as their characters, or they are so but for a first half at the end that waits
for its second, or the reader has failed for good. Each piece added leads from one of the
three to one of the three (`TogetherMore`), and at the closing quote, which is
no second half, `StringsExact` follows from each (`StringsAlwaysExact`).
What the bytes of a character are read as is arithmetic of quotients and remainders
(`Utf8Stands`, `PlainBytes`); that the offset 10000 (hexadecimal) of a pair is
right is in `PairReads`. `WrittenIsRead` needs no pieces: whatever bytes
`json_serialize_string` is given, also those that are no UTF-8, each is written as
something that is skipped and read as that byte (`WrittenReads`), so the whole is
read as the whole.

Model-checked only:

* liveness (`RunEnds`, `Recovers`, `Termination`, the fairness of `Batch`), which
  is beyond the prover;
* `ParserReadsJson`, `NothingLeaks` and `AnswersWhole`: the parser, the copy and the
  reader of listings are recursive operators on trees that thread a heap through every
  call, and a module with a recursive operator is closed to the SMT prover. To be
  proved they would have to be functions of the place, the heap and the tree at
  once, over the sets of trees up to each depth; that has not been done. Their
  inputs are edits of whole documents rather than pieces put together, so the
  argument by continuations that carries globs and strings does not apply either.

Every other property that holds is proved.

## 5. Not modelled

* Of `parson.c`: the serializer beyond strings, files, comments, `validate`,
  `equals`, `dotset` and `dotremove` and the setters of arrays, which the program
  does not call; the digits of numbers; `hash_string` itself.
* What WinHTTP's answer ends with: `buf_append` adds no NUL, so `json_parse_string`
  reads past an answer that is cut short (`archive.c:27`). The model has the NUL.
* `log.c`, `color.c`: output only. That `LOG_` lines reach the screen without the
  dashboard's mutex, and that `color_start` returns one static buffer to all threads
  (`color.c:88`), is seen but not checked.
* The width of the dashboard's rows: rules and launch rows are a few columns wider
  than the terminal. Lines are counted as if every row were short enough for one (or,
  a log row, for the two that its newline makes of it).
* Two mutexes at once: `Downloader` has the pool's and `Dashboard` its own, and that
  the first is held where the second is taken is in neither.
* How long a request takes: `RunEnds` assumes that each one ends, and no overall
  timeout is set (`http.c:417`).
* `buf_append`, `fmt_size`, `read_password`, `user_home_dir`, `auth_whoami` (which
  nothing calls).
* Fixed buffer sizes (paths and alternatives of 4096 bytes, identifiers of 511,
  cookies of 1023 when they are read back, `auth.c:216`, though written with up to
  4095) and the width of `long`, which on Windows is less than a size of 2 GiB.
* What TLS, redirects and the file system do beyond what the code observes of them.
* A file that changes on the server between two runs: no `If-Range` is sent, so
  the resumed file mixes two versions, and no document says otherwise.
* Two entries with the same local path.

## 6. Where code and documents disagree

Each is the violated property of a run; `PROJECT.json` quotes the lines.

* `TransferErrorPage`: the body of a 404 or 503 is written into the local file
  (`http.c:332`, `http.c:258`), and if that makes it long enough the next run
  skips it as downloaded.
* `TransferHttp2`: after the shorter status line of HTTP/2, `atoi(buffer + 9)`
  (`http.c:315`) reads one digit, the 200 is not seen, and the whole file is
  appended to its beginning.
* `DownloaderTransient`: created threads are counted but joined by position
  (`downloader.c:196`); after a failure in an earlier slot a live one is missed.
* `SessionUnsaved`: the Cookie header is set from the file alone (`main.c:298`);
  after a failed save the downloads use another account or none, while the
  program says the login is stored.
* `DashboardLatest`: the log panel shows the oldest retained lines, not the latest
  (`dashboard.c:318`).

`RowBudget` holds, and says in numbers what is wrong with the promise of
`dashboard.c:346` that the whole dashboard fits: the text of every log row ends in a
newline of its own (`dashboard.c:433`, `203`), of which `layout` knows nothing, so that
the frame fills the terminal with three texts in the log panel and is taller with four.

Found while modelling, without a run of their own (see "hazards"): on POSIX a
backslash in a name is replaced by a slash between the look at the file's size
and `fopen` (`downloader.c:278`), so such a file is fetched anew each time; an
identifier after `/details/` is missed if `/download/` comes later in the URL
(`util.c:76`); `--logout` is ignored next to a URL (`main.c:244`); with no
thread at all `download_all` returns 0 (`downloader.c:201`); a full disk
can leave half of a pair of cookies that the next load completes with another
account's (`auth.c:222`); of two saves that overlap neither is truncated again, so that
a shorter text which ends between the two cookies of the longer leaves one account's
signature behind the other's user (`auth.c:187`); a minus sign without digits is parsed as zero
(`parson.c:1103`).

## 7. Plan

Done, in this order: `Transfer`; `Batch` and `Downloader`; `Session`;
`Dashboard`; `Glob`, `Names`; `ObjectMap` and `ObjectTable`; `Parson`,
`JsonString`, `Listing`.

Next, to prove: `Parson` as recursive functions of the place in the text and of the
heap, and `NothingLeaks` for every text: what a call has allocated and not handed
over is freed when it returns, by induction on the rest of the text.

Next, to extend the models:

1. `Paths`: the pool over the disks of several local paths, so that two entries
   with one path, and the path that is looked at and the one that is opened, can
   be told apart; it composes `Downloader` and the file steps of `Transfer`.
2. The width of `long` (`downloader.c:245`) as a parameter of `Transfer`, and a
   file replaced on the server between runs.
3. `--logout` next to a URL, and the length of cookies, in `Session`.

Each comes with its invariants as conjunctions of named parts, to be proved as
those of the modules it is composed of.

## 8. Running the checks

In this directory: `tlc -config TransferFile.cfg Transfer` (the module of each run
is in `PROJECT.json`), `tlapm TransferProofs.tla`. TLC needs the community
modules on its path (`SequencesExt`, `FiniteSetsExt`, `Folds`). The longest run
takes about two and a half minutes on two cores, the longest proof
(`ParsonProofs`) about eight.
