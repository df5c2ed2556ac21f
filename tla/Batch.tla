-------------------------------- MODULE Batch --------------------------------
(***************************************************************************)
(* What download_all promises its caller (downloader.h), without threads:  *)
(* every entry of the listing gets one verdict, the totals count verdicts, *)
(* and the call returns once all entries have one, 0 iff none failed.      *)
(***************************************************************************)
EXTENDS Integers

CONSTANTS
    Files,         \* the entries of the listing
    Listings       \* what a listing may say of them

Kinds == {"downloaded", "skipped", "failed", "restricted", "filtered"}

VARIABLES
    listing,
    verdict,       \* Files -> Kinds, or "pending", or "unnamed"
    stats,         \* DownloadStats
    rc             \* what the call returned; -1 before

vars == <<listing, verdict, stats, rc>>

Init ==
    /\ listing \in Listings
    /\ verdict = [i \in Files |-> "pending"]
    /\ stats = [k \in Kinds |-> 0]
    /\ rc = -1

(* The verdicts an entry may get: the flags decide before the network does. *)
Allowed(i) ==
    CASE listing[i].filtered -> {"filtered"}
      [] ~listing[i].filtered /\ listing[i].restricted -> {"restricted"}
      [] OTHER -> {"downloaded", "skipped", "failed"}

Settle(i) ==
    /\ rc = -1
    /\ verdict[i] = "pending"
    /\ listing[i].named
    /\ \E k \in Allowed(i) :
          /\ verdict' = [verdict EXCEPT ![i] = k]
          /\ stats' = [stats EXCEPT ![k] = @ + 1]
    /\ UNCHANGED <<listing, rc>>

(* An entry without a name is passed over and counted nowhere.              *)
PassOver(i) ==
    /\ rc = -1
    /\ verdict[i] = "pending"
    /\ ~listing[i].named
    /\ verdict' = [verdict EXCEPT ![i] = "unnamed"]
    /\ UNCHANGED <<listing, stats, rc>>

Return ==
    /\ rc = -1
    /\ \A i \in Files : verdict[i] # "pending"
    /\ rc' = IF stats["failed"] > 0 THEN 1 ELSE 0
    /\ UNCHANGED <<listing, verdict, stats>>

(* No memory for the workers: the call fails before it begins.              *)
Refuse ==
    /\ rc = -1
    /\ \A i \in Files : verdict[i] = "pending"
    /\ rc' = 1
    /\ UNCHANGED <<listing, verdict, stats>>

Next == Return \/ Refuse \/ \E i \in Files : Settle(i) \/ PassOver(i)

Spec == Init /\ [][Next]_vars /\ WF_vars(Next)

=============================================================================
