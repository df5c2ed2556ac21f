---------------------------- MODULE MCDownloader ----------------------------
(* Listings of Count entries for TLC: all wanted, and one with an entry of  *)
(* every kind the early exits of download_one know.                         *)
EXTENDS Downloader

Entry(n, f, r) == [named |-> n, filtered |-> f, restricted |-> r]

AllWanted == [i \in Files |-> Entry(TRUE, FALSE, FALSE)]
FlagsFirst == [i \in Files |->
                  CASE i = 0 -> Entry(TRUE, TRUE, TRUE)
                    [] i = 1 -> Entry(TRUE, FALSE, TRUE)
                    [] OTHER -> Entry(TRUE, FALSE, FALSE)]
NamelessFirst == [i \in Files |-> Entry(i # 0, FALSE, FALSE)]

MCListings == {AllWanted, FlagsFirst, NamelessFirst}

MCNoSlots == {}
MCFirstSlot == {0}
MCLastSlot == {Pool - 1}
MCAllSlots == Slots

=============================================================================
