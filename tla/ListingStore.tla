---------------------------- MODULE ListingStore ----------------------------
(***************************************************************************)
(* What ingestion promises: a store of listings that takes a scraped       *)
(* listing, or registers a manual property, in one step.                   *)
(***************************************************************************)
EXTENDS Listings

VARIABLES category, listings, history, details

tables == <<category, listings, history, details>>

(* A property exists from the first listing that hashes to it, whose        *)
(* category it keeps.                                                       *)
Claim(fp, kind) == category' = [category EXCEPT ![fp] = IF @ = Absent THEN kind ELSE @]

Place(k, fp, p) == listings' = [listings EXCEPT ![k] = [prop |-> fp, price |-> p]]

(* The price stored for a key, NoPrice when nothing is. *)
Shown(k) == IF listings[k] = Absent THEN NoPrice ELSE listings[k].price

Capture(k, p) == history' = [history EXCEPT ![k] = IF p \in {NoPrice, Shown(k)} THEN @
                                                   ELSE Append(@, p)]

Init ==
    /\ category = [fp \in Fingerprints |-> Absent]
    /\ listings = [k \in AllKeys |-> Absent]
    /\ history = [k \in AllKeys |-> <<>>]
    /\ details = {}

(* A scraped listing, new or seen again. *)
Take(k, h, p) ==
    /\ Claim(Fingerprint(h, p), KindOf[k])
    /\ Place(k, Fingerprint(h, p), p)
    /\ Capture(k, p)
    /\ details' = IF KindOf[k] = "common" THEN details ELSE details \cup {k}

(* A manual property that was not known. *)
Register(h, p, kind) ==
    LET fp == Fingerprint(h, p) IN
    /\ category[fp] = Absent
    /\ Claim(fp, kind)
    /\ Place(ManualKey(fp), fp, p)
    /\ Capture(ManualKey(fp), p)
    /\ UNCHANGED details

Next ==
    \/ \E k \in Keys, h \in Homes, p \in Prices \cup {NoPrice} : Take(k, h, p)
    \/ \E h \in Homes, p \in Prices, kind \in Kinds : Register(h, p, kind)

Spec == Init /\ [][Next]_tables
=============================================================================
