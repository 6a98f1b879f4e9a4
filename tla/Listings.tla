------------------------------ MODULE Listings ------------------------------
(***************************************************************************)
(* What is stored about listings and properties: identities, fingerprints  *)
(* and the shape of the rows.                                              *)
(*                                                                         *)
(* Rows of properties are never deleted and their fingerprint is unique    *)
(* and never updated: a property is identified with its fingerprint.       *)
(* Likewise a listing is identified with its (source, source_id).          *)
(***************************************************************************)
EXTENDS Integers, Sequences, FiniteSets

CONSTANTS
    Keys,     \* (source, source_id) of the listings found on the sites
    KindOf,   \* "common", "bank" or "auction": what a key's source publishes
    Homes,    \* what a fingerprint hashes besides the price
    Prices,   \* prices in use
    NoPrice,  \* a listing without a price
    Step,     \* width of the price band of a fingerprint
    Absent    \* no row

Kinds == {"common", "bank", "auction"}

(* round_decimal(price, 10000): the band is cut towards zero, "" without a price. *)
Band(price) == IF price = NoPrice THEN NoPrice ELSE (price \div Step) * Step

Bands == {Band(p) : p \in Prices \cup {NoPrice}}

(* The hash is injective on what it is given: the pair stands for it. *)
Fingerprint(home, price) == <<home, Band(price)>>

Fingerprints == Homes \X Bands

(* A manual listing has source "manual" and its property's id as source_id. *)
ManualKey(fp) == <<"manual", fp>>

AllKeys == Keys \cup {ManualKey(fp) : fp \in Fingerprints}

(* What a session is given: a RawListing, or the payload of the endpoint. *)
Raws == [key : AllKeys, home : Homes, price : Prices \cup {NoPrice}, kind : Kinds]

Rows == [prop : Fingerprints, price : Prices \cup {NoPrice}]

ASSUME KeysAssumption == /\ KindOf \in [Keys -> Kinds]
                         /\ \A fp \in Fingerprints : ManualKey(fp) \notin Keys
ASSUME PricesAssumption == Prices \subseteq Nat /\ NoPrice \notin Nat /\ Step \in Nat \ {0}
ASSUME AbsentAssumption == Absent \notin Rows /\ Absent \notin Raws /\ Absent \notin Kinds
=============================================================================
