------------------------------ MODULE Ingestion ------------------------------
(***************************************************************************)
(* How listings reach the database: persist_raw_listing, called by every   *)
(* scraper run, and create_manual_property, called by the manual endpoint. *)
(*                                                                         *)
(* A session is one database session, busy with one listing at a time.     *)
(* Its transaction runs one SQL statement per step under READ COMMITTED:   *)
(* it reads what is committed at that moment, its own inserts stay         *)
(* invisible until the commit, and a unique index makes an insert wait for *)
(* an uncommitted insert of the same key and fail on a committed one.      *)
(*                                                                         *)
(* Sessions of one process share an event loop.  Neither routine awaits,   *)
(* so within a loop a routine runs to its end before another one starts;   *)
(* sessions of different processes (the API, runs started from the command *)
(* line) interleave freely.                                                *)
(***************************************************************************)
EXTENDS Listings

CONSTANTS
    Scrapers,    \* sessions of scraper runs
    Manuals,     \* sessions of POST /properties/manual
    Loops,       \* event loops (processes)
    LoopOf,      \* the loop each session runs on
    MaxHistory   \* bound: no scrape starts on a listing with this many history rows

Sessions == Scrapers \cup Manuals

ASSUME SessionsAssumption == Scrapers \cap Manuals = {} /\ LoopOf \in [Sessions -> Loops]
ASSUME BoundAssumption == MaxHistory \in Nat

VARIABLES
    category,   \* table properties: the category of each property, or Absent
    listings,   \* table source_listings: the row of each key, or Absent
    history,    \* table price_history: the prices captured for each key, oldest first
    details,    \* tables bank_owned_details and auction_details: keys with a row
    pc,         \* the statement each session runs next
    raw,        \* what each session is persisting
    seen,       \* the listing row a session read, or Absent
    mine,       \* the rows a session has inserted and not committed
    result      \* how a session's last routine ended

tables == <<category, listings, history, details>>
work == <<pc, raw, seen, mine>>
vars == <<tables, work, result>>

FpOf(s) == Fingerprint(raw[s].home, raw[s].price)

Init ==
    /\ category = [fp \in Fingerprints |-> Absent]
    /\ listings = [k \in AllKeys |-> Absent]
    /\ history = [k \in AllKeys |-> <<>>]
    /\ details = {}
    /\ pc = [s \in Sessions |-> "idle"]
    /\ raw = [s \in Sessions |-> Absent]
    /\ seen = [s \in Sessions |-> Absent]
    /\ mine = [s \in Sessions |-> {}]
    /\ result = [s \in Sessions |-> "none"]

(***************************************************************************)
(* Control shared by both routines.                                        *)
(***************************************************************************)

Idle(s) == pc[s] = "idle"

(* A routine starts only when no routine of the same loop is under way. *)
LoopFree(s) == \A t \in Sessions : LoopOf[t] = LoopOf[s] => Idle(t)

Start(s, r) ==
    /\ LoopFree(s)
    /\ pc' = [pc EXCEPT ![s] = "findProperty"]
    /\ raw' = [raw EXCEPT ![s] = r]
    /\ result' = [result EXCEPT ![s] = "none"]
    /\ UNCHANGED <<tables, seen, mine>>

Goto(s, label) == pc' = [pc EXCEPT ![s] = label]

(* Mutant: the session is left open, its inserts pending. *)
EndLeftOpen(s, how) ==
    /\ Goto(s, "idle")
    /\ seen' = [seen EXCEPT ![s] = Absent]
    /\ result' = [result EXCEPT ![s] = how]
    /\ UNCHANGED <<raw, mine>>

(* The routine is over, by a commit or a rollback: nothing stays pending. *)
End(s, how) ==
    /\ Goto(s, "idle")
    /\ raw' = [raw EXCEPT ![s] = Absent]
    /\ seen' = [seen EXCEPT ![s] = Absent]
    /\ mine' = [mine EXCEPT ![s] = {}]
    /\ result' = [result EXCEPT ![s] = how]

(* An exception: the session is rolled back by the caller's handler, or by *)
(* its end.                                                                *)
Rollback(s) == End(s, "error") /\ UNCHANGED tables

(* Mutant: source_listings without its unique constraint. *)
NothingHeld(s) == FALSE

(* An insert waits while another transaction holds the same key. *)
PropertyHeld(s) == \E t \in Sessions \ {s} : "property" \in mine[t] /\ FpOf(t) = FpOf(s)
ListingHeld(s) == \E t \in Sessions \ {s} : "listing" \in mine[t] /\ raw[t].key = raw[s].key

(***************************************************************************)
(* Statements.                                                             *)
(***************************************************************************)

(* persist_raw_listing is entered with a listing a scraper parsed. *)
BeginScraped(s) ==
    \E k \in Keys, h \in Homes, p \in Prices \cup {NoPrice} :
        /\ Len(history[k]) < MaxHistory
        /\ Start(s, [key |-> k, home |-> h, price |-> p, kind |-> KindOf[k]])

(* create_manual_property is entered with a payload; its price is required. *)
BeginManual(s) ==
    \E h \in Homes, p \in Prices, c \in Kinds :
        Start(s, [key |-> ManualKey(Fingerprint(h, p)), home |-> h, price |-> p, kind |-> c])

(* SELECT the property by its fingerprint. *)
FindProperty(s) ==
    /\ pc[s] = "findProperty"
    /\ Goto(s, IF category[FpOf(s)] = Absent THEN "insertProperty"
               ELSE IF s \in Manuals THEN "answer" ELSE "findListing")
    /\ UNCHANGED <<tables, raw, seen, mine, result>>

(* INSERT INTO properties, flushed at once; a committed rival makes it fail. *)
InsertProperty(s) ==
    /\ pc[s] = "insertProperty"
    /\ ~PropertyHeld(s)
    /\ IF category[FpOf(s)] # Absent
       THEN Rollback(s)
       ELSE /\ mine' = [mine EXCEPT ![s] = @ \cup {"property"}]
            /\ Goto(s, IF s \in Manuals THEN "insertListing" ELSE "findListing")
            /\ UNCHANGED <<tables, raw, seen, result>>

(* Only listings of banks and auctions that were scraped carry details. *)
HasDetail(s) == s \in Scrapers /\ raw[s].kind # "common"

AfterListing(s) == IF HasDetail(s) THEN "findDetail" ELSE "commit"

(* SELECT the listing by (source, source_id). *)
FindListing(s) ==
    /\ pc[s] = "findListing"
    /\ seen' = [seen EXCEPT ![s] = listings[raw[s].key]]
    /\ Goto(s, IF listings[raw[s].key] = Absent THEN "insertListing" ELSE AfterListing(s))
    /\ UNCHANGED <<tables, raw, mine, result>>

(* INSERT INTO source_listings, flushed at once. *)
InsertListing(s) ==
    /\ pc[s] = "insertListing"
    /\ ~ListingHeld(s)
    /\ IF listings[raw[s].key] # Absent
       THEN Rollback(s)
       ELSE /\ mine' = [mine EXCEPT ![s] = @ \cup {"listing"}]
            /\ Goto(s, AfterListing(s))
            /\ UNCHANGED <<tables, raw, seen, result>>

(* Mutant: a detail row is added on every visit. *)
AddDetail(s) ==
    /\ pc[s] = "findDetail"
    /\ mine' = [mine EXCEPT ![s] = @ \cup {"detail"}]
    /\ Goto(s, "commit")
    /\ UNCHANGED <<tables, raw, seen, result>>

(* SELECT the detail row; without one, an insert is pending until the commit. *)
FindDetail(s) ==
    /\ pc[s] = "findDetail"
    /\ mine' = [mine EXCEPT ![s] = IF raw[s].key \in details THEN @ ELSE @ \cup {"detail"}]
    /\ Goto(s, "commit")
    /\ UNCHANGED <<tables, raw, seen, result>>

(***************************************************************************)
(* The end of a transaction: UPDATE of the listing, INSERT of history and  *)
(* detail, COMMIT.  One step, since the row lock the UPDATE takes orders   *)
(* these ends and nothing is read in between.  A detail row another        *)
(* transaction has committed meanwhile makes the insert, and all, fail.    *)
(***************************************************************************)

PreviousPrice(s) == IF seen[s] = Absent THEN NoPrice ELSE seen[s].price

(* Mutants: the test for a price forgotten, the comparison forgotten, a     *)
(* first price not counted as a change.                                     *)
PriceDiffers(s) == raw[s].price # PreviousPrice(s)
PriceGiven(s) == raw[s].price # NoPrice
PriceReplaced(s) == PriceDiffers(s) /\ PriceGiven(s) /\ (seen[s] = Absent \/ seen[s].price # NoPrice)

(* A history row is due when there is a price and it is not the one read. *)
PriceChanged(s) == raw[s].price # NoPrice /\ raw[s].price # PreviousPrice(s)

(* Mutants: a known listing keeps its property; a missing price keeps the old one. *)
RowOfSameProperty(s) ==
    [prop |-> IF seen[s] = Absent THEN FpOf(s) ELSE listings[raw[s].key].prop,
     price |-> raw[s].price]
RowKeepingPrice(s) ==
    [prop |-> FpOf(s),
     price |-> IF raw[s].price = NoPrice THEN PreviousPrice(s) ELSE raw[s].price]

(* An UPDATE sets only the columns that differ from the row that was read;  *)
(* the others keep what is committed by now.                                *)
NewRow(s) ==
    IF seen[s] = Absent
    THEN [prop |-> FpOf(s), price |-> raw[s].price]
    ELSE [prop |-> IF FpOf(s) = seen[s].prop THEN listings[raw[s].key].prop ELSE FpOf(s),
          price |-> IF raw[s].price = seen[s].price THEN listings[raw[s].key].price
                    ELSE raw[s].price]

NewHistory(s) == IF PriceChanged(s) THEN Append(history[raw[s].key], raw[s].price)
                 ELSE history[raw[s].key]

NewDetails(s) == IF "detail" \in mine[s] THEN details \cup {raw[s].key} ELSE details

DetailConflict(s) == "detail" \in mine[s] /\ raw[s].key \in details

(* Mutant: the category of a known property is overwritten. *)
LastCategory(s) == raw[s].kind

(* The category a property gets when it is inserted; it is never updated. *)
NewCategory(s) == IF "property" \in mine[s] THEN raw[s].kind ELSE category[FpOf(s)]

Commit(s) ==
    /\ category' = [category EXCEPT ![FpOf(s)] = NewCategory(s)]
    /\ listings' = [listings EXCEPT ![raw[s].key] = NewRow(s)]
    /\ history' = [history EXCEPT ![raw[s].key] = NewHistory(s)]
    /\ details' = NewDetails(s)
    /\ End(s, IF seen[s] = Absent THEN "new" ELSE "updated")

Finish(s) ==
    /\ pc[s] = "commit"
    /\ IF DetailConflict(s) THEN Rollback(s) ELSE Commit(s)

(* The manual endpoint answers for an existing property with the first of  *)
(* its listings, loaded by a SELECT of its own.                            *)
ListingsOf(fp) == {k \in AllKeys : listings[k] # Absent /\ listings[k].prop = fp}

Answer(s) ==
    /\ pc[s] = "answer"
    /\ End(s, IF ListingsOf(FpOf(s)) = {} THEN "indexError" ELSE "existing")
    /\ UNCHANGED tables

(* The process dies or the connection drops in the middle of a transaction. *)
Abort(s) ==
    /\ ~Idle(s)
    /\ Rollback(s)

Statement(s) ==
    \/ FindProperty(s)
    \/ InsertProperty(s)
    \/ FindListing(s)
    \/ InsertListing(s)
    \/ FindDetail(s)
    \/ Finish(s)
    \/ Answer(s)

Next ==
    \/ \E s \in Scrapers : BeginScraped(s)
    \/ \E s \in Manuals : BeginManual(s)
    \/ \E s \in Sessions : Statement(s)
    \/ \E s \in Sessions : Abort(s)

Spec == Init /\ [][Next]_vars

(* A session that can run its next statement does so.  An insert that waits *)
(* for a key is queued by the server and woken when the key is released, so  *)
(* rivals that come and go do not overtake it for ever.                      *)
Fairness == \A s \in Sessions : /\ WF_vars(Statement(s))
                                /\ SF_vars(InsertProperty(s))
                                /\ SF_vars(InsertListing(s))

FairSpec == Spec /\ Fairness

-----------------------------------------------------------------------------
(***************************************************************************)
(* Properties.                                                             *)
(***************************************************************************)

Labels == {"idle", "findProperty", "insertProperty", "findListing", "insertListing",
           "findDetail", "commit", "answer"}

Results == {"none", "new", "updated", "error", "existing", "indexError"}

(* Every table and every session's bookkeeping has the shape declared for it. *)
TypeOK ==
    /\ category \in [Fingerprints -> Kinds \cup {Absent}]
    /\ listings \in [AllKeys -> Rows \cup {Absent}]
    /\ history \in [AllKeys -> Seq(Prices)]
    /\ details \subseteq AllKeys
    /\ pc \in [Sessions -> Labels]
    /\ raw \in [Sessions -> Raws \cup {Absent}]
    /\ seen \in [Sessions -> Rows \cup {Absent}]
    /\ mine \in [Sessions -> SUBSET {"property", "listing", "detail"}]
    /\ result \in [Sessions -> Results]
    /\ \A s \in Sessions : ~Idle(s) => raw[s] # Absent

(* The price shown for a listing is the last one captured for it: whatever  *)
(* two processes do to one listing, persist_raw_listing (lines 19-33, 48-51) *)
(* never leaves a price the history does not end with.                       *)
HistoryTracksPrice ==
    \A k \in AllKeys :
        listings[k] # Absent /\ listings[k].price # NoPrice =>
            /\ history[k] # <<>>
            /\ history[k][Len(history[k])] = listings[k].price

(* A listing of a bank or an auction has its detail row from the transaction *)
(* that created it, and only such listings have one: two processes never     *)
(* compete for a detail row, and its insert (lines 97-99, 120-122) never     *)
(* costs a run a listing.                                                    *)
DetailsWithListing ==
    /\ \A k \in Keys : k \in details <=> listings[k] # Absent /\ KindOf[k] # "common"
    /\ \A s \in Sessions : ~(pc[s] = "commit" /\ DetailConflict(s))

(* When one event loop does all the writing, a listing hangs on a property   *)
(* whose fingerprint was computed from the price the listing shows (lines    *)
(* 21 and 25 are applied together).                                          *)
BandFollowsPrice ==
    \A k \in AllKeys :
        listings[k] # Absent => listings[k].prop[2] = Band(listings[k].price)

(* The history of a listing only grows, by at most one price a transaction,  *)
(* and no table ever loses a row.                                            *)
OnlyAdds ==
    /\ \A k \in AllKeys :
        /\ history'[k] = history[k] \/ \E p \in Prices : history'[k] = Append(history[k], p)
        /\ listings[k] # Absent => listings'[k] # Absent
    /\ \A fp \in Fingerprints : category[fp] # Absent => category'[fp] = category[fp]
    /\ details \subseteq details'

TablesOnlyGrow == [][OnlyAdds]_vars

(* "new" is reported exactly when this transaction created the listing, so   *)
(* the counts of two runs never claim one listing twice, nor claim as new    *)
(* one that was rolled back.                                                 *)
NewMeansCreated ==
    \A s \in Sessions : ~Idle(s) /\ Idle(s)' =>
        (result'[s] = "new" <=> listings[raw[s].key] = Absent
                                /\ listings'[raw[s].key] # Absent)

NewIsNew == [][NewMeansCreated]_vars

(* A price is captured when the price changes, and only then (a NoPrice in   *)
(* between counts as a change).  The schema says so of price_history.        *)
CapturedIfChanged ==
    \A k \in AllKeys : history'[k] # history[k] <=>
        /\ listings'[k] # Absent
        /\ listings'[k].price # NoPrice
        /\ listings[k] # Absent => listings'[k].price # listings[k].price

CapturesChanges == [][CapturedIfChanged]_vars

(* One event loop alone behaves as a store that takes each listing in one    *)
(* step: the statements in between, the rollbacks and the answers show       *)
(* nothing.  Two processes do not: an update made from a stale read mixes     *)
(* columns of both.                                                          *)
Store == INSTANCE ListingStore WITH
    category <- category,
    listings <- listings,
    history <- history,
    details <- details

IsListingStore == Store!Spec

(* The manual endpoint always has a listing to answer with. *)
ManualAnswered == \A s \in Manuals : result[s] # "indexError"

(* No transaction waits for ever: the waits of the unique indexes end, in    *)
(* whatever order two processes insert a property and a listing.             *)
EveryRoutineEnds == \A s \in Sessions : ~Idle(s) ~> Idle(s)
=============================================================================
