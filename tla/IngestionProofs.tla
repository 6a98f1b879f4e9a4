--------------------------- MODULE IngestionProofs ---------------------------
(***************************************************************************)
(* Theorems about Ingestion, for any number of sessions, loops, listings   *)
(* and prices.                                                             *)
(*                                                                         *)
(* HistoryTracksPrice is not inductive: a commit writes what the session   *)
(* read several statements ago.  Flow ties what a session remembers to     *)
(* where it is, Locks says what the unique index on (source, source_id)    *)
(* guarantees while an insert is pending, and Memory says which rows a     *)
(* session may rely on being there.                                        *)
(***************************************************************************)
EXTENDS Ingestion, TLAPS

(* What a session has in hand at each statement. *)
Flow ==
    \A s \in Sessions :
        /\ Idle(s) <=> raw[s] = Absent
        /\ ~Idle(s) => IF s \in Scrapers
                       THEN raw[s].key \in Keys /\ raw[s].kind = KindOf[raw[s].key]
                       ELSE raw[s].key \notin Keys
        /\ pc[s] \in {"findDetail", "commit"} => (seen[s] = Absent <=> "listing" \in mine[s])
        /\ pc[s] \notin {"findDetail", "commit"} => seen[s] = Absent /\ "listing" \notin mine[s]
        /\ pc[s] # "commit" => "detail" \notin mine[s]
        /\ pc[s] = "findDetail" => HasDetail(s)
        /\ pc[s] = "commit" => ("detail" \in mine[s] <=> HasDetail(s) /\ seen[s] = Absent)

(* No two pending inserts of one key, and none of a committed one. *)
Locks ==
    \A s \in Sessions : "listing" \in mine[s] =>
        /\ listings[raw[s].key] = Absent
        /\ \A t \in Sessions \ {s} : "listing" \in mine[t] => raw[t].key # raw[s].key

(* A row that was read is still there. *)
Memory == \A s \in Sessions : seen[s] # Absent => listings[raw[s].key] # Absent

(* First half of DetailsWithListing. *)
DetailsMatch == \A k \in Keys : k \in details <=> listings[k] # Absent /\ KindOf[k] # "common"

IInv == Flow /\ Locks /\ Memory /\ DetailsMatch /\ HistoryTracksPrice

-----------------------------------------------------------------------------
(***************************************************************************)
(* Typing.                                                                 *)
(***************************************************************************)

(* What a session persists hashes to a fingerprint. *)
LEMMA FpType ==
    ASSUME NEW r \in Raws
    PROVE  Fingerprint(r.home, r.price) \in Fingerprints
BY DEF Raws, Fingerprint, Fingerprints, Bands

(* The row, the history and the category a commit writes have their types. *)
LEMMA WriteTypes ==
    ASSUME TypeOK, NEW s \in Sessions, ~Idle(s),
           seen[s] # Absent => listings[raw[s].key] # Absent
    PROVE  /\ raw[s] \in Raws
           /\ raw[s].key \in AllKeys
           /\ FpOf(s) \in Fingerprints
           /\ NewRow(s) \in Rows
           /\ NewHistory(s) \in Seq(Prices)
           /\ NewCategory(s) \in Kinds \cup {Absent}
<1>1. raw[s] \in Raws /\ raw[s].key \in AllKeys /\ raw[s].kind \in Kinds
      /\ raw[s].price \in Prices \cup {NoPrice}
  BY DEF TypeOK, Raws
<1>2. FpOf(s) \in Fingerprints
  BY <1>1, FpType DEF FpOf
<1>3. NewRow(s) \in Rows
  <2>1. CASE seen[s] = Absent
    BY <2>1, <1>1, <1>2 DEF NewRow, Rows
  <2>2. CASE seen[s] # Absent
    <3>1. listings[raw[s].key] \in Rows
      BY <2>2, <1>1 DEF TypeOK
    <3>2. QED
      BY <2>2, <3>1, <1>1, <1>2 DEF NewRow, Rows
  <2>3. QED
    BY <2>1, <2>2
<1>4. NewHistory(s) \in Seq(Prices)
  <2>1. history[raw[s].key] \in Seq(Prices)
    BY <1>1 DEF TypeOK
  <2>2. PriceChanged(s) => raw[s].price \in Prices
    BY <1>1 DEF PriceChanged
  <2>3. QED
    BY <2>1, <2>2 DEF NewHistory
<1>5. NewCategory(s) \in Kinds \cup {Absent}
  BY <1>1, <1>2 DEF NewCategory, TypeOK
<1>6. QED
  BY <1>1, <1>2, <1>3, <1>4, <1>5

(* A commit that relies on rows still there keeps the types. *)
LEMMA TypePreserved ==
    ASSUME TypeOK, [Next]_vars,
           \A s \in Sessions : seen[s] # Absent => listings[raw[s].key] # Absent
    PROVE  TypeOK'
<1> USE DEF TypeOK, Labels, Results, Idle
<1>1. ASSUME NEW s \in Scrapers, BeginScraped(s) PROVE TypeOK'
  <2>1. PICK k \in Keys, h \in Homes, p \in Prices \cup {NoPrice} :
           Start(s, [key |-> k, home |-> h, price |-> p, kind |-> KindOf[k]])
    BY <1>1 DEF BeginScraped
  <2>2. [key |-> k, home |-> h, price |-> p, kind |-> KindOf[k]] \in Raws
    BY KeysAssumption DEF Raws, AllKeys
  <2>3. QED
    BY <2>1, <2>2, AbsentAssumption DEF Start, tables, Sessions
<1>2. ASSUME NEW s \in Manuals, BeginManual(s) PROVE TypeOK'
  <2>1. PICK h \in Homes, p \in Prices, c \in Kinds :
           Start(s, [key |-> ManualKey(Fingerprint(h, p)), home |-> h, price |-> p, kind |-> c])
    BY <1>2 DEF BeginManual
  <2>2. Fingerprint(h, p) \in Fingerprints
    BY DEF Fingerprint, Fingerprints, Bands
  <2>3. [key |-> ManualKey(Fingerprint(h, p)), home |-> h, price |-> p, kind |-> c] \in Raws
    BY <2>2 DEF Raws, AllKeys
  <2>4. QED
    BY <2>1, <2>3, AbsentAssumption DEF Start, tables, Sessions
<1>3. ASSUME NEW s \in Sessions, Rollback(s) PROVE TypeOK'
  BY <1>3 DEF Rollback, End, Goto, tables
<1>4. ASSUME NEW s \in Sessions, FindProperty(s) PROVE TypeOK'
  BY <1>4 DEF FindProperty, Goto, tables
<1>5. ASSUME NEW s \in Sessions, InsertProperty(s) PROVE TypeOK'
  BY <1>5, <1>3 DEF InsertProperty, Goto, tables
<1>6. ASSUME NEW s \in Sessions, FindListing(s) PROVE TypeOK'
  <2>1. raw[s].key \in AllKeys
    BY <1>6 DEF FindListing, Raws
  <2>2. QED
    BY <1>6, <2>1 DEF FindListing, Goto, tables, AfterListing
<1>7. ASSUME NEW s \in Sessions, InsertListing(s) PROVE TypeOK'
  <2>1. CASE Rollback(s)
    BY <2>1, <1>3
  <2>2. CASE ~Rollback(s)
    <3>1. AfterListing(s) \in Labels
      BY DEF AfterListing
    <3>2. /\ mine' = [mine EXCEPT ![s] = @ \cup {"listing"}]
          /\ pc' = [pc EXCEPT ![s] = AfterListing(s)]
          /\ pc[s] = "insertListing"
          /\ UNCHANGED <<tables, raw, seen, result>>
      BY <1>7, <2>2 DEF InsertListing, Goto
    <3>3. QED
      BY <3>1, <3>2 DEF tables
  <2>3. QED
    BY <2>1, <2>2
<1>8. ASSUME NEW s \in Sessions, FindDetail(s) PROVE TypeOK'
  BY <1>8 DEF FindDetail, Goto, tables
<1>9. ASSUME NEW s \in Sessions, Finish(s) PROVE TypeOK'
  <2>1. CASE DetailConflict(s)
    BY <1>9, <2>1, <1>3 DEF Finish
  <2>2. CASE ~DetailConflict(s)
    <3>1. ~Idle(s) /\ Commit(s)
      BY <1>9, <2>2 DEF Finish
    <3>2. /\ raw[s].key \in AllKeys
          /\ FpOf(s) \in Fingerprints
          /\ NewRow(s) \in Rows
          /\ NewHistory(s) \in Seq(Prices)
          /\ NewCategory(s) \in Kinds \cup {Absent}
      BY <3>1, WriteTypes
    <3>3. details' \subseteq AllKeys
      BY <3>1, <3>2 DEF Commit, NewDetails
    <3>4. QED
      BY <3>1, <3>2, <3>3 DEF Commit, End, Goto
  <2>3. QED
    BY <2>1, <2>2
<1>10. ASSUME NEW s \in Sessions, Answer(s) PROVE TypeOK'
  BY <1>10 DEF Answer, End, Goto, tables
<1>11. ASSUME UNCHANGED vars PROVE TypeOK'
  BY <1>11 DEF vars, tables, work
<1>12. QED
  BY <1>1, <1>2, <1>3, <1>4, <1>5, <1>6, <1>7, <1>8, <1>9, <1>10, <1>11
     DEF Next, Statement, Abort

-----------------------------------------------------------------------------
(***************************************************************************)
(* The inductive invariant, one lemma per part.                            *)
(***************************************************************************)

(* A statement of one session: every other session keeps what it has. *)
LEMMA FlowPreserved ==
    ASSUME TypeOK, TypeOK', Flow, Locks, Memory, DetailsMatch, [Next]_vars
    PROVE  Flow'
<1> USE DEF Flow, Idle, TypeOK
<1>1. ASSUME NEW s \in Scrapers, BeginScraped(s) PROVE Flow'
  <2>1. PICK k \in Keys, h \in Homes, p \in Prices \cup {NoPrice} :
           Start(s, [key |-> k, home |-> h, price |-> p, kind |-> KindOf[k]])
    BY <1>1 DEF BeginScraped
  <2>2. s \in Sessions /\ pc[s] = "idle"
    BY <2>1 DEF Start, LoopFree, Sessions
  <2>3. [key |-> k, home |-> h, price |-> p, kind |-> KindOf[k]] # Absent
    BY KeysAssumption, AbsentAssumption DEF Raws, AllKeys
  <2>4. QED
    BY <2>1, <2>2, <2>3 DEF Start, HasDetail
<1>2. ASSUME NEW s \in Manuals, BeginManual(s) PROVE Flow'
  <2>1. PICK h \in Homes, p \in Prices, c \in Kinds :
           Start(s, [key |-> ManualKey(Fingerprint(h, p)), home |-> h, price |-> p, kind |-> c])
    BY <1>2 DEF BeginManual
  <2>2. s \in Sessions /\ pc[s] = "idle" /\ s \notin Scrapers
    BY <2>1, SessionsAssumption DEF Start, LoopFree, Sessions
  <2>3. Fingerprint(h, p) \in Fingerprints
    BY DEF Fingerprint, Fingerprints, Bands
  <2>4. ManualKey(Fingerprint(h, p)) \notin Keys
    BY <2>3, KeysAssumption
  <2>5. [key |-> ManualKey(Fingerprint(h, p)), home |-> h, price |-> p, kind |-> c] # Absent
    BY <2>3, AbsentAssumption DEF Raws, AllKeys
  <2>6. QED
    BY <2>1, <2>2, <2>4, <2>5 DEF Start, HasDetail
<1>3. ASSUME NEW s \in Sessions, NEW how, End(s, how) PROVE Flow'
  BY <1>3 DEF End, Goto, HasDetail
<1>4. ASSUME NEW s \in Sessions, FindProperty(s) PROVE Flow'
  BY <1>4 DEF FindProperty, Goto, HasDetail
<1>5. ASSUME NEW s \in Sessions, InsertProperty(s) PROVE Flow'
  BY <1>5, <1>3 DEF InsertProperty, Rollback, Goto, HasDetail
<1>6. ASSUME NEW s \in Sessions, FindListing(s) PROVE Flow'
  BY <1>6 DEF FindListing, Goto, HasDetail, AfterListing
<1>7. ASSUME NEW s \in Sessions, InsertListing(s) PROVE Flow'
  BY <1>7, <1>3 DEF InsertListing, Rollback, Goto, HasDetail, AfterListing
<1>8. ASSUME NEW s \in Sessions, FindDetail(s) PROVE Flow'
  BY <1>8 DEF FindDetail, Goto, HasDetail, Locks, Memory, DetailsMatch
<1>9. ASSUME NEW s \in Sessions, Finish(s) PROVE Flow'
  BY <1>9, <1>3 DEF Finish, Rollback, Commit
<1>10. ASSUME NEW s \in Sessions, Answer(s) PROVE Flow'
  BY <1>10, <1>3 DEF Answer
<1>11. ASSUME UNCHANGED vars PROVE Flow'
  BY <1>11 DEF vars, tables, work, HasDetail
<1>12. QED
  BY <1>1, <1>2, <1>3, <1>4, <1>5, <1>6, <1>7, <1>8, <1>9, <1>10, <1>11
     DEF Next, Statement, Abort, Rollback

(* Only a commit writes the tables. *)
LEMMA OnlyCommitWrites ==
    ASSUME [Next]_vars
    PROVE  \/ UNCHANGED tables
           \/ \E s \in Sessions : pc[s] = "commit" /\ ~DetailConflict(s) /\ Commit(s)
BY DEF Next, vars, Statement, BeginScraped, BeginManual, Start, FindProperty, InsertProperty,
       FindListing, InsertListing, FindDetail, Finish, Answer, Abort, Rollback

(* A commit inserts a listing it holds, or updates one that is there: rows   *)
(* are never lost.                                                           *)
LEMMA RowsStay ==
    ASSUME TypeOK, TypeOK', Flow, Locks, Memory, [Next]_vars, NEW k \in AllKeys,
           listings[k] # Absent
    PROVE  listings'[k] # Absent
<1>1. CASE UNCHANGED tables
  BY <1>1 DEF tables
<1>2. ASSUME NEW s \in Sessions, pc[s] = "commit", Commit(s) PROVE listings'[k] # Absent
  <2>1. NewRow(s) # Absent
    BY <1>2, WriteTypes, AbsentAssumption DEF Memory, Idle
  <2>2. QED
    BY <1>2, <2>1 DEF Commit, TypeOK
<1>3. QED
  BY <1>1, <1>2, OnlyCommitWrites

(* What a session remembers of a row was remembered before, or has just been *)
(* read.                                                                     *)
LEMMA SeenSince ==
    ASSUME TypeOK, Flow, [Next]_vars, NEW s \in Sessions, seen'[s] # Absent
    PROVE  (seen'[s] = seen[s] /\ raw'[s] = raw[s]) \/ FindListing(s)
<1> SUFFICES ASSUME seen'[s] # seen[s] \/ raw'[s] # raw[s] PROVE FindListing(s)
  OBVIOUS
<1>1. ASSUME NEW t \in Sessions, NEW r, Start(t, r) PROVE FALSE
  BY <1>1 DEF Start, TypeOK, Flow, LoopFree, Idle
<1>2. ASSUME NEW t \in Sessions, NEW how, End(t, how) PROVE FALSE
  BY <1>2 DEF End, TypeOK
<1>3. ASSUME NEW t \in Sessions, FindListing(t) PROVE FindListing(s)
  BY <1>3 DEF FindListing, TypeOK
<1>4. ASSUME NEW t \in Scrapers PROVE ~BeginScraped(t)
  BY <1>1 DEF BeginScraped, Sessions
<1>5. ASSUME NEW t \in Manuals PROVE ~BeginManual(t)
  BY <1>1 DEF BeginManual, Sessions
<1>6. QED
  BY <1>2, <1>3, <1>4, <1>5
     DEF Next, vars, work, Statement, FindProperty, InsertProperty, InsertListing,
         FindDetail, Finish, Commit, Answer, Abort, Rollback

(* What a session read stays: it keeps the row it read or forgets it, and    *)
(* the row is not lost.                                                      *)
LEMMA MemoryPreserved ==
    ASSUME TypeOK, TypeOK', Flow, Flow', Locks, Memory, [Next]_vars
    PROVE  Memory'
<1> SUFFICES ASSUME NEW s \in Sessions, seen'[s] # Absent
             PROVE  listings'[raw'[s].key] # Absent
  BY DEF Memory
<1>1. CASE seen'[s] = seen[s] /\ raw'[s] = raw[s]
  <2>1. raw[s].key \in AllKeys /\ listings[raw[s].key] # Absent
    BY <1>1, AbsentAssumption DEF Memory, TypeOK, Flow, Raws, Idle
  <2>2. QED
    BY <1>1, <2>1, RowsStay
<1>2. CASE FindListing(s)
  BY <1>2 DEF FindListing, TypeOK, tables
<1>3. QED
  BY <1>1, <1>2, SeenSince

(* An insert becomes pending when no one holds the key and no row has it;    *)
(* until it ends nobody else can write that key.                             *)
LEMMA LocksPreserved ==
    ASSUME TypeOK, TypeOK', Flow, Flow', Locks, Memory, [Next]_vars
    PROVE  Locks'
<1>1. ASSUME NEW s \in Sessions, "listing" \in mine'[s]
      PROVE  \/ "listing" \in mine[s] /\ raw'[s] = raw[s]
             \/ InsertListing(s) /\ ~ListingHeld(s) /\ listings[raw[s].key] = Absent
                /\ UNCHANGED <<tables, raw>>
  <2>1. ASSUME NEW t \in Sessions, NEW r, Start(t, r)
        PROVE  "listing" \in mine[s] /\ raw'[s] = raw[s]
    BY <1>1, <2>1 DEF Start, TypeOK, Flow, LoopFree, Idle
  <2>2. ASSUME NEW t \in Sessions, NEW how, End(t, how)
        PROVE  "listing" \in mine[s] /\ raw'[s] = raw[s]
    BY <1>1, <2>2 DEF End, TypeOK
  <2>3. ASSUME NEW t \in Sessions, InsertProperty(t)
        PROVE  "listing" \in mine[s] /\ raw'[s] = raw[s]
    <3>1. CASE Rollback(t)
      BY <3>1, <2>2 DEF Rollback
    <3>2. CASE ~Rollback(t)
      <4>1. mine' = [mine EXCEPT ![t] = @ \cup {"property"}] /\ UNCHANGED raw
        BY <2>3, <3>2 DEF InsertProperty
      <4>2. QED
        BY <1>1, <4>1 DEF TypeOK
    <3>3. QED
      BY <3>1, <3>2
  <2>4. ASSUME NEW t \in Sessions, FindDetail(t)
        PROVE  "listing" \in mine[s] /\ raw'[s] = raw[s]
    BY <1>1, <2>4 DEF FindDetail, TypeOK
  <2>5. ASSUME NEW t \in Sessions, InsertListing(t)
        PROVE  \/ "listing" \in mine[s] /\ raw'[s] = raw[s]
               \/ InsertListing(s) /\ ~ListingHeld(s) /\ listings[raw[s].key] = Absent
                  /\ UNCHANGED <<tables, raw>>
    <3>1. CASE Rollback(t)
      BY <3>1, <2>2 DEF Rollback
    <3>2. CASE ~Rollback(t)
      <4>1. /\ ~ListingHeld(t) /\ listings[raw[t].key] = Absent
            /\ mine' = [mine EXCEPT ![t] = @ \cup {"listing"}]
            /\ UNCHANGED <<tables, raw>>
        BY <2>5, <3>2 DEF InsertListing
      <4>2. CASE s = t
        BY <4>1, <4>2, <2>5
      <4>3. CASE s # t
        BY <4>1, <4>3, <1>1 DEF TypeOK
      <4>4. QED
        BY <4>2, <4>3
    <3>3. QED
      BY <3>1, <3>2
  <2>6. ASSUME NEW t \in Scrapers, BeginScraped(t)
        PROVE  "listing" \in mine[s] /\ raw'[s] = raw[s]
    BY <2>1, <2>6 DEF BeginScraped, Sessions
  <2>7. ASSUME NEW t \in Manuals, BeginManual(t)
        PROVE  "listing" \in mine[s] /\ raw'[s] = raw[s]
    BY <2>1, <2>7 DEF BeginManual, Sessions
  <2>8. ASSUME NEW t \in Sessions, FindProperty(t) \/ FindListing(t)
        PROVE  "listing" \in mine[s] /\ raw'[s] = raw[s]
    BY <1>1, <2>8 DEF FindProperty, FindListing
  <2>9. ASSUME NEW t \in Sessions, Finish(t) \/ Answer(t) \/ Abort(t)
        PROVE  "listing" \in mine[s] /\ raw'[s] = raw[s]
    BY <2>2, <2>9 DEF Finish, Commit, Answer, Abort, Rollback
  <2>10. CASE UNCHANGED vars
    BY <1>1, <2>10 DEF vars, work
  <2>11. QED
    BY <2>3, <2>4, <2>5, <2>6, <2>7, <2>8, <2>9, <2>10 DEF Next, Statement
<1>2. ASSUME NEW s \in Sessions, "listing" \in mine'[s]
      PROVE  listings'[raw'[s].key] = Absent
  <2>1. CASE UNCHANGED tables
    BY <1>1, <1>2, <2>1 DEF Locks, tables
  <2>2. ASSUME NEW t \in Sessions, pc[t] = "commit", Commit(t)
        PROVE  listings'[raw'[s].key] = Absent
    <3>1. s # t
      BY <1>2, <2>2 DEF Commit, End, TypeOK
    <3>2. "listing" \in mine[s] /\ raw'[s] = raw[s]
      BY <1>2, <2>2, <3>1 DEF Commit, End, TypeOK
    <3>3. raw[t].key # raw[s].key
      BY <2>2, <3>1, <3>2 DEF Locks, Memory, Flow
    <3>4. QED
      BY <2>2, <3>2, <3>3 DEF Commit, Locks, TypeOK
  <2>3. QED
    BY <2>1, <2>2, OnlyCommitWrites
<1>3. ASSUME NEW s \in Sessions, "listing" \in mine'[s],
             NEW t \in Sessions \ {s}, "listing" \in mine'[t]
      PROVE  raw'[t].key # raw'[s].key
  <2>1. CASE "listing" \in mine[s] /\ raw'[s] = raw[s] /\ "listing" \in mine[t] /\ raw'[t] = raw[t]
    BY <2>1 DEF Locks
  <2>2. CASE InsertListing(s) /\ ~ListingHeld(s) /\ UNCHANGED raw
    <3>1. "listing" \in mine[t]
      BY <1>3, <2>2 DEF InsertListing, TypeOK, Rollback, End
    <3>2. QED
      BY <2>2, <3>1 DEF ListingHeld
  <2>3. CASE InsertListing(t) /\ ~ListingHeld(t) /\ UNCHANGED raw
    <3>1. "listing" \in mine[s]
      BY <1>3, <2>3 DEF InsertListing, TypeOK, Rollback, End
    <3>2. QED
      BY <2>3, <3>1 DEF ListingHeld
  <2>4. QED
    BY <1>1, <1>3, <2>1, <2>2, <2>3
<1>4. QED
  BY <1>2, <1>3 DEF Locks

(* At the commit, seen tells whether the row is inserted or updated. *)
LEMMA InsertOrUpdate ==
    ASSUME TypeOK, Flow, Locks, Memory, NEW s \in Sessions, pc[s] = "commit"
    PROVE  seen[s] = Absent <=> listings[raw[s].key] = Absent
BY DEF Flow, Locks, Memory

(* A price that a commit stores is the last one of the history it stores:    *)
(* either both come from this session, or neither.                           *)
LEMMA HistoryPreserved ==
    ASSUME TypeOK, TypeOK', Flow, Locks, Memory, HistoryTracksPrice, [Next]_vars
    PROVE  HistoryTracksPrice'
<1>1. CASE UNCHANGED tables
  BY <1>1 DEF HistoryTracksPrice, tables
<1>2. ASSUME NEW s \in Sessions, pc[s] = "commit", Commit(s) PROVE HistoryTracksPrice'
  <2> DEFINE k == raw[s].key
             h == NewHistory(s)
             row == NewRow(s)
  <2>1. k \in AllKeys /\ raw[s] \in Raws /\ row \in Rows /\ h \in Seq(Prices)
    BY <1>2, WriteTypes DEF Memory, Idle
  <2>2. history[k] \in Seq(Prices)
    BY <2>1 DEF TypeOK
  <2>3. PriceChanged(s) => raw[s].price \in Prices
    BY <2>1 DEF PriceChanged, Raws
  <2>4. PriceChanged(s) => h # <<>> /\ h[Len(h)] = raw[s].price
    BY <2>2, <2>3 DEF NewHistory
  <2>5. ~PriceChanged(s) => h = history[k]
    BY DEF NewHistory
  <2>6. row.price # NoPrice => h # <<>> /\ h[Len(h)] = row.price
    <3>1. CASE seen[s] = Absent
      <4>1. row.price = raw[s].price
        BY <3>1 DEF NewRow
      <4>2. row.price # NoPrice => PriceChanged(s)
        BY <3>1, <4>1 DEF PriceChanged, PreviousPrice
      <4>3. QED
        BY <4>1, <4>2, <2>4
    <3>2. CASE seen[s] # Absent /\ raw[s].price = seen[s].price
      <4>1. row.price = listings[k].price /\ ~PriceChanged(s)
        BY <3>2 DEF NewRow, PriceChanged, PreviousPrice
      <4>2. listings[k] # Absent
        BY <3>2, <1>2, InsertOrUpdate
      <4>3. QED
        BY <4>1, <4>2, <2>1, <2>5 DEF HistoryTracksPrice
    <3>3. CASE seen[s] # Absent /\ raw[s].price # seen[s].price
      <4>1. row.price = raw[s].price
        BY <3>3 DEF NewRow
      <4>2. row.price # NoPrice => PriceChanged(s)
        BY <3>3, <4>1 DEF PriceChanged, PreviousPrice
      <4>3. QED
        BY <4>1, <4>2, <2>4
    <3>4. QED
      BY <3>1, <3>2, <3>3
  <2>7. /\ listings' = [listings EXCEPT ![k] = row]
        /\ history' = [history EXCEPT ![k] = h]
    BY <1>2 DEF Commit
  <2> HIDE DEF k, h, row
  <2>8. QED
    BY <2>1, <2>6, <2>7 DEF HistoryTracksPrice, TypeOK
<1>3. QED
  BY <1>1, <1>2, OnlyCommitWrites

(* The detail row comes with the listing, in one commit. *)
LEMMA DetailsPreserved ==
    ASSUME TypeOK, TypeOK', Flow, Locks, Memory, DetailsMatch, [Next]_vars
    PROVE  DetailsMatch'
<1>1. CASE UNCHANGED tables
  BY <1>1 DEF DetailsMatch, tables
<1>2. ASSUME NEW s \in Sessions, pc[s] = "commit", Commit(s), NEW k \in Keys
      PROVE  k \in details' <=> listings'[k] # Absent /\ KindOf[k] # "common"
  <2>1. raw[s].key \in AllKeys /\ NewRow(s) # Absent
    BY <1>2, WriteTypes, AbsentAssumption DEF Memory, Idle
  <2>2. CASE k # raw[s].key
    BY <1>2, <2>1, <2>2 DEF Commit, NewDetails, DetailsMatch, TypeOK
  <2>3. CASE k = raw[s].key
    <3>1. s \in Scrapers /\ raw[s].kind = KindOf[k]
      BY <1>2, <2>3 DEF Flow, Idle
    <3>2. listings'[k] # Absent
      BY <1>2, <2>1, <2>3 DEF Commit, TypeOK
    <3>3. "detail" \in mine[s] <=> KindOf[k] # "common" /\ listings[k] = Absent
      BY <1>2, <2>3, <3>1, InsertOrUpdate DEF Flow, HasDetail
    <3>4. k \in details' <=> k \in details \/ "detail" \in mine[s]
      BY <1>2, <2>3 DEF Commit, NewDetails
    <3>5. QED
      BY <3>2, <3>3, <3>4 DEF DetailsMatch
  <2>4. QED
    BY <2>2, <2>3
<1>3. QED
  BY <1>1, <1>2, OnlyCommitWrites DEF DetailsMatch

(***************************************************************************)
(* The theorems.                                                           *)
(***************************************************************************)

(* The invariant holds at the start, with empty tables and idle sessions. *)
LEMMA InitInv == Init => TypeOK /\ IInv
<1> SUFFICES ASSUME Init PROVE TypeOK /\ IInv
  OBVIOUS
<1>1. TypeOK
  BY DEF Init, TypeOK, Labels, Results, Idle
<1>2. IInv
  BY DEF Init, IInv, Flow, Locks, Memory, DetailsMatch, HistoryTracksPrice, Idle, AllKeys
<1>3. QED
  BY <1>1, <1>2

(* Every step of a session preserves the invariant. *)
LEMMA StepInv == TypeOK /\ IInv /\ [Next]_vars => TypeOK' /\ IInv'
<1> SUFFICES ASSUME TypeOK, IInv, [Next]_vars PROVE TypeOK' /\ IInv'
  OBVIOUS
<1>1. TypeOK'
  BY TypePreserved DEF IInv, Memory
<1>2. Flow'
  BY <1>1, FlowPreserved DEF IInv
<1>3. Locks' /\ Memory' /\ DetailsMatch' /\ HistoryTracksPrice'
  BY <1>1, <1>2, LocksPreserved, MemoryPreserved, DetailsPreserved, HistoryPreserved DEF IInv
<1>4. QED
  BY <1>1, <1>2, <1>3 DEF IInv

(* The invariant holds in every reachable state. *)
THEOREM Invariance == Spec => [](TypeOK /\ IInv)
BY InitInv, StepInv, PTL DEF Spec

(* Type correctness: no interleaving of statements, rollbacks and crashes    *)
(* takes a table or a session out of its type.                               *)
THEOREM TypeCorrect == Spec => []TypeOK
BY Invariance, PTL

(* Whatever processes race on a listing, the price shown is the last price   *)
(* captured: persist_raw_listing keeps price_history in step.                *)
THEOREM HistoryCorrect == Spec => []HistoryTracksPrice
<1>1. IInv => HistoryTracksPrice
  BY DEF IInv
<1>2. QED
  BY <1>1, Invariance, PTL

(* Detail rows exist exactly for the listings of banks and auctions, and     *)
(* their insert never meets a rival.                                         *)
THEOREM DetailsCorrect == Spec => []DetailsWithListing
<1>1. TypeOK /\ IInv => DetailsWithListing
  <2> SUFFICES ASSUME TypeOK, IInv PROVE DetailsWithListing
    OBVIOUS
  <2>1. ASSUME NEW s \in Sessions, pc[s] = "commit", DetailConflict(s) PROVE FALSE
    <3>1. HasDetail(s) /\ seen[s] = Absent /\ raw[s].key \in details
      BY <2>1 DEF IInv, Flow, DetailConflict
    <3>2. listings[raw[s].key] = Absent
      BY <2>1, <3>1, InsertOrUpdate DEF IInv
    <3>3. raw[s].key \in Keys
      BY <2>1, <3>1 DEF IInv, Flow, HasDetail, Idle
    <3>4. QED
      BY <3>1, <3>2, <3>3 DEF IInv, DetailsMatch
  <2>2. QED
    BY <2>1 DEF DetailsWithListing, IInv, DetailsMatch
<1>2. QED
  BY <1>1, Invariance, PTL

-----------------------------------------------------------------------------
(***************************************************************************)
(* Action properties.                                                      *)
(***************************************************************************)

(* No two pending inserts of one property, and none of a committed one. *)
PropertyLocks ==
    \A s \in Sessions : "property" \in mine[s] =>
        /\ ~Idle(s)
        /\ category[FpOf(s)] = Absent
        /\ \A t \in Sessions \ {s} : "property" \in mine[t] => FpOf(t) # FpOf(s)

(* A pending insert of a property is kept, or has just been made.            *)
LEMMA PropertyHeldSince ==
    ASSUME TypeOK, PropertyLocks, [Next]_vars, NEW s \in Sessions, "property" \in mine'[s]
    PROVE  \/ "property" \in mine[s] /\ raw'[s] = raw[s]
           \/ /\ InsertProperty(s) /\ ~PropertyHeld(s) /\ category[FpOf(s)] = Absent
              /\ mine' = [mine EXCEPT ![s] = @ \cup {"property"}]
              /\ UNCHANGED <<tables, raw>>
<1>1. ASSUME NEW t \in Sessions, NEW r, Start(t, r)
      PROVE  "property" \in mine[s] /\ raw'[s] = raw[s]
  BY <1>1 DEF Start, TypeOK, PropertyLocks, LoopFree, Idle
<1>2. ASSUME NEW t \in Sessions, NEW how, End(t, how)
      PROVE  "property" \in mine[s] /\ raw'[s] = raw[s]
  BY <1>2 DEF End, TypeOK
<1>3. ASSUME NEW t \in Sessions, InsertProperty(t), ~Rollback(t)
      PROVE  \/ "property" \in mine[s] /\ raw'[s] = raw[s]
             \/ /\ InsertProperty(s) /\ ~PropertyHeld(s) /\ category[FpOf(s)] = Absent
                /\ mine' = [mine EXCEPT ![s] = @ \cup {"property"}]
                /\ UNCHANGED <<tables, raw>>
  <2>1. /\ ~PropertyHeld(t) /\ category[FpOf(t)] = Absent
        /\ mine' = [mine EXCEPT ![t] = @ \cup {"property"}]
        /\ UNCHANGED <<tables, raw>>
    BY <1>3 DEF InsertProperty
  <2>2. CASE s = t
    BY <2>1, <2>2, <1>3
  <2>3. CASE s # t
    BY <2>1, <2>3 DEF TypeOK
  <2>4. QED
    BY <2>2, <2>3
<1>4. ASSUME NEW t \in Sessions, InsertListing(t), ~Rollback(t)
      PROVE  "property" \in mine[s] /\ raw'[s] = raw[s]
  <2>1. mine' = [mine EXCEPT ![t] = @ \cup {"listing"}] /\ UNCHANGED raw
    BY <1>4 DEF InsertListing
  <2>2. QED
    BY <2>1 DEF TypeOK
<1>5. ASSUME NEW t \in Sessions, FindDetail(t)
      PROVE  "property" \in mine[s] /\ raw'[s] = raw[s]
  BY <1>5 DEF FindDetail, TypeOK
<1>6. ASSUME NEW t \in Scrapers, BeginScraped(t)
      PROVE  "property" \in mine[s] /\ raw'[s] = raw[s]
  BY <1>1, <1>6 DEF BeginScraped, Sessions
<1>7. ASSUME NEW t \in Manuals, BeginManual(t)
      PROVE  "property" \in mine[s] /\ raw'[s] = raw[s]
  BY <1>1, <1>7 DEF BeginManual, Sessions
<1>8. ASSUME NEW t \in Sessions, FindProperty(t) \/ FindListing(t)
      PROVE  "property" \in mine[s] /\ raw'[s] = raw[s]
  BY <1>8 DEF FindProperty, FindListing
<1>9. ASSUME NEW t \in Sessions, Finish(t) \/ Answer(t) \/ Rollback(t)
      PROVE  "property" \in mine[s] /\ raw'[s] = raw[s]
  BY <1>2, <1>9 DEF Finish, Commit, Answer, Rollback
<1>10. CASE UNCHANGED vars
  BY <1>10 DEF vars, work
<1>11. QED
  BY <1>3, <1>4, <1>5, <1>6, <1>7, <1>8, <1>9, <1>10 DEF Next, Statement, Abort

(* The unique index on the fingerprint keeps the property of a pending       *)
(* insert absent until that insert commits.                                  *)
LEMMA PropertyLocksPreserved ==
    ASSUME TypeOK, TypeOK', Flow, Flow', Memory, PropertyLocks, [Next]_vars
    PROVE  PropertyLocks'
<1>1. ASSUME NEW s \in Sessions, "property" \in mine'[s] PROVE ~Idle(s)'
  <2>1. raw'[s] # Absent
    <3>1. CASE raw'[s] = raw[s] /\ "property" \in mine[s]
      BY <3>1 DEF PropertyLocks, Flow
    <3>2. CASE InsertProperty(s) /\ UNCHANGED raw
      BY <3>2 DEF InsertProperty, Flow, Idle
    <3>3. QED
      BY <3>1, <3>2, <1>1, PropertyHeldSince
  <2>2. QED
    BY <2>1 DEF Flow
<1>2. ASSUME NEW s \in Sessions, "property" \in mine'[s] PROVE category'[FpOf(s)'] = Absent
  <2>1. CASE UNCHANGED tables
    BY <1>2, <2>1, PropertyHeldSince DEF PropertyLocks, tables, FpOf
  <2>2. ASSUME NEW t \in Sessions, pc[t] = "commit", Commit(t)
        PROVE  category'[FpOf(s)'] = Absent
    <3>1. s # t
      BY <1>2, <2>2 DEF Commit, End, TypeOK
    <3>2. "property" \in mine[s] /\ raw'[s] = raw[s]
      BY <2>2, <3>1, <1>2 DEF Commit, End, TypeOK
    <3>3. category[FpOf(s)] = Absent /\ FpOf(s)' = FpOf(s)
      BY <3>2 DEF PropertyLocks, FpOf
    <3>4. FpOf(t) = FpOf(s) => NewCategory(t) = category[FpOf(s)]
      BY <3>1, <3>2 DEF PropertyLocks, NewCategory
    <3>5. QED
      BY <2>2, <3>3, <3>4 DEF Commit, TypeOK
  <2>3. QED
    BY <2>1, <2>2, OnlyCommitWrites
<1>3. ASSUME NEW s \in Sessions, "property" \in mine'[s],
             NEW t \in Sessions \ {s}, "property" \in mine'[t]
      PROVE  FpOf(t)' # FpOf(s)'
  <2>1. CASE "property" \in mine[s] /\ raw'[s] = raw[s] /\ "property" \in mine[t] /\ raw'[t] = raw[t]
    BY <2>1 DEF PropertyLocks, FpOf
  <2>2. CASE /\ ~PropertyHeld(s) /\ UNCHANGED raw
             /\ mine' = [mine EXCEPT ![s] = @ \cup {"property"}]
    <3>1. "property" \in mine[t]
      BY <1>3, <2>2 DEF TypeOK
    <3>2. QED
      BY <2>2, <3>1 DEF PropertyHeld, FpOf
  <2>3. CASE /\ ~PropertyHeld(t) /\ UNCHANGED raw
             /\ mine' = [mine EXCEPT ![t] = @ \cup {"property"}]
    <3>1. "property" \in mine[s]
      BY <1>3, <2>3 DEF TypeOK
    <3>2. QED
      BY <2>3, <3>1 DEF PropertyHeld, FpOf
  <2>4. QED
    BY <1>3, <2>1, <2>2, <2>3, PropertyHeldSince
<1>4. QED
  BY <1>1, <1>2, <1>3 DEF PropertyLocks

(* Tables only grow: rows stay, a history gains one price at its end, and a  *)
(* property keeps the category it was inserted with.                         *)
THEOREM GrowthCorrect == Spec => TablesOnlyGrow
<1>1. Init => PropertyLocks
  BY DEF Init, PropertyLocks
<1>2. (TypeOK /\ IInv) /\ (TypeOK /\ IInv)' /\ PropertyLocks /\ [Next]_vars => PropertyLocks'
  BY PropertyLocksPreserved DEF IInv
<1>3. TypeOK /\ IInv /\ (TypeOK /\ IInv)' /\ PropertyLocks /\ [Next]_vars => [OnlyAdds]_vars
  <2> SUFFICES ASSUME TypeOK, IInv, TypeOK', IInv', PropertyLocks, [Next]_vars
               PROVE  OnlyAdds
    OBVIOUS
  <2>1. ASSUME NEW k \in AllKeys, listings[k] # Absent PROVE listings'[k] # Absent
    BY <2>1, RowsStay DEF IInv
  <2>2. CASE UNCHANGED tables
    BY <2>1, <2>2 DEF OnlyAdds, tables
  <2>3. ASSUME NEW s \in Sessions, pc[s] = "commit", Commit(s) PROVE OnlyAdds
    <3>1. raw[s].key \in AllKeys /\ raw[s] \in Raws /\ FpOf(s) \in Fingerprints
      BY <2>3, WriteTypes DEF IInv, Memory, Idle
    <3>2. ASSUME NEW k \in AllKeys
          PROVE history'[k] = history[k] \/ \E p \in Prices : history'[k] = Append(history[k], p)
      BY <2>3, <3>1 DEF Commit, NewHistory, PriceChanged, TypeOK, Raws
    <3>3. ASSUME NEW fp \in Fingerprints, category[fp] # Absent
          PROVE  category'[fp] = category[fp]
      BY <2>3, <3>1, <3>3 DEF Commit, NewCategory, PropertyLocks, TypeOK
    <3>4. details \subseteq details'
      BY <2>3 DEF Commit, NewDetails
    <3>5. QED
      BY <2>1, <3>2, <3>3, <3>4 DEF OnlyAdds
  <2>4. QED
    BY <2>2, <2>3, OnlyCommitWrites
<1>4. QED
  BY <1>1, <1>2, <1>3, Invariance, PTL DEF Spec, TablesOnlyGrow

(* A transaction reports "new" exactly when it created the listing, however  *)
(* many sessions persist the same one.                                       *)
THEOREM NewCorrect == Spec => NewIsNew
<1>1. TypeOK /\ IInv /\ [Next]_vars => [NewMeansCreated]_vars
  <2> SUFFICES ASSUME TypeOK, IInv, [Next]_vars, NEW s \in Sessions, ~Idle(s), Idle(s)'
               PROVE  result'[s] = "new" <=> listings[raw[s].key] = Absent
                                             /\ listings'[raw[s].key] # Absent
    BY DEF NewMeansCreated
  <2>1. ASSUME NEW t \in Sessions, NEW label, label # "idle", Goto(t, label) PROVE FALSE
    BY <2>1 DEF Goto, TypeOK, Idle
  <2>2. ASSUME NEW t \in Sessions, NEW how, End(t, how) PROVE t = s
    BY <2>2 DEF End, Goto, TypeOK, Idle
  <2>3. ASSUME NEW t \in Sessions, NEW how, End(t, how), how # "new", UNCHANGED tables
        PROVE  result'[s] # "new" /\ UNCHANGED listings
    BY <2>2, <2>3 DEF End, TypeOK, tables
  <2>4. ASSUME NEW t \in Sessions, Commit(t), pc[t] = "commit"
        PROVE  result'[s] = "new" <=> listings[raw[s].key] = Absent
                                      /\ listings'[raw[s].key] # Absent
    <3>1. t = s
      BY <2>2, <2>4 DEF Commit
    <3>2. NewRow(s) # Absent /\ raw[s].key \in AllKeys
      BY <2>4, <3>1, WriteTypes, AbsentAssumption DEF IInv, Memory, Idle
    <3>3. listings'[raw[s].key] # Absent
      BY <2>4, <3>1, <3>2 DEF Commit, TypeOK
    <3>4. result'[s] = "new" <=> seen[s] = Absent
      BY <2>4, <3>1 DEF Commit, End, TypeOK
    <3>5. QED
      BY <2>4, <3>1, <3>3, <3>4, InsertOrUpdate DEF IInv
  <2>5. ASSUME NEW t \in Sessions, NEW r, Start(t, r) PROVE FALSE
    BY <2>5 DEF Start, TypeOK, Idle
  <2>6. ASSUME NEW t \in Scrapers PROVE ~BeginScraped(t)
    BY <2>5 DEF BeginScraped, Sessions
  <2>7. ASSUME NEW t \in Manuals PROVE ~BeginManual(t)
    BY <2>5 DEF BeginManual, Sessions
  <2>8. ASSUME NEW t \in Sessions PROVE ~FindProperty(t)
    BY <2>1 DEF FindProperty
  <2>9. ASSUME NEW t \in Sessions PROVE ~FindListing(t) /\ ~FindDetail(t)
    BY <2>1 DEF FindListing, FindDetail, AfterListing
  <2>10. ASSUME NEW t \in Sessions, InsertProperty(t) \/ InsertListing(t) PROVE Rollback(t)
    BY <2>1, <2>10 DEF InsertProperty, InsertListing, AfterListing
  <2>11. CASE \E t \in Sessions : Rollback(t) \/ Answer(t)
    BY <2>3, <2>11 DEF Rollback, Answer
  <2>12. UNCHANGED vars => FALSE
    BY DEF vars, work, Idle
  <2>13. \E t \in Sessions : Statement(t) \/ Abort(t)
    BY <2>6, <2>7, <2>12 DEF Next
  <2>14. \E t \in Sessions : Rollback(t) \/ Answer(t) \/ (pc[t] = "commit" /\ Commit(t))
    BY <2>8, <2>9, <2>10, <2>13 DEF Statement, Finish, Abort
  <2>15. QED
    BY <2>4, <2>11, <2>14
<1>2. QED
  BY <1>1, Invariance, PTL DEF NewIsNew, Spec
=============================================================================
