------------------------- MODULE IngestionLoopProofs -------------------------
(***************************************************************************)
(* Theorems about Ingestion when one event loop does all the writing, as   *)
(* when the API alone runs: the jobs it schedules and the manual endpoint  *)
(* share its loop.  Two processes that read one price both record its      *)
(* change, and a stale read can mix the property of one with the price of  *)
(* the other, so each theorem has SingleLoop as its hypothesis.            *)
(***************************************************************************)
EXTENDS IngestionProofs

SingleLoop == \A s, t \in Sessions : LoopOf[s] = LoopOf[t]

(* Neither routine awaits: only one is under way. *)
OneAtATime == \A s, t \in Sessions : ~Idle(s) /\ ~Idle(t) => s = t

(* The row a session read is the row that is stored. *)
Fresh == \A s \in Sessions : seen[s] # Absent => seen[s] = listings[raw[s].key]

(* Past the property, it exists or is about to. *)
Claimed ==
    \A s \in Sessions :
        pc[s] \in {"findListing", "insertListing", "findDetail", "commit"} =>
            "property" \in mine[s] \/ category[FpOf(s)] # Absent

(* A manual registration creates both of its rows, or answers with old ones. *)
Registers ==
    \A s \in Manuals :
        /\ seen[s] = Absent
        /\ ~Idle(s) => /\ raw[s].key = ManualKey(FpOf(s))
                       /\ raw[s].price \in Prices
                       /\ pc[s] # "findListing"
        /\ pc[s] \in {"insertListing", "commit"} => "property" \in mine[s]

LoopInv == PropertyLocks /\ OneAtATime /\ Fresh /\ Claimed /\ Registers

-----------------------------------------------------------------------------
(***************************************************************************)
(* The inductive invariant, one lemma per part.                            *)
(***************************************************************************)

(* A statement or a crash is of a session under way, and leaves the control  *)
(* of the others alone.                                                      *)
LEMMA OneMoves ==
    ASSUME TypeOK, NEW s \in Sessions, Statement(s) \/ Abort(s)
    PROVE  /\ ~Idle(s)
           /\ \A t \in Sessions \ {s} : /\ pc'[t] = pc[t] /\ raw'[t] = raw[t]
                                        /\ seen'[t] = seen[t] /\ mine'[t] = mine[t]
<1>1. ASSUME NEW how, End(s, how)
      PROVE  \A t \in Sessions \ {s} : /\ pc'[t] = pc[t] /\ raw'[t] = raw[t]
                                       /\ seen'[t] = seen[t] /\ mine'[t] = mine[t]
  BY <1>1 DEF End, Goto, TypeOK
<1>2. CASE Rollback(s) /\ ~Idle(s)
  BY <1>1, <1>2 DEF Rollback
<1>3. CASE FindProperty(s)
  BY <1>3 DEF FindProperty, Goto, TypeOK, Idle
<1>4. CASE InsertProperty(s)
  BY <1>4, <1>2 DEF InsertProperty, Goto, TypeOK, Idle
<1>5. CASE FindListing(s)
  BY <1>5 DEF FindListing, Goto, TypeOK, Idle
<1>6. CASE InsertListing(s)
  BY <1>6, <1>2 DEF InsertListing, Goto, TypeOK, Idle
<1>7. CASE FindDetail(s)
  BY <1>7 DEF FindDetail, Goto, TypeOK, Idle
<1>8. CASE Finish(s)
  BY <1>8, <1>1, <1>2 DEF Finish, Commit, Idle
<1>9. CASE Answer(s)
  BY <1>9, <1>1 DEF Answer, Idle
<1>10. QED
  BY <1>2, <1>3, <1>4, <1>5, <1>6, <1>7, <1>8, <1>9 DEF Statement, Abort

(* What a step is: a routine starts on an idle loop, or the one under way    *)
(* moves.                                                                    *)
LEMMA StartOrMove ==
    ASSUME [Next]_vars
    PROVE  \/ \E s \in Scrapers : BeginScraped(s)
           \/ \E s \in Manuals : BeginManual(s)
           \/ \E s \in Sessions : Statement(s) \/ Abort(s)
           \/ UNCHANGED vars
BY DEF Next

(* A routine starts only when none is under way, and no step but a start     *)
(* makes a session busy.                                                     *)
LEMMA OneAtATimePreserved ==
    ASSUME SingleLoop, TypeOK, OneAtATime, [Next]_vars
    PROVE  OneAtATime'
<1>1. ASSUME NEW s \in Sessions, NEW r, Start(s, r) PROVE OneAtATime'
  <2>1. \A t \in Sessions : Idle(t)
    BY <1>1 DEF Start, LoopFree, SingleLoop
  <2>2. \A t \in Sessions \ {s} : Idle(t)'
    BY <1>1, <2>1 DEF Start, Idle, TypeOK
  <2>3. QED
    BY <2>2 DEF OneAtATime
<1>2. ASSUME NEW s \in Sessions, Statement(s) \/ Abort(s) PROVE OneAtATime'
  <2>1. \A t \in Sessions : ~Idle(t)' => ~Idle(t)
    BY <1>2, OneMoves DEF Idle
  <2>2. QED
    BY <2>1 DEF OneAtATime
<1>3. CASE UNCHANGED vars
  BY <1>3 DEF vars, work, OneAtATime, Idle
<1>4. QED
  BY <1>1, <1>2, <1>3, StartOrMove DEF BeginScraped, BeginManual, Sessions

(* Nobody writes between a read and the commit that relies on it.            *)
LEMMA FreshPreserved ==
    ASSUME TypeOK, Flow, OneAtATime, Fresh, [Next]_vars
    PROVE  Fresh'
<1> SUFFICES ASSUME NEW s \in Sessions, seen'[s] # Absent
             PROVE  seen'[s] = listings'[raw'[s].key]
  BY DEF Fresh
<1>1. CASE FindListing(s)
  BY <1>1 DEF FindListing, TypeOK, tables
<1>2. CASE seen'[s] = seen[s] /\ raw'[s] = raw[s]
  <2>1. seen[s] = listings[raw[s].key] /\ ~Idle(s)
    BY <1>2 DEF Fresh, Flow, Idle
  <2>2. ASSUME NEW t \in Sessions, pc[t] = "commit", Commit(t) PROVE FALSE
    BY <2>1, <2>2, <1>2 DEF OneAtATime, Idle, Commit, End, TypeOK
  <2>3. UNCHANGED tables
    BY <2>2, OnlyCommitWrites
  <2>4. QED
    BY <1>2, <2>1, <2>3 DEF tables
<1>3. QED
  BY <1>1, <1>2, SeenSince

(* A routine goes past the property once it found it or inserted it.         *)
LEMMA ClaimedPreserved ==
    ASSUME TypeOK, Flow, OneAtATime, PropertyLocks, Claimed, [Next]_vars
    PROVE  Claimed'
<1> DEFINE Past == {"findListing", "insertListing", "findDetail", "commit"}
<1> SUFFICES ASSUME NEW s \in Sessions, pc'[s] \in Past
             PROVE  "property" \in mine'[s] \/ category'[FpOf(s)'] # Absent
  BY DEF Claimed
<1>1. ASSUME NEW t \in Sessions, NEW r, Start(t, r)
      PROVE  "property" \in mine'[s] \/ category'[FpOf(s)'] # Absent
  <2>1. s # t /\ pc[s] \in Past /\ raw'[s] = raw[s] /\ mine'[s] = mine[s] /\ category' = category
    BY <1>1 DEF Start, TypeOK, tables
  <2>2. QED
    BY <2>1 DEF Claimed, FpOf
<1>2. ASSUME NEW t \in Sessions, Statement(t) \/ Abort(t), t # s
      PROVE  "property" \in mine'[s] \/ category'[FpOf(s)'] # Absent
  BY <1>2, OneMoves DEF OneAtATime, Idle
<1>3. ASSUME NEW how, End(s, how) PROVE FALSE
  BY <1>3 DEF End, Goto, TypeOK
<1>4. CASE FindProperty(s)
  BY <1>4 DEF FindProperty, Goto, TypeOK, FpOf, tables
<1>5. CASE InsertProperty(s)
  BY <1>5, <1>3 DEF InsertProperty, Rollback, TypeOK
<1>6. ASSUME pc[s] \in Past, raw' = raw, category' = category, mine[s] \subseteq mine'[s]
      PROVE  "property" \in mine'[s] \/ category'[FpOf(s)'] # Absent
  BY <1>6 DEF Claimed, FpOf
<1>7. CASE FindListing(s)
  BY <1>7, <1>6 DEF FindListing, tables
<1>8. CASE InsertListing(s)
  BY <1>8, <1>3, <1>6 DEF InsertListing, Rollback, TypeOK, tables
<1>9. CASE FindDetail(s)
  BY <1>9, <1>6 DEF FindDetail, TypeOK, tables
<1>10. ~Finish(s) /\ ~Answer(s) /\ ~Abort(s)
  BY <1>3 DEF Finish, Commit, Answer, Abort, Rollback
<1>11. CASE UNCHANGED vars
  BY <1>11 DEF vars, work, tables, Claimed, FpOf
<1>12. QED
  BY <1>1, <1>2, <1>4, <1>5, <1>7, <1>8, <1>9, <1>10, <1>11, StartOrMove
     DEF BeginScraped, BeginManual, Sessions, Statement

(* A manual registration keeps its payload, and inserts a listing only for   *)
(* a property it inserted.                                                   *)
LEMMA RegistersPreserved ==
    ASSUME TypeOK, Flow, PropertyLocks, Registers, [Next]_vars
    PROVE  Registers'
<1> DEFINE Of(s) ==
             /\ seen[s] = Absent
             /\ ~Idle(s) => /\ raw[s].key = ManualKey(FpOf(s))
                            /\ raw[s].price \in Prices
                            /\ pc[s] # "findListing"
             /\ pc[s] \in {"insertListing", "commit"} => "property" \in mine[s]
<1> SUFFICES ASSUME NEW s \in Manuals PROVE Of(s)'
  BY DEF Registers
<1>1. s \in Sessions /\ s \notin Scrapers /\ Of(s)
  BY SessionsAssumption DEF Registers, Sessions
<1>2. ASSUME pc'[s] = pc[s], raw'[s] = raw[s], seen'[s] = seen[s], mine'[s] = mine[s]
      PROVE  Of(s)'
  BY <1>1, <1>2 DEF Idle, FpOf
<1>3. ASSUME NEW how, End(s, how) PROVE Of(s)'
  BY <1>3, <1>1 DEF End, Goto, TypeOK, Idle
<1>4. CASE FindProperty(s)
  BY <1>4, <1>1 DEF FindProperty, Goto, TypeOK, Idle, FpOf
<1>5. CASE InsertProperty(s)
  BY <1>5, <1>1, <1>3 DEF InsertProperty, Rollback, Goto, TypeOK, Idle, FpOf
<1>6. ~FindListing(s)
  BY <1>1 DEF FindListing, Idle
<1>7. CASE InsertListing(s)
  BY <1>7, <1>1, <1>3 DEF InsertListing, AfterListing, HasDetail, Rollback, Goto, TypeOK, Idle, FpOf
<1>8. ~FindDetail(s)
  BY <1>1 DEF FindDetail, Flow, HasDetail
<1>9. CASE Finish(s) \/ Answer(s) \/ Abort(s)
  BY <1>9, <1>3 DEF Finish, Commit, Answer, Abort, Rollback
<1>10. ASSUME NEW t \in Sessions \ {s}, Statement(t) \/ Abort(t) PROVE Of(s)'
  BY <1>10, <1>2, <1>1, OneMoves
<1>11. ASSUME NEW t \in Scrapers, BeginScraped(t) PROVE Of(s)'
  <2>1. t # s /\ t \in Sessions
    BY <1>1, <1>11 DEF Sessions
  <2>2. QED
    BY <1>11, <1>2, <1>1, <2>1 DEF BeginScraped, Start, TypeOK
<1>12. ASSUME NEW t \in Manuals, BeginManual(t) PROVE Of(s)'
  <2>1. PICK h \in Homes, p \in Prices, c \in Kinds :
           Start(t, [key |-> ManualKey(Fingerprint(h, p)), home |-> h, price |-> p, kind |-> c])
    BY <1>12 DEF BeginManual
  <2>2. CASE t # s
    BY <2>1, <2>2, <1>2, <1>1 DEF Start, TypeOK, Sessions
  <2>3. CASE t = s
    <3>1. /\ raw'[s] = [key |-> ManualKey(Fingerprint(h, p)), home |-> h, price |-> p, kind |-> c]
          /\ pc'[s] = "findProperty" /\ seen'[s] = Absent
      BY <2>1, <2>3, <1>1 DEF Start, TypeOK
    <3>2. QED
      BY <3>1 DEF FpOf
  <2>4. QED
    BY <2>2, <2>3
<1>13. CASE UNCHANGED vars
  BY <1>13, <1>2 DEF vars, work
<1>14. QED
  BY <1>4, <1>5, <1>6, <1>7, <1>8, <1>9, <1>10, <1>11, <1>12, <1>13, <1>1, StartOrMove DEF Statement

(* One loop has the whole invariant in every reachable state.                *)
THEOREM LoopInvariance ==
    ASSUME SingleLoop
    PROVE  Spec => [](TypeOK /\ IInv /\ LoopInv)
<1>1. Init => LoopInv
  <2> SUFFICES ASSUME Init PROVE LoopInv
    OBVIOUS
  <2>1. QED
    BY DEF Init, LoopInv, PropertyLocks, OneAtATime, Fresh, Claimed, Registers, Idle, Sessions
<1>2. TypeOK /\ IInv /\ (TypeOK /\ IInv)' /\ LoopInv /\ [Next]_vars => LoopInv'
  BY PropertyLocksPreserved, OneAtATimePreserved, FreshPreserved, ClaimedPreserved,
     RegistersPreserved DEF IInv, LoopInv
<1>3. QED
  BY <1>1, <1>2, Invariance, PTL DEF Spec

-----------------------------------------------------------------------------
(***************************************************************************)
(* What a commit writes.                                                   *)
(***************************************************************************)

(* A commit stores the whole listing it was given: no column keeps what      *)
(* somebody else wrote since the read.                                       *)
LEMMA WholeRow ==
    ASSUME TypeOK, Flow, Locks, Memory, Fresh, NEW s \in Sessions, pc[s] = "commit"
    PROVE  /\ seen[s] = listings[raw[s].key]
           /\ NewRow(s) = [prop |-> FpOf(s), price |-> raw[s].price]
<1>1. seen[s] = listings[raw[s].key]
  BY InsertOrUpdate DEF Fresh
<1>2. seen[s] # Absent => seen[s] \in Rows
  BY DEF TypeOK
<1>3. QED
  BY <1>1, <1>2 DEF NewRow, Rows

(* On one loop a listing hangs on a property whose fingerprint was computed  *)
(* from the price it shows (persist_raw_listing, lines 21 and 25).           *)
THEOREM BandCorrect ==
    ASSUME SingleLoop
    PROVE  Spec => []BandFollowsPrice
<1>1. Init => BandFollowsPrice
  BY DEF Init, BandFollowsPrice
<1>2. ASSUME TypeOK, IInv, LoopInv, BandFollowsPrice, [Next]_vars PROVE BandFollowsPrice'
  <2>1. CASE UNCHANGED tables
    BY <1>2, <2>1 DEF BandFollowsPrice, tables
  <2>2. ASSUME NEW s \in Sessions, pc[s] = "commit", Commit(s), NEW k \in AllKeys,
               listings'[k] # Absent
        PROVE  listings'[k].prop[2] = Band(listings'[k].price)
    <3>1. NewRow(s) = [prop |-> FpOf(s), price |-> raw[s].price]
      BY <1>2, <2>2, WholeRow DEF IInv, LoopInv
    <3>2. CASE k = raw[s].key
      BY <1>2, <2>2, <3>1, <3>2 DEF Commit, TypeOK, FpOf, Fingerprint
    <3>3. CASE k # raw[s].key
      BY <1>2, <2>2, <3>3 DEF Commit, TypeOK, BandFollowsPrice
    <3>4. QED
      BY <3>2, <3>3
  <2>3. QED
    BY <1>2, <2>1, <2>2, OnlyCommitWrites DEF BandFollowsPrice
<1>3. QED
  BY <1>1, <1>2, LoopInvariance, PTL DEF Spec

(* On one loop price_history gains a row exactly when the price of a listing *)
(* changes (lines 28-33 and 48-51), as the schema says of it.                *)
THEOREM CaptureCorrect ==
    ASSUME SingleLoop
    PROVE  Spec => CapturesChanges
<1>1. ASSUME TypeOK, IInv, LoopInv, [Next]_vars PROVE [CapturedIfChanged]_vars
  <2>1. CASE UNCHANGED tables
    BY <2>1 DEF CapturedIfChanged, tables
  <2>2. ASSUME NEW s \in Sessions, pc[s] = "commit", Commit(s), NEW k \in AllKeys
        PROVE  history'[k] # history[k] <=>
                   /\ listings'[k] # Absent
                   /\ listings'[k].price # NoPrice
                   /\ listings[k] # Absent => listings'[k].price # listings[k].price
    <3>1. /\ NewRow(s) = [prop |-> FpOf(s), price |-> raw[s].price]
          /\ seen[s] = listings[raw[s].key]
      BY <1>1, <2>2, WholeRow DEF IInv, LoopInv
    <3>2. NewRow(s) # Absent /\ raw[s] \in Raws
      BY <1>1, <2>2, WriteTypes, AbsentAssumption DEF IInv, Memory, Idle
    <3>3. CASE k # raw[s].key
      BY <1>1, <2>2, <3>3 DEF Commit, TypeOK
    <3>4. CASE k = raw[s].key
      <4>1. listings'[k] = NewRow(s) /\ history'[k] = NewHistory(s)
        BY <1>1, <2>2, <3>4 DEF Commit, TypeOK
      <4>2. history[k] \in Seq(Prices) /\ (PriceChanged(s) => raw[s].price \in Prices)
        BY <1>1, <3>2 DEF TypeOK, Raws, PriceChanged
      <4>3. NewHistory(s) # history[k] <=> PriceChanged(s)
        <5>1. ASSUME NEW h \in Seq(Prices), NEW p \in Prices PROVE Append(h, p) # h
          <6>1. Len(Append(h, p)) = Len(h) + 1 /\ Len(h) \in Nat
            OBVIOUS
          <6>2. QED
            BY <6>1
        <5>2. QED
          BY <3>4, <4>2, <5>1 DEF NewHistory
      <4>4. PriceChanged(s) <=> /\ raw[s].price # NoPrice
                                /\ listings[k] # Absent => raw[s].price # listings[k].price
        BY <3>1, <3>4 DEF PriceChanged, PreviousPrice
      <4>5. QED
        BY <3>1, <3>2, <4>1, <4>3, <4>4
    <3>5. QED
      BY <3>3, <3>4
  <2>3. QED
    BY <1>1, <2>1, <2>2, OnlyCommitWrites DEF CapturedIfChanged
<1>2. QED
  BY <1>1, LoopInvariance, PTL DEF Spec, CapturesChanges

(* The commit of a scraped listing is one Take of the store.                 *)
LEMMA ScrapedIsTake ==
    ASSUME TypeOK, IInv, LoopInv, NEW s \in Scrapers, pc[s] = "commit", Commit(s)
    PROVE  Store!Take(raw[s].key, raw[s].home, raw[s].price)
<1>1. s \in Sessions /\ ~Idle(s)
  BY DEF Sessions, Idle
<1>2. raw[s].key \in Keys /\ raw[s].kind = KindOf[raw[s].key]
  BY <1>1 DEF IInv, Flow
<1>3. /\ seen[s] = listings[raw[s].key]
      /\ NewRow(s) = [prop |-> FpOf(s), price |-> raw[s].price]
  BY <1>1, WholeRow DEF IInv, LoopInv
<1>4. FpOf(s) = Store!Fingerprint(raw[s].home, raw[s].price)
  BY DEF FpOf, Fingerprint, Store!Fingerprint, Band, Store!Band
<1>5. Store!Claim(FpOf(s), raw[s].kind)
  <2>1. "property" \in mine[s] <=> category[FpOf(s)] = Absent
    BY <1>1 DEF LoopInv, PropertyLocks, Claimed
  <2>2. QED
    BY <2>1 DEF Store!Claim, Commit, NewCategory
<1>6. Store!Place(raw[s].key, FpOf(s), raw[s].price)
  BY <1>3 DEF Store!Place, Commit
<1>7. Store!Capture(raw[s].key, raw[s].price)
  BY <1>3 DEF Store!Capture, Store!Shown, Commit, NewHistory, PriceChanged, PreviousPrice
<1>8. details' = IF raw[s].kind = "common" THEN details ELSE details \cup {raw[s].key}
  <2>1. "detail" \in mine[s] <=> raw[s].kind # "common" /\ seen[s] = Absent
    BY <1>1 DEF IInv, Flow, HasDetail
  <2>2. raw[s].kind # "common" /\ seen[s] # Absent => raw[s].key \in details
    BY <1>2, <1>3 DEF IInv, DetailsMatch
  <2>3. QED
    BY <2>1, <2>2 DEF Commit, NewDetails
<1>9. QED
  BY <1>2, <1>4, <1>5, <1>6, <1>7, <1>8 DEF Store!Take

(* The commit of a manual property is one Register of the store.             *)
LEMMA ManualIsRegister ==
    ASSUME TypeOK, IInv, LoopInv, NEW s \in Manuals, pc[s] = "commit", Commit(s)
    PROVE  Store!Register(raw[s].home, raw[s].price, raw[s].kind)
<1>1. s \in Sessions /\ ~Idle(s) /\ s \notin Scrapers
  BY SessionsAssumption DEF Sessions, Idle
<1>2. raw[s].key = ManualKey(FpOf(s)) /\ seen[s] = Absent /\ "property" \in mine[s]
  BY <1>1 DEF LoopInv, Registers
<1>3. /\ seen[s] = listings[raw[s].key]
      /\ NewRow(s) = [prop |-> FpOf(s), price |-> raw[s].price]
  BY <1>1, WholeRow DEF IInv, LoopInv
<1>4. FpOf(s) = Store!Fingerprint(raw[s].home, raw[s].price)
  BY DEF FpOf, Fingerprint, Store!Fingerprint, Band, Store!Band
<1>5. raw[s].key = Store!ManualKey(FpOf(s))
  BY <1>2 DEF ManualKey, Store!ManualKey
<1>6. category[FpOf(s)] = Absent
  BY <1>1, <1>2 DEF LoopInv, PropertyLocks
<1>7. Store!Claim(FpOf(s), raw[s].kind)
  BY <1>2, <1>6 DEF Store!Claim, Commit, NewCategory
<1>8. Store!Place(raw[s].key, FpOf(s), raw[s].price)
  BY <1>3 DEF Store!Place, Commit
<1>9. Store!Capture(raw[s].key, raw[s].price)
  BY <1>3 DEF Store!Capture, Store!Shown, Commit, NewHistory, PriceChanged, PreviousPrice
<1>10. UNCHANGED details
  BY <1>1 DEF IInv, Flow, HasDetail, Commit, NewDetails
<1>11. QED
  BY <1>4, <1>5, <1>6, <1>7, <1>8, <1>9, <1>10 DEF Store!Register

(* On one loop, ingestion is a store that takes each scraped listing and     *)
(* registers each manual property in one step: the statements, rollbacks and *)
(* answers of persist_raw_listing and create_manual_property show nothing.   *)
THEOREM StoreRefined ==
    ASSUME SingleLoop
    PROVE  Spec => IsListingStore
<1>1. Init => Store!Init
  BY DEF Init, Store!Init, Fingerprints, Store!Fingerprints, Bands, Store!Bands, Band,
         Store!Band, AllKeys, Store!AllKeys, ManualKey, Store!ManualKey
<1>2. ASSUME TypeOK, IInv, LoopInv, [Next]_vars PROVE [Store!Next]_(Store!tables)
  <2>1. CASE UNCHANGED tables
    BY <2>1 DEF tables, Store!tables
  <2>2. ASSUME NEW s \in Sessions, pc[s] = "commit", Commit(s) PROVE Store!Next
    <3>1. raw[s] \in Raws
      BY <1>2, <2>2, WriteTypes DEF IInv, Memory, Idle
    <3>2. CASE s \in Scrapers
      <4>1. raw[s].key \in Keys
        BY <1>2, <2>2, <3>2 DEF IInv, Flow, Idle
      <4>2. QED
        BY <1>2, <2>2, <3>1, <3>2, <4>1, ScrapedIsTake DEF Store!Next, Raws
    <3>3. CASE s \in Manuals
      <4>1. raw[s].price \in Prices
        BY <1>2, <2>2, <3>3 DEF LoopInv, Registers, Idle
      <4>2. QED
        BY <1>2, <2>2, <3>1, <3>3, <4>1, ManualIsRegister DEF Store!Next, Raws, Kinds, Store!Kinds
    <3>4. QED
      BY <3>2, <3>3 DEF Sessions
  <2>3. QED
    BY <1>2, <2>1, <2>2, OnlyCommitWrites
<1>3. QED
  BY <1>1, <1>2, LoopInvariance, PTL DEF Spec, IsListingStore, Store!Spec
=============================================================================
