-------------------------- MODULE ScrapeRunProofs --------------------------
(* Theorems about ScrapeRun. *)
EXTENDS ScrapeRun, InductionProofs

Statuses == {"none", "running", "success", "partial", "failed"}
TableRows == [status : Statuses, new : Nat]

RunTypes ==
    /\ pc \in [Tasks -> Labels]
    /\ row \in [Tasks -> TableRows]
    /\ new \in [Tasks -> Nat]

(* What the row says while its task is at a label. *)
Fits(label, status) ==
    /\ label = "queued" => status = "none"
    /\ label \in {"refreshRun", "fetch", "persist", "failRun"} => status = "running"
    /\ label \in {"refresh", "analyse", "alert", "send"} => status \in {"success", "partial"}

RowOfTask == \A t \in Tasks : Fits(pc[t], row[t].status)

RunInv == RunTypes /\ RowOfTask

LifeIn(label, status) ==
    IF status \in {"success", "partial", "failed"} THEN "ended"
    ELSE IF label \in Ends THEN "lost"
    ELSE IF status = "none" THEN "waiting" ELSE "running"

lives == [t \in Tasks |-> Life(t)]
outcomes == [t \in Tasks |-> IF Life(t) = "ended" THEN row[t].status ELSE "none"]

(* The life of a run is read off its label and its row. *)
LEMMA LifeOfRow ==
  ASSUME RunTypes, NEW t \in Tasks
  PROVE  Life(t) = LifeIn(pc[t], row[t].status)
<1>1. row[t].status \in Statuses
  BY DEF RunTypes, TableRows
<1> QED BY <1>1 DEF Life, LifeIn, Statuses, Over

(* A step moves one task to a label and writes its row. *)
Moves(t, label, r) ==
    /\ pc' = [pc EXCEPT ![t] = label]
    /\ row' = [row EXCEPT ![t] = r]

(* Such a step concerns the life of this run alone. *)
LEMMA MoveStep ==
  ASSUME RunInv, NEW t \in Tasks, NEW label \in Labels, NEW r \in TableRows,
         Moves(t, label, r), new' \in [Tasks -> Nat], Fits(label, r.status)
  PROVE  /\ RunInv'
         /\ Life(t) = LifeIn(pc[t], row[t].status) /\ Life(t)' = LifeIn(label, r.status)
         /\ row'[t] = r
         /\ \A u \in Tasks \ {t} : Life(u)' = Life(u) /\ row'[u] = row[u]
<1>1. RunTypes'
  BY DEF RunInv, RunTypes, Moves
<1>2. pc'[t] = label /\ row'[t] = r
  BY DEF RunInv, RunTypes, Moves
<1>3. \A u \in Tasks \ {t} : pc'[u] = pc[u] /\ row'[u] = row[u]
  BY DEF RunInv, RunTypes, Moves
<1>4. RowOfTask'
  BY <1>2, <1>3 DEF RunInv, RowOfTask
<1>5. \A u \in Tasks : Life(u) = LifeIn(pc[u], row[u].status)
  BY LifeOfRow DEF RunInv
<1>6. ASSUME NEW u \in Tasks
      PROVE  Life(u)' = LifeIn(pc'[u], row'[u].status)
  <2>1. row'[u].status \in Statuses
    BY <1>1 DEF RunTypes, TableRows
  <2> QED BY <2>1 DEF Life, LifeIn, Statuses, Over
<1>7. \A u \in Tasks \ {t} : Life(u)' = Life(u)
  BY <1>3, <1>5, <1>6
<1> QED BY <1>1, <1>2, <1>3, <1>4, <1>5, <1>6, <1>7 DEF RunInv

-----------------------------------------------------------------------------
(***************************************************************************)
(* The steps of the ledger.                                                *)
(***************************************************************************)

LEMMA Begins ==
  ASSUME RunInv, NEW t \in Tasks, InsertRun(t)
  PROVE  RunInv' /\ Ledger!Begin(t)
<1> DEFINE r == [row[t] EXCEPT !.status = "running"]
<1>1. pc[t] = "queued" /\ row[t].status = "none" /\ row[t] \in TableRows
  BY DEF InsertRun, Resumes, RunInv, RunTypes, RowOfTask, Fits
<1>2. r \in TableRows /\ r.status = "running"
  BY <1>1 DEF TableRows, Statuses
<1>3. Moves(t, "refreshRun", r) /\ new' \in [Tasks -> Nat]
  BY DEF InsertRun, Goto, Moves, counts, RunInv, RunTypes
<1>4. "refreshRun" \in Labels /\ Fits("refreshRun", "running")
  BY DEF Labels, Fits
<1> HIDE DEF r
<1>5. /\ RunInv'
      /\ Life(t) = LifeIn("queued", "none") /\ Life(t)' = LifeIn("refreshRun", "running")
      /\ \A u \in Tasks \ {t} : Life(u)' = Life(u) /\ row'[u] = row[u]
  BY <1>1, <1>2, <1>3, <1>4, MoveStep
<1>6. Life(t) = "waiting" /\ Life(t)' = "running"
  BY <1>5 DEF LifeIn, Ends
<1> QED BY <1>5, <1>6 DEF Ledger!Begin

(* A run that has not ended, and whose row gets an outcome. *)
LEMMA EndsWith ==
  ASSUME RunInv, NEW t \in Tasks, NEW label \in Labels, NEW r \in TableRows,
         row[t].status = "running", pc[t] \notin Ends,
         Moves(t, label, r), new' \in [Tasks -> Nat],
         r.status \in {"success", "partial", "failed"}, Fits(label, r.status)
  PROVE  RunInv' /\ Ledger!End(t)
<1>1. /\ RunInv' /\ row'[t] = r
      /\ Life(t) = LifeIn(pc[t], row[t].status) /\ Life(t)' = LifeIn(label, r.status)
      /\ \A u \in Tasks \ {t} : Life(u)' = Life(u) /\ row'[u] = row[u]
  BY MoveStep
<1>2. Life(t) = "running" /\ Life(t)' = "ended"
  BY <1>1 DEF LifeIn
<1> QED BY <1>1, <1>2 DEF Ledger!End, Ledger!Outcomes

(* A run whose task is over without an outcome. *)
LEMMA LosesOne ==
  ASSUME RunInv, NEW t \in Tasks, row[t].status \in {"none", "running"}, pc[t] \notin Ends,
         Goto(t, "raised"), UNCHANGED row, new' \in [Tasks -> Nat]
  PROVE  RunInv' /\ Ledger!Lose({t})
<1>1. row[t] \in TableRows
  BY DEF RunInv, RunTypes
<1>2. Moves(t, "raised", row[t])
  BY DEF Moves, Goto, RunInv, RunTypes
<1>3. "raised" \in Labels /\ Fits("raised", row[t].status)
  BY DEF Labels, Ends, Fits
<1>4. /\ RunInv' /\ row'[t] = row[t]
      /\ Life(t) = LifeIn(pc[t], row[t].status) /\ Life(t)' = LifeIn("raised", row[t].status)
      /\ \A u \in Tasks \ {t} : Life(u)' = Life(u) /\ row'[u] = row[u]
  BY <1>1, <1>2, <1>3, MoveStep
<1>5. Life(t) \in {"waiting", "running"} /\ Life(t)' = "lost"
  BY <1>4 DEF LifeIn, Ends
<1> QED BY <1>4, <1>5 DEF Ledger!Lose

(* A task that goes on, or comes to its end after the outcome. *)
LEMMA GoesOn ==
  ASSUME RunInv, NEW t \in Tasks, NEW label \in Labels,
         Goto(t, label), UNCHANGED row, new' \in [Tasks -> Nat],
         \/ /\ row[t].status \in {"success", "partial"}
            /\ label \in {"analyse", "alert", "send"} \cup Ends
         \/ /\ row[t].status = "running" /\ pc[t] \notin Ends
            /\ label \in {"fetch", "persist", "failRun"}
  PROVE  RunInv' /\ UNCHANGED <<lives, outcomes>>
<1>1. row[t] \in TableRows
  BY DEF RunInv, RunTypes
<1>2. Moves(t, label, row[t])
  BY DEF Moves, Goto, RunInv, RunTypes
<1>3. Fits(label, row[t].status)
  BY DEF Ends, Fits
<1>4. /\ RunInv' /\ row'[t] = row[t]
      /\ Life(t) = LifeIn(pc[t], row[t].status) /\ Life(t)' = LifeIn(label, row[t].status)
      /\ \A u \in Tasks \ {t} : Life(u)' = Life(u) /\ row'[u] = row[u]
  BY <1>1, <1>2, <1>3, MoveStep
<1>5. Life(t)' = Life(t)
  BY <1>4 DEF LifeIn, Ends
<1> QED BY <1>4, <1>5 DEF lives, outcomes

(* Nothing happens to any task. *)
LEMMA AllStay ==
  ASSUME RunInv, UNCHANGED <<pc, row>>, new' \in [Tasks -> Nat]
  PROVE  RunInv' /\ UNCHANGED <<lives, outcomes>>
  BY DEF RunInv, RunTypes, RowOfTask, lives, outcomes, Life, Over

-----------------------------------------------------------------------------
(***************************************************************************)
(* The actions of ScrapeRun.                                               *)
(***************************************************************************)

(* Every step of the ledger that one task takes. *)
LedgerStep == [Ledger!Next]_<<lives, outcomes>>

(* What a run counts as new stays a count. *)
LEMMA NewIsNat ==
  ASSUME RunInv, [Next]_vars
  PROVE  new' \in [Tasks -> Nat]
<1> USE DEF RunInv, RunTypes
<1>1. ASSUME NEW T, Forget(T)
      PROVE  new' \in [Tasks -> Nat]
  BY <1>1 DEF Forget
<1>2. ASSUME NEW t \in Tasks, Step(t) \/ Sent(t)
      PROVE  new' \in [Tasks -> Nat]
  <2>1. CASE InsertRun(t) \/ RefreshRun(t) \/ Fetched(t) \/ FetchFails(t) \/ PersistRaises(t)
    BY <2>1 DEF InsertRun, RefreshRun, Fetched, FetchFails, PersistRaises, counts
  <2>2. CASE Persist(t)
    <3>1. PICK k : new' = [new EXCEPT ![t] = IF k \in stored THEN @ ELSE @ + 1]
      BY <2>2 DEF Persist
    <3>2. new[t] \in Nat /\ new[t] + 1 \in Nat
      OBVIOUS
    <3> QED BY <3>1, <3>2
  <2>3. CASE BeforeTryRaises(t) \/ FailRun(t) \/ FailRaises(t) \/ NoAlert(t) \/ RefreshRaises(t) \/ Sent(t)
    BY <1>1, <2>3 DEF BeforeTryRaises, FailRun, FailRaises, NoAlert, RefreshRaises, Sent, Finish
  <2>4. CASE CloseRun(t)
    BY <1>1, <2>4 DEF CloseRun, Finish, counts
  <2>5. CASE CloseRaises(t) \/ Refresh(t) \/ Analysed(t) \/ Alert(t)
    BY <2>5 DEF CloseRaises, Refresh, Analysed, Alert, counts
  <2> QED BY <1>2, <2>1, <2>2, <2>3, <2>4, <2>5 DEF Step
<1>3. CASE \E p \in Processes : Lend(p) \/ Return(p)
  BY <1>3 DEF Lend, Return, counts
<1>4. CASE \E p \in Processes : Crash(p)
  BY <1>1, <1>4 DEF Crash
<1>5. CASE UNCHANGED vars
  BY <1>5 DEF vars, counts
<1> QED BY <1>2, <1>3, <1>4, <1>5 DEF Next

(* The row is committed, or is not. *)
LEMMA FirstSteps ==
  ASSUME RunInv, new' \in [Tasks -> Nat], NEW t \in Tasks,
         InsertRun(t) \/ RefreshRun(t) \/ BeforeTryRaises(t)
  PROVE  RunInv' /\ LedgerStep
<1>1. CASE InsertRun(t)
  BY <1>1, Begins DEF LedgerStep, Ledger!Next
<1>2. CASE RefreshRun(t)
  <2>1. row[t].status = "running" /\ pc[t] \notin Ends /\ Goto(t, "fetch") /\ row' = row
    BY <1>2 DEF RefreshRun, HasLoop, RunInv, RowOfTask, Fits, Ends, tables
  <2>2. "fetch" \in Labels
    BY DEF Labels
  <2> QED BY <2>1, <2>2, GoesOn DEF LedgerStep, lives, outcomes
<1>3. CASE BeforeTryRaises(t)
  <2>1. row[t].status \in {"none", "running"} /\ pc[t] \notin Ends /\ Goto(t, "raised") /\ row' = row
    BY <1>3 DEF BeforeTryRaises, Finish, Resumes, HasLoop, RunInv, RowOfTask, Fits, Ends, tables
  <2>2. RunInv' /\ Ledger!Lose({t})
    BY <2>1, LosesOne
  <2>3. {t} \in SUBSET Tasks
    OBVIOUS
  <2> QED BY <2>2, <2>3 DEF LedgerStep, Ledger!Next
<1> QED BY <1>1, <1>2, <1>3

(* The scraper's loop keeps the row. *)
LEMMA LoopSteps ==
  ASSUME RunInv, new' \in [Tasks -> Nat], NEW t \in Tasks,
         Fetched(t) \/ FetchFails(t) \/ Persist(t) \/ PersistRaises(t)
  PROVE  RunInv' /\ LedgerStep
<1>1. row[t].status = "running" /\ pc[t] \notin Ends
  BY DEF Fetched, FetchFails, Persist, PersistRaises, Resumes, HasLoop, RunInv, RowOfTask, Fits, Ends
<1>2. row' = row
  BY DEF Fetched, FetchFails, Persist, PersistRaises, tables
<1>3. \/ UNCHANGED pc
      \/ \E label \in {"fetch", "persist"} : Goto(t, label)
  BY DEF Fetched, FetchFails, Persist, PersistRaises, Caught
<1>4. {"fetch", "persist"} \subseteq Labels
  BY DEF Labels
<1>5. CASE UNCHANGED pc
  BY <1>2, <1>5, AllStay DEF LedgerStep, lives, outcomes
<1>6. CASE \E label \in {"fetch", "persist"} : Goto(t, label)
  BY <1>1, <1>2, <1>4, <1>6, GoesOn DEF LedgerStep, lives, outcomes
<1> QED BY <1>3, <1>5, <1>6

(* The outcome, the handler, and a commit of the handler that fails too. *)
LEMMA CloseSteps ==
  ASSUME RunInv, new' \in [Tasks -> Nat], NEW t \in Tasks,
         CloseRun(t) \/ CloseRaises(t) \/ FailRun(t) \/ FailRaises(t)
  PROVE  RunInv' /\ LedgerStep
<1>1. row[t].status = "running" /\ pc[t] \notin Ends /\ row[t] \in TableRows /\ new[t] \in Nat
  BY DEF CloseRun, CloseRaises, FailRun, FailRaises, Resumes, HasLoop, RunInv, RunTypes, RowOfTask,
         Fits, Ends
<1>2. {"refresh", "returned", "raised", "failRun"} \subseteq Labels
  BY DEF Labels, Ends
<1>3. CASE CloseRun(t)
  <2>1. Outcome(t) \in TableRows /\ Outcome(t).status \in {"success", "partial"}
    BY <1>1 DEF Outcome, TableRows, Statuses
  <2>2. PICK label \in {"refresh", "returned"} : Moves(t, label, Outcome(t))
    BY <1>3 DEF CloseRun, Finish, Goto, Moves
  <2>3. Fits(label, Outcome(t).status)
    BY <2>1 DEF Fits
  <2>4. RunInv' /\ Ledger!End(t)
    BY <1>1, <1>2, <2>1, <2>2, <2>3, EndsWith
  <2> QED BY <2>4 DEF LedgerStep, Ledger!Next
<1>4. CASE CloseRaises(t)
  BY <1>1, <1>2, <1>4, GoesOn DEF CloseRaises, tables, LedgerStep, lives, outcomes
<1>5. CASE FailRun(t)
  <2> DEFINE r == [row[t] EXCEPT !.status = "failed"]
  <2>1. r \in TableRows /\ r.status = "failed"
    BY <1>1 DEF TableRows, Statuses
  <2>2. Moves(t, "returned", r)
    BY <1>5 DEF FailRun, Finish, Goto, Moves
  <2>3. Fits("returned", "failed")
    BY DEF Fits
  <2> HIDE DEF r
  <2>4. RunInv' /\ Ledger!End(t)
    BY <1>1, <1>2, <2>1, <2>2, <2>3, EndsWith
  <2> QED BY <2>4 DEF LedgerStep, Ledger!Next
<1>6. CASE FailRaises(t)
  <2>1. Goto(t, "raised") /\ row' = row
    BY <1>6 DEF FailRaises, Finish, tables
  <2>2. RunInv' /\ Ledger!Lose({t})
    BY <1>1, <2>1, LosesOne
  <2>3. {t} \in SUBSET Tasks
    OBVIOUS
  <2> QED BY <2>2, <2>3 DEF LedgerStep, Ledger!Next
<1> QED BY <1>3, <1>4, <1>5, <1>6

(* The refresh and the alert come after the outcome and leave it alone. *)
LEMMA LateSteps ==
  ASSUME RunInv, new' \in [Tasks -> Nat], NEW t \in Tasks,
         Refresh(t) \/ Analysed(t) \/ NoAlert(t) \/ Alert(t) \/ RefreshRaises(t) \/ Sent(t)
  PROVE  RunInv' /\ LedgerStep
<1>1. row[t].status \in {"success", "partial"}
  BY DEF Refresh, Analysed, NoAlert, Alert, RefreshRaises, Sent, HasLoop, Resumes,
         RunInv, RowOfTask, Fits
<1>2. row' = row
  BY DEF Refresh, Analysed, NoAlert, Alert, RefreshRaises, Sent, tables
<1>3. PICK label \in {"analyse", "alert", "send"} \cup Ends : Goto(t, label)
  BY DEF Refresh, Analysed, NoAlert, Alert, RefreshRaises, Sent, Finish, Ends
<1>4. label \in Labels
  BY DEF Labels, Ends
<1> QED BY <1>1, <1>2, <1>3, <1>4, GoesOn DEF LedgerStep, lives, outcomes

(* A crash loses the runs of its process that have no outcome yet. *)
LEMMA CrashStep ==
  ASSUME RunInv, new' \in [Tasks -> Nat], NEW p \in Processes, Crash(p)
  PROVE  RunInv' /\ LedgerStep
<1> DEFINE dead == {t \in Peers(p) : ~Over(t)}
           group == {t \in dead : row[t].status \in {"none", "running"}}
<1>1. row' = row /\ dead \subseteq Tasks
  BY DEF Crash, tables, Peers
<1>2. \A t \in Tasks : pc'[t] = IF t \in dead THEN "killed" ELSE pc[t]
  BY DEF Crash, Peers
<1>3. RunTypes'
  BY <1>1 DEF Crash, RunInv, RunTypes, Labels, Ends
<1>4. \A t \in Tasks : Life(t) = LifeIn(pc[t], row[t].status)
  BY LifeOfRow DEF RunInv
<1>5. \A t \in Tasks : Life(t)' = LifeIn(pc'[t], row[t].status)
  BY <1>1, <1>3 DEF RunTypes, TableRows, Life, LifeIn, Statuses, Over
<1>6. RowOfTask'
  BY <1>1, <1>2 DEF RunInv, RowOfTask, Fits
<1>7. \A t \in dead : pc[t] \notin Ends
  BY DEF Over
<1> HIDE DEF dead
<1>8. \A t \in Tasks : t \notin group => Life(t)' = Life(t)
  BY <1>1, <1>2, <1>4, <1>5, <1>7 DEF LifeIn, Ends, RunInv, RunTypes, TableRows, Statuses
<1>9. \A t \in group : Life(t) \in {"waiting", "running"} /\ Life(t)' = "lost"
  BY <1>1, <1>2, <1>4, <1>5, <1>7 DEF LifeIn, Ends
<1>10. Ledger!Lose(group)
  BY <1>1, <1>8, <1>9 DEF Ledger!Lose
<1>11. group \in SUBSET Tasks
  BY <1>1
<1> QED BY <1>3, <1>6, <1>10, <1>11 DEF RunInv, LedgerStep, Ledger!Next

LEMMA StepOfLedger ==
  ASSUME RunInv, [Next]_vars
  PROVE  RunInv' /\ LedgerStep
<1>1. new' \in [Tasks -> Nat]
  BY NewIsNat
<1>2. CASE \E t \in Tasks : Step(t) \/ Sent(t)
  BY <1>1, <1>2, FirstSteps, LoopSteps, CloseSteps, LateSteps DEF Step
<1>3. CASE \E p \in Processes : Crash(p)
  BY <1>1, <1>3, CrashStep
<1>4. CASE (\E p \in Processes : Lend(p) \/ Return(p)) \/ UNCHANGED vars
  <2>1. UNCHANGED <<pc, row>>
    BY <1>4 DEF Lend, Return, vars, tables
  <2> QED BY <1>1, <2>1, AllStay DEF LedgerStep, lives, outcomes
<1> QED BY <1>2, <1>3, <1>4 DEF Next

(* For any number of runs, processes and connections, and whatever raises or *)
(* dies wherever, a run gets one outcome, which neither the refresh nor the  *)
(* alert nor a crash after it changes, or is lost without one.               *)
THEOREM LedgerCorrect == Spec => IsLedger
<1>1. Init => RunInv /\ Ledger!Init
  BY DEF Init, Blank, RunInv, RunTypes, TableRows, Statuses, RowOfTask, Fits, Labels,
         Ledger!Init, Life, Over, Ends
<1>2. RunInv /\ [Next]_vars => RunInv' /\ LedgerStep
  BY StepOfLedger
<1> QED BY <1>1, <1>2, PTL DEF Spec, LedgerStep, IsLedger, Ledger!Spec, lives, outcomes

-----------------------------------------------------------------------------
(***************************************************************************)
(* What a success has stored.                                              *)
(***************************************************************************)

SeenTypes ==
    /\ seen \in [Tasks -> SUBSET Keys]
    /\ pending \in [Tasks -> SUBSET Keys]
    /\ failed \in [Tasks -> BOOLEAN]

Before == {"queued", "refreshRun", "fetch"}

(* What a task has seen is stored or in its hand, unless an error has        *)
(* dropped it; between two pages its hand is empty.                          *)
SeenOrDropped ==
    \A t \in Tasks :
        /\ pc[t] \in Before => pending[t] = {}
        /\ pc[t] \in Before \cup {"persist"} /\ failed[t] = FALSE => seen[t] \subseteq stored \cup pending[t]

SeenInv == RunInv /\ SeenTypes /\ SeenOrDropped /\ SuccessStoresAll

(* Steps that neither read nor store a page, and no step that ends a run     *)
(* with success.                                                             *)
LEMMA OtherSteps ==
  ASSUME SeenInv, RunInv', SeenTypes', stored \subseteq stored', seen' = seen,
         \A t \in Tasks : row'[t].status = "success" => row[t].status = "success",
         \A t \in Tasks : pc'[t] \in Before \cup {"persist"} =>
            /\ pending'[t] = pending[t] /\ failed'[t] = failed[t]
            /\ pc'[t] = "persist" => pc[t] \in Before \cup {"persist"}
            /\ pc'[t] \in Before => pc[t] \in Before
  PROVE  SeenInv'
<1>1. SeenOrDropped'
  BY DEF SeenInv, SeenOrDropped, Before
<1>2. SuccessStoresAll'
  BY DEF SeenInv, SuccessStoresAll
<1> QED BY <1>1, <1>2 DEF SeenInv

(* A page arrives: what it shows is stored already, or comes into the hand.  *)
LEMMA FetchedStep ==
  ASSUME SeenInv, RunInv', NEW t \in Tasks, Fetched(t)
  PROVE  SeenInv'
<1> USE DEF SeenInv, SeenTypes
<1>1. PICK shown \in SUBSET Keys :
        /\ seen' = [seen EXCEPT ![t] = @ \cup shown]
        /\ pending' = [pending EXCEPT ![t] = ToStore(t, shown)]
        /\ IF ToStore(t, shown) = {} THEN UNCHANGED <<pc, turn>>
           ELSE Goto(t, "persist") /\ KeepLoop(t)
  BY DEF Fetched
<1>2. pc[t] = "fetch" /\ row[t].status = "running" /\ stored' = stored /\ row' = row /\ failed' = failed
  BY DEF Fetched, Resumes, tables, counts, RunInv, RowOfTask, Fits
<1>3. ToStore(t, shown) \in SUBSET Keys /\ shown \subseteq seen[t] \cup ToStore(t, shown)
  BY DEF ToStore
<1>4. SeenTypes'
  BY <1>1, <1>2, <1>3
<1>5. pending'[t] = ToStore(t, shown) /\ seen'[t] = seen[t] \cup shown
  BY <1>1
<1>6. pc'[t] = IF ToStore(t, shown) = {} THEN "fetch" ELSE "persist"
  BY <1>1, <1>2 DEF Goto, RunInv, RunTypes
<1>7. \A u \in Tasks \ {t} : seen'[u] = seen[u] /\ pending'[u] = pending[u] /\ pc'[u] = pc[u]
  BY <1>1 DEF Goto, RunInv, RunTypes
<1>8. failed[t] = FALSE => seen'[t] \subseteq stored \cup pending'[t]
  <2>1. failed[t] = FALSE => seen[t] \subseteq stored
    BY <1>2 DEF SeenOrDropped, Before
  <2> QED BY <1>3, <1>5, <2>1
<1>9. SeenOrDropped'
  BY <1>2, <1>5, <1>6, <1>7, <1>8 DEF SeenOrDropped, Before
<1>10. SuccessStoresAll'
  BY <1>2, <1>7 DEF SuccessStoresAll
<1> QED BY <1>4, <1>9, <1>10

(* The listing in hand goes into the table. *)
LEMMA PersistStep ==
  ASSUME SeenInv, RunInv', NEW t \in Tasks, Persist(t)
  PROVE  SeenInv'
<1> USE DEF SeenInv, SeenTypes
<1>1. PICK k \in pending[t] :
        /\ stored' = stored \cup {k}
        /\ pending' = [pending EXCEPT ![t] = @ \ {k}]
        /\ IF pending[t] = {k} THEN Goto(t, "fetch") /\ YieldLoop(t) ELSE UNCHANGED <<pc, turn>>
  BY DEF Persist
<1>2. pc[t] = "persist" /\ seen' = seen /\ row' = row /\ failed' = failed
  BY DEF Persist, HasLoop
<1>3. SeenTypes'
  BY <1>1, <1>2
<1>4. pending'[t] = pending[t] \ {k}
  BY <1>1
<1>5. pc'[t] = IF pending[t] = {k} THEN "fetch" ELSE "persist"
  BY <1>1, <1>2 DEF Goto, RunInv, RunTypes
<1>6. \A u \in Tasks \ {t} : pending'[u] = pending[u] /\ pc'[u] = pc[u]
  BY <1>1 DEF Goto, RunInv, RunTypes
<1>7. failed[t] = FALSE => seen[t] \subseteq stored' \cup pending'[t]
  BY <1>1, <1>2, <1>4 DEF SeenOrDropped
<1>8. SeenOrDropped'
  BY <1>1, <1>2, <1>4, <1>5, <1>6, <1>7 DEF SeenOrDropped, Before
<1>9. SuccessStoresAll'
  BY <1>1, <1>2 DEF SuccessStoresAll
<1> QED BY <1>3, <1>8, <1>9

(* An error empties the hand and is counted. *)
LEMMA CaughtStep ==
  ASSUME SeenInv, RunInv', NEW t \in Tasks, FetchFails(t) \/ PersistRaises(t)
  PROVE  SeenInv'
<1> USE DEF SeenInv, SeenTypes
<1>1. /\ failed' = [failed EXCEPT ![t] = TRUE] /\ pending' = [pending EXCEPT ![t] = {}]
      /\ pc' = [pc EXCEPT ![t] = "fetch"]
      /\ seen' = seen /\ row' = row /\ stored' = stored
  BY DEF FetchFails, PersistRaises, Caught, Goto, tables
<1>2. SeenTypes'
  BY <1>1
<1>3. failed'[t] = TRUE /\ pending'[t] = {} /\ pc'[t] = "fetch"
  BY <1>1 DEF RunInv, RunTypes
<1>4. \A u \in Tasks \ {t} : failed'[u] = failed[u] /\ pending'[u] = pending[u] /\ pc'[u] = pc[u]
  BY <1>1 DEF RunInv, RunTypes
<1>5. SeenOrDropped'
  BY <1>1, <1>3, <1>4 DEF SeenOrDropped, Before
<1>6. SuccessStoresAll'
  BY <1>1 DEF SuccessStoresAll
<1> QED BY <1>2, <1>5, <1>6

(* What a task that is over forgets is its own. *)
LEMMA Forgotten ==
  ASSUME SeenTypes, NEW T \in SUBSET Tasks, Forget(T)
  PROVE  /\ SeenTypes' /\ seen' = seen
         /\ \A u \in Tasks \ T : pending'[u] = pending[u] /\ failed'[u] = failed[u]
<1> USE DEF SeenTypes, Forget
<1>1. pending' \in [Tasks -> SUBSET Keys] /\ seen' = seen
  OBVIOUS
<1>2. failed' \in [Tasks -> BOOLEAN]
  OBVIOUS
<1>3. \A u \in Tasks \ T : pending'[u] = pending[u]
  OBVIOUS
<1>4. \A u \in Tasks \ T : failed'[u] = failed[u]
  OBVIOUS
<1> QED BY <1>1, <1>2, <1>3, <1>4

(* The end of a task that has its outcome, or gets none or a failure. *)
LEMMA FinishStep ==
  ASSUME SeenInv, RunInv', NEW t \in Tasks, NEW how \in Ends, Finish(t, how), stored' = stored,
         \A u \in Tasks : row'[u].status = "success" => row[u].status = "success"
  PROVE  SeenInv'
<1>1. /\ SeenTypes' /\ seen' = seen
      /\ \A u \in Tasks \ {t} : pending'[u] = pending[u] /\ failed'[u] = failed[u]
  BY Forgotten DEF Finish, SeenInv
<1>2. pc'[t] = how /\ \A u \in Tasks \ {t} : pc'[u] = pc[u]
  BY DEF Finish, Goto, SeenInv, RunInv, RunTypes
<1>3. how \notin Before \cup {"persist"}
  BY DEF Ends, Before
<1> QED BY <1>1, <1>2, <1>3, OtherSteps

(* A success is recorded with an empty hand and no error counted. *)
LEMMA CloseStep ==
  ASSUME SeenInv, RunInv', NEW t \in Tasks, CloseRun(t)
  PROVE  SeenInv'
<1>1. pc[t] = "fetch" /\ stored' = stored /\ row' = [row EXCEPT ![t] = Outcome(t)]
  BY DEF CloseRun, Resumes
<1>2. row'[t] = Outcome(t) /\ \A u \in Tasks \ {t} : row'[u] = row[u]
  BY <1>1 DEF SeenInv, RunInv, RunTypes
<1>3. /\ SeenTypes' /\ seen' = seen
      /\ \A u \in Tasks \ {t} : pending'[u] = pending[u] /\ failed'[u] = failed[u]
  <2>1. CASE RefreshDue(t)
    BY <2>1 DEF CloseRun, counts, work, SeenInv, SeenTypes
  <2>2. CASE ~RefreshDue(t)
    BY <2>2, Forgotten DEF CloseRun, Finish, SeenInv
  <2> QED BY <2>1, <2>2
<1>4. pc'[t] \in {"refresh", "returned"} /\ \A u \in Tasks \ {t} : pc'[u] = pc[u]
  BY DEF CloseRun, Finish, Goto, SeenInv, RunInv, RunTypes
<1>5. Outcome(t).status = "success" => seen[t] \subseteq stored
  <2>1. Outcome(t).status = "success" => failed[t] = FALSE
    BY DEF Outcome, SeenInv, SeenTypes
  <2>2. pending[t] = {} /\ (failed[t] = FALSE => seen[t] \subseteq stored \cup pending[t])
    BY <1>1 DEF SeenInv, SeenOrDropped, Before
  <2> QED BY <2>1, <2>2
<1>6. SuccessStoresAll'
  BY <1>1, <1>2, <1>3, <1>5 DEF SeenInv, SuccessStoresAll
<1>7. SeenOrDropped'
  BY <1>1, <1>3, <1>4 DEF SeenInv, SeenOrDropped, Before
<1> QED BY <1>3, <1>6, <1>7 DEF SeenInv

(* A task moves on with what it has seen, in its hand and counted. *)
LEMMA MoveOnStep ==
  ASSUME SeenInv, RunInv', NEW t \in Tasks, NEW label \in Labels, Goto(t, label),
         UNCHANGED <<stored, seen, pending, failed>>,
         \A u \in Tasks : row'[u].status = "success" => row[u].status = "success",
         label \in Before => pc[t] \in Before, label # "persist"
  PROVE  SeenInv'
<1>1. pc'[t] = label /\ \A u \in Tasks \ {t} : pc'[u] = pc[u]
  BY DEF Goto, SeenInv, RunInv, RunTypes
<1>2. SeenTypes'
  BY DEF SeenInv, SeenTypes
<1> QED BY <1>1, <1>2, OtherSteps

(* Every step keeps the invariant. *)
LEMMA SeenStep ==
  ASSUME SeenInv, [Next]_vars
  PROVE  SeenInv'
<1>1. RunInv'
  BY StepOfLedger DEF SeenInv
<1>2. ASSUME NEW t \in Tasks, Step(t) \/ Sent(t)
      PROVE  SeenInv'
  <2>1. CASE Fetched(t) \/ Persist(t) \/ FetchFails(t) \/ PersistRaises(t) \/ CloseRun(t)
    BY <1>1, <2>1, FetchedStep, PersistStep, CaughtStep, CloseStep
  <2>2. CASE InsertRun(t)
    <3>1. \A u \in Tasks : row'[u].status = "success" => row[u].status = "success"
      BY <2>2 DEF InsertRun, SeenInv, RunInv, RunTypes, TableRows
    <3>2. pc[t] \in Before /\ Goto(t, "refreshRun") /\ "refreshRun" \in Labels
      BY <2>2 DEF InsertRun, Resumes, Before, Labels
    <3>3. UNCHANGED <<stored, seen, pending, failed>>
      BY <2>2 DEF InsertRun, counts, work
    <3> QED BY <1>1, <3>1, <3>2, <3>3, MoveOnStep
  <2>3. CASE RefreshRun(t) \/ CloseRaises(t) \/ Refresh(t) \/ Analysed(t) \/ Alert(t)
    <3>1. UNCHANGED <<stored, row, seen, pending, failed>>
      BY <2>3 DEF RefreshRun, CloseRaises, Refresh, Analysed, Alert, tables, counts, work
    <3>2. PICK label \in {"fetch", "failRun", "analyse", "alert", "send"} :
            Goto(t, label) /\ (label = "fetch" => pc[t] \in Before)
      BY <2>3 DEF RefreshRun, CloseRaises, Refresh, Analysed, Alert, HasLoop, Before
    <3>3. label \in Labels /\ label # "persist" /\ (label \in Before => pc[t] \in Before)
      BY <3>2 DEF Labels, Before
    <3> QED BY <1>1, <3>1, <3>2, <3>3, MoveOnStep
  <2>4. CASE BeforeTryRaises(t) \/ FailRaises(t) \/ NoAlert(t) \/ RefreshRaises(t) \/ Sent(t)
    <3>1. stored' = stored /\ row' = row /\ \E how \in {"returned", "raised"} : Finish(t, how)
      BY <2>4 DEF BeforeTryRaises, FailRaises, NoAlert, RefreshRaises, Sent, tables
    <3> QED BY <1>1, <3>1, FinishStep DEF Ends
  <2>5. CASE FailRun(t)
    <3>1. stored' = stored /\ Finish(t, "returned") /\ row' = [row EXCEPT ![t].status = "failed"]
      BY <2>5 DEF FailRun
    <3>2. \A u \in Tasks : row'[u].status = "success" => row[u].status = "success"
      BY <3>1 DEF SeenInv, RunInv, RunTypes, TableRows
    <3> QED BY <1>1, <3>1, <3>2, FinishStep DEF Ends
  <2> QED BY <1>2, <2>1, <2>2, <2>3, <2>4, <2>5 DEF Step
<1>3. CASE \E p \in Processes : Crash(p)
  <2>1. PICK p \in Processes : Crash(p)
    BY <1>3
  <2>2. Peers(p) \in SUBSET Tasks /\ stored' = stored /\ row' = row /\ Forget(Peers(p))
    BY <2>1 DEF Crash, Peers, tables
  <2>3. /\ SeenTypes' /\ seen' = seen
        /\ \A u \in Tasks \ Peers(p) : pending'[u] = pending[u] /\ failed'[u] = failed[u]
    BY <2>2, Forgotten DEF SeenInv
  <2>4. \A u \in Peers(p) : pc'[u] \in Ends
    BY <2>1, <2>2 DEF Crash, Over, Ends
  <2>5. \A u \in Tasks \ Peers(p) : pc'[u] = pc[u]
    BY <2>1 DEF Crash
  <2>6. Ends \cap (Before \cup {"persist"}) = {}
    BY DEF Ends, Before
  <2> QED BY <1>1, <2>2, <2>3, <2>4, <2>5, <2>6, OtherSteps
<1>4. CASE (\E p \in Processes : Lend(p) \/ Return(p)) \/ UNCHANGED vars
  <2>1. UNCHANGED <<stored, row, pc, seen, pending, failed>>
    BY <1>4 DEF Lend, Return, vars, tables, counts, work
  <2>2. SeenTypes'
    BY <2>1 DEF SeenInv, SeenTypes
  <2> QED BY <1>1, <2>1, <2>2, OtherSteps
<1> QED BY <1>2, <1>3, <1>4 DEF Next

(* At first nothing is seen. *)
LEMMA InitSeen ==
  ASSUME Init PROVE SeenInv
<1>1. RunInv
  BY DEF Init, Blank, RunInv, RunTypes, TableRows, Statuses, RowOfTask, Fits, Labels
<1>2. SeenTypes
  BY DEF Init, SeenTypes
<1>3. SeenOrDropped /\ SuccessStoresAll
  BY DEF Init, Blank, SeenOrDropped, SuccessStoresAll
<1> QED BY <1>1, <1>2, <1>3 DEF SeenInv

(* However many pages a run reads, in whatever order other runs store the    *)
(* same listings, and whichever page or listing raises: when its row says    *)
(* success, everything its pages showed it is in the table (base.py:59-71).  *)
THEOREM SuccessCorrect == Spec => []SuccessStoresAll
<1>1. Init => SeenInv
  BY InitSeen
<1>2. SeenInv /\ [Next]_vars => SeenInv'
  BY SeenStep
<1>3. SeenInv => SuccessStoresAll
  BY DEF SeenInv
<1> QED BY <1>1, <1>2, <1>3, PTL DEF Spec
-----------------------------------------------------------------------------
(***************************************************************************)
(* Types, the loop and the pool.                                           *)
(***************************************************************************)

DataTypes ==
    /\ stored \subseteq Keys /\ IsFiniteSet(stored)
    /\ dirty \subseteq stored
    /\ produced \in [Tasks -> BOOLEAN]
    /\ covering \in [Tasks -> SUBSET Keys]
    /\ DOMAIN fetches = Tasks
    /\ \A t \in Tasks : fetches[t] \in 0 .. MaxFetches[t]

(* Labels at which a task has not given the loop back. *)
Busy == {"refreshRun", "persist", "failRun", "refresh", "analyse", "alert"}

(* A task in the middle of its work has the loop. *)
LoopHeld ==
    /\ turn \in [Processes -> Tasks \cup {Nobody}]
    /\ \A t \in Tasks : pc[t] \in Busy => turn[ProcessOf[t]] = t

(* Connections are counted, and no more are out than the pool has. *)
PoolKept ==
    /\ held \subseteq Tasks /\ IsFiniteSet(held)
    /\ lent \in [Processes -> 0 .. MaxLent]
    /\ \A p \in Processes : InUse(p) <= PoolSize

(* Listings are in hand only while they are being stored. *)
HandEmpty == \A t \in Tasks : pending[t] # {} => pc[t] = "persist"

ShapeInv == SeenInv /\ DataTypes /\ LoopHeld /\ PoolKept /\ HandEmpty

(* A task that is over forgets what it kept, and its connection.             *)
LEMMA ForgetShape ==
  ASSUME DataTypes, PoolKept, HandEmpty, NEW T \in SUBSET Tasks, Forget(T)
  PROVE  /\ produced' \in [Tasks -> BOOLEAN]
         /\ covering' \in [Tasks -> SUBSET Keys]
         /\ DOMAIN fetches' = Tasks
         /\ \A t \in Tasks : fetches'[t] \in 0 .. MaxFetches[t]
         /\ held' \subseteq held
         /\ \A t \in Tasks : pending'[t] # {} => t \notin T /\ pending[t] # {}
         /\ \A t \in Tasks \ T : produced'[t] = produced[t] /\ covering'[t] = covering[t]
         /\ \A t \in T : produced'[t] = FALSE /\ covering'[t] = {}
<1>1. produced' = [t \in Tasks |-> t \notin T /\ produced[t]]
  BY DEF Forget
<1>2. produced' \in [Tasks -> BOOLEAN]
  BY <1>1
<1>3. /\ \A t \in Tasks \ T : produced'[t] = produced[t]
      /\ \A t \in T : produced'[t] = FALSE
  BY <1>1 DEF DataTypes
<1>4. \A t \in Tasks : MaxFetches[t] \in Nat
  BY SizesAssumption
<1>5. DOMAIN fetches' = Tasks /\ \A t \in Tasks : fetches'[t] \in 0 .. MaxFetches[t]
  BY <1>4 DEF Forget, DataTypes
<1> QED BY <1>2, <1>3, <1>5 DEF Forget, DataTypes, HandEmpty

(* The types of what is stored, analysed and counted.                        *)
LEMMA DataStep ==
  ASSUME ShapeInv, [Next]_vars
  PROVE  DataTypes'
<1> USE DEF ShapeInv, SeenInv
<1>1. \A t \in Tasks : MaxFetches[t] \in Nat
  BY SizesAssumption
<1>2. ASSUME NEW T \in SUBSET Tasks, Forget(T), stored' = stored, dirty' = dirty
      PROVE  DataTypes'
  BY <1>2, ForgetShape DEF DataTypes
<1>3. ASSUME UNCHANGED <<stored, dirty, produced, covering, fetches>>
      PROVE  DataTypes'
  BY <1>3 DEF DataTypes
<1>4. ASSUME NEW t \in Tasks, Step(t) \/ Sent(t)
      PROVE  DataTypes'
  <2>1. CASE InsertRun(t) \/ RefreshRun(t) \/ PersistRaises(t) \/ CloseRaises(t) \/ Alert(t)
    BY <1>3, <2>1 DEF InsertRun, RefreshRun, PersistRaises, CloseRaises, Alert, tables, counts, work
  <2>2. CASE BeforeTryRaises(t) \/ FailRun(t) \/ FailRaises(t) \/ NoAlert(t) \/ RefreshRaises(t) \/ Sent(t)
    <3>1. Forget({t}) /\ stored' = stored /\ dirty' = dirty
      BY <2>2 DEF BeforeTryRaises, FailRun, FailRaises, NoAlert, RefreshRaises, Sent, Finish, tables
    <3> QED BY <1>2, <3>1
  <2>3. CASE CloseRun(t)
    <3>1. CASE RefreshDue(t)
      BY <1>3, <2>3, <3>1 DEF CloseRun, counts, work
    <3>2. CASE ~RefreshDue(t)
      BY <1>2, <2>3, <3>2 DEF CloseRun, Finish
    <3> QED BY <3>1, <3>2
  <2>4. CASE Fetched(t) \/ FetchFails(t)
    <3>1. /\ fetches' = [fetches EXCEPT ![t] = @ + 1] /\ fetches[t] < MaxFetches[t]
          /\ UNCHANGED <<stored, dirty, produced, covering>>
      BY <2>4 DEF Fetched, FetchFails, tables, counts
    <3>2. \A u \in Tasks : fetches'[u] \in 0 .. MaxFetches[u]
      BY <1>1, <3>1 DEF DataTypes
    <3> QED BY <3>1, <3>2 DEF DataTypes
  <2>5. CASE Persist(t)
    <3>1. PICK k \in pending[t] :
            /\ stored' = stored \cup {k} /\ dirty' = dirty \cup {k}
            /\ covering' = [u \in Tasks |-> covering[u] \ {k}]
      BY <2>5 DEF Persist
    <3>2. produced' = [produced EXCEPT ![t] = TRUE] /\ fetches' = fetches
      BY <2>5 DEF Persist
    <3>3. k \in Keys
      BY DEF SeenTypes
    <3>4. IsFiniteSet(stored')
      BY <3>1, FS_AddElement DEF DataTypes
    <3> QED BY <3>1, <3>2, <3>3, <3>4 DEF DataTypes
  <2>6. CASE Refresh(t) \/ Analysed(t)
    <3>1. /\ UNCHANGED <<stored, produced, fetches>> /\ dirty' \subseteq dirty
          /\ covering' = [covering EXCEPT ![t] = dirty] \/ covering' = [covering EXCEPT ![t] = {}]
      BY <2>6 DEF Refresh, Analysed, tables, counts
    <3>2. covering' \in [Tasks -> SUBSET Keys]
      BY <3>1 DEF DataTypes
    <3> QED BY <3>1, <3>2 DEF DataTypes
  <2> QED BY <1>4, <2>1, <2>2, <2>3, <2>4, <2>5, <2>6 DEF Step
<1>5. CASE \E p \in Processes : Lend(p) \/ Return(p)
  BY <1>3, <1>5 DEF Lend, Return, tables, counts, work
<1>6. CASE \E p \in Processes : Crash(p)
  BY <1>2, <1>6 DEF Crash, Peers, tables
<1>7. CASE UNCHANGED vars
  BY <1>3, <1>7 DEF vars, tables, counts, work
<1> QED BY <1>4, <1>5, <1>6, <1>7 DEF Next

(* A task moves when it has the loop or nobody has, and keeps it as long as  *)
(* it is busy.                                                               *)
LEMMA TurnOfTask ==
  ASSUME ShapeInv, NEW t \in Tasks, Step(t) \/ Sent(t)
  PROVE  /\ turn[ProcessOf[t]] \in {t, Nobody}
         /\ \A u \in Tasks \ {t} : pc'[u] = pc[u]
         /\ \E holder \in {t, Nobody} :
              /\ turn' = [turn EXCEPT ![ProcessOf[t]] = holder]
              /\ pc'[t] \in Busy => holder = t
<1> DEFINE Turned(holder) ==
             /\ turn' = [turn EXCEPT ![ProcessOf[t]] = holder]
             /\ pc'[t] \in Busy => holder = t
           Goal == /\ turn[ProcessOf[t]] \in {t, Nobody}
                   /\ \A u \in Tasks \ {t} : pc'[u] = pc[u]
                   /\ \E holder \in {t, Nobody} : Turned(holder)
<1> USE DEF ShapeInv, SeenInv
<1>1. ProcessOf[t] \in Processes /\ turn \in [Processes -> Tasks \cup {Nobody}]
  BY TasksAssumption DEF LoopHeld
<1>2. ASSUME NEW label, Goto(t, label)
      PROVE  pc'[t] = label /\ \A u \in Tasks \ {t} : pc'[u] = pc[u]
  BY <1>2 DEF Goto, RunInv, RunTypes
<1>3. ASSUME NEW how \in Ends, Finish(t, how), turn[ProcessOf[t]] \in {t, Nobody} PROVE Goal
  <2>1. Turned(Nobody)
    BY <1>2, <1>3 DEF Finish, YieldLoop, Ends, Busy
  <2> QED BY <1>2, <1>3, <2>1 DEF Finish
<1>4. CASE BeforeTryRaises(t) \/ FailRun(t) \/ FailRaises(t) \/ NoAlert(t) \/ RefreshRaises(t) \/ Sent(t)
  <2>1. \E how \in Ends : Finish(t, how)
    BY <1>4 DEF BeforeTryRaises, FailRun, FailRaises, NoAlert, RefreshRaises, Sent, Ends
  <2>2. turn[ProcessOf[t]] \in {t, Nobody}
    BY <1>4 DEF BeforeTryRaises, FailRun, FailRaises, NoAlert, RefreshRaises, Sent, HasLoop, Resumes
  <2> QED BY <1>3, <2>1, <2>2
<1>5. CASE InsertRun(t) \/ CloseRaises(t)
  <2>1. Turned(t)
    BY <1>5 DEF InsertRun, CloseRaises, KeepLoop
  <2> QED BY <1>2, <1>5, <2>1 DEF InsertRun, CloseRaises, Resumes
<1>6. CASE RefreshRun(t) \/ Alert(t) \/ FetchFails(t) \/ PersistRaises(t)
  <2>1. (Goto(t, "fetch") \/ Goto(t, "send")) /\ YieldLoop(t)
    BY <1>6 DEF RefreshRun, Alert, FetchFails, PersistRaises, Caught
  <2>2. Turned(Nobody)
    BY <1>2, <2>1 DEF YieldLoop, Busy
  <2> QED BY <1>2, <1>6, <2>1, <2>2 DEF RefreshRun, Alert, FetchFails, PersistRaises, HasLoop, Resumes
<1>7. CASE Fetched(t)
  <2>1. turn[ProcessOf[t]] = Nobody /\ pc[t] = "fetch"
    BY <1>7 DEF Fetched, Resumes
  <2>2. UNCHANGED <<pc, turn>> \/ (Goto(t, "persist") /\ KeepLoop(t))
    BY <1>7 DEF Fetched
  <2>3. CASE UNCHANGED <<pc, turn>>
    <3>1. Turned(Nobody)
      BY <1>1, <2>1, <2>3 DEF Busy
    <3> QED BY <2>1, <2>3, <3>1
  <2>4. CASE Goto(t, "persist") /\ KeepLoop(t)
    <3>1. Turned(t)
      BY <2>4 DEF KeepLoop
    <3> QED BY <1>2, <2>1, <2>4, <3>1
  <2> QED BY <2>2, <2>3, <2>4
<1>8. CASE Persist(t) \/ Refresh(t) \/ Analysed(t)
  <2>1. turn[ProcessOf[t]] = t
    BY <1>8 DEF Persist, Refresh, Analysed, HasLoop
  <2>2. \/ UNCHANGED <<pc, turn>>
        \/ Goto(t, "fetch") /\ YieldLoop(t)
        \/ (Goto(t, "analyse") \/ Goto(t, "alert")) /\ UNCHANGED turn
    BY <1>8 DEF Persist, Refresh, Analysed
  <2>3. CASE UNCHANGED turn /\ \A u \in Tasks \ {t} : pc'[u] = pc[u]
    <3>1. Turned(t)
      BY <1>1, <2>1, <2>3
    <3> QED BY <2>1, <2>3, <3>1
  <2>4. CASE Goto(t, "fetch") /\ YieldLoop(t)
    <3>1. Turned(Nobody)
      BY <1>2, <2>4 DEF YieldLoop, Busy
    <3> QED BY <1>2, <2>1, <2>4, <3>1
  <2> QED BY <1>2, <2>2, <2>3, <2>4
<1>9. CASE CloseRun(t)
  <2>1. turn[ProcessOf[t]] = Nobody
    BY <1>9 DEF CloseRun, Resumes
  <2>2. CASE RefreshDue(t)
    <3>1. Goto(t, "refresh") /\ Turned(t)
      BY <1>9, <2>2 DEF CloseRun, KeepLoop
    <3> QED BY <1>2, <2>1, <3>1
  <2>3. CASE ~RefreshDue(t)
    BY <1>3, <1>9, <2>1, <2>3 DEF CloseRun, Ends
  <2> QED BY <2>2, <2>3
<1> QED BY <1>4, <1>5, <1>6, <1>7, <1>8, <1>9 DEF Step

(* One task of a process at a time is busy: the event loop is not taken from *)
(* a task that has not given it back.                                        *)
LEMMA LoopStep ==
  ASSUME ShapeInv, RunInv', [Next]_vars
  PROVE  LoopHeld'
<1> USE DEF ShapeInv, SeenInv
<1>1. \A u \in Tasks : ProcessOf[u] \in Processes /\ u # Nobody
  BY TasksAssumption, NobodyAssumption
<1>2. ASSUME NEW t \in Tasks, Step(t) \/ Sent(t)
      PROVE  LoopHeld'
  <2>1. PICK holder \in {t, Nobody} :
          /\ turn' = [turn EXCEPT ![ProcessOf[t]] = holder]
          /\ pc'[t] \in Busy => holder = t
    BY <1>2, TurnOfTask
  <2>2. turn[ProcessOf[t]] \in {t, Nobody} /\ \A u \in Tasks \ {t} : pc'[u] = pc[u]
    BY <1>2, TurnOfTask
  <2>3. turn' \in [Processes -> Tasks \cup {Nobody}]
    BY <2>1 DEF LoopHeld
  <2>4. ASSUME NEW u \in Tasks, pc'[u] \in Busy PROVE turn'[ProcessOf[u]] = u
    <3>1. CASE u = t
      BY <1>1, <2>1, <2>4, <3>1 DEF LoopHeld
    <3>2. CASE u # t
      <4>1. turn[ProcessOf[u]] = u
        BY <2>2, <2>4, <3>2 DEF LoopHeld
      <4>2. ProcessOf[u] # ProcessOf[t]
        BY <1>1, <2>2, <3>2, <4>1
      <4> QED BY <1>1, <2>1, <4>1, <4>2 DEF LoopHeld
    <3> QED BY <3>1, <3>2
  <2> QED BY <2>3, <2>4 DEF LoopHeld
<1>3. ASSUME NEW p \in Processes, Crash(p)
      PROVE  LoopHeld'
  <2>1. turn' = [turn EXCEPT ![p] = Nobody]
    BY <1>3 DEF Crash
  <2>2. \A u \in Tasks : pc'[u] \in Busy => pc'[u] = pc[u] /\ ProcessOf[u] # p
    BY <1>3 DEF Crash, Peers, Over, Busy, Ends
  <2> QED BY <1>1, <2>1, <2>2 DEF LoopHeld
<1>4. CASE (\E p \in Processes : Lend(p) \/ Return(p)) \/ UNCHANGED vars
  BY <1>4 DEF Lend, Return, vars, LoopHeld
<1> QED BY <1>2, <1>3, <1>4 DEF Next

(* Connections that come back. *)
LEMMA PoolLess ==
  ASSUME PoolKept, held' \subseteq held, lent' \in [Processes -> 0 .. MaxLent],
         \A p \in Processes : lent'[p] <= lent[p]
  PROVE  PoolKept'
<1>1. IsFiniteSet(held') /\ held' \subseteq Tasks
  BY FS_Subset DEF PoolKept
<1>2. ASSUME NEW p \in Processes PROVE InUse(p)' <= PoolSize
  <2>1. IsFiniteSet(held \cap Peers(p)) /\ IsFiniteSet(held' \cap Peers(p))
    BY <1>1, FS_Subset DEF PoolKept
  <2>2. Cardinality(held' \cap Peers(p)) <= Cardinality(held \cap Peers(p))
    BY <2>1, FS_Subset
  <2>3. Cardinality(held' \cap Peers(p)) \in Nat /\ Cardinality(held \cap Peers(p)) \in Nat
    BY <2>1, FS_CardinalityType
  <2>4. lent[p] \in Int /\ lent'[p] \in Int /\ lent'[p] <= lent[p] /\ PoolSize \in Int
    BY SizesAssumption DEF PoolKept
  <2>5. InUse(p) <= PoolSize
    BY DEF PoolKept
  <2> QED BY <2>2, <2>3, <2>4, <2>5 DEF InUse
<1> QED BY <1>1, <1>2 DEF PoolKept

(* A connection that is taken for a run was free, or was its own already.    *)
LEMMA PoolTaken ==
  ASSUME PoolKept, NEW t \in Tasks, RefreshRun(t)
  PROVE  PoolKept'
<1>1. held' = held \cup {t} /\ lent' = lent
  BY DEF RefreshRun
<1>2. IsFiniteSet(held') /\ held' \subseteq Tasks
  BY <1>1, FS_AddElement DEF PoolKept
<1>3. CASE t \in held
  BY <1>1, <1>3, PoolLess DEF PoolKept
<1>4. CASE t \notin held
  <2>1. InUse(ProcessOf[t]) < PoolSize
    BY <1>4 DEF RefreshRun, Connected
  <2>2. ASSUME NEW p \in Processes PROVE InUse(p)' <= PoolSize
    <3>1. CASE p # ProcessOf[t]
      <4>1. held' \cap Peers(p) = held \cap Peers(p)
        BY <1>1, <3>1 DEF Peers
      <4> QED BY <1>1, <4>1 DEF InUse, PoolKept
    <3>2. CASE p = ProcessOf[t]
      <4>1. /\ held' \cap Peers(p) = (held \cap Peers(p)) \cup {t}
            /\ t \notin held \cap Peers(p) /\ IsFiniteSet(held \cap Peers(p))
        BY <1>1, <1>4, <3>2, FS_Subset DEF Peers, PoolKept
      <4>2. Cardinality(held' \cap Peers(p)) = Cardinality(held \cap Peers(p)) + 1
        BY <4>1, FS_AddElement
      <4>3. Cardinality(held \cap Peers(p)) \in Nat /\ lent[p] \in Int /\ PoolSize \in Int
        BY <4>1, FS_CardinalityType, SizesAssumption DEF PoolKept
      <4> QED BY <1>1, <2>1, <3>2, <4>2, <4>3 DEF InUse
    <3> QED BY <3>1, <3>2
  <2> QED BY <1>1, <1>2, <2>2 DEF PoolKept
<1> QED BY <1>3, <1>4

(* No more connections are out than the pool has. *)
LEMMA PoolStep ==
  ASSUME ShapeInv, [Next]_vars
  PROVE  PoolKept'
<1> USE DEF ShapeInv, SeenInv
<1>1. ASSUME held' \subseteq held, lent' = lent PROVE PoolKept'
  <2>1. \A p \in Processes : lent[p] \in Int
    BY DEF PoolKept
  <2> QED BY <1>1, <2>1, PoolLess DEF PoolKept
<1>2. ASSUME NEW t \in Tasks, Step(t) \/ Sent(t) PROVE PoolKept'
  <2>1. CASE RefreshRun(t)
    BY <2>1, PoolTaken
  <2>2. CASE ~RefreshRun(t)
    <3>1. lent' = lent
      BY <1>2, <2>2 DEF Step, InsertRun, BeforeTryRaises, Fetched, FetchFails, Persist, PersistRaises,
           CloseRun, CloseRaises, FailRun, FailRaises, Refresh, Analysed, NoAlert, Alert,
           RefreshRaises, Sent, Finish
    <3>2. held' = held \/ held' = held \ {t}
      BY <1>2, <2>2 DEF Step, InsertRun, BeforeTryRaises, Fetched, FetchFails, Persist, PersistRaises,
           CloseRun, CloseRaises, FailRun, FailRaises, Refresh, Analysed, NoAlert, Alert,
           RefreshRaises, Sent, Finish, Forget, Caught, Release
    <3> QED BY <1>1, <3>1, <3>2
  <2> QED BY <2>1, <2>2
<1>3. ASSUME NEW p \in Processes, Lend(p) PROVE PoolKept'
  <2>1. lent[p] < MaxLent /\ lent' = [lent EXCEPT ![p] = @ + 1] /\ held' = held /\ InUse(p) < PoolSize
    BY <1>3 DEF Lend
  <2>2. lent' \in [Processes -> 0 .. MaxLent]
    BY <2>1, SizesAssumption DEF PoolKept
  <2>3. ASSUME NEW q \in Processes PROVE InUse(q)' <= PoolSize
    <3>1. IsFiniteSet(held \cap Peers(q)) /\ Cardinality(held \cap Peers(q)) \in Nat
      BY FS_Subset, FS_CardinalityType DEF PoolKept
    <3>2. InUse(q) <= PoolSize /\ lent[q] \in Int /\ PoolSize \in Int
      BY SizesAssumption DEF PoolKept
    <3>3. CASE q = p
      <4>1. lent'[q] = lent[q] + 1
        BY <2>1, <3>3 DEF PoolKept
      <4> QED BY <2>1, <3>1, <3>2, <3>3, <4>1 DEF InUse
    <3>4. CASE q # p
      <4>1. lent'[q] = lent[q]
        BY <2>1, <3>4 DEF PoolKept
      <4> QED BY <2>1, <3>2, <4>1 DEF InUse
    <3> QED BY <3>3, <3>4
  <2> QED BY <2>1, <2>2, <2>3 DEF PoolKept
<1>4. ASSUME NEW p \in Processes, Return(p) \/ Crash(p) PROVE PoolKept'
  <2>1. held' \subseteq held
    BY <1>4 DEF Return, Crash, Forget
  <2>2. \/ lent[p] > 0 /\ lent' = [lent EXCEPT ![p] = @ - 1]
        \/ lent' = [lent EXCEPT ![p] = 0]
    BY <1>4 DEF Return, Crash
  <2>3. lent' \in [Processes -> 0 .. MaxLent] /\ \A q \in Processes : lent'[q] <= lent[q]
    BY <2>2, SizesAssumption DEF PoolKept
  <2> QED BY <2>1, <2>3, PoolLess
<1>5. CASE UNCHANGED vars
  BY <1>1, <1>5 DEF vars
<1> QED BY <1>2, <1>3, <1>4, <1>5 DEF Next

(* A hand that is not empty belongs to a task that is storing. *)
LEMMA HandStep ==
  ASSUME ShapeInv, [Next]_vars
  PROVE  HandEmpty'
<1> USE DEF ShapeInv, SeenInv
<1>1. ASSUME NEW t \in Tasks, UNCHANGED pending, pc[t] # "persist",
             \A u \in Tasks \ {t} : pc'[u] = pc[u]
      PROVE  HandEmpty'
  BY <1>1 DEF HandEmpty
<1>2. ASSUME NEW t \in Tasks, Step(t) \/ Sent(t) PROVE HandEmpty'
  <2>1. \A u \in Tasks \ {t} : pc'[u] = pc[u]
    BY <1>2, TurnOfTask
  <2>2. CASE InsertRun(t) \/ RefreshRun(t) \/ CloseRaises(t) \/ Refresh(t) \/ Analysed(t) \/ Alert(t)
    <3>1. pending' = pending /\ pc[t] # "persist"
      BY <2>2 DEF InsertRun, RefreshRun, CloseRaises, Refresh, Analysed, Alert, HasLoop, Resumes, work
    <3> QED BY <1>1, <2>1, <3>1
  <2>3. ASSUME Forget({t}) PROVE HandEmpty'
    <3>1. {t} \in SUBSET Tasks
      OBVIOUS
    <3>2. \A u \in Tasks : pending'[u] # {} => u # t /\ pending[u] # {}
      BY <2>3, <3>1, ForgetShape
    <3> QED BY <2>1, <3>2 DEF HandEmpty
  <2>4. CASE BeforeTryRaises(t) \/ FailRun(t) \/ FailRaises(t) \/ NoAlert(t) \/ RefreshRaises(t) \/ Sent(t)
    BY <2>3, <2>4 DEF BeforeTryRaises, FailRun, FailRaises, NoAlert, RefreshRaises, Sent, Finish
  <2>5. CASE CloseRun(t)
    <3>1. CASE RefreshDue(t)
      BY <1>1, <2>1, <2>5, <3>1 DEF CloseRun, Resumes, work
    <3>2. CASE ~RefreshDue(t)
      BY <2>3, <2>5, <3>2 DEF CloseRun, Finish
    <3> QED BY <3>1, <3>2
  <2>6. ASSUME NEW rest, pending' = [pending EXCEPT ![t] = rest], rest # {} => pc'[t] = "persist"
        PROVE  HandEmpty'
    BY <2>1, <2>6 DEF HandEmpty, SeenTypes
  <2>7. CASE FetchFails(t) \/ PersistRaises(t)
    BY <2>6, <2>7 DEF FetchFails, PersistRaises, Caught
  <2>8. CASE Fetched(t)
    <3>1. PICK shown : /\ pending' = [pending EXCEPT ![t] = ToStore(t, shown)]
                       /\ ToStore(t, shown) # {} => Goto(t, "persist")
      BY <2>8 DEF Fetched
    <3>2. ToStore(t, shown) # {} => pc'[t] = "persist"
      BY <3>1 DEF Goto, RunInv, RunTypes
    <3> QED BY <2>6, <3>1, <3>2
  <2>9. CASE Persist(t)
    <3>1. PICK k \in pending[t] :
            /\ pending' = [pending EXCEPT ![t] = @ \ {k}]
            /\ pending[t] # {k} => UNCHANGED pc
      BY <2>9 DEF Persist
    <3>2. pending[t] \ {k} # {} => pc'[t] = "persist"
      BY <2>9, <3>1 DEF Persist, HasLoop
    <3>3. pending' = [pending EXCEPT ![t] = pending[t] \ {k}]
      BY <3>1
    <3> QED BY <2>6, <3>2, <3>3
  <2> QED BY <1>2, <2>2, <2>4, <2>5, <2>7, <2>8, <2>9 DEF Step
<1>3. ASSUME NEW p \in Processes, Crash(p) PROVE HandEmpty'
  <2>1. Forget(Peers(p)) /\ Peers(p) \in SUBSET Tasks
    BY <1>3 DEF Crash, Peers
  <2>2. \A u \in Tasks : u \notin Peers(p) => pc'[u] = pc[u]
    BY <1>3 DEF Crash
  <2> QED BY <2>1, <2>2, ForgetShape DEF HandEmpty
<1>4. CASE (\E p \in Processes : Lend(p) \/ Return(p)) \/ UNCHANGED vars
  BY <1>4 DEF Lend, Return, vars, work, HandEmpty
<1> QED BY <1>2, <1>3, <1>4 DEF Next

LEMMA ShapeStep ==
  ASSUME ShapeInv, [Next]_vars
  PROVE  ShapeInv'
<1>1. SeenInv' /\ RunInv'
  BY SeenStep DEF ShapeInv, SeenInv
<1> QED BY <1>1, DataStep, LoopStep, PoolStep, HandStep DEF ShapeInv

LEMMA ShapeInit ==
  ASSUME Init PROVE ShapeInv
<1>1. SeenInv
  BY InitSeen
<1>2. DataTypes
  <2>1. IsFiniteSet(stored) /\ \A t \in Tasks : MaxFetches[t] \in Nat
    BY FS_EmptySet, SizesAssumption DEF Init
  <2> QED BY <2>1 DEF Init, DataTypes
<1>3. LoopHeld
  BY DEF Init, LoopHeld, Busy
<1>4. PoolKept
  <2>1. ASSUME NEW p \in Processes PROVE InUse(p) <= PoolSize
    <3>1. held \cap Peers(p) = {} /\ lent[p] = 0
      BY DEF Init
    <3> QED BY <3>1, FS_EmptySet, SizesAssumption DEF InUse
  <2> QED BY <2>1, FS_EmptySet, SizesAssumption DEF Init, PoolKept
<1>5. HandEmpty
  BY DEF Init, HandEmpty
<1> QED BY <1>1, <1>2, <1>3, <1>4, <1>5 DEF ShapeInv

(* However many tasks, processes and connections there are: the pool of a    *)
(* process is never exceeded, by its runs and its threads together, and a    *)
(* page is in hand only while its task has the loop (session.py, base.py).   *)
THEOREM TypeCorrect == Spec => []TypeOK
<1>1. ShapeInv => TypeOK
  <2> SUFFICES ASSUME ShapeInv PROVE TypeOK
    OBVIOUS
  <2> USE DEF ShapeInv, SeenInv
  <2>1. \A t \in Tasks : pending[t] # {} => HasLoop(t, "persist")
    BY DEF HandEmpty, LoopHeld, HasLoop, Busy
  <2>2. row \in [Tasks -> [status : {"none", "running", "success", "partial", "failed"}, new : Nat]]
    BY DEF RunInv, RunTypes, TableRows, Statuses
  <2> QED BY <2>1, <2>2 DEF TypeOK, RunInv, RunTypes, SeenTypes, DataTypes, LoopHeld, PoolKept
<1>2. Init => ShapeInv
  BY ShapeInit
<1>3. ShapeInv /\ [Next]_vars => ShapeInv'
  BY ShapeStep
<1> QED BY <1>1, <1>2, <1>3, PTL DEF Spec
-----------------------------------------------------------------------------
(***************************************************************************)
(* The counts.                                                             *)
(***************************************************************************)

Closed == {"success", "partial"}

(* What a run has found new: its row says so when it is closed, and until    *)
(* then the task counts.                                                     *)
Counted(t) == IF row[t].status \in Closed THEN row[t].new ELSE new[t]

Counts == [t \in Tasks |-> Counted(t)]

Total == MapThenSumSet(LAMBDA t : Counts[t], Tasks)

(* A run that has lost none of its count. *)
Sound(t) == pc[t] \in Before \cup {"persist"} \/ row[t].status \in Closed

AllSound == \A t \in Tasks : Sound(t)

(* Every listing that is stored was new to one run, which may have lost the  *)
(* count of it by failing.                                                   *)
Tally ==
    /\ \A t \in Tasks : row[t].status \notin Closed => row[t].new = 0
    /\ Total <= Cardinality(stored)
    /\ AllSound => Total = Cardinality(stored)

TallyInv == ShapeInv /\ Tally

(* A total is the sum of the counts. *)
LEMMA TotalIsSum ==
  ShapeInv => Total = Sum(Counts, Tasks)
  BY DEF Total, MapThenSumSet, MapThenFoldSet, Sum, Sums, Adds, First

LEMMA TotalIsSumThen ==
  ASSUME ShapeInv' PROVE Total' = Sum(Counts', Tasks)
  BY DEF Total, MapThenSumSet, MapThenFoldSet, Sum, Sums, Adds, First

(* Counts are naturals. *)
LEMMA CountsAreNat ==
  ShapeInv => Counts \in [Tasks -> Nat]
  BY DEF ShapeInv, SeenInv, RunInv, RunTypes, TableRows, Counts, Counted

(* A step that stores nothing, and by which no run counts more. *)
LEMMA TallyKept ==
  ASSUME TallyInv, ShapeInv', IsFiniteSet(Tasks), stored' = stored,
         \A u \in Tasks : row'[u].status \notin Closed => row'[u].new = 0,
         \A u \in Tasks : Counted(u)' <= Counted(u),
         \A u \in Tasks : Sound(u)' => Sound(u) /\ Counted(u)' = Counted(u)
  PROVE  TallyInv'
<1> USE DEF TallyInv
<1>1. Counts \in [Tasks -> Nat] /\ Counts' \in [Tasks -> Nat]
  BY CountsAreNat DEF ShapeInv, SeenInv, RunInv, RunTypes, TableRows, Counts, Counted
<1>2. \A u \in Tasks : Counts'[u] <= Counts[u]
  BY DEF Counts
<1>3. Total' <= Total /\ Total' \in Nat /\ Total \in Nat
  BY <1>1, <1>2, SumMonotone, SumType, TotalIsSum, TotalIsSumThen
<1>4. Cardinality(stored) \in Nat
  BY FS_CardinalityType DEF ShapeInv, DataTypes
<1>5. Total' <= Cardinality(stored')
  BY <1>3, <1>4 DEF Tally
<1>6. ASSUME AllSound' PROVE Total' = Cardinality(stored')
  <2>1. AllSound
    BY <1>6 DEF AllSound
  <2>2. Counts' = Counts
    BY <1>6 DEF AllSound, Counts
  <2> QED BY <2>1, <2>2, TotalIsSum, TotalIsSumThen DEF Tally
<1> QED BY <1>5, <1>6 DEF Tally

(* The step of one task: it keeps its count and what it needs to go on, has  *)
(* it in its row, or loses it with the run.                                  *)
LEMMA TallyOne ==
  ASSUME TallyInv, ShapeInv', IsFiniteSet(Tasks), stored' = stored, NEW t \in Tasks,
         \A u \in Tasks \ {t} : pc'[u] = pc[u] /\ row'[u] = row[u] /\ new'[u] = new[u],
         row'[t].status \notin Closed => row'[t].new = 0,
         \/ row'[t].status \in Closed /\ row'[t].new = Counted(t) /\ Sound(t)
         \/ row'[t].status \notin Closed /\ new'[t] = Counted(t) /\ Sound(t)
         \/ /\ row'[t].status \notin Closed /\ new'[t] <= Counted(t)
            /\ pc'[t] \notin Before \cup {"persist"}
  PROVE  TallyInv'
<1>1. \A u \in Tasks : Counted(u) \in Nat
  BY DEF TallyInv, ShapeInv, SeenInv, RunInv, RunTypes, TableRows, Counted
<1>2. \A u \in Tasks \ {t} : Counted(u)' = Counted(u) /\ Sound(u)' = Sound(u)
  BY DEF Counted, Sound
<1>3. Counted(t)' <= Counted(t)
  BY <1>1 DEF Counted
<1>4. Sound(t)' => Sound(t) /\ Counted(t)' = Counted(t)
  BY DEF Counted, Sound
<1>5. \A u \in Tasks : row'[u].status \notin Closed => row'[u].new = 0
  BY DEF TallyInv, Tally
<1>6. \A u \in Tasks : Counted(u)' <= Counted(u)
  BY <1>1, <1>2, <1>3
<1>7. \A u \in Tasks : Sound(u)' => Sound(u) /\ Counted(u)' = Counted(u)
  BY <1>2, <1>4
<1> QED BY <1>5, <1>6, <1>7, TallyKept

(* A listing is stored: it is new to the run that stores it, or to none.     *)
LEMMA TallyPersist ==
  ASSUME TallyInv, ShapeInv', IsFiniteSet(Tasks), NEW t \in Tasks, Persist(t)
  PROVE  TallyInv'
<1> USE DEF TallyInv, ShapeInv, SeenInv, RunInv, RunTypes
<1>1. PICK k \in pending[t] :
        /\ stored' = stored \cup {k}
        /\ new' = [new EXCEPT ![t] = IF k \in stored THEN @ ELSE @ + 1]
        /\ UNCHANGED pc \/ Goto(t, "fetch")
  BY DEF Persist
<1>2. row' = row /\ pc[t] = "persist" /\ row[t].status = "running" /\ row[t].new = 0
  BY DEF Persist, HasLoop, RowOfTask, Fits, Tally, Closed
<1>3. \A u \in Tasks \ {t} : pc'[u] = pc[u] /\ new'[u] = new[u]
  BY <1>1 DEF Goto
<1>4. Sound(t) /\ Counted(t) = new[t] /\ Counted(t)' = new'[t]
  BY <1>2 DEF Sound, Counted, Closed
<1>5. CASE k \in stored
  <2>1. stored' = stored /\ new'[t] = new[t]
    BY <1>1, <1>5
  <2>2. row'[t].status \notin Closed /\ row'[t].new = 0
    BY <1>2 DEF Closed
  <2> HIDE DEF TallyInv, ShapeInv
  <2> QED BY <1>2, <1>3, <1>4, <2>1, <2>2, TallyOne
<1>6. CASE k \notin stored
  <2>1. Cardinality(stored') = Cardinality(stored) + 1 /\ Cardinality(stored) \in Nat
    BY <1>1, <1>6, FS_AddElement, FS_CardinalityType DEF DataTypes
  <2>2. Counts'[t] = Counts[t] + 1 /\ \A u \in Tasks \ {t} : Counts'[u] = Counts[u]
    <3>1. new'[t] = new[t] + 1
      BY <1>1, <1>6
    <3> QED BY <1>2, <1>3, <1>4, <3>1 DEF Counts, Counted
  <2> HIDE DEF ShapeInv
  <2>3. Counts \in [Tasks -> Nat] /\ Counts' \in [Tasks -> Nat]
    BY CountsAreNat DEF ShapeInv, TableRows, Counts, Counted
  <2>4. Total' = Total + 1 /\ Total \in Nat
    BY <2>2, <2>3, SumOneMore, SumType, TotalIsSum, TotalIsSumThen
  <2>5. AllSound' => AllSound
    BY <1>2, <1>3, <1>4 DEF AllSound, Sound
  <2>6. Total' <= Cardinality(stored') /\ (AllSound' => Total' = Cardinality(stored'))
    BY <2>1, <2>4, <2>5 DEF Tally
  <2> QED BY <1>2, <2>6 DEF Tally
<1> QED BY <1>5, <1>6

(* The rows and counts of the other runs are not touched. *)
LEMMA CountsOfOthers ==
  ASSUME ShapeInv, NEW t \in Tasks, Step(t) \/ Sent(t)
  PROVE  \A u \in Tasks \ {t} : row'[u] = row[u] /\ new'[u] = new[u]
<1> USE DEF ShapeInv, SeenInv, RunInv, RunTypes
<1>1. \A u \in Tasks \ {t} : row'[u] = row[u]
  BY DEF Step, InsertRun, RefreshRun, BeforeTryRaises, Fetched, FetchFails, Persist, PersistRaises,
         CloseRun, CloseRaises, FailRun, FailRaises, Refresh, Analysed, NoAlert, Alert,
         RefreshRaises, Sent, tables
<1>2. CASE Forget({t})
  BY <1>1, <1>2 DEF Forget
<1>3. CASE UNCHANGED new
  BY <1>1, <1>3
<1>4. CASE Persist(t)
  BY <1>1, <1>4 DEF Persist
<1>5. Forget({t}) \/ UNCHANGED new \/ Persist(t)
  BY DEF Step, InsertRun, RefreshRun, BeforeTryRaises, Fetched, FetchFails, PersistRaises,
         CloseRun, CloseRaises, FailRun, FailRaises, Refresh, Analysed, NoAlert, Alert,
         RefreshRaises, Sent, Finish, counts
<1> QED BY <1>2, <1>3, <1>4, <1>5

(* Every step keeps the counts. *)
LEMMA TallyStep ==
  ASSUME TallyInv, IsFiniteSet(Tasks), [Next]_vars
  PROVE  TallyInv'
<1>1. ShapeInv'
  BY ShapeStep DEF TallyInv
<1>2. ASSUME NEW t \in Tasks, Step(t) \/ Sent(t), ~Persist(t) PROVE TallyInv'
  <2> USE DEF TallyInv, ShapeInv, SeenInv, RunInv, RunTypes
  <2>1. /\ stored' = stored
        /\ \A u \in Tasks \ {t} : pc'[u] = pc[u] /\ row'[u] = row[u] /\ new'[u] = new[u]
    <3>1. stored' = stored
      BY <1>2 DEF Step, InsertRun, RefreshRun, BeforeTryRaises, Fetched, FetchFails, PersistRaises,
         CloseRun, CloseRaises, FailRun, FailRaises, Refresh, Analysed, NoAlert, Alert,
         RefreshRaises, Sent, tables
    <3> HIDE DEF ShapeInv
    <3> QED BY <1>2, <3>1, TurnOfTask, CountsOfOthers
  <2>2. new[t] \in Nat /\ row[t] \in TableRows /\ pc[t] \in Labels
    OBVIOUS
  <2>3. row[t].status \notin Closed => row[t].new = 0 /\ Counted(t) = new[t]
    BY DEF Tally, Counted
  <2>4. row[t].status \in Closed => Counted(t) = row[t].new /\ Sound(t)
    BY DEF Counted, Sound
  <2>5. Forget({t}) => new'[t] = 0
    BY DEF Forget
  <2> DEFINE Kept == \/ row'[t].status \in Closed /\ row'[t].new = Counted(t) /\ Sound(t)
                     \/ row'[t].status \notin Closed /\ new'[t] = Counted(t) /\ Sound(t)
                     \/ /\ row'[t].status \notin Closed /\ new'[t] <= Counted(t)
                        /\ pc'[t] \notin Before \cup {"persist"}
             Goal == Kept /\ (row'[t].status \notin Closed => row'[t].new = 0)
  <2>6. ASSUME InsertRun(t) PROVE Goal
    <3>1. row'[t].status = "running" /\ row'[t].new = row[t].new /\ new' = new /\ pc[t] = "queued"
      BY <2>2, <2>6 DEF InsertRun, Resumes, counts, TableRows
    <3>2. row[t].status = "none"
      BY <3>1 DEF RowOfTask, Fits
    <3> QED BY <2>3, <3>1, <3>2 DEF Sound, Before, Closed
  <2>7. ASSUME RefreshRun(t) \/ Fetched(t) \/ FetchFails(t) \/ PersistRaises(t) PROVE Goal
    <3>1. row' = row /\ new' = new /\ pc[t] \in Before \cup {"persist"}
      BY <2>7 DEF RefreshRun, Fetched, FetchFails, PersistRaises, HasLoop, Resumes, tables, counts, Before
    <3>2. row[t].status \notin Closed
      BY <2>7 DEF RefreshRun, Fetched, FetchFails, PersistRaises, HasLoop, Resumes, RowOfTask, Fits, Closed
    <3> QED BY <2>3, <3>1, <3>2 DEF Sound
  <2>8. ASSUME BeforeTryRaises(t) \/ FailRaises(t) \/ CloseRaises(t) \/ FailRun(t) PROVE Goal
    <3>1. row[t].status \notin Closed
      BY <2>8 DEF BeforeTryRaises, FailRaises, CloseRaises, FailRun, HasLoop, Resumes, RowOfTask, Fits, Closed
    <3>2. row'[t].status \notin Closed /\ row'[t].new = row[t].new
      BY <2>2, <2>8, <3>1 DEF BeforeTryRaises, FailRaises, CloseRaises, FailRun, tables, TableRows, Closed
    <3>3. \E label \in {"raised", "returned", "failRun"} : Goto(t, label)
      BY <2>8 DEF BeforeTryRaises, FailRaises, CloseRaises, FailRun, Finish
    <3>4. pc'[t] \notin Before \cup {"persist"}
      BY <3>3 DEF Goto, Before
    <3>5. new'[t] <= new[t]
      BY <2>2, <2>5, <2>8 DEF BeforeTryRaises, FailRaises, CloseRaises, FailRun, Finish, counts
    <3> QED BY <2>3, <3>1, <3>2, <3>4, <3>5
  <2>9. ASSUME CloseRun(t) PROVE Goal
    <3>1. pc[t] = "fetch" /\ row' = [row EXCEPT ![t] = Outcome(t)]
      BY <2>9 DEF CloseRun, Resumes
    <3>2. row[t].status = "running"
      BY <3>1 DEF RowOfTask, Fits
    <3>3. row'[t].status \in Closed /\ row'[t].new = new[t]
      BY <3>1 DEF Outcome, Closed
    <3>4. Sound(t) /\ Counted(t) = new[t]
      BY <2>3, <3>1, <3>2 DEF Sound, Before, Closed
    <3> QED BY <3>3, <3>4
  <2>10. ASSUME Refresh(t) \/ Analysed(t) \/ NoAlert(t) \/ Alert(t) \/ RefreshRaises(t) \/ Sent(t) PROVE Goal
    <3>1. row' = row
      BY <2>10 DEF Refresh, Analysed, NoAlert, Alert, RefreshRaises, Sent, tables
    <3>2. row[t].status \in Closed
      BY <2>10 DEF Refresh, Analysed, NoAlert, Alert, RefreshRaises, Sent, HasLoop, Resumes,
                   RowOfTask, Fits, Closed
    <3> QED BY <2>4, <3>1, <3>2
  <2>11. Goal
    BY <1>2, <2>6, <2>7, <2>8, <2>9, <2>10 DEF Step
  <2> HIDE DEF TallyInv
  <2> QED BY <1>1, <2>1, <2>11, TallyOne
<1>3. ASSUME NEW p \in Processes, Crash(p) PROVE TallyInv'
  <2> USE DEF TallyInv, ShapeInv, SeenInv, RunInv, RunTypes
  <2>1. row' = row /\ stored' = stored
    BY <1>3 DEF Crash, tables
  <2>2. \A u \in Tasks : u \notin Peers(p) => pc'[u] = pc[u] /\ new'[u] = new[u]
    BY <1>3 DEF Crash, Forget
  <2>3. \A u \in Peers(p) : u \in Tasks /\ pc'[u] \in Ends /\ new'[u] = 0
    BY <1>3 DEF Crash, Forget, Peers, Over, Ends
  <2>4. \A u \in Tasks : Counted(u) \in Nat /\ new[u] \in Nat
    BY DEF Counted, TableRows
  <2>5. \A u \in Tasks : Counted(u)' <= Counted(u)
    BY <2>1, <2>2, <2>3, <2>4 DEF Counted
  <2>6. \A u \in Tasks : Sound(u)' => Sound(u) /\ Counted(u)' = Counted(u)
    BY <2>1, <2>2, <2>3 DEF Sound, Counted, Before, Ends
  <2>7. \A u \in Tasks : row'[u].status \notin Closed => row'[u].new = 0
    BY <2>1 DEF Tally
  <2> HIDE DEF TallyInv
  <2> QED BY <1>1, <2>1, <2>5, <2>6, <2>7, TallyKept
<1>4. CASE (\E p \in Processes : Lend(p) \/ Return(p)) \/ UNCHANGED vars
  <2>1. UNCHANGED <<stored, row, pc, new>>
    BY <1>4 DEF Lend, Return, vars, tables, counts
  <2>2. \A u \in Tasks : Counted(u) \in Nat
    BY DEF TallyInv, ShapeInv, SeenInv, RunInv, RunTypes, Counted, TableRows
  <2>3. \A u \in Tasks : Counted(u)' <= Counted(u)
    BY <2>1, <2>2 DEF Counted
  <2>4. \A u \in Tasks : Sound(u)' => Sound(u) /\ Counted(u)' = Counted(u)
    BY <2>1 DEF Sound, Counted
  <2>5. \A u \in Tasks : row'[u].status \notin Closed => row'[u].new = 0
    BY <2>1 DEF TallyInv, Tally
  <2> QED BY <1>1, <2>1, <2>3, <2>4, <2>5, TallyKept
<1> QED BY <1>1, <1>2, <1>3, <1>4, TallyPersist DEF Next

(* The rows claim no more than the counts, and as much once all are closed.  *)
LEMMA ClaimsOfCounts ==
  ASSUME TallyInv, IsFiniteSet(Tasks)
  PROVE  NewAddsUp
<1> DEFINE f == [u \in Tasks |-> row[u].new]
<1>1. Claimed = Sum(f, Tasks)
  BY DEF Claimed, MapThenSumSet, MapThenFoldSet, Sum, Sums, Adds, First
<1> USE DEF TallyInv
<1>2. Counts \in [Tasks -> Nat] /\ f \in [Tasks -> Nat]
  BY CountsAreNat DEF ShapeInv, SeenInv, RunInv, RunTypes, TableRows
<1>3. \A u \in Tasks : f[u] <= Counts[u] /\ (row[u].status \in Closed => f[u] = Counts[u])
  BY <1>2 DEF Counts, Counted, Tally
<1>4. Claimed <= Total /\ Claimed \in Nat /\ Total \in Nat
  <2> HIDE DEF f
  <2> QED BY <1>1, <1>2, <1>3, SumMonotone, SumType, TotalIsSum
<1>5. Cardinality(stored) \in Nat
  BY FS_CardinalityType DEF ShapeInv, DataTypes
<1>6. Claimed <= Cardinality(stored)
  BY <1>4, <1>5 DEF Tally
<1>7. ASSUME \A t \in Tasks : row[t].status \in Closed PROVE Claimed = Cardinality(stored)
  <2>1. f = Counts
    BY <1>3, <1>7 DEF Counts
  <2>2. AllSound
    BY <1>7 DEF AllSound, Sound
  <2> HIDE DEF f
  <2> QED BY <1>1, <2>1, <2>2, TotalIsSum DEF Tally
<1> QED BY <1>6, <1>7 DEF NewAddsUp, Closed

(* For any finite number of runs, and whoever stores a listing first: their  *)
(* rows never claim more new listings than are stored, and account for every *)
(* one of them once all runs are closed, since a listing that is stored was  *)
(* new to one run (base.py:66-67, scrape_jobs.py:38-40).                     *)
THEOREM NewCorrect == ASSUME IsFiniteSet(Tasks) PROVE Spec => []NewAddsUp
<1>1. Init => TallyInv
  <2> SUFFICES ASSUME Init PROVE TallyInv
    OBVIOUS
  <2>1. ShapeInv
    BY ShapeInit
  <2>2. \A u \in Tasks : Counts[u] = 0 /\ row[u].new = 0
    BY DEF Init, Blank, Counts, Counted
  <2>3. Total = 0
    BY <2>1, <2>2, SumZero, TotalIsSum, CountsAreNat
  <2>4. Cardinality(stored) = 0
    BY FS_EmptySet DEF Init
  <2> QED BY <2>1, <2>2, <2>3, <2>4 DEF TallyInv, Tally
<1>2. TallyInv /\ [Next]_vars => TallyInv'
  BY TallyStep
<1>3. TallyInv => NewAddsUp
  BY ClaimsOfCounts
<1> QED BY <1>1, <1>2, <1>3, PTL DEF Spec
-----------------------------------------------------------------------------
(***************************************************************************)
(* The refresh.                                                            *)
(***************************************************************************)

(* A run that will not come to a regular end. *)
Broken(t) == pc[t] \in {"failRun", "raised", "killed"} \/ row[t].status = "failed"

(* A run answers for a listing that is not analysed: it has a refresh ahead  *)
(* of it, is running one that has read the listing, or is broken.            *)
AnswersFor(t, k) ==
    \/ produced[t] = TRUE /\ pc[t] \in {"fetch", "persist", "refresh"}
    \/ pc[t] = "analyse" /\ k \in covering[t]
    \/ Broken(t)

DirtyCovered == \A k \in dirty : \E t \in Tasks : AnswersFor(t, k)

RefreshInv == ShapeInv /\ DirtyCovered

(* What a task has produced and read is its own, but for what is stored anew. *)
LEMMA RefreshOfOthers ==
  ASSUME ShapeInv, NEW t \in Tasks, Step(t) \/ Sent(t), ~Persist(t)
  PROVE  /\ dirty' \subseteq dirty
         /\ \A u \in Tasks \ {t} : produced'[u] = produced[u] /\ covering'[u] = covering[u]
<1>1. {t} \in SUBSET Tasks
  OBVIOUS
<1>2. CASE Forget({t})
  <2>1. dirty' \subseteq dirty
    BY DEF Step, InsertRun, RefreshRun, BeforeTryRaises, Fetched, FetchFails, PersistRaises,
         CloseRun, CloseRaises, FailRun, FailRaises, Refresh, Analysed, NoAlert, Alert,
         RefreshRaises, Sent, tables
  <2>2. \A u \in Tasks \ {t} : produced'[u] = produced[u] /\ covering'[u] = covering[u]
    BY <1>1, <1>2, ForgetShape DEF ShapeInv
  <2> QED BY <2>1, <2>2
<1>3. CASE UNCHANGED <<dirty, produced, covering>>
  BY <1>3
<1>4. CASE Refresh(t) \/ Analysed(t)
  BY <1>4 DEF Refresh, Analysed, tables, counts, ShapeInv, DataTypes
<1>5. Forget({t}) \/ UNCHANGED <<dirty, produced, covering>> \/ Refresh(t) \/ Analysed(t)
  BY DEF Step, InsertRun, RefreshRun, BeforeTryRaises, Fetched, FetchFails, PersistRaises,
         CloseRun, CloseRaises, FailRun, FailRaises, NoAlert, Alert,
         RefreshRaises, Sent, Finish, tables, counts, work
<1> QED BY <1>2, <1>3, <1>4, <1>5

(* A task answers on, unless it has just analysed the listing. *)
LEMMA AnswersOn ==
  ASSUME ShapeInv, NEW t \in Tasks, Step(t) \/ Sent(t), ~Persist(t), ~Refresh(t),
         NEW k \in dirty', AnswersFor(t, k)
  PROVE  AnswersFor(t, k)'
<1> USE DEF ShapeInv, SeenInv, RunInv, RunTypes
<1>1. CASE InsertRun(t) \/ RefreshRun(t) \/ NoAlert(t) \/ Alert(t) \/ Sent(t)
  <2>1. pc[t] \in {"queued", "refreshRun", "alert", "send"}
    BY <1>1 DEF InsertRun, RefreshRun, NoAlert, Alert, Sent, HasLoop, Resumes
  <2>2. row[t].status # "failed"
    BY <2>1 DEF RowOfTask, Fits
  <2> QED BY <2>1, <2>2 DEF AnswersFor, Broken
<1>2. CASE BeforeTryRaises(t) \/ CloseRaises(t) \/ FailRaises(t) \/ RefreshRaises(t)
  <2>1. \E label \in {"raised", "failRun"} : Goto(t, label)
    BY <1>2 DEF BeforeTryRaises, CloseRaises, FailRaises, RefreshRaises, Finish
  <2> QED BY <2>1 DEF Goto, AnswersFor, Broken
<1>3. CASE FailRun(t)
  <2>1. row' = [row EXCEPT ![t].status = "failed"]
    BY <1>3 DEF FailRun
  <2>2. row'[t].status = "failed"
    BY <2>1 DEF TableRows
  <2> QED BY <2>2 DEF AnswersFor, Broken
<1>4. CASE Fetched(t) \/ FetchFails(t) \/ PersistRaises(t)
  <2>1. /\ pc[t] \in {"fetch", "persist"} /\ row' = row /\ produced' = produced
        /\ UNCHANGED pc \/ Goto(t, "fetch") \/ Goto(t, "persist")
    BY <1>4 DEF Fetched, FetchFails, PersistRaises, Caught, HasLoop, Resumes, tables, counts
  <2>2. pc'[t] \in {"fetch", "persist"} /\ row[t].status # "failed"
    BY <2>1 DEF Goto, RowOfTask, Fits
  <2> QED BY <2>1, <2>2 DEF AnswersFor, Broken
<1>5. CASE CloseRun(t)
  <2>1. pc[t] = "fetch"
    BY <1>5 DEF CloseRun, Resumes
  <2>2. row[t].status # "failed"
    BY <2>1 DEF RowOfTask, Fits
  <2>3. produced[t] = TRUE
    BY <2>1, <2>2 DEF AnswersFor, Broken
  <2>4. Goto(t, "refresh") /\ produced' = produced
    BY <1>5, <2>3 DEF CloseRun, RefreshDue, counts
  <2>5. pc'[t] = "refresh"
    BY <2>4 DEF Goto
  <2> QED BY <2>3, <2>4, <2>5 DEF AnswersFor
<1>6. CASE Analysed(t)
  <2>1. pc[t] = "analyse" /\ k \notin covering[t]
    BY <1>6 DEF Analysed, HasLoop
  <2>2. row[t].status # "failed"
    BY <2>1 DEF RowOfTask, Fits
  <2> QED BY <2>1, <2>2 DEF AnswersFor, Broken
<1> QED BY <1>1, <1>2, <1>3, <1>4, <1>5, <1>6 DEF Step

LEMMA RefreshStep ==
  ASSUME RefreshInv, [Next]_vars
  PROVE  RefreshInv'
<1> USE DEF RefreshInv
<1>1. ShapeInv'
  BY ShapeStep
<1>2. ASSUME NEW t \in Tasks, Step(t) \/ Sent(t) PROVE DirtyCovered'
  <2>1. CASE Persist(t)
    <3>1. produced'[t] = TRUE /\ pc'[t] \in {"fetch", "persist"}
      <4>1. produced' = [produced EXCEPT ![t] = TRUE] /\ pc[t] = "persist"
        BY <2>1 DEF Persist, HasLoop
      <4>2. UNCHANGED pc \/ Goto(t, "fetch")
        BY <2>1 DEF Persist
      <4> QED BY <4>1, <4>2 DEF Goto, ShapeInv, SeenInv, RunInv, RunTypes, DataTypes
    <3>2. \A k : AnswersFor(t, k)'
      BY <3>1 DEF AnswersFor
    <3> QED BY <3>2 DEF DirtyCovered
  <2>2. CASE Refresh(t)
    <3>1. pc'[t] = "analyse" /\ covering'[t] = dirty /\ dirty' = dirty
      BY <2>2 DEF Refresh, Goto, tables, ShapeInv, SeenInv, RunInv, RunTypes, DataTypes
    <3>2. \A k \in dirty' : AnswersFor(t, k)'
      BY <3>1 DEF AnswersFor
    <3> QED BY <3>2 DEF DirtyCovered
  <2>3. CASE ~Persist(t) /\ ~Refresh(t)
    <3>1. dirty' \subseteq dirty
      BY <1>2, <2>3, RefreshOfOthers
    <3>2. ASSUME NEW k \in dirty', NEW u \in Tasks \ {t}, AnswersFor(u, k)
          PROVE  AnswersFor(u, k)'
      <4>1. produced'[u] = produced[u] /\ covering'[u] = covering[u]
        BY <1>2, <2>3, RefreshOfOthers
      <4>2. pc'[u] = pc[u] /\ row'[u] = row[u]
        BY <1>2, TurnOfTask, CountsOfOthers
      <4> QED BY <3>2, <4>1, <4>2 DEF AnswersFor, Broken
    <3>3. ASSUME NEW k \in dirty', AnswersFor(t, k)
          PROVE  AnswersFor(t, k)'
      BY <1>2, <2>3, <3>3, AnswersOn
    <3> QED BY <3>1, <3>2, <3>3 DEF DirtyCovered
  <2> QED BY <2>1, <2>2, <2>3
<1>3. ASSUME NEW p \in Processes, Crash(p) PROVE DirtyCovered'
  <2>1. row' = row /\ dirty' = dirty /\ Forget(Peers(p)) /\ Peers(p) \in SUBSET Tasks
    BY <1>3 DEF Crash, tables, Peers
  <2>2. \A u \in Tasks \ Peers(p) : /\ pc'[u] = pc[u]
                                    /\ produced'[u] = produced[u] /\ covering'[u] = covering[u]
    <3>1. \A u \in Tasks \ Peers(p) : pc'[u] = pc[u]
      BY <1>3 DEF Crash
    <3>2. \A u \in Tasks \ Peers(p) : produced'[u] = produced[u] /\ covering'[u] = covering[u]
      BY <2>1, ForgetShape DEF ShapeInv
    <3> QED BY <3>1, <3>2
  <2>3. \A u \in Peers(p) : pc'[u] = IF pc[u] \in Ends THEN pc[u] ELSE "killed"
    BY <1>3 DEF Crash, Peers, Over
  <2>4. ASSUME NEW k, NEW u \in Tasks, AnswersFor(u, k) PROVE AnswersFor(u, k)'
    <3>1. CASE u \in Peers(p)
      BY <2>1, <2>3, <2>4, <3>1 DEF AnswersFor, Broken, Ends
    <3>2. CASE u \notin Peers(p)
      BY <2>1, <2>2, <2>4, <3>2 DEF AnswersFor, Broken
    <3> QED BY <3>1, <3>2
  <2> QED BY <2>1, <2>4 DEF DirtyCovered
<1>4. CASE (\E p \in Processes : Lend(p) \/ Return(p)) \/ UNCHANGED vars
  BY <1>1, <1>4 DEF Lend, Return, vars, tables, counts, work, DirtyCovered, AnswersFor, Broken
<1> QED BY <1>1, <1>2, <1>3, <1>4 DEF Next

(* However many runs store, refresh, fail and die in whatever order, in one  *)
(* process or in several: when all of them have come to a regular end, every *)
(* listing they stored has been analysed since (scrape_jobs.py:63-74).       *)
THEOREM RefreshCorrect == Spec => []AllRefreshed
<1>1. Init => RefreshInv
  BY ShapeInit DEF Init, RefreshInv, DirtyCovered
<1>2. RefreshInv /\ [Next]_vars => RefreshInv'
  BY RefreshStep
<1>3. RefreshInv => AllRefreshed
  BY DEF RefreshInv, DirtyCovered, AnswersFor, Broken, AllRefreshed, Settled
<1> QED BY <1>1, <1>2, <1>3, PTL DEF Spec
=============================================================================
