----------------------------- MODULE ScrapeRun -----------------------------
(***************************************************************************)
(* A scraper run from its trigger to its end: run_scraper_async, the loops *)
(* of BaseScraper.run and of the page scrapers, and what they share, the   *)
(* event loop and the connection pool of their process.                    *)
(*                                                                         *)
(* A task has the loop from one await to the next; database calls are      *)
(* synchronous and block the loop, also while they wait for a connection.  *)
(* Storing a listing is one step here: Ingestion has its statements.       *)
(***************************************************************************)
EXTENDS Integers, FiniteSets, FiniteSetsExt

CONSTANTS
    Tasks,        \* runs that get triggered
    Processes,    \* the API, and a process for each run started by a command
    ProcessOf,    \* the process of each task
    Servers,      \* processes with threads: the API
    LotTasks,     \* tasks of scrapers that use BaseScraper.run: one listing a URL
    MarkingTasks, \* tasks of page scrapers that remember the URLs they have seen
    Keys,         \* listings on the sites
    PoolSize,     \* connections a process may open
    Nobody,
    MaxFetches,   \* bound on the pages or lots each run fetches
    MaxLent       \* bound on the connections lent to threads of a process

ASSUME TasksAssumption == ProcessOf \in [Tasks -> Processes] /\ LotTasks \cup MarkingTasks \subseteq Tasks
ASSUME NobodyAssumption == Nobody \notin Tasks
ASSUME SizesAssumption == PoolSize \in Nat \ {0} /\ MaxFetches \in [Tasks -> Nat] /\ MaxLent \in Nat

VARIABLES
    stored,     \* listings in the database
    dirty,      \* observer: listings stored since they were last analysed
    row,        \* table scrape_runs: the row of each task
    pc,         \* where each task is
    turn,       \* the task that has the loop of each process, or Nobody
    held,       \* tasks whose session holds a connection
    lent,       \* connections of each process in the hands of threads
    seen,       \* listings on the pages a task has fetched
    pending,    \* listings of the page in hand, still to be stored
    new,        \* listings each task has reported as new
    produced,   \* whether a task has stored anything: new + updated > 0
    failed,     \* whether a task has counted an error
    fetches,    \* counter of the bound MaxFetches
    covering    \* what the refresh a task is running has read

tables == <<stored, dirty, row>>
counts == <<new, produced, failed>>
work == <<seen, pending, fetches, covering>>
vars == <<tables, pc, turn, held, lent, counts, work>>

Ends == {"returned", "raised", "killed"}
Over(t) == pc[t] \in Ends

Blank == [status |-> "none", new |-> 0]

Init ==
    /\ stored = {}
    /\ dirty = {}
    /\ row = [t \in Tasks |-> Blank]
    /\ pc = [t \in Tasks |-> "queued"]
    /\ turn = [p \in Processes |-> Nobody]
    /\ held = {}
    /\ lent = [p \in Processes |-> 0]
    /\ seen = [t \in Tasks |-> {}]
    /\ pending = [t \in Tasks |-> {}]
    /\ new = [t \in Tasks |-> 0]
    /\ produced = [t \in Tasks |-> FALSE]
    /\ failed = [t \in Tasks |-> FALSE]
    /\ fetches = [t \in Tasks |-> 0]
    /\ covering = [t \in Tasks |-> {}]

(***************************************************************************)
(* The loop and the pool.                                                  *)
(***************************************************************************)

Peers(p) == {t \in Tasks : ProcessOf[t] = p}

InUse(p) == Cardinality(held \cap Peers(p)) + lent[p]

(* Mutant: the pool has no limit. *)
AlwaysConnected(t) == t \in Tasks

(* A call goes through when its session has a connection or can get one.   *)
(* Otherwise it blocks the loop until a thread returns one, or raises after *)
(* the timeout of the pool; and any call may raise.                        *)
Connected(t) == t \in held \/ InUse(ProcessOf[t]) < PoolSize

Goto(t, label) == pc' = [pc EXCEPT ![t] = label]

HasLoop(t, label) == pc[t] = label /\ turn[ProcessOf[t]] = t

Resumes(t, label) == pc[t] = label /\ turn[ProcessOf[t]] = Nobody

KeepLoop(t) == turn' = [turn EXCEPT ![ProcessOf[t]] = t]
YieldLoop(t) == turn' = [turn EXCEPT ![ProcessOf[t]] = Nobody]

(* A commit, a rollback or the end of the session returns the connection. *)
Release(t) == held' = held \ {t}

(* Tasks that are over have closed their sessions and forgotten what they    *)
(* counted; seen stays for the properties.                                   *)
Forget(T) ==
    /\ held' = held \ T
    /\ pending' = [t \in Tasks |-> IF t \in T THEN {} ELSE pending[t]]
    /\ covering' = [t \in Tasks |-> IF t \in T THEN {} ELSE covering[t]]
    /\ new' = [t \in Tasks |-> IF t \in T THEN 0 ELSE new[t]]
    /\ produced' = [t \in Tasks |-> t \notin T /\ produced[t]]
    /\ failed' = [t \in Tasks |-> t \notin T /\ failed[t]]
    /\ fetches' = [t \in Tasks |-> IF t \in T THEN 0 ELSE fetches[t]]
    /\ UNCHANGED seen

Finish(t, how) ==
    /\ Goto(t, how)
    /\ YieldLoop(t)
    /\ Forget({t})
    /\ UNCHANGED lent

(* A task of POST /market or a request takes a connection in a thread, and *)
(* returns it.                                                             *)
Lend(p) ==
    /\ p \in Servers
    /\ lent[p] < MaxLent
    /\ InUse(p) < PoolSize
    /\ lent' = [lent EXCEPT ![p] = @ + 1]
    /\ UNCHANGED <<tables, pc, turn, held, counts, work>>

Return(p) ==
    /\ lent[p] > 0
    /\ lent' = [lent EXCEPT ![p] = @ - 1]
    /\ UNCHANGED <<tables, pc, turn, held, counts, work>>

(***************************************************************************)
(* Before the scraper: the row of the run.                                 *)
(***************************************************************************)

(* INSERT the row and commit. *)
InsertRun(t) ==
    /\ Resumes(t, "queued")
    /\ Connected(t)
    /\ KeepLoop(t)
    /\ row' = [row EXCEPT ![t].status = "running"]
    /\ Goto(t, "refreshRun")
    /\ UNCHANGED <<stored, dirty, held, lent, counts, work>>

(* db.refresh begins a transaction that nothing ends before the first      *)
(* listing: its connection is kept while the scraper waits for the site.   *)
RefreshRun(t) ==
    /\ HasLoop(t, "refreshRun")
    /\ Connected(t)
    /\ held' = held \cup {t}
    /\ Goto(t, "fetch")
    /\ YieldLoop(t)
    /\ UNCHANGED <<tables, lent, counts, work>>

(* Neither call is in the try block. *)
BeforeTryRaises(t) ==
    /\ Resumes(t, "queued") \/ HasLoop(t, "refreshRun")
    /\ Finish(t, "raised")
    /\ UNCHANGED tables

(***************************************************************************)
(* The scraper's loop.                                                     *)
(***************************************************************************)

(* The listings of a page that are stored; URLs are marked when the page is  *)
(* read, before any of its listings is stored.                               *)
ToStore(t, shown) == IF t \in MarkingTasks THEN shown \ seen[t] ELSE shown

(* A page, or a lot, arrives. *)
Fetched(t) ==
    /\ Resumes(t, "fetch")
    /\ fetches[t] < MaxFetches[t]
    /\ \E shown \in SUBSET Keys :
        /\ t \in LotTasks => Cardinality(shown) <= 1
        /\ seen' = [seen EXCEPT ![t] = @ \cup shown]
        /\ pending' = [pending EXCEPT ![t] = ToStore(t, shown)]
        /\ IF ToStore(t, shown) = {} THEN UNCHANGED <<pc, turn>>
           ELSE Goto(t, "persist") /\ KeepLoop(t)
    /\ fetches' = [fetches EXCEPT ![t] = @ + 1]
    /\ UNCHANGED <<tables, held, lent, counts, covering>>

(* Mutant: the error is not counted. *)
Swallowed(t) ==
    /\ UNCHANGED failed
    /\ pending' = [pending EXCEPT ![t] = {}]
    /\ Release(t)
    /\ Goto(t, "fetch")
    /\ YieldLoop(t)

(* Mutant: the same page is tried again. *)
Retried(t) ==
    /\ failed' = [failed EXCEPT ![t] = TRUE]
    /\ UNCHANGED <<pending, pc, turn>>
    /\ Release(t)

(* The handler around a URL: roll back, count an error, on to the next one. *)
(* The rest of the page is dropped.                                         *)
Caught(t) ==
    /\ failed' = [failed EXCEPT ![t] = TRUE]
    /\ pending' = [pending EXCEPT ![t] = {}]
    /\ Release(t)
    /\ Goto(t, "fetch")
    /\ YieldLoop(t)

(* The site does not answer, or answers with an error. *)
FetchFails(t) ==
    /\ Resumes(t, "fetch")
    /\ fetches[t] < MaxFetches[t]
    /\ Caught(t)
    /\ fetches' = [fetches EXCEPT ![t] = @ + 1]
    /\ UNCHANGED <<tables, lent, new, produced, seen, covering>>

(* persist_raw_listing, for the next listing of the page in hand. *)
Persist(t) ==
    /\ HasLoop(t, "persist")
    /\ Connected(t)
    /\ \E k \in pending[t] :
        /\ stored' = stored \cup {k}
        /\ dirty' = dirty \cup {k}
        /\ covering' = [u \in Tasks |-> covering[u] \ {k}]
        /\ new' = [new EXCEPT ![t] = IF k \in stored THEN @ ELSE @ + 1]
        /\ produced' = [produced EXCEPT ![t] = TRUE]
        /\ pending' = [pending EXCEPT ![t] = @ \ {k}]
        /\ IF pending[t] = {k} THEN Goto(t, "fetch") /\ YieldLoop(t) ELSE UNCHANGED <<pc, turn>>
    /\ Release(t)
    /\ UNCHANGED <<row, lent, failed, seen, fetches>>

PersistRaises(t) ==
    /\ HasLoop(t, "persist")
    /\ Caught(t)
    /\ UNCHANGED <<tables, lent, new, produced, seen, fetches, covering>>

(***************************************************************************)
(* After the scraper: the outcome, the refresh, the alert.                 *)
(***************************************************************************)

(* Mutant: listings that were known count as new. *)
OutcomeOfSeen(t) == [status |-> IF failed[t] THEN "partial" ELSE "success", new |-> Cardinality(seen[t] \cap stored)]

Outcome(t) == [status |-> IF failed[t] THEN "partial" ELSE "success", new |-> new[t]]

(* Mutant: updates alone do not call for a refresh. *)
RefreshForNew(t) == new[t] > 0

(* The refresh is due when the run stored something. *)
RefreshDue(t) == produced[t]

(* No URL is left: the outcome is committed. *)
CloseRun(t) ==
    /\ Resumes(t, "fetch")
    /\ Connected(t)
    /\ row' = [row EXCEPT ![t] = Outcome(t)]
    /\ IF RefreshDue(t)
       THEN Goto(t, "refresh") /\ KeepLoop(t) /\ Release(t) /\ UNCHANGED <<lent, counts, work>>
       ELSE Finish(t, "returned")
    /\ UNCHANGED <<stored, dirty>>

(* What raises outside the handlers around the URLs: that commit and, in     *)
(* BaseScraper.run, discover, whose own requests nothing else catches.       *)
CloseRaises(t) ==
    /\ Resumes(t, "fetch")
    /\ KeepLoop(t)
    /\ Goto(t, "failRun")
    /\ Release(t)
    /\ UNCHANGED <<tables, lent, counts, work>>

(* The handler of run_scraper_async: the counts stay at their defaults, and *)
(* it returns before the refresh.                                           *)
FailRun(t) ==
    /\ HasLoop(t, "failRun")
    /\ Connected(t)
    /\ row' = [row EXCEPT ![t].status = "failed"]
    /\ Finish(t, "returned")
    /\ UNCHANGED <<stored, dirty>>

FailRaises(t) ==
    /\ HasLoop(t, "failRun")
    /\ Finish(t, "raised")
    /\ UNCHANGED tables

(* Statistics, then analyses (DealPipeline), of what is stored by now... *)
Refresh(t) ==
    /\ HasLoop(t, "refresh")
    /\ Connected(t)
    /\ covering' = [covering EXCEPT ![t] = dirty]
    /\ Goto(t, "analyse")
    /\ UNCHANGED <<tables, turn, held, lent, counts, seen, pending, fetches>>

(* ... until the last property is committed. *)
Analysed(t) ==
    /\ HasLoop(t, "analyse")
    /\ Connected(t)
    /\ dirty' = dirty \ covering[t]
    /\ covering' = [covering EXCEPT ![t] = {}]
    /\ Goto(t, "alert")
    /\ UNCHANGED <<stored, row, turn, held, lent, counts, seen, pending, fetches>>

(* Mail is not configured, or no deal is good enough. *)
NoAlert(t) ==
    /\ HasLoop(t, "alert")
    /\ Finish(t, "returned")
    /\ UNCHANGED tables

(* Or the mail is handed to a thread, without a time limit. *)
Alert(t) ==
    /\ HasLoop(t, "alert")
    /\ Connected(t)
    /\ Goto(t, "send")
    /\ YieldLoop(t)
    /\ UNCHANGED <<tables, held, lent, counts, work>>

Sent(t) ==
    /\ Resumes(t, "send")
    /\ \E how \in {"returned", "raised"} : Finish(t, how)
    /\ UNCHANGED tables

(* Mutant: what follows a run is covered by its handler. *)
RefreshRaisesCovered(t) ==
    /\ \E label \in {"refresh", "analyse", "alert"} : HasLoop(t, label)
    /\ row' = [row EXCEPT ![t].status = "failed"]
    /\ Finish(t, "returned")
    /\ UNCHANGED <<stored, dirty>>

RefreshRaises(t) ==
    /\ \E label \in {"refresh", "analyse", "alert"} : HasLoop(t, label)
    /\ Finish(t, "raised")
    /\ UNCHANGED tables

(* A process dies with its tasks, those that are queued included. *)
Crash(p) ==
    /\ \E t \in Peers(p) : ~Over(t)
    /\ pc' = [t \in Tasks |-> IF t \in Peers(p) /\ ~Over(t) THEN "killed" ELSE pc[t]]
    /\ turn' = [turn EXCEPT ![p] = Nobody]
    /\ lent' = [lent EXCEPT ![p] = 0]
    /\ Forget(Peers(p))
    /\ UNCHANGED tables

Step(t) ==
    \/ InsertRun(t) \/ RefreshRun(t) \/ BeforeTryRaises(t)
    \/ Fetched(t) \/ FetchFails(t) \/ Persist(t) \/ PersistRaises(t)
    \/ CloseRun(t) \/ CloseRaises(t) \/ FailRun(t) \/ FailRaises(t)
    \/ Refresh(t) \/ Analysed(t) \/ NoAlert(t) \/ Alert(t) \/ RefreshRaises(t)

Next ==
    \/ \E t \in Tasks : Step(t) \/ Sent(t)
    \/ \E p \in Processes : Lend(p) \/ Return(p) \/ Crash(p)

Spec == Init /\ [][Next]_vars

(* A task takes its next step when it has the loop or can have it: sites   *)
(* answer or time out (30 to 45 s), so does the pool, and the loop serves  *)
(* what is ready in turn. Nothing is assumed of the mail server.           *)
FairSpec == Spec /\ \A t \in Tasks : WF_vars(Step(t))

-----------------------------------------------------------------------------
(***************************************************************************)
(* Properties.                                                             *)
(***************************************************************************)

Labels == {"queued", "refreshRun", "fetch", "persist", "failRun",
           "refresh", "analyse", "alert", "send"} \cup Ends

(* Rows, tasks and processes have the shape declared for them, the pool is   *)
(* not exceeded, and only the task that has the loop is in the middle of a   *)
(* page.                                                                     *)
TypeOK ==
    /\ stored \subseteq Keys
    /\ dirty \subseteq stored
    /\ row \in [Tasks -> [status : {"none", "running", "success", "partial", "failed"}, new : Nat]]
    /\ pc \in [Tasks -> Labels]
    /\ turn \in [Processes -> Tasks \cup {Nobody}]
    /\ held \subseteq Tasks
    /\ lent \in [Processes -> 0 .. MaxLent]
    /\ seen \in [Tasks -> SUBSET Keys]
    /\ pending \in [Tasks -> SUBSET Keys]
    /\ new \in [Tasks -> Nat] /\ produced \in [Tasks -> BOOLEAN]
    /\ failed \in [Tasks -> BOOLEAN]
    /\ \A t \in Tasks : fetches[t] \in 0 .. MaxFetches[t]
    /\ covering \in [Tasks -> SUBSET Keys]
    /\ \A p \in Processes : InUse(p) <= PoolSize
    /\ \A t \in Tasks : pending[t] # {} => HasLoop(t, "persist")

(* The runs do not claim more new listings than there are, whoever stores a  *)
(* listing first; and when all of them ended with a success, or a partial    *)
(* one, they account for every listing (base.py:66-67, scrape_jobs.py:38-40). *)
Claimed == MapThenSumSet(LAMBDA t : row[t].new, Tasks)

NewAddsUp ==
    /\ Claimed <= Cardinality(stored)
    /\ (\A t \in Tasks : row[t].status \in {"success", "partial"}) => Claimed = Cardinality(stored)

(* A run that says success has stored every listing it was shown, also those *)
(* it skipped on a later page since an earlier one had shown them.           *)
SuccessStoresAll == \A t \in Tasks : row[t].status = "success" => seen[t] \subseteq stored

Settled(t) == pc[t] = "returned" /\ row[t].status # "failed"

(* When all runs have come to a regular end, everything they stored has been *)
(* analysed since, in whatever order two processes stored and refreshed.     *)
AllRefreshed == (\A t \in Tasks : Settled(t)) => dirty = {}

(* The life of a run, as its row and its task show it. *)
Life(t) ==
    CASE row[t].status \in {"success", "partial", "failed"} -> "ended"
      [] row[t].status = "none" /\ ~Over(t) -> "waiting"
      [] row[t].status = "running" /\ ~Over(t) -> "running"
      [] OTHER -> "lost"

Ledger == INSTANCE RunLedger WITH
    Runs <- Tasks,
    life <- [t \in Tasks |-> Life(t)],
    outcome <- [t \in Tasks |-> IF Life(t) = "ended" THEN row[t].status ELSE "none"]

(* Whatever raises, blocks or dies, and wherever, each run gets one outcome,  *)
(* which nothing that follows it changes, the refresh and the alert included, *)
(* or is lost without one.                                                    *)
IsLedger == Ledger!Spec

(* A run that was triggered ends, or has only its mail left to send: waiting *)
(* for the loop, for a connection or for a site never lasts for ever.        *)
EveryRunEnds == \A t \in Tasks : pc[t] = "queued" ~> (Over(t) \/ pc[t] = "send")
=============================================================================
