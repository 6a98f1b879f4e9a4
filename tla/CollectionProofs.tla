------------------------- MODULE CollectionProofs -------------------------
(* Theorems about Collection. *)
EXTENDS Collection, SequenceTheorems, InductionProofs

analysis == <<asking, pending, clearing>>

(* The part of the panel that "Analisar tudo" depends on. *)
AnalysisTypes == asking \in Nat /\ clearing \in Nat /\ pending \in BOOLEAN

Exclusive == AnalysisTypes /\ AnalysisExclusive

(* At first nothing is outstanding. *)
LEMMA ExclusiveInit == Init => Exclusive
<1> SUFFICES ASSUME Init PROVE Exclusive
  OBVIOUS
<1>1. asking = 0 /\ clearing = 0
  BY DEF Init, PanelInit
<1>2. ~pending /\ pending \in BOOLEAN
  BY Zenon DEF Init, PanelInit
<1> QED BY <1>1, <1>2 DEF Exclusive, AnalysisTypes, AnalysisExclusive

(* The actions of the button and its timer. *)
LEMMA ExclusiveSteps ==
  ASSUME Exclusive, Ask \/ Asked \/ Clear \/ Unmount
  PROVE  Exclusive'
<1>1. CASE Ask
  <2>1. ~pending /\ pending' = TRUE /\ asking' = asking + 1 /\ clearing' = clearing
    BY <1>1 DEF Ask
  <2>2. asking + clearing = 0
    BY <2>1 DEF Exclusive, AnalysisExclusive
  <2> QED BY <2>1, <2>2 DEF Exclusive, AnalysisTypes, AnalysisExclusive
<1>2. CASE Asked
  BY <1>2 DEF Asked, Exclusive, AnalysisTypes, AnalysisExclusive
<1>3. CASE Clear
  <2>1. asking' = asking /\ clearing' = clearing - 1 /\ clearing > 0
    BY <1>3 DEF Clear
  <2>2. ~pending' /\ pending' \in BOOLEAN
    BY <1>3, Zenon DEF Clear
  <2>3. asking + clearing \in {0, 1} /\ asking \in Nat /\ clearing \in Nat
    BY DEF Exclusive, AnalysisTypes, AnalysisExclusive
  <2>4. asking' = 0 /\ clearing' = 0
    BY <2>1, <2>3
  <2> QED BY <2>2, <2>4 DEF Exclusive, AnalysisTypes, AnalysisExclusive
<1>4. CASE Unmount
  <2>1. asking' = 0 /\ clearing' = 0
    BY <1>4 DEF Unmount
  <2>2. ~pending' /\ pending' \in BOOLEAN
    BY <1>4, Zenon DEF Unmount
  <2> QED BY <2>1, <2>2 DEF Exclusive, AnalysisTypes, AnalysisExclusive
<1> QED BY <1>1, <1>2, <1>3, <1>4

(* What leaves them alone keeps the invariant. *)
LEMMA ExclusiveStutters ==
  ASSUME Exclusive, UNCHANGED analysis
  PROVE  Exclusive'
  BY DEF Exclusive, AnalysisTypes, AnalysisExclusive, analysis

(* The other actions of the page leave the button alone, or take it away. *)
LEMMA PageSteps ==
  ASSUME NEW c, Press(c) \/ Accept(c) \/ Deny(c) \/ Hear(c) \/ TimerFires(c)
  PROVE  Unmount \/ UNCHANGED analysis
<1>1. CASE Press(c)
  BY <1>1 DEF Press, Click, analysis
<1>2. CASE Accept(c) \/ Deny(c)
  BY <1>2 DEF Accept, Deny, panel, analysis
<1>3. CASE Hear(c)
  <2>1. CASE HearQueued(c) \/ HearError(c)
    BY <2>1 DEF HearQueued, HearError, Answer, analysis
  <2>2. CASE HearGarbage(c)
    BY <2>2 DEF HearGarbage, Break
  <2> QED BY <1>3, <2>1, <2>2 DEF Hear
<1>4. CASE TimerFires(c)
  BY <1>4 DEF TimerFires, Expire, analysis
<1> QED BY <1>1, <1>2, <1>3, <1>4

(* Nor do the runs touch the page. *)
LEMMA RunSteps ==
  ASSUME NEW c, Step(c) \/ Strand(c)
  PROVE  UNCHANGED panel
<1>1. CASE Begin(c)
  BY <1>1 DEF Begin
<1>2. CASE Visit(c) \/ VisitFails(c) \/ Discover(c) \/ Lot(c) \/ Refuse(c)
  BY <1>2 DEF Visit, VisitFails, Discover, Lot, Refuse, Elsewhere
<1>3. CASE EndRegular(c) \/ EndFailed(c)
  BY <1>3 DEF EndRegular, EndFailed, End, Elsewhere
<1>4. CASE Strand(c)
  BY <1>4 DEF Strand, Elsewhere
<1> QED BY <1>1, <1>2, <1>3, <1>4 DEF Step

(* Every step of Collection is one of these. *)
LEMMA ExclusiveNext ==
  ASSUME Exclusive, [Next]_vars
  PROVE  Exclusive'
<1>1. CASE \E c \in Clicks : Press(c) \/ Accept(c) \/ Deny(c) \/ Hear(c) \/ TimerFires(c)
  BY <1>1, PageSteps, ExclusiveSteps, ExclusiveStutters
<1>2. CASE \E c \in Clicks : Step(c) \/ Strand(c)
  <2>1. UNCHANGED analysis
    BY <1>2, RunSteps DEF panel, analysis
  <2> QED BY <2>1, ExclusiveStutters
<1>3. CASE AskAnalysis
  BY <1>3, ExclusiveSteps DEF AskAnalysis
<1>4. CASE AnalysisAsked
  BY <1>4, ExclusiveSteps DEF AnalysisAsked, Break
<1>5. CASE AnalysisCleared
  BY <1>5, ExclusiveSteps DEF AnalysisCleared
<1>6. CASE Reload
  BY <1>6, ExclusiveSteps DEF Reload, Render
<1>7. CASE Crash \/ Restart \/ UNCHANGED vars
  <2>1. UNCHANGED analysis
    BY <1>7 DEF Crash, Restart, vars, panel, analysis
  <2> QED BY <2>1, ExclusiveStutters
<1> QED BY <1>1, <1>2, <1>3, <1>4, <1>5, <1>6, <1>7 DEF Next

(* However often the page is reloaded, or taken away by an answer it cannot  *)
(* read, "Analisar tudo" has one request or one timer outstanding at most,   *)
(* and its button is disabled as long as there is one.                       *)
THEOREM AnalysisCorrect == Spec => []AnalysisExclusive
<1>1. Init => Exclusive
  BY ExclusiveInit
<1>2. Exclusive /\ [Next]_vars => Exclusive'
  BY ExclusiveNext
<1>3. Exclusive => AnalysisExclusive
  BY DEF Exclusive
<1> QED BY <1>1, <1>2, <1>3, PTL DEF Spec

-----------------------------------------------------------------------------
(***************************************************************************)
(* The refinement of RunLedger.                                            *)
(***************************************************************************)

LifeTypes ==
    /\ request \in [Clicks -> {"unused", "sent", "unheard", "accepted", "denied", "over"}]
    /\ run \in [Clicks -> {"none", "queued", "running", "ended", "lost"}]
    /\ row \in [Clicks -> {"none", "running", "success", "partial", "failed"}]

(* A request that may still be accepted has no run; and a row follows its    *)
(* run.                                                                      *)
RowOfRun ==
    \A c \in Clicks :
        /\ request[c] \in {"unused", "sent", "unheard"} => run[c] = "none"
        /\ run[c] \in {"none", "queued"} => row[c] = "none"
        /\ run[c] = "running" => row[c] = "running"
        /\ run[c] = "lost" => row[c] \in {"none", "running"}

LedgerInv == LifeTypes /\ RowOfRun

runs == <<request, run, row>>

(* At first every run is waiting. *)
LEMMA LedgerInvInit == Init => LedgerInv /\ Ledger!Init
  BY DEF Init, LedgerInv, LifeTypes, RowOfRun, Ledger!Init, Life, Outcome

(* What the page does with the requests. *)
LEMMA RequestSteps ==
  ASSUME LedgerInv, NEW c \in Clicks, Press(c) \/ Accept(c) \/ Deny(c) \/ Hear(c) \/ TimerFires(c)
  PROVE  LedgerInv' /\ UNCHANGED <<Life, Outcome>>
<1> USE DEF LedgerInv, LifeTypes, RowOfRun, Life, Outcome
<1>1. CASE Press(c)
  BY <1>1 DEF Press, Sent, server
<1>2. CASE Accept(c)
  BY <1>2 DEF Accept, Sent
<1>3. CASE Deny(c)
  BY <1>3 DEF Deny, Sent, server
<1>4. CASE Hear(c)
  <2>1. CASE HearQueued(c)
    BY <2>1 DEF HearQueued, Sent, server
  <2>2. CASE HearError(c) \/ HearGarbage(c)
    BY <2>2 DEF HearError, HearGarbage, GiveUp, Sent, server
  <2> QED BY <1>4, <2>1, <2>2 DEF Hear
<1>5. CASE TimerFires(c)
  BY <1>5 DEF TimerFires, server
<1> QED BY <1>1, <1>2, <1>3, <1>4, <1>5

(* What touches neither request nor run nor row is no step of the ledger. *)
LEMMA LedgerStutters ==
  ASSUME LedgerInv, UNCHANGED runs
  PROVE  LedgerInv' /\ UNCHANGED <<Life, Outcome>>
  BY DEF LedgerInv, LifeTypes, RowOfRun, Life, Outcome, runs

(* Begin and the ends of a run are those of the ledger. *)
LEMMA BeginStep ==
  ASSUME LedgerInv, NEW c \in Clicks, Begin(c)
  PROVE  LedgerInv' /\ Ledger!Begin(c)
  BY DEF LedgerInv, LifeTypes, RowOfRun, Begin, Life, Outcome, Ledger!Begin

(* A run that runs gets an outcome: End. *)
LEMMA EndStep ==
  ASSUME LedgerInv, NEW c \in Clicks, NEW outcome \in {"success", "partial", "failed"},
         run[c] = "running", End(c, outcome)
  PROVE  LedgerInv' /\ Ledger!End(c)
  BY DEF LedgerInv, LifeTypes, RowOfRun, End, Elsewhere, Life, Outcome, Ledger!End, Ledger!Outcomes

(* A run whose row cannot be written is lost alone... *)
LEMMA StrandStep ==
  ASSUME LedgerInv, NEW c \in Clicks, Strand(c)
  PROVE  LedgerInv' /\ Ledger!Lose({c})
<1>1. run[c] \in {"queued", "running"}
  BY DEF Strand, Works, Discovers, Finished
<1> QED BY <1>1 DEF LedgerInv, LifeTypes, RowOfRun, Strand, Elsewhere, Life, Outcome, Ledger!Lose

(* ... and a crash loses all that are queued or running at once. *)
LEMMA CrashStep ==
  ASSUME LedgerInv, Crash
  PROVE  LedgerInv' /\ Ledger!Lose({c \in Clicks : run[c] \in {"queued", "running"}})
  BY DEF LedgerInv, LifeTypes, RowOfRun, Crash, Life, Outcome, Ledger!Lose

(* A run at work keeps its row. *)
LEMMA WorkSteps ==
  ASSUME NEW c, Visit(c) \/ VisitFails(c) \/ Discover(c) \/ Lot(c) \/ Refuse(c)
  PROVE  UNCHANGED runs
  BY DEF Visit, VisitFails, Discover, Lot, Refuse, Now, Elsewhere, runs

(* Every step of Collection is one of the ledger or a stutter. *)
LEMMA StepOfLedger ==
  ASSUME LedgerInv, [Next]_vars
  PROVE  LedgerInv' /\ [Ledger!Next]_<<Life, Outcome>>
<1>1. CASE \E c \in Clicks : Press(c) \/ Accept(c) \/ Deny(c) \/ Hear(c) \/ TimerFires(c)
  BY <1>1, RequestSteps
<1>2. CASE \E c \in Clicks : Step(c)
  <2>1. PICK c \in Clicks : Step(c)
    BY <1>2
  <2>2. CASE Begin(c)
    BY <2>2, BeginStep DEF Ledger!Next
  <2>3. CASE Visit(c) \/ VisitFails(c) \/ Discover(c) \/ Lot(c) \/ Refuse(c)
    BY <2>3, WorkSteps, LedgerStutters
  <2>4. CASE EndRegular(c)
    BY <2>4, EndStep DEF EndRegular, Finished, Works, Ledger!Next
  <2>5. CASE EndFailed(c)
    BY <2>5, EndStep DEF EndFailed, Discovers, Finished, Works, Ledger!Next
  <2> QED BY <2>1, <2>2, <2>3, <2>4, <2>5 DEF Step
<1>3. CASE \E c \in Clicks : Strand(c)
  <2>1. PICK c \in Clicks : Strand(c)
    BY <1>3
  <2>2. {c} \in SUBSET Clicks
    OBVIOUS
  <2> QED BY <2>1, <2>2, StrandStep DEF Ledger!Next
<1>4. CASE AskAnalysis \/ AnalysisAsked \/ AnalysisCleared \/ Reload \/ Restart \/ UNCHANGED vars
  <2>1. UNCHANGED runs
    BY <1>4 DEF AskAnalysis, AnalysisAsked, AnalysisCleared, Reload, Restart, vars, server, runs
  <2> QED BY <2>1, LedgerStutters
<1>5. CASE Crash
  <2>1. {c \in Clicks : run[c] \in {"queued", "running"}} \in SUBSET Clicks
    OBVIOUS
  <2> QED BY <1>5, <2>1, CrashStep DEF Ledger!Next
<1> QED BY <1>1, <1>2, <1>3, <1>4, <1>5 DEF Next

(* For any clicks, sources, pages and crashes, the runs behind the buttons    *)
(* keep the ledger: a click begins one run at most, which ends once, and      *)
(* whatever a crash or a database cuts off gets no outcome later.             *)
THEOREM LedgerCorrect == Spec => IsLedger
<1>1. Init => LedgerInv /\ Ledger!Init
  BY LedgerInvInit
<1>2. LedgerInv /\ [Next]_vars => LedgerInv' /\ [Ledger!Next]_<<Life, Outcome>>
  BY StepOfLedger
<1> QED BY <1>1, <1>2, PTL DEF Spec, IsLedger, Ledger!Spec
-----------------------------------------------------------------------------
(***************************************************************************)
(* The history on the page.                                                *)
(***************************************************************************)

Recorded(c) == c \in Clicks /\ row[c] # "none"

StartedInv == started \in Seq(Clicks) /\ \A i \in DOMAIN started : Recorded(started[i])

(* A line of the history is a row, and an outcome it shows is the one there. *)
TrueLine(line) == Recorded(line.run) /\ (line.status # "running" => row[line.run] = line.status)

HistoryInv == LedgerInv /\ StartedInv /\ \A i \in DOMAIN history : TrueLine(history[i])

(* Rows are never taken back, and their outcomes are final. *)
OutcomesStay ==
    \A c \in Clicks : row[c] # "none" => row'[c] # "none" /\ (row[c] # "running" => row'[c] = row[c])

(* The rows that are left out are at most those there are. *)
LEMMA MaxOfTwo ==
  ASSUME NEW m \in Nat, NEW n \in Nat
  PROVE  Max({0, n - m}) \in 0 .. n
<1> DEFINE S == {0, n - m}
<1>1. \E x \in S : \A y \in S : x >= y
  <2>1. CASE n - m >= 0
    BY <2>1
  <2>2. CASE n - m < 0
    BY <2>2
  <2> QED BY <2>1, <2>2
<1>2. Max(S) \in S /\ \A y \in S : Max(S) >= y
  BY <1>1 DEF Max
<1> QED BY <1>2

(* The rows that are asked for are lines that are true now. *)
LEMMA NewestTrue ==
  ASSUME LedgerInv, StartedInv
  PROVE  \A i \in DOMAIN Newest : TrueLine(Newest[i])
<1> DEFINE m == 1 + Max({0, Len(started) - MaxShown})
           shown == SubSeq(started, m, Len(started))
<1>1. started \in Seq(Clicks) /\ Len(started) \in Nat
  BY DEF StartedInv
<1>2. m \in Int /\ m \in 1 .. Len(started) + 1
  <2>1. Max({0, Len(started) - MaxShown}) \in 0 .. Len(started)
    BY <1>1, MaxOfTwo, BoundsAssumption, Zenon
  <2> QED BY <1>1, <2>1
<1>3. shown \in Seq(Clicks) /\ \A i \in DOMAIN shown : \E j \in DOMAIN started : shown[i] = started[j]
  <2> HIDE DEF m
  <2>1. DOMAIN started = 1 .. Len(started)
    BY <1>1
  <2>2. \A i \in m .. Len(started) : i \in DOMAIN started
    BY <1>1, <1>2, <2>1
  <2>3. \A i \in m .. Len(started) : started[i] \in Clicks
    BY <1>1, <2>2
  <2>4. /\ shown \in Seq(Clicks)
        /\ Len(shown) = IF m <= Len(started) THEN Len(started) - m + 1 ELSE 0
        /\ \A i \in 1 .. Len(started) - m + 1 : shown[i] = started[m + i - 1]
    BY <1>1, <1>2, <2>3, SubSeqProperties
  <2>5. ASSUME NEW i \in DOMAIN shown
        PROVE  \E j \in DOMAIN started : shown[i] = started[j]
    <3>1. i \in 1 .. Len(started) - m + 1
      BY <1>1, <1>2, <2>4
    <3>2. m + i - 1 \in DOMAIN started
      BY <1>1, <1>2, <2>1, <3>1
    <3> QED BY <2>4, <3>1, <3>2
  <2> QED BY <2>4, <2>5
<1>4. \A i \in DOMAIN shown : Recorded(shown[i])
  BY <1>3 DEF StartedInv
<1>5. Newest = [i \in DOMAIN shown |-> [run |-> shown[i], status |-> row[shown[i]]]]
  BY DEF Newest, Rows
<1> QED BY <1>4, <1>5 DEF TrueLine

(* A step of a run other than its begin and its end leaves the table alone.  *)
LEMMA TableStays ==
  ASSUME [Next]_vars,
         ~ \E c \in Clicks : Begin(c) \/ EndRegular(c) \/ EndFailed(c)
  PROVE  UNCHANGED <<row, started>>
<1>1. CASE \E c \in Clicks : Press(c) \/ Accept(c) \/ Deny(c) \/ Hear(c) \/ TimerFires(c)
  BY <1>1 DEF Press, Accept, Deny, Hear, HearQueued, HearError, HearGarbage, TimerFires, server
<1>2. CASE \E c \in Clicks : Step(c)
  <2>1. PICK c \in Clicks : Visit(c) \/ VisitFails(c) \/ Discover(c) \/ Lot(c) \/ Refuse(c)
    BY <1>2 DEF Step
  <2> QED BY <2>1 DEF Visit, VisitFails, Discover, Lot, Refuse, Now
<1>3. CASE \E c \in Clicks : Strand(c)
  BY <1>3 DEF Strand
<1>4. CASE AskAnalysis \/ AnalysisAsked \/ AnalysisCleared \/ Reload \/ UNCHANGED vars
  BY <1>4 DEF AskAnalysis, AnalysisAsked, AnalysisCleared, Reload, vars, server
<1>5. CASE Crash \/ Restart
  BY <1>5 DEF Crash, Restart
<1> QED BY <1>1, <1>2, <1>3, <1>4, <1>5 DEF Next

(* The table grows by the row of a run that begins. *)
LEMMA RowBegins ==
  ASSUME LedgerInv, StartedInv, NEW c \in Clicks, Begin(c)
  PROVE  OutcomesStay /\ StartedInv'
<1>1. row[c] = "none" /\ row' = [row EXCEPT ![c] = "running"] /\ started' = Append(started, c)
  BY DEF LedgerInv, RowOfRun, Begin
<1>2. row \in [Clicks -> {"none", "running", "success", "partial", "failed"}]
  BY DEF LedgerInv, LifeTypes
<1>3. OutcomesStay
  BY <1>1, <1>2 DEF OutcomesStay
<1>4. started' \in Seq(Clicks) /\ Len(started') = Len(started) + 1
  BY <1>1 DEF StartedInv
<1>5. ASSUME NEW i \in DOMAIN started'
      PROVE  started'[i] \in Clicks /\ row'[started'[i]] # "none"
  <2>1. CASE i \in DOMAIN started
    <3>1. started'[i] = started[i]
      BY <1>1, <2>1 DEF StartedInv
    <3>2. started[i] \in Clicks /\ row[started[i]] # "none"
      BY <2>1 DEF StartedInv, Recorded
    <3> QED BY <1>3, <3>1, <3>2 DEF OutcomesStay
  <2>2. CASE i \notin DOMAIN started
    <3>1. i = Len(started) + 1
      BY <1>4, <2>2 DEF StartedInv
    <3>2. started'[i] = c
      BY <1>1, <3>1 DEF StartedInv
    <3> QED BY <1>1, <1>2, <3>2
  <2> QED BY <2>1, <2>2
<1> QED BY <1>3, <1>4, <1>5 DEF StartedInv, Recorded

(* An outcome is written over "running" only. *)
LEMMA RowEnds ==
  ASSUME LedgerInv, StartedInv, NEW c \in Clicks, EndRegular(c) \/ EndFailed(c)
  PROVE  OutcomesStay /\ StartedInv'
<1>1. row[c] = "running"
  BY DEF LedgerInv, RowOfRun, EndRegular, EndFailed, Finished, Discovers, Works
<1>2. PICK outcome \in {"success", "partial", "failed"} :
        row' = [row EXCEPT ![c] = outcome] /\ started' = started
  BY DEF EndRegular, EndFailed, End
<1>3. OutcomesStay
  BY <1>1, <1>2 DEF OutcomesStay, LedgerInv, LifeTypes
<1> QED BY <1>2, <1>3 DEF OutcomesStay, StartedInv, Recorded

(* Every step keeps outcomes and the order of the rows. *)
LEMMA TableStep ==
  ASSUME LedgerInv, StartedInv, [Next]_vars
  PROVE  OutcomesStay /\ StartedInv'
<1>1. CASE \E c \in Clicks : Begin(c) \/ EndRegular(c) \/ EndFailed(c)
  BY <1>1, RowBegins, RowEnds
<1>2. CASE ~ \E c \in Clicks : Begin(c) \/ EndRegular(c) \/ EndFailed(c)
  BY <1>2, TableStays DEF OutcomesStay, StartedInv, Recorded
<1> QED BY <1>1, <1>2

(* Only a rendering of the page changes its history. *)
LEMMA PageStays ==
  ASSUME [Next]_vars, ~Reload
  PROVE  UNCHANGED history
<1>1. CASE \E c \in Clicks : Press(c) \/ Accept(c) \/ Deny(c) \/ Hear(c) \/ TimerFires(c)
  BY <1>1 DEF Press, Accept, Deny, Hear, HearQueued, HearError, HearGarbage, TimerFires
<1>2. CASE \E c \in Clicks : Step(c)
  <2>1. PICK c \in Clicks : Step(c)
    BY <1>2
  <2>2. CASE Begin(c) \/ EndRegular(c) \/ EndFailed(c)
    BY <2>2 DEF Begin, EndRegular, EndFailed, End, Elsewhere
  <2>3. CASE Visit(c) \/ VisitFails(c) \/ Discover(c) \/ Lot(c) \/ Refuse(c)
    BY <2>3 DEF Visit, VisitFails, Discover, Lot, Refuse, Elsewhere
  <2> QED BY <2>1, <2>2, <2>3 DEF Step
<1>3. CASE \E c \in Clicks : Strand(c)
  BY <1>3 DEF Strand, Elsewhere
<1>4. CASE AskAnalysis \/ AnalysisAsked \/ AnalysisCleared \/ UNCHANGED vars
  BY <1>4 DEF AskAnalysis, AnalysisAsked, AnalysisCleared, vars
<1>5. CASE Crash \/ Restart
  BY <1>5 DEF Crash, Restart
<1> QED BY <1>1, <1>2, <1>3, <1>4, <1>5 DEF Next

(* The history stays true: what it shows is final, or is read anew. *)
LEMMA HistoryStep ==
  ASSUME HistoryInv, [Next]_vars
  PROVE  HistoryInv'
<1>1. LedgerInv' /\ OutcomesStay /\ StartedInv'
  BY StepOfLedger, TableStep DEF HistoryInv
<1>2. CASE ~Reload
  <2>1. history' = history
    BY <1>2, PageStays
  <2>2. \A i \in DOMAIN history : TrueLine(history[i])'
    BY <1>1, <2>1 DEF HistoryInv, TrueLine, Recorded, OutcomesStay
  <2> QED BY <1>1, <2>1, <2>2 DEF HistoryInv
<1>3. CASE Reload
  <2>1. row' = row
    BY <1>3 DEF Reload, server
  <2>2. \A i \in DOMAIN history' : TrueLine(history'[i])
    <3>1. CASE history' = Newest
      BY <3>1, NewestTrue DEF HistoryInv
    <3>2. CASE history' = <<>>
      BY <3>2
    <3> QED BY <1>3, <3>1, <3>2 DEF Reload
  <2> QED BY <1>1, <2>1, <2>2 DEF HistoryInv, TrueLine, Recorded
<1> QED BY <1>2, <1>3

(* However old the history on the page is, and whatever the runs in it have  *)
(* become since, an outcome it shows is the one on record, and every run in  *)
(* it is there (scrape_jobs.py:37-61, apps/web/app/scrapers/page.tsx:59).    *)
THEOREM HistoryCorrect == Spec => []HistoryTrue
<1>1. Init => HistoryInv
  <2>1. Init => LedgerInv /\ started = <<>> /\ history = <<>>
    BY LedgerInvInit DEF Init
  <2> QED BY <2>1 DEF HistoryInv, StartedInv
<1>2. HistoryInv /\ [Next]_vars => HistoryInv'
  BY HistoryStep
<1>3. HistoryInv => HistoryTrue
  BY DEF HistoryInv, TrueLine, Recorded, HistoryTrue
<1> QED BY <1>1, <1>2, <1>3, PTL DEF Spec

-----------------------------------------------------------------------------
(***************************************************************************)
(* Reading a page, link by link.                                           *)
(***************************************************************************)

(* What reading a page has come to. *)
Readings == [seen : SUBSET Urls, found : Seq(Urls), raised : BOOLEAN]

Unread(seen) == [seen |-> seen, found |-> <<>>, raised |-> FALSE]

(* The sets of links that have been read, as FoldLeft goes through them. *)
Reads(g, s, page, seen) ==
    g = [S \in SUBSET DOMAIN page |->
            IF S = {} THEN Unread(seen) ELSE ReadLink(s, g[S \ {Max(S)}], page[Max(S)])]

LEMMA ExtractReads ==
  ASSUME NEW s, NEW page, NEW seen
  PROVE  Extract(s, page, seen) = (CHOOSE g : Reads(g, s, page, seen))[DOMAIN page]
  BY DEF Extract, FoldLeft, MapThenFoldSet, Reads, Unread

(* A link makes a reading of a reading. *)
LEMMA ReadType ==
  ASSUME NEW s, NEW r \in Readings, NEW link \in Link
  PROVE  ReadLink(s, r, link) \in Readings
<1>1. Append(r.found, link.url) \in Seq(Urls) /\ link.url \in Urls
  BY DEF Readings, Link
<1> QED BY <1>1 DEF Readings, ReadLink

(* A page is read link by link, from its first to its last. *)
ReadInOrder(h, s, page, n, seen) ==
    /\ h \in [0..n -> Readings]
    /\ h[0] = Unread(seen)
    /\ \A k \in 1..n : h[k] = ReadLink(s, h[k - 1], page[k])

LEMMA PageInOrder ==
  ASSUME NEW s, NEW n \in Nat, NEW page \in [1..n -> Link], NEW seen \in SUBSET Urls
  PROVE  \E h : ReadInOrder(h, s, page, n, seen) /\ Extract(s, page, seen) = h[n]
<1> DEFINE G == [p \in (1..n) \X Readings |-> ReadLink(s, p[2], page[p[1]])]
           c == [S \in SUBSET (1..n) |-> IF S = {} THEN 0 ELSE Max(S)]
           b == Unread(seen)
<1>1. ASSUME NEW S \in SUBSET (1..n), S # {}
      PROVE  Max(S) \in S /\ \A k \in S : Max(S) >= k
  <2>1. IsFiniteSet(S) /\ S \in SUBSET Nat
    <3>1. IsFiniteSet(1..n) /\ 1..n \subseteq Nat
      BY FS_Interval
    <3> QED BY <3>1, FS_Subset
  <2>2. \E m \in S : \A k \in S : k <= m
    BY <1>1, <2>1, Greatest
  <2>3. \E m \in S : \A k \in S : m >= k
    BY <2>1, <2>2
  <2> QED BY <2>3 DEF Max
<1>2. \A k \in 1..n : Max(1..k) = k
  <2> SUFFICES ASSUME NEW k \in 1..n PROVE Max(1..k) = k
    OBVIOUS
  <2>1. 1..k \in SUBSET (1..n) /\ 1..k # {} /\ k \in 1..k
    OBVIOUS
  <2>2. Max(1..k) \in 1..k /\ Max(1..k) >= k
    BY <1>1, <2>1
  <2> QED BY <2>2
<1>3. \A k \in 1..n : c[1..k] = k
  <2> SUFFICES ASSUME NEW k \in 1..n PROVE c[1..k] = k
    OBVIOUS
  <2>1. 1..k \in SUBSET (1..n) /\ 1..k # {}
    OBVIOUS
  <2> QED BY <1>2, <2>1
<1>4. FoldsIn(G, b, c, 1..n, Readings)
  <2>1. b \in Readings
    BY DEF Readings, Unread
  <2>2. G \in [(1..n) \X Readings -> Readings]
    BY ReadType
  <2>3. \A S \in SUBSET (1..n) : S # {} => c[S] \in S
    BY <1>1
  <2> HIDE DEF G, c, b
  <2> QED BY <2>1, <2>2, <2>3 DEF FoldsIn
<1>5. PICK f \in [SUBSET (1..n) -> Readings] : Folds(f, G, b, c, 1..n)
  <2>1. IsFiniteSet(1..n)
    BY FS_Interval
  <2> HIDE DEF G, c, b
  <2> QED BY <1>4, <2>1, FoldExists, Zenon
<1>6. Reads(f, s, page, seen)
  <2>1. \A S \in SUBSET (1..n) : S # {} => c[S] = Max(S) /\ Max(S) \in 1..n /\ S \ {Max(S)} \in SUBSET (1..n)
    BY <1>1
  <2>2. \A S \in SUBSET (1..n) : S # {} =>
          G[c[S], f[S \ {c[S]}]] = ReadLink(s, f[S \ {Max(S)}], page[Max(S)])
    BY <2>1
  <2> HIDE DEF G, c
  <2> QED BY <1>5, <2>2 DEF Reads, Folds
<1> DEFINE g == CHOOSE g : Reads(g, s, page, seen)
           h == [k \in 0..n |-> g[1..k]]
<1>7. Reads(g, s, page, seen)
  BY <1>6
<1> HIDE DEF g
<1>8. \A S \in SUBSET (1..n) :
        g[S] = IF S = {} THEN Unread(seen) ELSE ReadLink(s, g[S \ {Max(S)}], page[Max(S)])
  BY <1>7 DEF Reads
<1>9. h[0] = Unread(seen)
  <2>1. 1..0 = {} /\ {} \in SUBSET (1..n)
    OBVIOUS
  <2>2. g[{}] = Unread(seen)
    BY <1>8, <2>1
  <2>3. h[0] = g[1..0]
    OBVIOUS
  <2> QED BY <2>1, <2>2, <2>3
<1>10. ASSUME NEW k \in 1..n PROVE h[k] = ReadLink(s, h[k - 1], page[k])
  <2>1. 1..k \in SUBSET (1..n) /\ 1..k # {} /\ (1..k) \ {k} = 1..(k - 1) /\ k - 1 \in 0..n
    OBVIOUS
  <2>2. g[1..k] = ReadLink(s, g[1..(k - 1)], page[k])
    BY <1>2, <1>8, <2>1
  <2> QED BY <2>1, <2>2
<1> DEFINE good == {k \in 0..n : h[k] \in Readings}
<1>11. good = 0..n
  <2>1. 0 \in good
    <3>1. Unread(seen) \in Readings
      BY DEF Readings, Unread
    <3> HIDE DEF h
    <3> QED BY <1>9, <3>1
  <2>2. \A k \in 1..n : k - 1 \in good => k \in good
    <3> HIDE DEF h
    <3> QED BY <1>10, ReadType
  <2>3. good \in SUBSET (0..n)
    OBVIOUS
  <2> HIDE DEF good
  <2> QED BY <2>1, <2>2, <2>3, UpTo
<1>12. ReadInOrder(h, s, page, n, seen)
  <2>1. h \in [0..n -> Readings]
    BY <1>11
  <2> HIDE DEF h
  <2> QED BY <1>9, <1>10, <2>1 DEF ReadInOrder
<1>13. Extract(s, page, seen) = h[n]
  <2>1. DOMAIN page = 1..n
    OBVIOUS
  <2>2. Extract(s, page, seen) = g[1..n]
    BY <2>1, ExtractReads DEF g
  <2> QED BY <2>2
<1> HIDE DEF h
<1> QED BY <1>12, <1>13

(* Found at one place only, and not before. *)
Apart(r, seen) ==
    /\ seen \subseteq r.seen
    /\ \A i \in 1..Len(r.found) : r.found[i] \in r.seen \ seen
    /\ \A i, j \in 1..Len(r.found) : r.found[i] = r.found[j] => i = j

(* A link whose URL is remembered keeps what is found apart. *)
LEMMA ReadApart ==
  ASSUME NEW s, "complete" \in Marked(s), NEW r \in Readings, NEW link \in Link, NEW seen,
         Apart(r, seen)
  PROVE  Apart(ReadLink(s, r, link), seen)
<1> DEFINE next == ReadLink(s, r, link)
<1>1. r.found \in Seq(Urls) /\ Len(r.found) \in Nat
  BY DEF Readings
<1>2. CASE r.raised \/ link.url \in r.seen
  BY <1>2 DEF ReadLink
<1>3. CASE ~(r.raised \/ link.url \in r.seen) /\ link.text = "complete"
  <2>1. next.seen = r.seen \cup {link.url} /\ next.found = Append(r.found, link.url) /\ link.url \notin r.seen
    BY <1>3 DEF ReadLink
  <2>2. /\ Len(next.found) = Len(r.found) + 1
        /\ next.found[Len(r.found) + 1] = link.url
        /\ \A i \in 1..Len(r.found) : next.found[i] = r.found[i]
    BY <1>1, <2>1
  <2>3. \A i \in 1..Len(next.found) : i \in 1..Len(r.found) \/ i = Len(r.found) + 1
    BY <1>1, <2>2
  <2> HIDE DEF next
  <2>4. seen \subseteq next.seen /\ link.url \in next.seen \ seen
    BY <2>1 DEF Apart
  <2>5. \A i \in 1..Len(next.found) : next.found[i] \in next.seen \ seen
    BY <2>1, <2>2, <2>3, <2>4 DEF Apart
  <2>6. \A i, j \in 1..Len(next.found) : next.found[i] = next.found[j] => i = j
    BY <2>1, <2>2, <2>3 DEF Apart
  <2> QED BY <2>4, <2>5, <2>6 DEF Apart, next
<1>4. CASE ~(r.raised \/ link.url \in r.seen) /\ link.text # "complete"
  <2>1. r.seen \subseteq next.seen /\ next.found = r.found
    BY <1>4 DEF ReadLink
  <2> HIDE DEF next
  <2>2. Apart(next, seen)
    BY <2>1 DEF Apart
  <2> QED BY <2>2 DEF next
<1> QED BY <1>2, <1>3, <1>4

(* Where listings are remembered, a page yields each of its listings once,   *)
(* and none that was seen before.                                            *)
LEMMA FoundOnce ==
  ASSUME NEW s, "complete" \in Marked(s), NEW n \in Nat, NEW page \in [1..n -> Link],
         NEW seen \in SUBSET Urls
  PROVE  Apart(Extract(s, page, seen), seen)
<1>1. PICK h : ReadInOrder(h, s, page, n, seen) /\ Extract(s, page, seen) = h[n]
  BY PageInOrder
<1> DEFINE good == {k \in 0..n : Apart(h[k], seen)}
<1>2. 0 \in good
  <2>1. Apart(Unread(seen), seen)
    BY DEF Apart, Unread
  <2> QED BY <1>1, <2>1 DEF ReadInOrder
<1>3. ASSUME NEW k \in 1..n, k - 1 \in good PROVE k \in good
  <2>1. h[k - 1] \in Readings /\ page[k] \in Link /\ h[k] = ReadLink(s, h[k - 1], page[k])
    BY <1>1, <1>3 DEF ReadInOrder
  <2>2. Apart(h[k], seen)
    BY <1>3, <2>1, ReadApart
  <2> QED BY <2>2
<1>4. good = 0..n
  <2>1. good \in SUBSET (0..n)
    OBVIOUS
  <2> HIDE DEF good
  <2> QED BY <1>2, <1>3, <2>1, UpTo
<1>5. n \in good
  BY <1>4
<1> QED BY <1>1, <1>5

(* Different members, none of them in a set. *)
Lists(found, n, T, by) ==
    /\ T = {found[i] : i \in 1..n}
    /\ \A i \in 1..n : found[i] \notin by
    /\ \A i, j \in 1..n : found[i] = found[j] => i = j

(* As many different listings are stored as there were places. *)
LEMMA StoredOnce ==
  ASSUME NEW by, IsFiniteSet(by), NEW found, NEW n \in Nat, NEW T, Lists(found, n, T, by)
  PROVE  IsFiniteSet(by \cup T) /\ Cardinality(by \cup T) = Cardinality(by) + n
<1> USE DEF Lists
<1> DEFINE f == [i \in 1..n |-> found[i]]
<1>1. IsFiniteSet(1..n) /\ Cardinality(1..n) = n
  BY FS_Interval
<1>2. f \in Surjection(1..n, T) /\ f \in Injection(1..n, T)
  <2>1. f \in [1..n -> T] /\ \A t \in T : \E i \in 1..n : f[i] = t
    OBVIOUS
  <2>2. \A i, j \in 1..n : f[i] = f[j] => i = j
    OBVIOUS
  <2> HIDE DEF f
  <2> QED BY <2>1, <2>2 DEF Surjection, Injection, IsInjective
<1>3. IsFiniteSet(T) /\ Cardinality(T) = n
  <2> HIDE DEF f
  <2> QED BY <1>1, <1>2, FS_Surjection
<1>4. by \cap T = {}
  OBVIOUS
<1>5. /\ IsFiniteSet(by \cup T)
      /\ Cardinality(by \cup T) = Cardinality(by) + Cardinality(T) - Cardinality(by \cap T)
  <2> QED BY <1>3, FS_Union
<1>6. Cardinality(by \cap T) = 0 /\ Cardinality(by) \in Nat
  BY <1>4, FS_EmptySet, FS_CardinalityType
<1> QED BY <1>3, <1>5, <1>6

-----------------------------------------------------------------------------
(***************************************************************************)
(* What a page shows complete is found or known to be missed.              *)
(***************************************************************************)

Found(r) == {r.found[i] : i \in 1..Len(r.found)}

(* The first k links of a page are accounted for: what they show complete,   *)
(* and what has been remembered, is found or known.                          *)
Told(r, page, k, known) ==
    \/ r.raised = TRUE
    \/ /\ r.seen \subseteq known \cup Found(r)
       /\ \A i \in 1..k : page[i].text = "complete" => page[i].url \in known \cup Found(r)

(* A link that is remembered without being complete, or complete, is known.  *)
LEMMA ReadTold ==
  ASSUME NEW s, NEW n, NEW page \in [1..n -> Link], NEW k \in Nat, k + 1 \in 1..n,
         NEW r \in Readings, NEW known, Told(r, page, k, known),
         page[k + 1].text \in Marked(s) \ {"complete", "garbled"} =>
            page[k + 1].url \in known \cup {page[i].url : i \in {j \in 1..k : page[j].text = "complete"}}
  PROVE  Told(ReadLink(s, r, page[k + 1]), page, k + 1, known)
<1> DEFINE link == page[k + 1]
           next == ReadLink(s, r, link)
<1>1. r.found \in Seq(Urls) /\ Len(r.found) \in Nat /\ r.raised \in BOOLEAN /\ link \in Link
  BY DEF Readings
<1>2. CASE r.raised = TRUE
  <2>1. next = r
    BY <1>2 DEF ReadLink
  <2> QED BY <1>2, <2>1 DEF Told
<1> SUFFICES ASSUME r.raised = FALSE PROVE Told(next, page, k + 1, known)
  BY <1>1, <1>2
<1>3. /\ r.seen \subseteq known \cup Found(r)
      /\ \A i \in 1..k : page[i].text = "complete" => page[i].url \in known \cup Found(r)
  BY DEF Told
<1>4. \A i \in 1..(k + 1) : i \in 1..k \/ i = k + 1
  OBVIOUS
<1>5. CASE link.url \in r.seen
  <2>1. next = r
    BY <1>5 DEF ReadLink
  <2>2. link.url \in known \cup Found(r)
    BY <1>3, <1>5
  <2>3. \A i \in 1..(k + 1) : page[i].text = "complete" => page[i].url \in known \cup Found(r)
    BY <1>3, <1>4, <2>2
  <2> HIDE DEF next
  <2> QED BY <1>3, <2>1, <2>3 DEF Told
<1>6. CASE link.url \notin r.seen /\ link.text = "garbled"
  <2>1. next.raised = TRUE
    BY <1>6 DEF ReadLink
  <2> HIDE DEF next
  <2> QED BY <2>1 DEF Told
<1>7. CASE link.url \notin r.seen /\ link.text = "complete"
  <2>1. next.found = Append(r.found, link.url) /\ next.seen \subseteq r.seen \cup {link.url}
    BY <1>7 DEF ReadLink
  <2>2. Found(next) = Found(r) \cup {link.url}
    <3>1. /\ Len(next.found) = Len(r.found) + 1
          /\ next.found[Len(r.found) + 1] = link.url
          /\ \A i \in 1..Len(r.found) : next.found[i] = r.found[i]
      BY <1>1, <2>1
    <3>2. \A i : i \in 1..Len(next.found) <=> i \in 1..Len(r.found) \/ i = Len(r.found) + 1
      BY <1>1, <3>1
    <3> HIDE DEF next, link
    <3> QED BY <3>1, <3>2 DEF Found
  <2>3. \A i \in 1..(k + 1) : page[i].text = "complete" => page[i].url \in known \cup Found(next)
    BY <1>3, <1>4, <2>2
  <2> HIDE DEF next
  <2> QED BY <1>3, <2>1, <2>2, <2>3 DEF Told
<1>8. CASE link.url \notin r.seen /\ link.text \notin {"complete", "garbled"}
  <2>1. /\ next.found = r.found
        /\ next.seen = IF link.text \in Marked(s) THEN r.seen \cup {link.url} ELSE r.seen
    BY <1>8 DEF ReadLink
  <2>2. Found(next) = Found(r)
    BY <2>1 DEF Found
  <2>3. link.text \in Marked(s) => link.url \in known \cup Found(r)
    BY <1>3, <1>8
  <2>4. \A i \in 1..(k + 1) : page[i].text = "complete" => page[i].url \in known \cup Found(r)
    BY <1>3, <1>4, <1>8
  <2> HIDE DEF next
  <2> QED BY <1>3, <2>1, <2>2, <2>3, <2>4 DEF Told
<1> QED BY <1>5, <1>6, <1>7, <1>8

(* The links before the k-th. *)
LEMMA CompleteBefore ==
  ASSUME NEW n \in Nat, NEW page \in [1..n -> Link], NEW k \in 1..n
  PROVE  CompleteIn(SubSeq(page, 1, k - 1)) = {page[i].url : i \in {j \in 1..(k - 1) : page[j].text = "complete"}}
<1> DEFINE first == SubSeq(page, 1, k - 1)
<1>1. page \in Seq(Link) /\ Len(page) = n
  OBVIOUS
<1>2. \A i \in 1..(k - 1) : page[i] \in Link
  OBVIOUS
<1>3. /\ first \in Seq(Link)
      /\ Len(first) = k - 1
      /\ \A i \in 1..(k - 1) : first[i] = page[i]
  <2>1. 1 \in Int /\ k - 1 \in Int
    OBVIOUS
  <2>2. \A i \in 1..(k - 1) : page[i] \in Link
    OBVIOUS
  <2>3. /\ first \in Seq(Link)
        /\ Len(first) = IF 1 <= k - 1 THEN k - 1 - 1 + 1 ELSE 0
        /\ \A i \in 1..(k - 1 - 1 + 1) : first[i] = page[1 + i - 1]
    BY <2>1, <2>2, SubSeqProperties
  <2>4. 0 <= k - 1 /\ \A i \in 1..(k - 1) : i \in 1..(k - 1 - 1 + 1) /\ page[1 + i - 1] = page[i]
    OBVIOUS
  <2> HIDE DEF first
  <2> QED BY <2>3, <2>4
<1>4. DOMAIN first = 1..(k - 1)
  BY <1>3
<1> HIDE DEF first
<1>5. \A i \in DOMAIN first : first[i] = page[i]
  BY <1>3, <1>4
<1> QED BY <1>4, <1>5 DEF CompleteIn, first

(* What a run has found so far, and what its source is known to miss. *)
Known(w, page) == w.by \cup w.spoilt \cup SpoiltIn(w, page)

Holds(w) ==
    /\ w.shown \subseteq w.by \cup w.spoilt
    /\ w.seen \subseteq w.by \cup w.spoilt

(* A page that raises nothing is found, or known, as far as it is complete,  *)
(* and what is remembered of it is found or known.                           *)
LEMMA PageTold ==
  ASSUME source \in PageScrapers, NEW w, w.seen \in SUBSET Urls, Holds(w),
         NEW n \in Nat, NEW page \in [1..n -> Link]
  PROVE  Told(Extract(source, page, w.seen), page, n, Known(w, page))
<1> DEFINE known == Known(w, page)
           seen == w.seen
<1>1. PICK h : ReadInOrder(h, source, page, n, seen) /\ Extract(source, page, seen) = h[n]
  BY PageInOrder
<1> DEFINE good == {k \in 0..n : Told(h[k], page, k, known)}
<1>2. 0 \in good
  <2>1. seen \subseteq known
    BY DEF Holds, Known
  <2>2. Unread(seen).seen = seen
    BY DEF Unread
  <2> HIDE DEF known, seen
  <2>3. Told(Unread(seen), page, 0, known)
    BY <2>1, <2>2 DEF Told
  <2> QED BY <1>1, <2>3 DEF ReadInOrder
<1>3. ASSUME NEW k \in 0..n, k + 1 \in 1..n, Told(h[k], page, k, known)
      PROVE  Told(h[k + 1], page, k + 1, known)
  <2> DEFINE before == {page[i].url : i \in {j \in 1..k : page[j].text = "complete"}}
             link == page[k + 1]
  <2>1. link.text \in Marked(source) \ {"complete", "garbled"} => link.text \in Hides
    BY DEF Marked, Hides, PageScrapers, Texts, Link
  <2>2. link.text \in Hides => link.url \in w.shown \cup before \cup SpoiltIn(w, page)
    <3>1. CompleteIn(SubSeq(page, 1, (k + 1) - 1)) = {page[i].url : i \in {j \in 1..((k + 1) - 1) : page[j].text = "complete"}}
      BY <1>3, CompleteBefore
    <3>2. (k + 1) - 1 = k /\ k + 1 \in DOMAIN page
      BY <1>3
    <3>3. CompleteIn(SubSeq(page, 1, (k + 1) - 1)) = before
      BY <3>1, <3>2
    <3> HIDE DEF before
    <3> QED BY <3>2, <3>3 DEF SpoiltIn
  <2>3. w.shown \subseteq known /\ SpoiltIn(w, page) \subseteq known
    BY DEF Holds, Known
  <2>4. link.text \in Marked(source) \ {"complete", "garbled"} => link.url \in known \cup before
    <3> HIDE DEF known, before, link
    <3> QED BY <2>1, <2>2, <2>3
  <2>5. /\ h[k] \in Readings /\ h[(k + 1) - 1] = h[k]
        /\ h[k + 1] = ReadLink(source, h[(k + 1) - 1], page[k + 1])
    BY <1>1, <1>3 DEF ReadInOrder
  <2>6. Told(ReadLink(source, h[k], page[k + 1]), page, k + 1, known)
    <3> HIDE DEF known
    <3> QED BY <1>3, <2>4, <2>5, ReadTold
  <2> QED BY <2>5, <2>6
<1>4. good = 0..n
  <2>1. good \in SUBSET (0..n)
    OBVIOUS
  <2>2. ASSUME NEW k \in 1..n, k - 1 \in good PROVE k \in good
    <3>1. k - 1 \in 0..n /\ (k - 1) + 1 = k /\ (k - 1) + 1 \in 1..n
      OBVIOUS
    <3>2. Told(h[k - 1], page, k - 1, known)
      BY <2>2
    <3> HIDE DEF known
    <3>3. Told(h[(k - 1) + 1], page, (k - 1) + 1, known)
      BY <1>3, <3>1, <3>2
    <3> QED BY <3>1, <3>3
  <2> HIDE DEF good
  <2> QED BY <1>2, <2>1, <2>2, UpTo
<1>5. n \in good
  BY <1>4
<1>6. Told(h[n], page, n, known)
  BY <1>5
<1> HIDE DEF good
<1> QED BY <1>1, <1>6

-----------------------------------------------------------------------------
(***************************************************************************)
(* What a run keeps.                                                       *)
(***************************************************************************)

WorkShapes == [left : Nat, seen : SUBSET Urls, queue : SUBSET Urls, collected : Nat, stored : Nat,
               failed : BOOLEAN, by : SUBSET Urls, shown : SUBSET Urls, spoilt : SUBSET Urls,
               refused : SUBSET Signs]

(* What is stored, or waits to be visited, is remembered, and apart.         *)
Once(w) ==
    /\ w.queue \subseteq w.seen /\ w.queue \cap w.by = {}
    /\ source \in PageScrapers => w.queue = {}
    /\ source # "quintoandar" => w.by \subseteq w.seen /\ w.stored = Cardinality(w.by)

(* What was collected and not stored was lost to an error. *)
Adding(w) ==
    /\ w.stored <= w.collected
    /\ source \in PageScrapers /\ w.stored < w.collected => w.failed = TRUE

(* Unless an error has been counted, what was shown complete is stored, or   *)
(* known to be missed, and nothing else is remembered.                       *)
Complete(w) ==
    \/ w.failed = TRUE
    \/ /\ w.shown \subseteq w.by \cup w.spoilt
       /\ source \in PageScrapers => w.seen \subseteq w.by \cup w.spoilt
       /\ w.refused \cap Noticed(source) = {}

Good(w) == w \in WorkShapes /\ IsFiniteSet(w.by) /\ Once(w) /\ Adding(w) /\ Complete(w)

(* A run that has not begun, or is over, keeps nothing. *)
LEMMA NothingIsGood ==
  Good(NoWork)
<1>1. NoWork \in WorkShapes
  BY DEF NoWork, WorkShapes
<1>2. IsFiniteSet({}) /\ Cardinality({}) = 0
  BY FS_EmptySet
<1> QED BY <1>1, <1>2 DEF NoWork, Good, Once, Adding, Complete

(* A run begins with its pages to go, and the lots it knows. *)
LEMMA FreshIsGood ==
  ASSUME source \in Sources PROVE Good(Fresh)
<1>1. StartPages[source] \in Nat /\ Seeds[source] \in SUBSET Urls /\ (source \in PageScrapers => Seeds[source] = {})
  BY SourcesAssumption
<1>2. Fresh \in WorkShapes /\ Fresh.seen = Seeds[source] /\ Fresh.queue = Seeds[source]
      /\ Fresh.by = {} /\ Fresh.shown = {} /\ Fresh.stored = 0 /\ Fresh.collected = 0 /\ Fresh.refused = {}
  BY <1>1 DEF Fresh, NoWork, WorkShapes
<1>3. IsFiniteSet({}) /\ Cardinality({}) = 0
  BY FS_EmptySet
<1> HIDE DEF Fresh
<1> QED BY <1>1, <1>2, <1>3 DEF Good, Once, Adding, Complete

(* A page that a page scraper gets. *)
LEMMA ReadIsGood ==
  ASSUME source \in PageScrapers, NEW w, Good(w), w.left > 0, NEW n \in Nat, NEW page \in [1..n -> Link],
         NEW read, read = Extract(source, page, w.seen), read \in Readings, read.raised = FALSE,
         NEW m \in 0..Len(read.found)
  PROVE  Good(Stored(Turned(w, page, read.seen), read.found, m))
<1> DEFINE next == Stored(Turned(w, page, read.seen), read.found, m)
           stored == {read.found[i] : i \in 1..m}
<1> USE DEF Good
<1>1. read.found \in Seq(Urls) /\ Len(read.found) \in Nat /\ read.seen \in SUBSET Urls
  BY DEF Readings
<1>2. CompleteIn(page) \subseteq Urls /\ SpoiltIn(w, page) \subseteq Urls
  BY DEF CompleteIn, SpoiltIn, Link
<1>3. w \in WorkShapes /\ w.left - 1 \in Nat /\ w.collected + Len(read.found) \in Nat /\ w.stored + m \in Nat
  BY <1>1 DEF WorkShapes
<1>4. /\ next.seen = read.seen /\ next.queue = w.queue
      /\ next.collected = w.collected + Len(read.found) /\ next.stored = w.stored + m
      /\ next.by = w.by \cup stored
      /\ next.shown = w.shown \cup CompleteIn(page) /\ next.spoilt = w.spoilt \cup SpoiltIn(w, page)
      /\ next.refused = w.refused
  BY <1>3 DEF WorkShapes, Turned, Stored
<1>5. next.failed = (w.failed \/ m < Len(read.found))
  BY <1>3 DEF WorkShapes, Turned, Stored
<1>6. stored \subseteq Urls
  BY <1>1
<1>7. next \in WorkShapes
  <2> DEFINE turned == Turned(w, page, read.seen)
             raised == w.failed \/ m < Len(read.found)
  <2>1. turned \in WorkShapes
    BY <1>1, <1>2, <1>3 DEF WorkShapes, Turned
  <2>2. next = [turned EXCEPT !.collected = w.collected + Len(read.found), !.stored = w.stored + m,
                              !.by = w.by \cup stored, !.failed = raised]
    BY <1>3 DEF WorkShapes, Turned, Stored
  <2>3. w.by \cup stored \in SUBSET Urls /\ raised \in BOOLEAN
    BY <1>3, <1>6 DEF WorkShapes
  <2> HIDE DEF turned, next, stored, raised, Good
  <2> QED BY <1>3, <2>1, <2>2, <2>3 DEF WorkShapes
<1> HIDE DEF next
<1>8. IsFiniteSet(next.by)
  <2>1. IsFiniteSet(1..m)
    <3>1. 1 \in Int /\ m \in Int
      BY <1>1
    <3> QED BY <3>1, FS_Interval
  <2>2. IsFiniteSet(stored)
    BY <2>1, FinitelyMany
  <2> HIDE DEF stored
  <2>3. IsFiniteSet(w.by)
    OBVIOUS
  <2>4. IsFiniteSet(w.by \cup stored)
    BY <2>2, <2>3, FS_Union
  <2> QED BY <1>4, <2>4
<1>9. Once(next)
  <2>1. next.queue = {}
    BY <1>4 DEF Once
  <2>2. ASSUME source # "quintoandar"
        PROVE  next.by \subseteq next.seen /\ next.stored = Cardinality(next.by)
    <3>1. "complete" \in Marked(source)
      BY <2>2 DEF Marked, PageScrapers, Texts
    <3>2. w.seen \in SUBSET Urls
      BY <1>3 DEF WorkShapes
    <3>3. Apart(read, w.seen)
      BY <3>1, <3>2, FoundOnce
    <3>4. \A i \in 1..m : i \in 1..Len(read.found)
      BY <1>1
    <3>5. w.by \subseteq w.seen /\ w.stored = Cardinality(w.by)
      BY <2>2 DEF Once
    <3>6. next.by \subseteq next.seen
      BY <1>4, <3>3, <3>4, <3>5 DEF Apart
    <3>7. (\A i \in 1..m : read.found[i] \notin w.by) /\ m \in Nat
      BY <1>1, <3>3, <3>4, <3>5 DEF Apart
    <3>8. \A i, j \in 1..m : read.found[i] = read.found[j] => i = j
      BY <3>3, <3>4 DEF Apart
    <3>9. Cardinality(w.by \cup stored) = Cardinality(w.by) + m
      <4>1. IsFiniteSet(w.by)
        OBVIOUS
      <4>2. m \in Nat /\ Lists(read.found, m, stored, w.by)
        BY <3>7, <3>8 DEF Lists
      <4> HIDE DEF stored, Good
      <4> QED BY <4>1, <4>2, StoredOnce
    <3> QED BY <1>4, <3>5, <3>6, <3>9
  <2> QED BY <2>1, <2>2 DEF Once
<1>10. Adding(next)
  <2>1. w.stored \in Nat /\ w.collected \in Nat /\ w.stored <= w.collected /\ m <= Len(read.found) /\ m \in Nat
    BY <1>1, <1>3 DEF WorkShapes, Adding
  <2>2. w.stored < w.collected => w.failed = TRUE
    BY DEF Adding
  <2>3. next.stored <= next.collected
    BY <1>1, <1>4, <2>1
  <2>4. next.stored < next.collected => w.stored < w.collected \/ m < Len(read.found)
    BY <1>1, <1>4, <2>1
  <2>5. w.failed = TRUE \/ m < Len(read.found) => next.failed = TRUE
    BY <1>5
  <2> QED BY <2>2, <2>3, <2>4, <2>5 DEF Adding
<1>11. Complete(next)
  <2>1. next.failed \in BOOLEAN
    BY <1>7 DEF WorkShapes
  <2> SUFFICES ASSUME next.failed = FALSE PROVE Complete(next)
    BY <2>1 DEF Complete
  <2>2. w.failed = FALSE /\ ~(m < Len(read.found))
    <3>1. w.failed \in BOOLEAN
      BY <1>3 DEF WorkShapes
    <3> QED BY <1>5, <3>1
  <2>3. m = Len(read.found)
    BY <1>1, <2>2
  <2>4. stored = Found(read)
    BY <2>3 DEF Found
  <2>5. Holds(w) /\ w.refused \cap Noticed(source) = {}
    BY <2>2 DEF Complete, Holds
  <2>6. w.seen \in SUBSET Urls
    BY <1>3 DEF WorkShapes
  <2>7. Told(read, page, n, Known(w, page))
    BY <2>5, <2>6, PageTold
  <2>8. /\ read.seen \subseteq Known(w, page) \cup stored
        /\ CompleteIn(page) \subseteq Known(w, page) \cup stored
    BY <2>4, <2>7 DEF Told, CompleteIn
  <2>9. Known(w, page) \cup stored = next.by \cup next.spoilt
    BY <1>4 DEF Known
  <2>10. w.shown \subseteq next.by \cup next.spoilt
    BY <1>4, <2>5 DEF Holds
  <2> HIDE DEF stored
  <2> QED BY <1>4, <2>5, <2>8, <2>9, <2>10 DEF Complete
<1> QED BY <1>7, <1>8, <1>9, <1>10, <1>11 DEF next

(* A page on which a card raises: an error, whatever was remembered by then. *)
LEMMA RaisedIsGood ==
  ASSUME source \in PageScrapers, NEW w, Good(w), w.left > 0, NEW n \in Nat, NEW page \in [1..n -> Link],
         NEW read, read = Extract(source, page, w.seen), read \in Readings
  PROVE  Good([Turned(w, page, read.seen) EXCEPT !.failed = TRUE])
<1> DEFINE turned == Turned(w, page, read.seen)
           next == [turned EXCEPT !.failed = TRUE]
<1> USE DEF Good
<1>1. read.seen \in SUBSET Urls /\ CompleteIn(page) \subseteq Urls /\ SpoiltIn(w, page) \subseteq Urls
  BY DEF Readings, CompleteIn, SpoiltIn, Link
<1>2. w \in WorkShapes /\ w.left - 1 \in Nat
  BY DEF WorkShapes
<1>3. turned \in WorkShapes
  BY <1>1, <1>2 DEF WorkShapes, Turned
<1>4. /\ turned.seen = read.seen /\ turned.queue = w.queue /\ turned.collected = w.collected
      /\ turned.stored = w.stored /\ turned.by = w.by
  BY <1>2 DEF WorkShapes, Turned
<1> HIDE DEF turned
<1>5. /\ next.seen = read.seen /\ next.queue = w.queue /\ next.collected = w.collected
      /\ next.stored = w.stored /\ next.by = w.by /\ next.failed = TRUE
  BY <1>3, <1>4 DEF WorkShapes
<1>6. next \in WorkShapes
  BY <1>3 DEF WorkShapes
<1>7. source # "quintoandar" => w.seen \subseteq read.seen
  <2>1. source # "quintoandar" => "complete" \in Marked(source)
    BY DEF Marked, PageScrapers, Texts
  <2>2. w.seen \in SUBSET Urls
    BY <1>2 DEF WorkShapes
  <2> QED BY <2>1, <2>2, FoundOnce DEF Apart
<1> HIDE DEF next
<1>8. Once(next)
  BY <1>5, <1>7 DEF Once
<1>9. Adding(next) /\ Complete(next)
  BY <1>5 DEF Adding, Complete
<1> QED BY <1>5, <1>6, <1>8, <1>9 DEF next, turned

(* A lot is visited, and shown. *)
Visiting(w, u) == [w EXCEPT !.queue = @ \ {u}, !.collected = @ + 1]
Showing(w, u) == [w EXCEPT !.shown = @ \cup {u}]

(* A refusal leaves everything but its sign, and an error where it is noticed. *)
LEMMA RefusedPage ==
  ASSUME NEW w \in WorkShapes, NEW sign \in Signs
  PROVE  LET met == Refused(w, sign) IN
         /\ met \in WorkShapes /\ met.left = w.left /\ met.queue = w.queue /\ met.collected = w.collected
         /\ met.seen = w.seen /\ met.stored = w.stored /\ met.by = w.by /\ met.shown = w.shown
         /\ met.spoilt = w.spoilt /\ met.refused = w.refused \cup {sign}
         /\ met.failed = (w.failed \/ sign \in Noticed(source))
<1> DEFINE met == Refused(w, sign)
<1>1. met \in WorkShapes
  <2>1. {sign} \in SUBSET Signs
    OBVIOUS
  <2>2. w.refused \cup {sign} \in SUBSET Signs
    BY <2>1 DEF WorkShapes
  <2>3. (w.failed \/ sign \in Noticed(source)) \in BOOLEAN
    OBVIOUS
  <2> QED BY <2>2, <2>3 DEF WorkShapes, Refused
<1>2. /\ met.left = w.left /\ met.queue = w.queue /\ met.collected = w.collected
      /\ met.seen = w.seen /\ met.stored = w.stored /\ met.by = w.by /\ met.shown = w.shown
      /\ met.spoilt = w.spoilt /\ met.refused = w.refused \cup {sign}
  BY DEF WorkShapes, Refused
<1>3. met.failed = (w.failed \/ sign \in Noticed(source))
  BY DEF WorkShapes, Refused
<1> QED BY <1>1, <1>2, <1>3

(* What is left of a run when it has visited a lot, and stored it. *)
LEMMA Visited ==
  ASSUME NEW w \in WorkShapes, NEW u
  PROVE  LET visited == Visiting(w, u) IN
         /\ visited \in WorkShapes /\ visited.queue = w.queue \ {u} /\ visited.collected = w.collected + 1
         /\ visited.seen = w.seen /\ visited.stored = w.stored /\ visited.by = w.by /\ visited.shown = w.shown
         /\ visited.spoilt = w.spoilt /\ visited.failed = w.failed /\ visited.refused = w.refused
<1> DEFINE visited == Visiting(w, u)
<1>1. visited \in WorkShapes
  <2>1. w.queue \ {u} \in SUBSET Urls /\ w.collected + 1 \in Nat
    BY DEF WorkShapes, Visiting
  <2> QED BY <2>1 DEF WorkShapes, Visiting
<1>2. /\ visited.queue = w.queue \ {u} /\ visited.collected = w.collected + 1
      /\ visited.seen = w.seen /\ visited.stored = w.stored /\ visited.by = w.by /\ visited.shown = w.shown
      /\ visited.spoilt = w.spoilt
  BY DEF WorkShapes, Visiting
<1>3. visited.failed = w.failed /\ visited.refused = w.refused
  BY DEF WorkShapes, Visiting
<1> QED BY <1>1, <1>2, <1>3

(* What is left of a run when it has stored a lot. *)
LEMMA KeptLot ==
  ASSUME NEW w \in WorkShapes, NEW u \in Urls
  PROVE  LET next == Kept(w, u) IN
         /\ next \in WorkShapes /\ next.queue = w.queue /\ next.collected = w.collected
         /\ next.seen = w.seen /\ next.stored = w.stored + 1 /\ next.by = w.by \cup {u}
         /\ next.shown = w.shown
         /\ next.spoilt = w.spoilt /\ next.failed = w.failed /\ next.refused = w.refused
<1> DEFINE next == Kept(w, u)
<1>1. next \in WorkShapes
  <2>1. w.stored + 1 \in Nat /\ w.by \cup {u} \in SUBSET Urls
    BY DEF WorkShapes, Kept
  <2> QED BY <2>1 DEF WorkShapes, Kept
<1>2. /\ next.queue = w.queue /\ next.collected = w.collected
      /\ next.seen = w.seen /\ next.stored = w.stored + 1 /\ next.by = w.by \cup {u}
      /\ next.shown = w.shown /\ next.spoilt = w.spoilt
  BY DEF WorkShapes, Kept
<1>3. next.failed = w.failed /\ next.refused = w.refused
  BY DEF WorkShapes, Kept
<1> QED BY <1>1, <1>2, <1>3

(* What is left of a run when a lot was shown to it. *)
LEMMA ShownLot ==
  ASSUME NEW w \in WorkShapes, NEW u \in Urls
  PROVE  LET next == Showing(w, u) IN
         /\ next \in WorkShapes /\ next.queue = w.queue /\ next.collected = w.collected
         /\ next.seen = w.seen /\ next.stored = w.stored /\ next.by = w.by
         /\ next.shown = w.shown \cup {u}
         /\ next.spoilt = w.spoilt /\ next.failed = w.failed /\ next.refused = w.refused
<1> DEFINE next == Showing(w, u)
<1>1. next \in WorkShapes
  <2>1. w.shown \cup {u} \in SUBSET Urls
    BY DEF WorkShapes
  <2> QED BY <2>1 DEF WorkShapes, Showing
<1>2. /\ next.queue = w.queue /\ next.collected = w.collected
      /\ next.seen = w.seen /\ next.stored = w.stored /\ next.by = w.by
      /\ next.shown = w.shown \cup {u} /\ next.spoilt = w.spoilt
  BY DEF WorkShapes, Showing
<1>3. next.failed = w.failed /\ next.refused = w.refused
  BY DEF WorkShapes, Showing
<1> QED BY <1>1, <1>2, <1>3

(* The ways a visited lot can turn out. *)
TurnsOut(visited, u, next) ==
    \/ next = visited
    \/ next = Kept(Showing(visited, u), u)
    \/ next = [visited EXCEPT !.failed = TRUE, !.shown = @ \cup {u}]
    \/ \E sign \in Signs :
          \/ next = Refused(visited, sign)
          \/ sign \notin Noticed(source) /\ next = Kept(Refused(visited, sign), u)

(* A lot that is visited, in each of the ways it can turn out. *)
LEMMA LotIsGood ==
  ASSUME NEW w, Good(w), NEW u \in w.queue, NEW next, TurnsOut(Visiting(w, u), u, next)
  PROVE  Good(next)
<1> DEFINE visited == Visiting(w, u)
<1> USE DEF Good
<1>1. w \in WorkShapes /\ u \in Urls /\ u \notin w.by /\ u \in w.seen /\ source \notin PageScrapers
  BY DEF WorkShapes, Once
<1>2. /\ visited \in WorkShapes /\ visited.queue = w.queue \ {u} /\ visited.collected = w.collected + 1
      /\ visited.seen = w.seen /\ visited.stored = w.stored /\ visited.by = w.by /\ visited.shown = w.shown
      /\ visited.spoilt = w.spoilt /\ visited.failed = w.failed /\ visited.refused = w.refused
  <2> HIDE DEF Good
  <2> QED BY <1>1, Visited
<1>3. IsFiniteSet(w.by \cup {u}) /\ Cardinality(w.by \cup {u}) = Cardinality(w.by) + 1
  BY <1>1, FS_AddElement
<1>4. w.stored \in Nat /\ w.collected \in Nat /\ w.stored <= w.collected
  BY <1>1 DEF WorkShapes, Adding
<1>5. TurnsOut(visited, u, next)
  OBVIOUS
<1> HIDE DEF visited
<1>6. CASE next = visited
  <2>1. Once(next) /\ Adding(next) /\ Complete(next)
    BY <1>1, <1>2, <1>4, <1>6 DEF Once, Adding, Complete
  <2> QED BY <1>2, <1>6, <2>1
<1>7. CASE next = Kept(Showing(visited, u), u)
  <2> DEFINE shown == Showing(visited, u)
  <2>1. /\ shown \in WorkShapes /\ shown.queue = visited.queue /\ shown.collected = visited.collected
        /\ shown.seen = visited.seen /\ shown.stored = visited.stored /\ shown.by = visited.by
        /\ shown.shown = visited.shown \cup {u}
        /\ shown.spoilt = visited.spoilt /\ shown.failed = visited.failed
        /\ shown.refused = visited.refused
    <3> HIDE DEF Good
    <3> QED BY <1>1, <1>2, ShownLot
  <2> HIDE DEF shown
  <2>2. /\ next \in WorkShapes /\ next.queue = shown.queue /\ next.collected = shown.collected
        /\ next.seen = shown.seen /\ next.stored = shown.stored + 1 /\ next.by = shown.by \cup {u}
        /\ next.shown = shown.shown /\ next.spoilt = shown.spoilt
        /\ next.failed = shown.failed /\ next.refused = shown.refused
    <3> HIDE DEF Good
    <3>1. next = Kept(shown, u)
      BY <1>7 DEF shown
    <3> QED BY <1>1, <2>1, <3>1, KeptLot
  <2>3. /\ next.queue = w.queue \ {u} /\ next.collected = w.collected + 1
        /\ next.seen = w.seen /\ next.stored = w.stored + 1 /\ next.by = w.by \cup {u}
        /\ next.shown = w.shown \cup {u} /\ next.spoilt = w.spoilt /\ next.failed = w.failed
        /\ next.refused = w.refused
    BY <1>2, <2>1, <2>2
  <2>4. Once(next)
    BY <1>1, <1>3, <2>3 DEF Once
  <2>5. Adding(next) /\ Complete(next)
    BY <1>1, <1>4, <2>3 DEF Adding, Complete
  <2> QED BY <1>3, <2>2, <2>3, <2>4, <2>5
<1>8. CASE next = [visited EXCEPT !.failed = TRUE, !.shown = @ \cup {u}]
  <2>1. /\ next \in WorkShapes /\ next.queue = w.queue \ {u} /\ next.collected = w.collected + 1
        /\ next.seen = w.seen /\ next.stored = w.stored /\ next.by = w.by /\ next.failed = TRUE
    BY <1>1, <1>2, <1>8 DEF WorkShapes
  <2>2. Once(next) /\ Adding(next) /\ Complete(next)
    BY <1>1, <1>4, <2>1 DEF Once, Adding, Complete
  <2> QED BY <2>1, <2>2
<1>9. ASSUME NEW sign \in Signs,
             \/ next = Refused(visited, sign)
             \/ sign \notin Noticed(source) /\ next = Kept(Refused(visited, sign), u)
      PROVE  Good(next)
  <2> DEFINE met == Refused(visited, sign)
  <2>1. /\ met \in WorkShapes /\ met.queue = w.queue \ {u} /\ met.collected = w.collected + 1
        /\ met.seen = w.seen /\ met.stored = w.stored /\ met.by = w.by
        /\ met.shown = w.shown /\ met.spoilt = w.spoilt /\ met.refused = w.refused \cup {sign}
    <3> HIDE DEF Good
    <3> QED BY <1>2, RefusedPage
  <2>2. met.failed = (w.failed \/ sign \in Noticed(source))
    <3> HIDE DEF Good
    <3> QED BY <1>2, RefusedPage
  <2>3. next = met \/ next = Kept(met, u)
    BY <1>9
  <2> HIDE DEF met
  <2>4. Complete(met)
    <3>1. CASE sign \in Noticed(source)
      BY <2>2, <3>1 DEF Complete
    <3>2. CASE sign \notin Noticed(source)
      <4>1. w.failed = TRUE => met.failed = TRUE
        BY <2>2
      <4> QED BY <1>1, <2>1, <3>2, <4>1 DEF Complete
    <3> QED BY <3>1, <3>2
  <2>5. CASE next = met
    <3>1. Once(next) /\ Adding(next)
      <4>1. Once(next)
        BY <1>1, <2>1, <2>5 DEF Once
      <4>2. Adding(next)
        BY <1>1, <1>4, <2>1, <2>5 DEF Adding
      <4> QED BY <4>1, <4>2
    <3> QED BY <2>1, <2>4, <2>5, <3>1
  <2>6. CASE next = Kept(met, u)
    <3>1. /\ next \in WorkShapes /\ next.queue = met.queue /\ next.collected = met.collected
          /\ next.seen = met.seen /\ next.stored = met.stored + 1 /\ next.by = met.by \cup {u}
          /\ next.shown = met.shown /\ next.spoilt = met.spoilt
          /\ next.failed = met.failed /\ next.refused = met.refused
      <4> HIDE DEF Good
      <4> QED BY <1>1, <2>1, <2>6, KeptLot
    <3>2. Once(next)
      BY <1>1, <1>3, <2>1, <3>1 DEF Once
    <3>3. Adding(next)
      BY <1>1, <1>4, <2>1, <3>1 DEF Adding
    <3>4. Complete(next)
      BY <1>1, <2>4, <3>1 DEF Complete
    <3> QED BY <1>3, <2>1, <3>1, <3>2, <3>3, <3>4
  <2> QED BY <2>3, <2>5, <2>6
<1> QED BY <1>5, <1>6, <1>7, <1>8, <1>9 DEF TurnsOut

(* A page that does not come, in each of its ways. *)
LEMMA PageLostIsGood ==
  ASSUME NEW w, Good(w), w.left > 0, NEW next,
         \/ next = [w EXCEPT !.left = @ - 1, !.failed = TRUE]
         \/ \E sign \in Signs : next = Refused([w EXCEPT !.left = @ - 1], sign)
  PROVE  Good(next)
<1> USE DEF Good
<1>1. w \in WorkShapes /\ w.left - 1 \in Nat
  BY DEF WorkShapes
<1>2. CASE next = [w EXCEPT !.left = @ - 1, !.failed = TRUE]
  <2>1. /\ next \in WorkShapes /\ next.failed = TRUE
        /\ next.queue = w.queue /\ next.collected = w.collected
        /\ next.seen = w.seen /\ next.stored = w.stored /\ next.by = w.by
    BY <1>1, <1>2 DEF WorkShapes
  <2>2. Once(next)
    BY <2>1 DEF Once
  <2> QED BY <2>1, <2>2 DEF Adding, Complete
<1>3. ASSUME NEW sign \in Signs, next = Refused([w EXCEPT !.left = @ - 1], sign) PROVE Good(next)
  <2> DEFINE turned == [w EXCEPT !.left = @ - 1]
  <2>1. /\ turned \in WorkShapes /\ turned.queue = w.queue /\ turned.collected = w.collected
        /\ turned.seen = w.seen /\ turned.stored = w.stored /\ turned.by = w.by
        /\ turned.shown = w.shown /\ turned.spoilt = w.spoilt
    BY <1>1 DEF WorkShapes
  <2>2. turned.refused = w.refused /\ turned.failed = w.failed
    BY <1>1 DEF WorkShapes
  <2> HIDE DEF turned
  <2>3. /\ next \in WorkShapes /\ next.queue = turned.queue /\ next.collected = turned.collected
        /\ next.seen = turned.seen /\ next.stored = turned.stored /\ next.by = turned.by
        /\ next.shown = turned.shown /\ next.spoilt = turned.spoilt
        /\ next.refused = turned.refused \cup {sign}
        /\ next.failed = (turned.failed \/ sign \in Noticed(source))
    <3> HIDE DEF Good
    <3>1. next = Refused(turned, sign)
      BY <1>3 DEF turned
    <3> QED BY <2>1, <3>1, RefusedPage
  <2>4. Once(next)
    BY <2>1, <2>3 DEF Once
  <2>5. w.failed = TRUE => next.failed = TRUE
    BY <2>2, <2>3
  <2>6. Adding(next)
    BY <2>1, <2>3, <2>5 DEF Adding
  <2>7. Complete(next)
    <3>1. CASE sign \in Noticed(source)
      BY <2>3, <3>1 DEF Complete
    <3>2. CASE sign \notin Noticed(source)
      BY <2>1, <2>2, <2>3, <2>5, <3>2 DEF Complete
    <3> QED BY <3>1, <3>2
  <2> QED BY <2>1, <2>3, <2>4, <2>6, <2>7
<1> QED BY <1>2, <1>3

(* The next lots of a lot scraper: none that was known before. *)
LEMMA DiscoverIsGood ==
  ASSUME NEW w, Good(w), w.left > 0, w.queue = {}, source \in LotScrapers, NEW urls \in SUBSET Urls,
         NEW next, next = [w EXCEPT !.left = @ - 1, !.queue = urls \ w.seen, !.seen = @ \cup urls]
  PROVE  Good(next)
<1> USE DEF Good
<1>1. w \in WorkShapes /\ w.left - 1 \in Nat
  BY DEF WorkShapes
<1>2. /\ next \in WorkShapes
      /\ next.queue = urls \ w.seen /\ next.seen = w.seen \cup urls
      /\ next.collected = w.collected /\ next.stored = w.stored /\ next.by = w.by
      /\ next.shown = w.shown /\ next.spoilt = w.spoilt /\ next.failed = w.failed
      /\ next.refused = w.refused
  BY <1>1 DEF WorkShapes
<1>3. source \notin PageScrapers /\ source # "quintoandar"
  BY DEF PageScrapers, LotScrapers
<1>4. Once(next)
  BY <1>2, <1>3 DEF Once
<1>5. Adding(next) /\ Complete(next)
  BY <1>2, <1>3 DEF Adding, Complete
<1> QED BY <1>2, <1>4, <1>5

-----------------------------------------------------------------------------
(***************************************************************************)
(* The steps of the runs.                                                  *)
(***************************************************************************)

BoundTypes ==
    /\ MaxLinks \in Nat /\ bound.links \in 0..MaxLinks
    /\ DOMAIN bound = {"sources", "clicks", "analyses", "links", "crashes"}

(* A run keeps what is good, and only while it runs. *)
WorkInv ==
    /\ source \in Sources
    /\ BoundTypes
    /\ DOMAIN work = Clicks
    /\ \A c \in Clicks : Good(work[c])
    /\ \A c \in Clicks : work[c] # NoWork => Works(c)

(* No set of bounds allows more links than the largest. *)
LEMMA LinksBounded ==
  ASSUME NEW b \in Bounds PROVE MaxLinks \in Nat /\ b.links \in 0..MaxLinks
<1> DEFINE S == {x.links : x \in Bounds}
<1>1. S \in SUBSET Nat /\ b.links \in S
  BY BoundsAssumption
<1>2. IsFiniteSet(S)
  <2> DEFINE f == [x \in Bounds |-> x.links]
  <2>1. f \in Surjection(Bounds, S)
    BY DEF Surjection
  <2> HIDE DEF f, S
  <2> QED BY <2>1, BoundsAssumption, FS_Surjection
<1>3. \E m \in S : \A n \in S : n <= m
  <2> HIDE DEF S
  <2> QED BY <1>1, <1>2, Greatest
<1>4. \E m \in S : \A n \in S : m >= n
  BY <1>1, <1>3
<1>5. Max(S) \in S /\ \A n \in S : Max(S) >= n
  BY <1>4 DEF Max
<1> QED BY <1>1, <1>5 DEF MaxLinks

(* A page of the model is a sequence of links. *)
LEMMA PagesAreLinks ==
  ASSUME NEW s \in PageScrapers, NEW n \in 0..MaxLinks, NEW page \in Pages[s][n]
  PROVE  page \in [1..n -> Link]
<1> HIDE DEF MaxLinks
<1>1. Pages[s][n] = {p \in [1 .. n -> Link] :
        s = "quintoandar" => \A i, j \in DOMAIN p : i # j => SourceId[p[i].url] # SourceId[p[j].url]}
  BY DEF Pages
<1> QED BY <1>1

LEMMA WorkInit ==
  ASSUME Init PROVE WorkInv
<1>1. bound \in Bounds /\ source \in bound.sources /\ work = [c \in Clicks |-> NoWork]
  BY DEF Init
<1>2. source \in Sources
  BY <1>1, BoundsAssumption
<1>3. BoundTypes
  <2>1. MaxLinks \in Nat /\ bound.links \in 0..MaxLinks
    BY <1>1, LinksBounded
  <2>2. DOMAIN bound = {"sources", "clicks", "analyses", "links", "crashes"}
    BY <1>1, BoundsAssumption
  <2> QED BY <2>1, <2>2 DEF BoundTypes
<1> QED BY <1>1, <1>2, <1>3, NothingIsGood DEF WorkInv

(* Runs keep what they have, get what is good, or lose all of it.            *)
LEMMA WorkKept ==
  ASSUME WorkInv, source' = source, BoundTypes', DOMAIN work' = Clicks,
         \A c \in Clicks : \/ work'[c] = NoWork
                           \/ work'[c] = work[c] /\ (Works(c) => Works(c)')
                           \/ Good(work'[c]) /\ Works(c)'
  PROVE  WorkInv'
<1>1. \A w : Good(w)' = Good(w)
  BY DEF Good, Once, Adding, Complete
<1>2. \A c \in Clicks : Good(work'[c])
  BY NothingIsGood DEF WorkInv
<1>3. \A c \in Clicks : Good(work[c])'
  BY <1>2 DEF Good, Once, Adding, Complete
<1>4. \A c \in Clicks : work'[c] # NoWork => Works(c)'
  BY DEF WorkInv
<1>5. \A c \in Clicks : (work[c] # NoWork => Works(c))'
  BY <1>4 DEF NoWork
<1> QED BY <1>3, <1>5 DEF WorkInv

(* A step within a run. *)
LEMMA WorkGoesOn ==
  ASSUME WorkInv, NEW c \in Clicks, NEW w, Good(w), Works(c), Now(c, w), source' = source, BoundTypes'
  PROVE  WorkInv'
<1>1. /\ DOMAIN work' = Clicks /\ work'[c] = w
      /\ \A d \in Clicks \ {c} : work'[d] = work[d]
      /\ \A d \in Clicks : Works(d)' = Works(d)
  BY DEF Now, WorkInv, Works
<1> QED BY <1>1, WorkKept

(* Fewer links are left. *)
LEMMA FewerLinks ==
  ASSUME BoundTypes, NEW n \in 0..bound.links, Met(n) PROVE BoundTypes'
<1>1. bound.links - n \in 0..MaxLinks
  BY DEF BoundTypes
<1>2. bound'.links = bound.links - n /\ DOMAIN bound' = DOMAIN bound
  BY DEF BoundTypes, Met
<1>3. MaxLinks' = MaxLinks
  BY DEF MaxLinks
<1> QED BY <1>1, <1>2, <1>3 DEF BoundTypes

LEMMA PageStep ==
  ASSUME WorkInv, NEW c \in Clicks, Visit(c)
  PROVE  WorkInv'
<1>1. PICK size \in 0..bound.links : \E page \in Pages[source][size] :
        LET read == Extract(source, page, work[c].seen)
            turned == Turned(work[c], page, read.seen)
        IN  /\ Met(size)
            /\ IF read.raised THEN Now(c, [turned EXCEPT !.failed = TRUE])
               ELSE \E n \in 0 .. Len(read.found) : Now(c, Stored(turned, read.found, n))
  BY DEF Visit
<1>2. PICK page \in Pages[source][size] :
        LET read == Extract(source, page, work[c].seen)
            turned == Turned(work[c], page, read.seen)
        IN  /\ Met(size)
            /\ IF read.raised THEN Now(c, [turned EXCEPT !.failed = TRUE])
               ELSE \E n \in 0 .. Len(read.found) : Now(c, Stored(turned, read.found, n))
  BY <1>1
<1> DEFINE w == work[c]
           read == Extract(source, page, w.seen)
           turned == Turned(w, page, read.seen)
<1>3. Works(c) /\ source \in PageScrapers /\ w.left > 0 /\ source' = source /\ Good(w)
  BY DEF Visit, Elsewhere, WorkInv
<1>4. size \in 0..MaxLinks /\ size \in Nat
  <2>1. MaxLinks \in Nat /\ bound.links \in 0..MaxLinks /\ size \in 0..bound.links
    BY DEF WorkInv, BoundTypes
  <2> QED BY <2>1
<1>5. page \in [1..size -> Link]
  BY <1>3, <1>4, PagesAreLinks
<1>6. read \in Readings
  <2>1. w.seen \in SUBSET Urls
    BY <1>3 DEF Good, WorkShapes
  <2>2. PICK h : ReadInOrder(h, source, page, size, w.seen) /\ read = h[size]
    BY <1>4, <1>5, <2>1, PageInOrder
  <2> HIDE DEF read, w
  <2>3. h \in [0..size -> Readings] /\ size \in 0..size
    BY <1>4, <2>2 DEF ReadInOrder
  <2>4. h[size] \in Readings
    BY <2>3
  <2> QED BY <2>2, <2>4
<1>7. BoundTypes'
  BY <1>2, FewerLinks DEF WorkInv
<1>8. CASE read.raised = TRUE
  <2>1. Good([turned EXCEPT !.failed = TRUE])
    BY <1>3, <1>4, <1>5, <1>6, RaisedIsGood
  <2>2. Now(c, [turned EXCEPT !.failed = TRUE])
    BY <1>2, <1>8
  <2> HIDE DEF turned, read, w
  <2> QED BY <1>3, <1>7, <2>1, <2>2, WorkGoesOn
<1>9. CASE read.raised = FALSE
  <2>1. PICK n \in 0..Len(read.found) : Now(c, Stored(turned, read.found, n))
    BY <1>2, <1>9
  <2>2. Good(Stored(turned, read.found, n))
    BY <1>3, <1>4, <1>5, <1>6, <1>9, ReadIsGood
  <2> HIDE DEF turned, read, w
  <2> QED BY <1>3, <1>7, <2>1, <2>2, WorkGoesOn
<1> QED BY <1>6, <1>8, <1>9 DEF Readings

(* The other steps of a run. *)
LEMMA RunStep ==
  ASSUME WorkInv, NEW c \in Clicks, VisitFails(c) \/ Discover(c) \/ Lot(c) \/ Refuse(c)
  PROVE  WorkInv'
<1> DEFINE w == work[c]
<1>1. Works(c) /\ source' = source /\ Good(w)
  BY DEF VisitFails, Discover, Discovers, Lot, Refuse, Elsewhere, WorkInv
<1>2. ASSUME bound' = bound PROVE BoundTypes'
  BY <1>2 DEF WorkInv, BoundTypes, MaxLinks
<1>3. CASE VisitFails(c)
  <2>1. PICK next : next = [w EXCEPT !.left = @ - 1, !.failed = TRUE] /\ Now(c, next)
    BY <1>3 DEF VisitFails
  <2>2. w.left > 0 /\ bound' = bound
    BY <1>3 DEF VisitFails
  <2> HIDE DEF w
  <2>3. Good(next)
    BY <1>1, <2>1, <2>2, PageLostIsGood
  <2> QED BY <1>1, <1>2, <2>1, <2>2, <2>3, WorkGoesOn
<1>4. CASE Refuse(c)
  <2>1. PICK sign \in Signs : Now(c, Refused([w EXCEPT !.left = @ - 1], sign))
    BY <1>4 DEF Refuse
  <2>2. w.left > 0 /\ bound' = bound
    BY <1>4 DEF Refuse
  <2> DEFINE next == Refused([w EXCEPT !.left = @ - 1], sign)
  <2> HIDE DEF w
  <2>3. Good(next)
    BY <1>1, <2>2, PageLostIsGood
  <2>4. Now(c, next)
    BY <2>1
  <2> HIDE DEF next
  <2> QED BY <1>1, <1>2, <2>2, <2>3, <2>4, WorkGoesOn
<1>5. CASE Discover(c)
  <2>1. w.left > 0 /\ w.queue = {} /\ source \in LotScrapers
    BY <1>5 DEF Discover, Discovers
  <2>2. PICK urls \in SUBSET Urls :
          /\ IsFiniteSet(urls) /\ Cardinality(urls) <= bound.links
          /\ Met(Cardinality(urls))
          /\ Now(c, [w EXCEPT !.left = @ - 1, !.queue = urls \ w.seen, !.seen = @ \cup urls])
    BY <1>5 DEF Discover
  <2> DEFINE next == [w EXCEPT !.left = @ - 1, !.queue = urls \ w.seen, !.seen = @ \cup urls]
  <2>3. Cardinality(urls) \in 0..bound.links
    <3>1. Cardinality(urls) \in Nat /\ Cardinality(urls) <= bound.links /\ bound.links \in Nat
      BY <2>2, FS_CardinalityType DEF WorkInv, BoundTypes
    <3> QED BY <3>1
  <2>4. BoundTypes'
    BY <2>2, <2>3, FewerLinks DEF WorkInv
  <2>5. Good(next)
    BY <1>1, <2>1, DiscoverIsGood
  <2> HIDE DEF next, w
  <2> QED BY <1>1, <2>2, <2>4, <2>5, WorkGoesOn DEF next
<1>6. CASE Lot(c)
  <2>1. bound' = bound
    BY <1>6 DEF Lot
  <2>2. PICK u \in w.queue :
          LET visited == [w EXCEPT !.queue = @ \ {u}, !.collected = @ + 1]
          IN  \/ source # "caixa" /\ Now(c, visited)
              \/ source # "blocked_public" /\ Now(c, Kept([visited EXCEPT !.shown = @ \cup {u}], u))
              \/ Now(c, [visited EXCEPT !.failed = TRUE, !.shown = @ \cup {u}])
              \/ \E sign \in Signs :
                  LET met == Refused(visited, sign)
                  IN  Now(c, IF source = "caixa" /\ sign \notin Noticed(source) THEN Kept(met, u) ELSE met)
    BY <1>6 DEF Lot
  <2> HIDE DEF w
  <2>3. \E next : Now(c, next) /\ TurnsOut(Visiting(w, u), u, next)
    BY <2>2 DEF TurnsOut, Visiting, Showing
  <2>4. PICK next : Now(c, next) /\ TurnsOut(Visiting(w, u), u, next)
    BY <2>3
  <2>5. Good(next)
    BY <1>1, <2>4, LotIsGood
  <2> QED BY <1>1, <1>2, <2>1, <2>4, <2>5, WorkGoesOn
<1> QED BY <1>3, <1>4, <1>5, <1>6

(* What leaves the runs alone, or only queues one. *)
LEMMA WorkStays ==
  ASSUME WorkInv, UNCHANGED <<source, work, bound>>, \A c \in Clicks : Works(c) => Works(c)'
  PROVE  WorkInv'
<1>1. BoundTypes'
  BY DEF WorkInv, BoundTypes, MaxLinks
<1>2. DOMAIN work' = Clicks
  BY DEF WorkInv
<1> QED BY <1>1, <1>2, WorkKept

(* A run that ends, or is lost, keeps nothing, and the others go on. *)
LEMMA WorkEnds ==
  ASSUME LedgerInv, WorkInv, NEW c \in Clicks, Strand(c) \/ \E outcome : End(c, outcome)
  PROVE  WorkInv'
<1>1. /\ UNCHANGED <<source, bound>> /\ work' = [work EXCEPT ![c] = NoWork]
      /\ run' = [run EXCEPT ![c] = "ended"] \/ run' = [run EXCEPT ![c] = "lost"]
  BY DEF Strand, End, Elsewhere
<1>2. /\ DOMAIN work' = Clicks /\ work'[c] = NoWork
      /\ \A d \in Clicks \ {c} : work'[d] = work[d] /\ (Works(d) => Works(d)')
  <2>1. DOMAIN run = Clicks /\ DOMAIN work = Clicks
    BY DEF LedgerInv, LifeTypes, WorkInv
  <2>2. DOMAIN work' = Clicks /\ work'[c] = NoWork /\ \A d \in Clicks \ {c} : work'[d] = work[d]
    BY <1>1, <2>1
  <2>3. \A d \in Clicks \ {c} : run'[d] = run[d]
    BY <1>1, <2>1
  <2> QED BY <2>2, <2>3 DEF Works
<1>3. BoundTypes'
  BY <1>1 DEF WorkInv, BoundTypes, MaxLinks
<1> QED BY <1>1, <1>2, <1>3, WorkKept

(* Every step keeps what runs keep good. *)
LEMMA WorkStep ==
  ASSUME LedgerInv, WorkInv, [Next]_vars
  PROVE  WorkInv'
<1>1. ASSUME NEW c \in Clicks, Press(c) \/ Accept(c) \/ Deny(c) \/ Hear(c) \/ TimerFires(c)
      PROVE  WorkInv'
  <2>1. CASE Press(c) \/ Deny(c) \/ Hear(c) \/ TimerFires(c)
    <3>1. UNCHANGED <<source, work, bound, run>>
      BY <2>1 DEF Press, Deny, Hear, HearQueued, HearError, HearGarbage, TimerFires, server
    <3> QED BY <3>1, WorkStays DEF Works
  <2>2. CASE Accept(c)
    <3>1. UNCHANGED <<source, work, bound>> /\ run[c] = "none" /\ run' = [run EXCEPT ![c] = "queued"]
      BY <2>2 DEF Accept, LedgerInv, RowOfRun
    <3>2. run \in [Clicks -> {"none", "queued", "running", "ended", "lost"}]
      BY DEF LedgerInv, LifeTypes
    <3>3. \A d \in Clicks : Works(d) => Works(d)'
      BY <3>1, <3>2 DEF Works
    <3> QED BY <3>1, <3>3, WorkStays
  <2> QED BY <1>1, <2>1, <2>2
<1>2. ASSUME NEW c \in Clicks, Step(c) PROVE WorkInv'
  <2>1. CASE Begin(c)
    <3>1. /\ UNCHANGED <<source, bound>> /\ run' = [run EXCEPT ![c] = "running"]
          /\ work' = [work EXCEPT ![c] = Fresh]
      BY <2>1 DEF Begin
    <3>2. run \in [Clicks -> {"none", "queued", "running", "ended", "lost"}] /\ DOMAIN work = Clicks
      BY DEF LedgerInv, LifeTypes, WorkInv
    <3>3. Good(Fresh)
      BY FreshIsGood DEF WorkInv
    <3>4. /\ DOMAIN work' = Clicks /\ work'[c] = Fresh /\ Works(c)'
          /\ \A d \in Clicks \ {c} : work'[d] = work[d] /\ (Works(d) => Works(d)')
      BY <3>1, <3>2 DEF Works
    <3>5. BoundTypes'
      BY <3>1 DEF WorkInv, BoundTypes, MaxLinks
    <3> HIDE DEF Fresh
    <3> QED BY <3>1, <3>3, <3>4, <3>5, WorkKept
  <2>2. CASE Visit(c)
    BY <2>2, PageStep
  <2>3. CASE VisitFails(c) \/ Discover(c) \/ Lot(c) \/ Refuse(c)
    BY <2>3, RunStep
  <2>4. CASE EndRegular(c) \/ EndFailed(c)
    <3>1. PICK outcome : End(c, outcome)
      BY <2>4 DEF EndRegular, EndFailed
    <3> QED BY <3>1, WorkEnds
  <2> QED BY <1>2, <2>1, <2>2, <2>3, <2>4 DEF Step
<1>3. ASSUME NEW c \in Clicks, Strand(c) PROVE WorkInv'
  BY <1>3, WorkEnds
<1>4. CASE AskAnalysis \/ AnalysisAsked \/ AnalysisCleared \/ Reload \/ Restart \/ UNCHANGED vars
  <2>1. UNCHANGED <<source, work, bound, run>>
    BY <1>4 DEF AskAnalysis, AnalysisAsked, AnalysisCleared, Reload, Restart, vars, server
  <2> QED BY <2>1, WorkStays DEF Works
<1>5. CASE Crash
  <2>1. UNCHANGED source /\ bound' = [bound EXCEPT !.crashes = @ - 1] /\ work' = [c \in Clicks |-> NoWork]
    BY <1>5 DEF Crash
  <2>2. BoundTypes'
    BY <2>1 DEF WorkInv, BoundTypes, MaxLinks
  <2> QED BY <2>1, <2>2, WorkKept
<1> QED BY <1>1, <1>2, <1>3, <1>4, <1>5 DEF Next

(* What a run keeps is good, and its request, run and row agree. *)
RunsInv == LedgerInv /\ WorkInv

LEMMA RunsInvariant ==
  /\ Init => RunsInv
  /\ RunsInv /\ [Next]_vars => RunsInv'
<1>1. Init => RunsInv
  BY LedgerInvInit, WorkInit DEF RunsInv
<1>2. RunsInv /\ [Next]_vars => RunsInv'
  BY StepOfLedger, WorkStep DEF RunsInv
<1> QED BY <1>1, <1>2

(* As many listings as URLs, where no two URLs are of one listing. *)
LEMMA OneToOne ==
  ASSUME NEW w, w.by \subseteq Urls, IsFiniteSet(w.by),
         \A u, v \in w.by : SourceId[u] = SourceId[v] => u = v
  PROVE  Cardinality(StoredIds(w)) = Cardinality(w.by)
<1> DEFINE f == [u \in w.by |-> SourceId[u]]
<1>1. f \in Bijection(w.by, StoredIds(w))
  <2>1. f \in [w.by -> StoredIds(w)] /\ \A l \in StoredIds(w) : \E u \in w.by : f[u] = l
    BY DEF StoredIds
  <2>2. \A u, v \in w.by : f[u] = f[v] => u = v
    OBVIOUS
  <2> HIDE DEF f
  <2> QED BY <2>1, <2>2 DEF Bijection, Surjection, Injection, IsInjective
<1>2. ExistsBijection(w.by, StoredIds(w))
  BY <1>1 DEF ExistsBijection
<1> QED BY <1>2, FS_Bijection

(* For any pages, of any length and in whatever order and form they repeat   *)
(* their links, a run stores from each URL at most once (base.py:59-71 and   *)
(* the seen sets of the scrapers): it counts as stored as many as there are  *)
(* different URLs among them, which are as many listings only where no two   *)
(* of the URLs have one source_id.                                           *)
THEOREM OnceCorrect == Spec => []OncePerUrl
<1>1. ASSUME RunsInv, source # "quintoandar", NEW c \in Clicks
      PROVE  /\ work[c].stored = Cardinality(work[c].by)
             /\ (\A u, v \in work[c].by : SourceId[u] = SourceId[v] => u = v)
                   => work[c].stored = Cardinality(StoredIds(work[c]))
  <2>1. /\ work[c].by \subseteq Urls /\ IsFiniteSet(work[c].by)
        /\ work[c].stored = Cardinality(work[c].by)
    BY <1>1 DEF RunsInv, WorkInv, Good, Once, WorkShapes
  <2>2. ASSUME \A u, v \in work[c].by : SourceId[u] = SourceId[v] => u = v
        PROVE  work[c].stored = Cardinality(StoredIds(work[c]))
    BY <2>1, <2>2, OneToOne
  <2> QED BY <2>1, <2>2
<1>2. RunsInv => OncePerUrl
  BY <1>1 DEF OncePerUrl
<1> QED BY <1>2, RunsInvariant, PTL DEF Spec

(* Wherever a page raises, in a card or while a listing is stored, the       *)
(* counters of the row differ only if the run has counted an error.          *)
THEOREM CountsCorrect == Spec => []CountsAddUp
<1>1. RunsInv => CountsAddUp
  BY DEF RunsInv, WorkInv, Good, Adding, CountsAddUp
<1> QED BY <1>1, RunsInvariant, PTL DEF Spec

(* An outcome is written by an end of the run. *)
LEMMA SuccessHasEnded ==
  ASSUME RunsInv, [Next]_vars, NEW c \in Clicks, row[c] = "running", row'[c] = "success"
  PROVE  EndRegular(c) /\ work[c].failed # TRUE
<1>1. row \in [Clicks -> {"none", "running", "success", "partial", "failed"}]
  BY DEF RunsInv, LedgerInv, LifeTypes
<1>2. PICK d \in Clicks : Begin(d) \/ EndRegular(d) \/ EndFailed(d)
  BY TableStays
<1>3. ~Begin(d)
  BY <1>1 DEF Begin
<1>4. ~EndFailed(d)
  BY <1>1 DEF EndFailed, End
<1>5. EndRegular(d)
  BY <1>2, <1>3, <1>4
<1>6. d = c /\ work[d].failed # TRUE
  BY <1>1, <1>5 DEF EndRegular, End
<1> QED BY <1>5, <1>6

(* A success means that no listing was lost: whatever the pages showed       *)
(* complete, in whatever order and beside whatever cards that hide, raise or *)
(* repeat it, is stored, apart from what the source is known to miss; and    *)
(* that no page was refused in a way that the source notices.                *)
THEOREM CompleteCorrect == Spec => SuccessIsComplete
<1> DEFINE Told1 == \A c \in Clicks : row[c] = "running" /\ row'[c] = "success" =>
        /\ work[c].shown \ work[c].spoilt \subseteq work[c].by
        /\ work[c].refused \cap Noticed(source) = {}
<1>1. RunsInv /\ [Next]_vars => Told1
  <2> SUFFICES ASSUME RunsInv, [Next]_vars, NEW c \in Clicks, row[c] = "running", row'[c] = "success"
               PROVE  /\ work[c].shown \ work[c].spoilt \subseteq work[c].by
                      /\ work[c].refused \cap Noticed(source) = {}
    OBVIOUS
  <2>1. work[c].failed # TRUE
    BY SuccessHasEnded
  <2>2. Complete(work[c])
    BY DEF RunsInv, WorkInv, Good
  <2> QED BY <2>1, <2>2 DEF Complete
<1> QED BY <1>1, RunsInvariant, PTL DEF Spec, SuccessIsComplete

-----------------------------------------------------------------------------
(***************************************************************************)
(* The shapes of panel, requests, runs and rows.                           *)
(***************************************************************************)

PanelTypes ==
    /\ view \in {"shown", "broken"} /\ backendOk \in BOOLEAN
    /\ status \in {"idle", "queued", "error"}
    /\ waiting \subseteq Clicks /\ timers \subseteq Clicks

(* The browser knows of no click but those there are. *)
LEMMA PanelStep ==
  ASSUME PanelTypes, [Next]_vars
  PROVE  PanelTypes'
<1> USE DEF PanelTypes
<1>1. ASSUME NEW c \in Clicks, Press(c) \/ Accept(c) \/ Deny(c) \/ Hear(c) \/ TimerFires(c)
      PROVE  PanelTypes'
  <2>1. CASE Press(c)
    BY <2>1 DEF Press, Click
  <2>2. CASE Accept(c) \/ Deny(c)
    BY <2>2 DEF Accept, Deny, panel
  <2>3. CASE HearQueued(c) \/ HearError(c)
    BY <2>3 DEF HearQueued, HearError, Answer
  <2>4. CASE HearGarbage(c)
    BY <2>4 DEF HearGarbage, Break, Unmount
  <2>5. CASE TimerFires(c)
    BY <2>5 DEF TimerFires, Expire
  <2> QED BY <1>1, <2>1, <2>2, <2>3, <2>4, <2>5 DEF Hear
<1>2. ASSUME NEW c \in Clicks, Step(c) \/ Strand(c) PROVE PanelTypes'
  BY <1>2, RunSteps DEF panel
<1>3. CASE AskAnalysis \/ AnalysisCleared
  BY <1>3 DEF AskAnalysis, AnalysisCleared, Ask, Clear
<1>4. CASE AnalysisAsked
  BY <1>4 DEF AnalysisAsked, Asked, Break, Unmount
<1>5. CASE Reload
  <2>1. PICK healthy \in {FALSE, api = "up"} : Render(healthy)
    BY <1>5 DEF Reload
  <2>2. view' = "shown" /\ backendOk' \in BOOLEAN /\ Unmount
    BY <2>1 DEF Render
  <2> QED BY <2>1, <2>2 DEF Unmount
<1>6. CASE Crash \/ Restart \/ UNCHANGED vars
  BY <1>6 DEF Crash, Restart, vars, panel
<1> QED BY <1>1, <1>2, <1>3, <1>4, <1>5, <1>6 DEF Next

(* No more rows are asked for than the page may show. *)
LEMMA NewestFew ==
  ASSUME started \in Seq(Clicks)
  PROVE  Len(Newest) <= MaxShown
<1> DEFINE m == 1 + Max({0, Len(started) - MaxShown})
           shown == SubSeq(started, m, Len(started))
<1>1. Len(started) \in Nat /\ MaxShown \in Nat
  BY BoundsAssumption
<1>2. m \in Int /\ m \in 1 .. Len(started) + 1 /\ Len(started) - m + 1 <= MaxShown
  <2> DEFINE S == {0, Len(started) - MaxShown}
  <2>1. Max(S) \in 0 .. Len(started)
    BY <1>1, MaxOfTwo, Zenon
  <2>2. Max(S) >= Len(started) - MaxShown
    <3>1. \E x \in S : \A y \in S : x >= y
      BY <1>1
    <3>2. \A y \in S : Max(S) >= y
      BY <3>1 DEF Max
    <3> QED BY <3>2
  <2> HIDE DEF S
  <2> QED BY <1>1, <2>1, <2>2 DEF S
<1>3. shown \in Seq(Clicks) /\ Len(shown) = IF m <= Len(started) THEN Len(started) - m + 1 ELSE 0
  <2> HIDE DEF m
  <2>1. \A i \in m .. Len(started) : started[i] \in Clicks
    BY <1>1, <1>2
  <2> QED BY <1>1, <1>2, <2>1, SubSeqProperties
<1>4. Newest = [i \in DOMAIN shown |-> [run |-> shown[i], status |-> row[shown[i]]]]
  BY DEF Newest, Rows
<1> HIDE DEF m, shown
<1>5. Len(Newest) = Len(shown)
  BY <1>3, <1>4
<1> QED BY <1>1, <1>2, <1>3, <1>5

(* All of it. *)
PageInv ==
    /\ RunsInv /\ HistoryInv /\ Exclusive
    /\ PanelTypes
    /\ Len(history) <= MaxShown

LEMMA PageInit == Init => PageInv
<1> SUFFICES ASSUME Init PROVE PageInv
  OBVIOUS
<1>1. RunsInv /\ Exclusive /\ LedgerInv
  BY RunsInvariant, ExclusiveInit, LedgerInvInit
<1>2. started = <<>> /\ history = <<>>
  BY DEF Init
<1>3. HistoryInv
  BY <1>1, <1>2 DEF HistoryInv, StartedInv
<1>4. PanelTypes
  BY DEF Init, PanelInit, PanelTypes
<1>5. Len(history) <= MaxShown
  BY <1>2, BoundsAssumption
<1> QED BY <1>1, <1>3, <1>4, <1>5 DEF PageInv

LEMMA PageKept ==
  ASSUME PageInv, [Next]_vars PROVE PageInv'
<1>1. RunsInv' /\ HistoryInv' /\ Exclusive' /\ PanelTypes'
  BY RunsInvariant, HistoryStep, ExclusiveNext, PanelStep DEF PageInv
<1>2. Len(history') <= MaxShown
  <2>1. CASE ~Reload
    BY <2>1, PageStays DEF PageInv
  <2>2. CASE Reload
    <3>1. started \in Seq(Clicks)
      BY DEF PageInv, HistoryInv, StartedInv
    <3>2. history' = Newest \/ history' = <<>>
      BY <2>2 DEF Reload
    <3>3. Len(Newest) <= MaxShown /\ MaxShown \in Nat
      BY <3>1, NewestFew, BoundsAssumption
    <3> QED BY <3>2, <3>3
  <2> QED BY <2>1, <2>2
<1> QED BY <1>1, <1>2 DEF PageInv

(* Panel, requests, runs and rows keep their shapes; only a run that is      *)
(* running keeps anything, and no page shows more rows than it may, however  *)
(* many runs there have been (routes/scrapers.py, limit(25)).                *)
THEOREM TypeCorrect == Spec => []TypeOK
<1>1. PageInv => TypeOK
  <2> SUFFICES ASSUME PageInv PROVE TypeOK
    OBVIOUS
  <2>1. PanelTypes /\ AnalysisTypes /\ LifeTypes /\ WorkInv /\ Len(history) <= MaxShown
    BY DEF PageInv, Exclusive, RunsInv, LedgerInv
  <2> QED BY <2>1 DEF PanelTypes, AnalysisTypes, LifeTypes, WorkInv, TypeOK
<1> QED BY <1>1, PageInit, PageKept, PTL DEF Spec
=============================================================================
