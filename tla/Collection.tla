----------------------------- MODULE Collection -----------------------------
(***************************************************************************)
(* A collection as its user meets it: the button that triggers a source    *)
(* (TriggerPanel), the request and its answer, the run that the API keeps  *)
(* in its memory until it begins, page by page (Links) or lot by lot, the  *)
(* row of the run and the history on the page.                             *)
(*                                                                         *)
(* Between two requests to a site a run is not interrupted: a page with    *)
(* all it stores, or a lot, is one step.  What happens inside, and between *)
(* runs that share loop and connections, is in ScrapeRun and Ingestion.    *)
(***************************************************************************)
EXTENDS TriggerPanel, Links

CONSTANTS
    Sources,      \* scrapers that are tried
    StartPages,   \* pages each scraper goes through
    Seeds,        \* URLs it visits without having found them
    MaxShown,     \* bound on the rows of the history: 25 in the code
    Bounds        \* what a behaviour may hold: one of these sets of bounds

ASSUME SourcesAssumption ==
    /\ Sources \subseteq PageScrapers \cup LotScrapers
    /\ StartPages \in [Sources -> Nat]
    /\ Seeds \in [Sources -> SUBSET Urls]
    /\ \A s \in Sources \cap PageScrapers : Seeds[s] = {}
ASSUME BoundsAssumption ==
    /\ MaxShown \in Nat
    /\ IsFiniteSet(Bounds)
    /\ Bounds \subseteq [sources : SUBSET Sources, clicks : SUBSET Clicks, analyses : BOOLEAN,
                         links : Nat, crashes : Nat]

VARIABLES
    source,     \* the scraper of the button
    request,    \* what has become of the request of each click
    run,        \* what has become of the run of each click
    work,       \* what each run keeps while it runs
    row,        \* table scrape_runs
    started,    \* its rows in the order of started_at
    history,    \* rows on the page, as they were when it was rendered
    api,        \* "up" or "down"
    bound       \* clicks that may be made, whether analyses are asked for, and
                \* the links and crashes that are left

server == <<run, work, row, started, api>>
vars == <<panel, source, request, server, history, bound>>

(* A run: pages to go, URLs seen, lots found and not visited, what it has    *)
(* counted.  Observers: URLs it stored a listing from, URLs shown to it      *)
(* complete, URLs it saw in a form that hides them, and the signs with which *)
(* a site refused it a page.                                                 *)
NoWork == [left |-> 0, seen |-> {}, queue |-> {}, collected |-> 0, stored |-> 0, failed |-> FALSE,
           by |-> {}, shown |-> {}, spoilt |-> {}, refused |-> {}]

(* The listings a run has stored: several URLs may be of one row, which the  *)
(* second of them finds and updates.                                         *)
StoredIds(w) == {SourceId[u] : u \in w.by}

Init ==
    /\ PanelInit
    /\ bound \in Bounds
    /\ source \in bound.sources
    /\ request = [c \in Clicks |-> "unused"]
    /\ run = [c \in Clicks |-> "none"]
    /\ work = [c \in Clicks |-> NoWork]
    /\ row = [c \in Clicks |-> "none"]
    /\ started = <<>>
    /\ history = <<>>
    /\ api = "up"

(***************************************************************************)
(* The browser and the requests.                                           *)
(***************************************************************************)

Sent(c, what) == request' = [request EXCEPT ![c] = what]

(* The browser has given the request up; it may still reach the API.         *)
GiveUp(c) == Sent(c, IF request[c] = "sent" THEN "unheard" ELSE "over")

Press(c) ==
    /\ c \in bound.clicks
    /\ request[c] = "unused"
    /\ Click(c)
    /\ Sent(c, "sent")
    /\ UNCHANGED <<source, server, history, bound>>

(* The endpoint hands the run to the background tasks of the response, also  *)
(* when nobody waits for that any more.                                      *)
Accept(c) ==
    /\ api = "up"
    /\ request[c] \in {"sent", "unheard"}
    /\ Sent(c, IF request[c] = "sent" THEN "accepted" ELSE "over")
    /\ run' = [run EXCEPT ![c] = "queued"]
    /\ UNCHANGED <<panel, source, work, row, started, api, history, bound>>

(* A wrong token, or an address that is not allowed: JSON without a status. *)
Deny(c) ==
    /\ api = "up"
    /\ request[c] = "sent"
    /\ Sent(c, "denied")
    /\ UNCHANGED <<panel, source, server, history, bound>>

HearQueued(c) ==
    /\ request[c] = "accepted"
    /\ Answer(c, "queued")
    /\ Sent(c, "over")
    /\ UNCHANGED <<source, server, history, bound>>

(* An answer without the status, or fetch raises: the API was not reached,   *)
(* its answer came too late or was lost on the way.                          *)
HearError(c) ==
    /\ Answer(c, "error")
    /\ GiveUp(c)
    /\ UNCHANGED <<source, server, history, bound>>

(* res.json() is returned without being awaited, so its handler does not     *)
(* cover it: an answer that is not JSON, like one of a proxy, raises.        *)
HearGarbage(c) ==
    /\ c \in waiting
    /\ Break
    /\ GiveUp(c)
    /\ UNCHANGED <<source, server, history, bound>>

Hear(c) == HearQueued(c) \/ HearError(c) \/ HearGarbage(c)

TimerFires(c) == Expire(c) /\ UNCHANGED <<source, request, server, history, bound>>

(* POST /market/analyze, whose job is one of DealPipeline. *)
AskAnalysis == bound.analyses /\ Ask /\ UNCHANGED <<source, request, server, history, bound>>
AnalysisAsked ==
    /\ Asked \/ (asking > 0 /\ Break)
    /\ UNCHANGED <<source, request, server, history, bound>>
AnalysisCleared == Clear /\ UNCHANGED <<source, request, server, history, bound>>

Rows(runs) == [i \in DOMAIN runs |-> [run |-> runs[i], status |-> row[runs[i]]]]

(* Mutant: every row there is. *)
NewestAll == Rows(started)

(* GET /scrapers/runs: the last rows. *)
Newest == Rows(SubSeq(started, 1 + Max({0, Len(started) - MaxShown}), Len(started)))

(* The page is rendered with what the API answers now; its health and the    *)
(* rows are asked for by two requests, and either may fail alone.            *)
Reload ==
    /\ \E healthy \in {FALSE, api = "up"} : Render(healthy)
    /\ history' \in {<<>>, IF api = "up" THEN Newest ELSE <<>>}
    /\ UNCHANGED <<source, request, server, bound>>

(***************************************************************************)
(* A run.                                                                  *)
(***************************************************************************)

Works(c) == run[c] = "running"

Fresh == [NoWork EXCEPT !.left = StartPages[source], !.queue = Seeds[source], !.seen = Seeds[source]]

(* Mutant: a run waits until no row says that one is running. *)
BeginAlone(c) ==
    /\ run[c] = "queued"
    /\ \A d \in Clicks : row[d] # "running"
    /\ run' = [run EXCEPT ![c] = "running"]
    /\ row' = [row EXCEPT ![c] = "running"]
    /\ started' = Append(started, c)
    /\ work' = [work EXCEPT ![c] = Fresh]
    /\ UNCHANGED <<panel, source, request, api, history, bound>>

(* The row is committed, and the scraper asks for its first page. *)
Begin(c) ==
    /\ run[c] = "queued"
    /\ run' = [run EXCEPT ![c] = "running"]
    /\ row' = [row EXCEPT ![c] = "running"]
    /\ started' = Append(started, c)
    /\ work' = [work EXCEPT ![c] = Fresh]
    /\ UNCHANGED <<panel, source, request, api, history, bound>>

Now(c, w) == work' = [work EXCEPT ![c] = w] /\ UNCHANGED <<run, row, started, api>>

Met(n) == bound' = [bound EXCEPT !.links = @ - n]

Elsewhere == UNCHANGED <<panel, source, request, history>>

(* Texts after which a source is known to miss the listing. *)
Hides == CASE source = "chaves_na_mao" -> {"bare", "unpriced"}
           [] source = "loft" -> {"unpriced"}
           [] OTHER -> {}

CompleteIn(page) == {page[i].url : i \in {j \in DOMAIN page : page[j].text = "complete"}}

(* URLs that appear hidden before they have appeared complete. *)
SpoiltIn(w, page) ==
    {page[i].url : i \in {j \in DOMAIN page :
        /\ page[j].text \in Hides
        /\ page[j].url \notin w.shown \cup CompleteIn(SubSeq(page, 1, j - 1))}}

(* Quinto Andar's page is a dictionary of houses by their id. *)
MaxLinks == Max({b.links : b \in Bounds})
Pages == [s \in PageScrapers |-> [n \in 0 .. MaxLinks |->
    {p \in [1 .. n -> Link] :
        s = "quintoandar" => \A i, j \in DOMAIN p : i # j => SourceId[p[i].url] # SourceId[p[j].url]}]]

Turned(w, page, seen) ==
    [w EXCEPT !.left = @ - 1, !.seen = seen, !.shown = @ \cup CompleteIn(page),
              !.spoilt = @ \cup SpoiltIn(w, page)]

(* Mutant: a page that fails is not an error. *)
StoredQuietly(w, found, n) ==
    [w EXCEPT !.collected = @ + Len(found), !.stored = @ + n,
              !.by = @ \cup {found[i] : i \in 1 .. n}]

(* The first n cards of a page are stored, each under its source_id; the     *)
(* next one, if any, raises and the rest of the page is dropped.             *)
Stored(w, found, n) ==
    [w EXCEPT !.collected = @ + Len(found), !.stored = @ + n,
              !.by = @ \cup {found[i] : i \in 1 .. n},
              !.failed = @ \/ n < Len(found)]

(* The next page of a page scraper. *)
Visit(c) ==
    /\ Works(c) /\ source \in PageScrapers /\ work[c].left > 0
    /\ \E size \in 0 .. bound.links : \E page \in Pages[source][size] :
        LET read == Extract(source, page, work[c].seen)
            turned == Turned(work[c], page, read.seen)
        IN  /\ Met(size)
            /\ IF read.raised THEN Now(c, [turned EXCEPT !.failed = TRUE])
               ELSE \E n \in 0 .. Len(read.found) : Now(c, Stored(turned, read.found, n))
    /\ Elsewhere

(* A page scraper goes on after a page it does not get. *)
VisitFails(c) ==
    /\ Works(c) /\ source \in PageScrapers /\ work[c].left > 0
    /\ Now(c, [work[c] EXCEPT !.left = @ - 1, !.failed = TRUE])
    /\ Elsewhere /\ UNCHANGED bound

(* discover of a lot scraper: the next page, when its lots have been visited. *)
Discovers(c) == Works(c) /\ source \in LotScrapers /\ work[c].left > 0 /\ work[c].queue = {}

Discover(c) ==
    /\ Discovers(c)
    /\ \E urls \in SUBSET Urls :
        /\ IsFiniteSet(urls) /\ Cardinality(urls) <= bound.links
        /\ Met(Cardinality(urls))
        /\ Now(c, [work[c] EXCEPT !.left = @ - 1, !.queue = urls \ work[c].seen,
                                  !.seen = @ \cup urls])
    /\ Elsewhere

(* A listing stored from a lot's page. *)
Kept(w, u) == [w EXCEPT !.stored = @ + 1, !.by = @ \cup {u}]

(* A refusal is an error for a source that notices it.  One in words that    *)
(* nobody looks for is a page without listings, to the code and here.        *)
Refused(w, sign) == [w EXCEPT !.refused = @ \cup {sign}, !.failed = @ \/ sign \in Noticed(source)]

(* The lot is no property in one of the four cities; or it is one and is     *)
(* stored; or its page, its parsing or its storing raises, for this lot      *)
(* alone; or its page is refused.  Caixa takes every page for a property,    *)
(* also a refusal it does not notice; the blocked portals are only probed.   *)
Lot(c) ==
    /\ Works(c)
    /\ \E u \in work[c].queue :
        LET visited == [work[c] EXCEPT !.queue = @ \ {u}, !.collected = @ + 1]
        IN  \/ source # "caixa" /\ Now(c, visited)
            \/ source # "blocked_public" /\ Now(c, Kept([visited EXCEPT !.shown = @ \cup {u}], u))
            \/ Now(c, [visited EXCEPT !.failed = TRUE, !.shown = @ \cup {u}])
            \/ \E sign \in Signs :
                LET met == Refused(visited, sign)
                IN  Now(c, IF source = "caixa" /\ sign \notin Noticed(source) THEN Kept(met, u) ELSE met)
    /\ Elsewhere /\ UNCHANGED bound

(* The site refuses a page: an error, or a page without listings.  Caixa's   *)
(* search raises for a refusal it notices: EndFailed.                        *)
Refuse(c) ==
    /\ Works(c) /\ work[c].left > 0 /\ work[c].queue = {}
    /\ \E sign \in Signs :
        /\ source = "caixa" => sign \notin Noticed(source)
        /\ Now(c, Refused([work[c] EXCEPT !.left = @ - 1], sign))
    /\ Elsewhere /\ UNCHANGED bound

(* The row gets its outcome; what the run kept is gone. *)
End(c, outcome) ==
    /\ run' = [run EXCEPT ![c] = "ended"]
    /\ row' = [row EXCEPT ![c] = outcome]
    /\ work' = [work EXCEPT ![c] = NoWork]
    /\ Elsewhere /\ UNCHANGED <<started, api, bound>>

Finished(c) == Works(c) /\ work[c].left = 0 /\ work[c].queue = {}

EndRegular(c) ==
    /\ Finished(c)
    /\ End(c, IF work[c].failed THEN "partial" ELSE "success")

(* Mutant: the handler covers what follows a run as well. *)
EndFailedLate(c) ==
    /\ Discovers(c) \/ Finished(c) \/ row[c] = "success"
    /\ End(c, "failed")

(* discover raises, or the last commit does. *)
EndFailed(c) ==
    /\ Discovers(c) \/ Finished(c)
    /\ End(c, "failed")

(* The row cannot be inserted or read back, outside the handler, or its      *)
(* outcome not be written, within it: the task ends as it is.                *)
Strand(c) ==
    /\ run[c] = "queued" \/ (Works(c) /\ work[c] = Fresh) \/ Discovers(c) \/ Finished(c)
    /\ run' = [run EXCEPT ![c] = "lost"]
    /\ work' = [work EXCEPT ![c] = NoWork]
    /\ UNCHANGED <<row, started, api, bound>>
    /\ Elsewhere

(* The API dies with the runs it had begun and those it had only queued.     *)
Crash ==
    /\ api = "up" /\ bound.crashes > 0
    /\ api' = "down"
    /\ bound' = [bound EXCEPT !.crashes = @ - 1]
    /\ run' = [c \in Clicks |-> IF run[c] \in {"queued", "running"} THEN "lost" ELSE run[c]]
    /\ work' = [c \in Clicks |-> NoWork]
    /\ UNCHANGED <<panel, source, request, row, started, history>>

(* Mutant: what a crash has cut off is taken up again. *)
RestartRetries ==
    /\ api = "down"
    /\ api' = "up"
    /\ run' = [c \in Clicks |-> IF run[c] = "lost" THEN "queued" ELSE run[c]]
    /\ UNCHANGED <<panel, source, request, work, row, started, history, bound>>

Restart ==
    /\ api = "down"
    /\ api' = "up"
    /\ UNCHANGED <<panel, source, request, run, work, row, started, history, bound>>

Step(c) ==
    \/ Begin(c) \/ Visit(c) \/ VisitFails(c) \/ Discover(c) \/ Lot(c) \/ Refuse(c)
    \/ EndRegular(c) \/ EndFailed(c)

Next ==
    \/ \E c \in Clicks : Press(c) \/ Accept(c) \/ Deny(c) \/ Hear(c) \/ TimerFires(c) \/ Step(c) \/ Strand(c)
    \/ AskAnalysis \/ AnalysisAsked \/ AnalysisCleared \/ Reload
    \/ Crash \/ Restart

(* The browser's timers fire; a request is answered or given up; a run takes *)
(* its next step (its requests to a site time out after 45 s).  The user need *)
(* do nothing, and nobody need restart the API.                              *)
Spec ==
    /\ Init /\ [][Next]_vars
    /\ WF_vars(AnalysisAsked) /\ WF_vars(AnalysisCleared)
    /\ \A c \in Clicks : WF_vars(Hear(c)) /\ WF_vars(TimerFires(c)) /\ WF_vars(Step(c))

-----------------------------------------------------------------------------
(***************************************************************************)
(* Properties.                                                             *)
(***************************************************************************)

(* Panel, requests, runs and rows have the shape declared for them; only a   *)
(* run that is running keeps anything; a history is no longer than its limit. *)
TypeOK ==
    /\ view \in {"shown", "broken"} /\ backendOk \in BOOLEAN
    /\ status \in {"idle", "queued", "error"}
    /\ waiting \subseteq Clicks /\ timers \subseteq Clicks
    /\ asking \in Nat /\ clearing \in Nat /\ pending \in BOOLEAN
    /\ source \in Sources
    /\ request \in [Clicks -> {"unused", "sent", "unheard", "accepted", "denied", "over"}]
    /\ run \in [Clicks -> {"none", "queued", "running", "ended", "lost"}]
    /\ row \in [Clicks -> {"none", "running", "success", "partial", "failed"}]
    /\ \A c \in Clicks : work[c] # NoWork => Works(c)
    /\ Len(history) <= MaxShown

(* A run that says success has stored from every URL that any page showed it *)
(* complete, however often and in whatever form the URL was linked before,   *)
(* except where it is remembered before its card is checked                  *)
(* (chaves_na_mao.py:89, loft.py:86); and no page was refused to it in a way *)
(* its source notices.  Quinto Andar and five of the six lot scrapers notice *)
(* little or nothing (quintoandar.py:53, caixa.py:75, mega_leiloes.py:29).   *)
SuccessIsComplete ==
    [][\A c \in Clicks : row[c] = "running" /\ row'[c] = "success" =>
        /\ work[c].shown \ work[c].spoilt \subseteq work[c].by
        /\ work[c].refused \cap Noticed(source) = {}]_vars

(* A run stores from no URL twice, although its pages overlap and repeat     *)
(* their links: so a listing is counted, and its price recorded, at most     *)
(* once for each address it was linked by, and once where its addresses have *)
(* different source_ids.  Quinto Andar alone stores a listing as often as    *)
(* its pages show it.                                                        *)
OncePerUrl ==
    source # "quintoandar" => \A c \in Clicks :
        /\ work[c].stored = Cardinality(work[c].by)
        /\ (\A u, v \in work[c].by : SourceId[u] = SourceId[v] => u = v)
              => work[c].stored = Cardinality(StoredIds(work[c]))

(* items_collected and items_new + items_updated differ by what was lost to  *)
(* an error, and the row says so; for lots also by those left aside.         *)
CountsAddUp ==
    \A c \in Clicks :
        /\ work[c].stored <= work[c].collected
        /\ source \in PageScrapers /\ work[c].stored < work[c].collected => work[c].failed

(* "Analisar tudo" is pressed once at a time: its button stays disabled      *)
(* exactly as long as an answer or a timer is outstanding.                   *)
AnalysisExclusive == asking + clearing = IF pending THEN 1 ELSE 0

(* The page never shows an outcome that is not the one on record, however    *)
(* old it is: an outcome is final, and no row is shown that is not there.    *)
HistoryTrue ==
    \A i \in DOMAIN history :
        /\ row[history[i].run] # "none"
        /\ history[i].status # "running" => row[history[i].run] = history[i].status

(* The life of a run: not triggered yet is waiting, too. *)
Life == [c \in Clicks |-> IF run[c] \in {"none", "queued"} THEN "waiting" ELSE run[c]]
Outcome == [c \in Clicks |-> IF row[c] \in {"none", "running"} THEN "none" ELSE row[c]]

Ledger == INSTANCE RunLedger WITH Runs <- Clicks, life <- Life, outcome <- Outcome

(* The runs behind the buttons keep the same ledger as those of ScrapeRun,   *)
(* across crashes and restarts of the API: none begins or ends twice.        *)
IsLedger == Ledger!Spec

(* A button that shows an outcome becomes idle again, in whatever order      *)
(* answers, timers and further clicks come.                                  *)
ButtonReturns == status # "idle" ~> status = "idle"

(* A run that was queued comes to its end, whatever becomes of the runs      *)
(* beside it, of the answer to the click and of the page; only a crash of    *)
(* the API or a database that fails takes it away.                           *)
AcceptedRuns == \A c \in Clicks : run[c] = "queued" ~> run[c] \in {"ended", "lost"}
=============================================================================
