---------------------------- MODULE DealPipeline ----------------------------
(***************************************************************************)
(* From stored listings to deal analyses: compute_neighborhood_stats, then *)
(* analyze_and_persist_all, run by the task a scrape triggers and by the   *)
(* threads of POST /market/compute and POST /market/analyze.               *)
(*                                                                         *)
(* A worker is one such task.  Workers run in threads or in processes of   *)
(* their own and interleave statement by statement, under READ COMMITTED;  *)
(* scrapers store listings in between.  A worker commits its statistics    *)
(* once and its analyses property by property.                             *)
(*                                                                         *)
(* The twelve rows of one property are deleted by one statement and        *)
(* inserted in one transaction: they are one batch, identified by a number *)
(* no batch in use has.                                                    *)
(***************************************************************************)
EXTENDS Listings, Percentile

CONSTANTS
    Workers,     \* tasks running the pipeline
    Ids,         \* names of batches
    Area,        \* private area of each home, 0 when unknown
    GroupOf,     \* (city, neighborhood, property_type) of each home
    Fallback,    \* percentiles assumed for a city without statistics
    MaxTakes,    \* bound on the listings stored by scrapers
    MaxJobs      \* bound on the jobs started

Groups == {GroupOf[h] : h \in Homes}
Properties == Fingerprints
HomeOf(prop) == prop[1]

(* A row of statistics, or the percentiles assumed for a city. *)
Market == [n : Nat, p50 : Nat, p65 : Nat]

ASSUME AreaAssumption == Area \in [Homes -> Nat]
ASSUME MarketAssumption == Fallback \in Market /\ Absent \notin Market
(* The band is 10000 wide: prices of zero and of one share the first. *)
ASSUME BandAssumption == Step > 1
ASSUME WorkerBounds == MaxTakes \in Nat /\ MaxJobs \in Nat

VARIABLES
    listings,   \* table source_listings, as in Ingestion
    stats,      \* table neighborhood_stats: the row of each group, or Absent
    analyses,   \* table deal_analyses: the batches of each property
    job,        \* what a worker was asked for: "stats" or "pipeline"
    pc,         \* the statement each worker runs next
    fresh,      \* statistics a worker computed and has not committed, by group
    read,       \* the rows of stats a worker read, by group
    todo,       \* properties a worker has still to analyse
    current,    \* the property, price and market being analysed
    visible,    \* batches a worker's DELETE statement sees
    doomed,     \* batches a worker has deleted and not committed
    result,     \* how a worker's last job ended
    quiet,      \* observer: nothing else touched the tables since a worker's job began
    takes, jobs \* counters of the bounds

tables == <<listings, stats, analyses>>
memory == <<fresh, read, todo, current, visible, doomed>>
control == <<job, pc, result>>
counters == <<takes, jobs>>
vars == <<tables, memory, control, quiet, counters>>

(***************************************************************************)
(* What the queries return.                                                *)
(***************************************************************************)

Priced(k) == listings[k] # Absent /\ listings[k].price # NoPrice

(* Mutant: listings are looked up by home, whatever their band. *)
OffersOfHome(p) == {k \in Keys : Priced(k) /\ HomeOf(listings[k].prop) = HomeOf(p)}

(* Listings of a property that carry a price. *)
Offers(p) == {k \in Keys : Priced(k) /\ listings[k].prop = p}

(* Properties with an active listing whose price is above zero. *)
Offered == {p \in Properties : \E k \in Offers(p) : listings[k].price > 0}

(* The lowest price among all priced listings, a free one included. *)
Cheapest(p) == CHOOSE x \in {listings[k].price : k \in Offers(p)} :
                   \A k \in Offers(p) : x <= listings[k].price

(* A price of zero is falsy: one is analysed in its place. *)
PurchasePrice(p) == IF Cheapest(p) = 0 THEN 1 ELSE Cheapest(p)

(* Listings that count for the statistics of a group. *)
Comparables(g) ==
    {k \in Keys : /\ Priced(k)
                  /\ listings[k].price > 0
                  /\ Area[HomeOf(listings[k].prop)] > 0
                  /\ GroupOf[HomeOf(listings[k].prop)] = g}

(* Price per square metre, in hundredths. *)
Sample(g) == [k \in Comparables(g) |->
                 (100 * listings[k].price) \div Area[HomeOf(listings[k].prop)]]

(* The statistics of a group; none below two comparables. *)
StatOf(g) == IF Cardinality(Comparables(g)) < 2 THEN Absent
             ELSE [n |-> Size(Sample(g)),
                   p50 |-> PercentileOf(Sample(g), 50),
                   p65 |-> PercentileOf(Sample(g), 65)]

(* _get_market: the stored row unless one of the percentiles is missing or zero. *)
MarketOf(g) == IF stats[g] # Absent /\ stats[g].p50 # 0 /\ stats[g].p65 # 0
               THEN stats[g] ELSE Fallback

(***************************************************************************)
(* analyze_property raises when the return of the financed base scenario   *)
(* is below -100%: 1 + roi is negative, its power 12/10 is complex and no  *)
(* Decimal is made of it.  The costs that are both in the total and in the *)
(* capital cancel: the return is below -100% when 94% of the resale value  *)
(* (area * p50 * 1.05 after a light renovation, the first one computed)    *)
(* is below 71% of the price.                                              *)
(***************************************************************************)
Unanalysable(p, price, market) ==
    94 * 105 * Area[HomeOf(p)] * market.p50 < 71 * 10000 * price

Idle(w) == pc[w] = "idle"

(* Names for the next batch of a property. *)
FreeIds(p) == Ids \ {b.id : b \in analyses[p] \cup UNION {visible[w] : w \in Workers}}

Init ==
    /\ listings = [k \in Keys |-> Absent]
    /\ stats = [g \in Groups |-> Absent]
    /\ analyses = [p \in Properties |-> {}]
    /\ job = [w \in Workers |-> "pipeline"]
    /\ pc = [w \in Workers |-> "idle"]
    /\ fresh = [w \in Workers |-> <<>>]
    /\ read = [w \in Workers |-> <<>>]
    /\ todo = [w \in Workers |-> {}]
    /\ current = [w \in Workers |-> Absent]
    /\ visible = [w \in Workers |-> {}]
    /\ doomed = [w \in Workers |-> {}]
    /\ result = [w \in Workers |-> "none"]
    /\ quiet = [w \in Workers |-> FALSE]
    /\ takes = 0
    /\ jobs = 0

(* A write disturbs the picture of every task but the one that writes. *)
Disturb(except) == quiet' = [v \in Workers |-> v \in except /\ quiet[v]]

Goto(w, label) == pc' = [pc EXCEPT ![w] = label]

(* Session closed: nothing stays pending. *)
Stop(w, how) ==
    /\ Goto(w, "idle")
    /\ result' = [result EXCEPT ![w] = how]
    /\ fresh' = [fresh EXCEPT ![w] = <<>>]
    /\ read' = [read EXCEPT ![w] = <<>>]
    /\ todo' = [todo EXCEPT ![w] = {}]
    /\ current' = [current EXCEPT ![w] = Absent]
    /\ visible' = [visible EXCEPT ![w] = {}]
    /\ doomed' = [doomed EXCEPT ![w] = {}]
    /\ UNCHANGED <<job, counters>>

(* An exception ends the job; the open transaction is rolled back. *)
Fail(w) == Stop(w, "failed") /\ UNCHANGED <<tables, quiet>>

(***************************************************************************)
(* The environment: a scraper stores a listing (Ingestion), which puts it  *)
(* on the property of its price band.                                      *)
(***************************************************************************)
Take ==
    /\ takes < MaxTakes
    /\ \E k \in Keys, h \in Homes, p \in Prices \cup {NoPrice} :
        listings' = [listings EXCEPT ![k] = [prop |-> Fingerprint(h, p), price |-> p]]
    /\ takes' = takes + 1
    /\ Disturb({})
    /\ UNCHANGED <<stats, analyses, memory, control, jobs>>

(***************************************************************************)
(* A job.                                                                  *)
(***************************************************************************)

Start(w) ==
    /\ Idle(w)
    /\ jobs < MaxJobs
    /\ \E kind \in {"stats", "pipeline"} : job' = [job EXCEPT ![w] = kind]
    /\ Goto(w, "collect")
    /\ result' = [result EXCEPT ![w] = "none"]
    /\ quiet' = [quiet EXCEPT ![w] = TRUE]
    /\ jobs' = jobs + 1
    /\ UNCHANGED <<tables, memory, takes>>

(* One SELECT of every comparable; percentiles of each group of two or more. *)
Collect(w) ==
    /\ pc[w] = "collect"
    /\ LET found == {g \in Groups : StatOf(g) # Absent}
       IN  fresh' = [fresh EXCEPT ![w] = [g \in found |-> StatOf(g)]]
    /\ Goto(w, "readStat")
    /\ UNCHANGED <<tables, read, todo, current, visible, doomed, job, result, quiet, counters>>

(* SELECT the stored row of each group, one after the other. *)
ReadStat(w) ==
    /\ pc[w] = "readStat"
    /\ \E g \in DOMAIN fresh[w] \ DOMAIN read[w] :
        read' = [read EXCEPT ![w] = [x \in DOMAIN @ \cup {g} |->
                                        IF x = g THEN stats[g] ELSE @[x]]]
    /\ UNCHANGED <<tables, fresh, todo, current, visible, doomed, control, quiet, counters>>

(* An UPDATE sets the columns that differ from the row read. *)
Merged(old, new, now) == [c \in DOMAIN now |-> IF new[c] = old[c] THEN now[c] ELSE new[c]]

(* Mutant: a row that exists is not refreshed. *)
FirstStat(w, g) ==
    IF g \in DOMAIN fresh[w] /\ read[w][g] = Absent THEN fresh[w][g] ELSE stats[g]

NewStat(w, g) ==
    IF g \notin DOMAIN fresh[w] THEN stats[g]
    ELSE IF read[w][g] = Absent THEN fresh[w][g]
    ELSE Merged(read[w][g], fresh[w][g], stats[g])

(* A group inserted by another worker since it was read: unique violation. *)
StatConflict(w) == \E g \in DOMAIN fresh[w] : read[w][g] = Absent /\ stats[g] # Absent

(* All groups are flushed and committed together. *)
CommitStats(w) ==
    /\ pc[w] = "readStat"
    /\ DOMAIN read[w] = DOMAIN fresh[w]
    /\ IF StatConflict(w)
       THEN Fail(w)
       ELSE /\ stats' = [g \in Groups |-> NewStat(w, g)]
            /\ Disturb({w})
            /\ fresh' = [fresh EXCEPT ![w] = <<>>]
            /\ read' = [read EXCEPT ![w] = <<>>]
            /\ Goto(w, IF job[w] = "stats" THEN "end" ELSE "list")
            /\ UNCHANGED <<listings, analyses, todo, current, visible, doomed, job, result,
                           counters>>

(* One SELECT of the properties to analyse. *)
List(w) ==
    /\ pc[w] = "list"
    /\ todo' = [todo EXCEPT ![w] = Offered]
    /\ Goto(w, "next")
    /\ UNCHANGED <<tables, fresh, read, current, visible, doomed, job, result, quiet, counters>>

(* The next property, in no particular order: its cheapest listing, or on    *)
(* to the one after it when there is no listing or no area by now.           *)
Pick(w) ==
    /\ pc[w] = "next"
    /\ \E p \in todo[w] :
        IF Offers(p) = {} \/ Area[HomeOf(p)] = 0
        THEN /\ todo' = [todo EXCEPT ![w] = @ \ {p}]
             /\ UNCHANGED <<pc, current>>
        ELSE /\ current' = [current EXCEPT ![w] = [prop |-> p, price |-> PurchasePrice(p),
                                                   market |-> Absent]]
             /\ Goto(w, "market")
             /\ UNCHANGED todo
    /\ UNCHANGED <<tables, fresh, read, visible, doomed, job, result, quiet, counters>>

(* SELECT the statistics of the property's group. *)
ReadMarket(w) ==
    /\ pc[w] = "market"
    /\ current' = [current EXCEPT ![w].market = MarketOf(GroupOf[HomeOf(current[w].prop)])]
    /\ Goto(w, "delete")
    /\ UNCHANGED <<tables, fresh, read, todo, visible, doomed, job, result, quiet, counters>>

(* DELETE, its snapshot: the batches committed by now. *)
DeleteSees(w) ==
    /\ pc[w] = "delete"
    /\ visible' = [visible EXCEPT ![w] = analyses[current[w].prop]]
    /\ Goto(w, "deleting")
    /\ UNCHANGED <<tables, fresh, read, todo, current, doomed, job, result, quiet, counters>>

(* Mutant: the deletion is committed on its own. *)
DeleteAndCommit(w) ==
    /\ pc[w] = "deleting"
    /\ analyses' = [analyses EXCEPT ![current[w].prop] = @ \ visible[w]]
    /\ visible' = [visible EXCEPT ![w] = {}]
    /\ Goto(w, "analyse")
    /\ UNCHANGED <<listings, stats, fresh, read, todo, current, doomed, job, result, quiet,
                   counters>>

(* DELETE, its effect: rows another worker is deleting are waited for; then  *)
(* the ones still there are deleted.                                         *)
Contended(w) == \E v \in Workers \ {w} : doomed[v] \cap visible[w] # {}

DeleteRows(w) ==
    /\ pc[w] = "deleting"
    /\ ~Contended(w)
    /\ doomed' = [doomed EXCEPT ![w] = visible[w] \cap analyses[current[w].prop]]
    /\ visible' = [visible EXCEPT ![w] = {}]
    /\ Goto(w, "analyse")
    /\ UNCHANGED <<tables, fresh, read, todo, current, job, result, quiet, counters>>

(* Mutant: the row of the group is recorded as it is, without the fallback. *)
BatchOfRow(w, id) == [id |-> id, price |-> current[w].price,
                      market |-> stats[GroupOf[HomeOf(current[w].prop)]]]

NewBatch(w, id) == [id |-> id, price |-> current[w].price, market |-> current[w].market]

(* Mutant: the old rows are not deleted. *)
WithNewBatch(w, id) == analyses[current[w].prop] \cup {NewBatch(w, id)}

(* What the transaction leaves of a property's batches. *)
NewAnalyses(w, id) == (analyses[current[w].prop] \ doomed[w]) \cup {NewBatch(w, id)}

(* Mutant: the deletes are kept pending until the job ends. *)
AnalyseUncommitted(w) ==
    /\ pc[w] = "analyse"
    /\ LET p == current[w].prop
           id == CHOOSE i \in FreeIds(p) : \A j \in FreeIds(p) : i <= j
       IN  /\ analyses' = [analyses EXCEPT ![p] = @ \cup {NewBatch(w, id)}]
           /\ todo' = [todo EXCEPT ![w] = @ \ {p}]
    /\ current' = [current EXCEPT ![w] = Absent]
    /\ Disturb({w})
    /\ Goto(w, "next")
    /\ UNCHANGED <<listings, stats, fresh, read, visible, doomed, job, result, counters>>

(* Mutant: a property whose analysis raises is tried again. *)
AnalyseRetrying(w) ==
    /\ pc[w] = "analyse"
    /\ LET p == current[w].prop
           id == CHOOSE i \in FreeIds(p) : \A j \in FreeIds(p) : i <= j
           raises == Unanalysable(p, current[w].price, current[w].market)
       IN  /\ analyses' = IF raises THEN analyses
                          ELSE [analyses EXCEPT ![p] = NewAnalyses(w, id)]
           /\ todo' = [todo EXCEPT ![w] = IF raises THEN @ ELSE @ \ {p}]
    /\ current' = [current EXCEPT ![w] = Absent]
    /\ doomed' = [doomed EXCEPT ![w] = {}]
    /\ Disturb({w})
    /\ Goto(w, "next")
    /\ UNCHANGED <<listings, stats, fresh, read, visible, job, result, counters>>

(* The twelve analyses are computed, inserted and committed; an exception in *)
(* any of them ends the whole job.  One whose return or margin is too wide   *)
(* for its column fails when it is flushed, which is what Crash does here;   *)
(* Analyzer says of which analyses that is.                                  *)
Analyse(w) ==
    /\ pc[w] = "analyse"
    /\ LET p == current[w].prop
           id == CHOOSE i \in FreeIds(p) : \A j \in FreeIds(p) : i <= j
       IN  IF Unanalysable(p, current[w].price, current[w].market)
           THEN Fail(w)
           ELSE /\ analyses' = [analyses EXCEPT ![p] = NewAnalyses(w, id)]
                /\ todo' = [todo EXCEPT ![w] = @ \ {p}]
                /\ current' = [current EXCEPT ![w] = Absent]
                /\ doomed' = [doomed EXCEPT ![w] = {}]
                /\ Disturb({w})
                /\ Goto(w, "next")
                /\ UNCHANGED <<listings, stats, fresh, read, visible, job, result, counters>>

Done(w) ==
    /\ \/ pc[w] = "end"
       \/ pc[w] = "next" /\ todo[w] = {}
    /\ Stop(w, "done")
    /\ UNCHANGED <<tables, quiet>>

(* The process dies or the connection drops. *)
Crash(w) == ~Idle(w) /\ Stop(w, "crashed") /\ UNCHANGED <<tables, quiet>>

Statement(w) ==
    \/ Collect(w) \/ ReadStat(w) \/ CommitStats(w)
    \/ List(w) \/ Pick(w) \/ ReadMarket(w) \/ DeleteSees(w) \/ DeleteRows(w)
    \/ Analyse(w) \/ Done(w)

Next == Take \/ \E w \in Workers : Start(w) \/ Statement(w) \/ Crash(w)

Spec == Init /\ [][Next]_vars

(* A task runs on unless it is waiting for rows another one is deleting. *)
FairSpec == Spec /\ \A w \in Workers : WF_vars(Statement(w))

-----------------------------------------------------------------------------
(***************************************************************************)
(* Properties.                                                             *)
(***************************************************************************)

Labels == {"idle", "collect", "readStat", "list", "next", "market", "delete", "deleting",
           "analyse", "end"}

Batches == [id : Ids, price : Nat, market : Market]

(* Tables and workers have the shape declared for them, and a job always     *)
(* finds a name for its next batch.                                          *)
TypeOK ==
    /\ listings \in [Keys -> Rows \cup {Absent}]
    /\ stats \in [Groups -> Market \cup {Absent}]
    /\ \A p \in Properties : analyses[p] \subseteq Batches
    /\ job \in [Workers -> {"stats", "pipeline"}]
    /\ pc \in [Workers -> Labels]
    /\ result \in [Workers -> {"none", "done", "failed", "crashed"}]
    /\ quiet \in [Workers -> BOOLEAN]
    /\ \A p \in Properties : FreeIds(p) # {}

(* One analysis "1 por property + cenário": a property has one batch at most. *)
OneBatch == \A p \in Properties : Cardinality(analyses[p]) <= 1

(* A property that has been analysed never appears without an analysis: the  *)
(* old rows go in the transaction that brings the new ones, also when it     *)
(* fails or two workers replace the same rows.                               *)
StaysAnalysed ==
    [][\A p \in Properties : analyses[p] # {} => analyses'[p] # {}]_vars

(* Every analysis was made from a price of its own property's band, although *)
(* listings move between properties while a job runs.                        *)
PriceInBand ==
    \A p \in Properties : \A b \in analyses[p] : Band(b.price) = p[2]

(* What a finished job has to leave when nothing else wrote meanwhile. *)
Settled(w) == Idle(w) /\ quiet[w] /\ job[w] = "pipeline" /\ result[w] = "done"

Analysable(p) == Offered \cap {p} # {} /\ Area[HomeOf(p)] > 0

(* A pipeline that ended undisturbed leaves every property on offer with one *)
(* batch, made from its cheapest price and from the statistics of the        *)
(* listings there are (lines 49-100, 134-197).                               *)
UpToDate ==
    \A w \in Workers : Settled(w) =>
        /\ \A g \in Groups : StatOf(g) # Absent => stats[g] = StatOf(g)
        /\ \A p \in Properties : Analysable(p) =>
            {[price |-> b.price, market |-> b.market] : b \in analyses[p]} =
                {[price |-> PurchasePrice(p), market |-> MarketOf(GroupOf[HomeOf(p)])]}

(* After such a pipeline, only properties on offer have analyses: the        *)
(* dashboard reflects the latest data.                                       *)
NoGhosts ==
    \A w \in Workers : Settled(w) => \A p \in Properties : analyses[p] # {} => p \in Offered

(* A job that ended by itself, undisturbed, has analysed every property that *)
(* can be: "iterate every property that has an active listing with a price". *)
EveryPropertyAnalysed ==
    \A w \in Workers :
        Idle(w) /\ quiet[w] /\ job[w] = "pipeline" /\ result[w] \in {"done", "failed"} =>
            \A p \in Properties :
                Analysable(p) /\ ~Unanalysable(p, PurchasePrice(p),
                                               MarketOf(GroupOf[HomeOf(p)]))
                    => analyses[p] # {}

(* A worker waits only for one that can go on: whoever holds rows has one    *)
(* property under way and will commit it, so two workers that go through the *)
(* properties in opposite orders never wait for each other.                  *)
NobodyStuck ==
    \A w, v \in Workers :
        pc[w] = "deleting" /\ doomed[v] \cap visible[w] # {} /\ v # w => pc[v] = "analyse"

(* Every job ends: by itself, with an exception or a crash. *)
EveryJobEnds == \A w \in Workers : ~Idle(w) ~> Idle(w)
=============================================================================
