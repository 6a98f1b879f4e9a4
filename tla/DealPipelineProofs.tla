------------------------- MODULE DealPipelineProofs -------------------------
(* Theorems about DealPipeline, for any listings, workers and prices. *)
EXTENDS DealPipeline, PercentileProofs

-----------------------------------------------------------------------------
(* Shape of the tables and of what the workers remember. *)

Stored == {k \in Keys : listings[k] # Absent}

(* A stored listing is on the property of its price's band. *)
TableTypes ==
    /\ listings \in [Keys -> Rows \cup {Absent}]
    /\ \A k \in Stored : listings[k].prop[2] = Band(listings[k].price)
    /\ IsFiniteSet(Stored)
    /\ stats \in [Groups -> Market \cup {Absent}]
    /\ DOMAIN analyses = Properties

ControlTypes ==
    /\ job \in [Workers -> {"stats", "pipeline"}]
    /\ pc \in [Workers -> Labels]
    /\ result \in [Workers -> {"none", "done", "failed", "crashed"}]
    /\ quiet \in [Workers -> BOOLEAN]

(* Labels at which a worker has one property under way. *)
Working == {"market", "delete", "deleting", "analyse"}

(* A property and a price of its band. *)
InBand(c) == /\ c.prop \in Properties
             /\ c.price \in Nat
             /\ Band(c.price) = c.prop[2]

MemoryTypes ==
    /\ DOMAIN fresh = Workers /\ DOMAIN read = Workers
    /\ todo \in [Workers -> SUBSET Properties]
    /\ DOMAIN current = Workers
    /\ DOMAIN visible = Workers /\ DOMAIN doomed = Workers

(* Batches are remembered only between the statements that need them.        *)
WorkOf(w) ==
    /\ pc[w] \in Working => /\ current[w] = [prop |-> current[w].prop,
                                             price |-> current[w].price,
                                             market |-> current[w].market]
                            /\ InBand(current[w])
    /\ pc[w] \in Working \ {"market"} => current[w].market \in Market
    /\ visible[w] # {} => pc[w] = "deleting"
    /\ doomed[w] # {} => pc[w] = "analyse"

(* Statistics a worker computed and the rows it read before it stores them.  *)
(* A row that was there stays: statistics are never deleted.                 *)
FreshOf(w) ==
    /\ DOMAIN fresh[w] \subseteq Groups
    /\ \A g \in DOMAIN fresh[w] : fresh[w][g] \in Market
    /\ pc[w] # "readStat" => DOMAIN fresh[w] = {}
    /\ DOMAIN read[w] \subseteq DOMAIN fresh[w]
    /\ \A g \in DOMAIN read[w] : /\ read[w][g] \in Market \cup {Absent}
                                 /\ read[w][g] # Absent => stats[g] # Absent

WorkTypes == \A w \in Workers : WorkOf(w)
StatTypes == \A w \in Workers : FreshOf(w)

Types == TableTypes /\ ControlTypes /\ MemoryTypes /\ WorkTypes /\ StatTypes

-----------------------------------------------------------------------------
(* What the queries return. *)

LEMMA PropertyBand ==
  ASSUME NEW h \in Homes, NEW p \in Prices \cup {NoPrice}
  PROVE  /\ Fingerprint(h, p) \in Properties
         /\ Fingerprint(h, p)[2] = Band(p)
  BY DEF Fingerprint, Properties, Fingerprints, Bands

(* A priced listing is a row with a natural price. *)
LEMMA PricedRow ==
  ASSUME TableTypes, NEW k \in Keys, Priced(k)
  PROVE  /\ k \in Stored /\ listings[k] \in Rows
         /\ listings[k].price \in Nat
         /\ listings[k].prop \in Properties /\ HomeOf(listings[k].prop) \in Homes
         /\ listings[k].prop[2] = Band(listings[k].price)
<1>1. k \in Stored /\ listings[k] \in Rows /\ listings[k].price # NoPrice
  BY DEF TableTypes, Priced, Stored
<1>2. listings[k].price \in Prices \cup {NoPrice} /\ listings[k].prop \in Fingerprints
  BY <1>1 DEF Rows
<1>3. listings[k].price \in Nat
  BY <1>1, <1>2, PricesAssumption
<1> QED BY <1>1, <1>2, <1>3 DEF TableTypes, Properties, HomeOf, Fingerprints

(* The cheapest of the listings there are is one of them. *)
LEMMA CheapestIs ==
  ASSUME TableTypes, NEW p \in Properties, Offers(p) # {}
  PROVE  /\ Cheapest(p) \in {listings[k].price : k \in Offers(p)}
         /\ Cheapest(p) \in Nat
         /\ \A k \in Offers(p) : Cheapest(p) <= listings[k].price
<1> DEFINE prices == {listings[k].price : k \in Offers(p)}
<1>1. prices \in SUBSET Nat /\ prices # {}
  BY PricedRow DEF Offers
<1>2. \E x \in prices : \A y \in prices : x <= y
  <2> HIDE DEF prices
  <2> QED BY <1>1, Least
<1>3. \E x \in prices : \A k \in Offers(p) : x <= listings[k].price
  BY <1>2
<1>4. Cheapest(p) \in prices /\ \A k \in Offers(p) : Cheapest(p) <= listings[k].price
  BY <1>3, Zenon DEF Cheapest
<1> QED BY <1>1, <1>4

(* The price analysed is of the property's own band. *)
LEMMA PurchaseInBand ==
  ASSUME TableTypes, NEW p \in Properties, Offers(p) # {}
  PROVE  PurchasePrice(p) \in Nat /\ Band(PurchasePrice(p)) = p[2]
<1>1. PICK k \in Offers(p) : Cheapest(p) = listings[k].price
  BY CheapestIs
<1>2. Cheapest(p) \in Nat /\ Band(Cheapest(p)) = p[2]
  BY <1>1, PricedRow, CheapestIs DEF Offers
<1>3. CASE Cheapest(p) = 0
  <2>1. Step \in Nat /\ Step > 1 /\ 0 # NoPrice /\ 1 # NoPrice
    BY PricesAssumption, BandAssumption
  <2>2. 0 \div Step = 0 /\ 1 \div Step = 0
    BY <2>1
  <2> QED BY <1>2, <1>3, <2>1, <2>2 DEF PurchasePrice, Band
<1>4. CASE Cheapest(p) # 0
  BY <1>2, <1>4 DEF PurchasePrice
<1> QED BY <1>3, <1>4

(* Statistics are made of naturals. *)
LEMMA StatType ==
  ASSUME TableTypes, NEW g \in Groups
  PROVE  StatOf(g) \in Market \cup {Absent}
<1> DEFINE s == Sample(g)
<1>1. CASE Cardinality(Comparables(g)) < 2
  BY <1>1 DEF StatOf
<1>2. CASE ~(Cardinality(Comparables(g)) < 2)
  <2>1. DOMAIN s = Comparables(g)
    BY DEF Sample
  <2>2. \A k \in Comparables(g) : s[k] \in Nat
    <3> SUFFICES ASSUME NEW k \in Comparables(g) PROVE s[k] \in Nat
      OBVIOUS
    <3>1. k \in Keys /\ Priced(k) /\ Area[HomeOf(listings[k].prop)] > 0
      BY DEF Comparables
    <3>2. listings[k].price \in Nat /\ Area[HomeOf(listings[k].prop)] \in Nat \ {0}
      BY <3>1, PricedRow, AreaAssumption
    <3>3. s[k] = (100 * listings[k].price) \div Area[HomeOf(listings[k].prop)]
      BY DEF Sample
    <3> QED BY <3>2, <3>3
  <2>3. IsFiniteSet(Comparables(g))
    <3>1. Comparables(g) \in SUBSET Stored
      BY DEF Comparables, Priced, Stored
    <3> QED BY <3>1, FS_Subset DEF TableTypes
  <2>4. Comparables(g) # {}
    BY <1>2, FS_EmptySet
  <2>5. IsSample(s)
    <3> s = [k \in DOMAIN s |-> s[k]]
      BY DEF Sample
    <3> HIDE DEF s
    <3> QED BY <2>1, <2>2, <2>3, <2>4 DEF IsSample
  <2>6. Size(s) \in Nat /\ PercentileOf(s, 50) \in Nat /\ PercentileOf(s, 65) \in Nat
    BY <2>5, SizeType, PercentileType
  <2> QED BY <1>2, <2>6 DEF StatOf, Market
<1> QED BY <1>1, <1>2

LEMMA MarketType ==
  ASSUME TableTypes, NEW g \in Groups
  PROVE  MarketOf(g) \in Market
  BY MarketAssumption DEF TableTypes, MarketOf

LEMMA GroupType ==
  ASSUME NEW p \in Properties
  PROVE  HomeOf(p) \in Homes /\ GroupOf[HomeOf(p)] \in Groups
  BY DEF Properties, Fingerprints, HomeOf, Groups
-----------------------------------------------------------------------------
(* Typing is kept. *)

LEMMA TypesInit == Init => Types
<1> SUFFICES ASSUME Init PROVE Types
  OBVIOUS
<1>1. Stored = {}
  BY DEF Init, Stored
<1>2. TableTypes
  BY <1>1, FS_EmptySet DEF Init, TableTypes
<1>3. ControlTypes
  <2>1. quiet \in [Workers -> BOOLEAN]
    BY Zenon DEF Init
  <2> QED BY <2>1 DEF Init, ControlTypes, Labels
<1>4. WorkTypes
  BY DEF Init, WorkTypes, WorkOf, Working
<1>5. StatTypes
  BY DEF Init, StatTypes, FreshOf
<1>6. MemoryTypes
  BY DEF Init, MemoryTypes
<1> QED BY <1>2, <1>3, <1>4, <1>5, <1>6 DEF Types

(* Columns are merged one by one into a row of the same shape. *)
LEMMA MergedType ==
  ASSUME NEW old, NEW new \in Market, NEW now \in Market
  PROVE  /\ Merged(old, new, now) \in Market
         /\ old = now => Merged(old, new, now) = new
<1>1. DOMAIN now = {"n", "p50", "p65"} /\ DOMAIN new = {"n", "p50", "p65"}
  BY DEF Market
<1> DEFINE m == Merged(old, new, now)
<1>2. m = [c \in {"n", "p50", "p65"} |-> IF new[c] = old[c] THEN now[c] ELSE new[c]]
  BY <1>1 DEF Merged
<1>3. m = [n |-> m["n"], p50 |-> m["p50"], p65 |-> m["p65"]]
  BY <1>2
<1>4. m["n"] \in Nat /\ m["p50"] \in Nat /\ m["p65"] \in Nat
  BY <1>2 DEF Market
<1>5. m \in Market
  <2> HIDE DEF m
  <2> QED BY <1>3, <1>4 DEF Market
<1>6. ASSUME old = now PROVE m = new
  <2>1. new = [c \in {"n", "p50", "p65"} |-> new[c]]
    BY <1>1 DEF Market
  <2> QED BY <1>2, <1>6, <2>1
<1> QED BY <1>5, <1>6

(* What each step writes to the tables. *)
LEMMA TablesTyped ==
  ASSUME Types, [Next]_vars
  PROVE  TableTypes'
<1>1. ASSUME UNCHANGED tables PROVE TableTypes'
  BY <1>1 DEF Types, TableTypes, tables, Stored
<1>2. CASE Take
  <2>1. PICK k \in Keys, h \in Homes, p \in Prices \cup {NoPrice} :
           listings' = [listings EXCEPT ![k] = [prop |-> Fingerprint(h, p), price |-> p]]
    BY <1>2 DEF Take
  <2> DEFINE row == [prop |-> Fingerprint(h, p), price |-> p]
  <2>2. UNCHANGED <<stats, analyses>>
    BY <1>2 DEF Take
  <2>3. row \in Rows /\ row # Absent /\ row.prop[2] = Band(row.price)
    BY PropertyBand, AbsentAssumption DEF Rows, Properties
  <2>4. listings' \in [Keys -> Rows \cup {Absent}]
    BY <2>1, <2>3 DEF Types, TableTypes
  <2>5. Stored' = Stored \cup {k}
    BY <2>1, <2>3 DEF Types, TableTypes, Stored
  <2>6. IsFiniteSet(Stored')
    BY <2>5, FS_AddElement DEF Types, TableTypes
  <2>7. \A x \in Stored' : listings'[x].prop[2] = Band(listings'[x].price)
    BY <2>1, <2>3, <2>5 DEF Types, TableTypes
  <2> QED BY <2>2, <2>4, <2>6, <2>7 DEF Types, TableTypes
<1>3. ASSUME NEW w \in Workers, CommitStats(w) PROVE TableTypes'
  <2>1. CASE StatConflict(w)
    BY <1>1, <1>3, <2>1 DEF CommitStats, Fail
  <2>2. CASE ~StatConflict(w)
    <3>1. stats' = [g \in Groups |-> NewStat(w, g)] /\ UNCHANGED <<listings, analyses>>
      BY <1>3, <2>2 DEF CommitStats
    <3>2. DOMAIN read[w] = DOMAIN fresh[w]
      BY <1>3 DEF CommitStats
    <3>3. ASSUME NEW g \in Groups PROVE NewStat(w, g) \in Market \cup {Absent}
      <4>1. CASE g \notin DOMAIN fresh[w]
        BY <4>1 DEF NewStat, Types, TableTypes
      <4>2. CASE g \in DOMAIN fresh[w] /\ read[w][g] = Absent
        BY <4>2 DEF NewStat, Types, StatTypes, FreshOf
      <4>3. CASE g \in DOMAIN fresh[w] /\ read[w][g] # Absent
        <5>1. stats[g] \in Market /\ fresh[w][g] \in Market
          BY <3>2, <4>3 DEF Types, StatTypes, FreshOf, TableTypes
        <5>2. NewStat(w, g) = Merged(read[w][g], fresh[w][g], stats[g])
          BY <4>3 DEF NewStat
        <5> QED BY <5>1, <5>2, MergedType
      <4> QED BY <4>1, <4>2, <4>3
    <3> QED BY <3>1, <3>3 DEF Types, TableTypes, Stored
  <2> QED BY <2>1, <2>2
<1>4. ASSUME NEW w \in Workers, Analyse(w) PROVE TableTypes'
  <2>1. DOMAIN analyses' = DOMAIN analyses /\ UNCHANGED <<listings, stats>>
    BY <1>4 DEF Analyse, Fail, tables
  <2> QED BY <2>1 DEF Types, TableTypes, Stored
<1>5. CASE UNCHANGED vars
  BY <1>1, <1>5 DEF vars
<1>6. ASSUME NEW w \in Workers, Start(w) \/ Statement(w) \/ Crash(w) PROVE TableTypes'
  <2>1. CASE Start(w) \/ Crash(w) \/ Collect(w) \/ ReadStat(w) \/ List(w) \/ Pick(w)
               \/ ReadMarket(w) \/ DeleteSees(w) \/ DeleteRows(w) \/ Done(w)
    BY <1>1, <2>1 DEF Start, Crash, Collect, ReadStat, List, Pick, ReadMarket,
                      DeleteSees, DeleteRows, Done
  <2> QED BY <1>3, <1>4, <1>6, <2>1 DEF Statement
<1> QED BY <1>2, <1>5, <1>6 DEF Next
StepOf(w) == Start(w) \/ Statement(w) \/ Crash(w)

(* A step of one worker leaves what the others remember. *)
LEMMA OthersRest ==
  ASSUME Types, NEW w \in Workers, NEW v \in Workers, v # w, StepOf(w)
  PROVE  /\ fresh'[v] = fresh[v] /\ read'[v] = read[v] /\ todo'[v] = todo[v]
         /\ current'[v] = current[v] /\ visible'[v] = visible[v] /\ doomed'[v] = doomed[v]
         /\ job'[v] = job[v] /\ pc'[v] = pc[v] /\ result'[v] = result[v]
<1> DEFINE Rest == /\ fresh'[v] = fresh[v] /\ read'[v] = read[v] /\ todo'[v] = todo[v]
                   /\ current'[v] = current[v] /\ visible'[v] = visible[v]
                   /\ doomed'[v] = doomed[v]
                   /\ job'[v] = job[v] /\ pc'[v] = pc[v] /\ result'[v] = result[v]
<1>a. /\ DOMAIN fresh = Workers /\ DOMAIN read = Workers /\ DOMAIN todo = Workers
      /\ DOMAIN current = Workers /\ DOMAIN visible = Workers /\ DOMAIN doomed = Workers
      /\ DOMAIN job = Workers /\ DOMAIN pc = Workers /\ DOMAIN result = Workers
  BY DEF Types, ControlTypes, MemoryTypes
<1>b. ASSUME NEW how, Stop(w, how) PROVE Rest
  BY <1>a, <1>b DEF Stop, Goto
<1>1. CASE Start(w)
  BY <1>1, <1>a DEF Start, Goto, memory
<1>2. CASE Collect(w)
  BY <1>2, <1>a DEF Collect, Goto
<1>3. CASE ReadStat(w)
  BY <1>3, <1>a DEF ReadStat, control
<1>4. CASE CommitStats(w)
  <2>1. CASE StatConflict(w)
    BY <1>4, <2>1, <1>b DEF CommitStats, Fail
  <2>2. CASE ~StatConflict(w)
    BY <1>4, <2>2, <1>a DEF CommitStats, Goto
  <2> QED BY <2>1, <2>2
<1>5. CASE List(w)
  BY <1>5, <1>a DEF List, Goto
<1>6. CASE Pick(w)
  BY <1>6, <1>a DEF Pick, Goto
<1>7. CASE ReadMarket(w)
  BY <1>7, <1>a DEF ReadMarket, Goto
<1>8. CASE DeleteSees(w)
  BY <1>8, <1>a DEF DeleteSees, Goto
<1>9. CASE DeleteRows(w)
  BY <1>9, <1>a DEF DeleteRows, Goto
<1>10. CASE Analyse(w)
  <2>1. CASE Unanalysable(current[w].prop, current[w].price, current[w].market)
    BY <1>10, <2>1, <1>b DEF Analyse, Fail
  <2>2. CASE ~Unanalysable(current[w].prop, current[w].price, current[w].market)
    BY <1>10, <2>2, <1>a DEF Analyse, Goto
  <2> QED BY <2>1, <2>2
<1>11. CASE Done(w)
  BY <1>11, <1>b DEF Done
<1>12. CASE Crash(w)
  BY <1>12, <1>b DEF Crash
<1> QED BY <1>1, <1>2, <1>3, <1>4, <1>5, <1>6, <1>7, <1>8, <1>9, <1>10, <1>11, <1>12
        DEF StepOf, Statement

(* What a worker remembers is kept in shape. *)
LEMMA MemoryTyped ==
  ASSUME Types, [Next]_vars
  PROVE  MemoryTypes'
<1> USE DEF Types, MemoryTypes
<1>1. CASE Take
  BY <1>1 DEF Take, memory
<1>2. CASE UNCHANGED vars
  BY <1>2 DEF vars, memory
<1>3. ASSUME NEW w \in Workers, StepOf(w) PROVE MemoryTypes'
  <2>a. ASSUME NEW how, Stop(w, how) PROVE MemoryTypes'
    BY <2>a DEF Stop
  <2>1. CASE Start(w)
    BY <2>1 DEF Start, memory
  <2>2. CASE Collect(w)
    BY <2>2 DEF Collect
  <2>3. CASE ReadStat(w)
    BY <2>3 DEF ReadStat
  <2>4. CASE CommitStats(w)
    BY <2>4, <2>a DEF CommitStats, Fail
  <2>5. CASE List(w)
    BY <2>5 DEF List, Offered
  <2>6. CASE Pick(w)
    BY <2>6 DEF Pick
  <2>7. CASE ReadMarket(w)
    BY <2>7 DEF ReadMarket
  <2>8. CASE DeleteSees(w)
    BY <2>8 DEF DeleteSees
  <2>9. CASE DeleteRows(w)
    BY <2>9 DEF DeleteRows
  <2>10. CASE Analyse(w)
    BY <2>10, <2>a DEF Analyse, Fail
  <2>11. CASE Done(w)
    BY <2>11, <2>a DEF Done
  <2>12. CASE Crash(w)
    BY <2>12, <2>a DEF Crash
  <2> QED BY <1>3, <2>1, <2>2, <2>3, <2>4, <2>5, <2>6, <2>7, <2>8, <2>9, <2>10, <2>11, <2>12
          DEF StepOf, Statement
<1> QED BY <1>1, <1>2, <1>3 DEF Next, StepOf

(* The program counter, the job and its result. *)
LEMMA ControlTyped ==
  ASSUME Types, [Next]_vars
  PROVE  ControlTypes'
<1> DEFINE Rest == /\ job' \in [Workers -> {"stats", "pipeline"}]
                   /\ pc' \in [Workers -> Labels]
                   /\ result' \in [Workers -> {"none", "done", "failed", "crashed"}]
<1> USE DEF Types, ControlTypes
<1>1. CASE Take
  <2>1. quiet' \in [Workers -> BOOLEAN]
    BY <1>1, Zenon DEF Take, Disturb
  <2> QED BY <1>1, <2>1 DEF Take, control
<1>2. CASE UNCHANGED vars
  BY <1>2 DEF vars, control
<1>3. ASSUME NEW w \in Workers, StepOf(w) PROVE ControlTypes'
  <2>a. ASSUME NEW how \in {"done", "failed", "crashed"}, Stop(w, how) PROVE Rest
    BY <2>a DEF Stop, Goto, Labels
  <2>q. quiet' \in [Workers -> BOOLEAN]
    <3>1. \/ quiet' = quiet
          \/ quiet' = [quiet EXCEPT ![w] = TRUE]
          \/ quiet' = [v \in Workers |-> v \in {w} /\ quiet[v]]
      BY <1>3 DEF StepOf, Statement, Start, Collect, ReadStat, CommitStats, List, Pick, ReadMarket,
                  DeleteSees, DeleteRows, Analyse, Done, Crash, Fail, Disturb
    <3> QED BY <3>1, Zenon
  <2>1. CASE Start(w)
    <3>1. Rest
      BY <2>1 DEF Start, Goto, Labels
    <3> QED BY <2>q, <3>1
  <2>2. CASE Collect(w) \/ ReadStat(w) \/ List(w) \/ Pick(w) \/ ReadMarket(w)
               \/ DeleteSees(w) \/ DeleteRows(w)
    <3>1. Rest
      BY <2>2 DEF Collect, ReadStat, List, Pick, ReadMarket, DeleteSees, DeleteRows, Goto, Labels,
                  control
    <3> QED BY <2>q, <3>1
  <2>4. CASE CommitStats(w)
    <3>1. Rest
      BY <2>4, <2>a DEF CommitStats, Fail, Goto, Labels
    <3> QED BY <2>q, <3>1
  <2>10. CASE Analyse(w)
    <3>1. Rest
      BY <2>10, <2>a DEF Analyse, Fail, Goto, Labels
    <3> QED BY <2>q, <3>1
  <2>11. CASE Done(w) \/ Crash(w)
    <3>1. Rest
      BY <2>11, <2>a DEF Done, Crash
    <3> QED BY <2>q, <3>1
  <2> QED BY <1>3, <2>1, <2>2, <2>4, <2>10, <2>11 DEF StepOf, Statement
<1> QED BY <1>1, <1>2, <1>3 DEF Next, StepOf

(* A worker that closed its session remembers nothing. *)
LEMMA StopForgets ==
  ASSUME Types, NEW w \in Workers, NEW how, Stop(w, how)
  PROVE  /\ pc'[w] = "idle" /\ result'[w] = how /\ job'[w] = job[w]
         /\ fresh'[w] = <<>> /\ read'[w] = <<>> /\ todo'[w] = {} /\ current'[w] = Absent
         /\ visible'[w] = {} /\ doomed'[w] = {}
  BY DEF Types, ControlTypes, MemoryTypes, Stop, Goto

(* Whoever has a property under way remembers it with a price of its band.   *)
LEMMA WorkTyped ==
  ASSUME Types, [Next]_vars
  PROVE  WorkTypes'
<1>a. ASSUME NEW v \in Workers,
             pc'[v] = pc[v], current'[v] = current[v],
             visible'[v] = visible[v], doomed'[v] = doomed[v]
      PROVE  WorkOf(v)'
  BY <1>a DEF Types, WorkTypes, WorkOf, InBand
<1>1. CASE Take
  BY <1>1, <1>a DEF Take, memory, control, WorkTypes
<1>2. CASE UNCHANGED vars
  BY <1>2, <1>a DEF vars, memory, control, WorkTypes
<1>3. ASSUME NEW w \in Workers, StepOf(w) PROVE WorkTypes'
  <2>o. ASSUME NEW v \in Workers, v # w PROVE WorkOf(v)'
    BY <1>3, <1>a, <2>o, OthersRest
  <2> SUFFICES WorkOf(w)'
    BY <2>o DEF WorkTypes
  <2>t. /\ DOMAIN pc = Workers /\ DOMAIN current = Workers /\ DOMAIN visible = Workers
        /\ DOMAIN doomed = Workers /\ WorkOf(w)
    BY DEF Types, ControlTypes, MemoryTypes, WorkTypes
  <2>s. ASSUME NEW how, Stop(w, how) PROVE WorkOf(w)'
    BY <2>s, StopForgets DEF WorkOf, Working
  <2>1. CASE Start(w)
    BY <2>1, <2>t DEF Start, Goto, memory, WorkOf, Working, Idle
  <2>2. CASE Collect(w)
    BY <2>2, <2>t DEF Collect, Goto, WorkOf, Working
  <2>3. CASE ReadStat(w)
    BY <2>3, <2>t DEF ReadStat, control, WorkOf, Working
  <2>4. CASE CommitStats(w)
    <3>1. CASE StatConflict(w)
      BY <2>4, <3>1, <2>s DEF CommitStats, Fail
    <3>2. CASE ~StatConflict(w)
      BY <2>4, <3>2, <2>t DEF CommitStats, Goto, WorkOf, Working
    <3> QED BY <3>1, <3>2
  <2>5. CASE List(w)
    BY <2>5, <2>t DEF List, Goto, WorkOf, Working
  <2>6. CASE Pick(w)
    <3>1. pc[w] = "next" /\ visible' = visible /\ doomed' = doomed
      BY <2>6 DEF Pick
    <3>2. PICK p \in todo[w] :
             IF Offers(p) = {} \/ Area[HomeOf(p)] = 0
             THEN UNCHANGED <<pc, current>>
             ELSE /\ current' = [current EXCEPT ![w] = [prop |-> p, price |-> PurchasePrice(p),
                                                        market |-> Absent]]
                  /\ Goto(w, "market")
      BY <2>6 DEF Pick
    <3>3. p \in Properties
      BY DEF Types, MemoryTypes
    <3>4. CASE Offers(p) = {} \/ Area[HomeOf(p)] = 0
      BY <3>1, <3>2, <3>4, <2>t DEF WorkOf, Working
    <3>5. CASE ~(Offers(p) = {} \/ Area[HomeOf(p)] = 0)
      <4>1. PurchasePrice(p) \in Nat /\ Band(PurchasePrice(p)) = p[2]
        BY <3>3, <3>5, PurchaseInBand DEF Types
      <4>2. pc'[w] = "market" /\ current'[w] = [prop |-> p, price |-> PurchasePrice(p),
                                                market |-> Absent]
        BY <3>2, <3>5, <2>t DEF Goto
      <4> QED BY <3>1, <3>3, <4>1, <4>2, <2>t DEF WorkOf, Working, InBand
    <3> QED BY <3>4, <3>5
  <2>7. CASE ReadMarket(w)
    <3> DEFINE m == MarketOf(GroupOf[HomeOf(current[w].prop)])
    <3>1. /\ pc[w] = "market" /\ visible' = visible /\ doomed' = doomed /\ Goto(w, "delete")
          /\ current' = [current EXCEPT ![w].market = m]
      BY <2>7 DEF ReadMarket
    <3>2. InBand(current[w]) /\ current[w] = [prop |-> current[w].prop,
                                              price |-> current[w].price,
                                              market |-> current[w].market]
      BY <3>1, <2>t DEF WorkOf, Working
    <3>3. m \in Market
      BY <3>2, GroupType, MarketType DEF InBand, Types
    <3>4. current'[w] = [prop |-> current[w].prop, price |-> current[w].price, market |-> m]
      <4> HIDE DEF m
      <4> QED BY <3>1, <3>2, <2>t
    <3>5. pc'[w] = "delete" /\ visible'[w] = {} /\ doomed'[w] = {}
      BY <3>1, <2>t DEF Goto, WorkOf
    <3> HIDE DEF m
    <3> QED BY <3>2, <3>3, <3>4, <3>5 DEF WorkOf, Working, InBand
  <2>8. CASE DeleteSees(w)
    BY <2>8, <2>t DEF DeleteSees, Goto, WorkOf, Working, InBand
  <2>9. CASE DeleteRows(w)
    BY <2>9, <2>t DEF DeleteRows, Goto, WorkOf, Working, InBand
  <2>10. CASE Analyse(w)
    <3>1. CASE Unanalysable(current[w].prop, current[w].price, current[w].market)
      BY <2>10, <3>1, <2>s DEF Analyse, Fail
    <3>2. CASE ~Unanalysable(current[w].prop, current[w].price, current[w].market)
      BY <2>10, <3>2, <2>t DEF Analyse, Goto, WorkOf, Working
    <3> QED BY <3>1, <3>2
  <2>11. CASE Done(w) \/ Crash(w)
    BY <2>11, <2>s DEF Done, Crash
  <2> QED BY <1>3, <2>1, <2>2, <2>3, <2>4, <2>5, <2>6, <2>7, <2>8, <2>9, <2>10, <2>11
          DEF StepOf, Statement
<1> QED BY <1>1, <1>2, <1>3 DEF Next, StepOf

(* A row of the statistics stays. *)
LEMMA StatsStay ==
  ASSUME Types, [Next]_vars, NEW g \in Groups, stats[g] # Absent
  PROVE  stats'[g] # Absent
<1>1. ASSUME NEW w \in Workers, CommitStats(w), ~StatConflict(w) PROVE stats'[g] # Absent
  <2>1. stats' = [x \in Groups |-> NewStat(w, x)] /\ DOMAIN read[w] = DOMAIN fresh[w]
    BY <1>1 DEF CommitStats
  <2>2. stats[g] \in Market
    BY DEF Types, TableTypes
  <2>3. CASE g \notin DOMAIN fresh[w]
    BY <2>1, <2>3 DEF NewStat
  <2>4. CASE g \in DOMAIN fresh[w]
    <3>1. read[w][g] # Absent /\ fresh[w][g] \in Market
      BY <1>1, <2>4 DEF StatConflict, Types, StatTypes, FreshOf
    <3>2. NewStat(w, g) = Merged(read[w][g], fresh[w][g], stats[g])
      BY <2>4, <3>1 DEF NewStat
    <3> QED BY <2>1, <2>2, <3>1, <3>2, MergedType, MarketAssumption
  <2> QED BY <2>3, <2>4
<1>2. CASE UNCHANGED stats
  BY <1>2
<1>3. ASSUME NEW w \in Workers, StepOf(w)
      PROVE  UNCHANGED stats \/ (CommitStats(w) /\ ~StatConflict(w))
  BY <1>3 DEF StepOf, Statement, Start, Collect, ReadStat, CommitStats, List, Pick, ReadMarket,
              DeleteSees, DeleteRows, Analyse, Done, Crash, Fail, tables
<1> QED BY <1>1, <1>2, <1>3 DEF Next, StepOf, Take, vars, tables

(* What a worker computed and read fits the tables it will be merged into.   *)
LEMMA StatTyped ==
  ASSUME Types, [Next]_vars
  PROVE  StatTypes'
<1>a. ASSUME NEW v \in Workers, fresh'[v] = fresh[v], read'[v] = read[v],
             pc'[v] = "readStat" <=> pc[v] = "readStat"
      PROVE  FreshOf(v)'
  <2>1. FreshOf(v)
    BY DEF Types, StatTypes
  <2>2. \A g \in DOMAIN read[v] : g \in Groups /\ (read[v][g] # Absent => stats'[g] # Absent)
    BY <2>1, StatsStay DEF FreshOf
  <2> QED BY <1>a, <2>1, <2>2 DEF FreshOf
<1>1. CASE Take
  BY <1>1, <1>a DEF Take, memory, control, StatTypes
<1>2. CASE UNCHANGED vars
  BY <1>2, <1>a DEF vars, memory, control, StatTypes
<1>3. ASSUME NEW w \in Workers, StepOf(w) PROVE StatTypes'
  <2>o. ASSUME NEW v \in Workers, v # w PROVE FreshOf(v)'
    BY <1>3, <1>a, <2>o, OthersRest
  <2> SUFFICES FreshOf(w)'
    BY <2>o DEF StatTypes
  <2>t. DOMAIN fresh = Workers /\ DOMAIN read = Workers /\ DOMAIN pc = Workers /\ FreshOf(w)
    BY DEF Types, MemoryTypes, ControlTypes, StatTypes
  <2>f. ASSUME fresh'[w] = <<>>, read'[w] = <<>> PROVE FreshOf(w)'
    BY <2>f DEF FreshOf
  <2>s. ASSUME NEW how, Stop(w, how) PROVE FreshOf(w)'
    BY <2>s, <2>f, StopForgets
  <2>1. CASE Start(w) \/ List(w) \/ Pick(w) \/ ReadMarket(w) \/ DeleteSees(w) \/ DeleteRows(w)
    BY <2>1, <2>t, <1>a DEF Start, List, Pick, ReadMarket, DeleteSees, DeleteRows, memory, Goto,
                            Idle
  <2>2. CASE Collect(w)
    <3> DEFINE found == {g \in Groups : StatOf(g) # Absent}
    <3>1. fresh'[w] = [g \in found |-> StatOf(g)] /\ read'[w] = read[w]
      BY <2>2, <2>t DEF Collect
    <3>2. \A g \in found : StatOf(g) \in Market
      BY StatType DEF Types
    <3>3. DOMAIN read[w] = {} /\ pc'[w] = "readStat"
      BY <2>2, <2>t DEF Collect, Goto, FreshOf
    <3> QED BY <3>1, <3>2, <3>3 DEF FreshOf
  <2>3. CASE ReadStat(w)
    <3>1. PICK g \in DOMAIN fresh[w] \ DOMAIN read[w] :
             read' = [read EXCEPT ![w] = [x \in DOMAIN @ \cup {g} |->
                                             IF x = g THEN stats[g] ELSE @[x]]]
      BY <2>3 DEF ReadStat
    <3>2. /\ read'[w] = [x \in DOMAIN read[w] \cup {g} |-> IF x = g THEN stats[g] ELSE read[w][x]]
          /\ fresh'[w] = fresh[w] /\ stats' = stats /\ pc'[w] = "readStat"
      BY <2>3, <2>t, <3>1 DEF ReadStat, tables, control
    <3>3. g \in Groups /\ stats[g] \in Market \cup {Absent}
      BY <2>t DEF FreshOf, Types, TableTypes
    <3> QED BY <2>t, <3>2, <3>3 DEF FreshOf
  <2>4. CASE CommitStats(w)
    <3>1. CASE StatConflict(w)
      BY <2>4, <3>1, <2>s DEF CommitStats, Fail
    <3>2. CASE ~StatConflict(w)
      BY <2>4, <3>2, <2>t, <2>f DEF CommitStats
    <3> QED BY <3>1, <3>2
  <2>5. CASE Analyse(w)
    <3>1. CASE Unanalysable(current[w].prop, current[w].price, current[w].market)
      BY <2>5, <3>1, <2>s DEF Analyse, Fail
    <3>2. CASE ~Unanalysable(current[w].prop, current[w].price, current[w].market)
      BY <2>5, <2>t, <3>2, <1>a DEF Analyse, Goto
    <3> QED BY <3>1, <3>2
  <2>6. CASE Done(w) \/ Crash(w)
    BY <2>6, <2>s DEF Done, Crash
  <2> QED BY <1>3, <2>1, <2>2, <2>3, <2>4, <2>5, <2>6 DEF StepOf, Statement
<1> QED BY <1>1, <1>2, <1>3 DEF Next, StepOf

(* The tables and the memory of every worker keep their shape.               *)
THEOREM Typed == Spec => []Types
<1>1. Init => Types
  BY TypesInit
<1>2. Types /\ [Next]_vars => Types'
  BY TablesTyped, ControlTyped, MemoryTyped, WorkTyped, StatTyped DEF Types
<1> QED BY <1>1, <1>2, PTL DEF Spec

-----------------------------------------------------------------------------
(* Replacing the analyses of a property. *)

(* A worker that ends a property leaves its new batch, and of the old ones   *)
(* those it has not deleted.                                                 *)
Replaces(w, id) ==
    /\ pc[w] = "analyse"
    /\ analyses' = [analyses EXCEPT ![current[w].prop] = NewAnalyses(w, id)]

(* Only the end of a property writes analyses. *)
LEMMA OnlyAnalyseWrites ==
  ASSUME Types, [Next]_vars, ~UNCHANGED analyses
  PROVE  \E w \in Workers : Analyse(w) /\ \E id : Replaces(w, id)
<1>1. PICK w \in Workers : Analyse(w)
  BY DEF Next, Take, Start, Statement, Crash, Collect, ReadStat, CommitStats, List, Pick,
         ReadMarket, DeleteSees, DeleteRows, Done, Fail, tables, vars
<1>2. ~Unanalysable(current[w].prop, current[w].price, current[w].market)
  BY <1>1 DEF Analyse, Fail, tables
<1> DEFINE id == CHOOSE i \in FreeIds(current[w].prop) :
                    \A j \in FreeIds(current[w].prop) : i <= j
<1>3. pc[w] = "analyse"
      /\ analyses' = [analyses EXCEPT ![current[w].prop] = NewAnalyses(w, id)]
  BY <1>1, <1>2 DEF Analyse
<1> QED BY <1>1, <1>3 DEF Replaces

(* What is replaced, property by property. *)
LEMMA Replaced ==
  ASSUME Types, NEW w \in Workers, NEW id, Replaces(w, id)
  PROVE  /\ current[w].prop \in Properties
         /\ Band(current[w].price) = current[w].prop[2]
         /\ analyses'[current[w].prop] =
              (analyses[current[w].prop] \ doomed[w]) \cup {NewBatch(w, id)}
         /\ \A p \in Properties : p # current[w].prop => analyses'[p] = analyses[p]
         /\ NewBatch(w, id).price = current[w].price
         /\ NewBatch(w, id).market = current[w].market
<1>1. current[w].prop \in Properties /\ Band(current[w].price) = current[w].prop[2]
  BY DEF Replaces, Types, WorkTypes, WorkOf, Working, InBand
<1>2. DOMAIN analyses = Properties
  BY DEF Types, TableTypes
<1> QED BY <1>1, <1>2 DEF Replaces, NewAnalyses, NewBatch

(* Every analysis was made from a price of its property's band, whatever     *)
(* scrapers move between properties while jobs run.                          *)
THEOREM PriceCorrect == Spec => []PriceInBand
<1>1. Init => PriceInBand
  BY DEF Init, PriceInBand
<1>2. ASSUME Types, PriceInBand, [Next]_vars PROVE PriceInBand'
  <2>1. CASE UNCHANGED analyses
    BY <1>2, <2>1 DEF PriceInBand
  <2>2. CASE ~UNCHANGED analyses
    <3>1. PICK w \in Workers : \E id : Replaces(w, id)
      BY <1>2, <2>2, OnlyAnalyseWrites
    <3>2. PICK id : Replaces(w, id)
      BY <3>1
    <3> QED BY <1>2, <3>2, Replaced DEF PriceInBand
  <2> QED BY <2>1, <2>2
<1> QED BY <1>1, <1>2, Typed, PTL DEF Spec

(* A property that has been analysed never appears without an analysis,      *)
(* however jobs fail, crash or replace the same rows.                        *)
THEOREM AnalysedStays == Spec => StaysAnalysed
<1>1. ASSUME Types, [Next]_vars
      PROVE  \A p \in Properties : analyses[p] # {} => analyses'[p] # {}
  <2>1. CASE UNCHANGED analyses
    BY <1>1, <2>1
  <2>2. CASE ~UNCHANGED analyses
    <3>1. PICK w \in Workers : \E id : Replaces(w, id)
      BY <1>1, <2>2, OnlyAnalyseWrites
    <3>2. PICK id : Replaces(w, id)
      BY <3>1
    <3> QED BY <1>1, <3>2, Replaced
  <2> QED BY <2>1, <2>2
<1>2. ASSUME Types, [Next]_vars
      PROVE  [\A p \in Properties : analyses[p] # {} => analyses'[p] # {}]_vars
  BY <1>1, <1>2
<1> QED BY <1>2, Typed, PTL DEF Spec, StaysAnalysed

(* Whoever holds deleted rows is about to commit them: no two workers wait   *)
(* for each other, in whatever order they take the properties.               *)
THEOREM NobodyWaitsInACircle == Spec => []NobodyStuck
<1>1. Types => NobodyStuck
  BY DEF Types, WorkTypes, WorkOf, NobodyStuck
<1> QED BY <1>1, Typed, PTL

-----------------------------------------------------------------------------
(* The names of finitely many batches are finitely many. *)
LEMMA FinitelyManyIds ==
  ASSUME NEW D, IsFiniteSet(D)
  PROVE  IsFiniteSet({b.id : b \in D})
<1> DEFINE f == [b \in D |-> b.id]
           V == {b.id : b \in D}
<1>1. f \in Surjection(D, V)
  BY DEF Surjection
<1> QED BY <1>1, FS_Surjection

(* Names of batches.  In the database they are UUIDs, which do not run out:  *)
(* the theorem takes an infinite set of names where TLC takes a few.         *)

Naming == IsFiniteSet(Workers) /\ Ids \subseteq Nat /\ ~IsFiniteSet(Ids)

(* Finitely many batches are in use, each with a name. *)
BatchTypes ==
    /\ \A p \in Properties : analyses[p] \subseteq Batches /\ IsFiniteSet(analyses[p])
    /\ \A w \in Workers : IsFiniteSet(visible[w])

(* A job always finds a name for its next batch, and takes the first one. *)
LEMMA NameFound ==
  ASSUME Naming, BatchTypes, NEW p \in Properties
  PROVE  /\ FreeIds(p) # {}
         /\ (CHOOSE i \in FreeIds(p) : \A j \in FreeIds(p) : i <= j) \in Ids
<1> DEFINE seen == {visible[w] : w \in Workers}
           used == analyses[p] \cup UNION seen
           names == {b.id : b \in used}
<1>1. IsFiniteSet(seen)
  BY FinitelyMany DEF Naming
<1>2. IsFiniteSet(UNION seen)
  <2>1. \A X \in seen : IsFiniteSet(X)
    BY DEF BatchTypes
  <2> HIDE DEF seen
  <2> QED BY <1>1, <2>1, FS_UNION
<1>3. IsFiniteSet(used)
  <2> HIDE DEF seen
  <2> QED BY <1>2, FS_Union DEF BatchTypes
<1>4. IsFiniteSet(names)
  <2> HIDE DEF used
  <2> QED BY <1>3, FinitelyManyIds
<1>5. FreeIds(p) = Ids \ names
  BY DEF FreeIds
<1>6. FreeIds(p) # {}
  <2>1. ASSUME FreeIds(p) = {} PROVE FALSE
    <3> HIDE DEF names
    <3>1. Ids \in SUBSET names
      BY <1>5, <2>1
    <3> QED BY <1>4, <3>1, FS_Subset DEF Naming
  <2> QED BY <2>1
<1>7. FreeIds(p) \in SUBSET Nat
  BY DEF FreeIds, Naming
<1>8. \E i \in FreeIds(p) : \A j \in FreeIds(p) : i <= j
  BY <1>6, <1>7, Least
<1>9. (CHOOSE i \in FreeIds(p) : \A j \in FreeIds(p) : i <= j) \in FreeIds(p)
  BY <1>8, Zenon
<1> QED BY <1>5, <1>6, <1>9

(* Batches keep their shape and stay finitely many. *)
LEMMA BatchesTyped ==
  ASSUME Naming, Types, BatchTypes, [Next]_vars
  PROVE  BatchTypes'
<1>1. \A p \in Properties : analyses'[p] \subseteq Batches /\ IsFiniteSet(analyses'[p])
  <2>1. CASE UNCHANGED analyses
    BY <2>1 DEF BatchTypes
  <2>2. CASE ~UNCHANGED analyses
    <3>1. PICK w \in Workers : Analyse(w)
      BY <2>2, OnlyAnalyseWrites
    <3> DEFINE p == current[w].prop
               id == CHOOSE i \in FreeIds(p) : \A j \in FreeIds(p) : i <= j
    <3>2. ~Unanalysable(current[w].prop, current[w].price, current[w].market)
      BY <3>1, <2>2 DEF Analyse, Fail, tables
    <3>3. Replaces(w, id)
      BY <3>1, <3>2 DEF Analyse, Replaces
    <3>4. p \in Properties /\ current[w].price \in Nat /\ current[w].market \in Market
      BY <3>3 DEF Replaces, Types, WorkTypes, WorkOf, Working, InBand
    <3>5. id \in Ids
      BY <3>4, NameFound
    <3>6. NewBatch(w, id) \in Batches
      BY <3>4, <3>5 DEF NewBatch, Batches
    <3> HIDE DEF id
    <3>7. /\ analyses'[p] = (analyses[p] \ doomed[w]) \cup {NewBatch(w, id)}
          /\ \A q \in Properties : q # p => analyses'[q] = analyses[q]
      BY <3>3, Replaced
    <3>8. IsFiniteSet(analyses[p] \ doomed[w])
      <4>1. analyses[p] \ doomed[w] \in SUBSET analyses[p]
        OBVIOUS
      <4> QED BY <3>4, <4>1, FS_Subset DEF BatchTypes
    <3>9. IsFiniteSet(analyses'[p])
      BY <3>7, <3>8, FS_AddElement
    <3> QED BY <3>4, <3>6, <3>7, <3>9 DEF BatchTypes
  <2> QED BY <2>1, <2>2
<1>2. \A w \in Workers : IsFiniteSet(visible'[w])
  <2>1. ASSUME NEW w \in Workers PROVE IsFiniteSet(visible'[w])
    <3>1. CASE UNCHANGED visible
      BY <3>1 DEF BatchTypes
    <3>2. CASE ~UNCHANGED visible
      <4>1. PICK v \in Workers : StepOf(v)
        BY <3>2 DEF Next, StepOf, Take, vars, memory
      <4>2. CASE v # w
        BY <4>1, <4>2, OthersRest DEF BatchTypes
      <4>3. CASE v = w
        <5>0. DOMAIN visible = Workers
          BY DEF Types, MemoryTypes
        <5>1. visible'[w] = {} \/ (pc[w] = "delete" /\ visible'[w] = analyses[current[w].prop])
          BY <3>2, <4>1, <4>3, <5>0 DEF StepOf, Statement, Start, Collect, ReadStat, CommitStats,
             List, Pick, ReadMarket, DeleteSees, DeleteRows, Analyse, Done, Crash, Fail, Stop,
             memory
        <5>2. pc[w] = "delete" => current[w].prop \in Properties
          BY DEF Types, WorkTypes, WorkOf, Working, InBand
        <5> QED BY <5>1, <5>2, FS_EmptySet DEF BatchTypes
      <4> QED BY <4>2, <4>3
    <3> QED BY <3>1, <3>2
  <2> QED BY <2>1
<1> QED BY <1>1, <1>2 DEF BatchTypes

(* Tables and workers keep their shape, and a job always finds a name for    *)
(* its next batch, for any finite set of workers and any number of jobs.     *)
THEOREM TypeCorrect ==
  ASSUME Naming
  PROVE  Spec => []TypeOK
<1>1. Init => BatchTypes
  BY FS_EmptySet DEF Init, BatchTypes
<1>2. Types /\ BatchTypes /\ [Next]_vars => BatchTypes'
  BY BatchesTyped
<1>3. Types /\ BatchTypes => TypeOK
  <2> SUFFICES ASSUME Types, BatchTypes PROVE TypeOK
    OBVIOUS
  <2>1. \A p \in Properties : FreeIds(p) # {}
    BY NameFound
  <2>2. quiet \in [Workers -> BOOLEAN]
    BY Zenon DEF Types, ControlTypes
  <2> QED BY <2>1, <2>2 DEF Types, TableTypes, ControlTypes, BatchTypes, TypeOK
<1> QED BY <1>1, <1>2, <1>3, Typed, PTL DEF Spec

-----------------------------------------------------------------------------
(* What an undisturbed pipeline has done so far. *)

(* The answers of the queries depend on the tables they read. *)
LEMMA SameListings ==
  ASSUME UNCHANGED listings
  PROVE  /\ \A p \in Properties : /\ Offers(p)' = Offers(p)
                                  /\ Cheapest(p)' = Cheapest(p)
                                  /\ PurchasePrice(p)' = PurchasePrice(p)
                                  /\ Analysable(p)' = Analysable(p)
         /\ \A g \in Groups : StatOf(g)' = StatOf(g)
<1>1. ASSUME NEW p \in Properties PROVE Offers(p)' = Offers(p)
  BY DEF Offers, Priced
<1>2. ASSUME NEW p \in Properties PROVE Cheapest(p)' = Cheapest(p)
  BY <1>1 DEF Cheapest
<1>3. ASSUME NEW p \in Properties PROVE PurchasePrice(p)' = PurchasePrice(p)
  BY <1>2 DEF PurchasePrice
<1>4. Offered' = Offered
  BY <1>1 DEF Offered
<1>5. ASSUME NEW p \in Properties PROVE Analysable(p)' = Analysable(p)
  BY <1>4 DEF Analysable
<1>6. ASSUME NEW g \in Groups PROVE StatOf(g)' = StatOf(g)
  <2>1. Comparables(g)' = Comparables(g)
    BY DEF Comparables, Priced
  <2>2. Sample(g)' = Sample(g)
    BY <2>1 DEF Sample
  <2> QED BY <2>1, <2>2 DEF StatOf
<1> QED BY <1>1, <1>2, <1>3, <1>5, <1>6

KnownStats == \A g \in Groups : StatOf(g) # Absent => stats[g] = StatOf(g)

GroupMarket(p) == MarketOf(GroupOf[HomeOf(p)])

(* The one analysis a property should have. *)
Exact(p) == {[price |-> b.price, market |-> b.market] : b \in analyses[p]} =
                {[price |-> PurchasePrice(p), market |-> GroupMarket(p)]}

Analysing == {"next"} \cup Working

(* The statistics computed are those of the listings, and the rows read are  *)
(* the ones stored.                                                          *)
Computed(w) ==
    /\ fresh[w] = [g \in {x \in Groups : StatOf(x) # Absent} |-> StatOf(g)]
    /\ \A g \in DOMAIN read[w] : read[w][g] = stats[g]

(* The property under way is analysed at the price and in the market there   *)
(* are now, and what is deleted is all it has.                               *)
Current(w) ==
    /\ pc[w] \in Working => /\ current[w].price = PurchasePrice(current[w].prop)
    /\ pc[w] \in Working \ {"market"} => current[w].market = GroupMarket(current[w].prop)
    /\ pc[w] = "deleting" => visible[w] = analyses[current[w].prop]
    /\ pc[w] = "analyse" => doomed[w] = analyses[current[w].prop]

Progress(w) ==
    /\ pc[w] = "readStat" => Computed(w)
    /\ pc[w] \in Analysing \cup {"list"} => KnownStats
    /\ pc[w] \in Analysing => \A p \in Properties : Analysable(p) => p \in todo[w] \/ Exact(p)
    /\ Current(w)
    /\ Idle(w) /\ job[w] = "pipeline" /\ result[w] = "done" =>
         KnownStats /\ \A p \in Properties : Analysable(p) => Exact(p)

Undisturbed ==
    \A w \in Workers :
        /\ pc[w] = "end" => job[w] = "stats"
        /\ quiet[w] => Progress(w)

(* A worker that writes disturbs every other one. *)
LEMMA WritesDisturb ==
  ASSUME Types, NEW w \in Workers, NEW v \in Workers, v # w, StepOf(w), quiet'[v]
  PROVE  quiet[v] /\ UNCHANGED tables
<1>1. CASE UNCHANGED <<tables, quiet>>
  BY <1>1, Zenon
<1>2. CASE Start(w)
  <2>1. quiet' = [quiet EXCEPT ![w] = TRUE] /\ UNCHANGED tables
    BY <1>2 DEF Start
  <2>2. quiet'[v] = quiet[v]
    BY <2>1 DEF Types, ControlTypes
  <2> QED BY <2>1, <2>2
<1>3. CASE quiet' = [x \in Workers |-> x \in {w} /\ quiet[x]]
  BY <1>3
<1>4. \/ UNCHANGED <<tables, quiet>>
      \/ Start(w)
      \/ quiet' = [x \in Workers |-> x \in {w} /\ quiet[x]]
  BY DEF StepOf, Statement, Collect, ReadStat, CommitStats, List, Pick, ReadMarket, DeleteSees,
         DeleteRows, Analyse, Done, Crash, Fail, Disturb
<1> QED BY <1>1, <1>2, <1>3, <1>4

(* Progress depends on the tables and on the worker itself. *)
LEMMA ProgressStays ==
  ASSUME Types, NEW w \in Workers, Progress(w), UNCHANGED tables,
         fresh'[w] = fresh[w], read'[w] = read[w], todo'[w] = todo[w],
         current'[w] = current[w], visible'[w] = visible[w], doomed'[w] = doomed[w],
         job'[w] = job[w], pc'[w] = pc[w], result'[w] = result[w]
  PROVE  Progress(w)'
<1>1. UNCHANGED <<listings, stats, analyses>>
  BY DEF tables
<1>2. \A g \in Groups : StatOf(g)' = StatOf(g)
  BY <1>1, SameListings
<1>3. \A p \in Properties : /\ PurchasePrice(p)' = PurchasePrice(p)
                            /\ Analysable(p)' = Analysable(p)
                            /\ GroupMarket(p)' = GroupMarket(p)
  BY <1>1, SameListings DEF GroupMarket, MarketOf
<1>4. \A p \in Properties : Exact(p) => Exact(p)'
  BY <1>1, <1>3 DEF Exact
<1>5. KnownStats => KnownStats'
  BY <1>1, <1>2 DEF KnownStats
<1>6. Computed(w) => Computed(w)'
  <2>1. {x \in Groups : StatOf(x)' # Absent} = {x \in Groups : StatOf(x) # Absent}
    BY <1>2
  <2>2. [g \in {x \in Groups : StatOf(x)' # Absent} |-> StatOf(g)'] =
        [g \in {x \in Groups : StatOf(x) # Absent} |-> StatOf(g)]
    BY <1>2, <2>1
  <2> QED BY <1>1, <2>2 DEF Computed
<1>7. Current(w)'
  <2>1. Current(w)
    BY DEF Progress
  <2>2. pc[w] \in Working => current[w].prop \in Properties
    BY DEF Types, WorkTypes, WorkOf, InBand
  <2>3. pc[w] \in Working => GroupMarket(current[w].prop)' = GroupMarket(current[w].prop)
    BY <1>3, <2>2
  <2> QED BY <1>1, <1>3, <2>1, <2>2, <2>3 DEF Current, Working
<1> QED BY <1>3, <1>4, <1>5, <1>6, <1>7 DEF Progress, Analysing, Idle

(* The parts that look at a worker in the middle of a job say nothing when   *)
(* it is idle, at the end of it or at its beginning.                         *)
LEMMA NothingClaimed ==
  ASSUME NEW w \in Workers,
         \/ pc'[w] \in {"collect", "end"}
         \/ pc'[w] = "idle" /\ result'[w] \in {"none", "failed", "crashed"}
  PROVE  Progress(w)'
  BY DEF Progress, Analysing, Working, Current, Idle

(* Collecting, reading and storing the statistics. *)
LEMMA StatsProgress ==
  ASSUME Types, NEW w \in Workers, Progress(w),
         Collect(w) \/ ReadStat(w) \/ CommitStats(w)
  PROVE  Progress(w)'
<1>t. /\ DOMAIN fresh = Workers /\ DOMAIN read = Workers /\ DOMAIN pc = Workers
      /\ DOMAIN result = Workers /\ FreshOf(w)
  BY DEF Types, MemoryTypes, ControlTypes, StatTypes
<1>1. CASE Collect(w)
  <2>1. UNCHANGED <<listings, stats>>
    BY <1>1 DEF Collect, tables
  <2>2. pc'[w] = "readStat" /\ read'[w] = read[w]
        /\ fresh'[w] = [g \in {x \in Groups : StatOf(x) # Absent} |-> StatOf(g)]
    BY <1>1, <1>t DEF Collect, Goto
  <2>3. DOMAIN read[w] = {}
    BY <1>1, <1>t DEF Collect, FreshOf
  <2>4. \A g \in Groups : StatOf(g)' = StatOf(g)
    BY <2>1, SameListings
  <2>5. [g \in {x \in Groups : StatOf(x)' # Absent} |-> StatOf(g)'] =
        [g \in {x \in Groups : StatOf(x) # Absent} |-> StatOf(g)]
    BY <2>4
  <2>6. Computed(w)'
    BY <2>2, <2>3, <2>5 DEF Computed
  <2> QED BY <2>2, <2>6 DEF Progress, Analysing, Working, Current, Idle
<1>2. CASE ReadStat(w)
  <2>1. UNCHANGED <<listings, stats>> /\ pc[w] = "readStat" /\ pc'[w] = pc[w]
        /\ fresh'[w] = fresh[w]
    BY <1>2 DEF ReadStat, tables, control
  <2>2. PICK g \in DOMAIN fresh[w] \ DOMAIN read[w] :
           read'[w] = [x \in DOMAIN read[w] \cup {g} |-> IF x = g THEN stats[g] ELSE read[w][x]]
    BY <1>2, <1>t DEF ReadStat
  <2>3. Computed(w)
    BY <2>1 DEF Progress
  <2>4. \A x \in Groups : StatOf(x)' = StatOf(x)
    BY <2>1, SameListings
  <2>5. [y \in {x \in Groups : StatOf(x)' # Absent} |-> StatOf(y)'] =
        [y \in {x \in Groups : StatOf(x) # Absent} |-> StatOf(y)]
    BY <2>4
  <2>6. \A x \in DOMAIN read'[w] : read'[w][x] = stats'[x]
    BY <2>1, <2>2, <2>3 DEF Computed
  <2>7. Computed(w)'
    BY <2>1, <2>3, <2>5, <2>6 DEF Computed
  <2> QED BY <2>1, <2>7 DEF Progress, Analysing, Working, Current, Idle
<1>3. CASE CommitStats(w)
  <2>1. CASE StatConflict(w)
    <3>1. pc'[w] = "idle" /\ result'[w] = "failed"
      BY <1>3, <2>1, StopForgets DEF CommitStats, Fail
    <3> QED BY <3>1, NothingClaimed
  <2>2. CASE ~StatConflict(w)
    <3>1. /\ pc[w] = "readStat" /\ DOMAIN read[w] = DOMAIN fresh[w]
          /\ stats' = [g \in Groups |-> NewStat(w, g)] /\ UNCHANGED listings
      BY <1>3, <2>2 DEF CommitStats
    <3>2. pc'[w] \in {"list", "end"}
      BY <1>3, <2>2, <1>t DEF CommitStats, Goto
    <3>3. Computed(w)
      BY <3>1 DEF Progress
    <3>4. ASSUME NEW g \in Groups, StatOf(g) # Absent PROVE stats'[g] = StatOf(g)
      <4>1. g \in DOMAIN fresh[w] /\ fresh[w][g] = StatOf(g) /\ read[w][g] = stats[g]
        BY <3>1, <3>3, <3>4 DEF Computed
      <4>2. fresh[w][g] \in Market
        BY <1>t, <4>1 DEF FreshOf
      <4>3. CASE stats[g] = Absent
        BY <3>1, <4>1, <4>3 DEF NewStat
      <4>4. CASE stats[g] # Absent
        <5>1. stats[g] \in Market
          BY <4>4 DEF Types, TableTypes
        <5>2. NewStat(w, g) = Merged(read[w][g], fresh[w][g], stats[g])
          BY <4>1, <4>4 DEF NewStat
        <5>3. Merged(read[w][g], fresh[w][g], stats[g]) = fresh[w][g]
          BY <4>1, <4>2, <5>1, MergedType
        <5> QED BY <3>1, <4>1, <5>2, <5>3
      <4> QED BY <4>3, <4>4
    <3>5. \A g \in Groups : StatOf(g)' = StatOf(g)
      BY <3>1, SameListings
    <3>6. KnownStats'
      BY <3>4, <3>5 DEF KnownStats
    <3> QED BY <3>2, <3>6 DEF Progress, Analysing, Working, Current, Idle
  <2> QED BY <2>1, <2>2
<1> QED BY <1>1, <1>2, <1>3

(* What the analysing half knows stays known while the tables it reads do.   *)
LEMMA KnownStays ==
  ASSUME UNCHANGED <<listings, stats>>
  PROVE  /\ KnownStats => KnownStats'
         /\ \A p \in Properties : /\ PurchasePrice(p)' = PurchasePrice(p)
                                  /\ Analysable(p)' = Analysable(p)
                                  /\ GroupMarket(p)' = GroupMarket(p)
                                  /\ UNCHANGED analyses[p] /\ Exact(p) => Exact(p)'
<1>1. \A g \in Groups : StatOf(g)' = StatOf(g)
  BY SameListings
<1>2. \A p \in Properties : /\ PurchasePrice(p)' = PurchasePrice(p)
                            /\ Analysable(p)' = Analysable(p)
                            /\ GroupMarket(p)' = GroupMarket(p)
  BY SameListings DEF GroupMarket, MarketOf
<1>3. \A p \in Properties : UNCHANGED analyses[p] /\ Exact(p) => Exact(p)'
  BY <1>2 DEF Exact
<1> QED BY <1>1, <1>2, <1>3 DEF KnownStats

(* Listing the properties, picking one, reading its market, deleting.        *)
LEMMA WorkProgress ==
  ASSUME Types, NEW w \in Workers, Progress(w),
         List(w) \/ Pick(w) \/ ReadMarket(w) \/ DeleteSees(w) \/ DeleteRows(w)
  PROVE  Progress(w)'
<1>t. /\ DOMAIN pc = Workers /\ DOMAIN todo = Workers /\ DOMAIN current = Workers
      /\ DOMAIN visible = Workers /\ DOMAIN doomed = Workers /\ todo[w] \subseteq Properties
      /\ WorkOf(w)
  BY DEF Types, MemoryTypes, ControlTypes, WorkTypes
<1>u. UNCHANGED tables /\ UNCHANGED <<listings, stats, analyses>>
  BY DEF List, Pick, ReadMarket, DeleteSees, DeleteRows, tables
<1>k. /\ KnownStats => KnownStats'
      /\ \A p \in Properties : /\ PurchasePrice(p)' = PurchasePrice(p)
                               /\ Analysable(p)' = Analysable(p)
                               /\ GroupMarket(p)' = GroupMarket(p)
                               /\ Exact(p) => Exact(p)'
  BY <1>u, KnownStays
<1>c. pc[w] \in Working => current[w].prop \in Properties
  BY <1>t DEF WorkOf, InBand
<1>1. CASE List(w)
  <2>1. pc[w] = "list" /\ pc'[w] = "next" /\ todo'[w] = Offered
    BY <1>1, <1>t DEF List, Goto
  <2>2. KnownStats
    BY <2>1 DEF Progress
  <2>3. \A p \in Properties : Analysable(p) => p \in Offered
    BY DEF Analysable
  <2> QED BY <1>k, <2>1, <2>2, <2>3 DEF Progress, Analysing, Working, Current, Idle
<1>2. ASSUME pc[w] \in Analysing, pc'[w] \in Analysing, todo'[w] = todo[w], Current(w)'
      PROVE  Progress(w)'
  BY <1>2, <1>k DEF Progress, Analysing, Working, Idle
<1>3. CASE Pick(w)
  <2>1. PICK p \in todo[w] :
           IF Offers(p) = {} \/ Area[HomeOf(p)] = 0
           THEN /\ todo' = [todo EXCEPT ![w] = @ \ {p}]
                /\ UNCHANGED <<pc, current>>
           ELSE /\ current' = [current EXCEPT ![w] = [prop |-> p, price |-> PurchasePrice(p),
                                                      market |-> Absent]]
                /\ Goto(w, "market")
                /\ UNCHANGED todo
    BY <1>3 DEF Pick
  <2>2. pc[w] = "next" /\ p \in Properties
    BY <1>3, <1>t DEF Pick
  <2>3. CASE Offers(p) = {} \/ Area[HomeOf(p)] = 0
    <3>1. ~Analysable(p)
      BY <2>2, <2>3, AreaAssumption, GroupType DEF Analysable, Offered
    <3>2. pc'[w] = "next" /\ todo'[w] = todo[w] \ {p}
      BY <1>t, <2>1, <2>2, <2>3
    <3> QED BY <1>k, <2>2, <3>1, <3>2 DEF Progress, Analysing, Working, Current, Idle
  <2>4. CASE ~(Offers(p) = {} \/ Area[HomeOf(p)] = 0)
    <3>1. /\ pc'[w] = "market" /\ todo'[w] = todo[w]
          /\ current'[w] = [prop |-> p, price |-> PurchasePrice(p), market |-> Absent]
      BY <1>t, <2>1, <2>2, <2>4 DEF Goto
    <3>2. current'[w].prop = p /\ current'[w].price = PurchasePrice(p)'
      BY <1>k, <2>2, <3>1
    <3>3. Current(w)'
      BY <3>1, <3>2 DEF Current, Working
    <3> QED BY <1>2, <2>2, <3>1, <3>3 DEF Analysing, Working
  <2> QED BY <2>3, <2>4
<1>4. CASE ReadMarket(w)
  <2> DEFINE p == current[w].prop
             m == GroupMarket(p)
  <2>1. /\ pc[w] = "market" /\ pc'[w] = "delete" /\ todo'[w] = todo[w]
        /\ current'[w] = [current[w] EXCEPT !.market = m]
    BY <1>4, <1>t DEF ReadMarket, Goto, GroupMarket
  <2>2. p \in Properties /\ current[w] = [prop |-> p, price |-> current[w].price,
                                          market |-> current[w].market]
    BY <1>c, <1>t, <2>1 DEF WorkOf, Working
  <2>3. current[w].price = PurchasePrice(p)
    BY <2>1 DEF Progress, Current, Working
  <2>4. current'[w].prop = p /\ current'[w].price = PurchasePrice(p) /\ current'[w].market = m
    <3> HIDE DEF m
    <3> QED BY <2>1, <2>2, <2>3
  <2>5. Current(w)'
    <3>1. \A q \in Properties : PurchasePrice(q)' = PurchasePrice(q)
                                /\ GroupMarket(q)' = GroupMarket(q)
      BY <1>k
    <3> QED BY <2>1, <2>2, <2>4, <3>1 DEF Current, Working
  <2> QED BY <1>2, <2>1, <2>5 DEF Analysing, Working
<1>5. CASE DeleteSees(w)
  <2>1. /\ pc[w] = "delete" /\ pc'[w] = "deleting" /\ todo'[w] = todo[w]
        /\ current'[w] = current[w] /\ visible'[w] = analyses[current[w].prop]
    BY <1>5, <1>t DEF DeleteSees, Goto
  <2>2. Current(w)'
    <3>1. Current(w)
      BY DEF Progress
    <3> QED BY <1>c, <1>k, <1>u, <2>1, <3>1 DEF Current, Working
  <2> QED BY <1>2, <2>1, <2>2 DEF Analysing, Working
<1>6. CASE DeleteRows(w)
  <2>1. /\ pc[w] = "deleting" /\ pc'[w] = "analyse" /\ todo'[w] = todo[w]
        /\ current'[w] = current[w]
        /\ doomed'[w] = visible[w] \cap analyses[current[w].prop]
    BY <1>6, <1>t DEF DeleteRows, Goto
  <2>2. Current(w)'
    <3>1. Current(w)
      BY DEF Progress
    <3> QED BY <1>c, <1>k, <1>u, <2>1, <3>1 DEF Current, Working
  <2> QED BY <1>2, <2>1, <2>2 DEF Analysing, Working
<1> QED BY <1>1, <1>3, <1>4, <1>5, <1>6

(* The end of a property and of the job. *)
LEMMA EndProgress ==
  ASSUME Types, NEW w \in Workers, Progress(w), pc[w] = "end" => job[w] = "stats",
         Analyse(w) \/ Done(w) \/ Crash(w)
  PROVE  Progress(w)'
<1>t. /\ DOMAIN pc = Workers /\ DOMAIN todo = Workers /\ todo[w] \subseteq Properties
      /\ DOMAIN result = Workers /\ WorkOf(w)
  BY DEF Types, MemoryTypes, ControlTypes, WorkTypes
<1>1. CASE Analyse(w)
  <2>1. CASE Unanalysable(current[w].prop, current[w].price, current[w].market)
    <3>1. pc'[w] = "idle" /\ result'[w] = "failed"
      BY <1>1, <2>1, StopForgets DEF Analyse, Fail
    <3> QED BY <3>1, NothingClaimed
  <2>2. CASE ~Unanalysable(current[w].prop, current[w].price, current[w].market)
    <3> DEFINE p == current[w].prop
               id == CHOOSE i \in FreeIds(p) : \A j \in FreeIds(p) : i <= j
    <3>1. /\ Replaces(w, id) /\ UNCHANGED <<listings, stats>>
          /\ todo'[w] = todo[w] \ {p} /\ pc[w] = "analyse" /\ pc'[w] = "next"
      BY <1>1, <2>2, <1>t DEF Analyse, Replaces, Goto
    <3> HIDE DEF id
    <3>2. Current(w) /\ p \in Properties
      BY <1>t, <3>1 DEF Progress, WorkOf, Working, InBand
    <3>3. /\ current[w].price = PurchasePrice(p) /\ current[w].market = GroupMarket(p)
          /\ doomed[w] = analyses[p]
      BY <3>1, <3>2 DEF Current, Working
    <3>4. /\ analyses'[p] = {NewBatch(w, id)}
          /\ \A q \in Properties : q # p => analyses'[q] = analyses[q]
          /\ NewBatch(w, id).price = PurchasePrice(p)
          /\ NewBatch(w, id).market = GroupMarket(p)
      BY <3>1, <3>3, Replaced
    <3>5. /\ KnownStats => KnownStats'
          /\ \A q \in Properties : /\ PurchasePrice(q)' = PurchasePrice(q)
                                   /\ Analysable(q)' = Analysable(q)
                                   /\ GroupMarket(q)' = GroupMarket(q)
                                   /\ UNCHANGED analyses[q] /\ Exact(q) => Exact(q)'
      BY <3>1, KnownStays
    <3>6. \A q \in Properties : Analysable(q)' => q \in todo'[w] \/ Exact(q)'
      <4> SUFFICES ASSUME NEW q \in Properties, Analysable(q)'
                   PROVE  q \in todo'[w] \/ Exact(q)'
        OBVIOUS
      <4>1. CASE q = p
        <5>1. PurchasePrice(q)' = PurchasePrice(p) /\ GroupMarket(q)' = GroupMarket(p)
          BY <3>5, <4>1
        <5>2. {[price |-> b.price, market |-> b.market] : b \in analyses'[q]} =
                {[price |-> NewBatch(w, id).price, market |-> NewBatch(w, id).market]}
          BY <3>4, <4>1
        <5>3. Exact(q)'
          BY <3>4, <5>1, <5>2 DEF Exact
        <5> QED BY <5>3
      <4>2. CASE q # p
        BY <3>1, <3>4, <3>5, <4>2 DEF Progress, Analysing, Working
      <4> QED BY <4>1, <4>2
    <3> QED BY <3>1, <3>5, <3>6 DEF Progress, Analysing, Working, Current, Idle
  <2> QED BY <2>1, <2>2
<1>2. CASE Done(w)
  <2>1. pc'[w] = "idle" /\ job'[w] = job[w] /\ UNCHANGED <<listings, stats, analyses>>
    BY <1>2, StopForgets DEF Done, tables
  <2>2. CASE pc[w] = "end"
    BY <2>1, <2>2 DEF Progress, Analysing, Working, Current, Idle
  <2>3. CASE pc[w] = "next" /\ todo[w] = {}
    <3>1. KnownStats /\ \A p \in Properties : Analysable(p) => Exact(p)
      BY <2>3 DEF Progress, Analysing
    <3>2. KnownStats' /\ \A p \in Properties : Analysable(p)' => Exact(p)'
      BY <2>1, <3>1, KnownStays
    <3> QED BY <2>1, <3>2 DEF Progress, Analysing, Working, Current, Idle
  <2> QED BY <1>2, <2>2, <2>3 DEF Done
<1>3. CASE Crash(w)
  BY <1>3, StopForgets, NothingClaimed DEF Crash
<1> QED BY <1>1, <1>2, <1>3

(* The bookkeeping of quiet and of jobs that only refresh the statistics.    *)
LEMMA OwnQuiet ==
  ASSUME Types, NEW w \in Workers, StepOf(w)
  PROVE  /\ Start(w) \/ (quiet'[w] => quiet[w])
         /\ (pc[w] = "end" => job[w] = "stats") => (pc'[w] = "end" => job'[w] = "stats")
<1>1. Start(w) \/ (quiet'[w] => quiet[w])
  <2>1. \/ Start(w)
        \/ quiet' = quiet
        \/ quiet' = [x \in Workers |-> x \in {w} /\ quiet[x]]
    BY DEF StepOf, Statement, Collect, ReadStat, CommitStats, List, Pick, ReadMarket, DeleteSees,
           DeleteRows, Analyse, Done, Crash, Fail, Disturb
  <2> QED BY <2>1, Zenon
<1>2. ASSUME pc'[w] = "end" PROVE job'[w] = "stats" \/ (pc[w] = "end" /\ job'[w] = job[w])
  <2>t. DOMAIN pc = Workers /\ DOMAIN job = Workers /\ job[w] \in {"stats", "pipeline"}
    BY DEF Types, ControlTypes
  <2>s. ASSUME NEW how, Stop(w, how) PROVE FALSE
    BY <1>2, <2>s, StopForgets
  <2>1. CASE CommitStats(w)
    BY <1>2, <2>1, <2>t, <2>s DEF CommitStats, Fail, Goto
  <2>2. CASE Analyse(w) \/ Done(w) \/ Crash(w)
    BY <1>2, <2>2, <2>t, <2>s DEF Analyse, Fail, Done, Crash, Goto
  <2>3. CASE Start(w) \/ Collect(w) \/ ReadStat(w) \/ List(w) \/ Pick(w) \/ ReadMarket(w)
               \/ DeleteSees(w) \/ DeleteRows(w)
    BY <1>2, <2>3, <2>t DEF Start, Collect, ReadStat, List, Pick, ReadMarket, DeleteSees,
                            DeleteRows, Goto, control
  <2> QED BY <2>1, <2>2, <2>3 DEF StepOf, Statement
<1> QED BY <1>1, <1>2

(* Progress is kept by every step. *)
LEMMA UndisturbedStep ==
  ASSUME Types, Undisturbed, [Next]_vars
  PROVE  Undisturbed'
<1>1. CASE Take
  <2>1. quiet' = [v \in Workers |-> v \in {} /\ quiet[v]] /\ pc' = pc /\ job' = job
    BY <1>1 DEF Take, Disturb, control
  <2>2. \A w \in Workers : ~quiet'[w]
    BY <2>1
  <2> QED BY <2>1, <2>2 DEF Undisturbed
<1>2. CASE UNCHANGED vars
  <2>1. UNCHANGED tables
        /\ UNCHANGED <<fresh, read, todo, current, visible, doomed, job, pc, result, quiet>>
    BY <1>2 DEF vars, memory, control
  <2> QED BY <2>1, ProgressStays DEF Undisturbed
<1>3. ASSUME NEW w \in Workers, StepOf(w) PROVE Undisturbed'
  <2>1. ASSUME NEW v \in Workers, v # w
        PROVE  (pc'[v] = "end" => job'[v] = "stats") /\ (quiet'[v] => Progress(v)')
    <3>1. pc'[v] = "end" => job'[v] = "stats"
      BY <1>3, <2>1, OthersRest DEF Undisturbed
    <3>2. ASSUME quiet'[v] PROVE Progress(v)'
      <4>1. quiet[v] /\ UNCHANGED tables
        BY <1>3, <2>1, <3>2, WritesDisturb
      <4>2. Progress(v)
        BY <4>1 DEF Undisturbed
      <4> QED BY <1>3, <2>1, <4>1, <4>2, OthersRest, ProgressStays
    <3> QED BY <3>1, <3>2
  <2>2. pc'[w] = "end" => job'[w] = "stats"
    BY <1>3, OwnQuiet DEF Undisturbed
  <2>3. ASSUME quiet'[w] PROVE Progress(w)'
    <3>1. CASE Start(w)
      <4>1. pc'[w] = "collect"
        BY <3>1 DEF Start, Goto, Types, ControlTypes
      <4> QED BY <4>1, NothingClaimed
    <3>2. CASE ~Start(w)
      <4>1. Progress(w) /\ (pc[w] = "end" => job[w] = "stats")
        BY <1>3, <2>3, <3>2, OwnQuiet DEF Undisturbed
      <4> QED BY <1>3, <3>2, <4>1, StatsProgress, WorkProgress, EndProgress
              DEF StepOf, Statement
    <3> QED BY <3>1, <3>2
  <2> QED BY <2>1, <2>2, <2>3 DEF Undisturbed
<1> QED BY <1>1, <1>2, <1>3 DEF Next, StepOf

(* A pipeline that ended undisturbed leaves the statistics of the listings   *)
(* there are, and for every property on offer one analysis, made from its    *)
(* cheapest price and its market, whatever else started, failed or crashed.  *)
THEOREM UpToDateCorrect == Spec => []UpToDate
<1>1. Init => Undisturbed
  BY DEF Init, Undisturbed
<1>2. Types /\ Undisturbed /\ [Next]_vars => Undisturbed'
  BY UndisturbedStep
<1>3. Types /\ Undisturbed => UpToDate
  BY DEF Undisturbed, Progress, UpToDate, Settled, KnownStats, Exact, GroupMarket
<1> QED BY <1>1, <1>2, <1>3, Typed, PTL DEF Spec

-----------------------------------------------------------------------------
(* One task at a time. *)

(* A worker that is alone deletes all that a property has. *)
Deletes(w) ==
    /\ pc[w] = "deleting" => visible[w] = analyses[current[w].prop]
    /\ pc[w] = "analyse" => doomed[w] = analyses[current[w].prop]

Single == \A p \in Properties : analyses[p] = {} \/ \E b \in analyses[p] : analyses[p] = {b}

Alone == (\A w \in Workers : Deletes(w)) /\ Single

LEMMA AloneStep ==
  ASSUME NEW w, Workers = {w}, Types, Alone, [Next]_vars
  PROVE  Alone'
<1>t. /\ w \in Workers /\ DOMAIN pc = Workers /\ DOMAIN current = Workers
      /\ DOMAIN visible = Workers /\ DOMAIN doomed = Workers /\ Deletes(w)
  BY DEF Types, MemoryTypes, ControlTypes, Alone
<1>1. Single'
  <2>1. CASE UNCHANGED analyses
    BY <2>1 DEF Alone, Single
  <2>2. CASE ~UNCHANGED analyses
    <3>1. PICK v \in Workers : \E id : Replaces(v, id)
      BY <2>2, OnlyAnalyseWrites
    <3>2. PICK id : Replaces(w, id)
      BY <3>1
    <3>3. doomed[w] = analyses[current[w].prop]
      BY <1>t, <3>2 DEF Deletes, Replaces
    <3>4. /\ analyses'[current[w].prop] = {NewBatch(w, id)}
          /\ \A p \in Properties : p # current[w].prop => analyses'[p] = analyses[p]
      BY <1>t, <3>2, <3>3, Replaced
    <3>5. ASSUME NEW p \in Properties
          PROVE  analyses'[p] = {} \/ \E b \in analyses'[p] : analyses'[p] = {b}
      <4>1. CASE p = current[w].prop
        BY <3>4, <4>1
      <4>2. CASE p # current[w].prop
        BY <3>4, <4>2 DEF Alone, Single
      <4> QED BY <4>1, <4>2
    <3> QED BY <3>5 DEF Single
  <2> QED BY <2>1, <2>2
<1>2. Deletes(w)'
  <2>1. CASE Take
    BY <1>t, <2>1 DEF Take, memory, control, Deletes
  <2>2. CASE UNCHANGED vars
    BY <1>t, <2>2 DEF vars, tables, memory, control, Deletes
  <2>s. ASSUME NEW how, Stop(w, how) PROVE Deletes(w)'
    BY <1>t, <2>s, StopForgets DEF Deletes
  <2>3. CASE Start(w) \/ Collect(w) \/ ReadStat(w) \/ List(w) \/ Pick(w) \/ ReadMarket(w)
    <3>1. pc'[w] # "deleting" /\ pc'[w] # "analyse"
      BY <1>t, <2>3 DEF Start, Collect, ReadStat, List, Pick, ReadMarket, Goto, control
    <3> QED BY <3>1 DEF Deletes
  <2>4. CASE DeleteSees(w)
    BY <1>t, <2>4 DEF DeleteSees, Goto, tables, Deletes
  <2>5. CASE DeleteRows(w)
    BY <1>t, <2>5 DEF DeleteRows, Goto, tables, Deletes
  <2>6. CASE CommitStats(w) \/ Analyse(w) \/ Done(w) \/ Crash(w)
    <3>1. (\E how : Stop(w, how)) \/ (pc'[w] # "deleting" /\ pc'[w] # "analyse")
      BY <1>t, <2>6 DEF CommitStats, Analyse, Done, Crash, Fail, Goto
    <3> QED BY <3>1, <2>s DEF Deletes
  <2> QED BY <2>1, <2>2, <2>3, <2>4, <2>5, <2>6 DEF Next, Statement
<1> QED BY <1>1, <1>2 DEF Alone

(* With one task at a time a property never has two analyses of a scenario.  *)
(* Two tasks can leave two: the run that has two workers shows it.           *)
THEOREM OneBatchCorrect ==
  ASSUME NEW w, Workers = {w}
  PROVE  Spec => []OneBatch
<1>1. Init => Alone
  BY DEF Init, Alone, Deletes, Single
<1>2. Types /\ Alone /\ [Next]_vars => Alone'
  BY AloneStep
<1>3. Alone => OneBatch
  <2> SUFFICES ASSUME Alone, NEW p \in Properties PROVE Cardinality(analyses[p]) <= 1
    BY DEF OneBatch
  <2>1. CASE analyses[p] = {}
    BY <2>1, FS_EmptySet
  <2>2. CASE \E b : analyses[p] = {b}
    <3>1. Cardinality(analyses[p]) = 1
      BY <2>2, FS_Singleton, Zenon
    <3> QED BY <3>1
  <2> QED BY <2>1, <2>2 DEF Alone, Single
<1> QED BY <1>1, <1>2, <1>3, Typed, PTL DEF Spec
=============================================================================
