---------------------------- MODULE MCScrapeRun ----------------------------
(* Instances of ScrapeRun for TLC. *)
EXTENDS ScrapeRun

CONSTANTS api, cron, t1, t2, t3

(* Two runs on the loop of the API, one started from the command line. *)
Placed == [t \in Tasks |-> IF t = t3 THEN cron ELSE api]

(* The first one reads two pages, the last one lot; the site of the other    *)
(* shows nothing.                                                            *)
Pages == [t \in Tasks |-> IF t = t1 THEN 2 ELSE IF t = t3 THEN 1 ELSE 0]
=============================================================================
