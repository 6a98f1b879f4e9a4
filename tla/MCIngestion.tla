----------------------------- MODULE MCIngestion -----------------------------
(* Instances of Ingestion for TLC. *)
EXTENDS Ingestion, TLC

CONSTANTS api, cron, sA, sB, m1, k1, k2

(* The API and a run started from the command line. *)
TwoLoops == [s \in Sessions |-> IF s = sB THEN cron ELSE api]

(* Everything on the event loop of the API. *)
OneLoop == [s \in Sessions |-> api]

BankKey == [k \in Keys |-> "bank"]
BankAndPortal == [k \in Keys |-> IF k = k1 THEN "bank" ELSE "common"]
=============================================================================
