--------------------------- MODULE MCDealPipeline ---------------------------
(* Instances of DealPipeline for TLC. *)
EXTENDS DealPipeline, TLC

CONSTANTS flat, lot

BothPortals == [k \in Keys |-> "common"]

(* A flat of one square metre, a lot whose private area is not known. *)
OneMetre == [h \in Homes |-> IF h = flat THEN 1 ELSE 0]
OneGroup == [h \in Homes |-> "centro"]

(* City-level percentiles, in hundredths. *)
CityFallback == [n |-> 5, p50 |-> 900, p65 |-> 1000]
=============================================================================
