---- MODULE MCRouteAnalysis ----
(* Values for the model-checking run of the route trace. *)
EXTENDS RouteAnalysis

TwoWidths == <<2, 1>>
================================
