---------------------------- MODULE MCRouteMatching ----------------------------
(* Model checking RouteMatching. *)
EXTENDS RouteMatching
================================================================================
