---- MODULE MCDoubleRatchet ----
(***************************************************************************)
(* Five messages between the two ends of a session, each delivered up to   *)
(* twice in any order.  The parties are not symmetric: one starts.         *)
(***************************************************************************)
EXTENDS DoubleRatchet
====
