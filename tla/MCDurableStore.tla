---- MODULE MCDurableStore ----
(***************************************************************************)
(* A small store: one SOS, two normal envelopes of which one expires, one  *)
(* low one, and capacities that force evictions and shrinking reloads.     *)
(***************************************************************************)
EXTENDS DurableStore

CONSTANTS s, n, l

MCPriorityOf == [id \in Id |-> CASE id = s -> Sos [] id = n -> Normal [] OTHER -> Low]
MCExpiresAt  == [id \in Id |-> IF id = n THEN 1 ELSE 2]
====
