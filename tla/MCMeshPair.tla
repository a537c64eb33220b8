---- MODULE MCMeshPair ----
(***************************************************************************)
(* Two nodes that meet, part and meet again, each composing an envelope.   *)
(***************************************************************************)
EXTENDS ContactHistory

CONSTANTS a, b, x, y

MCOrigin     == [id \in Id |-> IF id = x THEN a ELSE b]
MCDistance   == [o \in Node |-> [n \in Node |-> IF n = o THEN 0 ELSE 1]]
MCInitTtl    == [id \in Id |-> 2]
MCPriorityOf == [id \in Id |-> IF id = x THEN Normal ELSE Sos]
MCExpiresAt  == [id \in Id |-> IF id = x THEN 1 ELSE 9]
MCExactly    == [held \in SUBSET Id |-> {}]
MCConfused   == [held \in SUBSET Id |-> IF held = {y} THEN {x} ELSE {}]
MCProofOf    == [id \in Id |-> [d \in Difficulties |-> d]]
MCLimits     == {DefaultLimit}
MCFrameBytes == [id \in Id |-> 200]
====
