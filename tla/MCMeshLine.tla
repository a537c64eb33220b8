---- MODULE MCMeshLine ----
(***************************************************************************)
(* Three nodes in a line, a - b - c: what reaches c went through b.        *)
(***************************************************************************)
EXTENDS MeshRelay

CONSTANTS a, b, c, x, y

MCOrigin     == [id \in Id |-> IF id = x THEN a ELSE b]
MCDistance   ==
  [o \in Node |-> [n \in Node |-> IF n = o THEN 0 ELSE IF b \in {o, n} THEN 1 ELSE 2]]
MCInitTtl    == [id \in Id |-> IF id = x THEN 3 ELSE 2]
MCPriorityOf == [id \in Id |-> Normal]
MCExpiresAt  == [id \in Id |-> IF id = x THEN 1 ELSE 9]
MCExactly    == [held \in SUBSET Id |-> {}]
MCProofOf    == [id \in Id |-> [d \in Difficulties |-> d]]
MCLimits     == {DefaultLimit}
MCTightLimits ==
  {DefaultLimit, [envelopes |-> 1, bytes |-> 200, seconds |-> 0]}
MCFrameBytes == [id \in Id |-> 200]

\* A link drops while nothing is tuned, or up to two settings of the three nodes are
\* tuned while the links hold.
MCTuned ==
  Cardinality({n \in Node : difficulty[n] # 0})
    + Cardinality({n \in Node : rate_limit[n] # DefaultLimit})

MCTunedOrDropped == MCTuned = 0 \/ (MCTuned <= 2 /\ contacts = Cardinality(links))

MCTunedSpec == Init /\ [][Next /\ MCTunedOrDropped']_vars
====
