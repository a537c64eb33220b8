---- MODULE ContactExchange ----
(***************************************************************************)
(* What a contact promises to the people who carry the devices: when two   *)
(* of them meet, each comes away with everything the other could pass on,  *)
(* one hop poorer, and nothing else changes hands.  It is the promise of   *)
(* stores that have room and of limits that are not reached.               *)
(***************************************************************************)
EXTENDS EnvelopeStore

CONSTANTS Node, Link, Origin, InitTtl

VARIABLES
  copies,  \* each node's envelopes, with the hops each copy has left
  clock

ExchangeInit ==
  /\ copies = [n \in Node |-> [id \in {} |-> 0]]
  /\ clock = 0

\* The envelopes of p that are news to n.
News(n, p) ==
  {id \in DOMAIN copies[p] \ DOMAIN copies[n] :
     Forwardable(copies[p][id]) /\ ~ IsExpired(id, clock)}

\* What n holds after it has met p.
Enriched(n, p) ==
  [id \in DOMAIN copies[n] \cup News(n, p) |->
     IF id \in DOMAIN copies[n] THEN copies[n][id] ELSE DecrementTtl(copies[p][id])]

Meet(n, p) ==
  /\ {n, p} \in Link
  /\ copies' = [copies EXCEPT ![n] = Enriched(n, p), ![p] = Enriched(p, n)]
  /\ UNCHANGED clock

Compose(id) ==
  LET n == Origin[id]
  IN  /\ id \notin DOMAIN copies[n]
      /\ ~ IsExpired(id, clock)
      /\ copies' = [copies EXCEPT ![n] = With(@, id, InitTtl[id])]
      /\ UNCHANGED clock

Pass == clock' = clock + 1 /\ UNCHANGED copies

ExchangeNext ==
  \/ \E n, p \in Node : n # p /\ Meet(n, p)
  \/ \E id \in Id : Compose(id)
  \/ Pass

ExchangeSpec == ExchangeInit /\ [][ExchangeNext]_<<copies, clock>>
====
