---- MODULE Custody ----
(***************************************************************************)
(* What the database of a device promises, whatever becomes of the process *)
(* that uses it: copies come and go one at a time, each for a reason, and  *)
(* a process that dies, at any moment, takes none with it.                 *)
(***************************************************************************)
EXTENDS EnvelopeStore

CONSTANTS Time, Capacities, DiskFaults

VARIABLES
  clock,
  stored,   \* the hop budget of each stored copy
  room,     \* the capacity of the store that is open, or was last
  serving,  \* whether a store is open and has loaded the copies
  unsure    \* ids this store has failed to write or delete

Urgent(ids, id) == {x \in ids : PriorityOf[x] <= PriorityOf[id]}

\* As many copies as urgent as this one stay, the one it yields to may still be coming.
NoRoomFor(id) == Cardinality(Urgent((DOMAIN stored \cup unsure) \ {id}, id)) + 1 >= room

MayGiveUp(id) == IsExpired(id, clock) \/ NoRoomFor(id)

IsNew(id) == ~ IsExpired(id, clock) /\ (id \in DOMAIN stored => id \in unsure)

Fits(id) == Cardinality(DOMAIN stored \ (unsure \cup {id})) < room

CustodyInit ==
  /\ clock \in Time
  /\ stored = [id \in {} |-> 1]
  /\ room \in Capacities
  /\ ~ serving
  /\ unsure = {}

Keep(id, ttl) ==
  /\ serving
  /\ IsNew(id) /\ Fits(id)
  /\ stored' = With(stored, id, ttl)
  /\ UNCHANGED <<clock, room, serving, unsure>>

GiveUp(id) ==
  /\ MayGiveUp(id)
  /\ stored' = Without(stored, {id})
  /\ UNCHANGED <<clock, room, serving, unsure>>

\* What had a reason fails.
Fail(ids) ==
  /\ DiskFaults
  /\ serving => \A id \in ids : MayGiveUp(id) \/ IsNew(id)
  /\ unsure' = unsure \cup ids
  /\ UNCHANGED <<clock, stored, room, serving>>

\* A copy that cannot be read is deleted while a store opens.
Rot(id) ==
  /\ DiskFaults /\ ~ serving
  /\ stored' = Without(stored, {id})
  /\ UNCHANGED <<clock, room, serving, unsure>>

Open(cap) ==
  /\ ~ serving
  /\ room' = cap
  /\ UNCHANGED <<clock, stored, serving, unsure>>

\* A store has opened: what it could read and delete is live and fits it.
Serve ==
  /\ ~ serving /\ serving' = TRUE
  /\ \A id \in DOMAIN stored \ unsure : ~ IsExpired(id, clock)
  /\ Cardinality(DOMAIN stored \ unsure) <= room
  /\ UNCHANGED <<clock, stored, room, unsure>>

\* The store closes or its process dies, in the middle of whatever it does.
Close ==
  /\ serving' = FALSE /\ unsure' = {}
  /\ UNCHANGED <<clock, stored, room>>

Wipe ==
  /\ serving /\ serving' = FALSE
  /\ stored' = [id \in {} |-> 1] /\ unsure' = {}
  /\ UNCHANGED <<clock, room>>

SetClock == clock' \in Time /\ UNCHANGED <<stored, room, serving, unsure>>

CustodyNext ==
  \/ \E id \in Id : GiveUp(id) \/ Rot(id) \/ \E ttl \in Hops : Keep(id, ttl)
  \/ \E ids \in SUBSET Id : Fail(ids)
  \/ \E cap \in Capacities : Open(cap)
  \/ Serve \/ Close \/ Wipe \/ SetClock

CustodySpec == CustodyInit /\ [][CustodyNext]_<<clock, stored, room, serving, unsure>>
====
