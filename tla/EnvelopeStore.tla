---- MODULE EnvelopeStore ----
(***************************************************************************)
(* The in-memory envelope index of core/src/engine.rs (`Store`), as        *)
(* operators on its `entries`: a function from the held envelope ids to    *)
(* what the store keeps of each of them.                                   *)
(*                                                                         *)
(* An envelope id is a hash of the envelope's addressing, priority, expiry *)
(* and sealed content, and not of its hop budget (envelope.rs,             *)
(* compute_id).  Priority and expiry are therefore functions of the id,    *)
(* while two copies of one envelope may carry different `ttl_hops`.        *)
(***************************************************************************)
EXTENDS Integers, FiniteSets, Functions

CONSTANTS
  Id,           \* envelope ids
  PriorityOf,   \* the priority hashed into each id
  ExpiresAt,    \* the expiry time hashed into each id
  MaxTtl        \* the largest hop budget an envelope is given

Sos      == 0
Bulletin == 1
Normal   == 2
Low      == 3

Priority == Sos..Low
Ttl      == 0..MaxTtl  \* hop budgets that arrive
Hops     == 1..MaxTtl  \* hop budgets that are kept: a spent one is refused

ASSUME IdAssumption       == IsFiniteSet(Id)
ASSUME PriorityAssumption == PriorityOf \in [Id -> Priority]
ASSUME ExpiryAssumption   == ExpiresAt \in [Id -> Nat]
ASSUME TtlAssumption      == MaxTtl \in Nat

(***************************************************************************)
(* `entries` is a function on the held ids; `seq` is `inserted_seq`.       *)
(***************************************************************************)
Entry == [ttl : Hops, seq : Nat]

NoEntries == [id \in {} |-> [ttl |-> 1, seq |-> 0]]

With(f, key, value) ==
  [x \in DOMAIN f \cup {key} |-> IF x = key THEN value ELSE f[x]]
Without(f, keys) == Restrict(f, DOMAIN f \ keys)

IsExpired(id, now) == now >= ExpiresAt[id]

\* Mutant of Expired: what expires in the next second goes as well.
ExpiredSoon(entries, now) == {id \in DOMAIN entries : IsExpired(id, now + 1)}

Expired(entries, now) == {id \in DOMAIN entries : IsExpired(id, now)}

----
(***************************************************************************)
(* `Store::accept`.  The outcomes are tried in the code's order: an id     *)
(* already held is a duplicate whatever else is wrong with it, and only a  *)
(* fresh envelope is weighed against the capacity.                         *)
(***************************************************************************)
\* Mutant of Fresh: a spent hop budget is not refused.
FreshAtAnyTtl(entries, id, ttl, now) ==
  id \notin DOMAIN entries /\ ~ IsExpired(id, now)

Fresh(entries, id, ttl, now) ==
  /\ id \notin DOMAIN entries
  /\ ~ IsExpired(id, now)
  /\ ttl # 0

\* Mutant of HasRoom: one entry too many fits.
HasSpareRoom(entries, capacity) == Cardinality(DOMAIN entries) <= capacity

HasRoom(entries, capacity) == Cardinality(DOMAIN entries) < capacity

\* Mutant of IsWorstEntry: the oldest entry, whatever its priority.
IsOldestEntry(entries, w) ==
  /\ w \in DOMAIN entries
  /\ \A x \in DOMAIN entries : entries[w].seq <= entries[x].seq

\* The eviction candidate: least urgent first, then the oldest insertion.
IsWorstEntry(entries, w) ==
  /\ w \in DOMAIN entries
  /\ \A x \in DOMAIN entries :
       \/ PriorityOf[x] < PriorityOf[w]
       \/ PriorityOf[x] = PriorityOf[w] /\ entries[w].seq <= entries[x].seq

\* Mutant of Displaces: the ordinals compared as if a higher one were more urgent.
DisplacesUpward(entries, id, w) ==
  IsWorstEntry(entries, w) /\ PriorityOf[id] > PriorityOf[w]

\* A full store gives up its worst entry only to a strictly more urgent arrival.
Displaces(entries, id, w) ==
  IsWorstEntry(entries, w) /\ PriorityOf[id] < PriorityOf[w]

Evictable(entries, capacity, id) ==
  IF HasRoom(entries, capacity)
  THEN {}
  ELSE {w \in DOMAIN entries : Displaces(entries, id, w)}

Admits(entries, capacity, id) ==
  HasRoom(entries, capacity) \/ Evictable(entries, capacity, id) # {}

\* The entries once `id` is accepted and `evicted` (at most one id) made room.
Accepted(entries, next_seq, id, ttl, evicted) ==
  With(Without(entries, evicted), id, [ttl |-> ttl, seq |-> next_seq])

----
(***************************************************************************)
(* `decrement_ttl`: the hop budget of a copy that is passed on, and        *)
(* whether it is passed on at all.                                         *)
(***************************************************************************)
Forwardable(ttl) == ttl > 1
DecrementTtl(ttl) == ttl - 1
====
