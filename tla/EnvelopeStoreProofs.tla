---- MODULE EnvelopeStoreProofs ----
(***************************************************************************)
(* Lemmas about the operators of EnvelopeStore: what `Store::accept` does  *)
(* to an index, for every index a run of the program can build.            *)
(***************************************************************************)
EXTENDS EnvelopeStore, FiniteSetTheorems, WellFoundedInduction, TLAPS

\* An index as `Store` builds it: no two entries carry the same insertion number,
\* and the next number is larger than all of them.
Index(es, next) ==
  /\ es \in [DOMAIN es -> Entry]
  /\ DOMAIN es \subseteq Id
  /\ next \in Nat
  /\ \A x \in DOMAIN es : es[x].seq < next
  /\ \A x, y \in DOMAIN es : es[x].seq = es[y].seq => x = y

\* A nonempty set of natural numbers has a least element.
LEMMA LeastNat ==
  ASSUME NEW T, T \subseteq Nat, T # {}
  PROVE  \E m \in T : \A k \in T : m <= k
<1> DEFINE R == OpToRel(<, Nat)
<1>1. IsWellFoundedOn(R, Nat)
  BY NatLessThanWellFounded
<1>2. PICK m \in T : \A k \in T : <<k, m>> \notin R
  <2> HIDE DEF R
  <2> QED BY <1>1, WFMin
<1>3. \A k \in T : ~ (k < m)
  BY <1>2 DEF OpToRel
<1>4. QED
  BY <1>3

\* The priority order is total on ids.
LEMMA PriorityRange == \A id \in Id : PriorityOf[id] \in 0..3
  BY PriorityAssumption DEF Priority, Sos, Low

\* A store that holds anything has an eviction candidate (`worst_entry_id` answers
\* None only on an empty store): `accept` never has to give up for want of one.
THEOREM WorstExists ==
  ASSUME NEW es, NEW next, Index(es, next), DOMAIN es # {}
  PROVE  \E w \in DOMAIN es : IsWorstEntry(es, w)
<1>1. \A x \in DOMAIN es : PriorityOf[x] \in 0..3 /\ es[x].seq \in Nat
  BY PriorityRange DEF Index, Entry
<1>2. PICK top \in DOMAIN es : \A x \in DOMAIN es : PriorityOf[x] <= PriorityOf[top]
  BY <1>1
<1> DEFINE rank == {x \in DOMAIN es : PriorityOf[x] = PriorityOf[top]}
           ages == {es[x].seq : x \in rank}
<1>3. ages \subseteq Nat /\ ages # {}
  BY <1>1
<1>4. PICK oldest \in ages : \A a \in ages : oldest <= a
  <2> HIDE DEF ages
  <2> QED BY <1>3, LeastNat
<1>5. PICK w \in rank : es[w].seq = oldest
  BY <1>4
<1>6. IsWorstEntry(es, w)
  BY <1>1, <1>2, <1>4, <1>5 DEF IsWorstEntry
<1>7. QED
  BY <1>5, <1>6

\* The eviction candidate is unique: which entry is evicted does not depend on the
\* hash map's iteration order.
THEOREM WorstUnique ==
  ASSUME NEW es, NEW next, Index(es, next),
         NEW v, NEW w, IsWorstEntry(es, v), IsWorstEntry(es, w)
  PROVE  v = w
<1>1. v \in DOMAIN es /\ w \in DOMAIN es
  BY DEF IsWorstEntry
<1>2. /\ PriorityOf[v] \in 0..3 /\ PriorityOf[w] \in 0..3
      /\ es[v].seq \in Nat /\ es[w].seq \in Nat
  BY <1>1, PriorityRange DEF Index, Entry
<1>3. PriorityOf[v] = PriorityOf[w]
  BY <1>1, <1>2 DEF IsWorstEntry
<1>4. es[v].seq = es[w].seq
  BY <1>1, <1>2, <1>3 DEF IsWorstEntry
<1>5. QED
  BY <1>1, <1>4 DEF Index

\* A full store refuses an envelope only when everything it holds is at least as
\* urgent (`StoreFullLowerPriority`).
THEOREM RefusedIsNoMoreUrgent ==
  ASSUME NEW es, NEW next, Index(es, next), NEW capacity \in Nat,
         NEW id \in Id, ~ Admits(es, capacity, id)
  PROVE  /\ Cardinality(DOMAIN es) >= capacity
         /\ \A held \in DOMAIN es : PriorityOf[held] <= PriorityOf[id]
<1>1. ~ HasRoom(es, capacity) /\ Evictable(es, capacity, id) = {}
  BY DEF Admits
<1>2. IsFiniteSet(DOMAIN es)
  BY IdAssumption, FS_Subset DEF Index
<1>3. Cardinality(DOMAIN es) >= capacity
  BY <1>1, <1>2, FS_CardinalityType DEF HasRoom
<1>4. ASSUME NEW held \in DOMAIN es
      PROVE  PriorityOf[held] <= PriorityOf[id]
  <2>1. PICK w \in DOMAIN es : IsWorstEntry(es, w)
    BY WorstExists
  <2>2. ~ (PriorityOf[id] < PriorityOf[w])
    BY <1>1, <2>1 DEF Evictable, Displaces
  <2>3. PriorityOf[held] <= PriorityOf[w]
    BY <2>1, PriorityRange DEF IsWorstEntry, Index
  <2>4. PriorityOf[held] \in 0..3 /\ PriorityOf[w] \in 0..3 /\ PriorityOf[id] \in 0..3
    BY PriorityRange DEF Index
  <2>5. QED
    BY <2>2, <2>3, <2>4
<1>5. QED
  BY <1>3, <1>4

\* An acceptance evicts nothing while there is room, and otherwise exactly one
\* envelope, strictly less urgent than the new one and no more urgent than any other.
THEOREM EvictsAtMostOne ==
  ASSUME NEW es, NEW next, Index(es, next), NEW capacity \in Nat,
         NEW id \in Id, Admits(es, capacity, id)
  PROVE  \/ HasRoom(es, capacity) /\ Evictable(es, capacity, id) = {}
         \/ \E w \in DOMAIN es :
              /\ ~ HasRoom(es, capacity)
              /\ Evictable(es, capacity, id) = {w}
              /\ PriorityOf[id] < PriorityOf[w]
              /\ \A held \in DOMAIN es : PriorityOf[held] <= PriorityOf[w]
<1>1. CASE HasRoom(es, capacity)
  BY <1>1 DEF Evictable
<1>2. CASE ~ HasRoom(es, capacity)
  <2>1. PICK w \in DOMAIN es : Displaces(es, id, w) /\ w \in Evictable(es, capacity, id)
    BY <1>2 DEF Admits, Evictable
  <2>2. Evictable(es, capacity, id) = {w}
    BY <1>2, <2>1, WorstUnique DEF Evictable, Displaces
  <2>3. \A held \in DOMAIN es : PriorityOf[held] <= PriorityOf[w]
    BY <2>1, PriorityRange DEF Displaces, IsWorstEntry, Index
  <2>4. QED
    BY <1>2, <2>1, <2>2, <2>3 DEF Displaces
<1>3. QED
  BY <1>1, <1>2

\* Replacing one element of a finite set by a new one leaves its size alone.
LEMMA SwapCardinality ==
  ASSUME NEW S, IsFiniteSet(S), NEW old \in S, NEW new, new \notin S
  PROVE  Cardinality((S \ {old}) \cup {new}) = Cardinality(S)
<1>1. IsFiniteSet(S \ {old}) /\ Cardinality(S \ {old}) = Cardinality(S) - 1
  BY FS_RemoveElement
<1>2. Cardinality((S \ {old}) \cup {new}) = Cardinality(S \ {old}) + 1
  BY <1>1, FS_AddElement
<1>3. Cardinality(S) \in Nat
  BY FS_CardinalityType
<1>4. QED
  BY <1>1, <1>2, <1>3

\* An acceptance leaves an index behind, which fits the capacity if the one before
\* it did.
THEOREM AcceptedIndex ==
  ASSUME NEW es, NEW next, Index(es, next), NEW capacity \in Nat,
         Cardinality(DOMAIN es) <= capacity,
         NEW id \in Id \ DOMAIN es, NEW ttl \in Hops, Admits(es, capacity, id),
         NEW evicted, evicted = Evictable(es, capacity, id),
         NEW after, after = Accepted(es, next, id, ttl, evicted)
  PROVE  /\ Index(after, next + 1)
         /\ DOMAIN after = (DOMAIN es \ evicted) \cup {id}
         /\ after[id] = [ttl |-> ttl, seq |-> next]
         /\ \A x \in DOMAIN es \ evicted : after[x] = es[x]
         /\ Cardinality(DOMAIN after) <= capacity
<1>1. /\ DOMAIN after = (DOMAIN es \ evicted) \cup {id}
      /\ after[id] = [ttl |-> ttl, seq |-> next]
      /\ \A x \in DOMAIN es \ evicted : after[x] = es[x]
      /\ after = [x \in DOMAIN after |-> after[x]]
  BY DEF Accepted, With, Without, Restrict
<1>2. [ttl |-> ttl, seq |-> next] \in Entry
  BY DEF Index, Entry
<1>3. Index(after, next + 1)
  <2>1. \A x \in DOMAIN after : after[x] \in Entry /\ after[x].seq < next + 1
    BY <1>1, <1>2 DEF Index, Entry
  <2>2. \A x, y \in DOMAIN after : after[x].seq = after[y].seq => x = y
    BY <1>1 DEF Index, Entry
  <2>3. QED
    BY <1>1, <2>1, <2>2 DEF Index
<1>4. IsFiniteSet(DOMAIN es) /\ Cardinality(DOMAIN es) \in Nat
  BY IdAssumption, FS_Subset, FS_CardinalityType DEF Index
<1>5. CASE HasRoom(es, capacity) /\ evicted = {}
  <2>1. DOMAIN after = DOMAIN es \cup {id}
    BY <1>1, <1>5
  <2>2. Cardinality(DOMAIN after) = Cardinality(DOMAIN es) + 1
    BY <1>4, <2>1, FS_AddElement
  <2>3. QED
    BY <1>1, <1>3, <1>4, <1>5, <2>2 DEF HasRoom
<1>6. ASSUME NEW w \in DOMAIN es, evicted = {w}
      PROVE  Cardinality(DOMAIN after) <= capacity
  BY <1>1, <1>4, <1>6, SwapCardinality
<1>7. \/ HasRoom(es, capacity) /\ evicted = {}
      \/ \E w \in DOMAIN es : evicted = {w}
  BY EvictsAtMostOne
<1>8. Cardinality(DOMAIN after) <= capacity
  BY <1>4, <1>5, <1>6, <1>7
<1>9. QED
  BY <1>1, <1>3, <1>8

\* Letting entries go leaves an index behind.
LEMMA WithoutIndex ==
  ASSUME NEW es, NEW next, Index(es, next), NEW gone
  PROVE  /\ Index(Without(es, gone), next)
         /\ DOMAIN Without(es, gone) = DOMAIN es \ gone
         /\ \A x \in DOMAIN es \ gone : Without(es, gone)[x] = es[x]
  BY DEF Index, Without, Restrict
====
