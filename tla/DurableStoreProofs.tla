---- MODULE DurableStoreProofs ----
(***************************************************************************)
(* Theorems about DurableStore, for every set of envelopes, every          *)
(* assignment of priorities and expiry times, every capacity, and with or  *)
(* without failing database transactions.                                  *)
(*                                                                         *)
(* The argument goes in five layers, each an invariant that the later ones *)
(* rest on: Control (what is outstanding in each call), Ranked (capacity   *)
(* and urgency), Mirrored (index against database while a call is under    *)
(* way), Durable (acknowledged envelopes), Reasoned (why a copy comes or   *)
(* goes), from which DurableStore is shown to implement Custody.           *)
(***************************************************************************)
EXTENDS DurableStore, EnvelopeStoreProofs

\* An index stays an index when entries leave it or one more is put in.
LEMMA EntriesType ==
  ASSUME NEW es, es \in [DOMAIN es -> Entry], DOMAIN es \subseteq Id,
         NEW gone,
         NEW id \in Id, NEW entry \in Entry
  PROVE  /\ Without(es, gone) \in [DOMAIN Without(es, gone) -> Entry]
         /\ DOMAIN Without(es, gone) \subseteq Id
         /\ With(Without(es, gone), id, entry) \in
              [DOMAIN With(Without(es, gone), id, entry) -> Entry]
         /\ DOMAIN With(Without(es, gone), id, entry) \subseteq Id
  BY DEF With, Without, Restrict

(***************************************************************************)
(* Control: which durable steps are outstanding in each call.              *)
(***************************************************************************)
WriteIds == {w.id : w \in writes}

Control ==
  /\ TypeOK
  /\ pc # "accepting" => writes = {}
  /\ pc = "accepting" =>
       \E w \in Offer : /\ writes = {w}
                        /\ w.id \in DOMAIN entries
                        /\ w.ttl = entries[w.id].ttl
  /\ pc \in {"closed", "idle"} => removals = {}
  /\ pc # "reloading" => todo = {}
  /\ pc = "closed" => entries = NoEntries /\ shed = {} /\ damaged = {}
  /\ removals \cap DOMAIN entries = {}
  /\ todo \cap DOMAIN entries = {}
  /\ todo \cap removals = {}
  /\ todo \subseteq DOMAIN disk

LEMMA ControlInit == Init => Control
  BY SeqAssumption DEF Init, Control, TypeOK, NoEntries, NoDisk, Calls

\* A step that takes an envelope into memory keeps memory well formed, holds the
\* envelope afterwards, and holds nothing it evicted.
LEMMA TakeFacts ==
  ASSUME Control, NEW id \in Id, NEW ttl \in Ttl, NEW evicted \in SUBSET Id,
         TakeIntoMemory(id, ttl, evicted)
  PROVE  /\ entries' \in [DOMAIN entries' -> Entry]
         /\ DOMAIN entries' = (DOMAIN entries \ evicted) \cup {id}
         /\ DOMAIN entries' \subseteq Id
         /\ entries'[id].ttl = ttl
         /\ \A x \in (DOMAIN entries \ evicted) \ {id} : entries'[x] = entries[x]
         /\ id \notin DOMAIN entries
         /\ evicted \subseteq DOMAIN entries
         /\ ttl \in Hops
         /\ next_seq' \in 0..MaxSeq
         /\ shed' \in SUBSET Id
<1> DEFINE entry == [ttl |-> ttl, seq |-> next_seq]
<1>1. ttl \in Hops /\ id \notin DOMAIN entries
  BY TtlAssumption DEF TakeIntoMemory, Fresh, Ttl, Hops
<1>2. entry \in Entry
  BY <1>1 DEF Control, TypeOK, Entry
<1>3. evicted \subseteq DOMAIN entries
  BY DEF TakeIntoMemory, Evictable
<1>4. entries' = Accepted(entries, next_seq, id, ttl, evicted)
  BY DEF TakeIntoMemory
<1>5. entries' \in [DOMAIN entries' -> Entry] /\ DOMAIN entries' \subseteq Id
  BY <1>2, <1>4, EntriesType DEF Accepted, Control, TypeOK
<1>6. /\ DOMAIN entries' = (DOMAIN entries \ evicted) \cup {id}
      /\ entries'[id] = entry
      /\ \A x \in (DOMAIN entries \ evicted) \ {id} : entries'[x] = entries[x]
  BY <1>4 DEF Accepted, With, Without, Restrict
<1>7. next_seq' \in 0..MaxSeq /\ shed' \in SUBSET Id
  BY SeqAssumption DEF TakeIntoMemory, Control, TypeOK
<1>8. QED
  BY <1>1, <1>3, <1>5, <1>6, <1>7

\* A reload hands the index hop budgets of the kind callers offer.
LEMMA HopsAreTtl == Hops \subseteq Ttl
  BY TtlAssumption DEF Hops, Ttl

LEMMA ControlNext == Control /\ [Next]_vars => Control'
<1> SUFFICES ASSUME Control, [Next]_vars
             PROVE  Control'
  OBVIOUS
<1> USE DEF Control, TypeOK
<1>1. CASE Crash
  BY <1>1, SeqAssumption DEF Crash, ForgetMemory, NoEntries, Calls
<1>2. CASE SetClock
  BY <1>2 DEF SetClock, memory, call, history
<1>3. ASSUME NEW id \in Id, NEW ttl \in Ttl, BeginAccept(id, ttl)
      PROVE  Control'
  <2>1. PICK evicted \in SUBSET Id :
             /\ TakeIntoMemory(id, ttl, evicted)
             /\ removals' = evicted
             /\ owed' = owed \ evicted
    BY <1>3 DEF BeginAccept
  <2>2. /\ pc = "idle" /\ pc' = "accepting" /\ writes' = {[id |-> id, ttl |-> ttl]}
        /\ UNCHANGED <<now, capacity, disk, todo, lost, damaged>>
    BY <1>3 DEF BeginAccept
  <2>3. /\ entries' \in [DOMAIN entries' -> Entry]
        /\ DOMAIN entries' = (DOMAIN entries \ evicted) \cup {id}
        /\ DOMAIN entries' \subseteq Id
        /\ entries'[id].ttl = ttl
        /\ id \notin DOMAIN entries
        /\ evicted \subseteq DOMAIN entries
        /\ next_seq' \in 0..MaxSeq
        /\ shed' \in SUBSET Id
    BY <2>1, TakeFacts
  <2>4. [id |-> id, ttl |-> ttl] \in Offer
    BY DEF Offer
  <2>5. TypeOK'
    BY <2>1, <2>2, <2>3, <2>4 DEF Calls
  <2>6. \E w \in Offer : /\ writes' = {w}
                         /\ w.id \in DOMAIN entries'
                         /\ w.ttl = entries'[w.id].ttl
    <3> WITNESS [id |-> id, ttl |-> ttl] \in Offer
    <3> QED BY <2>2, <2>3
  <2>7. QED
    BY <2>1, <2>2, <2>3, <2>5, <2>6
<1>4. ASSUME NEW id \in Id, NEW ttl \in Ttl, RefuseAccept(id, ttl)
      PROVE  Control'
  BY <1>4 DEF RefuseAccept, TurnAway, call
<1>5. CASE Put
  <2>1. PICK w \in writes : /\ disk' = With(disk, w.id, w.ttl)
                            /\ owed' = owed \cup {w.id}
                            /\ lost' = lost \ {w.id}
    BY <1>5 DEF Put
  <2>2. w \in Offer /\ w.ttl \in Hops
    BY <1>5, <2>1 DEF Put, Entry
  <2>3. disk' \in [DOMAIN disk' -> Hops] /\ DOMAIN disk' \subseteq Id
    BY <2>1, <2>2 DEF With, Offer
  <2>4. QED
    BY <1>5, <2>1, <2>2, <2>3 DEF Put, memory, Calls, Offer
<1>6. CASE PutFails
  <2>1. Unfinished \subseteq Id
    BY DEF Unfinished, Offer
  <2>2. QED
    BY <1>6, <2>1 DEF PutFails, memory, Calls
<1>7. CASE BeginPurge
  <2> DEFINE gone == Expired(entries, now)
  <2>1. gone \subseteq DOMAIN entries
    BY DEF Expired
  <2>2. DOMAIN entries' = DOMAIN entries \ gone /\ entries' \in [DOMAIN entries' -> Entry]
    BY <1>7 DEF BeginPurge, Without, Restrict
  <2>3. QED
    BY <1>7, <2>1, <2>2 DEF BeginPurge, Calls
<1>8. ASSUME NEW id \in Id, Remove(id)
      PROVE  Control'
  <2>1. DOMAIN disk' = DOMAIN disk \ {id} /\ disk' \in [DOMAIN disk' -> Hops]
    BY <1>8 DEF Remove, Without, Restrict
  <2>2. QED
    BY <1>8, <2>1 DEF Remove, memory, history, Calls
<1>9. CASE RemoveFails
  <2>1. Unfinished \subseteq Id
    BY DEF Unfinished, Offer
  <2>2. QED
    BY <1>9, <2>1 DEF RemoveFails, memory, Calls
<1>10. ASSUME NEW cap \in Capacities, Open(cap)
       PROVE  Control'
  BY <1>10, SeqAssumption DEF Open, AllIds, NoEntries, history, Calls
<1>11. ASSUME NEW id \in Id, Reload(id)
       PROVE  Control'
  <2>1. /\ pc = "reloading" /\ id \in todo /\ removals = {} /\ todo' = todo \ {id}
        /\ UNCHANGED <<now, capacity, disk, pc, writes, lost, damaged>>
    BY <1>11 DEF Reload, Get
  <2>2. disk[id] \in Ttl
    BY <2>1, HopsAreTtl
  <2>3. ASSUME NEW evicted \in SUBSET Id,
               TakeIntoMemory(id, disk[id], evicted),
               removals' = evicted, owed' = owed \ evicted
        PROVE  Control'
    <3>1. /\ entries' \in [DOMAIN entries' -> Entry]
          /\ DOMAIN entries' = (DOMAIN entries \ evicted) \cup {id}
          /\ DOMAIN entries' \subseteq Id
          /\ id \notin DOMAIN entries
          /\ evicted \subseteq DOMAIN entries
          /\ next_seq' \in 0..MaxSeq
          /\ shed' \in SUBSET Id
      BY <2>2, <2>3, TakeFacts
    <3>2. QED
      BY <2>1, <2>3, <3>1
  <2>4. ASSUME TurnAway(id, disk[id]), removals' = {id}, owed' = owed \ {id}
        PROVE  Control'
    BY <2>1, <2>4 DEF TurnAway
  <2>5. QED
    BY <1>11, <2>3, <2>4 DEF Reload, Get
<1>12. ASSUME NEW id \in Id, DropUnreadable(id)
       PROVE  Control'
  <2>1. /\ disk' \in [DOMAIN disk' -> Hops]
        /\ DOMAIN disk \ {id} \subseteq DOMAIN disk'
        /\ DOMAIN disk' \subseteq DOMAIN disk
    BY <1>12 DEF DropUnreadable, Without, Restrict
  <2>2. QED
    BY <1>12, <2>1 DEF DropUnreadable, memory
<1>13. CASE OpenFails
  BY <1>13, SeqAssumption DEF OpenFails, ForgetMemory, NoEntries, Calls
<1>14. CASE FinishOpen
  BY <1>14 DEF FinishOpen, memory, history, Calls
<1>15. CASE Wipe
  <2>1. /\ DOMAIN disk' \subseteq Id /\ disk' \in [DOMAIN disk' -> Hops]
        /\ owed' \in SUBSET Id
    BY <1>15 DEF Wipe, NoDisk
  <2>2. /\ DOMAIN entries' = {} /\ entries' \in [DOMAIN entries' -> Entry]
        /\ next_seq' \in 0..MaxSeq
    BY <1>15, SeqAssumption DEF Wipe, ForgetMemory, NoEntries
  <2>3. QED
    BY <1>15, <2>1, <2>2 DEF Wipe, ForgetMemory, Calls
<1>16. CASE UNCHANGED vars
  BY <1>16 DEF vars, memory, call, history
<1>17. QED
  BY <1>1, <1>2, <1>3, <1>4, <1>5, <1>6, <1>7, <1>8, <1>9, <1>10, <1>11, <1>12,
     <1>13, <1>14, <1>15, <1>16 DEF Next

\* The outstanding durable steps always belong to the call under way.
LEMMA ControlHolds == Spec => []Control
  BY ControlInit, ControlNext, PTL DEF Spec

\* Type correctness: every variable of the store keeps its type; in particular no
\* held or stored envelope ever has a spent hop budget.
THEOREM TypeCorrect == Spec => []TypeOK
<1>1. Control => TypeOK
  BY DEF Control
<1>2. QED
  BY <1>1, ControlHolds, PTL

----
(***************************************************************************)
(* Ranked: the index is well formed, within its capacity, and holds the    *)
(* most urgent of what it was offered.                                     *)
(***************************************************************************)
Ranked ==
  /\ Index(entries, next_seq)
  /\ CapacityBound
  /\ MostUrgentKept

\* The five things a step can do to the in-memory index.
LEMMA MemoryStep ==
  ASSUME Control, [Next]_vars
  PROVE  \/ /\ entries' = NoEntries /\ next_seq' = 0 /\ shed' = {}
            /\ capacity' \in Capacities
         \/ /\ capacity' = capacity
            /\ \E id \in Id, ttl \in Ttl, evicted \in SUBSET Id :
                 TakeIntoMemory(id, ttl, evicted)
         \/ /\ capacity' = capacity
            /\ \E id \in Id, ttl \in Ttl : TurnAway(id, ttl)
         \/ /\ capacity' = capacity /\ next_seq' = next_seq /\ shed' = {}
            /\ entries' = Without(entries, Expired(entries, now))
         \/ UNCHANGED <<memory, shed>>
<1>1. CASE Crash \/ OpenFails \/ Wipe
  BY <1>1 DEF Crash, OpenFails, Wipe, ForgetMemory, Control, TypeOK
<1>2. ASSUME NEW cap \in Capacities, Open(cap)
      PROVE  /\ entries' = NoEntries /\ next_seq' = 0 /\ shed' = {}
             /\ capacity' \in Capacities
  BY <1>2 DEF Open, AllIds, history, Control
<1>3. ASSUME NEW id \in Id, NEW ttl \in Ttl, BeginAccept(id, ttl)
      PROVE  /\ capacity' = capacity
             /\ \E evicted \in SUBSET Id : TakeIntoMemory(id, ttl, evicted)
  BY <1>3 DEF BeginAccept
<1>4. ASSUME NEW id \in Id, NEW ttl \in Ttl, RefuseAccept(id, ttl)
      PROVE  capacity' = capacity /\ TurnAway(id, ttl)
  BY <1>4 DEF RefuseAccept
<1>5. ASSUME NEW id \in Id, Reload(id)
      PROVE  /\ capacity' = capacity
             /\ \E ttl \in Ttl : \/ \E evicted \in SUBSET Id : TakeIntoMemory(id, ttl, evicted)
                                 \/ TurnAway(id, ttl)
  <2>1. disk[id] \in Ttl
    BY <1>5, HopsAreTtl DEF Reload, Get, Control, TypeOK
  <2>2. QED
    BY <1>5, <2>1 DEF Reload, Get
<1>6. CASE BeginPurge
  BY <1>6 DEF BeginPurge
<1>7. CASE SetClock \/ Put \/ PutFails \/ RemoveFails \/ FinishOpen \/ UNCHANGED vars
  BY <1>7 DEF SetClock, Put, PutFails, RemoveFails, FinishOpen, vars, memory, history
<1>8. ASSUME NEW id \in Id, Remove(id) \/ DropUnreadable(id)
      PROVE  UNCHANGED <<memory, shed>>
  BY <1>8 DEF Remove, DropUnreadable, memory, history
<1>9. QED
  BY <1>1, <1>2, <1>3, <1>4, <1>5, <1>6, <1>7, <1>8 DEF Next

LEMMA EmptyRanked ==
  ASSUME NEW es, es = NoEntries
  PROVE  Index(es, 0) /\ DOMAIN es = {} /\ Cardinality(DOMAIN es) = 0
  BY FS_EmptySet DEF NoEntries, Index

LEMMA RankedInit == Init => Ranked
  BY EmptyRanked, CapacityAssumption DEF Init, Ranked, CapacityBound, MostUrgentKept

LEMMA RankedNext == Control /\ Ranked /\ [Next]_vars => Ranked'
<1> SUFFICES ASSUME Control, Ranked, [Next]_vars
             PROVE  Ranked'
  OBVIOUS
<1>0. capacity \in Nat
  BY CapacityAssumption DEF Control, TypeOK
<1>1. CASE /\ entries' = NoEntries /\ next_seq' = 0 /\ shed' = {}
           /\ capacity' \in Capacities
  BY <1>1, EmptyRanked, CapacityAssumption DEF Ranked, CapacityBound, MostUrgentKept
<1>2. ASSUME capacity' = capacity,
             NEW id \in Id, NEW ttl \in Ttl, NEW evicted \in SUBSET Id,
             TakeIntoMemory(id, ttl, evicted)
      PROVE  Ranked'
  <2>1. /\ Fresh(entries, id, ttl, now)
        /\ Admits(entries, capacity, id)
        /\ evicted = Evictable(entries, capacity, id)
        /\ entries' = Accepted(entries, next_seq, id, ttl, evicted)
        /\ next_seq' = next_seq + 1
        /\ shed' = shed \cup evicted
    BY <1>2 DEF TakeIntoMemory
  <2>2. id \notin DOMAIN entries /\ ttl \in Hops
    BY <1>2, TakeFacts
  <2>3. /\ Index(entries', next_seq')
        /\ DOMAIN entries' = (DOMAIN entries \ evicted) \cup {id}
        /\ Cardinality(DOMAIN entries') <= capacity
    <3>1. /\ Index(entries, next_seq) /\ Cardinality(DOMAIN entries) <= capacity
          /\ id \in Id \ DOMAIN entries
      BY <2>2 DEF Ranked, CapacityBound
    <3>2. Index(entries', next_seq + 1)
      BY <1>0, <2>1, <2>2, <3>1, AcceptedIndex
    <3>3. DOMAIN entries' = (DOMAIN entries \ evicted) \cup {id}
      BY <1>2, TakeFacts
    <3>4. Cardinality(DOMAIN entries') <= capacity
      BY <1>0, <2>1, <2>2, <3>1, AcceptedIndex
    <3>5. QED
      BY <2>1, <3>2, <3>3, <3>4
  <2>4. IsFiniteSet(DOMAIN entries) /\ Cardinality(DOMAIN entries) \in Nat
    BY IdAssumption, FS_Subset, FS_CardinalityType DEF Ranked, Index
  <2>5. \/ HasRoom(entries, capacity) /\ evicted = {}
        \/ \E w \in DOMAIN entries :
              /\ ~ HasRoom(entries, capacity)
              /\ evicted = {w}
              /\ PriorityOf[id] < PriorityOf[w]
              /\ \A held \in DOMAIN entries : PriorityOf[held] <= PriorityOf[w]
    BY <1>0, <2>1, EvictsAtMostOne DEF Ranked
  <2>6. CASE HasRoom(entries, capacity) /\ evicted = {}
    <3>1. shed = {}
      BY <1>0, <2>4, <2>6 DEF Ranked, MostUrgentKept, HasRoom
    <3>2. QED
      BY <1>2, <2>1, <2>3, <2>6, <3>1 DEF Ranked, CapacityBound, MostUrgentKept
  <2>7. ASSUME NEW w \in DOMAIN entries,
               ~ HasRoom(entries, capacity),
               evicted = {w},
               PriorityOf[id] < PriorityOf[w],
               \A held \in DOMAIN entries : PriorityOf[held] <= PriorityOf[w]
        PROVE  Ranked'
    <3>1. Cardinality(DOMAIN entries') = capacity
      <4>1. Cardinality(DOMAIN entries') = Cardinality(DOMAIN entries)
        BY <2>2, <2>3, <2>4, <2>7, SwapCardinality
      <4>2. QED
        BY <1>0, <2>4, <2>7, <4>1 DEF HasRoom, Ranked, CapacityBound
    <3>2. \A gone \in shed : PriorityOf[w] <= PriorityOf[gone] /\ gone \notin DOMAIN entries
      BY DEF Ranked, MostUrgentKept
    <3>3. \A x \in Id : PriorityOf[x] \in 0..3
      BY PriorityRange
    <3>4. \A gone \in shed : PriorityOf[id] < PriorityOf[gone]
      BY <2>7, <3>2, <3>3 DEF Control, TypeOK
    <3>5. shed' \cap DOMAIN entries' = {}
      BY <2>1, <2>2, <2>3, <2>7, <3>2, <3>3, <3>4
    <3>6. ASSUME NEW gone \in shed', NEW held \in DOMAIN entries'
          PROVE  PriorityOf[held] <= PriorityOf[gone]
      <4>1. PriorityOf[w] <= PriorityOf[gone]
        BY <2>1, <2>7, <3>2, <3>3 DEF Control, TypeOK
      <4>2. PriorityOf[held] <= PriorityOf[w]
        BY <2>3, <2>7, <3>3 DEF Control, TypeOK
      <4>3. QED
        BY <4>1, <4>2, <3>3, <2>1, <2>3, <2>7 DEF Control, TypeOK
    <3>7. QED
      BY <1>2, <2>3, <3>1, <3>5, <3>6 DEF Ranked, CapacityBound, MostUrgentKept
  <2>8. QED
    BY <2>5, <2>6, <2>7
<1>3. ASSUME capacity' = capacity, NEW id \in Id, NEW ttl \in Ttl, TurnAway(id, ttl)
      PROVE  Ranked'
  <2>1. UNCHANGED <<entries, next_seq>>
    BY <1>3 DEF TurnAway
  <2>2. CASE ~ Fresh(entries, id, ttl, now)
    <3>1. shed' = shed
      BY <1>3, <2>2 DEF TurnAway
    <3>2. QED
      BY <1>3, <2>1, <3>1 DEF Ranked, CapacityBound, MostUrgentKept
  <2>3. CASE Fresh(entries, id, ttl, now)
    <3>1. ~ Admits(entries, capacity, id) /\ shed' = shed \cup {id}
      BY <1>3, <2>3 DEF TurnAway
    <3>2. /\ Cardinality(DOMAIN entries) >= capacity
          /\ \A held \in DOMAIN entries : PriorityOf[held] <= PriorityOf[id]
      BY <1>0, <3>1, RefusedIsNoMoreUrgent DEF Ranked
    <3>3. Cardinality(DOMAIN entries) = capacity
      <4>1. Cardinality(DOMAIN entries) \in Nat
        BY IdAssumption, FS_Subset, FS_CardinalityType DEF Ranked, Index
      <4>2. QED
        BY <1>0, <3>2, <4>1 DEF Ranked, CapacityBound
    <3>4. id \notin DOMAIN entries
      BY <2>3 DEF Fresh
    <3>5. QED
      BY <1>3, <2>1, <3>1, <3>2, <3>3, <3>4 DEF Ranked, CapacityBound, MostUrgentKept
  <2>4. QED
    BY <2>2, <2>3
<1>4. CASE /\ capacity' = capacity /\ next_seq' = next_seq /\ shed' = {}
           /\ entries' = Without(entries, Expired(entries, now))
  <2>1. Index(entries', next_seq') /\ DOMAIN entries' \subseteq DOMAIN entries
    <3>1. Index(entries, next_seq)
      BY DEF Ranked
    <3>2. Index(Without(entries, Expired(entries, now)), next_seq)
      BY <3>1, WithoutIndex
    <3>3. QED
      BY <1>4, <3>2 DEF Without, Restrict
  <2>2. Cardinality(DOMAIN entries') <= capacity
    <3>1. IsFiniteSet(DOMAIN entries)
      BY IdAssumption, FS_Subset DEF Ranked, Index
    <3>2. /\ Cardinality(DOMAIN entries') <= Cardinality(DOMAIN entries)
          /\ Cardinality(DOMAIN entries') \in Nat /\ Cardinality(DOMAIN entries) \in Nat
      BY <2>1, <3>1, FS_Subset, FS_CardinalityType
    <3>3. QED
      BY <1>0, <3>2 DEF Ranked, CapacityBound
  <2>3. QED
    BY <1>4, <2>1, <2>2 DEF Ranked, CapacityBound, MostUrgentKept
<1>5. CASE UNCHANGED <<memory, shed>>
  BY <1>5 DEF memory, Ranked, CapacityBound, MostUrgentKept
<1>6. QED
  BY <1>1, <1>2, <1>3, <1>4, <1>5, MemoryStep

LEMMA RankedHolds == Spec => []Ranked
  BY RankedInit, RankedNext, ControlHolds, PTL DEF Spec

\* The index never outgrows its capacity, through reloads, crashes and failing
\* transactions, whatever the capacity.
THEOREM CapacityHolds == Spec => []CapacityBound
<1>1. Ranked => CapacityBound
  BY DEF Ranked
<1>2. QED
  BY <1>1, RankedHolds, PTL

\* Whatever the store refused or evicted for want of room since the last purge or
\* open is no more urgent than anything it holds; an SOS yields only to a store
\* full of SOS.
THEOREM MostUrgentHolds == Spec => []MostUrgentKept
<1>1. Ranked => MostUrgentKept
  BY DEF Ranked
<1>2. QED
  BY <1>1, RankedHolds, PTL

----
(***************************************************************************)
(* Mirrored: which envelopes are in the database while a call is under way *)
(* -- the held ones except the one still to be written, those still to be  *)
(* deleted, and those a reload has not looked at.                          *)
(***************************************************************************)
Mirrored ==
  pc # "closed" =>
    \A id \in Id \ damaged :
      /\ id \in DOMAIN disk <=> \/ id \in DOMAIN entries \ WriteIds
                                \/ id \in removals
                                \/ id \in todo
      /\ id \in DOMAIN entries \ WriteIds => disk[id] = entries[id].ttl

LEMMA MirroredInit == Init => Mirrored
  BY DEF Init, Mirrored

LEMMA MirroredNext == Control /\ Mirrored /\ [Next]_vars => Mirrored'
<1> SUFFICES ASSUME Control, Mirrored, [Next]_vars
             PROVE  Mirrored'
  OBVIOUS
<1> USE DEF Mirrored, WriteIds
<1>1. CASE Crash \/ OpenFails \/ Wipe
  BY <1>1 DEF Crash, OpenFails, Wipe, ForgetMemory
<1>2. CASE SetClock \/ UNCHANGED vars
  BY <1>2 DEF SetClock, vars, memory, call, history
<1>3. ASSUME NEW id \in Id, NEW ttl \in Ttl, BeginAccept(id, ttl)
      PROVE  Mirrored'
  <2>1. PICK evicted \in SUBSET Id : TakeIntoMemory(id, ttl, evicted) /\ removals' = evicted
    BY <1>3 DEF BeginAccept
  <2>2. /\ DOMAIN entries' = (DOMAIN entries \ evicted) \cup {id}
        /\ \A x \in (DOMAIN entries \ evicted) \ {id} : entries'[x] = entries[x]
        /\ id \notin DOMAIN entries
        /\ evicted \subseteq DOMAIN entries
    BY <2>1, TakeFacts
  <2>3. /\ pc = "idle" /\ writes' = {[id |-> id, ttl |-> ttl]}
        /\ UNCHANGED <<disk, todo, damaged>>
    BY <1>3 DEF BeginAccept
  <2>4. writes = {} /\ removals = {} /\ todo = {}
    BY <2>3 DEF Control
  <2>5. WriteIds' = {id}
    BY <2>3
  <2>6. QED
    BY <2>1, <2>2, <2>3, <2>4, <2>5
<1>4. ASSUME NEW id \in Id, NEW ttl \in Ttl, RefuseAccept(id, ttl)
      PROVE  Mirrored'
  BY <1>4 DEF RefuseAccept, TurnAway, call
<1>5. CASE Put
  <2>1. PICK w \in writes : disk' = With(disk, w.id, w.ttl)
    BY <1>5 DEF Put
  <2>2. /\ writes = {w} /\ w.id \in DOMAIN entries /\ w.ttl = entries[w.id].ttl
        /\ pc = "accepting" /\ removals = {} /\ writes' = {} /\ todo = {}
        /\ UNCHANGED <<entries, removals, todo, damaged>>
    BY <1>5, <2>1 DEF Put, Control, memory
  <2>3. /\ DOMAIN disk' = DOMAIN disk \cup {w.id}
        /\ disk'[w.id] = w.ttl
        /\ \A x \in DOMAIN disk \ {w.id} : disk'[x] = disk[x]
    BY <2>1 DEF With
  <2>4. WriteIds = {w.id} /\ WriteIds' = {}
    BY <2>2
  <2>5. QED
    BY <2>2, <2>3, <2>4
<1>6. CASE PutFails \/ RemoveFails
  <2>1. /\ damaged' = damaged \cup removals \cup WriteIds
        /\ UNCHANGED <<disk, entries, todo>> /\ removals' = {} /\ writes' = {}
        /\ pc # "closed"
    BY <1>6 DEF PutFails, RemoveFails, Unfinished, memory
  <2>2. WriteIds' = {}
    BY <2>1
  <2> HIDE DEF WriteIds
  <2>3. QED
    BY <2>1, <2>2
<1>7. CASE BeginPurge
  <2>1. /\ DOMAIN entries' = DOMAIN entries \ removals'
        /\ removals' = Expired(entries, now)
        /\ \A x \in DOMAIN entries' : entries'[x] = entries[x]
        /\ pc = "idle" /\ UNCHANGED <<disk, writes, todo, damaged>>
    BY <1>7 DEF BeginPurge, Without, Restrict
  <2>2. removals' \subseteq DOMAIN entries
    BY <2>1 DEF Expired
  <2>3. writes = {} /\ removals = {} /\ todo = {}
    BY <2>1 DEF Control
  <2>4. QED
    BY <2>1, <2>2, <2>3
<1>8. ASSUME NEW id \in Id, Remove(id)
      PROVE  Mirrored'
  <2>1. /\ DOMAIN disk' = DOMAIN disk \ {id}
        /\ \A x \in DOMAIN disk' : disk'[x] = disk[x]
        /\ id \in removals /\ removals' = removals \ {id}
        /\ UNCHANGED <<entries, writes, todo, damaged>>
        /\ pc # "closed"
    BY <1>8 DEF Remove, Without, Restrict, memory, history, Control
  <2>2. id \notin DOMAIN entries /\ id \notin todo
    BY <2>1 DEF Control
  <2>3. WriteIds' = WriteIds
    BY <2>1
  <2>4. DOMAIN entries \subseteq Id
    BY DEF Control, TypeOK
  <2> HIDE DEF WriteIds
  <2>5. QED
    BY <2>1, <2>2, <2>3, <2>4
<1>9. ASSUME NEW cap \in Capacities, Open(cap)
      PROVE  Mirrored'
  BY <1>9 DEF Open, AllIds, NoEntries, history, Control
<1>10. ASSUME NEW id \in Id, Reload(id)
       PROVE  Mirrored'
  <2>1. /\ pc = "reloading" /\ id \in todo /\ removals = {} /\ todo' = todo \ {id}
        /\ UNCHANGED <<disk, pc, writes, damaged>>
    BY <1>10 DEF Reload, Get
  <2>2. writes = {} /\ WriteIds = {} /\ WriteIds' = {}
    BY <2>1 DEF Control
  <2>3. disk[id] \in Ttl /\ id \in DOMAIN disk /\ id \notin DOMAIN entries
    BY <2>1, HopsAreTtl DEF Control, TypeOK
  <2>4. ASSUME NEW evicted \in SUBSET Id,
               TakeIntoMemory(id, disk[id], evicted), removals' = evicted
        PROVE  Mirrored'
    <3>1. /\ DOMAIN entries' = (DOMAIN entries \ evicted) \cup {id}
          /\ entries'[id].ttl = disk[id]
          /\ \A x \in (DOMAIN entries \ evicted) \ {id} : entries'[x] = entries[x]
          /\ evicted \subseteq DOMAIN entries
      BY <2>3, <2>4, TakeFacts
    <3> HIDE DEF WriteIds
    <3>2. QED
      BY <2>1, <2>2, <2>3, <2>4, <3>1
  <2>5. ASSUME TurnAway(id, disk[id]), removals' = {id}
        PROVE  Mirrored'
    BY <2>1, <2>2, <2>3, <2>5 DEF TurnAway
  <2>6. QED
    BY <1>10, <2>4, <2>5 DEF Reload, Get
<1>11. ASSUME NEW id \in Id, DropUnreadable(id)
       PROVE  Mirrored'
  <2>1. /\ pc = "reloading" /\ pc' = pc /\ id \in todo /\ removals = {} /\ todo' = todo \ {id}
        /\ UNCHANGED <<entries, writes, removals>>
        /\ \/ damaged' = damaged /\ disk' = Without(disk, {id})
           \/ damaged' = damaged \cup {id} /\ disk' = disk
    BY <1>11 DEF DropUnreadable, memory
  <2>2. writes = {} /\ id \notin DOMAIN entries
    BY <2>1 DEF Control
  <2>3. QED
    BY <2>1, <2>2 DEF Without, Restrict
<1>12. CASE FinishOpen
  BY <1>12 DEF FinishOpen, memory, history
<1>13. QED
  BY <1>1, <1>2, <1>3, <1>4, <1>5, <1>6, <1>7, <1>8, <1>9, <1>10, <1>11, <1>12 DEF Next

LEMMA MirroredHolds == Spec => []Mirrored
  BY MirroredInit, MirroredNext, ControlHolds, PTL DEF Spec

\* Between calls the database and the index agree on every envelope that no failed
\* transaction of this incarnation was about.
THEOREM MirrorHolds == Spec => []Mirror
<1>1. Control /\ Mirrored => Mirror
  BY DEF Control, Mirrored, Mirror, WriteIds
<1>2. QED
  BY <1>1, ControlHolds, MirroredHolds, PTL

----
(***************************************************************************)
(* Durable: no delete is outstanding for an acknowledged envelope, and     *)
(* every acknowledged one is in the database.                              *)
(***************************************************************************)
Durable ==
  /\ owed \cap removals = {}
  /\ AckedDurable

LEMMA DurableInit == Init => Durable
  BY DEF Init, Durable, AckedDurable

LEMMA DurableNext == Control /\ Durable /\ [Next]_vars => Durable'
<1> SUFFICES ASSUME Control, Durable, [Next]_vars
             PROVE  Durable'
  OBVIOUS
<1> USE DEF Durable, AckedDurable
<1>1. CASE Crash \/ OpenFails
  BY <1>1 DEF Crash, OpenFails, ForgetMemory
<1>2. CASE SetClock \/ UNCHANGED vars
  BY <1>2 DEF SetClock, vars, call, history
<1>3. ASSUME NEW id \in Id, NEW ttl \in Ttl, BeginAccept(id, ttl) \/ RefuseAccept(id, ttl)
      PROVE  Durable'
  BY <1>3 DEF BeginAccept, RefuseAccept, call
<1>4. CASE Put
  BY <1>4 DEF Put, With
<1>5. CASE PutFails \/ RemoveFails \/ BeginPurge
  BY <1>5 DEF PutFails, RemoveFails, BeginPurge
<1>6. ASSUME NEW id \in Id, Remove(id)
      PROVE  Durable'
  BY <1>6 DEF Remove, history, Without, Restrict
<1>7. ASSUME NEW cap \in Capacities, Open(cap)
      PROVE  Durable'
  BY <1>7 DEF Open, AllIds, history
<1>8. ASSUME NEW id \in Id, Reload(id)
      PROVE  Durable'
  BY <1>8 DEF Reload, Get
<1>9. ASSUME NEW id \in Id, DropUnreadable(id)
      PROVE  Durable'
  BY <1>9 DEF DropUnreadable, Without, Restrict
<1>10. CASE FinishOpen
  BY <1>10 DEF FinishOpen, history
<1>11. CASE Wipe
  BY <1>11 DEF Wipe, ForgetMemory
<1>12. QED
  BY <1>1, <1>2, <1>3, <1>4, <1>5, <1>6, <1>7, <1>8, <1>9, <1>10, <1>11 DEF Next

\* An acknowledged envelope stays in the database, at every step of every call and
\* across crashes, until it is evicted, expires or is wiped, or a reload cannot
\* read it.
THEOREM AckedDurableHolds == Spec => []AckedDurable
<1>1. Durable => AckedDurable
  BY DEF Durable
<1>2. QED
  BY <1>1, DurableInit, DurableNext, ControlHolds, PTL DEF Spec

----
\* A running store never gives up a live SOS envelope.
THEOREM SosHolds == Spec => SosNeverEvicted
<1> DEFINE SosStep == \A id \in DOMAIN entries \ DOMAIN entries' :
                        PriorityOf[id] = Sos => IsExpired(id, now) \/ pc' = "closed"
<1>1. Control /\ [Next]_vars => [SosStep]_vars
  <2> SUFFICES ASSUME Control, [Next]_vars
               PROVE  SosStep
    OBVIOUS
  <2>1. ASSUME NEW id \in Id, NEW ttl \in Ttl, NEW evicted \in SUBSET Id,
               TakeIntoMemory(id, ttl, evicted)
        PROVE  SosStep
    <3>1. DOMAIN entries' = (DOMAIN entries \ evicted) \cup {id}
      BY <2>1, TakeFacts
    <3>2. \A w \in evicted : w \in DOMAIN entries /\ PriorityOf[id] < PriorityOf[w]
      BY <2>1 DEF TakeIntoMemory, Evictable, Displaces
    <3>3. \A w \in evicted : PriorityOf[w] # Sos
      BY <3>2, PriorityRange DEF Sos, Control, TypeOK
    <3>4. QED
      BY <3>1, <3>3
  <2>2. CASE entries' = Without(entries, Expired(entries, now))
    BY <2>2 DEF Without, Restrict, Expired
  <2>3. CASE entries' = entries
    BY <2>3
  <2>4. CASE Crash \/ OpenFails \/ Wipe
    BY <2>4 DEF Crash, OpenFails, Wipe, ForgetMemory
  <2>5. ASSUME NEW cap \in Capacities, Open(cap)
        PROVE  SosStep
    BY <2>5 DEF Open, AllIds, Control, NoEntries
  <2>6. ASSUME NEW id \in Id, NEW ttl \in Ttl, BeginAccept(id, ttl)
        PROVE  SosStep
    BY <2>1, <2>6 DEF BeginAccept
  <2>7. ASSUME NEW id \in Id, Reload(id)
        PROVE  SosStep
    <3>1. disk[id] \in Ttl
      BY <2>7, HopsAreTtl DEF Reload, Get, Control, TypeOK
    <3>2. QED
      BY <2>1, <2>3, <2>7, <3>1 DEF Reload, Get, TurnAway
  <2>8. CASE BeginPurge
    BY <2>2, <2>8 DEF BeginPurge
  <2>9. ASSUME NEW id \in Id, NEW ttl \in Ttl,
               RefuseAccept(id, ttl) \/ Remove(id) \/ DropUnreadable(id)
        PROVE  entries' = entries
    BY <2>9 DEF RefuseAccept, TurnAway, Remove, DropUnreadable, memory
  <2>10. CASE SetClock \/ Put \/ PutFails \/ RemoveFails \/ FinishOpen \/ UNCHANGED vars
    BY <2>3, <2>10 DEF SetClock, Put, PutFails, RemoveFails, FinishOpen, vars, memory
  <2>11. \E ttl : ttl \in Ttl
    BY TtlAssumption DEF Ttl
  <2>12. QED
    BY <2>3, <2>4, <2>5, <2>6, <2>7, <2>8, <2>9, <2>10, <2>11 DEF Next
<1>2. QED
  BY <1>1, ControlHolds, PTL DEF Spec, SosNeverEvicted

----
(***************************************************************************)
(* Reasoned: what a call still has to write or delete is still due, as the *)
(* clock is read once per call, and the index a reload builds is live.     *)
(***************************************************************************)
Reasoned ==
  /\ \A w \in writes : ~ IsExpired(w.id, now)
  /\ \A id \in removals : IsExpired(id, now) \/ id \in shed
  /\ pc = "reloading" => \A id \in DOMAIN entries : ~ IsExpired(id, now)

LEMMA ReasonedInit == Init => Reasoned
  BY DEF Init, Reasoned

LEMMA ReasonedNext == Control /\ Reasoned /\ [Next]_vars => Reasoned'
<1> SUFFICES ASSUME Control, Reasoned, [Next]_vars
             PROVE  Reasoned'
  OBVIOUS
<1>1. CASE Crash \/ OpenFails \/ Wipe
  BY <1>1 DEF Crash, OpenFails, Wipe, ForgetMemory, Reasoned
<1>2. CASE SetClock
  BY <1>2 DEF SetClock, Control, Reasoned, memory, call, history
<1>3. ASSUME NEW id \in Id, NEW ttl \in Ttl, BeginAccept(id, ttl)
      PROVE  Reasoned'
  BY <1>3 DEF BeginAccept, TakeIntoMemory, Fresh, Reasoned
<1>4. ASSUME NEW id \in Id, NEW ttl \in Ttl, RefuseAccept(id, ttl)
      PROVE  Reasoned'
  BY <1>4 DEF RefuseAccept, TurnAway, call, Control, Reasoned
<1>5. CASE Put \/ PutFails \/ RemoveFails \/ FinishOpen \/ UNCHANGED vars
  BY <1>5 DEF Put, PutFails, RemoveFails, FinishOpen, vars, memory, call, history, Control,
     Reasoned
<1>6. CASE BeginPurge
  BY <1>6 DEF BeginPurge, Expired, Control, Reasoned
<1>7. ASSUME NEW id \in Id, Remove(id)
      PROVE  Reasoned'
  BY <1>7 DEF Remove, memory, history, Reasoned
<1>8. ASSUME NEW cap \in Capacities, Open(cap)
      PROVE  Reasoned'
  BY <1>8 DEF Open, NoEntries, history, Control, Reasoned
<1>9. ASSUME NEW id \in Id, Reload(id)
      PROVE  Reasoned'
  <2>1. disk[id] \in Ttl /\ disk[id] # 0 /\ id \notin DOMAIN entries
    BY <1>9, HopsAreTtl DEF Reload, Get, Control, TypeOK, Hops
  <2>2. /\ pc = "reloading" /\ removals = {} /\ writes = {}
        /\ UNCHANGED <<now, pc, writes>>
    BY <1>9 DEF Reload, Control
  <2>3. ASSUME NEW evicted \in SUBSET Id, TakeIntoMemory(id, disk[id], evicted),
               removals' = evicted
        PROVE  Reasoned'
    <3>1. DOMAIN entries' = (DOMAIN entries \ evicted) \cup {id} /\ evicted \subseteq shed'
      BY <2>1, <2>3, TakeFacts DEF TakeIntoMemory
    <3>2. ~ IsExpired(id, now)
      BY <2>3 DEF TakeIntoMemory, Fresh
    <3>3. QED
      BY <2>2, <2>3, <3>1, <3>2 DEF Reasoned, IsExpired
  <2>4. ASSUME TurnAway(id, disk[id]), removals' = {id}
        PROVE  Reasoned'
    BY <2>1, <2>2, <2>4 DEF TurnAway, Fresh, Reasoned, IsExpired
  <2>5. QED
    BY <1>9, <2>3, <2>4 DEF Reload, Get
<1>10. ASSUME NEW id \in Id, DropUnreadable(id)
       PROVE  Reasoned'
  BY <1>10 DEF DropUnreadable, memory, Reasoned
<1>11. QED
  BY <1>1, <1>2, <1>3, <1>4, <1>5, <1>6, <1>7, <1>8, <1>9, <1>10 DEF Next

LEMMA ReasonedHolds == Spec => []Reasoned
  BY ReasonedInit, ReasonedNext, ControlHolds, PTL DEF Spec

\* The instance counts and cuts as the module does.
LEMMA StoreCounts == \A S : Store!Cardinality(S) = Cardinality(S)
  BY DEF Store!Cardinality, Cardinality, Store!IsFiniteSet, IsFiniteSet

LEMMA StoreCuts == \A f, S : Store!Without(f, S) = Without(f, S)
  BY DEF Store!Without, Without, Store!Restrict, Restrict

\* Every held envelope but one being written is stored, or a transaction on it failed.
LEMMA HeldIsStored ==
  ASSUME Control, Mirrored, pc # "closed"
  PROVE  DOMAIN entries \ WriteIds \subseteq DOMAIN disk \cup damaged
  BY DEF Control, TypeOK, Mirrored

\* An envelope that is deleted for want of room leaves as many as urgent behind.
LEMMA ShedHasNoRoom ==
  ASSUME Control, Ranked, Mirrored, NEW id \in removals, id \in shed
  PROVE  Store!NoRoomFor(id)
<1> DEFINE rest == DOMAIN entries \ WriteIds
           urgent == Store!Urgent((DOMAIN disk \cup damaged) \ {id}, id)
<1>1. /\ Cardinality(DOMAIN entries) = capacity
      /\ \A held \in DOMAIN entries : PriorityOf[held] <= PriorityOf[id]
      /\ id \notin DOMAIN entries
  BY DEF Ranked, MostUrgentKept
<1>2. pc # "closed"
  BY DEF Control
<1>3. rest \subseteq urgent
  BY <1>1, <1>2, HeldIsStored DEF Store!Urgent
<1>4. IsFiniteSet(DOMAIN entries) /\ IsFiniteSet(urgent)
  <2>1. DOMAIN entries \subseteq Id /\ urgent \subseteq Id
    BY DEF Control, TypeOK, Store!Urgent
  <2> HIDE DEF urgent
  <2>2. QED
    BY <2>1, IdAssumption, FS_Subset
<1>5. IsFiniteSet(rest) /\ Cardinality(rest) + 1 >= capacity
  <2>1. CASE writes = {}
    <3>1. rest = DOMAIN entries
      BY <2>1 DEF WriteIds
    <3>2. Cardinality(DOMAIN entries) \in Nat
      BY <1>4, FS_CardinalityType
    <3>3. QED
      BY <1>1, <1>4, <3>1, <3>2
  <2>2. ASSUME NEW w \in Offer, writes = {w}, w.id \in DOMAIN entries
        PROVE  IsFiniteSet(rest) /\ Cardinality(rest) + 1 >= capacity
    <3>1. rest = DOMAIN entries \ {w.id}
      BY <2>2 DEF WriteIds
    <3>2. /\ IsFiniteSet(DOMAIN entries \ {w.id})
          /\ Cardinality(DOMAIN entries \ {w.id}) = Cardinality(DOMAIN entries) - 1
      BY <1>4, <2>2, FS_RemoveElement
    <3>3. Cardinality(DOMAIN entries) \in Nat
      BY <1>4, FS_CardinalityType
    <3> HIDE DEF rest
    <3>4. IsFiniteSet(rest) /\ Cardinality(rest) = Cardinality(DOMAIN entries) - 1
      BY <3>1, <3>2
    <3>5. Cardinality(DOMAIN entries) = capacity
      BY <1>1
    <3>6. QED
      BY <3>3, <3>4, <3>5
  <2>3. writes = {} \/ \E w \in Offer : writes = {w} /\ w.id \in DOMAIN entries
    BY DEF Control
  <2> HIDE DEF rest
  <2>4. QED
    BY <2>1, <2>2, <2>3
<1>6. /\ Cardinality(rest) <= Cardinality(urgent)
      /\ Cardinality(rest) \in Nat /\ Cardinality(urgent) \in Nat
  <2> HIDE DEF rest, urgent
  <2>1. QED
    BY <1>3, <1>4, <1>5, FS_Subset, FS_CardinalityType
<1>7. capacity \in Nat
  BY CapacityAssumption DEF Control, TypeOK
<1>8. Cardinality(urgent) + 1 >= capacity
  <2> HIDE DEF rest, urgent
  <2>1. QED
    BY <1>5, <1>6, <1>7
<1>9. QED
  BY <1>8, StoreCounts DEF Store!NoRoomFor

LEMMA RemovalHasReason ==
  ASSUME Control, Ranked, Mirrored, Reasoned, NEW id \in removals
  PROVE  Store!MayGiveUp(id)
<1>1. CASE IsExpired(id, now)
  BY <1>1 DEF IsExpired, Store!MayGiveUp, Store!IsExpired
<1>2. CASE id \in shed
  BY <1>2, ShedHasNoRoom DEF Store!MayGiveUp
<1>3. QED
  BY <1>1, <1>2 DEF Reasoned

\* The envelope being written is live, and new to the database.
LEMMA WriteIsNew ==
  ASSUME Control, Mirrored, Reasoned, NEW w \in writes
  PROVE  Store!IsNew(w.id)
<1>1. ~ IsExpired(w.id, now)
  BY DEF Reasoned
<1>2. pc = "accepting" /\ w.id \in DOMAIN entries /\ w.id \in Id /\ w.id \in WriteIds
  BY DEF Control, Offer, WriteIds
<1>3. w.id \notin removals /\ w.id \notin todo
  BY <1>2 DEF Control
<1>4. w.id \in DOMAIN disk => w.id \in damaged
  BY <1>2, <1>3 DEF Mirrored
<1>5. QED
  BY <1>1, <1>4 DEF IsExpired, Store!IsNew, Store!IsExpired

\* Once the evicted envelope is deleted, it fits.
LEMMA WriteFits ==
  ASSUME Control, Ranked, Mirrored, removals = {}, NEW w \in writes
  PROVE  Store!Fits(w.id)
<1> DEFINE others == DOMAIN disk \ (damaged \cup {w.id})
           rest == DOMAIN entries \ {w.id}
<1>1. pc = "accepting" /\ w.id \in DOMAIN entries /\ todo = {}
  BY DEF Control
<1>2. others \subseteq rest
  BY <1>1 DEF Mirrored, Control, TypeOK
<1>3. IsFiniteSet(DOMAIN entries)
  BY IdAssumption, FS_Subset DEF Control, TypeOK
<1>4. /\ IsFiniteSet(rest) /\ Cardinality(rest) = Cardinality(DOMAIN entries) - 1
      /\ Cardinality(DOMAIN entries) \in Nat
  BY <1>1, <1>3, FS_RemoveElement, FS_CardinalityType
<1>5. Cardinality(others) <= Cardinality(rest) /\ Cardinality(others) \in Nat
  <2> HIDE DEF others, rest
  <2>1. QED
    BY <1>2, <1>4, FS_Subset, FS_CardinalityType
<1>6. Cardinality(DOMAIN entries) <= capacity /\ capacity \in Nat
  BY CapacityAssumption DEF Ranked, CapacityBound, Control, TypeOK
<1>7. Cardinality(others) < capacity
  <2> HIDE DEF others, rest
  <2>1. QED
    BY <1>4, <1>5, <1>6
<1>8. QED
  BY <1>7, StoreCounts DEF Store!Fits

Served == pc \in {"idle", "accepting", "purging"}

CustodyVars == <<now, disk, capacity, Served, damaged>>

\* A call that fails names what it had a reason to write or delete.
LEMMA FailureHasReason ==
  ASSUME Control, Ranked, Mirrored, Reasoned, PutFails \/ RemoveFails
  PROVE  Store!Fail(Unfinished)
<1>1. \A id \in Unfinished : Store!MayGiveUp(id) \/ Store!IsNew(id)
  BY RemovalHasReason, WriteIsNew DEF Unfinished
<1>2. /\ DiskFaults /\ damaged' = damaged \cup Unfinished
      /\ pc \in {"accepting", "purging"} /\ pc' = "idle"
      /\ UNCHANGED <<now, disk, capacity>>
  BY DEF PutFails, RemoveFails, memory
<1>3. QED
  BY <1>1, <1>2 DEF Store!Fail

\* A reload that ends has left what is live and fits.
LEMMA ReloadServes ==
  ASSUME Control, Ranked, Mirrored, Reasoned, FinishOpen
  PROVE  Store!Serve
<1>1. /\ pc = "reloading" /\ todo = {} /\ removals = {} /\ pc' = "idle"
      /\ UNCHANGED <<now, capacity, disk, damaged>>
  BY DEF FinishOpen, memory, history
<1>2. writes = {} /\ WriteIds = {}
  BY <1>1 DEF Control, WriteIds
<1>3. DOMAIN disk \ damaged \subseteq DOMAIN entries
  BY <1>1, <1>2 DEF Mirrored, Control, TypeOK
<1>4. \A id \in DOMAIN disk \ damaged : ~ Store!IsExpired(id, now)
  BY <1>1, <1>3 DEF Reasoned, IsExpired, Store!IsExpired
<1>5. Cardinality(DOMAIN disk \ damaged) <= capacity
  <2> DEFINE kept == DOMAIN disk \ damaged
  <2>1. IsFiniteSet(DOMAIN entries)
    BY IdAssumption, FS_Subset DEF Control, TypeOK
  <2>2. Cardinality(DOMAIN entries) <= capacity /\ capacity \in Nat
    BY CapacityAssumption DEF Ranked, CapacityBound, Control, TypeOK
  <2>3. kept \subseteq DOMAIN entries
    BY <1>3
  <2> HIDE DEF kept
  <2>4. Cardinality(kept) <= Cardinality(DOMAIN entries)
        /\ Cardinality(kept) \in Nat /\ Cardinality(DOMAIN entries) \in Nat
    BY <2>1, <2>3, FS_Subset, FS_CardinalityType
  <2>5. Cardinality(kept) <= capacity
    BY <2>2, <2>4
  <2>6. QED
    BY <2>5 DEF kept
<1>6. QED
  BY <1>1, <1>4, <1>5, StoreCounts DEF Store!Serve

LEMMA CustodyStep ==
  ASSUME Control, Ranked, Mirrored, Reasoned, [Next]_vars
  PROVE  [Store!CustodyNext]_CustodyVars
<1> USE DEF CustodyVars, Served
<1>1. CASE Crash \/ OpenFails
  <2>1. Store!Close
    BY <1>1 DEF Crash, OpenFails, ForgetMemory, Store!Close
  <2>2. QED
    BY <2>1 DEF Store!CustodyNext
<1>2. CASE SetClock
  <2>1. Store!SetClock
    BY <1>2 DEF SetClock, memory, call, history, Store!SetClock
  <2>2. QED
    BY <2>1 DEF Store!CustodyNext
<1>3. ASSUME NEW id \in Id, NEW ttl \in Ttl, BeginAccept(id, ttl) \/ RefuseAccept(id, ttl)
      PROVE  UNCHANGED CustodyVars
  BY <1>3 DEF BeginAccept, RefuseAccept, call
<1>4. CASE Put
  <2>1. PICK w \in writes : disk' = With(disk, w.id, w.ttl)
    BY <1>4 DEF Put
  <2>2. /\ pc = "accepting" /\ pc' = "idle" /\ removals = {}
        /\ UNCHANGED <<now, capacity, damaged>>
    BY <1>4 DEF Put, memory
  <2>3. w.id \in Id /\ w.ttl \in Hops
    BY <2>2 DEF Control, TypeOK, Offer, Entry
  <2>4. Store!Keep(w.id, w.ttl)
    BY <2>1, <2>2, WriteIsNew, WriteFits DEF Store!Keep, Store!With, With
  <2>5. QED
    BY <2>3, <2>4 DEF Store!CustodyNext, Store!Hops, Hops
<1>5. CASE PutFails \/ RemoveFails
  <2>1. Unfinished \in SUBSET Id
    BY DEF Unfinished, Control, TypeOK, Offer
  <2>2. QED
    BY <1>5, <2>1, FailureHasReason DEF Store!CustodyNext
<1>6. CASE BeginPurge
  BY <1>6 DEF BeginPurge
<1>7. ASSUME NEW id \in Id, Remove(id)
      PROVE  Store!CustodyNext
  <2>1. /\ id \in removals /\ disk' = Without(disk, {id})
        /\ UNCHANGED <<now, capacity, damaged>>
    BY <1>7 DEF Remove, memory, history
  <2>2. Served' = Served
    BY <1>7 DEF Remove
  <2>3. Store!GiveUp(id)
    BY <2>1, <2>2, RemovalHasReason, StoreCuts DEF Store!GiveUp
  <2>4. QED
    BY <2>3 DEF Store!CustodyNext
<1>8. ASSUME NEW cap \in Capacities, Open(cap)
      PROVE  Store!CustodyNext
  <2>1. Store!Open(cap)
    BY <1>8 DEF Open, history, Store!Open
  <2>2. QED
    BY <2>1 DEF Store!CustodyNext
<1>9. ASSUME NEW id \in Id, Reload(id)
      PROVE  UNCHANGED CustodyVars
  BY <1>9 DEF Reload
<1>10. ASSUME NEW id \in Id, DropUnreadable(id)
       PROVE  Store!CustodyNext
  <2>1. DiskFaults /\ pc = "reloading" /\ UNCHANGED <<now, capacity, pc>>
    BY <1>10 DEF DropUnreadable, memory
  <2>2. CASE disk' = Without(disk, {id}) /\ damaged' = damaged
    <3>1. Store!Rot(id)
      BY <2>1, <2>2, StoreCuts DEF Store!Rot
    <3>2. QED
      BY <3>1 DEF Store!CustodyNext
  <2>3. CASE disk' = disk /\ damaged' = damaged \cup {id}
    <3>1. Store!Fail({id})
      BY <2>1, <2>3 DEF Store!Fail
    <3>2. QED
      BY <3>1 DEF Store!CustodyNext
  <2>4. QED
    BY <1>10, <2>2, <2>3 DEF DropUnreadable
<1>11. CASE FinishOpen
  BY <1>11, ReloadServes DEF Store!CustodyNext
<1>12. CASE Wipe
  <2>1. Store!Wipe \/ Store!Close
    BY <1>12 DEF Wipe, ForgetMemory, NoDisk, Store!Wipe, Store!Close
  <2>2. QED
    BY <2>1 DEF Store!CustodyNext
<1>13. CASE UNCHANGED vars
  BY <1>13 DEF vars, memory, call, history
<1>14. QED
  BY <1>1, <1>2, <1>3, <1>4, <1>5, <1>6, <1>7, <1>8, <1>9, <1>10, <1>11, <1>12, <1>13 DEF Next

\* Every transaction of the database has its reason, in every run of calls, crashes and
\* failures: calls cut at any transaction implement a database of single steps on which
\* a crash leaves no mark.
THEOREM KeepsCustodyHolds == Spec => KeepsCustody
<1>1. Init => Store!CustodyInit
  BY DEF Init, NoDisk, Store!CustodyInit
<1>2. /\ Control /\ Ranked /\ Mirrored /\ Reasoned /\ [Next]_vars
      => [Store!CustodyNext]_CustodyVars
  BY CustodyStep
<1>3. QED
  BY <1>1, <1>2, ControlHolds, RankedHolds, MirroredHolds, ReasonedHolds, PTL
  DEF Spec, KeepsCustody, Store!CustodySpec, CustodyVars, Served
====
