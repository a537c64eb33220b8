---- MODULE DurableStore ----
(***************************************************************************)
(* core/src/durable.rs: the in-memory envelope index (EnvelopeStore)       *)
(* mirrored to an encrypted database (core/src/persistence.rs).            *)
(*                                                                         *)
(* Each write to the database is a transaction of its own, so an `accept`  *)
(* that evicts, a `purge_expired` and the reload in `open` are several     *)
(* durable steps.  Between two of them the process may die, and each of    *)
(* them may fail: the `?` then abandons the rest of the call while the     *)
(* in-memory index keeps the decision it has already taken.                *)
(*                                                                         *)
(* The database is external (redb, and the AEAD over it): a transaction    *)
(* happens entirely or not at all.                                         *)
(***************************************************************************)
EXTENDS EnvelopeStore

CONSTANTS
  Time,        \* the clock readings callers pass as `now`
  Capacities,  \* the capacities the store may be opened with
  MaxSeq,      \* bound on the insertions of one incarnation
  DiskFaults   \* whether a database transaction may fail

ASSUME TimeAssumption     == Time \subseteq Nat
ASSUME CapacityAssumption == Capacities \subseteq Nat /\ Capacities # {}
ASSUME SeqAssumption      == MaxSeq \in Nat
ASSUME FaultAssumption    == DiskFaults \in BOOLEAN

VARIABLES
  now,       \* the clock the next call reads
  capacity,  \* memory: the capacity this incarnation was opened with
  entries,   \* memory: the held envelopes
  next_seq,  \* memory: insertion counter
  disk,      \* the database: hop budget of each stored envelope
  pc,        \* which call is between two durable steps
  writes,    \* the envelope the `accept` under way still has to write
  removals,  \* ids the call under way still has to delete from the database
  todo       \* ids the reload under way has not looked at yet

(***************************************************************************)
(* History, kept for the properties only.                                  *)
(***************************************************************************)
VARIABLES
  owed,      \* acknowledged, and neither evicted, expired nor wiped since
  lost,      \* dropped by a reload that could not read the stored copy
  damaged,   \* named by a failed transaction of this incarnation
  shed       \* refused or evicted for capacity since the last purge or open

memory  == <<capacity, entries, next_seq>>
call    == <<pc, writes, removals, todo>>
history == <<owed, lost, damaged, shed>>
vars    == <<now, memory, disk, call, history>>

Offer  == [id : Id, ttl : Ttl]
Calls  == {"closed", "idle", "accepting", "purging", "reloading"}

NoDisk == [id \in {} |-> 1]

\* One type invariant for the module.
TypeOK ==
  /\ now \in Time
  /\ capacity \in Capacities
  /\ entries \in [DOMAIN entries -> Entry]
  /\ DOMAIN entries \subseteq Id
  /\ next_seq \in 0..MaxSeq
  /\ disk \in [DOMAIN disk -> Hops]
  /\ DOMAIN disk \subseteq Id
  /\ pc \in Calls
  /\ writes \in SUBSET Offer
  /\ removals \in SUBSET Id
  /\ todo \in SUBSET Id
  /\ owed \in SUBSET Id
  /\ lost \in SUBSET Id
  /\ damaged \in SUBSET Id
  /\ shed \in SUBSET Id

Init ==
  /\ now \in Time
  /\ capacity \in Capacities
  /\ entries = NoEntries
  /\ next_seq = 0
  /\ disk = NoDisk
  /\ pc = "closed"
  /\ writes = {}
  /\ removals = {}
  /\ todo = {}
  /\ owed = {}
  /\ lost = {}
  /\ damaged = {}
  /\ shed = {}

----
(***************************************************************************)
(* Closing: the process dies, or the handle is dropped.  Memory and the    *)
(* call under way are gone; the database stays as its last commit left it. *)
(***************************************************************************)
ForgetMemory ==
  /\ entries' = NoEntries
  /\ next_seq' = 0
  /\ pc' = "closed"
  /\ removals' = {}
  /\ todo' = {}
  /\ damaged' = {}
  /\ shed' = {}
  /\ writes' = {}
  /\ UNCHANGED capacity

Crash ==
  /\ pc # "closed"
  /\ ForgetMemory
  /\ UNCHANGED <<now, disk, owed, lost>>

\* Clocks are the caller's, and a wall clock may be set back.
SetClock ==
  /\ pc \in {"closed", "idle"}
  /\ \E t \in Time \ {now} : now' = t
  /\ UNCHANGED <<memory, disk, call, history>>

----
(***************************************************************************)
(* `Store::accept` on the incoming `id`, as the live path and the reload   *)
(* both call it: what it does to memory when it takes the envelope ...     *)
(***************************************************************************)
TakeIntoMemory(id, ttl, evicted) ==
  /\ Fresh(entries, id, ttl, now)
  /\ Admits(entries, capacity, id)
  /\ evicted = Evictable(entries, capacity, id)
  /\ next_seq < MaxSeq
  /\ entries' = Accepted(entries, next_seq, id, ttl, evicted)
  /\ next_seq' = next_seq + 1
  /\ shed' = shed \cup evicted

(***************************************************************************)
(* ... and when it does not: a duplicate, a stale envelope, or no room.    *)
(***************************************************************************)
TurnAway(id, ttl) ==
  /\ ~ (Fresh(entries, id, ttl, now) /\ Admits(entries, capacity, id))
  /\ shed' = IF Fresh(entries, id, ttl, now) THEN shed \cup {id} ELSE shed
  /\ UNCHANGED <<entries, next_seq>>

----
(***************************************************************************)
(* `DurableStore::accept`: memory decides at once, then the evicted        *)
(* envelope leaves the database, then the new one is written.              *)
(***************************************************************************)
\* Mutant of BeginAccept: the evicted envelope is never deleted from the database.
BeginAcceptForgetsEvicted(id, ttl) ==
  /\ pc = "idle"
  /\ \E evicted \in SUBSET Id :
       /\ TakeIntoMemory(id, ttl, evicted)
       /\ removals' = {}
       /\ owed' = owed \ evicted
  /\ pc' = "accepting"
  /\ writes' = {[id |-> id, ttl |-> ttl]}
  /\ UNCHANGED <<now, capacity, disk, todo, lost, damaged>>

BeginAccept(id, ttl) ==
  /\ pc = "idle"
  /\ \E evicted \in SUBSET Id :
       /\ TakeIntoMemory(id, ttl, evicted)
       /\ removals' = evicted
       /\ owed' = owed \ evicted
  /\ pc' = "accepting"
  /\ writes' = {[id |-> id, ttl |-> ttl]}
  /\ UNCHANGED <<now, capacity, disk, todo, lost, damaged>>

RefuseAccept(id, ttl) ==
  /\ pc = "idle"
  /\ TurnAway(id, ttl)
  /\ UNCHANGED <<now, capacity, disk, call, owed, lost, damaged>>

Put ==
  /\ pc = "accepting"
  /\ removals = {}
  /\ \E w \in writes :
       /\ disk' = With(disk, w.id, w.ttl)
       /\ owed' = owed \cup {w.id}
       /\ lost' = lost \ {w.id}
  /\ pc' = "idle"
  /\ writes' = {}
  /\ UNCHANGED <<now, memory, removals, todo, damaged, shed>>

Unfinished == removals \cup {w.id : w \in writes}

\* Mutant of PutFails: the error is swallowed and the caller is told `New`.
PutFailsSilently ==
  /\ DiskFaults
  /\ pc = "accepting"
  /\ removals = {}
  /\ pc' = "idle"
  /\ writes' = {}
  /\ damaged' = damaged \cup Unfinished
  /\ owed' = owed \cup {w.id : w \in writes}
  /\ UNCHANGED <<now, memory, disk, removals, todo, lost, shed>>

PutFails ==
  /\ DiskFaults
  /\ pc = "accepting"
  /\ removals = {}
  /\ pc' = "idle"
  /\ writes' = {}
  /\ damaged' = damaged \cup Unfinished
  /\ UNCHANGED <<now, memory, disk, removals, todo, owed, lost, shed>>

----
(***************************************************************************)
(* `purge_expired`: memory first, then one delete after another.           *)
(***************************************************************************)
BeginPurge ==
  /\ pc = "idle"
  /\ LET expired == Expired(entries, now)
     IN  /\ entries' = Without(entries, expired)
         /\ removals' = expired
         /\ pc' = IF expired = {} THEN "idle" ELSE "purging"
         /\ owed' = owed \ expired
  /\ shed' = {}
  /\ UNCHANGED <<now, capacity, next_seq, disk, writes, todo, lost, damaged>>

----
(***************************************************************************)
(* The deletes of the three multi-step calls.                              *)
(***************************************************************************)
Remove(id) ==
  /\ id \in removals
  /\ disk' = Without(disk, {id})
  /\ removals' = removals \ {id}
  /\ pc' = IF pc = "purging" /\ removals = {id} THEN "idle" ELSE pc
  /\ UNCHANGED <<now, memory, writes, todo, history>>

(***************************************************************************)
(* A delete fails: `accept` returns without writing the envelope it holds  *)
(* in memory, `purge_expired` leaves the other deletes undone, and `open`  *)
(* returns an error, dropping what it had loaded.                          *)
(***************************************************************************)
RemoveFails ==
  /\ DiskFaults
  /\ pc \in {"accepting", "purging"}
  /\ removals # {}
  /\ pc' = "idle"
  /\ damaged' = damaged \cup Unfinished
  /\ removals' = {}
  /\ writes' = {}
  /\ UNCHANGED <<now, memory, disk, todo, owed, lost, shed>>

OpenFails ==
  /\ DiskFaults
  /\ pc = "reloading"
  /\ removals # {}
  /\ ForgetMemory
  /\ UNCHANGED <<now, disk, owed, lost>>

----
(***************************************************************************)
(* `open`: every stored envelope goes through `Store::accept` of an empty  *)
(* index, in the order of the ids.  Ids are content hashes, so any order   *)
(* may be that one.  What the index refuses or evicts is deleted.          *)
(***************************************************************************)
\* `all_ids`
AllIds == DOMAIN disk

\* `get` of a stored id, when the copy can be read: it decrypts and parses.
Get(id) == disk[id]

Open(cap) ==
  /\ pc = "closed"
  /\ capacity' = cap
  /\ entries' = NoEntries
  /\ next_seq' = 0
  /\ todo' = AllIds
  /\ pc' = "reloading"
  /\ UNCHANGED <<now, disk, writes, removals, history>>

Reload(id) ==
  /\ pc = "reloading"
  /\ id \in todo
  /\ removals = {}
  /\ todo' = todo \ {id}
  /\ \/ \E evicted \in SUBSET Id :
          /\ TakeIntoMemory(id, Get(id), evicted)
          /\ removals' = evicted
          /\ owed' = owed \ evicted
     \/ /\ TurnAway(id, Get(id))
        /\ removals' = {id}
        /\ owed' = owed \ {id}
  /\ UNCHANGED <<now, capacity, disk, pc, writes, lost, damaged>>

(***************************************************************************)
(* Reading the stored copy fails, because it does not decrypt under this   *)
(* master key or because the database could not be read: the copy is       *)
(* deleted, and a failure of that delete is ignored.                       *)
(***************************************************************************)
DropUnreadable(id) ==
  /\ DiskFaults
  /\ pc = "reloading"
  /\ id \in todo
  /\ removals = {}
  /\ todo' = todo \ {id}
  /\ lost' = lost \cup {id}
  /\ \/ disk' = Without(disk, {id}) /\ damaged' = damaged
     \/ disk' = disk /\ damaged' = damaged \cup {id}
  /\ UNCHANGED <<now, memory, pc, writes, removals, owed, shed>>

FinishOpen ==
  /\ pc = "reloading"
  /\ todo = {}
  /\ removals = {}
  /\ pc' = "idle"
  /\ UNCHANGED <<now, memory, disk, writes, removals, todo, history>>

(***************************************************************************)
(* `wipe` consumes the store and deletes the database file; when the file  *)
(* can be neither overwritten nor deleted it stays as it was.              *)
(***************************************************************************)
Wipe ==
  /\ pc = "idle"
  /\ ForgetMemory
  /\ \/ disk' = NoDisk /\ owed' = {}
     \/ DiskFaults /\ disk' = disk /\ owed' = owed
  /\ UNCHANGED <<now, lost>>

----
Next ==
  \/ Crash
  \/ SetClock
  \/ \E id \in Id, ttl \in Ttl : BeginAccept(id, ttl) \/ RefuseAccept(id, ttl)
  \/ Put
  \/ PutFails
  \/ BeginPurge
  \/ \E id \in Id : Remove(id)
  \/ RemoveFails
  \/ \E cap \in Capacities : Open(cap)
  \/ \E id \in Id : Reload(id) \/ DropUnreadable(id)
  \/ OpenFails
  \/ FinishOpen
  \/ Wipe

Spec == Init /\ [][Next]_vars

----
(***************************************************************************)
(* Properties.                                                             *)
(***************************************************************************)

\* The index never outgrows the capacity it was opened with, whatever a reload
\* finds on disk and whatever transaction fails (engine.rs, accept).
CapacityBound == Cardinality(DOMAIN entries) <= capacity

\* The store keeps the most urgent of what it was offered: as long as nothing is
\* purged, whatever it refused or evicted for want of room is no more urgent than
\* anything it holds, and it is full.  In particular an SOS is given up only by a
\* store full of SOS; and this holds through a reload into a smaller capacity,
\* in whatever order the stored envelopes come (engine.rs, accept; durable.rs, open).
MostUrgentKept ==
  shed # {} =>
    /\ Cardinality(DOMAIN entries) = capacity
    /\ shed \cap DOMAIN entries = {}
    /\ \A gone \in shed, held \in DOMAIN entries : PriorityOf[held] <= PriorityOf[gone]

\* Between calls the database mirrors the index: the same envelopes with the same
\* hop budgets.  A transaction that failed spoils this only for the envelopes it
\* was about, never for another one (durable.rs, accept, purge_expired and open).
Mirror ==
  pc = "idle" =>
    \A id \in Id \ damaged :
      /\ id \in DOMAIN entries <=> id \in DOMAIN disk
      /\ id \in DOMAIN entries => disk[id] = entries[id].ttl

\* An envelope whose acceptance was acknowledged is in the database at every moment,
\* also while another call is half done or after a crash, until it is evicted, expires
\* or is wiped; the one exception is a stored copy a later open could not read.
AckedDurable == owed \ lost \subseteq DOMAIN disk

\* A running store lets go of a live SOS envelope only when it closes: no arrival
\* evicts it and no purge takes it early (engine.rs, accept and purge_expired).
SosNeverEvicted ==
  [][\A id \in DOMAIN entries \ DOMAIN entries' :
       PriorityOf[id] = Sos => IsExpired(id, now) \/ pc' = "closed"]_vars

\* Through any run of calls, crashes and failures, each single transaction of the
\* database is one with a reason: a copy leaves it when it has expired, when as many
\* that are as urgent stay, when it cannot be read or is wiped; one comes when it is
\* live, new and fits; and a store that opens finds what is live and fits it
\* (durable.rs, accept, purge_expired, open and wipe).
Store == INSTANCE Custody WITH
  clock   <- now,
  stored  <- disk,
  room    <- capacity,
  serving <- pc \in {"idle", "accepting", "purging"},
  unsure  <- damaged

KeepsCustody == Store!CustodySpec

\* What the store answers `contains` for, and gossips, is in the database once no
\* call is under way, so that it survives a restart.
HeldIsOnDisk == pc = "idle" => DOMAIN entries \subseteq DOMAIN disk
====
