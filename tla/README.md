# Formal models of the mesh core

`src/core` is the Rust core of an offline messenger: envelopes are sealed by the
crypto layer, kept in a bounded encrypted store on every device and passed on
whenever two devices meet. This directory holds TLA+ models of that core, the
TLC configurations that check them, and TLAPS proofs of their main properties.

    tlc -workers 2 -config MCMeshPair.cfg MCMeshPair.tla      # check
    tlapm DurableStoreProofs.tla                              # prove

## The system

| Part | State | Operations | Interacts with |
|---|---|---|---|
| Envelope index (`engine.rs`, `envelope.rs`) | `capacity`, `entries` (id -> envelope, insertion number), `next_seq` | `accept`, `purge_expired`, queries, `decrement_ttl` | called by the durable store and the relay |
| Durable store (`durable.rs`) | the index and the database | `open` (reload), `accept`, `purge_expired`, `wipe` | one database transaction per put or remove |
| Encrypted database (`persistence.rs`) | redb table id -> sealed envelope | `put`, `get`, `remove`, `all_ids`, `wipe` | the file system |
| Mesh relay (`relay.rs`) | the store, `peers` (summary sent?, rate limiter), puzzle difficulty, rate limits | `on_peer_connected`, `on_peer_lost`, `on_frame`, `compose_local`, setters | returns frames for the caller to send |
| Mesh node (`ffi_node.rs`) | a relay behind a mutex, a transport | the relay's operations, then the sends | native driver calls in; `send` calls out |
| Summaries and puzzle (`bloom.rs`, `puzzle.rs`) | none | build and query a filter; solve and verify | used by the relay |
| Transport boundary (`transport.rs`, `ffi_transport.rs`) | `FfiTransportHub`: an event log | `on_*` callbacks push, `drain_events` takes | native driver |
| Contact simulation (`dtn_sim.rs`) | nodes of a test harness | `compose_at`, `contact` | runs relays |
| Double Ratchet (`crypto/ratchet.rs`) | root and chain keys, counters, skipped keys | `encrypt`, `decrypt` | messages travel as envelopes: lost, late, reordered |
| Handshake, session (`crypto/noise.rs`, `crypto/session.rs`, `ffi.rs`) | a handshake handle consumed at the end | read, write, finish | hands a secret to the ratchet |
| Prekeys (`crypto/prekey.rs`, `crypto/pqxdh.rs`, `ffi_prekey.rs`) | signed, one-time and PQ prekeys | bundle, consume, top up, rotate, save and restore | bundles live in other devices' hands |
| MLS groups (`groups.rs`, `ffi_groups.rs`) | group state of openmls, snapshots | add member, process commit, seal, open, snapshot, load | commits and messages travel as envelopes |
| Channels, padding, identity, codecs | none that changes | byte transformations | |

What is hard: a node's handlers are atomic under the mutex but the frames they
return are sent after the unlock; both ends notice a contact at different times;
links drop with frames in flight; every database transaction of a call may be
the last thing the process does, or may fail; the clock is the caller's; and an
envelope's admission depends on everything the store was offered before. The
hazards are listed line by line in `PROJECT.json`.

What makes each part correct:

- *Index*: the capacity is respected; what is refused or evicted is never more
  urgent than what is kept; a live SOS is not evicted.
- *Durable store*: memory and disk agree between calls; an acknowledged envelope
  survives a crash at any moment.
- *Relay and node*: a contact that lasts exchanges everything; gossip ends; a hop
  budget bounds propagation on every path; an envelope reaches whoever its budget
  allows.
- *Ratchet*: each message decrypts at most once and to what was encrypted; lost
  and late messages leave the session usable.
- *Session setup*: a secret joins one initiator and one responder, who agree on the
  ratchet key; a handle yields one session; a one-time prekey answers once; what was
  handed out and saved can be answered for.
- *Groups*: a message key seals once and opens once; what was sent in an epoch can
  be read in it; devices end up in the same epoch unless commits fork.
- *Simulation*: a contact ends, and ends with everything exchanged.

## Modules

| Module | What it is |
|---|---|
| `EnvelopeStore` | the index of `engine.rs` as operators on `entries` |
| `DurableStore` | `durable.rs` over `persistence.rs`: calls cut at every transaction |
| `Custody` | abstract: what the database of a device promises, whatever becomes of the process |
| `MeshRelay` | any number of nodes of `relay.rs`/`ffi_node.rs` and the transport between them |
| `ContactHistory` | `MeshRelay` with a history of what a contact fails to carry across, and why |
| `Inbox` | the app that polls and fetches what a node of `MeshRelay` holds (`ffi_node.rs`) |
| `DtnSim` | `dtn_sim.rs`: the nodes of `MeshRelay` driven through contact windows |
| `ContactExchange` | abstract: what a contact promises to the people who carry the devices |
| `Handshake` | the `FfiHandshake` handles of `ffi.rs` over `crypto/noise.rs`, `crypto/session.rs` |
| `Prekeys` | the pool of `crypto/prekey.rs`, `crypto/pqxdh.rs`, `ffi_prekey.rs`, its bundles and first messages |
| `Pairing` | abstract: what every way of setting up a session promises to the ratchet |
| `SessionSetup` | composition: a device pair takes the handshake or the bundle |
| `DoubleRatchet` | the two ends of a session of `crypto/ratchet.rs` and the network between them |
| `Groups` | the members and handles of `groups.rs`, `ffi_groups.rs`, their commits, messages and snapshots |
| `MCDurableStore`, `MCMeshPair`, `MCMeshLine`, `MCMeshContacts`, `MCSessionSetup`, `MCDoubleRatchet`, `MCGroups` | instances for TLC |
| `EnvelopeStoreProofs`, `DurableStoreProofs`, `MeshRelayProofs`, `ContactHistoryProofs`, `DtnSimProofs`, `SessionSetupProofs` (with those of its two parts), `DoubleRatchetProofs`, `GroupsProofs` | theorems |

`MCMeshContacts` composes `MeshRelay` with `Inbox` under one driver (the radios) and
with `DtnSim` under the other (the schedule).

`DurableStore` and `MeshRelay` both extend `EnvelopeStore`, so the admission
logic exists once, as it does in the code.

### EnvelopeStore

An id stands for the content hash, so `PriorityOf` and `ExpiresAt` are constants
on ids; `ttl_hops` is not hashed and belongs to the copy. `Fresh`, `HasRoom`,
`IsWorstEntry`, `Displaces`, `Evictable`, `Admits` and `Accepted` are the
branches of `Store::accept` in their order; at capacity 0 `Admits` is false.
`next_seq` is a natural number: the code's `u64` does not wrap within the life of
a device.

### DurableStore

`entries`, `next_seq` and `capacity` are memory, `disk` is the database, and
`pc`, `writes`, `removals`, `todo` say which call is between two transactions and
what it still has to do.

| Code | Actions |
|---|---|
| `DurableStore::accept` | `BeginAccept` (memory decides), `Remove` of the evicted id, `Put`; `RefuseAccept` for every outcome but New; `RemoveFails` and `PutFails` for the two `?` |
| `purge_expired` | `BeginPurge`, one `Remove` per id in any order, `RemoveFails` |
| `open` | `Open`, then `Reload` or `DropUnreadable` per stored id (ids are hashes, so in any order) with its `Remove`s, `FinishOpen`; `OpenFails` for the `?` |
| `wipe` | `Wipe` |
| process death, drop of the handle | `Crash`, in any state |

`owed`, `lost`, `damaged` and `shed` are history for the properties. A database
transaction happens entirely or not at all (redb's promise); a commit that
reports an error is taken not to have happened. A wipe that zeroes the file and
then fails to delete it leaves a file `open` rejects; the model has the two
outcomes "gone" and "untouched" only.

`Custody` is what is left when calls, their steps, memory and crashes are taken away: a
database whose copies come and go one at a time, each for a reason. `KeepsCustody`
is the refinement. A crash in the middle of a call is, for the database, nothing but
the closing of the store; so whatever a call does in several transactions has to make
sense after each of them. `unsure` are the ids a failed transaction was about; for them
alone memory may count on a copy that is not there, until the store closes.

### MeshRelay

One handler is one step, because the mutex is held throughout. The frames it
returns are put in the bag `net` in the same step and delivered in any order,
which covers the sends after the unlock and their overtaking one another. A send
to a peer whose link is down fails and ends the loop, and the loop runs over a
hash map, so `Sent` lets any part of the other frames through; with all links up
all are sent. That a link may go down between unlock and send is covered by its
going down before: nobody has been told of it.

| Code | Actions |
|---|---|
| `on_peer_connected` | `OnPeerConnected` |
| `on_peer_lost` | `OnPeerLost` |
| `on_frame`, summary | `OnSummary` |
| `on_frame`, data | `OnWeakProof`, `OnOverBudget`, `OnData` (New, with relaying or with a failed write; or refused) |
| `compose_local` | `ComposeLocal` |
| setters | `SetPuzzleDifficulty`, `SetRateLimits` |
| radio and driver (external) | `LinkUp`, `LinkDown`, `Lose`, delivery by `Transit`, `Report` |
| clock | `Tick` |
| process death, then `FfiMeshNode::open` | `Restart` |

Abstractions: a summary is the set of ids its filter answers for, a function of
the held ids (`FalsePositives`), because `summary_bloom` has no other input; a
puzzle proof is its number of leading zero bits (`ProofOf`), because `verify`
looks at nothing else; a frame's size is a constant of its envelope; a malformed
frame changes nothing and is left out. A device has one handle per peer. The
transport reports a connection only while the link is up, and a link comes up
again only after both ends were told of its loss; frames of the lost link may
nevertheless be processed later, which is how a handler meets a peer it has
forgotten. The nodes share one clock, which does not go back.

A node may die between any two handlers and come back with what `DurableStore`
reloads: its live envelopes, numbered afresh in some order, no peers, difficulty
zero and the default limits. It may also die within one, between the two transactions of
an acceptance: then the envelope that made room is gone and the newcomer is not there
(`Incoming`). Its links drop with it and frames on their way to it
are lost. With `DiskFaults` any part of what it held may be missing, because a
failed write left it in memory only or the stored copy is unreadable; that an evicted
envelope whose deletion failed may come back is left out. That a
reload without faults gives back exactly the live envelopes is what `DurableStore`
is checked for (`AckedDurable`, `Mirror`, `KeepsCustody`).

### ContactHistory

That a contact exchanges everything is true only of what can cross it, and the store,
the limits, the filter and the transport each have a say in that. `ContactHistory` adds
no behaviour: `missed[<<n, p>>]` collects, since p last introduced itself to n, the
envelopes the code has turned away or kept back on that way, each for a reason it has
at that step:

| Reason | Code | Definition |
|---|---|---|
| the proof is too weak, the budget is spent, the store does not admit it | `on_frame`, the early returns | `Refused` |
| p evicts it, or loses it in a restart, before it has expired | `Store::accept`, `open` | `Dropped` |
| a false positive of p's summary names it | `on_peer_connected`, the pushes of `on_frame` | `Misread` |
| the flood did not get as far as p | the send loop of `ffi_node.rs` | `Unsent` |

`HealsOnNextContact`, which the code violates, reads off the same history what a contact has
left behind. `ContactSynced` says that there is no other reason: on a drained contact, each end
holds what the other can still forward and has not missed. Without the history the
property could only be stated for stores that never fill up and limits that are
never reached.

### Inbox

Nothing reports an arrival: the app polls the ids and fetches what it has not shown,
while frames go on arriving and evicting between its calls.

| Code | Actions |
|---|---|
| `FfiMeshNode::all_ids_hex`, less what is shown already | `Poll` |
| `FfiMeshNode::get_envelope_hex`, which may find the envelope evicted | `Fetch` |

### DtnSim and ContactExchange

A window of the simulation connects two nodes, pops frames until there are none, the
newest first, and disconnects them. Every step is a step of `MeshRelay`; `queue` adds
the order of the frames in `net`, `iterations` the counter the code asserts a bound on.

| Code | Actions |
|---|---|
| `Simulation::new` | `SimInit` |
| `compose_at`, the next event of `run_schedule` | `ComposeAt`, `AtTick` |
| `contact` | `Begin`, `Hello` (the two `on_peer_connected`), `Drain` per turn of the loop, `Disconnect`, `Part` (the two `on_peer_lost`) |

`ContactExchange` knows no frames: two nodes meet, and each has what the other could
pass on, one hop poorer. `WindowsExchange` is the refinement: between windows the
copies are those of the stores, within one those from before it, so that the last
step of a window is `Meet`.

### Handshake

A state of the Noise library (external) is its transcript, the messages written and
read. A first message is a bare public key, which anybody reads; each later one is
authenticated with the transcript it was written on, as is the responder's transport
message with its ratchet key. Any handle may be given any message that was ever
written.

| Code | Actions |
|---|---|
| `write_message` | `WriteMessage` |
| `read_message` | `ReadMessage`; one that does not read changes nothing |
| `take_finished` | `TakeFinished`, part of both finishers |
| `finish_as_responder`, `establish_as_responder` | `FinishAsResponder` |
| `finish_as_initiator`, `establish_as_initiator` | `FinishAsInitiator`, which loses the handshake when the message is not its responder's |

`strays` is history: the initiators that were finished with such a message.

### Prekeys

A keypair is its number in the order of generation; secrets are the tuples they are
derived from; a signature is told by the key it was made over. Bundles and first
messages stay in circulation, and a bundle may be damaged on its way (`Parsed`).
Decapsulation with another key than the one a ciphertext was made for gives another
secret and no error, as ML-KEM (external) does. A damaged verifying key or signature
makes a bundle that does not verify, which nobody uses.

| Code | Actions |
|---|---|
| `HybridPrekeyPool::new` | `PrekeysInit`, `Restart` without saved bytes |
| `current_bundle_bytes` | `CurrentBundle` |
| `FfiHybridBundle::from_bytes`, `verify`, `initiate` | `Initiate` |
| `respond` | `Respond`; `Refuses` when the one-time prekey is not there |
| `top_up`, `rotate_signed_prekey`, `rotate_pq_prekey` | `TopUp`, `RotateSignedPrekey`, `RotatePqPrekey` |
| `to_bytes`, kept by the app | `Save` |
| process death, then `from_bytes` | `Restart` |

`uses`, `revived`, `retired`, `forgotten` and `backed` are history. What the code does
by design, the properties measure and do not forbid: a prekey that an old copy of the pool
brings back answers again (`AnswersOnce` counts it), and a rotation strands the bundles
in circulation (`SameSession` says with what result).

### Pairing and SessionSetup

`Pairing` has one variable, the ends opened so far, and one action: an end opens that
fits all the others. `HandshakesPair` and `PrekeysPair` are the refinements of the two
ways of setting up a session. `SessionSetup` is both in one state space; they share
nothing that changes, so a behaviour takes one of them.

### Groups

openmls is external. An epoch is the number of the commit that started it, 0 for the
founding; commits form a tree, as each names the epoch it was made in (`base`). Within
an epoch, message keys are pairs of a sender and a generation; a receiver gives one
up when it uses it (`used`), and keeps those that are not more than `Tolerance` behind.
openmls also refuses a message more than 1000 generations ahead, which is left out; it
keeps nothing of earlier epochs.

| Code | Actions |
|---|---|
| `from_identity_and_signer` | `FromIdentityAndSigner` |
| `key_package_bytes` | `KeyPackage` |
| `create_group`, `join_from_welcome`, `load_group_from_disk`, each with its `take` | `CreateGroup`, `JoinFromWelcome`, `LoadGroupFromDisk` |
| `add_member` | `AddMember` |
| `process_commit` | `ProcessCommit`, `ProcessCommitOnMessage` when it is given a message |
| `seal`, `seal_as_envelope` | `Seal` |
| `open`, `open_from_envelope` | `Open`, `OpenOnCommit` when it is given a commit |
| `snapshot_to_disk` | `Snapshot` |
| process death, maybe while the snapshot is written | `Restart`, with `Torn` |

`opened`, `twice`, `misled` and `stale` are history; the properties exempt a device that
came back on an older snapshot (`stale`) and messages given to the wrong call (`misled`). One group is modelled, made by the
founder's first member object; a device has one handle of it at a time; the app keeps
the signer bytes of its first object, as `from_identity_and_signer` asks.

### DoubleRatchet

`session[p]` is the struct `DoubleRatchet` field by field, for the initiator
(`Alice`) and the responder (`Bob`); both start as `session.rs` and
`ffi_prekey.rs` leave them, Alice knowing Bob's first ratchet key. Cryptography is
symbolic: a root key is the sequence of key agreements mixed into the shared
secret, a chain is the root key it came with, and the position in it is the
counter next to it in the struct (the code keeps the two in step everywhere), a
message key is a chain and a number. A ciphertext opens exactly with its key.

| Code | Definitions |
|---|---|
| `encrypt` | `Encrypt`; `EncryptTooLong` when the padding refuses, after the chain has moved on |
| `decrypt` | `Decrypt`: same chain, first chain, or `skip_chain` and `dh_ratchet` (`Ratcheted`) first |
| `message_key_for` | `OpensSkipped`, `OpensNext`, `RefusesKey` |
| `store_skipped` and the two loops over it | `SkippedTo`, `IsFull`, `SkipStops`, `Overflows` for the `?` |
| the network | `arrived`: every message sent may be delivered, in any order, up to `MaxCopies` times, or never |

`reads`, `lost`, `late` and `full` are history. Sessions are not persisted, so
there is no restart; ciphertexts are not damaged on the way (an envelope's id is
the hash of its content).

## What the runs check

| Run | Instance | Shows |
|---|---|---|
| `durable_store` | 3 ids (SOS; normal, expiring at 1; low), capacities 1 and 2, clock 0..1 either way, 4 insertions per incarnation, faults on | `TypeOK`, `CapacityBound`, `MostUrgentKept`, `Mirror`, `AckedDurable`, `SosNeverEvicted`; `KeepsCustody`: it implements `Custody` |
| `mesh_pair` | 2 nodes with room for 1 envelope, 2 envelopes with 2 hops, one of which hides the other in a summary, 2 contacts, 1 drop, clock 0..1 with one envelope expiring at 1 | `TypeOK`; `ContactSynced`: a drained contact has exchanged all it has not missed; `GossipDiesDown` |
| `mesh_line` | a - b - c, 2 envelopes, the user of c looking. Radios: an envelope of a, both links once, in any order. Schedule: 4 windows, both envelopes, clock 0..1 | `HopHorizon`; `Reaches`: it gets to c; `Shown`: c's user sees it; `ContactConverges`: a window ends after as few frames as it takes; `WindowsExchange`: it implements `ContactExchange` |
| `mesh_tuned` | the line of radios, difficulties 0 and 1 and two rate limits, failing writes; up to two of the settings tuned at any time while the links hold, or a link drops and nodes restart | `HopHorizon`; `PassesOnVerified` |
| `ratchet` | 5 messages in both directions, chains of 2, up to 3 keypairs sent with, 2 skipped keys, 2 copies of each message | `TypeOK` with the bound on skipped keys; `OpensOnce`; `ForwardSecret`; `Aligned`: without a message of an older chain the ends stay in step, except that hitting the bound may cost the receiving chain, never the next; `NothingLost`: while the bound is not hit either, everything opens |
| `session_setup` | 2 initiators and 2 responders; a pool with one one-time prekey and one more key to make, 2 first messages, 1 restart | `OneSessionEach`, `OtherEnd`, `NoLoneInitiator`, `HandshakesPair`, `FinishedGetsSession`; `PrekeysTypeOK`, `AnswersOnce`, `SameSession`, `RefusedFairly`, `SavedBundleAnswerable`, `PrekeysPair` |
| `groups` | a founder and 2 joiners, 5 scenarios: 3 commits and a message; 3 messages out of order; a restart with messages; a restart with 3 commits; 2 restarts with 3 commits and no mishap | `GroupsTypeOK`, `KeepsOwnCommits`, `KeysSealOnce`, `ReadsOnce`, `StillReadable`, `Converges` |

Violation runs, each a disagreement between a document and the code:

| Run | The text says | The code does |
|---|---|---|
| `late_chain_derails` | out-of-order messages are handled with skipped keys (`CRYPTOGRAPHY.md:80`) | a message of the previous chain after one of the next is taken for a new remote key: it opens with its set-aside key, and the session never gets back in step (one copy of each message, room for three skipped keys) |
| `held_is_on_disk` | accepted envelopes survive a restart; the disk mirrors memory (`durable.rs:1-9`) | an error of the write leaves the envelope in memory only, where it is served and makes every later copy a duplicate |
| `flood_aborted` | composing floods to every currently connected peer (`ffi_node.rs:88-89`) | the first failing send ends the loop, so a stale contact costs live ones the envelope |
| `bloom_miss_repeats` | a missed send heals on the next contact (`bloom.rs:13-14`) | the filter is a function of the held ids, so what was suppressed on one drained contact is suppressed again on the next (`ContactHistory`, under its fairness) |
| `expired_forwarded` | an expired envelope is never forwarded (`ROUTING-PROTOCOL.md:81-82`) | gossip pushes whatever is held; a running node never purges |

Also seen, without a run: the priority order of transfers
(`ROUTING-PROTOCOL.md:72-74`) is not implemented, pushes go in hash map order;
`puzzle.rs:16-18` says nobody re-solves the puzzle, and the gossip path does
(`relay.rs:257`, whence `PassesOnVerified` is about the node's own difficulty).
And `ROUTING-PROTOCOL.md:142-146` is wrong about stale prekey bundles, twice:

- A stale bundle "either fails signature verification against a *rotated* signed prekey
  (harmless, `initiate` just returns an error)" (142-144). It does not: the signature is
  made over the key in the bundle by an identity that has not changed
  (`prekey.rs:154`, `pqxdh.rs:105`), so `initiate` succeeds, and `respond`, which answers
  with the current signed prekey (`ffi_prekey.rs:170-178`), succeeds as well. The two hold
  different secrets, and the first sign of it is a message that does not open.
  `SameSession` says exactly this: the answer is the initiator's session, or its secret
  is another one, and the latter only in the named cases.
- Or it "references a one-time prekey the publisher already consumed ... (also harmless,
  `respond` simply won't have that secret, and X3DH degrades to three DH terms rather than
  failing outright ...)" (144-146). `respond` returns an error (`ffi_prekey.rs:161-167`)
  and there is no session. The second half of `RefusedFairly` says that this is so
  for every first message whose one-time prekey is used up.

Both properties hold of the code, so the run `session_setup` passes.

### Bounds

Three ids are enough for an eviction and a refusal with a third envelope held;
two capacities for a reload into a smaller store; four insertions for refilling a
store of two. A store of one envelope
for two lets each of them displace or be refused by the other on the very contact that
brings it, and makes the hidden one of a false positive the only one there is to push.
Two contacts with one drop give late frames, a peer registered
after its loss was reported, and a second exchange of summaries; a third would
repeat the second, as contact state is rebuilt from nothing. Three nodes in a
line are the smallest network in which an envelope reaches a node that never met
its origin; four windows let each pair meet before and after the other does. A restart
of a node needs no bound of its own: it costs a drop for every link it
takes down, and without links it changes little twice. Nodes start with
the default limits (120 envelopes a minute), which the small runs do not reach;
`mesh_tuned` adds one of a single envelope per window. In the ratchet, chains of two messages
and two skipped keys let a gap, an old chain's leftovers and the bound meet, and
five messages reach the second ratchet step of either end.

Two handles on either side are enough for a first message read by two responders,
and for an initiator that answers one of them and is finished with the other's
message. A pool of three keys with one to spare and two first messages have two
bundles naming one prekey, a bundle without any, a rotation between a bundle and its
use, and a restart onto a pool whose prekey is used up. Three commits by three devices
have a fork with an addition on either branch; three messages and a tolerance of
two reach every position in the window; one device coming back is enough for a
snapshot that is older than a commit, a message sent and one received; two restarts
let another branch add a device a second time, which then takes the welcome in place of
its snapshot. The scenarios cut the product of these down; that the properties
hold without the cut is what the proofs are for.

`MaxSteps`, `MaxChain`, `MaxSent`, `MaxCopies`, `MaxSeq`, `MaxContacts`, `MaxDrops`,
`MaxTime`, `MaxKeys`, `MaxInitiations`, `MaxRestarts`, `MaxMembers`, `MaxCommits` and
`MaxMessages` are bounds of the models, not of the code; in `MeshRelay` `next_seq` and
the bag are bounded by `MaxContacts`. `Tolerance` is the default of
openmls, which the code does not set, scaled down from 5.

`CHECK_DEADLOCK FALSE` is set wherever a model stops when its contacts, messages,
keys or handles are used up: everywhere but in the durable store.

### Fairness

`DurableStore`, `Prekeys` and `DoubleRatchet` are checked for safety only. `MeshRelay`
assumes that a frame in flight is delivered or lost (`WF` of `Transit`) and that the
driver's reports come (`WF` of `Report`): both are what any radio driver does, and
neither says that devices meet. `Reaches` and `Shown` take the links staying up as their
hypothesis. `Shown` adds an app that keeps polling and fetches what it lists (`WF` of
each `Poll` and `Fetch`). The schedule has no fairness: nobody has to go on with it.

`Handshake` assumes weak fairness of each handle's next step: the mesh keeps messages
and the app goes on with a handshake it has begun. A finish is only promised with a
message of the right responder, and a stray one remains possible at any time. `Groups`
assumes that a device whose next commit is there processes it in the end
(`WF` of `ProcessCommit`), and nothing about joining, sealing or snapshots.

## What is proved

For any finite set of ids, any priorities, expiries, capacities and clock
readings, with crashes and failures at every transaction:

| Theorem | States |
|---|---|
| `WorstExists`, `WorstUnique` | the eviction candidate exists in a non-empty index and does not depend on the order of the hash map |
| `RefusedIsNoMoreUrgent`, `EvictsAtMostOne` | what admission turns away, and what it evicts |
| `AcceptedIndex` | an acceptance keeps the index well formed and within its capacity |
| `TypeCorrect`, `CapacityHolds`, `MostUrgentHolds`, `MirrorHolds`, `AckedDurableHolds`, `SosHolds` | `Spec => []` of `TypeOK`, `CapacityBound`, `MostUrgentKept`, `Mirror`, `AckedDurable`, and `Spec => SosNeverEvicted` |
| `KeepsCustodyHolds` | `Spec => KeepsCustody`: the refinement of `Custody` |

Assumptions: the `ASSUME`s of `EnvelopeStore` and `DurableStore` (a finite set of
ids, priorities among the four, naturals for times and capacities), which TLC
evaluates in the runs.

The argument goes in layers, each proved on top of the one before:

1. `Control`: which of `writes`, `removals` and `todo` may be non-empty at each
   `pc`, and that a write in progress is of a held envelope. Without it nothing
   says that `Put` writes what memory holds.
2. `Ranked`: insertion numbers are distinct and below `next_seq`, so the eviction
   candidate is unique; the index is within its capacity; and `MostUrgentKept`,
   which needs both: an eviction only replaces the worst entry by a better one.
3. `Mirrored`: at every step, also within a call, memory and disk differ exactly
   by the deletes and the write still to come, the ids a reload has not looked
   at, and the damaged ones. `Mirror` is this with nothing to come.
4. `Durable`: what is owed is held or still to be reloaded, and is on disk; it is
   never among the ids still to be deleted.
5. `Reasoned`: what is still to be written is live, what is still to be deleted has
   expired or was shed, and the index a reload builds is live. With `Ranked` and
   `Mirrored` this gives every transaction the reason `Custody` asks for: the index is
   full of envelopes as urgent as the one that was shed, and all of them but the one being
   written are stored.

For any set of nodes and links, any envelopes, distances, false positives, limits
and bounds, `MeshRelayProofs` proves

| Theorem | States |
|---|---|
| `RelayTypeCorrect`, `HorizonHolds` | `Spec => []` of `MeshRelay`'s `TypeOK` and `HopHorizon` |
| `PassesOnVerifiedHolds` | `Spec => PassesOnVerified` |

under the `ASSUME`s of `MeshRelay`: distances grow by at most one over a link, a
solved proof is as strong as the difficulty it was solved for, the initial
difficulty and limits are among those allowed. The inductive invariant `Sound`
has four parts, each with lemmas of its own: the settings and links (`Globals`),
every store an index within its capacity whose copies are within their horizon
(`Stores`), contact states only of peers one may meet (`Contacts`), and the same
horizon for every frame, seen from the node it is going to (`NetOK`). The last
two are what `HopHorizon` alone lacks: a frame hands its obligation to the store
that takes it, and a store to the frames sent from it, only if the peers it is
sent to are one hop away. `PassesOnVerified` is an action property: every frame a
step adds to the bag is one of the handler's answers (`SentAre`).

For the same meshes, with full stores, spent limits, false positives, failing writes and
sends, restarts and the late frames of earlier contacts, `ContactHistoryProofs` proves

| Theorem | States |
|---|---|
| `ContactSyncedHolds` | `HistorySpec => []ContactSynced` |

`ContactSynced` speaks of drained contacts only; the invariant `Synced` is about
every moment in between, and keeps an account of every envelope n could pass on to a
peer p that has introduced itself: p holds it, or missed it, or a frame with it is on the
way, or a summary of p that does not claim it is (`OnTheWay`). The last of these covers
what n takes while it does not know p yet and so does not flood to it. Three things can
upset the account, and each has a conjunct of `Advances` that every handler is shown to
keep: n comes to offer something (`OffersCovered`), p gives something up
(`HolderKeeps`), a frame is read (`FramesLand`, `SummariesLand`). That a late summary
of an earlier contact does no harm needs no case of its own: a summary covers what
it does not claim whenever it was written, and one that is true of p still
(`Truthful`) has to be on its way until n knows p (`Introduces`).

For any nodes, links, envelopes and schedules, `DtnSimProofs` proves

| Theorem | States |
|---|---|
| `SimulationIsOfMesh` | `SimSpec => Spec`: what the simulation does is what the relays of a mesh may do, so that what holds of `MeshRelay` holds of it |
| `ContactConvergesHolds` | `SimSpec => []ContactConverges` |
| `WindowsExchangeHolds` | `SimSpec => WindowsExchange` where nodes are `Roomy`: the refinement of `ContactExchange` |

The invariant `Scheduled` goes with a window through its three stages: the two nodes
introduce themselves (`Greets`), the loop runs (`Talks`), they part (`Leaves`). In the
second, every frame of the queue is one of the two summaries or a push that
answers one of them, which has been read (`Spoken`); nobody floods, as neither node knows
anyone else. So `iterations + Len(queue) + Owed(n, p) + Owed(p, n)` is at most two more
than there are envelopes and no turn of the loop adds to it: a summary is exchanged
for the pushes it was still owed, any other frame for nothing. That is `ContactConverges`,
and it needs no assumption on capacity, limits or filters.

The refinement does: a full store, a spent limit or a false positive keeps an envelope
back, and `ContactExchange` knows of none of these. `Roomy` asks that a store and the
default limits have room for all the envelopes there are and that summaries are exact,
as in the instance of `mesh_line`; `ContactSyncedHolds` is about the rest. Under
`Roomy`, `Handing` says of each node of a window that it keeps what it had, that
whatever is due to the other is there, in a frame, or owed to a summary (`Hands`),
and that the peer's rate window has room for all that is still to come
(`Spares`, again with `Owed`, so that the sum does not grow when a summary
is answered). Every step but the last of a window is then a stutter of `ContactExchange`,
and the last is its `Meet`, with the copies of both nodes exactly as it says.

For any bound on skipped keys, any number of messages, keypairs and copies, and
with late messages and the sessions they derail included, `DoubleRatchetProofs`
proves

| Theorem | States |
|---|---|
| `RatchetTypeCorrect` | `Spec => []TypeOK`, with the bound on skipped keys |
| `OpensOnceHolds` | `Spec => []OpensOnce` |
| `ForwardSecretHolds` | `Spec => []ForwardSecret` |

under the `ASSUME`s of `DoubleRatchet`: the parties differ, `NoKey` is no key, bounds are
naturals. None of the properties is inductive: a session that returns to an old
remote key might come back to a chain it had spent keys of. It cannot, because the
root key only grows and a chain it ratchets to is longer than all it has had. The
invariant (`Sound`) therefore bounds every chain by the root key (`RatchetOK`),
says that skipped keys are all different and behind the counter of their chain,
and defines when a key is done with (`Spent` for the receiver, `Used` for the
sender). Each step of the struct (`Ratcheted`, `SkippedTo`, taking a key out,
moving on, dropping the chain) has a lemma that it brings back no such key
(`Follows`), and opening is shown to spend the key it uses.

It goes on from there, for traffic without late messages:

| Theorem | States |
|---|---|
| `AlignedHolds` | `Spec => []Aligned` |
| `NothingLostHolds` | `Spec => []NothingLost` |

These relate the two ends, which `Sound` never does. Its invariant, `InOrder`, puts the
keypairs of a session in one alternating order (`KeyOf`) and says that, while nothing
was late, each end is at one of two neighbouring turns of it with the root key of that
turn (`InTurn`), every message in the network was sent at a turn already reached
(`Posted`), and no two under the same number of the same chain (`Numbered`). While the
bound on skipped keys was not hit either, every message of the chain an end receives on
was read, or has its key set aside, or is still to come (`Whole`), and the receiver is
not ahead of the sender (`Paced`): a message that arrives must find its key. Where the
bound was hit, the receiving chain may be gone (`take`); `AlignedHolds` says that this is the
one way to lose it, and that the root key, hence the next chain, is untouched.

For any handles and any mixture of their messages, `SessionSetupProofs` proves

| Theorem | States |
|---|---|
| `OneSessionEachHolds`, `OtherEndHolds`, `NoLoneInitiatorHolds` | `HandshakeSpec => []` of the property |
| `HandshakesPairHolds` | `HandshakeSpec => HandshakesPair`: the refinement of `Pairing` |

assuming only that no handle has both roles. A responder reads anything as a first
message, and an initiator continues any transcript that starts with its own; the
third message alone pairs them, because it is read only on the transcript it was
written on. The invariant `Paired` says who wrote each position of a transcript
(`Placed`), that the writer of a third message is done with that very transcript and
the writer of a fourth is a responder that has given its session (`Signed`), and what a
taken responder (`Held`) and a taken initiator (`Joined`) were given.

For any batch, numbers of keys, first messages and restarts, it proves

| Theorem | States |
|---|---|
| `PrekeysTypeCorrect`, `AnswersOnceHolds`, `SameSessionHolds`, `RefusedFairlyHolds`, `SavedBundleAnswerableHolds` | `PrekeysSpec => []` of the property |
| `PrekeysPairHolds` | `PrekeysSpec => PrekeysPair`: the refinement of `Pairing` |

assuming that the absent key, the damaged key and the absent pool are none of the
real ones. No property is inductive, because a restart undoes things: `Kept` says what
it cannot undo. A number is of one kind for good, in the pool and in its saved bytes
alike (`Alike`); a one-time prekey that is in the pool has answered no more often than it was brought
back (`Counted`); whatever a bundle names is still there, or was rotated out, lost or
used (`Known`); a session that is not the initiator's was derived from other keys, and
its secret, as a tuple of them, is another; and what was saved when a bundle was handed out answers for it both in
the pool and in the bytes the next restart would read (`Backed`).

For a device that may go either way, the same module proves

| Theorem | States |
|---|---|
| `SetupIsEither` | `SetupSpec => HandshakeSpec /\ PrekeysSpec` |
| `SetupKeepsPromises` | `SetupSpec` implies all of the above |

For any devices, bounds and tolerance, `GroupsProofs` proves

| Theorem | States |
|---|---|
| `GroupsTypeCorrect`, `KeysSealOnceHolds`, `ReadsOnceHolds`, `StillReadableHolds`, `KeepsOwnCommitsHolds` | `GroupsSpec => []` of the property |

assuming that the founder is a device and the missing view is no view. What a device
goes on from is its handle or, when it has none, the snapshot it would load: the
invariant `Consistent` says that this only moves on while the device does not die with
an older snapshot, so that every message it sealed or opened is behind it (`Past`). That
a welcome does not take it back needs the member objects (`Fresh`): one is at hand only
while there is no handle, and any commit it can be welcomed with is newer than the
epoch on the device's disk. `KeepsOwnCommits` needs the shape of the commit tree as well.
Ancestry is stated as a least closed set of epochs, which has the facts of a recursive
definition (`AncestryOf`, `AncestryStays`) and can be proved about; `Branched` says that
no commit of a device is on a branch its member object could still be welcomed to, so
that a welcome only leaves commits of an earlier membership behind.

Only model-checked is liveness: `GossipDiesDown`, `Reaches`, `Shown`,
`FinishedGetsSession` and `Converges`. Liveness under fairness and ENABLED, induction over
data, and RECURSIVE operators are out of the prover's reach; no module here declares the
last. Every safety property a passing run checks is also stated by a theorem.

## Not modelled

- *Codecs, hex, padding, channels, identity, AEAD*: byte transformations without a state
  that changes. An id is the hash of its envelope and every ciphertext is authenticated,
  so damage on the way makes a frame that is dropped; where a damaged input is used
  all the same (the unsigned parts of a bundle), it is modelled.
- *The cryptographic libraries* (snow, openmls, ml-kem, dalek) and *redb*: taken to do
  what they promise, as the code relies on it.
- *A wipe that is interrupted* between zeroing the file and deleting it: it leaves a
  file that `open` rejects, and no call of the core goes on from there.
- *`FfiTransportHub`*: it passes calls through and keeps a log of events which nothing
  in the repository reads back.
- *Several groups on one device, several sessions of one pair*: they share no state
  but the identity, which does not change.
- *`delivery_ratio`* and the other counters of the simulation: they only read.
- *The loss of sessions and handles with a process*: the app holds them in memory only
  (`ffi.rs`), so a restart ends them; `Prekeys` and `Groups`, which are persisted, have it.
