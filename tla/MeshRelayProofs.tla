---- MODULE MeshRelayProofs ----
(***************************************************************************)
(* Theorems about MeshRelay, for any set of nodes and links, any number of *)
(* contacts and envelopes, any false positives, settings and clock.        *)
(*                                                                         *)
(* One inductive invariant, Sound, of four parts: the globals, the stores, *)
(* the contact states and the frames.  A frame and a stored copy carry the *)
(* same obligation, that their hop budget and the distance from the origin *)
(* stay within the initial budget; each hands it to the other.             *)
(***************************************************************************)
EXTENDS MeshRelay, EnvelopeStoreProofs

InHorizon(n, id, ttl) == ttl + Distance[Origin[id]][n] <= InitTtl[id]

StoreOK(n, es, next) ==
  /\ Index(es, next)
  /\ Cardinality(DOMAIN es) <= Capacity
  /\ \A id \in DOMAIN es : InHorizon(n, id, es[id].ttl)

PeersOK(n, ps, ts) ==
  /\ ps \in [DOMAIN ps -> PeerState]
  /\ DOMAIN ps \subseteq {p \in Node : <<n, p>> \in Peerings}
  /\ ts \subseteq DOMAIN ps

FrameOK(f) ==
  /\ f \in SummaryFrame \cup DataFrame
  /\ <<f.from, f.to>> \in Peerings
  /\ f.kind = "data" => InHorizon(f.to, f.id, f.ttl)

Globals ==
  /\ difficulty \in [Node -> Difficulties]
  /\ rate_limit \in [Node -> RateLimits]
  /\ now \in 0..MaxTime
  /\ links \subseteq Link
  /\ contacts \in 0..MaxContacts
  /\ DOMAIN composed \subseteq Id

Stores ==
  /\ entries = [n \in Node |-> entries[n]]
  /\ next_seq \in [Node -> Nat]
  /\ \A n \in Node : StoreOK(n, entries[n], next_seq[n])

Contacts ==
  /\ peers = [n \in Node |-> peers[n]]
  /\ told \in [Node -> SUBSET Node]
  /\ \A n \in Node : PeersOK(n, peers[n], told[n])

NetOK(bag) == \A f \in DOMAIN bag : FrameOK(f) /\ bag[f] \in Nat \ {0}

Sound == Globals /\ Stores /\ Contacts /\ NetOK(net)

----
(***************************************************************************)
(* Links.                                                                  *)
(***************************************************************************)
LEMMA PeeringsSymmetric ==
  ASSUME NEW n, NEW p, <<n, p>> \in Peerings
  PROVE  n \in Node /\ p \in Node /\ <<p, n>> \in Peerings /\ {n, p} \in Link
<1>1. {n, p} = {p, n}
  OBVIOUS
<1>2. QED
  BY <1>1 DEF Peerings

\* One hop costs at least the distance it covers.
LEMMA HopCovers ==
  ASSUME NEW n, NEW p, <<n, p>> \in Peerings,
         NEW id \in Id, NEW ttl \in Hops, InHorizon(n, id, ttl)
  PROVE  InHorizon(p, id, ttl - 1)
<1>0. n \in Node /\ p \in Node
  BY PeeringsSymmetric
<1>1. Origin[id] \in Node /\ InitTtl[id] \in Nat /\ ttl \in Nat
  BY OriginAssumption, TtlAssumption DEF Hops, Ttl
<1>2. /\ Distance[Origin[id]][n] \in Nat /\ Distance[Origin[id]][p] \in Nat
      /\ Distance[Origin[id]][p] <= Distance[Origin[id]][n] + 1
  BY <1>0, <1>1, DistanceAssumption
<1>3. QED
  BY <1>1, <1>2 DEF InHorizon

----
(***************************************************************************)
(* Frames and the bag of frames.                                           *)
(***************************************************************************)
LEMMA SummaryFrameOK ==
  ASSUME NEW n, NEW p, <<n, p>> \in Peerings, NEW held, held \subseteq Id
  PROVE  FrameOK(Summary(n, p, held))
  BY PeeringsSymmetric, BloomAssumption DEF FrameOK, Summary, SummaryIds, SummaryFrame

LEMMA DataFrameOK ==
  ASSUME NEW n, NEW p, <<n, p>> \in Peerings, NEW id \in Id, NEW ttl \in Hops,
         Forwardable(ttl), InHorizon(n, id, ttl), NEW proof \in 0..256
  PROVE  FrameOK(Data(n, p, id, DecrementTtl(ttl), proof))
<1>1. ttl - 1 \in Hops
  BY TtlAssumption DEF Hops, Forwardable
<1>2. InHorizon(p, id, ttl - 1)
  BY HopCovers
<1>3. QED
  BY <1>1, <1>2, PeeringsSymmetric DEF FrameOK, Data, DataFrame, DecrementTtl

LEMMA RelaysOK ==
  ASSUME NEW n, NEW id \in Id, NEW ttl \in Hops, InHorizon(n, id, ttl),
         NEW proof \in 0..256,
         NEW targets, \A p \in targets : <<n, p>> \in Peerings
  PROVE  \A f \in Relays(n, id, ttl, proof, targets) : FrameOK(f)
  BY DataFrameOK DEF Relays

LEMMA ProofRange == \A id \in Id, d \in Difficulties : ProofOf[id][d] \in 0..256
  BY ProofAssumption

LEMMA PushesOK ==
  ASSUME Sound, NEW n, NEW p, <<n, p>> \in Peerings, NEW ids
  PROVE  \A f \in Pushes(n, p, ids) : FrameOK(f)
<1>1. n \in Node
  BY PeeringsSymmetric
<1>2. StoreOK(n, entries[n], next_seq[n]) /\ difficulty[n] \in Difficulties
  BY <1>1 DEF Sound, Stores, Globals
<1>3. \A id \in DOMAIN entries[n] :
        /\ id \in Id /\ entries[n][id].ttl \in Hops
        /\ InHorizon(n, id, entries[n][id].ttl)
        /\ ProofOf[id][difficulty[n]] \in 0..256
  BY <1>2, ProofRange DEF StoreOK, Index, Entry
<1>4. QED
  BY <1>3, DataFrameOK DEF Pushes, MissingFromBloom

LEMMA NetGrown ==
  ASSUME NEW bag, NetOK(bag), NEW sent, \A g \in sent : FrameOK(g)
  PROVE  NetOK(bag (+) SetToBag(sent))
  BY DEF NetOK, (+), SetToBag

LEMMA NetShrunk ==
  ASSUME NEW bag, NetOK(bag), NEW f
  PROVE  NetOK(bag (-) SetToBag({f}))
  BY DEF NetOK, (-), SetToBag

----
(***************************************************************************)
(* The stores and the contact states.                                      *)
(***************************************************************************)
LEMMA StoreKeeps ==
  ASSUME Stores, NEW n \in Node, NEW id \in Id, NEW ttl \in Hops, InHorizon(n, id, ttl),
         Takes(n, id, ttl), Store(n, id, ttl)
  PROVE  Stores'
<1> DEFINE es == entries[n]
           evicted == Evictable(es, Capacity, id)
           after == Accepted(es, next_seq[n], id, ttl, evicted)
<1>1. StoreOK(n, es, next_seq[n]) /\ next_seq[n] \in Nat
  BY DEF Stores
<1>2. id \in Id \ DOMAIN es /\ Admits(es, Capacity, id)
  BY DEF Takes, Fresh
<1>3. /\ Index(after, next_seq[n] + 1)
      /\ DOMAIN after = (DOMAIN es \ evicted) \cup {id}
      /\ after[id] = [ttl |-> ttl, seq |-> next_seq[n]]
      /\ \A x \in DOMAIN es \ evicted : after[x] = es[x]
      /\ Cardinality(DOMAIN after) <= Capacity
  <2> HIDE DEF es, evicted
  <2>1. Index(es, next_seq[n]) /\ Cardinality(DOMAIN es) <= Capacity /\ Capacity \in Nat
    BY <1>1, BoundAssumption DEF StoreOK
  <2>2. evicted = Evictable(es, Capacity, id)
    BY DEF evicted
  <2>3. QED
    BY <1>2, <2>1, <2>2, AcceptedIndex
<1>4. StoreOK(n, after, next_seq[n] + 1)
  <2> HIDE DEF after, evicted
  <2>1. \A x \in DOMAIN after : InHorizon(n, x, after[x].ttl)
    BY <1>1, <1>3 DEF StoreOK
  <2>2. QED
    BY <1>3, <2>1 DEF StoreOK
<1>5. /\ entries' = [entries EXCEPT ![n] = after]
      /\ next_seq' = [next_seq EXCEPT ![n] = next_seq[n] + 1]
  BY DEF Store
<1> HIDE DEF after
<1>6. /\ entries'[n] = after /\ next_seq'[n] = next_seq[n] + 1
      /\ \A m \in Node \ {n} : entries'[m] = entries[m] /\ next_seq'[m] = next_seq[m]
      /\ entries' = [m \in Node |-> entries'[m]]
      /\ next_seq' \in [Node -> Nat]
  BY <1>1, <1>5 DEF Stores
<1>7. \A m \in Node : StoreOK(m, entries'[m], next_seq'[m])
  <2>1. TAKE m \in Node
  <2>2. CASE m = n
    BY <1>4, <1>6, <2>2
  <2>3. CASE m # n
    BY <1>6, <2>3 DEF Stores
  <2>4. QED
    BY <2>2, <2>3
<1>8. QED
  BY <1>6, <1>7 DEF Stores

LEMMA StoresUnchanged == Stores /\ UNCHANGED stores => Stores'
  BY DEF Stores, stores

\* Registering a contact, or recharging one, keeps the contact states.
LEMMA RegisterKeeps ==
  ASSUME Contacts, NEW n, NEW p, <<n, p>> \in Peerings, NEW state \in PeerState,
         Register(n, p, state),
         \/ UNCHANGED told
         \/ told' = [told EXCEPT ![n] = @ \cup {p}]
  PROVE  Contacts'
<1>1. n \in Node /\ p \in Node
  BY PeeringsSymmetric
<1>2. PeersOK(n, peers[n], told[n])
  BY <1>1 DEF Contacts
<1> DEFINE ps == With(peers[n], p, state)
<1>3. /\ ps \in [DOMAIN ps -> PeerState]
      /\ DOMAIN ps = DOMAIN peers[n] \cup {p}
      /\ DOMAIN ps \subseteq {q \in Node : <<n, q>> \in Peerings}
  BY <1>1, <1>2 DEF PeersOK, With
<1>4. peers' = [peers EXCEPT ![n] = ps]
  BY DEF Register
<1> HIDE DEF ps
<1>5. /\ peers'[n] = ps
      /\ \A m \in Node \ {n} : peers'[m] = peers[m]
      /\ peers' = [m \in Node |-> peers'[m]]
  BY <1>1, <1>4 DEF Contacts
<1>6. /\ told' \in [Node -> SUBSET Node]
      /\ told'[n] \subseteq told[n] \cup {p}
      /\ \A m \in Node \ {n} : told'[m] = told[m]
  BY <1>1 DEF Contacts
<1>7. \A m \in Node : PeersOK(m, peers'[m], told'[m])
  <2>1. TAKE m \in Node
  <2>2. CASE m = n
    BY <1>2, <1>3, <1>5, <1>6, <2>2 DEF PeersOK
  <2>3. CASE m # n
    BY <1>5, <1>6, <2>3 DEF Contacts
  <2>4. QED
    BY <2>2, <2>3
<1>8. QED
  BY <1>5, <1>6, <1>7 DEF Contacts

LEMMA ContactsUnchanged == Contacts /\ UNCHANGED <<peers, told>> => Contacts'
  BY DEF Contacts

\* What a handler reads of a peer is a contact state, known or not.
LEMMA PeerOrNewState ==
  ASSUME Contacts, NEW n \in Node, NEW p
  PROVE  PeerOrNew(n, p) \in PeerState
  BY DEF Contacts, PeersOK, PeerOrNew, NewPeer, NoTraffic, PeerState, RateLimiter

LEMMA ChargedState ==
  ASSUME NEW rate \in RateLimiter, NEW size \in Nat
  PROVE  Charged(rate, size) \in RateLimiter
<1>1. rate.envelopes + 1 \in Nat /\ rate.bytes + size \in Nat
  BY DEF RateLimiter
<1>2. \A envelopes, bytes \in Nat :
        [rate EXCEPT !.envelopes = envelopes, !.bytes = bytes] \in RateLimiter
  BY DEF RateLimiter
<1>3. QED
  BY <1>1, <1>2 DEF Charged

LEMMA InWindowState ==
  ASSUME NEW rate \in RateLimiter, NEW limit \in Limit, now \in Nat
  PROVE  InWindow(rate, limit) \in RateLimiter
<1> DEFINE seconds == IF limit.seconds = 0 THEN 1 ELSE limit.seconds
<1>1. seconds \in Nat \ {0}
  BY DEF Limit
<1>2. now \div seconds \in Nat
  BY <1>1
<1>3. QED
  BY <1>2 DEF InWindow, RateLimiter

\* What the handlers of data make of the sender's contact state.
LEMMA Recharged ==
  ASSUME Sound, NEW n \in Node, NEW p, NEW id \in Id,
         NEW rate, rate = InWindow(PeerOrNew(n, p).rate, rate_limit[n])
  PROVE  /\ [PeerOrNew(n, p) EXCEPT !.rate = rate] \in PeerState
         /\ [PeerOrNew(n, p) EXCEPT !.rate = Charged(rate, FrameBytes[id])] \in PeerState
<1>1. PeerOrNew(n, p) \in PeerState
  BY PeerOrNewState DEF Sound
<1>2. rate_limit[n] \in Limit /\ now \in Nat /\ FrameBytes[id] \in Nat
  BY LimitAssumption, BytesAssumption, BoundAssumption DEF Sound, Globals
<1>3. PeerOrNew(n, p).rate \in RateLimiter
  BY <1>1 DEF PeerState
<1>4. rate \in RateLimiter
  BY <1>2, <1>3, InWindowState
<1>5. Charged(rate, FrameBytes[id]) \in RateLimiter
  BY <1>2, <1>4, ChargedState
<1>6. QED
  BY <1>1, <1>4, <1>5 DEF PeerState

----
(***************************************************************************)
(* The initial state.                                                      *)
(***************************************************************************)
LEMMA EmptyStoreOK == \A n \in Node : StoreOK(n, NoEntries, 0)
<1>1. DOMAIN NoEntries = {} /\ NoEntries \in [DOMAIN NoEntries -> Entry]
  BY DEF NoEntries
<1>2. Index(NoEntries, 0)
  BY <1>1 DEF Index
<1>3. Cardinality(DOMAIN NoEntries) = 0
  BY <1>1, FS_EmptySet
<1>4. QED
  BY <1>1, <1>2, <1>3, BoundAssumption DEF StoreOK

LEMMA SoundInit == Init => Sound
<1> SUFFICES ASSUME Init PROVE Sound
  OBVIOUS
<1> USE DEF Init
<1>1. Globals
  BY DifficultyAssumption, LimitAssumption, BoundAssumption DEF Globals
<1>2. Stores
  BY EmptyStoreOK DEF Stores
<1>3. Contacts
  BY DEF Contacts, PeersOK, NoPeers
<1>4. NetOK(net)
  BY DEF NetOK, EmptyBag, SetToBag
<1>5. QED
  BY <1>1, <1>2, <1>3, <1>4 DEF Sound

----
(***************************************************************************)
(* The transport and the settings.                                         *)
(***************************************************************************)
LEMMA GlobalsUnchanged ==
  Globals /\ UNCHANGED <<settings, now, links, contacts, composed>> => Globals'
  BY DEF Globals, settings

LEMMA NetUnchanged == NetOK(net) /\ UNCHANGED net => NetOK(net')
  BY DEF NetOK

\* What a frame in flight says of its ends and of the envelope it carries.
LEMMA InFlight ==
  ASSUME Sound, NEW f \in DOMAIN net
  PROVE  /\ f.to \in Node /\ f.from \in Node
         /\ <<f.to, f.from>> \in Peerings
         /\ f.kind = "data" =>
              /\ f.id \in Id /\ f.ttl \in Hops /\ f.proof \in 0..256
              /\ InHorizon(f.to, f.id, f.ttl)
<1>1. FrameOK(f)
  BY DEF Sound, NetOK
<1>2. <<f.from, f.to>> \in Peerings
  BY <1>1 DEF FrameOK
<1>3. f.to \in Node /\ f.from \in Node /\ <<f.to, f.from>> \in Peerings
  BY <1>2, PeeringsSymmetric
<1>4. ASSUME f.kind = "data"
      PROVE  /\ f.id \in Id /\ f.ttl \in Hops /\ f.proof \in 0..256
             /\ InHorizon(f.to, f.id, f.ttl)
  BY <1>1, <1>4 DEF FrameOK, SummaryFrame, DataFrame
<1>5. QED
  BY <1>3, <1>4

\* The steps that leave the stores, the contact states and the frames alone.
LEMMA SoundWhenGlobal ==
  ASSUME Sound, Globals', UNCHANGED <<stores, peers, told, net>>
  PROVE  Sound'
<1>1. Stores'
  BY StoresUnchanged DEF Sound
<1>2. Contacts'
  BY ContactsUnchanged DEF Sound
<1>3. NetOK(net')
  BY NetUnchanged DEF Sound
<1>4. QED
  BY <1>1, <1>2, <1>3 DEF Sound

LEMMA SoundLinkUp ==
  ASSUME Sound, NEW e \in Peerings, LinkUp(e[1], e[2])
  PROVE  Sound'
<1>1. {e[1], e[2]} \in Link
  BY DEF Peerings
<1>2. contacts' \in 0..MaxContacts
  BY BoundAssumption DEF Sound, Globals, LinkUp
<1>3. links' \subseteq Link
  BY <1>1 DEF Sound, Globals, LinkUp
<1>4. Globals'
  BY <1>2, <1>3 DEF Sound, Globals, LinkUp, settings
<1>5. QED
  BY <1>4, SoundWhenGlobal DEF LinkUp

LEMMA SoundLinkDown ==
  ASSUME Sound, NEW l, LinkDown(l)
  PROVE  Sound'
<1>1. Globals'
  BY DEF Sound, Globals, LinkDown, settings
<1>2. QED
  BY <1>1, SoundWhenGlobal DEF LinkDown

LEMMA SoundTick == Sound /\ Tick => Sound'
<1> SUFFICES ASSUME Sound, Tick PROVE Sound'
  OBVIOUS
<1>1. Globals'
  BY BoundAssumption DEF Sound, Globals, Tick, settings, transport
<1>2. QED
  BY <1>1, SoundWhenGlobal DEF Tick, transport

LEMMA SoundSetPuzzleDifficulty ==
  ASSUME Sound, NEW n \in Node, NEW d \in Difficulties, SetPuzzleDifficulty(n, d)
  PROVE  Sound'
<1>1. Globals'
  BY DEF Sound, Globals, SetPuzzleDifficulty, transport
<1>2. QED
  BY <1>1, SoundWhenGlobal DEF SetPuzzleDifficulty, transport

LEMMA SoundSetRateLimits ==
  ASSUME Sound, NEW n \in Node, NEW limit \in RateLimits, SetRateLimits(n, limit)
  PROVE  Sound'
<1>1. Globals'
  BY DEF Sound, Globals, SetRateLimits, transport
<1>2. QED
  BY <1>1, SoundWhenGlobal DEF SetRateLimits, transport

LEMMA SoundLose ==
  ASSUME Sound, NEW f, Lose(f)
  PROVE  Sound'
<1>1. Globals' /\ Stores' /\ Contacts'
  BY GlobalsUnchanged, StoresUnchanged, ContactsUnchanged DEF Sound, Lose, transport
<1>2. NetOK(net')
  <2>1. NetOK(net) /\ net' = net (-) SetToBag({f})
    BY DEF Sound, Lose, NetWithout
  <2>2. QED
    BY <2>1, NetShrunk
<1>3. QED
  BY <1>1, <1>2 DEF Sound

----
(***************************************************************************)
(* Contact reports.                                                        *)
(***************************************************************************)
LEMMA HeldIds ==
  ASSUME Sound, NEW n \in Node
  PROVE  DOMAIN entries[n] \subseteq Id
  BY DEF Sound, Stores, StoreOK, Index

LEMMA SoundOnPeerConnected ==
  ASSUME Sound, NEW e \in Peerings, OnPeerConnected(e[1], e[2])
  PROVE  Sound'
<1> DEFINE n == e[1]
           p == e[2]
           hello == Summary(n, p, DOMAIN entries[n])
<1>1. <<n, p>> \in Peerings /\ n \in Node
  BY DEF Peerings
<1>2. Globals' /\ Stores'
  BY GlobalsUnchanged, StoresUnchanged DEF Sound, OnPeerConnected
<1>3. Contacts'
  <2>1. NewPeer(TRUE) \in PeerState
    BY DEF NewPeer, NoTraffic, PeerState, RateLimiter
  <2>2. /\ Contacts /\ Register(n, p, NewPeer(TRUE))
        /\ told' = [told EXCEPT ![n] = @ \cup {p}]
    BY DEF Sound, OnPeerConnected
  <2> HIDE DEF n, p
  <2>3. QED
    BY <1>1, <2>1, <2>2, RegisterKeeps
<1>4. NetOK(net')
  <2>1. NetOK(net) /\ net' = net (+) SetToBag({hello})
    BY DEF Sound, OnPeerConnected, NetWith
  <2>2. FrameOK(hello)
    <3>1. DOMAIN entries[n] \subseteq Id
      BY <1>1, HeldIds
    <3> HIDE DEF n, p
    <3>2. QED
      BY <1>1, <3>1, SummaryFrameOK
  <2> HIDE DEF hello
  <2>3. \A g \in {hello} : FrameOK(g)
    BY <2>2
  <2>4. NetOK(net (+) SetToBag({hello}))
    BY <2>1, <2>3, NetGrown
  <2>5. QED
    BY <2>1, <2>4
<1>5. QED
  BY <1>2, <1>3, <1>4 DEF Sound

LEMMA SoundOnPeerLost ==
  ASSUME Sound, NEW e \in Peerings, OnPeerLost(e[1], e[2])
  PROVE  Sound'
<1> DEFINE n == e[1]
           p == e[2]
           ps == Without(peers[n], {p})
<1>1. n \in Node
  BY DEF Peerings
<1>2. Globals' /\ Stores' /\ NetOK(net')
  BY GlobalsUnchanged, StoresUnchanged, NetUnchanged DEF Sound, OnPeerLost
<1>3. /\ peers' = [peers EXCEPT ![n] = ps]
      /\ told' = [told EXCEPT ![n] = @ \ {p}]
  BY DEF OnPeerLost
<1>4. PeersOK(n, peers[n], told[n]) /\ Contacts
  BY <1>1 DEF Sound, Contacts
<1>5. PeersOK(n, ps, told[n] \ {p})
  BY <1>4 DEF PeersOK, Without, Restrict
<1> HIDE DEF n, p, ps
<1>6. Contacts'
  <2>1. /\ peers'[n] = ps /\ told'[n] = told[n] \ {p}
        /\ \A m \in Node \ {n} : peers'[m] = peers[m] /\ told'[m] = told[m]
        /\ peers' = [m \in Node |-> peers'[m]]
        /\ told' \in [Node -> SUBSET Node]
    BY <1>1, <1>3, <1>4 DEF Contacts
  <2>2. \A m \in Node : PeersOK(m, peers'[m], told'[m])
    <3>1. TAKE m \in Node
    <3>2. CASE m = n
      BY <1>5, <2>1, <3>2
    <3>3. CASE m # n
      BY <1>4, <2>1, <3>3 DEF Contacts
    <3>4. QED
      BY <3>2, <3>3
  <2>3. QED
    BY <2>1, <2>2 DEF Contacts
<1>7. QED
  BY <1>2, <1>6 DEF Sound

----
(***************************************************************************)
(* A restart.  The reloaded envelopes are some of those held before, each  *)
(* with its hop budget; they are numbered afresh.                          *)
(***************************************************************************)
LEMMA ReloadedOK ==
  ASSUME NEW n, NEW es, NEW next, StoreOK(n, es, next),
         NEW ids, ids \subseteq DOMAIN es, NEW seq \in Bijection(ids, 0..(Cardinality(ids) - 1)),
         NEW after, after = [id \in ids |-> [ttl |-> es[id].ttl, seq |-> seq[id]]]
  PROVE  StoreOK(n, after, Cardinality(ids)) /\ Cardinality(ids) \in Nat
<1>1. IsFiniteSet(DOMAIN es) /\ DOMAIN es \subseteq Id
  BY IdAssumption, FS_Subset DEF StoreOK, Index
<1>2. /\ IsFiniteSet(ids) /\ Cardinality(ids) \in Nat /\ Cardinality(DOMAIN es) \in Nat
      /\ Cardinality(ids) <= Cardinality(DOMAIN es)
  BY <1>1, FS_Subset, FS_CardinalityType
<1>3. Cardinality(ids) <= Capacity
  BY <1>2, BoundAssumption DEF StoreOK
<1>4. /\ \A id \in ids : seq[id] \in 0..(Cardinality(ids) - 1)
      /\ \A x, y \in ids : seq[x] = seq[y] => x = y
  BY DEF Bijection, Injection, IsInjective
<1>5. \A id \in ids : es[id].ttl \in Hops /\ InHorizon(n, id, es[id].ttl)
  BY DEF StoreOK, Index, Entry
<1>6. \A id \in ids : seq[id] \in Nat /\ seq[id] < Cardinality(ids)
  BY <1>2, <1>4
<1>7. /\ DOMAIN after = ids
      /\ \A id \in ids : after[id].ttl = es[id].ttl /\ after[id].seq = seq[id]
      /\ \A id \in ids : after[id] \in Entry
      /\ after \in [ids -> Entry]
  BY <1>5, <1>6 DEF Entry
<1>8. Index(after, Cardinality(ids))
  BY <1>1, <1>2, <1>4, <1>6, <1>7 DEF Index
<1>9. QED
  BY <1>2, <1>3, <1>5, <1>7, <1>8 DEF StoreOK

LEMMA SoundRestart ==
  ASSUME Sound, NEW n \in Node, Restart(n)
  PROVE  Sound'
<1>1. Globals'
  <2>1. 0 \in Difficulties /\ DefaultLimit \in RateLimits
    BY DifficultyAssumption, LimitAssumption
  <2>2. difficulty' \in [Node -> Difficulties] /\ rate_limit' \in [Node -> RateLimits]
    BY <2>1 DEF Sound, Globals, Restart
  <2>3. links' \subseteq Link
    BY DEF Sound, Globals, Restart
  <2>4. QED
    BY <2>2, <2>3 DEF Sound, Globals, Restart
<1>2. Stores'
  <2>1. /\ StoreOK(n, entries[n], next_seq[n])
        /\ entries = [m \in Node |-> entries[m]] /\ next_seq \in [Node -> Nat]
        /\ \A m \in Node : StoreOK(m, entries[m], next_seq[m])
    BY DEF Sound, Stores
  <2>2. PICK ids \in SUBSET DOMAIN entries[n] :
          /\ \E seq \in Bijection(ids, 0..(Cardinality(ids) - 1)) :
               entries' = [entries EXCEPT ![n] =
                 [id \in ids |-> [ttl |-> entries[n][id].ttl, seq |-> seq[id]]]]
          /\ next_seq' = [next_seq EXCEPT ![n] = Cardinality(ids)]
    BY DEF Restart
  <2>3. PICK seq \in Bijection(ids, 0..(Cardinality(ids) - 1)) :
          entries' = [entries EXCEPT ![n] =
            [id \in ids |-> [ttl |-> entries[n][id].ttl, seq |-> seq[id]]]]
    BY <2>2
  <2> DEFINE after == [id \in ids |-> [ttl |-> entries[n][id].ttl, seq |-> seq[id]]]
  <2>4. entries' = [entries EXCEPT ![n] = after]
    BY <2>3
  <2>5. ids \subseteq DOMAIN entries[n]
    OBVIOUS
  <2>6. after = [id \in ids |-> [ttl |-> entries[n][id].ttl, seq |-> seq[id]]]
    OBVIOUS
  <2> HIDE DEF after
  <2>7. StoreOK(n, after, Cardinality(ids)) /\ Cardinality(ids) \in Nat
    BY <2>1, <2>5, <2>6, ReloadedOK
  <2>8. /\ entries'[n] = after /\ next_seq'[n] = Cardinality(ids)
        /\ \A m \in Node \ {n} : entries'[m] = entries[m] /\ next_seq'[m] = next_seq[m]
        /\ entries' = [m \in Node |-> entries'[m]]
        /\ next_seq' \in [Node -> Nat]
    BY <2>1, <2>2, <2>4, <2>7
  <2>9. \A m \in Node : StoreOK(m, entries'[m], next_seq'[m])
    <3>1. TAKE m \in Node
    <3>2. CASE m = n
      BY <2>7, <2>8, <3>2
    <3>3. CASE m # n
      BY <2>1, <2>8, <3>3
    <3>4. QED
      BY <3>2, <3>3
  <2>10. QED
    BY <2>8, <2>9 DEF Stores
<1>3. Contacts'
  <2>1. PeersOK(n, NoPeers, {})
    BY DEF PeersOK, NoPeers
  <2>2. /\ peers'[n] = NoPeers /\ told'[n] = {}
        /\ \A m \in Node \ {n} : peers'[m] = peers[m] /\ told'[m] = told[m]
        /\ peers' = [m \in Node |-> peers'[m]]
        /\ told' \in [Node -> SUBSET Node]
    BY DEF Sound, Contacts, Restart
  <2>3. \A m \in Node : PeersOK(m, peers'[m], told'[m])
    <3>1. TAKE m \in Node
    <3>2. CASE m = n
      BY <2>1, <2>2, <3>2
    <3>3. CASE m # n
      BY <2>2, <3>3 DEF Sound, Contacts
    <3>4. QED
      BY <3>2, <3>3
  <2>4. QED
    BY <2>2, <2>3 DEF Contacts
<1>4. NetOK(net')
  BY DEF Sound, NetOK, Restart
<1>5. QED
  BY <1>1, <1>2, <1>3, <1>4 DEF Sound

----
(***************************************************************************)
(* The handlers of frames, and the composition of an envelope.             *)
(***************************************************************************)
\* The frames a handler sends, or a part of them, join the rest.
LEMMA NetAnswered ==
  ASSUME Sound, NEW f, NEW out, \A g \in out : FrameOK(g), NEW sent \in SUBSET out
  PROVE  NetOK(NetWithout(f) (+) SetToBag(sent)) /\ NetOK(NetWith(sent))
<1>1. \A g \in sent : FrameOK(g)
  OBVIOUS
<1>2. NetOK(net)
  BY DEF Sound
<1>3. NetOK(NetWithout(f))
  BY <1>2, NetShrunk DEF NetWithout
<1>4. NetOK(NetWithout(f) (+) SetToBag(sent))
  BY <1>1, <1>3, NetGrown
<1>5. NetOK(net (+) SetToBag(sent))
  BY <1>1, <1>2, NetGrown
<1>6. QED
  BY <1>4, <1>5 DEF NetWith

LEMMA SoundOnSummary ==
  ASSUME Sound, NEW f \in DOMAIN net, OnSummary(f)
  PROVE  Sound'
<1> DEFINE n == f.to
           p == f.from
           out == Replies(n, p) \cup Pushes(n, p, f.ids)
<1>1. n \in Node /\ p \in Node /\ <<n, p>> \in Peerings
  BY InFlight
<1>2. Globals' /\ Stores'
  BY GlobalsUnchanged, StoresUnchanged DEF Sound, OnSummary, transport
<1>3. Contacts'
  <2>1. PeerOrNew(n, p) \in PeerState
    BY <1>1, PeerOrNewState DEF Sound
  <2>2. [PeerOrNew(n, p) EXCEPT !.summary_sent = TRUE] \in PeerState
    BY <2>1 DEF PeerState
  <2>3. /\ Contacts /\ UNCHANGED told
        /\ Register(n, p, [PeerOrNew(n, p) EXCEPT !.summary_sent = TRUE])
    BY DEF Sound, OnSummary, transport
  <2> HIDE DEF n, p
  <2>4. QED
    BY <1>1, <2>2, <2>3, RegisterKeeps
<1>4. \A g \in out : FrameOK(g)
  <2>1. \A g \in Replies(n, p) : FrameOK(g)
    <3>1. DOMAIN entries[n] \subseteq Id
      BY <1>1, HeldIds
    <3> HIDE DEF n, p
    <3>2. FrameOK(Summary(n, p, DOMAIN entries[n]))
      BY <1>1, <3>1, SummaryFrameOK
    <3>3. QED
      BY <3>2 DEF Replies
  <2>2. \A g \in Pushes(n, p, f.ids) : FrameOK(g)
    BY <1>1, PushesOK
  <2>3. QED
    BY <2>1, <2>2
<1>5. NetOK(net')
  <2>1. PICK sent \in SUBSET out : net' = NetWithout(f) (+) SetToBag(sent)
    BY DEF OnSummary
  <2> HIDE DEF out
  <2>2. QED
    BY <1>4, <2>1, NetAnswered
<1>6. QED
  BY <1>2, <1>3, <1>5 DEF Sound

LEMMA SoundOnWeakProof ==
  ASSUME Sound, NEW f \in DOMAIN net, OnWeakProof(f)
  PROVE  Sound'
<1>1. Globals' /\ Stores' /\ Contacts'
  BY GlobalsUnchanged, StoresUnchanged, ContactsUnchanged DEF Sound, OnWeakProof, transport
<1>2. NetOK(net')
  BY NetShrunk DEF Sound, OnWeakProof, NetWithout
<1>3. QED
  BY <1>1, <1>2 DEF Sound

LEMMA SoundOnOverBudget ==
  ASSUME Sound, NEW f \in DOMAIN net, OnOverBudget(f)
  PROVE  Sound'
<1> DEFINE n == f.to
           p == f.from
           rate == InWindow(PeerOrNew(n, p).rate, rate_limit[n])
<1>1. n \in Node /\ <<n, p>> \in Peerings /\ f.id \in Id
  BY InFlight DEF OnOverBudget
<1>2. Globals' /\ Stores'
  BY GlobalsUnchanged, StoresUnchanged DEF Sound, OnOverBudget, transport
<1>3. Contacts'
  <2>1. /\ Contacts /\ UNCHANGED told
        /\ Register(n, p, [PeerOrNew(n, p) EXCEPT !.rate = rate])
    BY DEF Sound, OnOverBudget, transport
  <2> HIDE DEF n, p
  <2>2. [PeerOrNew(n, p) EXCEPT !.rate = rate] \in PeerState
    BY <1>1, Recharged
  <2> HIDE DEF rate
  <2>3. QED
    BY <1>1, <2>1, <2>2, RegisterKeeps
<1>4. NetOK(net')
  BY NetShrunk DEF Sound, OnOverBudget, NetWithout
<1>5. QED
  BY <1>2, <1>3, <1>4 DEF Sound

LEMMA SoundOnData ==
  ASSUME Sound, NEW f \in DOMAIN net, OnData(f)
  PROVE  Sound'
<1> DEFINE n == f.to
           p == f.from
           rate == InWindow(PeerOrNew(n, p).rate, rate_limit[n])
           charged == Charged(rate, FrameBytes[f.id])
           out == Relays(n, f.id, f.ttl, f.proof, DOMAIN peers[n] \ {p})
<1>1. /\ n \in Node /\ <<n, p>> \in Peerings
      /\ f.id \in Id /\ f.ttl \in Hops /\ f.proof \in 0..256 /\ InHorizon(n, f.id, f.ttl)
  BY InFlight DEF OnData
<1>2. Globals'
  BY GlobalsUnchanged DEF Sound, OnData, transport
<1>3. Contacts'
  <2>1. /\ Contacts /\ UNCHANGED told
        /\ Register(n, p, [PeerOrNew(n, p) EXCEPT !.rate = charged])
    BY DEF Sound, OnData, transport
  <2> HIDE DEF n, p
  <2>2. [PeerOrNew(n, p) EXCEPT !.rate = charged] \in PeerState
    BY <1>1, Recharged
  <2> HIDE DEF charged, rate
  <2>3. QED
    BY <1>1, <2>1, <2>2, RegisterKeeps
<1>4. CASE /\ Takes(n, f.id, f.ttl)
           /\ Store(n, f.id, f.ttl)
           /\ \E sent \in SUBSET out : net' = NetWithout(f) (+) SetToBag(sent)
  <2>1. Stores'
    <3> HIDE DEF n
    <3>1. QED
      BY <1>1, <1>4, StoreKeeps DEF Sound
  <2>2. \A g \in out : FrameOK(g)
    <3>1. PeersOK(n, peers[n], told[n])
      BY <1>1 DEF Sound, Contacts
    <3>2. \A q \in DOMAIN peers[n] \ {p} : <<n, q>> \in Peerings
      BY <3>1 DEF PeersOK
    <3> HIDE DEF n, p
    <3>3. QED
      BY <1>1, <3>2, RelaysOK
  <2>3. NetOK(net')
    <3> HIDE DEF out
    <3>1. QED
      BY <1>4, <2>2, NetAnswered
  <2>4. QED
    BY <1>2, <1>3, <2>1, <2>3 DEF Sound
<1>5. CASE net' = NetWithout(f) /\ UNCHANGED stores
  <2>1. Stores' /\ NetOK(net')
    BY <1>5, StoresUnchanged, NetShrunk DEF Sound, NetWithout
  <2>2. QED
    BY <1>2, <1>3, <2>1 DEF Sound
<1>6. QED
  BY <1>4, <1>5 DEF OnData

LEMMA SoundComposeLocal ==
  ASSUME Sound, NEW id \in Id, ComposeLocal(id)
  PROVE  Sound'
<1> DEFINE n == Origin[id]
           ttl == InitTtl[id]
           proof == ProofOf[id][difficulty[n]]
           out == Relays(n, id, ttl, proof, DOMAIN peers[n])
<1>1. n \in Node /\ ttl \in Ttl
  BY OriginAssumption
<1>2. proof \in 0..256
  <2>1. difficulty[n] \in Difficulties
    BY <1>1 DEF Sound, Globals
  <2>2. QED
    BY <2>1, ProofRange
<1>3. Globals'
  BY DEF Sound, Globals, ComposeLocal, With, settings, transport
<1>4. Contacts'
  BY ContactsUnchanged DEF Sound, ComposeLocal, transport
<1>5. CASE /\ Takes(n, id, ttl)
           /\ Store(n, id, ttl)
           /\ \E sent \in SUBSET out : net' = NetWith(sent)
  <2>1. ttl \in Hops
    BY <1>1, <1>5, TtlAssumption DEF Takes, Fresh, Ttl, Hops
  <2>2. InHorizon(n, id, ttl)
    BY <1>1, <2>1, DistanceAssumption, TtlAssumption DEF InHorizon, Hops
  <2>3. Stores'
    <3> HIDE DEF n, ttl
    <3>1. QED
      BY <1>1, <1>5, <2>1, <2>2, StoreKeeps DEF Sound
  <2>4. \A g \in out : FrameOK(g)
    <3>1. PeersOK(n, peers[n], told[n])
      BY <1>1 DEF Sound, Contacts
    <3>2. \A q \in DOMAIN peers[n] : <<n, q>> \in Peerings
      BY <3>1 DEF PeersOK
    <3> HIDE DEF n, ttl, proof
    <3>3. QED
      BY <1>2, <2>1, <2>2, <3>2, RelaysOK
  <2>5. NetOK(net')
    <3> HIDE DEF out
    <3>1. QED
      BY <1>5, <2>4, NetAnswered
  <2>6. QED
    BY <1>3, <1>4, <2>3, <2>5 DEF Sound
<1>6. CASE UNCHANGED <<stores, net>>
  <2>1. Stores' /\ NetOK(net')
    BY <1>6, StoresUnchanged, NetUnchanged DEF Sound
  <2>2. QED
    BY <1>3, <1>4, <2>1 DEF Sound
<1>7. QED
  BY <1>5, <1>6 DEF ComposeLocal

----
(***************************************************************************)
(* The invariant, and what it gives.                                       *)
(***************************************************************************)
LEMMA SoundNext == Sound /\ [Next]_vars => Sound'
<1> SUFFICES ASSUME Sound, [Next]_vars PROVE Sound'
  OBVIOUS
<1>1. CASE \E e \in Peerings : LinkUp(e[1], e[2])
  BY <1>1, SoundLinkUp
<1>2. CASE Report
  BY <1>2, SoundOnPeerConnected, SoundOnPeerLost DEF Report
<1>3. CASE \E l \in links : LinkDown(l)
  BY <1>3, SoundLinkDown
<1>4. CASE Tick
  BY <1>4, SoundTick
<1>5. CASE \E n \in Node, d \in Difficulties : SetPuzzleDifficulty(n, d)
  BY <1>5, SoundSetPuzzleDifficulty
<1>6. CASE \E n \in Node, limit \in RateLimits : SetRateLimits(n, limit)
  BY <1>6, SoundSetRateLimits
<1>7. CASE \E id \in Id : ComposeLocal(id)
  BY <1>7, SoundComposeLocal
<1>8. CASE \E n \in Node : Restart(n)
  BY <1>8, SoundRestart
<1>9. CASE Transit
  <2>1. PICK f \in DOMAIN net : OnFrame(f) \/ Lose(f)
    BY <1>9 DEF Transit, BagToSet
  <2>2. QED
    BY <2>1, SoundOnSummary, SoundOnWeakProof, SoundOnOverBudget, SoundOnData, SoundLose
    DEF OnFrame
<1>10. CASE UNCHANGED vars
  BY <1>10, GlobalsUnchanged, SoundWhenGlobal DEF Sound, vars, transport
<1>11. QED
  BY <1>1, <1>2, <1>3, <1>4, <1>5, <1>6, <1>7, <1>8, <1>9, <1>10 DEF Next

LEMMA SoundTyped == Sound => TypeOK
  BY DEF Sound, Globals, Stores, Contacts, NetOK, StoreOK, PeersOK, FrameOK, Index, TypeOK

LEMMA SoundHorizon == Sound => HopHorizon
  BY DEF Sound, Stores, NetOK, StoreOK, FrameOK, InHorizon, HopHorizon

LEMMA SoundAlways == Spec => []Sound
<1>1. QED
  BY SoundInit, SoundNext, PTL DEF Spec

\* Every reachable state of a mesh of any size is well typed, with every store within its
\* capacity, restarts included (relay.rs, and engine.rs under it).
THEOREM RelayTypeCorrect == Spec => []TypeOK
<1>1. QED
  BY SoundAlways, SoundTyped, PTL

\* On any mesh no copy of an envelope, stored or in flight, is further from its origin
\* than the hops it has spent: `decrement_ttl` bounds the reach of an envelope whatever
\* connects, drops, restarts, is lost or arrives late.
THEOREM HorizonHolds == Spec => []HopHorizon
<1>1. QED
  BY SoundAlways, SoundHorizon, PTL

----
(***************************************************************************)
(* Proofs of work on what is passed on.                                    *)
(***************************************************************************)
ProvenFrames(frames) == \A f \in frames : f.kind = "data" => f.proof >= difficulty[f.from]

\* A step that only takes frames out, and puts those of `sent` in, sends those of `sent`.
LEMMA SentAre ==
  ASSUME Sound, NEW f, NEW sent,
         \/ net' = NetWithout(f) (+) SetToBag(sent)
         \/ net' = NetWith(sent)
  PROVE  FramesSent \subseteq sent
<1>1. \A g \in DOMAIN net : net[g] \in Nat \ {0}
  BY DEF Sound, NetOK
<1>2. CASE net' = NetWith(sent)
  BY <1>1, <1>2 DEF NetWith, FramesSent, (+), SetToBag
<1>3. CASE net' = NetWithout(f) (+) SetToBag(sent)
  <2> DEFINE rest == NetWithout(f)
  <2>1. /\ DOMAIN rest \subseteq DOMAIN net
        /\ \A g \in DOMAIN rest : rest[g] \in Nat /\ rest[g] <= net[g]
    BY <1>1 DEF NetWithout, (-), SetToBag
  <2>2. net' = rest (+) SetToBag(sent)
    BY <1>3
  <2> HIDE DEF rest
  <2>3. QED
    BY <1>1, <2>1, <2>2 DEF FramesSent, (+), SetToBag
<1>4. QED
  BY <1>2, <1>3

LEMMA NothingSent ==
  ASSUME Sound,
         \/ UNCHANGED net
         \/ \E f : net' = NetWithout(f)
         \/ \E kept \in SUBSET DOMAIN net : net' = [f \in kept |-> net[f]]
  PROVE  FramesSent = {}
<1>1. \A g \in DOMAIN net : net[g] \in Nat \ {0}
  BY DEF Sound, NetOK
<1>2. CASE \E f : net' = NetWithout(f)
  BY <1>1, <1>2 DEF FramesSent, NetWithout, (-), SetToBag
<1>3. CASE UNCHANGED net
  BY <1>1, <1>3 DEF FramesSent
<1>4. CASE \E kept \in SUBSET DOMAIN net : net' = [f \in kept |-> net[f]]
  BY <1>1, <1>4 DEF FramesSent
<1>5. QED
  BY <1>2, <1>3, <1>4

LEMMA SolvedProven ==
  ASSUME Sound, NEW n \in Node, NEW id \in Id
  PROVE  ProofOf[id][difficulty[n]] >= difficulty[n]
  BY ProofAssumption DEF Sound, Globals

LEMMA FramesProven == Sound /\ Next => ProvenFrames(FramesSent)
<1> SUFFICES ASSUME Sound, Next PROVE ProvenFrames(FramesSent)
  OBVIOUS
<1>1. CASE FramesSent = {}
  BY <1>1 DEF ProvenFrames
<1>2. ASSUME NEW e \in Peerings, OnPeerConnected(e[1], e[2])
      PROVE  ProvenFrames(FramesSent)
  <2>1. FramesSent \subseteq {Summary(e[1], e[2], DOMAIN entries[e[1]])}
    BY <1>2, SentAre DEF OnPeerConnected
  <2>2. QED
    BY <2>1 DEF ProvenFrames, Summary
<1>3. ASSUME NEW f \in DOMAIN net, OnSummary(f)
      PROVE  ProvenFrames(FramesSent)
  <2>1. PICK sent \in SUBSET (Replies(f.to, f.from) \cup Pushes(f.to, f.from, f.ids)) :
          net' = NetWithout(f) (+) SetToBag(sent)
    BY <1>3 DEF OnSummary
  <2>2. FramesSent \subseteq sent
    BY <2>1, SentAre
  <2>3. f.to \in Node /\ DOMAIN entries[f.to] \subseteq Id
    BY InFlight, HeldIds
  <2>4. \A g \in Replies(f.to, f.from) : g.kind = "summary"
    BY DEF Replies, Summary
  <2>5. ProvenFrames(Pushes(f.to, f.from, f.ids))
    BY <2>3, SolvedProven DEF ProvenFrames, Pushes, MissingFromBloom, Data
  <2>6. QED
    BY <2>1, <2>2, <2>4, <2>5 DEF ProvenFrames
<1>4. ASSUME NEW f \in DOMAIN net, OnData(f), NEW sent,
             sent \subseteq Relays(f.to, f.id, f.ttl, f.proof, DOMAIN peers[f.to] \ {f.from}),
             net' = NetWithout(f) (+) SetToBag(sent)
      PROVE  ProvenFrames(FramesSent)
  <2>1. FramesSent \subseteq sent
    BY <1>4, SentAre
  <2>2. f.proof >= difficulty[f.to]
    BY <1>4 DEF OnData, Verifies
  <2>3. QED
    BY <1>4, <2>1, <2>2 DEF ProvenFrames, Relays, Data
<1>5. ASSUME NEW id \in Id, NEW sent,
             sent \subseteq Relays(Origin[id], id, InitTtl[id],
                                   ProofOf[id][difficulty[Origin[id]]],
                                   DOMAIN peers[Origin[id]]),
             net' = NetWith(sent)
      PROVE  ProvenFrames(FramesSent)
  <2>1. FramesSent \subseteq sent
    BY <1>5, SentAre
  <2>2. ProofOf[id][difficulty[Origin[id]]] >= difficulty[Origin[id]]
    BY OriginAssumption, SolvedProven
  <2>3. QED
    BY <1>5, <2>1, <2>2 DEF ProvenFrames, Relays, Data
<1>6. CASE UNCHANGED net
  BY <1>1, <1>6, NothingSent
<1>7. ASSUME NEW f \in DOMAIN net, OnFrame(f) \/ Lose(f)
      PROVE  ProvenFrames(FramesSent)
  <2>1. CASE net' = NetWithout(f)
    BY <1>1, <2>1, NothingSent
  <2>2. CASE OnData(f)
    BY <1>4, <2>1, <2>2 DEF OnData
  <2>3. QED
    BY <1>3, <1>7, <2>1, <2>2 DEF OnFrame, OnWeakProof, OnOverBudget, Lose
<1>8. ASSUME NEW id \in Id, ComposeLocal(id)
      PROVE  ProvenFrames(FramesSent)
  BY <1>5, <1>6, <1>8 DEF ComposeLocal
<1>9. CASE \E n \in Node : Restart(n)
  <2>1. PICK n \in Node : net' = [f \in {g \in DOMAIN net : g.to # n} |-> net[f]]
    BY <1>9, Zenon DEF Restart
  <2>2. QED
    BY <1>1, <2>1, NothingSent
<1>10. CASE Transit
  BY <1>7, <1>10 DEF Transit, BagToSet
<1>11. CASE Report
  BY <1>2, <1>6, <1>11 DEF Report, OnPeerLost
<1>12. QED
  BY <1>6, <1>8, <1>9, <1>10, <1>11
  DEF Next, LinkUp, LinkDown, Tick, SetPuzzleDifficulty, SetRateLimits

\* Whatever the settings of the nodes and whoever changes them when, a node passes an
\* envelope on only with a proof of work it would itself accept at that moment.
THEOREM PassesOnVerifiedHolds == Spec => PassesOnVerified
<1>1. Sound /\ [Next]_vars =>
        [\A f \in FramesSent : f.kind = "data" => f.proof >= difficulty[f.from]]_vars
  BY FramesProven DEF ProvenFrames
<1>2. QED
  BY <1>1, SoundAlways, PTL DEF Spec, PassesOnVerified
====
