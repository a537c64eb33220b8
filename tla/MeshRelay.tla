---- MODULE MeshRelay ----
(***************************************************************************)
(* Nodes of core/src/relay.rs (`RelayEngine`), each run as                 *)
(* core/src/ffi_node.rs (`FfiMeshNode`) runs it: an envelope store, the    *)
(* state kept of every current contact, and the frames the nodes send.     *)
(*                                                                         *)
(* A handler holds the node's mutex from its first read to its last write, *)
(* so it is one step; what it returns is handed to the transport after the *)
(* unlock, so frames may overtake one another.  The transport is external: *)
(* it delivers the frames of a link in any order, reports connections and  *)
(* losses some time after they happen, and names a peer by one handle.     *)
(***************************************************************************)
EXTENDS EnvelopeStore, Bags

CONSTANTS
  Node,
  Link,           \* the pairs of nodes that may meet, as two-element sets
  Distance,       \* hop distances over the links
  Origin,         \* the node each envelope is composed on
  InitTtl,        \* the hop budget it is composed with
  Capacity,       \* the capacity of every store
  FalsePositives, \* ids a summary of a set of ids claims without their being in it
  Difficulties,   \* the puzzle difficulties a node may be set to
  ProofOf,        \* strength of the proof `solve` finds for an id at a difficulty
  RateLimits,     \* the rate limits a node may be set to
  FrameBytes,     \* size of the data frame of each envelope
  DiskFaults,     \* whether the write behind `accept` may fail
  MaxContacts,    \* bound on the number of times a link comes up
  MaxDrops,       \* bound on the number of times a link goes down
  MaxTime         \* bound on the clock

Peerings == {e \in Node \X Node : {e[1], e[2]} \in Link}

Limit        == [envelopes : Nat, bytes : Nat, seconds : Nat]
DefaultLimit == [envelopes |-> 120, bytes |-> 2000000, seconds |-> 60]

ASSUME LinkAssumption       == \A l \in Link : \E n, p \in Node : n # p /\ l = {n, p}
ASSUME DistanceAssumption   ==
  /\ Distance \in [Node -> [Node -> Nat]]
  /\ \A o \in Node : Distance[o][o] = 0
  /\ \A o \in Node, e \in Peerings : Distance[o][e[2]] <= Distance[o][e[1]] + 1
ASSUME OriginAssumption     == Origin \in [Id -> Node] /\ InitTtl \in [Id -> Ttl]
ASSUME BloomAssumption      == FalsePositives \in [SUBSET Id -> SUBSET Id]
ASSUME DifficultyAssumption == Difficulties \subseteq 0..255 /\ 0 \in Difficulties
ASSUME ProofAssumption      ==
  /\ ProofOf \in [Id -> [Difficulties -> 0..256]]
  /\ \A id \in Id, d \in Difficulties : ProofOf[id][d] >= d
ASSUME LimitAssumption      == RateLimits \subseteq Limit /\ DefaultLimit \in RateLimits
ASSUME BytesAssumption      == FrameBytes \in [Id -> Nat]
ASSUME BoundAssumption      ==
  /\ Capacity \in Nat
  /\ DiskFaults \in BOOLEAN
  /\ MaxContacts \in Nat /\ MaxDrops \in Nat /\ MaxTime \in Nat

VARIABLES
  entries,     \* each node's held envelopes
  next_seq,    \* each node's insertion counter
  peers,       \* each node's contact state, by peer
  difficulty,  \* each node's puzzle_difficulty_bits
  rate_limit,  \* each node's rate limits
  now,         \* the time callers pass
  links,       \* transport: the links that are up
  told,        \* transport: the peers each node has been told are connected
  net,         \* transport: the bag of frames in flight
  contacts,    \* history: how often a link came up
  composed     \* history: composed ids, with the contacts there had been

stores    == <<entries, next_seq>>
settings  == <<difficulty, rate_limit>>
transport == <<links, told, contacts>>
vars      == <<stores, peers, settings, now, transport, net, composed>>

----
(***************************************************************************)
(* Frames.  A summary is what its Bloom filter answers `true` for, which   *)
(* is a function of the ids inserted; a puzzle proof is its strength.  An  *)
(* envelope travels without its id, which the receiver computes from all   *)
(* it reads but the hop budget: copies of one id differ in `ttl` alone.    *)
(***************************************************************************)
SummaryFrame == [kind : {"summary"}, from : Node, to : Node, ids : SUBSET Id]
DataFrame    ==
  [kind : {"data"}, from : Node, to : Node, id : Id, ttl : Hops, proof : 0..256]

SummaryIds(held) == held \cup FalsePositives[held]

Summary(n, p, held) ==
  [kind |-> "summary", from |-> n, to |-> p, ids |-> SummaryIds(held)]

Data(n, p, id, ttl, proof) ==
  [kind |-> "data", from |-> n, to |-> p, id |-> id, ttl |-> ttl, proof |-> proof]

\* Mutant of Verifies: the proof is not looked at.
VerifiesAnything(n, proof) == TRUE

Verifies(n, proof) == proof >= difficulty[n]

----
(***************************************************************************)
(* `RateLimiter`: fixed windows, numbered by the clock.                    *)
(***************************************************************************)
RateLimiter == [window : Nat, envelopes : Nat, bytes : Nat]

NoTraffic == [window |-> 0, envelopes |-> 0, bytes |-> 0]

InWindow(rate, limit) ==
  LET seconds == IF limit.seconds = 0 THEN 1 ELSE limit.seconds
      window  == now \div seconds
  IN  IF window = rate.window
      THEN rate
      ELSE [window |-> window, envelopes |-> 0, bytes |-> 0]

WithinBudget(rate, size, limit) ==
  rate.envelopes < limit.envelopes /\ rate.bytes + size <= limit.bytes

Charged(rate, size) ==
  [rate EXCEPT !.envelopes = @ + 1, !.bytes = @ + size]

----
(***************************************************************************)
(* `PeerState`, and what the handlers read of a peer they may not know.    *)
(***************************************************************************)
PeerState == [summary_sent : BOOLEAN, rate : RateLimiter]

NewPeer(summary_sent) == [summary_sent |-> summary_sent, rate |-> NoTraffic]

NoPeers == [p \in {} |-> NewPeer(FALSE)]

PeerOrNew(n, p) == IF p \in DOMAIN peers[n] THEN peers[n][p] ELSE NewPeer(FALSE)

Register(n, p, state) == peers' = [peers EXCEPT ![n] = With(@, p, state)]

----
(***************************************************************************)
(* `FfiMeshNode` hands its outbound frames to the transport one by one, in *)
(* the arbitrary order of a hash map, and stops at the first that fails.   *)
(* A send to a peer whose link is gone fails, so any part of the others    *)
(* may have been sent before it.                                           *)
(***************************************************************************)
Sent(out, sent) ==
  LET live == {f \in out : {f.from, f.to} \in links}
  IN  sent \in SUBSET live /\ (live = out => sent = out)

NetWith(sent) == net (+) SetToBag(sent)

NetWithout(f) == net (-) SetToBag({f})

\* Mutant of Relays: the copy that is passed on keeps its hop budget.
RelaysUndiminished(n, id, ttl, proof, targets) ==
  {Data(n, p, id, ttl, proof) : p \in IF Forwardable(ttl) THEN targets ELSE {}}

\* Mutant of Relays: the hop is counted on arrival and on departure.
RelaysTwoHopsAtOnce(n, id, ttl, proof, targets) ==
  {Data(n, p, id, ttl - 2, proof) : p \in IF ttl > 2 THEN targets ELSE {}}

\* `relay_to_others` and `relay_to_all`: flood to the contacts in `targets`.
Relays(n, id, ttl, proof, targets) ==
  {Data(n, p, id, DecrementTtl(ttl), proof) :
     p \in IF Forwardable(ttl) THEN targets ELSE {}}

\* `missing_from_bloom`: what `n` holds and the filter has not.
MissingFromBloom(n, ids) == DOMAIN entries[n] \ ids

\* Mutant of Pushes: the gossip path does not count as a hop.
PushesUndiminished(n, p, ids) ==
  {Data(n, p, id, entries[n][id].ttl, ProofOf[id][difficulty[n]]) :
     id \in {i \in MissingFromBloom(n, ids) : Forwardable(entries[n][i].ttl)}}

\* Mutant of Pushes: a copy whose last hop is spent is pushed too.
PushesSpent(n, p, ids) ==
  {Data(n, p, id, DecrementTtl(entries[n][id].ttl), ProofOf[id][difficulty[n]]) :
     id \in MissingFromBloom(n, ids)}

\* What a summary from `p` makes `n` push: all it holds that the filter lacks.
Pushes(n, p, ids) ==
  {Data(n, p, id, DecrementTtl(entries[n][id].ttl), ProofOf[id][difficulty[n]]) :
     id \in {i \in MissingFromBloom(n, ids) : Forwardable(entries[n][i].ttl)}}

----
Init ==
  /\ entries = [n \in Node |-> NoEntries]
  /\ next_seq = [n \in Node |-> 0]
  /\ peers = [n \in Node |-> NoPeers]
  /\ difficulty = [n \in Node |-> 0]
  /\ rate_limit = [n \in Node |-> DefaultLimit]
  /\ now = 0
  /\ links = {}
  /\ told = [n \in Node |-> {}]
  /\ net = EmptyBag
  /\ contacts = 0
  /\ composed = [id \in {} |-> 0]

(***************************************************************************)
(* The transport.  A link that dropped comes up again only once both its   *)
(* ends have been told of the drop.                                        *)
(***************************************************************************)
LinkUp(n, p) ==
  /\ contacts < MaxContacts
  /\ {n, p} \notin links
  /\ p \notin told[n] /\ n \notin told[p]
  /\ links' = links \cup {{n, p}}
  /\ contacts' = contacts + 1
  /\ UNCHANGED <<stores, peers, settings, now, told, net, composed>>

LinkDown(l) ==
  /\ l \in links
  /\ contacts - Cardinality(links) < MaxDrops
  /\ links' = links \ {l}
  /\ UNCHANGED <<stores, peers, settings, now, told, contacts, net, composed>>

\* What a dropped link still carried may be lost; it may also arrive late.
Lose(f) ==
  /\ {f.from, f.to} \notin links
  /\ net' = NetWithout(f)
  /\ UNCHANGED <<stores, peers, settings, now, transport, composed>>

Tick ==
  /\ now < MaxTime
  /\ now' = now + 1
  /\ UNCHANGED <<stores, peers, settings, transport, net, composed>>

----
(***************************************************************************)
(* The node's entry points.                                                *)
(***************************************************************************)
SetPuzzleDifficulty(n, d) ==
  /\ d # difficulty[n]
  /\ difficulty' = [difficulty EXCEPT ![n] = d]
  /\ UNCHANGED <<stores, peers, rate_limit, now, transport, net, composed>>

SetRateLimits(n, limit) ==
  /\ limit # rate_limit[n]
  /\ rate_limit' = [rate_limit EXCEPT ![n] = limit]
  /\ UNCHANGED <<stores, peers, difficulty, now, transport, net, composed>>

OnPeerConnected(n, p) ==
  /\ {n, p} \in links
  /\ p \notin told[n]
  /\ told' = [told EXCEPT ![n] = @ \cup {p}]
  /\ Register(n, p, NewPeer(TRUE))
  /\ net' = NetWith({Summary(n, p, DOMAIN entries[n])})
  /\ UNCHANGED <<stores, settings, now, links, contacts, composed>>

OnPeerLost(n, p) ==
  /\ p \in told[n]
  /\ {n, p} \notin links
  /\ told' = [told EXCEPT ![n] = @ \ {p}]
  /\ peers' = [peers EXCEPT ![n] = Without(@, {p})]
  /\ UNCHANGED <<stores, settings, now, links, contacts, net, composed>>

(***************************************************************************)
(* The process of a node dies and opens its database again: the envelopes  *)
(* that have not expired are back, in the order of their ids and so in any *)
(* order, and nothing else is.  When it dies in the middle of taking an    *)
(* envelope, what had to make room for it may be gone and the newcomer     *)
(* not there yet.  The driver dies with it, so its links drop and what was *)
(* on its way to it is lost.  When the database can fail, envelopes it     *)
(* could not write or read are missing.                                    *)
(***************************************************************************)
Takes(n, id, ttl) ==
  Fresh(entries[n], id, ttl, now) /\ Admits(entries[n], Capacity, id)

\* What a call of n may be taking.
Incoming(n) ==
  {id \in Id : \/ Origin[id] = n /\ id \notin DOMAIN composed /\ Takes(n, id, InitTtl[id])
              \/ \E f \in DOMAIN net : /\ f.kind = "data" /\ f.to = n /\ f.id = id
                                      /\ Takes(n, id, f.ttl)}

Reloads(n, ids) ==
  LET live == {id \in DOMAIN entries[n] : ~ IsExpired(id, now)}
  IN  /\ ids \in SUBSET live
      /\ \/ DiskFaults
         \/ ids = live
         \/ \E id \in Incoming(n) : ids = live \ Evictable(entries[n], Capacity, id)

Restart(n) ==
  /\ links' = {l \in links : n \notin l}
  /\ contacts - Cardinality(links') <= MaxDrops
  /\ \E ids \in SUBSET DOMAIN entries[n] :
       /\ Reloads(n, ids)
       /\ \E seq \in Bijection(ids, 0..(Cardinality(ids) - 1)) :
            entries' = [entries EXCEPT ![n] =
              [id \in ids |-> [ttl |-> entries[n][id].ttl, seq |-> seq[id]]]]
       /\ next_seq' = [next_seq EXCEPT ![n] = Cardinality(ids)]
  /\ peers' = [peers EXCEPT ![n] = NoPeers]
  /\ difficulty' = [difficulty EXCEPT ![n] = 0]
  /\ rate_limit' = [rate_limit EXCEPT ![n] = DefaultLimit]
  /\ told' = [told EXCEPT ![n] = {}]
  /\ net' = [f \in {g \in DOMAIN net : g.to # n} |-> net[f]]
  /\ UNCHANGED <<now, contacts, composed>>

(***************************************************************************)
(* A summary arrives.  Ours is sent once per contact, and registers a peer *)
(* the transport has not reported (or has already reported lost).          *)
(***************************************************************************)
\* Mutant of Replies: every summary is answered with ours.
RepliesAlways(n, p) == {Summary(n, p, DOMAIN entries[n])}

Replies(n, p) ==
  IF PeerOrNew(n, p).summary_sent THEN {} ELSE {Summary(n, p, DOMAIN entries[n])}

\* Mutant of OnSummary: with ours out already, theirs is taken to end the exchange.
OnSummaryEndsExchange(f) ==
  /\ f.kind = "summary"
  /\ Register(f.to, f.from, [PeerOrNew(f.to, f.from) EXCEPT !.summary_sent = TRUE])
  /\ LET pushed == IF Replies(f.to, f.from) = {} THEN {} ELSE Pushes(f.to, f.from, f.ids)
     IN  \E sent \in SUBSET (Replies(f.to, f.from) \cup pushed) :
           /\ Sent(Replies(f.to, f.from) \cup pushed, sent)
           /\ net' = NetWithout(f) (+) SetToBag(sent)
  /\ UNCHANGED <<stores, settings, now, transport, composed>>

OnSummary(f) ==
  /\ f.kind = "summary"
  /\ Register(f.to, f.from, [PeerOrNew(f.to, f.from) EXCEPT !.summary_sent = TRUE])
  /\ LET out == Replies(f.to, f.from) \cup Pushes(f.to, f.from, f.ids)
     IN  \E sent \in SUBSET out :
           /\ Sent(out, sent)
           /\ net' = NetWithout(f) (+) SetToBag(sent)
  /\ UNCHANGED <<stores, settings, now, transport, composed>>

(***************************************************************************)
(* An envelope arrives.  It is dropped in silence when its proof is too    *)
(* weak, when the sender is over its budget, and when the store refuses    *)
(* it; otherwise it is stored and flooded to the other contacts.  A write  *)
(* that fails leaves it in memory and floods it to nobody.                 *)
(***************************************************************************)
Store(n, id, ttl) ==
  /\ entries' = [entries EXCEPT ![n] =
       Accepted(@, next_seq[n], id, ttl, Evictable(@, Capacity, id))]
  /\ next_seq' = [next_seq EXCEPT ![n] = @ + 1]

OnWeakProof(f) ==
  /\ f.kind = "data"
  /\ ~ Verifies(f.to, f.proof)
  /\ net' = NetWithout(f)
  /\ UNCHANGED <<stores, peers, settings, now, transport, composed>>

OnOverBudget(f) ==
  /\ f.kind = "data"
  /\ Verifies(f.to, f.proof)
  /\ LET peer == PeerOrNew(f.to, f.from)
         rate == InWindow(peer.rate, rate_limit[f.to])
     IN  /\ ~ WithinBudget(rate, FrameBytes[f.id], rate_limit[f.to])
         /\ Register(f.to, f.from, [peer EXCEPT !.rate = rate])
  /\ net' = NetWithout(f)
  /\ UNCHANGED <<stores, settings, now, transport, composed>>

OnData(f) ==
  /\ f.kind = "data"
  /\ Verifies(f.to, f.proof)
  /\ LET peer == PeerOrNew(f.to, f.from)
         rate == InWindow(peer.rate, rate_limit[f.to])
     IN  /\ WithinBudget(rate, FrameBytes[f.id], rate_limit[f.to])
         /\ Register(f.to, f.from, [peer EXCEPT !.rate = Charged(rate, FrameBytes[f.id])])
  /\ \/ /\ Takes(f.to, f.id, f.ttl)
        /\ Store(f.to, f.id, f.ttl)
        /\ LET out == Relays(f.to, f.id, f.ttl, f.proof, DOMAIN peers[f.to] \ {f.from})
           IN  \E sent \in SUBSET out :
                 /\ Sent(out, sent) \/ (DiskFaults /\ sent = {})
                 /\ net' = NetWithout(f) (+) SetToBag(sent)
     \/ /\ ~ Takes(f.to, f.id, f.ttl)
        /\ net' = NetWithout(f)
        /\ UNCHANGED stores
  /\ UNCHANGED <<settings, now, transport, composed>>

(***************************************************************************)
(* The user of the origin composes an envelope.                            *)
(***************************************************************************)
ComposeLocal(id) ==
  LET n == Origin[id] IN
  /\ id \notin DOMAIN composed
  /\ composed' = With(composed, id, contacts)
  /\ \/ /\ Takes(n, id, InitTtl[id])
        /\ Store(n, id, InitTtl[id])
        /\ LET out == Relays(n, id, InitTtl[id], ProofOf[id][difficulty[n]], DOMAIN peers[n])
           IN  \E sent \in SUBSET out :
                 /\ Sent(out, sent) \/ (DiskFaults /\ sent = {})
                 /\ net' = NetWith(sent)
     \/ /\ ~ Takes(n, id, InitTtl[id])
        /\ UNCHANGED <<stores, net>>
  /\ UNCHANGED <<peers, settings, now, transport>>

----
OnFrame(f) == OnSummary(f) \/ OnWeakProof(f) \/ OnOverBudget(f) \/ OnData(f)

Transit == \E f \in BagToSet(net) : OnFrame(f) \/ Lose(f)

Report == \E e \in Peerings : OnPeerConnected(e[1], e[2]) \/ OnPeerLost(e[1], e[2])

Next ==
  \/ \E e \in Peerings : LinkUp(e[1], e[2])
  \/ Report
  \/ \E l \in links : LinkDown(l)
  \/ Tick
  \/ \E n \in Node, d \in Difficulties : SetPuzzleDifficulty(n, d)
  \/ \E n \in Node, limit \in RateLimits : SetRateLimits(n, limit)
  \/ \E id \in Id : ComposeLocal(id)
  \/ \E n \in Node : Restart(n)
  \/ Transit

(***************************************************************************)
(* Fairness: the transport delivers or loses every frame it carries, and   *)
(* reports every connection and loss that lasts.  Nobody has to meet.      *)
(***************************************************************************)
Fairness == WF_vars(Transit) /\ WF_vars(Report)

Spec     == Init /\ [][Next]_vars
FairSpec == Spec /\ Fairness

----
(***************************************************************************)
(* Properties.                                                             *)
(***************************************************************************)

\* One type invariant for the module: no handler lets a contact, an envelope or a
\* frame take a shape the others do not expect.
TypeOK ==
  /\ entries = [n \in Node |-> entries[n]]
  /\ peers = [n \in Node |-> peers[n]]
  /\ told \in [Node -> SUBSET Node]
  /\ \A n \in Node :
       /\ entries[n] \in [DOMAIN entries[n] -> Entry]
       /\ DOMAIN entries[n] \subseteq Id
       /\ Cardinality(DOMAIN entries[n]) <= Capacity
       /\ peers[n] \in [DOMAIN peers[n] -> PeerState]
       /\ DOMAIN peers[n] \subseteq {p \in Node : <<n, p>> \in Peerings}
       /\ told[n] \subseteq DOMAIN peers[n]
  /\ next_seq \in [Node -> Nat]
  /\ difficulty \in [Node -> Difficulties]
  /\ rate_limit \in [Node -> RateLimits]
  /\ now \in 0..MaxTime
  /\ links \subseteq Link
  /\ \A f \in DOMAIN net :
       /\ f \in SummaryFrame \cup DataFrame
       /\ <<f.from, f.to>> \in Peerings
       /\ net[f] \in Nat \ {0}
  /\ contacts \in 0..MaxContacts
  /\ DOMAIN composed \subseteq Id

\* An envelope never outruns its hop budget: a copy with `ttl` hops left, held or in
\* flight, is within InitTtl - ttl hops of its origin, by whichever mix of live
\* floods and gossip pushes it came, and across reconnects and late frames
\* (engine.rs, decrement_ttl; the bug the comment in relay.rs, on_frame tells of).
HopHorizon ==
  /\ \A n \in Node : \A id \in DOMAIN entries[n] :
       entries[n][id].ttl + Distance[Origin[id]][n] <= InitTtl[id]
  /\ \A f \in {g \in DOMAIN net : g.kind = "data"} :
       f.ttl + Distance[Origin[f.id]][f.to] <= InitTtl[f.id]

\* Both ends of a link that is up know of it, and nothing is in flight on it.
Settled(n, p) ==
  /\ {n, p} \in links
  /\ p \in told[n] /\ n \in told[p]
  /\ ~ \E f \in DOMAIN net : {f.from, f.to} = {n, p}

\* What n could still hand over to its contacts.
Offered(n) ==
  {id \in DOMAIN entries[n] : Forwardable(entries[n][id].ttl) /\ ~ IsExpired(id, now)}

\* The frames a step hands to the transport.
FramesSent == {f \in DOMAIN net' : f \notin DOMAIN net \/ net'[f] > net[f]}

\* A node passes an envelope on only with a proof it would itself accept: what it
\* floods it has verified or solved, and what it pushes it has solved, at the difficulty
\* it is set to at that moment (relay.rs, on_frame and compose_local).
PassesOnVerified ==
  [][\A f \in FramesSent : f.kind = "data" => f.proof >= difficulty[f.from]]_vars

\* Gossip dies down: the exchange of summaries ends by itself, also when both ends
\* start it and when frames of an earlier contact arrive late (relay.rs, PeerState).
GossipDiesDown == <>[](net = EmptyBag)

\* With links that come up in any order and then stay, an envelope reaches every node
\* within its hop budget, through nodes that never met its origin, unless it expires;
\* again where stores have room and limits are not reached.
Reaches ==
  <>[](links = Link) =>
    \A id \in Id : \A n \in {p \in Node : Distance[Origin[id]][p] < InitTtl[id]} :
      id \in DOMAIN composed ~> (id \in DOMAIN entries[n] \/ IsExpired(id, now))

(***************************************************************************)
(* What the documents say, and the code does not do.                       *)
(***************************************************************************)

\* A node never forwards an expired envelope.
NeverForwardsExpired ==
  [][\A f \in FramesSent : f.kind = "data" => ~ IsExpired(f.id, now)]_vars

\* Composing floods a new envelope to every contact whose link is up.
FloodsToEveryContact ==
  [][\A id \in DOMAIN composed' \ DOMAIN composed :
       LET n == Origin[id]
           reached == {f.to : f \in {g \in FramesSent : g.kind = "data" /\ g.id = id}}
       IN  id \in DOMAIN entries'[n] /\ Forwardable(InitTtl[id]) =>
             {p \in told[n] : {n, p} \in links} \subseteq reached]_vars
====
