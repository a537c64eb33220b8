---- MODULE ContactHistoryProofs ----
(***************************************************************************)
(* A contact of any mesh carries across all it has not missed.             *)
(*                                                                         *)
(* The invariant accounts for every envelope n could pass on to a peer p   *)
(* that has introduced itself: p holds it, or it is on its way, or a       *)
(* summary of p that will make n push it is.  What a flood does not send   *)
(* to a peer n does not know yet is covered by the summary still to come.  *)
(***************************************************************************)
EXTENDS ContactHistory, MeshRelayProofs

\* p has introduced itself to n on a link that is up.
Open(n, p) == {n, p} \in links /\ n \in told[p]

\* The summaries of p that n has still to read.
Introductions(n, p) ==
  {f \in DOMAIN net : f.kind = "summary" /\ f.from = p /\ f.to = n}

\* What a summary keeps n from pushing, and rightly so.
Claims(f) == f.ids \ Misreported

OnTheWay(n, p, id) ==
  \/ id \in DOMAIN entries[p]
  \/ \E f \in DataOf(DOMAIN net, id) : f.from = n /\ f.to = p
  \/ \E f \in Introductions(n, p) : id \notin Claims(f)

Accounted(n, p, id) == OnTheWay(n, p, id) \/ id \in missed[<<n, p>>]

Carries(n, p) == \A id \in Offered(n) : Accounted(n, p, id)

\* What a summary of p claims, p still has or has given up.
Truthful(n, p, f) ==
  \A id \in Claims(f) :
    id \in DOMAIN entries[p] \/ id \in missed[<<n, p>>] \/ IsExpired(id, now)

Introduces(n, p) ==
  p \in DOMAIN peers[n] \/ \E f \in Introductions(n, p) : Truthful(n, p, f)

Exchanging(n, p) == Carries(n, p) /\ Introduces(n, p)

Synced == \A e \in Peerings : Open(e[1], e[2]) => Exchanging(e[1], e[2])

----
(***************************************************************************)
(* What a step on an open contact must do, and what follows from it.       *)
(***************************************************************************)
MissedGrows(n, p) ==
  missed'[<<n, p>>] =
    missed[<<n, p>>] \cup Dropped(p) \cup Refused(n, p) \cup Misread(n, p) \cup Unsent(n, p)

\* What n comes to offer is accounted for.
OffersCovered(n, p) ==
  \A id \in Offered(n)' : id \in Offered(n) \/ Accounted(n, p, id)'

\* p gives nothing up unseen.
HolderKeeps(n, p) ==
  \A id \in DOMAIN entries[p] :
    id \in DOMAIN entries'[p] \/ id \in missed'[<<n, p>>] \/ IsExpired(id, now')

\* A data frame from n is taken by p, or turned away and missed.
FramesLand(n, p) ==
  \A f \in DOMAIN net : f.kind = "data" /\ f.from = n /\ f.to = p =>
    \/ f \in DOMAIN net'
    \/ f.id \in DOMAIN entries'[p] \/ f.id \in missed'[<<n, p>>] \/ IsExpired(f.id, now')

\* A summary of p makes n know p, and push what the summary does not claim.
SummariesLand(n, p) ==
  \A f \in Introductions(n, p) :
    \/ f \in DOMAIN net'
    \/ /\ p \in DOMAIN peers'[n]
       /\ \A id \in Offered(n)' : id \in Claims(f) \/ Accounted(n, p, id)'

Advances(n, p) ==
  /\ missed[<<n, p>>] \subseteq missed'[<<n, p>>]
  /\ OffersCovered(n, p)
  /\ HolderKeeps(n, p)
  /\ FramesLand(n, p)
  /\ SummariesLand(n, p)
  /\ p \in DOMAIN peers[n] => p \in DOMAIN peers'[n]

LEMMA ExpiryStays ==
  ASSUME Sound, [Next]_vars, NEW id \in Id
  PROVE  IsExpired(id, now) => IsExpired(id, now')
<1>1. now' = now \/ now' = now + 1
  <2>1. CASE Tick
    BY <2>1 DEF Tick
  <2>2. CASE ~ Tick
    BY <2>2 DEF Next, Report, Transit, OnFrame, LinkUp, LinkDown, SetPuzzleDifficulty,
       SetRateLimits, OnPeerConnected, OnPeerLost, ComposeLocal, Restart, Lose,
       OnSummary, OnWeakProof, OnOverBudget, OnData, vars
  <2>3. QED
    BY <2>1, <2>2
<1>2. now \in Nat /\ ExpiresAt[id] \in Nat
  BY ExpiryAssumption DEF Sound, Globals
<1>3. QED
  BY <1>1, <1>2 DEF IsExpired

LEMMA AdvancesKeeps ==
  ASSUME Sound, [Next]_vars, NEW n, NEW p, <<n, p>> \in Peerings,
         Exchanging(n, p), Advances(n, p)
  PROVE  Exchanging(n, p)'
<1>0. n \in Node /\ p \in Node
  BY PeeringsSymmetric
<1>1. ASSUME NEW f \in Introductions(n, p), f \in DOMAIN net'
      PROVE  f \in Introductions(n, p)'
  BY <1>1 DEF Introductions
<1>2. ASSUME NEW id \in Offered(n)' PROVE Accounted(n, p, id)'
  <2>1. CASE id \notin Offered(n)
    BY <2>1 DEF Advances, OffersCovered
  <2>2. CASE id \in missed[<<n, p>>]
    BY <2>2 DEF Advances, Accounted
  <2>3. ~ IsExpired(id, now')
    BY DEF Offered
  <2>4. CASE id \in DOMAIN entries[p]
    BY <2>3, <2>4 DEF Advances, HolderKeeps, Accounted, OnTheWay
  <2>5. CASE \E f \in DataOf(DOMAIN net, id) : f.from = n /\ f.to = p
    BY <2>3, <2>5 DEF Advances, FramesLand, Accounted, OnTheWay, DataOf
  <2>6. CASE \E f \in Introductions(n, p) : id \notin Claims(f)
    <3>1. PICK f \in Introductions(n, p) : id \notin Claims(f)
      BY <2>6
    <3>2. CASE f \in DOMAIN net'
      BY <1>1, <3>1, <3>2 DEF Accounted, OnTheWay, Claims
    <3>3. CASE f \notin DOMAIN net'
      BY <3>1, <3>3 DEF Advances, SummariesLand
    <3>4. QED
      BY <3>2, <3>3
  <2>7. QED
    BY <2>1, <2>2, <2>4, <2>5, <2>6 DEF Exchanging, Carries, Accounted, OnTheWay
<1>3. Introduces(n, p)'
  <2>1. CASE p \in DOMAIN peers[n]
    BY <2>1 DEF Advances, Introduces
  <2>2. CASE p \notin DOMAIN peers[n]
    <3>1. PICK f \in Introductions(n, p) : Truthful(n, p, f)
      BY <2>2 DEF Exchanging, Introduces
    <3>2. CASE f \notin DOMAIN net'
      BY <3>1, <3>2 DEF Advances, SummariesLand, Introduces
    <3>3. CASE f \in DOMAIN net'
      <4>1. f \in Introductions(n, p)'
        BY <1>1, <3>1, <3>3
      <4>2. Claims(f) \subseteq Id
        <5>1. FrameOK(f) /\ f.kind = "summary"
          BY DEF Sound, NetOK, Introductions
        <5>2. QED
          BY <5>1 DEF FrameOK, SummaryFrame, DataFrame, Claims
      <4>3. Truthful(n, p, f)'
        <5>1. ASSUME NEW id \in Claims(f)
              PROVE  id \in DOMAIN entries'[p] \/ id \in missed'[<<n, p>>] \/ IsExpired(id, now')
          <6>1. CASE id \in DOMAIN entries[p]
            BY <6>1 DEF Advances, HolderKeeps
          <6>2. CASE id \in missed[<<n, p>>]
            BY <6>2 DEF Advances
          <6>3. CASE IsExpired(id, now)
            BY <4>2, <6>3, ExpiryStays
          <6>4. QED
            BY <3>1, <6>1, <6>2, <6>3 DEF Truthful
        <5>2. QED
          BY <5>1 DEF Truthful, Claims
      <4>4. QED
        BY <4>1, <4>3 DEF Introduces
    <3>4. QED
      BY <3>2, <3>3
  <2>3. QED
    BY <2>1, <2>2
<1>4. QED
  BY <1>2, <1>3 DEF Exchanging, Carries

----
(***************************************************************************)
(* Frames in flight.                                                       *)
(***************************************************************************)
\* The frames after f was read and those of `sent` were sent.
Answered(f, sent) ==
  net' = NetWithout(f) (+) SetToBag(sent) \/ (sent = {} /\ net' = NetWithout(f))

LEMMA OthersStay ==
  ASSUME Sound, NEW f, NEW sent, Answered(f, sent)
  PROVE  /\ \A g \in DOMAIN net \ {f} : g \in DOMAIN net'
         /\ sent \subseteq DOMAIN net'
<1> DEFINE rest == NetWithout(f)
<1>1. \A g \in DOMAIN net : net[g] \in Nat \ {0}
  BY DEF Sound, NetOK
<1>2. DOMAIN net \ {f} \subseteq DOMAIN rest
  BY <1>1 DEF NetWithout, (-), SetToBag
<1>3. net' = rest (+) SetToBag(sent) \/ (sent = {} /\ net' = rest)
  BY DEF Answered
<1> HIDE DEF rest
<1>4. QED
  BY <1>2, <1>3 DEF (+), SetToBag

\* The frame a handler is given is read from its sender.
LEMMA IsRead ==
  ASSUME Sound, NEW f \in DOMAIN net, NEW sent, f \notin sent, Answered(f, sent)
  PROVE  f \in Read(f.from, f.to)
<1> DEFINE rest == NetWithout(f)
<1>1. net[f] \in Nat \ {0}
  BY DEF Sound, NetOK
<1>2. f \in DOMAIN rest => rest[f] < net[f] /\ rest[f] \in Nat
  BY <1>1 DEF NetWithout, (-), SetToBag
<1>3. net' = rest (+) SetToBag(sent) \/ (sent = {} /\ net' = rest)
  BY DEF Answered
<1> HIDE DEF rest
<1>4. f \in DOMAIN net' => net'[f] < net[f]
  BY <1>2, <1>3 DEF (+), SetToBag
<1>5. QED
  BY <1>4 DEF Read

----
(***************************************************************************)
(* The steps that leave a contact's envelopes and frames alone.            *)
(***************************************************************************)
LEMMA SameOffers ==
  ASSUME Sound, [Next]_vars, NEW n \in Node, entries'[n] = entries[n]
  PROVE  Offered(n)' \subseteq Offered(n)
<1>1. DOMAIN entries[n] \subseteq Id
  BY HeldIds
<1>2. \A id \in DOMAIN entries[n] : IsExpired(id, now) => IsExpired(id, now')
  BY <1>1, ExpiryStays
<1>3. QED
  BY <1>2 DEF Offered

LEMMA QuietAdvances ==
  ASSUME Sound, [Next]_vars, NEW n, NEW p, <<n, p>> \in Peerings, MissedGrows(n, p),
         entries'[n] = entries[n], entries'[p] = entries[p],
         \A f \in DOMAIN net : f.kind = "data" /\ f.from = n /\ f.to = p => f \in DOMAIN net',
         \A f \in DOMAIN net : f.kind = "summary" /\ f.from = p /\ f.to = n => f \in DOMAIN net',
         p \in DOMAIN peers[n] => p \in DOMAIN peers'[n]
  PROVE  Advances(n, p)
<1>1. Offered(n)' \subseteq Offered(n)
  BY SameOffers, PeeringsSymmetric
<1>2. missed[<<n, p>>] \subseteq missed'[<<n, p>>]
  BY DEF MissedGrows
<1>3. QED
  BY <1>1, <1>2 DEF Advances, OffersCovered, HolderKeeps, FramesLand, SummariesLand, Introductions

\* A link joins two different nodes.
LEMMA EndsDiffer ==
  ASSUME NEW n, NEW p, <<n, p>> \in Peerings
  PROVE  n # p
<1>1. {n, p} \in Link
  BY PeeringsSymmetric
<1>2. QED
  BY <1>1, LinkAssumption

LEMMA TransportAdvances ==
  ASSUME Sound, [Next]_vars, NEW n, NEW p, <<n, p>> \in Peerings, MissedGrows(n, p),
         {n, p} \in links, {n, p} \in links',
         \/ UNCHANGED <<entries, peers, net>>
         \/ \E e \in Peerings : OnPeerConnected(e[1], e[2]) \/ OnPeerLost(e[1], e[2])
         \/ \E m \in Node : Restart(m)
         \/ \E f \in DOMAIN net : Lose(f)
  PROVE  Advances(n, p)
<1>0. n \in Node /\ p \in Node /\ Contacts
  BY PeeringsSymmetric DEF Sound
<1>1. CASE UNCHANGED <<entries, peers, net>>
  BY <1>1, QuietAdvances
<1>2. ASSUME NEW e \in Peerings, OnPeerConnected(e[1], e[2])
      PROVE  Advances(n, p)
  <2> DEFINE m == e[1]
             hello == Summary(m, e[2], DOMAIN entries[m])
  <2>1. /\ UNCHANGED entries /\ net' = NetWith({hello})
        /\ peers' = [peers EXCEPT ![m] = With(@, e[2], NewPeer(TRUE))]
    BY <1>2 DEF OnPeerConnected, Register, stores
  <2> HIDE DEF m, hello
  <2>2. \A f \in DOMAIN net : f \in DOMAIN net'
    BY <2>1 DEF NetWith, (+), SetToBag
  <2>3. p \in DOMAIN peers[n] => p \in DOMAIN peers'[n]
    BY <1>0, <2>1 DEF Contacts, With
  <2>4. QED
    BY <2>1, <2>2, <2>3, QuietAdvances
<1>3. ASSUME NEW e \in Peerings, OnPeerLost(e[1], e[2])
      PROVE  Advances(n, p)
  <2>1. /\ UNCHANGED <<entries, net>> /\ {e[1], e[2]} \notin links
        /\ peers' = [peers EXCEPT ![e[1]] = Without(@, {e[2]})]
    BY <1>3 DEF OnPeerLost, stores
  <2>2. e[1] # n \/ e[2] # p
    BY <2>1
  <2>3. p \in DOMAIN peers[n] => p \in DOMAIN peers'[n]
    BY <1>0, <2>1, <2>2 DEF Contacts, Without, Restrict
  <2>4. QED
    BY <2>1, <2>3, QuietAdvances
<1>4. ASSUME NEW m \in Node, Restart(m)
      PROVE  Advances(n, p)
  <2>1. m # n /\ m # p
    BY <1>4 DEF Restart
  <2>2. /\ \E es : entries' = [entries EXCEPT ![m] = es]
        /\ peers' = [peers EXCEPT ![m] = NoPeers]
        /\ net' = [f \in {g \in DOMAIN net : g.to # m} |-> net[f]]
    BY <1>4 DEF Restart
  <2>3. entries'[n] = entries[n] /\ entries'[p] = entries[p]
    BY <1>0, <2>1, <2>2 DEF Sound, Stores
  <2>4. peers'[n] = peers[n]
    BY <1>0, <2>1, <2>2 DEF Contacts
  <2>5. \A f \in DOMAIN net : f.to \in {n, p} => f \in DOMAIN net'
    BY <2>1, <2>2
  <2>6. QED
    BY <2>3, <2>4, <2>5, QuietAdvances
<1>5. ASSUME NEW f \in DOMAIN net, Lose(f)
      PROVE  Advances(n, p)
  <2>1. {f.from, f.to} \notin links /\ UNCHANGED <<entries, peers>> /\ Answered(f, {})
    BY <1>5 DEF Lose, stores, Answered
  <2>2. \A g \in DOMAIN net : g # f => g \in DOMAIN net'
    BY <2>1, OthersStay
  <2>3. {p, n} = {n, p}
    OBVIOUS
  <2>4. ~ (f.from = n /\ f.to = p) /\ ~ (f.from = p /\ f.to = n)
    BY <2>1, <2>3
  <2>5. QED
    BY <2>1, <2>2, <2>4, QuietAdvances
<1>6. QED
  BY <1>1, <1>2, <1>3, <1>4, <1>5

----
(***************************************************************************)
(* The handlers of frames that store nothing.                              *)
(***************************************************************************)
\* Registering a contact forgets no other.
LEMMA RegisterRemembers ==
  ASSUME Contacts, NEW m \in Node, NEW q, NEW state, Register(m, q, state), NEW n \in Node
  PROVE  /\ DOMAIN peers[n] \subseteq DOMAIN peers'[n]
         /\ n = m => q \in DOMAIN peers'[n]
  BY DEF Contacts, Register, With

\* All that is sent to a contact whose link is up is sent.
LEMMA PushesOut ==
  ASSUME NEW n, NEW p, {n, p} \in links, NEW out, NEW sent, Sent(out, sent),
         \A g \in out : g.from = n /\ g.to = p
  PROVE  sent = out
<1>1. \A g \in out : {g.from, g.to} \in links
  OBVIOUS
<1>2. QED
  BY <1>1 DEF Sent

\* A handler's answers go from the node that read the frame.
LEMMA AnswersFrom ==
  ASSUME NEW n, NEW p, NEW ids
  PROVE  \A g \in Replies(n, p) \cup Pushes(n, p, ids) : g.from = n /\ g.to = p
  BY DEF Replies, Pushes, Summary, Data

LEMMA SummaryAdvances ==
  ASSUME Sound, [Next]_vars, NEW n, NEW p, <<n, p>> \in Peerings, MissedGrows(n, p),
         {n, p} \in links, NEW f \in DOMAIN net, OnSummary(f)
  PROVE  Advances(n, p)
<1> DEFINE m == f.to
           q == f.from
           out == Replies(m, q) \cup Pushes(m, q, f.ids)
<1>0. n \in Node /\ p \in Node /\ Contacts /\ m \in Node /\ n # p
  BY PeeringsSymmetric, InFlight, EndsDiffer DEF Sound
<1>1. PICK sent \in SUBSET out : Sent(out, sent) /\ net' = NetWithout(f) (+) SetToBag(sent)
  BY DEF OnSummary
<1>2. UNCHANGED entries /\ f.kind = "summary" /\ UNCHANGED now
  BY DEF OnSummary, stores
<1>3. /\ \A g \in DOMAIN net \ {f} : g \in DOMAIN net'
      /\ sent \subseteq DOMAIN net'
  BY <1>1, OthersStay DEF Answered
<1>4. /\ DOMAIN peers[n] \subseteq DOMAIN peers'[n]
      /\ n = m => q \in DOMAIN peers'[n]
  <2>1. \E state : Register(m, q, state)
    BY DEF OnSummary
  <2> HIDE DEF m, q
  <2>2. QED
    BY <1>0, <2>1, RegisterRemembers
<1>5. CASE ~ (m = n /\ q = p)
  <2>1. \A g \in DOMAIN net : g.kind = "data" /\ g.from = n /\ g.to = p => g \in DOMAIN net'
    BY <1>2, <1>3
  <2>2. \A g \in DOMAIN net : g.kind = "summary" /\ g.from = p /\ g.to = n => g \in DOMAIN net'
    BY <1>3, <1>5
  <2>3. QED
    BY <1>2, <1>4, <2>1, <2>2, QuietAdvances
<1>6. CASE m = n /\ q = p
  <2>1. sent = out
    <3>1. \A g \in out : g.from = n /\ g.to = p
      BY <1>6, AnswersFrom
    <3> HIDE DEF out
    <3>2. QED
      BY <1>1, <3>1, PushesOut
  <2>2. f \in Read(p, n)
    <3>1. f \notin sent
      BY <1>0, <1>6, <2>1, AnswersFrom
    <3>2. QED
      BY <1>1, <1>6, <3>1, IsRead DEF Answered
  <2>3. ASSUME NEW id \in Offered(n)' PROVE id \in Claims(f) \/ Accounted(n, p, id)'
    <3>1. id \in DOMAIN entries[n] /\ Forwardable(entries[n][id].ttl)
      BY <1>2 DEF Offered
    <3>2. CASE id \notin f.ids
      <4> DEFINE g == Data(n, p, id, DecrementTtl(entries[n][id].ttl), ProofOf[id][difficulty[n]])
      <4>1. g \in Pushes(n, p, f.ids)
        BY <3>1, <3>2 DEF Pushes, MissingFromBloom
      <4>2. g \in DOMAIN net'
        BY <1>3, <1>6, <2>1, <4>1
      <4>3. g.kind = "data" /\ g.id = id /\ g.from = n /\ g.to = p
        BY DEF Data
      <4> HIDE DEF g
      <4>4. QED
        BY <4>2, <4>3 DEF Accounted, OnTheWay, DataOf
    <3>3. CASE id \in f.ids \cap Misreported
      <4>1. id \in Misread(n, p)
        BY <1>2, <2>2, <3>1, <3>3 DEF Misread
      <4>2. QED
        BY <4>1 DEF MissedGrows, Accounted
    <3>4. QED
      BY <3>2, <3>3 DEF Claims
  <2>4. SummariesLand(n, p)
    BY <1>3, <1>4, <1>6, <2>3 DEF SummariesLand, Introductions
  <2>5. FramesLand(n, p)
    BY <1>2, <1>3 DEF FramesLand
  <2>6. Offered(n)' = Offered(n)
    BY <1>2 DEF Offered
  <2>7. QED
    BY <1>2, <1>4, <2>4, <2>5, <2>6
    DEF Advances, OffersCovered, HolderKeeps, MissedGrows
<1>7. QED
  BY <1>5, <1>6

\* A data frame p has read is of an envelope p holds, turned away, or let expire.
LEMMA TurnedAwayAdvances ==
  ASSUME Sound, [Next]_vars, NEW n, NEW p, <<n, p>> \in Peerings, MissedGrows(n, p),
         NEW f \in DOMAIN net, f.kind = "data", UNCHANGED entries, net' = NetWithout(f),
         DOMAIN peers[n] \subseteq DOMAIN peers'[n],
         TurnsAway(f.to, f) \/ ~ Takes(f.to, f.id, f.ttl)
  PROVE  Advances(n, p)
<1>1. f \in Read(f.from, f.to)
  BY IsRead DEF Answered
<1>2. \A g \in DOMAIN net \ {f} : g \in DOMAIN net'
  BY OthersStay DEF Answered
<1>3. f.id \in Id /\ f.ttl \in Hops
  BY InFlight
<1>4. ASSUME f.from = n, f.to = p
      PROVE  f.id \in DOMAIN entries[p] \/ f.id \in missed'[<<n, p>>] \/ IsExpired(f.id, now')
  <2>1. CASE f.id \in DOMAIN entries[p]
    BY <2>1
  <2>2. CASE IsExpired(f.id, now)
    BY <1>3, <2>2, ExpiryStays
  <2>3. CASE f.id \notin DOMAIN entries[p] /\ ~ IsExpired(f.id, now)
    <3>1. f.ttl # 0
      BY <1>3, TtlAssumption DEF Hops
    <3>2. TurnsAway(p, f)
      BY <1>4, <2>3, <3>1 DEF Takes, Fresh, TurnsAway
    <3>3. f.id \in Refused(n, p)
      BY <1>1, <1>3, <1>4, <2>3, <3>2 DEF Refused, DataOf
    <3>4. QED
      BY <3>3 DEF MissedGrows
  <2>4. QED
    BY <2>1, <2>2, <2>3
<1>5. FramesLand(n, p)
  BY <1>2, <1>4 DEF FramesLand
<1>6. SummariesLand(n, p)
  BY <1>2 DEF SummariesLand, Introductions
<1>7. Offered(n)' \subseteq Offered(n)
  BY SameOffers, PeeringsSymmetric
<1>8. QED
  BY <1>5, <1>6, <1>7 DEF Advances, OffersCovered, HolderKeeps, MissedGrows

LEMMA RefusalAdvances ==
  ASSUME Sound, [Next]_vars, NEW n, NEW p, <<n, p>> \in Peerings, MissedGrows(n, p),
         NEW f \in DOMAIN net, OnWeakProof(f) \/ OnOverBudget(f)
  PROVE  Advances(n, p)
<1>0. n \in Node /\ f.to \in Node /\ Contacts
  BY PeeringsSymmetric, InFlight DEF Sound
<1>1. f.kind = "data" /\ UNCHANGED entries /\ net' = NetWithout(f)
  BY DEF OnWeakProof, OnOverBudget, stores
<1>2. TurnsAway(f.to, f)
  BY DEF OnWeakProof, OnOverBudget, TurnsAway
<1>3. DOMAIN peers[n] \subseteq DOMAIN peers'[n]
  <2>1. CASE UNCHANGED peers
    BY <2>1
  <2>2. CASE \E state : Register(f.to, f.from, state)
    BY <1>0, <2>2, RegisterRemembers
  <2>3. QED
    BY <2>1, <2>2 DEF OnWeakProof, OnOverBudget
<1>4. QED
  BY <1>1, <1>2, <1>3, TurnedAwayAdvances

----
(***************************************************************************)
(* An envelope is stored and flooded.                                      *)
(***************************************************************************)
LEMMA StoreShape ==
  ASSUME Sound, NEW m \in Node, NEW id, NEW ttl, Takes(m, id, ttl), Store(m, id, ttl)
  PROVE  /\ id \notin DOMAIN entries[m] /\ ~ IsExpired(id, now)
         /\ id \in DOMAIN entries'[m] /\ entries'[m][id].ttl = ttl
         /\ \A x \in DOMAIN entries'[m] \ {id} :
              x \in DOMAIN entries[m] /\ entries'[m][x] = entries[m][x]
         /\ \A q \in Node \ {m} : entries'[q] = entries[q]
<1>1. entries = [q \in Node |-> entries[q]]
  BY DEF Sound, Stores
<1>2. PICK evicted :
        entries' = [entries EXCEPT ![m] = Accepted(@, next_seq[m], id, ttl, evicted)]
  BY DEF Store
<1>3. entries'[m] = Accepted(entries[m], next_seq[m], id, ttl, evicted)
  BY <1>1, <1>2
<1>4. \A q \in Node \ {m} : entries'[q] = entries[q]
  BY <1>1, <1>2
<1>5. QED
  BY <1>3, <1>4 DEF Accepted, With, Without, Restrict, Takes, Fresh

\* What m hands to the transport when it floods an envelope.
Floods(m, id, ttl, proof, targets, sent) ==
  LET out == Relays(m, id, ttl, proof, targets)
  IN  sent \in SUBSET out /\ (Sent(out, sent) \/ (DiskFaults /\ sent = {}))

\* What the flood of n leaves out, p holds, or it is missed, or a summary is coming.
LEMMA FloodCovers ==
  ASSUME Sound, [Next]_vars, NEW n, NEW p, <<n, p>> \in Peerings, MissedGrows(n, p),
         {n, p} \in links, Introduces(n, p),
         NEW id, NEW ttl, NEW proof, NEW targets, NEW sent,
         Takes(n, id, ttl), Store(n, id, ttl), UNCHANGED now,
         Floods(n, id, ttl, proof, targets, sent),
         targets \subseteq DOMAIN peers[n],
         p \in DOMAIN peers[n] \ targets => DataOf(Read(p, n), id) # {},
         sent \subseteq DOMAIN net', FramesSent \subseteq sent,
         \A f \in Introductions(n, p) : f \in DOMAIN net'
  PROVE  OffersCovered(n, p)
<1> DEFINE out == Relays(n, id, ttl, proof, targets)
<1>0. n \in Node /\ p \in Node /\ n # p
  BY PeeringsSymmetric, EndsDiffer
<1>1. /\ id \notin DOMAIN entries[n] /\ ~ IsExpired(id, now)
      /\ id \in DOMAIN entries'[n] /\ entries'[n][id].ttl = ttl
      /\ \A x \in DOMAIN entries'[n] \ {id} :
           x \in DOMAIN entries[n] /\ entries'[n][x] = entries[n][x]
      /\ entries'[p] = entries[p]
  BY <1>0, StoreShape
<1>2. ASSUME NEW x \in Offered(n)', x # id
      PROVE  x \in Offered(n)
  BY <1>1, <1>2 DEF Offered
<1>3. ASSUME id \in Offered(n)'
      PROVE  Accounted(n, p, id)'
  <2>1. Forwardable(ttl)
    BY <1>1, <1>3 DEF Offered
  <2>2. CASE id \in DOMAIN entries[p]
    BY <1>1, <2>2 DEF Accounted, OnTheWay
  <2>3. CASE id \in Unsent(n, p)
    BY <2>3 DEF MissedGrows, Accounted
  <2>4. CASE p \notin DOMAIN peers[n]
    <3>1. PICK f \in Introductions(n, p) : Truthful(n, p, f)
      BY <2>4 DEF Introduces
    <3>2. f \in Introductions(n, p)'
      BY <3>1 DEF Introductions
    <3>3. CASE id \notin Claims(f)
      BY <3>2, <3>3 DEF Accounted, OnTheWay, Claims
    <3>4. CASE id \in Claims(f)
      <4>1. id \in DOMAIN entries[p] \/ id \in missed[<<n, p>>]
        BY <1>1, <3>1, <3>4 DEF Truthful
      <4>2. QED
        BY <1>1, <4>1 DEF MissedGrows, Accounted, OnTheWay
    <3>5. QED
      BY <3>3, <3>4
  <2>5. CASE \E g \in sent : g.kind = "data" /\ g.id = id /\ g.from = n /\ g.to = p
    BY <2>5 DEF Accounted, OnTheWay, DataOf
  <2>6. CASE /\ p \in DOMAIN peers[n]
             /\ id \notin DOMAIN entries[p]
             /\ ~ \E g \in sent : g.kind = "data" /\ g.id = id /\ g.from = n /\ g.to = p
    <3>1. ~ \E g \in DataOf(FramesSent, id) : g.from = n /\ g.to = p
      BY <2>6 DEF DataOf
    <3>2. CASE p \notin targets
      <4>1. DataOf(Read(p, n), id) # {} /\ id \notin DOMAIN entries[p]
        BY <2>6, <3>2
      <4>2. QED
        BY <1>1, <2>3, <3>1, <4>1 DEF Unsent
    <3>3. CASE p \in targets /\ ~ DiskFaults
      <4>1. Data(n, p, id, DecrementTtl(ttl), proof) \in out
        BY <2>1, <3>3 DEF Relays
      <4>2. sent # out
        BY <2>6, <4>1 DEF Data
      <4>3. PICK g \in out : {g.from, g.to} \notin links
        BY <3>3, <4>2 DEF Floods, Sent
      <4>4. g.from = n /\ g.to \in DOMAIN peers[n]
        BY <4>3 DEF Relays, Data
      <4>5. QED
        BY <1>1, <2>3, <3>1, <4>3, <4>4 DEF Unsent
    <3>4. CASE DiskFaults
      BY <1>1, <2>3, <3>1, <3>4 DEF Unsent
    <3>5. QED
      BY <3>2, <3>3, <3>4
  <2>7. QED
    BY <2>2, <2>4, <2>5, <2>6
<1>4. QED
  BY <1>2, <1>3 DEF OffersCovered

LEMMA StoredAdvances ==
  ASSUME Sound, [Next]_vars, NEW n, NEW p, <<n, p>> \in Peerings, MissedGrows(n, p),
         {n, p} \in links, Introduces(n, p),
         NEW m \in Node, NEW id \in Id, NEW ttl, NEW proof, NEW targets, NEW sent,
         Takes(m, id, ttl), Store(m, id, ttl), UNCHANGED now,
         Floods(m, id, ttl, proof, targets, sent),
         targets \subseteq DOMAIN peers[m],
         m = n /\ p \in DOMAIN peers[n] \ targets => DataOf(Read(p, n), id) # {},
         sent \subseteq DOMAIN net', FramesSent \subseteq sent,
         \A g \in DOMAIN net : g \in DOMAIN net' \/ (g.kind = "data" /\ g.to = m /\ g.id = id),
         DOMAIN peers[n] \subseteq DOMAIN peers'[n]
  PROVE  Advances(n, p)
<1>0. n \in Node /\ p \in Node /\ n # p
  BY PeeringsSymmetric, EndsDiffer
<1>1. /\ id \in DOMAIN entries'[m] /\ ~ IsExpired(id, now)
      /\ \A q \in Node \ {m} : entries'[q] = entries[q]
  BY StoreShape
<1>2. missed[<<n, p>>] \subseteq missed'[<<n, p>>] /\ SummariesLand(n, p)
  BY DEF MissedGrows, SummariesLand, Introductions
<1>3. FramesLand(n, p)
  BY <1>1 DEF FramesLand
<1>4. HolderKeeps(n, p)
  <2>1. ASSUME NEW x \in DOMAIN entries[p], x \notin DOMAIN entries'[p]
        PROVE  x \in missed'[<<n, p>>] \/ IsExpired(x, now')
    <3>1. x \in Dropped(p) \/ IsExpired(x, now)
      BY <2>1 DEF Dropped
    <3>2. QED
      BY <3>1 DEF MissedGrows
  <2>2. QED
    BY <2>1 DEF HolderKeeps
<1>5. OffersCovered(n, p)
  <2>1. CASE m = n
    <3>1. \A f \in Introductions(n, p) : f \in DOMAIN net'
      BY DEF Introductions
    <3>2. QED
      BY <2>1, <3>1, FloodCovers
  <2>2. CASE m # n
    <3>1. Offered(n)' \subseteq Offered(n)
      BY <1>0, <1>1, <2>2, SameOffers
    <3>2. QED
      BY <3>1 DEF OffersCovered
  <2>3. QED
    BY <2>1, <2>2
<1>6. QED
  BY <1>2, <1>3, <1>4, <1>5 DEF Advances

LEMMA DataAdvances ==
  ASSUME Sound, [Next]_vars, NEW n, NEW p, <<n, p>> \in Peerings, MissedGrows(n, p),
         {n, p} \in links, Introduces(n, p), NEW f \in DOMAIN net, OnData(f)
  PROVE  Advances(n, p)
<1> DEFINE m == f.to
           q == f.from
           targets == DOMAIN peers[m] \ {q}
<1>0. /\ n \in Node /\ p \in Node /\ n # p /\ Contacts
      /\ m \in Node /\ q \in Node /\ f.id \in Id /\ m # q
  BY PeeringsSymmetric, InFlight, EndsDiffer DEF Sound, OnData
<1>1. f.kind = "data" /\ UNCHANGED now
  BY DEF OnData
<1>2. DOMAIN peers[n] \subseteq DOMAIN peers'[n]
  <2>1. \E state : Register(m, q, state)
    BY DEF OnData
  <2> HIDE DEF m, q
  <2>2. QED
    BY <1>0, <2>1, RegisterRemembers
<1>3. CASE /\ Takes(m, f.id, f.ttl)
           /\ Store(m, f.id, f.ttl)
           /\ \E sent : /\ Floods(m, f.id, f.ttl, f.proof, targets, sent)
                        /\ net' = NetWithout(f) (+) SetToBag(sent)
  <2>1. PICK sent : /\ Floods(m, f.id, f.ttl, f.proof, targets, sent)
                    /\ net' = NetWithout(f) (+) SetToBag(sent)
    BY <1>3
  <2>2. /\ \A g \in DOMAIN net \ {f} : g \in DOMAIN net'
        /\ sent \subseteq DOMAIN net'
    BY <2>1, OthersStay DEF Answered
  <2>3. FramesSent \subseteq sent
    BY <2>1, SentAre
  <2>4. f \in Read(q, m)
    <3>1. \A g \in sent : g.from = m
      BY <2>1 DEF Floods, Relays, Data
    <3>2. f \notin sent
      BY <1>0, <3>1
    <3>3. QED
      BY <2>1, <3>2, IsRead DEF Answered
  <2>5. m = n /\ p \in DOMAIN peers[n] \ targets => DataOf(Read(p, n), f.id) # {}
    BY <1>1, <2>4 DEF DataOf
  <2>6. \A g \in DOMAIN net : g \in DOMAIN net' \/ (g.kind = "data" /\ g.to = m /\ g.id = f.id)
    BY <1>1, <2>2
  <2>7. targets \subseteq DOMAIN peers[m]
    OBVIOUS
  <2> HIDE DEF m, q, targets
  <2>8. QED
    BY <1>0, <1>1, <1>2, <1>3, <2>1, <2>2, <2>3, <2>5, <2>6, <2>7, StoredAdvances
<1>4. CASE ~ Takes(m, f.id, f.ttl) /\ net' = NetWithout(f) /\ UNCHANGED stores
  BY <1>1, <1>2, <1>4, TurnedAwayAdvances DEF stores
<1>5. QED
  BY <1>3, <1>4 DEF OnData, Floods

LEMMA ComposeAdvances ==
  ASSUME Sound, [Next]_vars, NEW n, NEW p, <<n, p>> \in Peerings, MissedGrows(n, p),
         {n, p} \in links, Introduces(n, p), NEW id \in Id, ComposeLocal(id)
  PROVE  Advances(n, p)
<1> DEFINE m == Origin[id]
           ttl == InitTtl[id]
           proof == ProofOf[id][difficulty[m]]
<1>0. m \in Node
  BY OriginAssumption
<1>1. UNCHANGED <<peers, now>>
  BY DEF ComposeLocal
<1>2. CASE /\ Takes(m, id, ttl)
           /\ Store(m, id, ttl)
           /\ \E sent : Floods(m, id, ttl, proof, DOMAIN peers[m], sent) /\ net' = NetWith(sent)
  <2>1. PICK sent : Floods(m, id, ttl, proof, DOMAIN peers[m], sent) /\ net' = NetWith(sent)
    BY <1>2
  <2>2. (\A g \in DOMAIN net : g \in DOMAIN net') /\ sent \subseteq DOMAIN net'
    BY <2>1 DEF NetWith, (+), SetToBag
  <2>3. FramesSent \subseteq sent
    BY <2>1, SentAre
  <2> HIDE DEF m, ttl, proof
  <2>4. QED
    BY <1>0, <1>1, <1>2, <2>1, <2>2, <2>3, StoredAdvances
<1>3. CASE UNCHANGED <<stores, net>>
  BY <1>1, <1>3, QuietAdvances DEF stores
<1>4. QED
  BY <1>2, <1>3 DEF ComposeLocal, Floods

----
(***************************************************************************)
(* Every step on an open contact, and the steps that open one.             *)
(***************************************************************************)
LEMMA StepAdvances ==
  ASSUME Sound, [Next]_vars, NEW n, NEW p, <<n, p>> \in Peerings, MissedGrows(n, p),
         {n, p} \in links, {n, p} \in links', Introduces(n, p)
  PROVE  Advances(n, p)
<1>1. CASE UNCHANGED <<entries, peers, net>>
  BY <1>1, TransportAdvances
<1>2. CASE Report
  BY <1>2, TransportAdvances DEF Report
<1>3. CASE \E m \in Node : Restart(m)
  BY <1>3, TransportAdvances
<1>4. CASE \E id \in Id : ComposeLocal(id)
  BY <1>4, ComposeAdvances
<1>5. CASE Transit
  <2>1. PICK f \in DOMAIN net : OnFrame(f) \/ Lose(f)
    BY <1>5 DEF Transit, BagToSet
  <2>2. QED
    BY <2>1, SummaryAdvances, RefusalAdvances, DataAdvances, TransportAdvances DEF OnFrame
<1>6. QED
  BY <1>1, <1>2, <1>3, <1>4, <1>5
  DEF Next, LinkUp, LinkDown, Tick, SetPuzzleDifficulty, SetRateLimits, vars, stores

\* A peer introduces itself when it is told of the contact, and at no other moment.
LEMMA OpensWhenTold ==
  ASSUME Sound, [Next]_vars, NEW n, NEW p, <<n, p>> \in Peerings, Open(n, p)', ~ Open(n, p)
  PROVE  OnPeerConnected(p, n) /\ n \notin told[p]
<1>0. n \in Node /\ p \in Node /\ told \in [Node -> SUBSET Node] /\ n # p
  BY PeeringsSymmetric, EndsDiffer DEF Sound, Contacts
<1>1. {n, p} \in links' /\ n \in told'[p] /\ ({n, p} \notin links \/ n \notin told[p])
  BY DEF Open
<1>2. ASSUME NEW e \in Peerings, LinkUp(e[1], e[2])
      PROVE  FALSE
  <2>1. /\ links' = links \cup {{e[1], e[2]}} /\ UNCHANGED told
        /\ e[2] \notin told[e[1]] /\ e[1] \notin told[e[2]]
    BY <1>2 DEF LinkUp
  <2>2. {n, p} = {e[1], e[2]}
    BY <1>1, <2>1
  <2>3. (e[1] = n /\ e[2] = p) \/ (e[1] = p /\ e[2] = n)
    BY <2>2
  <2>4. QED
    BY <1>1, <2>1, <2>3
<1>3. ASSUME NEW e \in Peerings, OnPeerConnected(e[1], e[2])
      PROVE  OnPeerConnected(p, n) /\ n \notin told[p]
  <2>1. /\ UNCHANGED links
        /\ told' = [told EXCEPT ![e[1]] = @ \cup {e[2]}]
    BY <1>3 DEF OnPeerConnected
  <2>2. n \notin told[p]
    BY <1>1, <2>1
  <2>3. e[1] = p /\ e[2] = n
    BY <1>0, <1>1, <2>1, <2>2
  <2>4. QED
    BY <1>3, <2>2, <2>3
<1>4. ASSUME links' \subseteq links, \A m \in Node : told'[m] \subseteq told[m]
      PROVE  FALSE
  BY <1>0, <1>1, <1>4
<1>5. CASE UNCHANGED <<links, told>>
  BY <1>4, <1>5
<1>6. CASE \E e \in Peerings : OnPeerLost(e[1], e[2])
  <2>1. PICK e \in Peerings : OnPeerLost(e[1], e[2])
    BY <1>6
  <2>2. UNCHANGED links /\ told' = [told EXCEPT ![e[1]] = @ \ {e[2]}]
    BY <2>1 DEF OnPeerLost
  <2>3. QED
    BY <1>0, <1>4, <2>2
<1>7. CASE \E l \in links : LinkDown(l)
  BY <1>4, <1>7 DEF LinkDown
<1>8. CASE \E m \in Node : Restart(m)
  <2>1. PICK m \in Node : Restart(m)
    BY <1>8
  <2>2. links' \subseteq links /\ told' = [told EXCEPT ![m] = {}]
    BY <2>1 DEF Restart
  <2>3. QED
    BY <1>0, <1>4, <2>2
<1>9. QED
  BY <1>2, <1>3, <1>5, <1>6, <1>7, <1>8
  DEF Next, Report, Transit, OnFrame, Tick, SetPuzzleDifficulty, SetRateLimits, ComposeLocal,
      OnSummary, OnWeakProof, OnOverBudget, OnData, Lose, transport, vars

LEMMA OpenedExchanging ==
  ASSUME Sound, NEW n, NEW p, <<n, p>> \in Peerings, OnPeerConnected(p, n)
  PROVE  Exchanging(n, p)'
<1> DEFINE hello == Summary(p, n, DOMAIN entries[p])
<1>0. p \in Node /\ DOMAIN entries[p] \in SUBSET Id
  BY PeeringsSymmetric, HeldIds
<1>1. net' = NetWith({hello}) /\ UNCHANGED entries
  BY DEF OnPeerConnected, stores
<1>2. hello \in Introductions(n, p)'
  <2>1. hello.kind = "summary" /\ hello.from = p /\ hello.to = n
    BY DEF Summary
  <2> HIDE DEF hello
  <2>2. hello \in DOMAIN net'
    BY <1>1 DEF NetWith, (+), SetToBag
  <2>3. QED
    BY <2>1, <2>2 DEF Introductions
<1>3. Claims(hello) \subseteq DOMAIN entries[p]
  <2>1. FalsePositives[DOMAIN entries[p]] \subseteq Misreported
    BY <1>0 DEF Misreported
  <2>2. QED
    BY <2>1 DEF Claims, Summary, SummaryIds
<1> HIDE DEF hello
<1>4. Introduces(n, p)'
  BY <1>1, <1>2, <1>3 DEF Introduces, Truthful, Claims
<1>5. Carries(n, p)'
  BY <1>1, <1>2, <1>3 DEF Carries, Accounted, OnTheWay, Claims
<1>6. QED
  BY <1>4, <1>5 DEF Exchanging

LEMMA SyncedNext ==
  ASSUME Sound, Synced, [HistoryNext]_historyVars
  PROVE  Synced'
<1>1. ASSUME NEW n, NEW p, <<n, p>> \in Peerings, Open(n, p)'
      PROVE  Exchanging(n, p)'
  <2>1. [Next]_vars
    BY DEF HistoryNext, historyVars
  <2>2. CASE ~ Open(n, p)
    BY <1>1, <2>1, <2>2, OpensWhenTold, OpenedExchanging
  <2>3. CASE Open(n, p)
    <3>1. Exchanging(n, p)
      BY <1>1, <2>3 DEF Synced
    <3>2. CASE UNCHANGED historyVars
      <4>1. UNCHANGED vars /\ UNCHANGED missed
        BY <3>2 DEF historyVars
      <4>2. UNCHANGED <<entries, net, peers, now>>
        BY <4>1 DEF vars, stores
      <4>3. QED
        BY <3>1, <4>1, <4>2
        DEF Exchanging, Carries, Introduces, Accounted, OnTheWay, Introductions, Truthful,
            Claims, Offered
    <3>3. CASE HistoryNext
      <4>1. n \notin told'[p] \ told[p]
        BY <2>3 DEF Open
      <4>2. MissedGrows(n, p)
        BY <1>1, <3>3, <4>1 DEF HistoryNext, MissedGrows
      <4>3. {n, p} \in links /\ {n, p} \in links' /\ Introduces(n, p)
        BY <1>1, <2>3, <3>1 DEF Open, Exchanging
      <4>4. Advances(n, p)
        BY <1>1, <2>1, <4>2, <4>3, StepAdvances
      <4>5. QED
        BY <1>1, <2>1, <3>1, <4>4, AdvancesKeeps
    <3>4. QED
      BY <3>2, <3>3
  <2>4. QED
    BY <2>2, <2>3
<1>2. \A e \in Peerings : e = <<e[1], e[2]>>
  BY DEF Peerings
<1>3. QED
  BY <1>1, <1>2 DEF Synced

LEMMA SyncedInit == HistoryInit => Synced
  BY DEF HistoryInit, Init, Synced, Open

LEMMA SyncedSettles == Synced => ContactSynced
<1> SUFFICES ASSUME Synced, NEW e \in Peerings, Settled(e[1], e[2]),
                    NEW id \in Offered(e[1]) \ missed[e]
             PROVE  id \in DOMAIN entries[e[2]]
  BY DEF ContactSynced
<1> DEFINE n == e[1]
           p == e[2]
<1>1. e = <<n, p>>
  BY DEF Peerings
<1>2. Carries(n, p)
  BY DEF Synced, Settled, Open, Exchanging
<1>3. OnTheWay(n, p, id)
  BY <1>1, <1>2 DEF Carries, Accounted
<1>4. ~ \E f \in DOMAIN net : {f.from, f.to} = {n, p}
  BY DEF Settled
<1>5. {p, n} = {n, p}
  OBVIOUS
<1>6. QED
  BY <1>3, <1>4, <1>5 DEF OnTheWay, DataOf, Introductions

LEMMA HistoryIsOfSpec == HistorySpec => Spec
<1>1. HistoryInit => Init
  BY DEF HistoryInit
<1>2. [HistoryNext]_historyVars => [Next]_vars
  BY DEF HistoryNext, historyVars
<1>3. QED
  BY <1>1, <1>2, PTL DEF HistorySpec, Spec

\* On any mesh, with whatever stores, limits, false positives, failing writes and sends,
\* restarts and late frames: once the frames of a contact have drained, each end holds
\* all that the other can still forward, but for what the history of this very contact
\* gives a reason for.
THEOREM ContactSyncedHolds == HistorySpec => []ContactSynced
<1>1. HistorySpec => []Sound
  BY HistoryIsOfSpec, SoundAlways, PTL
<1>2. HistorySpec => []Synced
  BY <1>1, SyncedInit, SyncedNext, PTL DEF HistorySpec
<1>3. QED
  BY <1>2, SyncedSettles, PTL
====
