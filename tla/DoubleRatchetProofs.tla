---- MODULE DoubleRatchetProofs ----
(***************************************************************************)
(* Theorems about DoubleRatchet, for any bound on the skipped keys and any *)
(* traffic between the two ends, late messages and replays included.       *)
(*                                                                         *)
(* A root key only grows, so a chain a session ratchets to is longer than  *)
(* every chain it has had.  That is what makes a spent key stay spent,     *)
(* also when an old message turns a session back to an old remote key.     *)
(***************************************************************************)
EXTENDS DoubleRatchet, FiniteSetTheorems, TLAPS

SkippedKeys == UNION {[keys -> MessageKey] : keys \in SUBSET (Key \X Nat)}

Ratchet ==
  [dh_self : Key, dh_remote : Key \cup {NoKey},
   root_key : Chain, send_chain : Chain, recv_chain : Chain,
   send_n : Nat, recv_n : Nat, prev_send_n : Nat, skipped : SkippedKeys]

\* The keys of a session that its receiving chain or its skipped keys still give are
\* all different, and none is of a chain yet to come.
RatchetOK(p, s) ==
  /\ s \in Ratchet
  /\ s.dh_self \in {p} \X Nat
  /\ s.dh_remote \in ({Peer(p)} \X Nat) \cup {NoKey}
  /\ s.recv_chain # NoChain => s.dh_remote # NoKey
  /\ Len(s.send_chain) <= Len(s.root_key) /\ Len(s.recv_chain) <= Len(s.root_key)
  /\ \A k \in DOMAIN s.skipped :
       /\ s.skipped[k][1] # NoChain
       /\ Len(s.skipped[k][1]) <= Len(s.root_key)
       /\ s.skipped[k][1] = s.recv_chain => s.skipped[k][2] < s.recv_n
  /\ \A k, j \in DOMAIN s.skipped : s.skipped[k] = s.skipped[j] => k = j
  /\ IsFiniteSet(DOMAIN s.skipped) /\ Cardinality(DOMAIN s.skipped) <= MaxSkip

\* A key that session s has been given, and does not give any more.
Spent(s, key) ==
  /\ key[1] # NoChain /\ Len(key[1]) <= Len(s.root_key)
  /\ ~ Derivable(s, "recv_chain", "recv_n", key)
  /\ \A k \in DOMAIN s.skipped : s.skipped[k] # key

\* A key that session s has sealed with, and does not give any more.
Used(s, key) ==
  /\ Len(key[1]) <= Len(s.root_key)
  /\ ~ Derivable(s, "send_chain", "send_n", key)

\* Session t comes from s without giving up what s had done with.
Follows(p, s, t) ==
  /\ RatchetOK(p, t)
  /\ \A key \in MessageKey :
       /\ Spent(s, key) => Spent(t, key)
       /\ Used(s, key) => Used(t, key)

Sound ==
  /\ DOMAIN session = Party
  /\ \A p \in Party : RatchetOK(p, session[p])
  /\ Sent \subseteq Message /\ DOMAIN reads = Sent
  /\ \A m \in Sent :
       /\ m.dh \in {Peer(m.to)} \X Nat
       /\ arrived[m] \in 0..MaxCopies /\ reads[m] \in 0..arrived[m] /\ reads[m] <= 1
       /\ Used(session[Peer(m.to)], m.key) /\ m.key[1] # NoChain
       /\ reads[m] > 0 => Spent(session[m.to], m.key)
  /\ lost \subseteq Sent
  /\ late \in BOOLEAN /\ full \in BOOLEAN

----
LEMMA Peers == \A p \in Party : Peer(p) \in Party /\ Peer(p) # p /\ Peer(Peer(p)) = p
  BY PartyAssumption DEF Party, Peer

LEMMA FollowsItself == ASSUME NEW p, NEW s, RatchetOK(p, s) PROVE Follows(p, s, s)
  BY DEF Follows

LEMMA FollowsOn ==
  ASSUME NEW p, NEW s, NEW t, NEW u, Follows(p, s, t), Follows(p, t, u)
  PROVE  Follows(p, s, u)
  BY DEF Follows

----
(***************************************************************************)
(* The steps of a session.                                                 *)
(***************************************************************************)
LEMMA KdfRkLonger ==
  ASSUME NEW root \in Chain, NEW x \in Key, NEW y \in Key
  PROVE  /\ KdfRk(root, Agreement(x, y)) \in Chain
         /\ Len(KdfRk(root, Agreement(x, y))) = Len(root) + 1
  BY DEF KdfRk, Agreement, Chain

LEMMA RatchetedFollows ==
  ASSUME NEW p \in Party, NEW s, RatchetOK(p, s), NEW remote \in {Peer(p)} \X Nat
  PROVE  Follows(p, s, Ratcheted(s, remote))
<1> DEFINE t == Ratcheted(s, remote)
<1>1. /\ s \in Ratchet /\ s.dh_self \in Key /\ remote \in Key
      /\ Fresh(s.dh_self) \in {p} \X Nat /\ Fresh(s.dh_self) \in Key
  BY Peers DEF RatchetOK, Ratchet, Fresh, Key
<1>2. PICK recv, send :
        /\ recv = KdfRk(s.root_key, Agreement(s.dh_self, remote))
        /\ send = KdfRk(recv, Agreement(Fresh(s.dh_self), remote))
  OBVIOUS
<1>3. /\ s.root_key \in Chain /\ recv \in Chain /\ send \in Chain
      /\ Len(recv) = Len(s.root_key) + 1 /\ Len(send) = Len(s.root_key) + 2
      /\ Len(s.root_key) \in Nat
  <2>1. s.root_key \in Chain
    BY <1>1 DEF Ratchet
  <2>2. recv \in Chain /\ Len(recv) = Len(s.root_key) + 1
    BY <1>1, <1>2, <2>1, KdfRkLonger
  <2>3. send \in Chain /\ Len(send) = Len(recv) + 1
    BY <1>1, <1>2, <2>2, KdfRkLonger
  <2>4. QED
    BY <2>1, <2>2, <2>3 DEF Chain
<1>4. /\ t \in Ratchet
      /\ t.dh_self = Fresh(s.dh_self) /\ t.dh_remote = remote
      /\ t.root_key = send /\ t.send_chain = send /\ t.recv_chain = recv
      /\ t.skipped = s.skipped
  BY <1>1, <1>2, <1>3 DEF Ratcheted, Ratchet
<1> HIDE DEF t
<1>5. \A key \in MessageKey : Len(key[1]) <= Len(s.root_key) =>
        key[1] # recv /\ key[1] # send /\ Len(key[1]) <= Len(send)
  BY <1>3 DEF MessageKey, Chain
<1>6. \A k \in DOMAIN s.skipped : s.skipped[k] \in MessageKey
  BY <1>1 DEF Ratchet, SkippedKeys
<1>7. RatchetOK(p, t)
  BY <1>1, <1>3, <1>4, <1>5, <1>6, KeyAssumption DEF RatchetOK
<1>8. ASSUME NEW key \in MessageKey
      PROVE  (Spent(s, key) => Spent(t, key)) /\ (Used(s, key) => Used(t, key))
  BY <1>4, <1>5 DEF Spent, Used, Derivable
<1>9. QED
  BY <1>7, <1>8 DEF Follows, t

Aside(s, i) == {s.dh_remote} \X (s.recv_n .. i - 1)

LEMMA SkippedToShape ==
  ASSUME NEW s \in Ratchet, s.dh_remote \in Key, NEW i \in Nat, s.recv_n <= i,
         NEW t, t = SkippedTo(s, i)
  PROVE  /\ t \in Ratchet
         /\ t.dh_self = s.dh_self /\ t.dh_remote = s.dh_remote /\ t.root_key = s.root_key
         /\ t.send_chain = s.send_chain /\ t.recv_chain = s.recv_chain
         /\ t.send_n = s.send_n /\ t.recv_n = i
         /\ DOMAIN t.skipped = DOMAIN s.skipped \cup Aside(s, i)
         /\ \A k \in Aside(s, i) : t.skipped[k] = KdfCk(s.recv_chain, k[2])
         /\ \A k \in DOMAIN s.skipped \ Aside(s, i) : t.skipped[k] = s.skipped[k]
<1> DEFINE aside == Aside(s, i)
           skipped == [k \in DOMAIN s.skipped \cup aside |->
                         IF k \in aside THEN KdfCk(s.recv_chain, k[2]) ELSE s.skipped[k]]
<1>1. t = [s EXCEPT !.recv_n = i, !.skipped = skipped]
  BY DEF SkippedTo, Aside
<1>2. aside \subseteq Key \X Nat /\ \A k \in aside : k[2] \in Nat
  BY DEF Aside, Ratchet
<1>3. s.skipped \in [DOMAIN s.skipped -> MessageKey] /\ DOMAIN s.skipped \subseteq Key \X Nat
  BY DEF Ratchet, SkippedKeys
<1>4. \A k \in aside : KdfCk(s.recv_chain, k[2]) \in MessageKey
  BY <1>2 DEF KdfCk, MessageKey, Ratchet
<1>5. skipped \in [DOMAIN s.skipped \cup aside -> MessageKey]
  BY <1>3, <1>4
<1>6. skipped \in SkippedKeys
  <2>1. DOMAIN s.skipped \cup aside \in SUBSET (Key \X Nat)
    BY <1>2, <1>3
  <2> HIDE DEF aside, skipped
  <2>2. QED
    BY <1>5, <2>1 DEF SkippedKeys
<1>7. /\ DOMAIN skipped = DOMAIN s.skipped \cup aside
      /\ \A k \in aside : skipped[k] = KdfCk(s.recv_chain, k[2])
      /\ \A k \in DOMAIN s.skipped \ aside : skipped[k] = s.skipped[k]
  OBVIOUS
<1> HIDE DEF skipped
<1>8. t \in Ratchet
  BY <1>1, <1>6 DEF Ratchet
<1>9. /\ t.skipped = skipped /\ t.recv_n = i
      /\ t.dh_self = s.dh_self /\ t.dh_remote = s.dh_remote /\ t.root_key = s.root_key
      /\ t.send_chain = s.send_chain /\ t.recv_chain = s.recv_chain /\ t.send_n = s.send_n
  BY <1>1 DEF Ratchet
<1>10. QED
  BY <1>7, <1>8, <1>9 DEF aside

\* Setting keys aside one by one stops in time: there are never more than MAX_SKIP.
LEMMA SkippedToFits ==
  ASSUME NEW p, NEW s, RatchetOK(p, s), s.dh_remote \in Key,
         NEW upto \in Nat, NEW i \in SkipStops(s, upto)
  PROVE  /\ IsFiniteSet(DOMAIN SkippedTo(s, i).skipped)
         /\ Cardinality(DOMAIN SkippedTo(s, i).skipped) <= MaxSkip
<1>1. /\ s \in Ratchet /\ s.recv_n \in Nat /\ MaxSkip \in Nat
      /\ i \in s.recv_n .. s.recv_n + upto /\ i \in Nat /\ s.recv_n <= i
  BY BoundAssumption DEF RatchetOK, Ratchet, SkipStops
<1>2. DOMAIN SkippedTo(s, i).skipped = DOMAIN s.skipped \cup Aside(s, i)
  BY <1>1, SkippedToShape
<1>3. CASE i = s.recv_n
  <2>1. Aside(s, i) = {}
    BY <1>1, <1>3 DEF Aside
  <2>2. QED
    BY <1>2, <2>1 DEF RatchetOK
<1>4. CASE i # s.recv_n
  <2>1. i - 1 \in s.recv_n .. i - 1 /\ i - 1 \in Nat
    BY <1>1, <1>4
  <2> DEFINE before == DOMAIN SkippedTo(s, i - 1).skipped
  <2>2. before = DOMAIN s.skipped \cup Aside(s, i - 1)
    BY <1>1, <2>1, SkippedToShape
  <2>3. ~ IsFull(SkippedTo(s, i - 1))
    BY <2>1 DEF SkipStops
  <2>4. Aside(s, i) = Aside(s, i - 1) \cup {<<s.dh_remote, i - 1>>}
    BY <1>1, <2>1 DEF Aside
  <2>5. IsFiniteSet(before)
    <3>1. s.recv_n \in Int /\ (i - 1) - 1 \in Int
      BY <1>1
    <3>2. IsFiniteSet(s.recv_n .. (i - 1) - 1)
      BY <3>1, FS_Interval
    <3>3. IsFiniteSet({s.dh_remote})
      BY FS_Singleton
    <3>4. IsFiniteSet(Aside(s, i - 1))
      BY <3>2, <3>3, FS_Product DEF Aside
    <3>5. IsFiniteSet(DOMAIN s.skipped)
      BY DEF RatchetOK
    <3> HIDE DEF before
    <3>6. QED
      BY <2>2, <3>4, <3>5, FS_Union
  <2>6. DOMAIN SkippedTo(s, i).skipped = before \cup {<<s.dh_remote, i - 1>>}
    BY <1>2, <2>2, <2>4
  <2> HIDE DEF before
  <2>7. /\ IsFiniteSet(before \cup {<<s.dh_remote, i - 1>>})
        /\ Cardinality(before \cup {<<s.dh_remote, i - 1>>}) <= Cardinality(before) + 1
    <3>1. Cardinality(before) \in Nat
      BY <2>5, FS_CardinalityType
    <3>2. PICK key : key = <<s.dh_remote, i - 1>>
      OBVIOUS
    <3>3. /\ IsFiniteSet(before \cup {key})
          /\ Cardinality(before \cup {key}) =
               IF key \in before THEN Cardinality(before) ELSE Cardinality(before) + 1
      BY <2>5, FS_AddElement
    <3>4. QED
      BY <3>1, <3>2, <3>3
  <2>8. Cardinality(before) \in Nat /\ ~ (Cardinality(before) >= MaxSkip)
    BY <2>3, <2>5, FS_CardinalityType DEF IsFull, before
  <2>9. Cardinality(before \cup {<<s.dh_remote, i - 1>>}) \in Nat
    BY <2>7, FS_CardinalityType
  <2>10. QED
    BY <1>1, <2>6, <2>7, <2>8, <2>9
<1>5. QED
  BY <1>3, <1>4

LEMMA SkippedToFollows ==
  ASSUME NEW p \in Party, NEW s, RatchetOK(p, s), s.dh_remote \in Key,
         s.recv_chain # NoChain, NEW upto \in Nat, NEW i \in SkipStops(s, upto),
         NEW t, t = SkippedTo(s, i)
  PROVE  /\ Follows(p, s, t)
         /\ t.dh_self = s.dh_self /\ t.dh_remote = s.dh_remote
         /\ t.recv_chain = s.recv_chain /\ t.recv_n = i /\ i \in Nat
<1>1. /\ s \in Ratchet /\ s.recv_n \in Nat /\ i \in Nat /\ s.recv_n <= i
      /\ s.recv_chain \in Chain
  BY DEF RatchetOK, Ratchet, SkipStops
<1>2. /\ t \in Ratchet
      /\ t.dh_self = s.dh_self /\ t.dh_remote = s.dh_remote /\ t.root_key = s.root_key
      /\ t.send_chain = s.send_chain /\ t.recv_chain = s.recv_chain
      /\ t.send_n = s.send_n /\ t.recv_n = i
      /\ DOMAIN t.skipped = DOMAIN s.skipped \cup Aside(s, i)
      /\ \A k \in Aside(s, i) : t.skipped[k] = KdfCk(s.recv_chain, k[2])
      /\ \A k \in DOMAIN s.skipped \ Aside(s, i) : t.skipped[k] = s.skipped[k]
  BY <1>1, SkippedToShape
<1>3. /\ IsFiniteSet(DOMAIN t.skipped) /\ Cardinality(DOMAIN t.skipped) <= MaxSkip
  BY SkippedToFits
<1>4. \A k \in Aside(s, i) :
        /\ t.skipped[k][1] = s.recv_chain /\ t.skipped[k][2] = k[2]
        /\ k[1] = s.dh_remote /\ k = <<k[1], k[2]>>
        /\ k[2] \in Nat /\ s.recv_n <= k[2] /\ k[2] < i
  BY <1>1, <1>2 DEF KdfCk, Aside
<1>5. \A k \in DOMAIN s.skipped : s.skipped[k] \in MessageKey /\ s.skipped[k][2] \in Nat
  BY <1>1 DEF Ratchet, SkippedKeys, MessageKey
<1>6. \A k \in DOMAIN t.skipped :
        /\ t.skipped[k][1] # NoChain
        /\ Len(t.skipped[k][1]) <= Len(t.root_key)
        /\ t.skipped[k][1] = t.recv_chain => t.skipped[k][2] < t.recv_n
  <2>1. TAKE k \in DOMAIN t.skipped
  <2>2. CASE k \in Aside(s, i)
    BY <1>2, <1>4, <2>2 DEF RatchetOK
  <2>3. CASE k \in DOMAIN s.skipped \ Aside(s, i)
    BY <1>1, <1>2, <1>5, <2>3 DEF RatchetOK
  <2>4. QED
    BY <1>2, <2>2, <2>3
<1>7. ASSUME NEW k \in DOMAIN t.skipped, NEW j \in DOMAIN t.skipped,
             t.skipped[k] = t.skipped[j]
      PROVE  k = j
  <2>1. ASSUME NEW x \in Aside(s, i), NEW y \in DOMAIN s.skipped \ Aside(s, i)
        PROVE  t.skipped[x] # t.skipped[y]
    <3>1. s.skipped[y][1] = s.recv_chain => s.skipped[y][2] < s.recv_n
      BY DEF RatchetOK
    <3>2. QED
      BY <1>1, <1>2, <1>4, <1>5, <3>1
  <2>2. CASE k \in Aside(s, i) /\ j \in Aside(s, i)
    BY <1>4, <1>7, <2>2
  <2>3. CASE k \in DOMAIN s.skipped \ Aside(s, i) /\ j \in DOMAIN s.skipped \ Aside(s, i)
    BY <1>2, <1>7, <2>3 DEF RatchetOK
  <2>4. QED
    BY <1>2, <1>7, <2>1, <2>2, <2>3
<1>8. RatchetOK(p, t)
  BY <1>2, <1>3, <1>6, <1>7 DEF RatchetOK
<1>9. ASSUME NEW key \in MessageKey
      PROVE  (Spent(s, key) => Spent(t, key)) /\ (Used(s, key) => Used(t, key))
  <2>1. key[2] \in Nat
    BY DEF MessageKey
  <2>2. ASSUME Spent(s, key) PROVE Spent(t, key)
    <3>1. ASSUME NEW k \in DOMAIN t.skipped PROVE t.skipped[k] # key
      <4>1. CASE k \in Aside(s, i)
        BY <1>1, <1>4, <2>1, <2>2, <4>1 DEF Spent, Derivable
      <4>2. CASE k \in DOMAIN s.skipped \ Aside(s, i)
        BY <1>2, <2>2, <4>2 DEF Spent
      <4>3. QED
        BY <1>2, <4>1, <4>2
    <3>2. ~ Derivable(t, "recv_chain", "recv_n", key)
      BY <1>1, <1>2, <2>1, <2>2 DEF Spent, Derivable
    <3>3. QED
      BY <1>2, <2>2, <3>1, <3>2 DEF Spent
  <2>3. Used(s, key) => Used(t, key)
    BY <1>2 DEF Used, Derivable
  <2>4. QED
    BY <2>2, <2>3
<1>10. QED
  BY <1>1, <1>2, <1>8, <1>9 DEF Follows

LEMMA ForgetsChainFollows ==
  ASSUME NEW p \in Party, NEW s, RatchetOK(p, s),
         NEW t, t = [s EXCEPT !.recv_chain = NoChain]
  PROVE  Follows(p, s, t)
<1>1. NoChain \in Chain /\ Len(NoChain) = 0
  BY DEF NoChain, Chain
<1>2. /\ t \in Ratchet
      /\ t.dh_self = s.dh_self /\ t.dh_remote = s.dh_remote /\ t.root_key = s.root_key
      /\ t.send_chain = s.send_chain /\ t.recv_chain = NoChain
      /\ t.send_n = s.send_n /\ t.recv_n = s.recv_n /\ t.skipped = s.skipped
  BY <1>1 DEF RatchetOK, Ratchet
<1>3. Len(NoChain) <= Len(s.root_key)
  BY <1>1 DEF RatchetOK, Ratchet, Chain
<1>4. RatchetOK(p, t)
  BY <1>2, <1>3 DEF RatchetOK
<1>5. ASSUME NEW key \in MessageKey
      PROVE  (Spent(s, key) => Spent(t, key)) /\ (Used(s, key) => Used(t, key))
  BY <1>2 DEF Spent, Used, Derivable
<1>6. QED
  BY <1>4, <1>5 DEF Follows

\* A session that moves on along its receiving chain, with the key it leaves behind.
LEMMA MovesOnFollows ==
  ASSUME NEW p \in Party, NEW s, RatchetOK(p, s), s.recv_chain # NoChain,
         NEW t, t = [s EXCEPT !.recv_n = s.recv_n + 1],
         NEW key, key = KdfCk(s.recv_chain, s.recv_n)
  PROVE  Follows(p, s, t) /\ ~ Spent(s, key) /\ Spent(t, key)
<1>1. s.recv_n \in Nat /\ s.recv_n + 1 \in Nat /\ s.recv_chain \in Chain
  BY DEF RatchetOK, Ratchet
<1>2. \A n \in Nat : [s EXCEPT !.recv_n = n] \in Ratchet
  BY DEF RatchetOK, Ratchet
<1>3. t \in Ratchet
  BY <1>1, <1>2
<1>4. /\ t.dh_self = s.dh_self /\ t.dh_remote = s.dh_remote /\ t.root_key = s.root_key
      /\ t.send_chain = s.send_chain /\ t.recv_chain = s.recv_chain
      /\ t.send_n = s.send_n /\ t.recv_n = s.recv_n + 1 /\ t.skipped = s.skipped
  BY DEF RatchetOK, Ratchet
<1>5. key[1] = s.recv_chain /\ key[2] = s.recv_n
  BY DEF KdfCk
<1>6. \A k \in DOMAIN s.skipped : s.skipped[k][2] \in Nat
  BY DEF RatchetOK, Ratchet, SkippedKeys, MessageKey
<1>7. \A k \in DOMAIN s.skipped :
        s.skipped[k][1] = s.recv_chain => s.skipped[k][2] < s.recv_n
  BY DEF RatchetOK
<1>8. \A k \in DOMAIN s.skipped :
        s.skipped[k][1] = s.recv_chain => s.skipped[k][2] < s.recv_n + 1
  BY <1>1, <1>6, <1>7
<1>9. RatchetOK(p, t)
  BY <1>3, <1>4, <1>8 DEF RatchetOK
<1>10. ASSUME NEW other \in MessageKey
       PROVE  (Spent(s, other) => Spent(t, other)) /\ (Used(s, other) => Used(t, other))
  <2>1. other[2] \in Nat
    BY DEF MessageKey
  <2>2. QED
    BY <1>1, <1>4, <2>1 DEF Spent, Used, Derivable
<1>11. ~ Spent(s, key)
  BY <1>1, <1>5 DEF Spent, Derivable
<1>12. Spent(t, key)
  <2>1. \A k \in DOMAIN s.skipped : s.skipped[k] # key
    BY <1>1, <1>5, <1>6, <1>7
  <2>2. key[1] # NoChain /\ Len(key[1]) <= Len(s.root_key)
    BY <1>5 DEF RatchetOK
  <2>3. ~ Derivable(t, "recv_chain", "recv_n", key)
    BY <1>1, <1>4, <1>5 DEF Derivable
  <2>4. QED
    BY <1>4, <2>1, <2>2, <2>3 DEF Spent
<1>13. QED
  BY <1>9, <1>10, <1>11, <1>12 DEF Follows

\* A session that takes a skipped key out, with that key.
LEMMA TakesOutFollows ==
  ASSUME NEW p \in Party, NEW s, RatchetOK(p, s), NEW k \in DOMAIN s.skipped,
         NEW rest, rest = DOMAIN s.skipped \ {k},
         NEW t, t = [s EXCEPT !.skipped = [j \in rest |-> s.skipped[j]]]
  PROVE  Follows(p, s, t) /\ ~ Spent(s, s.skipped[k]) /\ Spent(t, s.skipped[k])
<1>1. s \in Ratchet
  BY DEF RatchetOK
<1>2. PICK skipped : skipped = [j \in rest |-> s.skipped[j]]
  OBVIOUS
<1>3. s.skipped \in [DOMAIN s.skipped -> MessageKey] /\ DOMAIN s.skipped \subseteq Key \X Nat
  BY <1>1 DEF Ratchet, SkippedKeys
<1>4. skipped \in [rest -> MessageKey] /\ rest \in SUBSET (Key \X Nat)
  BY <1>2, <1>3
<1>5. skipped \in SkippedKeys
  BY <1>4 DEF SkippedKeys
<1>6. t = [s EXCEPT !.skipped = skipped]
  BY <1>2
<1>7. t \in Ratchet
  BY <1>1, <1>5, <1>6 DEF Ratchet
<1>8. /\ t.dh_self = s.dh_self /\ t.dh_remote = s.dh_remote /\ t.root_key = s.root_key
      /\ t.send_chain = s.send_chain /\ t.recv_chain = s.recv_chain
      /\ t.send_n = s.send_n /\ t.recv_n = s.recv_n /\ t.skipped = skipped
  BY <1>1, <1>6 DEF Ratchet
<1>9. DOMAIN skipped = rest /\ \A j \in rest : skipped[j] = s.skipped[j]
  BY <1>2
<1>10. /\ IsFiniteSet(rest) /\ Cardinality(rest) <= MaxSkip
  <2>1. IsFiniteSet(DOMAIN s.skipped) /\ Cardinality(DOMAIN s.skipped) <= MaxSkip
    BY DEF RatchetOK
  <2>2. IsFiniteSet(rest) /\ Cardinality(rest) <= Cardinality(DOMAIN s.skipped)
    <3>1. rest \in SUBSET (DOMAIN s.skipped)
      OBVIOUS
    <3>2. QED
      BY <2>1, <3>1, FS_Subset
  <2>3. Cardinality(rest) \in Nat /\ Cardinality(DOMAIN s.skipped) \in Nat /\ MaxSkip \in Nat
    BY <2>1, <2>2, FS_CardinalityType, BoundAssumption
  <2>4. QED
    BY <2>1, <2>2, <2>3
<1>11. RatchetOK(p, t)
  BY <1>7, <1>8, <1>9, <1>10 DEF RatchetOK
<1>12. ASSUME NEW other \in MessageKey
       PROVE  (Spent(s, other) => Spent(t, other)) /\ (Used(s, other) => Used(t, other))
  BY <1>8, <1>9 DEF Spent, Used, Derivable
<1>13. ~ Spent(s, s.skipped[k])
  BY DEF Spent
<1>14. Spent(t, s.skipped[k])
  <2>1. s.skipped[k][2] \in Nat /\ s.recv_n \in Nat
    BY <1>1, <1>3 DEF MessageKey, Ratchet
  <2>2. ~ Derivable(t, "recv_chain", "recv_n", s.skipped[k])
    BY <1>8, <2>1 DEF RatchetOK, Derivable
  <2>3. \A j \in DOMAIN t.skipped : t.skipped[j] # s.skipped[k]
    BY <1>8, <1>9 DEF RatchetOK
  <2>4. s.skipped[k][1] # NoChain /\ Len(s.skipped[k][1]) <= Len(t.root_key)
    BY <1>8 DEF RatchetOK
  <2>5. QED
    BY <2>2, <2>3, <2>4 DEF Spent
<1>15. QED
  BY <1>11, <1>12, <1>13, <1>14 DEF Follows

\* A session that moves on along its sending chain, with the key it leaves behind.
LEMMA SendsFollows ==
  ASSUME NEW p \in Party, NEW s, RatchetOK(p, s),
         NEW t, t = [s EXCEPT !.send_n = s.send_n + 1]
  PROVE  /\ Follows(p, s, t)
         /\ Used(t, KdfCk(s.send_chain, s.send_n))
         /\ KdfCk(s.send_chain, s.send_n) \in MessageKey
<1>1. s.send_n \in Nat /\ s.send_n + 1 \in Nat /\ s.send_chain \in Chain
  BY DEF RatchetOK, Ratchet
<1>2. \A n \in Nat : [s EXCEPT !.send_n = n] \in Ratchet
  BY DEF RatchetOK, Ratchet
<1>3. t \in Ratchet
  BY <1>1, <1>2
<1>4. /\ t.dh_self = s.dh_self /\ t.dh_remote = s.dh_remote /\ t.root_key = s.root_key
      /\ t.send_chain = s.send_chain /\ t.recv_chain = s.recv_chain
      /\ t.send_n = s.send_n + 1 /\ t.recv_n = s.recv_n /\ t.skipped = s.skipped
  BY DEF RatchetOK, Ratchet
<1>5. RatchetOK(p, t)
  BY <1>3, <1>4 DEF RatchetOK
<1>6. ASSUME NEW other \in MessageKey
      PROVE  (Spent(s, other) => Spent(t, other)) /\ (Used(s, other) => Used(t, other))
  <2>1. other[2] \in Nat
    BY DEF MessageKey
  <2>2. QED
    BY <1>1, <1>4, <2>1 DEF Spent, Used, Derivable
<1>7. Used(t, KdfCk(s.send_chain, s.send_n))
  BY <1>1, <1>4 DEF Used, Derivable, KdfCk, RatchetOK
<1>8. QED
  BY <1>1, <1>5, <1>6, <1>7 DEF Follows, KdfCk, MessageKey

----
(***************************************************************************)
(* The steps of the system.                                                *)
(***************************************************************************)

\* Message m settled with a session that follows, its key spent if it was opened.
Settled(m) ==
  \E s, opened :
    /\ Settles(m, s, opened)
    /\ Follows(m.to, session[m.to], s)
    /\ opened => ~ Spent(session[m.to], m.key) /\ Spent(s, m.key)
    /\ full' \in BOOLEAN

\* What a message looks like to the party it has come to.
Comes(m, s) ==
  /\ m \in Message /\ m.dh \in {Peer(m.to)} \X Nat /\ full \in BOOLEAN
  /\ Follows(m.to, session[m.to], s)

LEMMA OpensSettles ==
  ASSUME NEW m, NEW s, Comes(m, s), s.dh_remote = m.dh, Opens(m, s)
  PROVE  Settled(m)
<1> DEFINE p == m.to
<1>1. /\ p \in Party /\ Peer(p) \in Party /\ m.dh \in Key /\ m.n \in Nat
      /\ m.key \in MessageKey
  BY Peers DEF Comes, Message
<1>2. Follows(p, session[p], s) /\ RatchetOK(p, s) /\ s \in Ratchet /\ full \in BOOLEAN
  BY DEF Comes, Follows, RatchetOK
<1>3. CASE OpensSkipped(m, s)
  <2> DEFINE k    == <<m.dh, m.n>>
             rest == DOMAIN s.skipped \ {k}
             t    == [s EXCEPT !.skipped = [j \in rest |-> s.skipped[j]]]
  <2>1. k \in DOMAIN s.skipped /\ Settles(m, t, s.skipped[k] = m.key) /\ full' = full
    BY <1>3 DEF OpensSkipped
  <2>2. Follows(p, s, t) /\ ~ Spent(s, s.skipped[k]) /\ Spent(t, s.skipped[k])
    <3>1. k \in DOMAIN s.skipped /\ p \in Party /\ RatchetOK(p, s)
      BY <1>1, <1>2, <2>1
    <3> HIDE DEF k, p
    <3>2. QED
      BY <3>1, TakesOutFollows
  <2> HIDE DEF t, k
  <2>3. Follows(p, session[p], t)
    BY <1>2, <2>2, FollowsOn
  <2>4. s.skipped[k] = m.key => ~ Spent(session[p], m.key) /\ Spent(t, m.key)
    BY <1>1, <1>2, <2>2 DEF Follows
  <2>5. QED
    BY <1>2, <2>1, <2>3, <2>4 DEF Settled
<1>4. CASE RefusesKey(m, s)
  <2>1. Settles(m, s, FALSE) /\ full' = full
    BY <1>4 DEF RefusesKey
  <2>2. QED
    BY <1>2, <2>1 DEF Settled
<1>5. CASE OpensNext(m, s)
  <2>1. /\ s.recv_chain # NoChain
        /\ \E i \in SkipStops(s, m.n) :
             \/ Overflows(m, s, i)
             \/ /\ i = m.n
                /\ Settles(m, [SkippedTo(s, i) EXCEPT !.recv_n = i + 1],
                           KdfCk(s.recv_chain, i) = m.key)
                /\ full' = full
    BY <1>5 DEF OpensNext
  <2>2. PICK i \in SkipStops(s, m.n) :
             \/ Overflows(m, s, i)
             \/ /\ i = m.n
                /\ Settles(m, [SkippedTo(s, i) EXCEPT !.recv_n = i + 1],
                           KdfCk(s.recv_chain, i) = m.key)
                /\ full' = full
    BY <2>1
  <2> DEFINE t == SkippedTo(s, i)
  <2>3. /\ Follows(p, s, t) /\ RatchetOK(p, t)
        /\ t.recv_chain = s.recv_chain /\ t.recv_n = i
    BY <1>1, <1>2, <2>1, SkippedToFollows DEF Follows
  <2>4. CASE Overflows(m, s, i)
    <3> DEFINE u == [t EXCEPT !.recv_chain = NoChain]
    <3>1. Settles(m, u, FALSE) /\ full' = TRUE
      BY <2>4 DEF Overflows
    <3>2. Follows(p, t, u)
      BY <1>1, <2>3, ForgetsChainFollows
    <3> HIDE DEF u, t
    <3>3. Follows(p, session[p], u)
      BY <1>2, <2>3, <3>2, FollowsOn
    <3>4. QED
      BY <3>1, <3>3 DEF Settled
  <2>5. CASE /\ Settles(m, [t EXCEPT !.recv_n = i + 1], KdfCk(s.recv_chain, i) = m.key)
             /\ full' = full
    <3> DEFINE key == KdfCk(s.recv_chain, i)
               u   == [t EXCEPT !.recv_n = i + 1]
    <3> HIDE DEF t
    <3>1. Follows(p, t, u) /\ ~ Spent(t, key) /\ Spent(u, key)
      BY <1>1, <2>1, <2>3, MovesOnFollows
    <3>2. Settles(m, u, key = m.key) /\ full' = full
      BY <2>5
    <3> HIDE DEF u, key
    <3>3. Follows(p, session[p], t) /\ Follows(p, session[p], u)
      BY <1>2, <2>3, <3>1, FollowsOn
    <3>4. key = m.key => ~ Spent(session[p], m.key) /\ Spent(u, m.key)
      BY <1>1, <3>1, <3>3 DEF Follows
    <3>5. QED
      BY <1>2, <3>2, <3>3, <3>4 DEF Settled
  <2>6. QED
    BY <2>2, <2>4, <2>5
<1>6. QED
  BY <1>3, <1>4, <1>5 DEF Opens

LEMMA DecryptSettles ==
  ASSUME Sound, NEW m \in Sent, Decrypt(m)
  PROVE  Settled(m)
<1> DEFINE p == m.to
           s == session[p]
<1>1. /\ m \in Message /\ p \in Party /\ Peer(p) \in Party /\ m.pn \in Nat
      /\ m.dh \in {Peer(p)} \X Nat /\ RatchetOK(p, s) /\ full \in BOOLEAN
  BY Peers DEF Sound, Message
<1>2. /\ Follows(p, s, s) /\ Comes(m, s)
  BY <1>1, FollowsItself DEF Comes
<1>3. ASSUME NEW t, Follows(p, s, t)
      PROVE  Comes(m, Ratcheted(t, m.dh)) /\ Ratcheted(t, m.dh).dh_remote = m.dh
  <2>1. RatchetOK(p, t) /\ t \in Ratchet
    BY <1>3 DEF Follows, RatchetOK
  <2>2. Follows(p, t, Ratcheted(t, m.dh))
    BY <1>1, <2>1, RatchetedFollows
  <2>3. Follows(p, s, Ratcheted(t, m.dh))
    BY <1>3, <2>2, FollowsOn
  <2>4. Ratcheted(t, m.dh).dh_remote = m.dh
    BY <2>1 DEF Ratcheted, Ratchet
  <2>5. QED
    BY <1>1, <2>3, <2>4 DEF Comes
<1>4. \/ s.dh_remote = m.dh /\ Opens(m, s)
      \/ Opens(m, Ratcheted(s, m.dh))
      \/ /\ s.recv_chain # NoChain /\ s.dh_remote # m.dh
         /\ \E i \in SkipStops(s, m.pn) :
              Overflows(m, s, i) \/ Opens(m, Ratcheted(SkippedTo(s, i), m.dh))
  BY DEF Decrypt
<1>5. CASE s.dh_remote = m.dh /\ Opens(m, s)
  BY <1>2, <1>5, OpensSettles
<1>6. CASE Opens(m, Ratcheted(s, m.dh))
  BY <1>2, <1>3, <1>6, OpensSettles
<1>7. CASE /\ s.recv_chain # NoChain /\ s.dh_remote # m.dh
           /\ \E i \in SkipStops(s, m.pn) :
                Overflows(m, s, i) \/ Opens(m, Ratcheted(SkippedTo(s, i), m.dh))
  <2>1. PICK i \in SkipStops(s, m.pn) :
          Overflows(m, s, i) \/ Opens(m, Ratcheted(SkippedTo(s, i), m.dh))
    BY <1>7
  <2> DEFINE t == SkippedTo(s, i)
  <2>2. s.dh_remote \in Key
    BY <1>1, <1>7, Peers DEF RatchetOK, Ratchet
  <2>3. Follows(p, s, t) /\ RatchetOK(p, t)
    BY <1>1, <1>7, <2>2, SkippedToFollows DEF Follows
  <2>4. CASE Overflows(m, s, i)
    <3> DEFINE u == [t EXCEPT !.recv_chain = NoChain]
    <3>1. Settles(m, u, FALSE) /\ full' = TRUE
      BY <2>4 DEF Overflows
    <3>2. Follows(p, t, u)
      BY <1>1, <2>3, ForgetsChainFollows
    <3> HIDE DEF u, t
    <3>3. Follows(p, s, u)
      BY <2>3, <3>2, FollowsOn
    <3>4. QED
      BY <3>1, <3>3 DEF Settled
  <2>5. CASE Opens(m, Ratcheted(t, m.dh))
    <3> HIDE DEF t
    <3>1. QED
      BY <1>3, <2>3, <2>5, OpensSettles
  <2>6. QED
    BY <2>1, <2>4, <2>5
<1>8. QED
  BY <1>4, <1>5, <1>6, <1>7

LEMMA DecryptSound ==
  ASSUME Sound, NEW m \in Sent, Decrypt(m)
  PROVE  Sound'
<1>1. /\ m.to \in Party /\ reads[m] \in 0..arrived[m] /\ reads[m] <= 1
      /\ arrived[m] \in 0..MaxCopies /\ MaxCopies \in Nat
      /\ m.key \in MessageKey
      /\ reads[m] > 0 => Spent(session[m.to], m.key)
  BY BoundAssumption DEF Sound, Message
<1>2. PICK s, opened :
        /\ Settles(m, s, opened)
        /\ Follows(m.to, session[m.to], s)
        /\ opened => ~ Spent(session[m.to], m.key) /\ Spent(s, m.key)
        /\ full' \in BOOLEAN
  BY DecryptSettles, Zenon DEF Settled
<1>3. /\ session' = [session EXCEPT ![m.to] = s] /\ full' \in BOOLEAN
      /\ Follows(m.to, session[m.to], s)
      /\ \/ /\ reads' = [reads EXCEPT ![m] = reads[m] + 1]
            /\ ~ Spent(session[m.to], m.key) /\ Spent(s, m.key)
         \/ reads' = reads
      /\ lost' = lost \/ lost' = lost \cup {m}
  <2>1. CASE opened
    BY <1>2, <2>1 DEF Settles
  <2>2. CASE ~ opened
    BY <1>2, <2>2 DEF Settles
  <2>3. QED
    BY <2>1, <2>2
<1>4. /\ arrived[m] < MaxCopies /\ late' \in BOOLEAN
      /\ arrived' = [arrived EXCEPT ![m] = arrived[m] + 1]
  BY DEF Decrypt, Sound
<1>5. DOMAIN arrived' = DOMAIN arrived
  BY <1>4
<1>6. /\ DOMAIN session' = Party
      /\ \A p \in Party : session'[p] = IF p = m.to THEN s ELSE session[p]
  BY <1>1, <1>3 DEF Sound
<1>7. \A p \in Party : RatchetOK(p, session'[p]) /\ Follows(p, session[p], session'[p])
  <2>1. TAKE p \in Party
  <2>2. Follows(p, session[p], session'[p])
    BY <1>3, <1>6, FollowsItself DEF Sound
  <2>3. QED
    BY <2>2 DEF Follows
<1>8. DOMAIN reads' = DOMAIN reads /\ DOMAIN reads = Sent
  BY <1>3 DEF Sound
<1>9. ASSUME NEW l \in Sent
      PROVE  /\ l.dh \in {Peer(l.to)} \X Nat
             /\ arrived'[l] \in 0..MaxCopies /\ reads'[l] \in 0..arrived'[l] /\ reads'[l] <= 1
             /\ Used(session'[Peer(l.to)], l.key) /\ l.key[1] # NoChain
             /\ reads'[l] > 0 => Spent(session'[l.to], l.key)
  <2>1. /\ l.to \in Party /\ Peer(l.to) \in Party /\ l.key \in MessageKey
        /\ l.dh \in {Peer(l.to)} \X Nat /\ l.key[1] # NoChain
        /\ arrived[l] \in 0..MaxCopies /\ reads[l] \in 0..arrived[l] /\ reads[l] <= 1
        /\ Used(session[Peer(l.to)], l.key)
        /\ reads[l] > 0 => Spent(session[l.to], l.key)
    BY Peers DEF Sound, Message
  <2>2. Used(session'[Peer(l.to)], l.key)
    BY <1>7, <2>1 DEF Follows
  <2>3. reads[l] > 0 => Spent(session'[l.to], l.key)
    BY <1>7, <2>1 DEF Follows
  <2>4. CASE l # m
    <3>1. arrived'[l] = arrived[l] /\ reads'[l] = reads[l]
      <4>1. l \in DOMAIN arrived /\ l \in DOMAIN reads
        BY <1>8 DEF Sent
      <4>2. QED
        BY <1>3, <1>4, <2>4, <4>1
    <3>2. QED
      BY <2>1, <2>2, <2>3, <3>1
  <2>5. CASE l = m /\ reads' = reads
    <3>1. reads'[m] = reads[m] /\ arrived'[m] = arrived[m] + 1
      <4>1. m \in DOMAIN arrived
        BY DEF Sent
      <4>2. QED
        BY <1>4, <2>5, <4>1
    <3>2. arrived'[m] \in 0..MaxCopies /\ reads'[m] \in 0..arrived'[m]
      BY <1>1, <1>4, <3>1
    <3>3. QED
      BY <2>1, <2>2, <2>3, <2>5, <3>1, <3>2
  <2>6. CASE /\ l = m /\ reads' = [reads EXCEPT ![m] = reads[m] + 1]
             /\ ~ Spent(session[m.to], m.key) /\ Spent(s, m.key)
    <3>1. reads[m] = 0 /\ Spent(session'[m.to], m.key)
      <4>1. session'[m.to] = s
        BY <1>1, <1>6
      <4>2. ~ (reads[m] > 0)
        BY <1>1, <2>6
      <4>3. QED
        BY <1>1, <2>6, <4>1, <4>2
    <3>2. reads'[m] = 1 /\ arrived'[m] = arrived[m] + 1
      <4>1. m \in DOMAIN reads /\ m \in DOMAIN arrived
        BY <1>8 DEF Sent
      <4>2. QED
        BY <1>4, <2>6, <3>1, <4>1
    <3>3. QED
      BY <1>1, <1>4, <2>1, <2>2, <2>6, <3>1, <3>2
  <2>7. QED
    BY <1>3, <2>4, <2>5, <2>6
<1>10. lost' \subseteq DOMAIN arrived'
  BY <1>3, <1>5 DEF Sound, Sent
<1>11. DOMAIN arrived' \subseteq Message
  BY <1>5 DEF Sound, Sent
<1>12. QED
  BY <1>3, <1>4, <1>5, <1>6, <1>7, <1>8, <1>9, <1>10, <1>11 DEF Sound, Sent

LEMMA AdvancesSendingFollows ==
  ASSUME Sound, NEW p \in Party, AdvancesSending(p)
  PROVE  /\ DOMAIN session' = Party
         /\ \A q \in Party : Follows(q, session[q], session'[q]) /\ RatchetOK(q, session'[q])
         /\ Used(session'[p], Sealed(p).key) /\ Sealed(p) \in Message
         /\ Sealed(p).to = Peer(p) /\ Sealed(p).dh \in {p} \X Nat
         /\ Sealed(p).key[1] # NoChain
<1> DEFINE s == session[p]
           t == [s EXCEPT !.send_n = s.send_n + 1]
<1>1. session' = [session EXCEPT ![p] = t] /\ s.send_chain # NoChain
  BY DEF AdvancesSending
<1>2. RatchetOK(p, s) /\ s \in Ratchet
  BY DEF Sound, RatchetOK
<1>3. /\ Follows(p, s, t)
      /\ Used(t, KdfCk(s.send_chain, s.send_n))
      /\ KdfCk(s.send_chain, s.send_n) \in MessageKey
  BY <1>2, SendsFollows
<1> HIDE DEF t
<1>4. /\ DOMAIN session' = Party
      /\ \A q \in Party : session'[q] = IF q = p THEN t ELSE session[q]
  BY <1>1 DEF Sound
<1>5. ASSUME NEW q \in Party PROVE Follows(q, session[q], session'[q])
  BY <1>3, <1>4, FollowsItself DEF Sound
<1>6. /\ Sealed(p).to = Peer(p) /\ Sealed(p).dh = s.dh_self
      /\ Sealed(p).key = KdfCk(s.send_chain, s.send_n)
  BY DEF Sealed
<1>7. Sealed(p) \in Message
  BY <1>2, <1>3, Peers DEF Sealed, Message, Ratchet
<1>8. QED
  BY <1>1, <1>2, <1>3, <1>4, <1>5, <1>6, <1>7 DEF Follows, RatchetOK, KdfCk

LEMMA EncryptSound == ASSUME Sound, NEW p \in Party, Encrypt(p) PROVE Sound'
<1> DEFINE m == Sealed(p)
<1>1. /\ AdvancesSending(p)
      /\ arrived' = [l \in Sent \cup {m} |-> IF l \in Sent THEN arrived[l] ELSE 0]
      /\ reads' = [l \in Sent \cup {m} |-> IF l \in Sent THEN reads[l] ELSE 0]
      /\ UNCHANGED <<lost, late, full>>
  BY DEF Encrypt
<1>2. /\ DOMAIN session' = Party
      /\ \A q \in Party : Follows(q, session[q], session'[q]) /\ RatchetOK(q, session'[q])
      /\ Used(session'[p], m.key) /\ m \in Message
      /\ m.to = Peer(p) /\ m.dh \in {p} \X Nat /\ m.key[1] # NoChain
  BY <1>1, AdvancesSendingFollows
<1> HIDE DEF m
<1>3. DOMAIN arrived' = Sent \cup {m} /\ DOMAIN reads' = Sent \cup {m}
  BY <1>1
<1>4. ASSUME NEW l \in Sent \cup {m}
      PROVE  /\ l.dh \in {Peer(l.to)} \X Nat
             /\ arrived'[l] \in 0..MaxCopies /\ reads'[l] \in 0..arrived'[l] /\ reads'[l] <= 1
             /\ Used(session'[Peer(l.to)], l.key) /\ l.key[1] # NoChain
             /\ reads'[l] > 0 => Spent(session'[l.to], l.key)
  <2>1. CASE l \in Sent
    <3>1. arrived'[l] = arrived[l] /\ reads'[l] = reads[l]
      BY <1>1, <2>1
    <3>2. l.to \in Party /\ Peer(l.to) \in Party /\ l.key \in MessageKey
      BY <2>1, Peers DEF Sound, Message
    <3>3. Used(session'[Peer(l.to)], l.key)
      BY <1>2, <2>1, <3>2 DEF Sound, Follows
    <3>4. reads[l] > 0 => Spent(session'[l.to], l.key)
      BY <1>2, <2>1, <3>2 DEF Sound, Follows
    <3>5. QED
      BY <2>1, <3>1, <3>3, <3>4 DEF Sound
  <2>2. CASE l = m /\ m \notin Sent
    <3>1. arrived'[m] = 0 /\ reads'[m] = 0
      BY <1>1, <2>2
    <3>2. Peer(m.to) = p
      BY <1>2, Peers
    <3>3. QED
      BY <1>2, <2>2, <3>1, <3>2, BoundAssumption
  <2>3. QED
    BY <2>1, <2>2
<1>5. Sent \cup {m} \subseteq Message /\ lost' \subseteq Sent \cup {m}
      /\ late' \in BOOLEAN /\ full' \in BOOLEAN
  BY <1>1, <1>2 DEF Sound
<1>6. QED
  BY <1>2, <1>3, <1>4, <1>5 DEF Sound, Sent

LEMMA EncryptTooLongSound ==
  ASSUME Sound, NEW p \in Party, EncryptTooLong(p)
  PROVE  Sound'
<1>1. AdvancesSending(p) /\ UNCHANGED <<arrived, reads, lost, late, full>>
  BY DEF EncryptTooLong
<1>2. /\ DOMAIN session' = Party
      /\ \A q \in Party : Follows(q, session[q], session'[q]) /\ RatchetOK(q, session'[q])
  BY <1>1, AdvancesSendingFollows
<1>3. ASSUME NEW m \in Sent
      PROVE  /\ Used(session'[Peer(m.to)], m.key)
             /\ reads[m] > 0 => Spent(session'[m.to], m.key)
  <2>1. m.to \in Party /\ Peer(m.to) \in Party /\ m.key \in MessageKey
    BY Peers DEF Sound, Message
  <2>2. QED
    BY <1>2, <2>1 DEF Sound, Follows
<1>4. QED
  BY <1>1, <1>2, <1>3 DEF Sound, Sent

LEMMA SoundInit == Init => Sound
<1> SUFFICES ASSUME Init PROVE Sound
  OBVIOUS
<1>1. /\ <<Alice, 0>> \in Key /\ <<Bob, 0>> \in Key /\ Alice \in Party /\ Bob \in Party
      /\ Peer(Alice) = Bob /\ Peer(Bob) = Alice
  BY PartyAssumption DEF Key, Party, Peer
<1>2. PICK root : root = KdfRk(<<>>, Agreement(<<Alice, 0>>, <<Bob, 0>>))
  OBVIOUS
<1>3. /\ <<>> \in Chain /\ Len(<<>>) = 0 /\ NoChain = <<>>
      /\ root \in Chain /\ Len(root) = 1
  <2>1. <<>> \in Chain /\ Len(<<>>) = 0 /\ NoChain = <<>>
    BY DEF Chain, NoChain
  <2>2. root \in Chain /\ Len(root) = Len(<<>>) + 1
    BY <1>1, <1>2, <2>1, KdfRkLonger
  <2>3. QED
    BY <2>1, <2>2
<1>4. /\ NoSkipped \in SkippedKeys /\ DOMAIN NoSkipped = {}
      /\ IsFiniteSet(DOMAIN NoSkipped) /\ Cardinality(DOMAIN NoSkipped) = 0
  <2>1. NoSkipped \in [{} -> MessageKey] /\ DOMAIN NoSkipped = {}
    BY DEF NoSkipped
  <2>2. {} \in SUBSET (Key \X Nat)
    OBVIOUS
  <2>3. QED
    BY <2>1, <2>2, FS_EmptySet DEF SkippedKeys
<1>5. RatchetOK(Alice, InitInitiator(<<Alice, 0>>, <<Bob, 0>>))
  <2> DEFINE s == [dh_self |-> <<Alice, 0>>, dh_remote |-> <<Bob, 0>>, root_key |-> root,
                   send_chain |-> root, recv_chain |-> NoChain,
                   send_n |-> 0, recv_n |-> 0, prev_send_n |-> 0, skipped |-> NoSkipped]
  <2>1. InitInitiator(<<Alice, 0>>, <<Bob, 0>>) = s
    BY <1>2 DEF InitInitiator
  <2>2. s \in Ratchet
    BY <1>1, <1>3, <1>4 DEF Ratchet
  <2>3. s.dh_self \in {Alice} \X Nat /\ s.dh_remote \in {Peer(Alice)} \X Nat
    BY <1>1
  <2>4. Len(s.send_chain) <= Len(s.root_key) /\ Len(s.recv_chain) <= Len(s.root_key)
    BY <1>3
  <2>5. s.skipped = NoSkipped /\ s.recv_chain = NoChain
    OBVIOUS
  <2>6. Cardinality(DOMAIN s.skipped) <= MaxSkip
    BY <1>4, <2>5, BoundAssumption
  <2> HIDE DEF s
  <2>7. RatchetOK(Alice, s)
    BY <1>4, <2>2, <2>3, <2>4, <2>5, <2>6 DEF RatchetOK
  <2>8. QED
    BY <2>1, <2>7
<1>6. RatchetOK(Bob, InitResponder(<<Bob, 0>>))
  <2>1. InitResponder(<<Bob, 0>>) \in Ratchet
    BY <1>1, <1>3, <1>4 DEF Ratchet, InitResponder
  <2>2. QED
    BY <1>1, <1>3, <1>4, <2>1, BoundAssumption DEF RatchetOK, InitResponder
<1>7. DOMAIN session = Party /\ \A p \in Party : RatchetOK(p, session[p])
  BY <1>1, <1>5, <1>6 DEF Init, Party
<1>8. Sent = {} /\ DOMAIN reads = {} /\ lost = {} /\ late = FALSE /\ full = FALSE
  BY DEF Init, Sent
<1>9. QED
  BY <1>7, <1>8 DEF Sound

LEMMA SoundNext == Sound /\ [Next]_vars => Sound'
<1> SUFFICES ASSUME Sound, [Next]_vars PROVE Sound'
  OBVIOUS
<1>1. CASE \E p \in Party : Encrypt(p) \/ EncryptTooLong(p)
  BY <1>1, EncryptSound, EncryptTooLongSound
<1>2. CASE \E m \in Sent : Decrypt(m)
  BY <1>2, DecryptSound
<1>3. CASE UNCHANGED vars
  BY <1>3 DEF vars, Sound, Sent, Used, Spent, Derivable
<1>4. QED
  BY <1>1, <1>2, <1>3 DEF Next

----
(***************************************************************************)
(* The theorems.                                                           *)
(***************************************************************************)

\* `Sound` holds in every state: the invariant the theorems below are read off from.
THEOREM SoundHolds == Spec => []Sound
<1>1. QED
  BY SoundInit, SoundNext, PTL DEF Spec

LEMMA SoundTypes == Sound => TypeOK
<1> SUFFICES ASSUME Sound PROVE TypeOK
  OBVIOUS
<1>1. \A p \in Party :
        LET s == session[p] IN
        /\ s.dh_self \in {p} \X Nat
        /\ s.dh_remote \in ({Peer(p)} \X Nat) \cup {NoKey}
        /\ {s.root_key, s.send_chain, s.recv_chain} \subseteq Chain
        /\ {s.send_n, s.recv_n, s.prev_send_n} \subseteq Nat
        /\ DOMAIN s.skipped \subseteq Key \X Nat
        /\ \A k \in DOMAIN s.skipped : s.skipped[k] \in MessageKey
        /\ Cardinality(DOMAIN s.skipped) <= MaxSkip
  BY DEF Sound, RatchetOK, Ratchet, SkippedKeys
<1>2. QED
  BY <1>1 DEF Sound, TypeOK

\* The types of the module, and that no session ever keeps more than MAX_SKIP skipped
\* keys, for any bound and any traffic (ratchet.rs, store_skipped).
THEOREM RatchetTypeCorrect == Spec => []TypeOK
<1>1. QED
  BY SoundHolds, SoundTypes, PTL

\* No message opens twice, for any number of replays, in any order (ratchet.rs,
\* message_key_for): a key that opened a message is spent, and stays spent.
THEOREM OpensOnceHolds == Spec => []OpensOnce
<1>1. Sound => OpensOnce
  BY DEF Sound, OpensOnce
<1>2. QED
  BY <1>1, SoundHolds, PTL

\* No state of a party gives the key of a message it sent or opened, late messages
\* and the sessions they derail included (ratchet.rs, encrypt and decrypt).
THEOREM ForwardSecretHolds == Spec => []ForwardSecret
<1>1. Sound => ForwardSecret
  BY DEF Sound, ForwardSecret, Used, Spent
<1>2. QED
  BY <1>1, SoundHolds, PTL

----
(***************************************************************************)
(* What a session keeps up with, for any traffic in which no message comes *)
(* after one of a newer chain.                                             *)
(*                                                                         *)
(* The keypairs of a session have an order, in which those of the two ends *)
(* alternate, and the n-th is sent with on the n-th root key.  As long as  *)
(* nothing is late, each end is at one of two neighbouring places of that  *)
(* order (`InTurn`); and as long as the bound on skipped keys is not hit,  *)
(* every message of the chain an end receives on has been read, or its key *)
(* was set aside, or is still to come (`Whole`).                           *)
(***************************************************************************)
\* The keypairs in the order they are first sent with, from the responder's first,
\* which is only agreed with.
KeyOf(n) == <<IF n % 2 = 1 THEN Alice ELSE Bob, n \div 2>>

Root(n) == [i \in 1 .. n |-> {KeyOf(i - 1), KeyOf(i)}]

TurnOf(s) == Len(s.root_key)

\* A session that has taken part in every agreement so far, in order.
Regular(s) ==
  LET t == TurnOf(s)
  IN  /\ s.dh_self = KeyOf(t)
      /\ s.dh_remote = IF t = 0 THEN NoKey ELSE KeyOf(t - 1)
      /\ s.root_key = Root(t) /\ s.send_chain = Root(t)
      /\ s.recv_chain = NoChain \/ (t # 0 /\ s.recv_chain = Root(t - 1))

\* A message the sender at s has sent at its present turn or before.
Posted(m, s) ==
  LET u == Len(m.key[1])
  IN  /\ 1 <= u /\ u <= TurnOf(s)
      /\ m.dh = KeyOf(u) /\ m.key = KdfCk(Root(u), m.n)
      /\ u = TurnOf(s) => m.n < s.send_n

Numbered == \A m, l \in Sent : m.dh = l.dh /\ m.n = l.n => m = l

InTurn ==
  /\ \A p \in Party :
       Regular(session[p]) /\ TurnOf(session[Peer(p)]) <= TurnOf(session[p]) + 1
  /\ \A m \in Sent : Posted(m, session[Peer(m.to)])
  /\ Numbered

\* A session s of p from which every message of its receiving chain can be read, when
\* `sent` are the messages there are and `opened` those read before.
Whole(p, s, sent, opened) ==
  /\ TurnOf(s) >= 2 => s.recv_chain # NoChain
  /\ \A k \in DOMAIN s.skipped :
       \E v \in 1 .. TurnOf(s) - 1 :
         k[1] = KeyOf(v) /\ s.skipped[k] = KdfCk(Root(v), k[2])
  /\ \A m \in sent :
       m.to = p /\ m.dh = s.dh_remote =>
         m.n >= s.recv_n \/ <<m.dh, m.n>> \in DOMAIN s.skipped \/ m \in opened

\* The receiver at s is not ahead of the sender at r.
Paced(s, r) == s.dh_remote = r.dh_self => s.recv_n <= r.send_n

Opened == {m \in Sent : reads[m] > 0}

Complete ==
  /\ lost = {}
  /\ \A p \in Party :
       Whole(p, session[p], Sent, Opened) /\ Paced(session[p], session[Peer(p)])

InOrder ==
  /\ Sound
  /\ ~ late => InTurn
  /\ ~ late /\ ~ full => Complete

----
(***************************************************************************)
(* The order of the keys.                                                  *)
(***************************************************************************)
LEMMA KeyOrder ==
  ASSUME NEW a \in Nat, NEW b \in Nat
  PROVE  /\ KeyOf(a) \in Key /\ KeyOf(a) # NoKey /\ KeyOf(a)[1] \in Party
         /\ KeyOf(a) = KeyOf(b) => a = b
         /\ KeyOf(a)[1] = KeyOf(b)[1] =>
              /\ a # b + 1 /\ b # a + 1
              /\ KeyOf(a)[2] < KeyOf(b)[2] <=> a < b
         /\ KeyOf(a + 1)[1] = Peer(KeyOf(a)[1])
         /\ Fresh(KeyOf(a)) = KeyOf(a + 2)
<1>1. \A n \in Nat : /\ n % 2 \in {0, 1} /\ n \div 2 \in Nat
                     /\ n = (2 * (n \div 2)) + (n % 2)
                     /\ (n + 1) % 2 = 1 - (n % 2)
                     /\ (n + 2) % 2 = n % 2 /\ (n + 2) \div 2 = n \div 2 + 1
  OBVIOUS
<1>2. KeyOf(a) \in Key /\ KeyOf(a)[1] \in Party
  BY <1>1 DEF KeyOf, Key, Party
<1>3. KeyOf(a)[1] = KeyOf(b)[1] <=> a % 2 = b % 2
  BY <1>1, PartyAssumption DEF KeyOf
<1>4. KeyOf(a)[2] = a \div 2 /\ KeyOf(b)[2] = b \div 2
  BY DEF KeyOf
<1>5. a % 2 = b % 2 => /\ a # b + 1 /\ b # a + 1
                       /\ a \div 2 < b \div 2 <=> a < b
                       /\ a \div 2 = b \div 2 => a = b
  BY <1>1
<1>6. KeyOf(a + 1)[1] = Peer(KeyOf(a)[1])
  BY <1>1, PartyAssumption DEF KeyOf, Peer
<1>7. Fresh(KeyOf(a)) = KeyOf(a + 2)
  BY <1>1 DEF KeyOf, Fresh
<1> QED BY <1>2, <1>3, <1>4, <1>5, <1>6, <1>7, KeyAssumption

LEMMA RootType ==
  ASSUME NEW n \in Nat
  PROVE  Root(n) \in Chain /\ Len(Root(n)) = n /\ (n # 0 => Root(n) # NoChain)
<1>1. \A i \in 1 .. n : {KeyOf(i - 1), KeyOf(i)} \in SUBSET Key
  <2> TAKE i \in 1 .. n
  <2>1. i - 1 \in Nat /\ i \in Nat
    OBVIOUS
  <2> QED BY <2>1, KeyOrder
<1>2. Root(n) \in [1 .. n -> SUBSET Key]
  BY <1>1 DEF Root
<1>3. Root(n) \in Seq(SUBSET Key) /\ Len(Root(n)) = n
  BY <1>2
<1> QED BY <1>3 DEF Chain, NoChain

LEMMA RootGrows ==
  ASSUME NEW n \in Nat
  PROVE  KdfRk(Root(n), Agreement(KeyOf(n), KeyOf(n + 1))) = Root(n + 1)
<1> DEFINE x == {KeyOf(n), KeyOf(n + 1)}
<1>1. Root(n) \in Seq(SUBSET Key) /\ Len(Root(n)) = n
  BY RootType DEF Chain
<1>2. Append(Root(n), x) = [i \in 1 .. n + 1 |-> IF i = n + 1 THEN x ELSE Root(n)[i]]
  BY <1>1
<1>3. \A i \in 1 .. n + 1 : (IF i = n + 1 THEN x ELSE Root(n)[i]) = {KeyOf(i - 1), KeyOf(i)}
  BY DEF Root
<1>4. Append(Root(n), x) = Root(n + 1)
  <2> HIDE DEF x
  <2> QED BY <1>2, <1>3 DEF Root
<1> QED BY <1>4 DEF KdfRk, Agreement

LEMMA RootZero == Root(0) = NoChain
BY DEF Root, NoChain

\* `dh_ratchet` with the peer's next key is the next two turns.
LEMMA RatchetedTurn ==
  ASSUME NEW s \in Ratchet, NEW t \in Nat, t = TurnOf(s), Regular(s)
  PROVE  LET r == Ratcheted(s, KeyOf(t + 1))
         IN  /\ r \in Ratchet
             /\ TurnOf(r) = t + 2 /\ Regular(r)
             /\ r.recv_chain = Root(t + 1) /\ r.dh_remote = KeyOf(t + 1)
             /\ r.send_n = 0 /\ r.recv_n = 0 /\ r.skipped = s.skipped
<1> DEFINE r == Ratcheted(s, KeyOf(t + 1))
<1>1. s.dh_self = KeyOf(t) /\ s.root_key = Root(t)
  BY DEF Regular
<1>2. KdfRk(s.root_key, Agreement(s.dh_self, KeyOf(t + 1))) = Root(t + 1)
  BY <1>1, RootGrows
<1>3. KdfRk(Root(t + 1), Agreement(Fresh(s.dh_self), KeyOf(t + 1))) = Root(t + 2)
  <2>1. Agreement(KeyOf(t + 2), KeyOf(t + 1)) = Agreement(KeyOf(t + 1), KeyOf(t + 2))
    BY DEF Agreement
  <2>2. KdfRk(Root(t + 1), Agreement(KeyOf(t + 1), KeyOf((t + 1) + 1))) = Root((t + 1) + 1)
    BY RootGrows
  <2>3. (t + 1) + 1 = t + 2 /\ Fresh(KeyOf(t)) = KeyOf(t + 2)
    BY KeyOrder
  <2> QED BY <1>1, <2>1, <2>2, <2>3
<1>4. r = [s EXCEPT !.dh_self = KeyOf(t + 2), !.dh_remote = KeyOf(t + 1),
                    !.root_key = Root(t + 2), !.send_chain = Root(t + 2),
                    !.recv_chain = Root(t + 1),
                    !.send_n = 0, !.recv_n = 0, !.prev_send_n = s.send_n]
  <2>1. Fresh(s.dh_self) = KeyOf(t + 2)
    BY <1>1, KeyOrder
  <2> QED BY <1>2, <1>3, <2>1 DEF Ratcheted
<1>5. /\ KeyOf(t + 2) \in Key /\ KeyOf(t + 1) \in Key
      /\ Root(t + 2) \in Chain /\ Root(t + 1) \in Chain /\ Len(Root(t + 2)) = t + 2
  <2>1. t + 1 \in Nat /\ t + 2 \in Nat
    OBVIOUS
  <2> QED BY <2>1, KeyOrder, RootType
<1> PICK own, remote, sending, receiving :
      /\ own = KeyOf(t + 2) /\ remote = KeyOf(t + 1)
      /\ sending = Root(t + 2) /\ receiving = Root(t + 1)
  OBVIOUS
<1>6. /\ r \in Ratchet
      /\ r.dh_self = KeyOf(t + 2) /\ r.dh_remote = KeyOf(t + 1)
      /\ r.root_key = Root(t + 2) /\ r.send_chain = Root(t + 2) /\ r.recv_chain = Root(t + 1)
      /\ r.send_n = 0 /\ r.recv_n = 0 /\ r.skipped = s.skipped
  <2>1. /\ own \in Key /\ remote \in Key \cup {NoKey}
        /\ sending \in Chain /\ receiving \in Chain
    BY <1>5
  <2>2. r = [s EXCEPT !.dh_self = own, !.dh_remote = remote,
                      !.root_key = sending, !.send_chain = sending,
                      !.recv_chain = receiving,
                      !.send_n = 0, !.recv_n = 0, !.prev_send_n = s.send_n]
    BY <1>4
  <2> HIDE DEF r
  <2>3. r = [dh_self |-> own, dh_remote |-> remote, root_key |-> sending,
             send_chain |-> sending, recv_chain |-> receiving,
             send_n |-> 0, recv_n |-> 0, prev_send_n |-> s.send_n, skipped |-> s.skipped]
    BY <2>2 DEF Ratchet
  <2>4. s.send_n \in Nat /\ s.skipped \in SkippedKeys /\ 0 \in Nat
    BY DEF Ratchet
  <2>5. r \in Ratchet
    BY <2>1, <2>3, <2>4 DEF Ratchet
  <2> QED BY <2>3, <2>5
<1> HIDE DEF r
<1>7. TurnOf(r) = t + 2
  BY <1>5, <1>6 DEF TurnOf
<1>8. Regular(r)
  <2>1. (t + 2) - 1 = t + 1 /\ t + 2 # 0
    OBVIOUS
  <2> QED BY <1>6, <1>7, <2>1 DEF Regular
<1> QED BY <1>6, <1>7, <1>8 DEF r

\* t has the keys of s, but may have given up its receiving chain.
SameKeys(t, s) ==
  /\ t.dh_self = s.dh_self /\ t.dh_remote = s.dh_remote /\ t.root_key = s.root_key
  /\ t.send_chain = s.send_chain /\ t.send_n = s.send_n
  /\ t.recv_chain \in {s.recv_chain, NoChain}

LEMMA SameKeysRegular ==
  ASSUME NEW s, NEW t, Regular(s), SameKeys(t, s)
  PROVE  Regular(t) /\ TurnOf(t) = TurnOf(s)
BY DEF SameKeys, Regular, TurnOf

\* Opening a message changes no key but for the receiving chain's.
LEMMA OpensSameKeys ==
  ASSUME NEW p \in Party, NEW s, RatchetOK(p, s), s.dh_remote \in Key,
         NEW m, m.n \in Nat, Opens(m, s)
  PROVE  \E t, opened : Settles(m, t, opened) /\ SameKeys(t, s)
<1>1. s \in Ratchet /\ s.recv_n \in Nat
  BY DEF RatchetOK, Ratchet
<1>2. CASE OpensSkipped(m, s)
  <2> DEFINE rest == DOMAIN s.skipped \ {<<m.dh, m.n>>}
             t == [s EXCEPT !.skipped = [k \in rest |-> s.skipped[k]]]
  <2>1. Settles(m, t, s.skipped[<<m.dh, m.n>>] = m.key)
    BY <1>2 DEF OpensSkipped
  <2>2. SameKeys(t, s)
    BY <1>1 DEF SameKeys, Ratchet
  <2> QED BY <2>1, <2>2
<1>3. CASE RefusesKey(m, s)
  <2>1. Settles(m, s, FALSE)
    BY <1>3 DEF RefusesKey
  <2>2. SameKeys(s, s)
    BY DEF SameKeys
  <2> QED BY <2>1, <2>2
<1>4. CASE OpensNext(m, s)
  <2>1. PICK i \in SkipStops(s, m.n) :
          \/ Overflows(m, s, i)
          \/ Settles(m, [SkippedTo(s, i) EXCEPT !.recv_n = i + 1],
                     KdfCk(s.recv_chain, i) = m.key)
    BY <1>4 DEF OpensNext
  <2>2. i \in Nat /\ s.recv_n <= i
    BY <1>1 DEF SkipStops
  <2> DEFINE u == SkippedTo(s, i)
             v == [u EXCEPT !.recv_chain = NoChain]
             w == [u EXCEPT !.recv_n = i + 1]
  <2>3. u \in Ratchet /\ SameKeys(u, s)
    BY <1>1, <2>2, SkippedToShape DEF SameKeys
  <2> HIDE DEF u
  <2>4. SameKeys(v, s) /\ SameKeys(w, s)
    BY <2>3 DEF SameKeys, Ratchet
  <2>5. CASE Overflows(m, s, i)
    <3>1. Settles(m, v, FALSE)
      BY <2>5 DEF Overflows, u
    <3> QED BY <2>4, <3>1
  <2>6. CASE Settles(m, w, KdfCk(s.recv_chain, i) = m.key)
    BY <2>4, <2>6
  <2> QED BY <2>1, <2>5, <2>6 DEF u
<1> QED BY <1>2, <1>3, <1>4 DEF Opens

----
(***************************************************************************)
(* A message that is not late.                                             *)
(***************************************************************************)
LEMMA OtherTurn ==
  ASSUME Sound, InTurn, NEW p \in Party
  PROVE  LET t == TurnOf(session[p])
             w == TurnOf(session[Peer(p)])
         IN  /\ t \in Nat /\ w \in Nat /\ w \in {t - 1, t + 1}
             /\ KeyOf(t)[1] = p /\ KeyOf(w)[1] = Peer(p)
<1> DEFINE t == TurnOf(session[p])
           w == TurnOf(session[Peer(p)])
<1>1. /\ Peer(p) \in Party /\ Peer(Peer(p)) = p /\ Peer(p) # p
      /\ RatchetOK(p, session[p]) /\ RatchetOK(Peer(p), session[Peer(p)])
  BY Peers DEF Sound
<1>2. t \in Nat /\ w \in Nat
  BY <1>1 DEF RatchetOK, Ratchet, TurnOf, Chain
<1>3. /\ session[p].dh_self = KeyOf(t) /\ session[Peer(p)].dh_self = KeyOf(w)
      /\ w <= t + 1 /\ t <= w + 1
  BY <1>1 DEF InTurn, Regular
<1>4. KeyOf(t)[1] = p /\ KeyOf(w)[1] = Peer(p)
  BY <1>1, <1>3 DEF RatchetOK
<1>5. t # w
  BY <1>1, <1>4
<1> HIDE DEF t, w
<1>6. w \in {t - 1, t + 1}
  BY <1>2, <1>3, <1>5
<1> QED BY <1>2, <1>4, <1>6 DEF t, w

LEMMA MessageTurn ==
  ASSUME Sound, InTurn, NEW m \in Sent, ~ IsLate(m)
  PROVE  LET s == session[m.to]
             t == TurnOf(s)
             u == Len(m.key[1])
         IN  /\ t \in Nat /\ u \in Nat /\ 1 <= u /\ m.n \in Nat
             /\ m.dh = KeyOf(u) /\ m.key = KdfCk(Root(u), m.n)
             /\ u <= TurnOf(session[Peer(m.to)])
             /\ \/ u = t - 1 /\ s.dh_remote = m.dh
                \/ u = t + 1 /\ s.dh_remote # m.dh
<1> DEFINE p == m.to
           s == session[p]
           t == TurnOf(s)
           w == TurnOf(session[Peer(p)])
           u == Len(m.key[1])
<1>1. /\ p \in Party /\ m.n \in Nat /\ m.dh[1] = Peer(p) /\ u \in Nat
  BY DEF Sound, Message, MessageKey, Chain
<1>2. /\ t \in Nat /\ w \in Nat /\ w \in {t - 1, t + 1}
      /\ KeyOf(t)[1] = p /\ KeyOf(w)[1] = Peer(p)
  BY <1>1, OtherTurn
<1>3. Regular(s) /\ Posted(m, session[Peer(p)])
  BY <1>1 DEF InTurn
<1>4. 1 <= u /\ u <= w /\ m.dh = KeyOf(u) /\ m.key = KdfCk(Root(u), m.n)
  BY <1>3 DEF Posted
<1>5. s.dh_remote = IF t = 0 THEN NoKey ELSE KeyOf(t - 1)
  BY <1>3 DEF Regular
<1>6. s.dh_remote # NoKey => m.dh[2] >= s.dh_remote[2]
  <2>1. RatchetOK(p, s)
    BY <1>1 DEF Sound
  <2>2. s.dh_remote # NoKey => s.dh_remote[2] \in Nat
    BY <2>1 DEF RatchetOK
  <2>3. m.dh[2] \in Nat
    BY DEF Sound
  <2> QED BY <2>2, <2>3 DEF IsLate
<1>7. KeyOf(u)[1] # KeyOf(t)[1]
  BY <1>1, <1>2, <1>4, Peers
<1>8. u # t
  BY <1>7
<1> HIDE DEF s, t, u, w
<1>9. CASE t = 0
  <2>1. u = t + 1
    BY <1>1, <1>2, <1>4, <1>9
  <2>2. KeyOf(u) # NoKey
    BY <1>1, KeyOrder
  <2> QED BY <1>1, <1>2, <1>4, <1>5, <1>9, <2>1, <2>2 DEF s, t, u, w
<1>10. CASE t # 0
  <2>1. t - 1 \in Nat /\ (t - 1) + 1 = t
    BY <1>2, <1>10
  <2>2. KeyOf(t - 1) # NoKey /\ KeyOf(t)[1] = Peer(KeyOf(t - 1)[1])
        /\ KeyOf(t - 1)[1] \in Party
    BY <2>1, KeyOrder
  <2>3. KeyOf(t - 1)[1] = KeyOf(u)[1]
    BY <1>1, <1>2, <1>4, <2>2, Peers
  <2>4. ~ (KeyOf(u)[2] < KeyOf(t - 1)[2])
    <3>1. KeyOf(u)[2] \in Nat /\ KeyOf(t - 1)[2] \in Nat
      BY <1>1, <2>1, KeyOrder DEF Key
    <3> QED BY <1>4, <1>5, <1>6, <1>10, <2>2, <3>1
  <2>5. ~ (u < t - 1)
    BY <1>1, <2>1, <2>3, <2>4, KeyOrder
  <2>6. u = t - 1 \/ u = t + 1
    BY <1>1, <1>2, <1>4, <1>8, <2>5
  <2>7. u = t + 1 => KeyOf(u) # KeyOf(t - 1)
    BY <1>1, <2>1, KeyOrder
  <2> QED BY <1>1, <1>2, <1>4, <1>5, <1>10, <2>6, <2>7 DEF s, t, u, w
<1> QED BY <1>9, <1>10

LEMMA RootInjective ==
  ASSUME NEW a \in Nat, NEW b \in Nat, Root(a) = Root(b)
  PROVE  a = b
BY RootType

\* Setting keys of a whole session aside leaves it whole.
LEMMA SkippedToWhole ==
  ASSUME NEW p \in Party, NEW s, RatchetOK(p, s), Regular(s), s.recv_chain # NoChain,
         NEW sent \in SUBSET Message, NEW opened, Whole(p, s, sent, opened),
         NEW i \in Nat, s.recv_n <= i, NEW t, t = SkippedTo(s, i)
  PROVE  Whole(p, t, sent, opened) /\ SameKeys(t, s) /\ t.recv_n = i
<1> DEFINE u == TurnOf(s) - 1
<1>1. s \in Ratchet /\ s.dh_remote \in Key /\ s.recv_n \in Nat
  BY Peers DEF RatchetOK, Ratchet, Key
<1>2. /\ t.dh_self = s.dh_self /\ t.dh_remote = s.dh_remote /\ t.root_key = s.root_key
      /\ t.send_chain = s.send_chain /\ t.recv_chain = s.recv_chain
      /\ t.send_n = s.send_n /\ t.recv_n = i
      /\ DOMAIN t.skipped = DOMAIN s.skipped \cup Aside(s, i)
      /\ \A k \in Aside(s, i) : t.skipped[k] = KdfCk(s.recv_chain, k[2])
      /\ \A k \in DOMAIN s.skipped \ Aside(s, i) : t.skipped[k] = s.skipped[k]
  BY <1>1, SkippedToShape
<1>3. SameKeys(t, s) /\ TurnOf(t) = TurnOf(s)
  BY <1>2 DEF SameKeys, TurnOf
<1>4. TurnOf(s) \in Nat /\ u \in Nat /\ u # 0 /\ s.dh_remote = KeyOf(u) /\ s.recv_chain = Root(u)
  <2>1. TurnOf(s) \in Nat
    BY <1>1 DEF TurnOf, Ratchet, Chain
  <2>2. TurnOf(s) # 0 /\ s.dh_remote = KeyOf(u) /\ s.recv_chain = Root(u)
    BY DEF Regular
  <2>3. Root(u) # NoChain
    BY <2>2
  <2> HIDE DEF u
  <2>4. u # 0
    BY <2>3, RootZero
  <2> QED BY <2>1, <2>2, <2>4 DEF u
<1>5. ASSUME NEW k \in DOMAIN t.skipped
      PROVE  \E v \in 1 .. TurnOf(t) - 1 :
               k[1] = KeyOf(v) /\ t.skipped[k] = KdfCk(Root(v), k[2])
  <2>1. CASE k \in Aside(s, i)
    <3>1. k[1] = KeyOf(u) /\ t.skipped[k] = KdfCk(Root(u), k[2])
      BY <1>2, <1>4, <2>1 DEF Aside
    <3>2. u \in 1 .. TurnOf(t) - 1
      BY <1>3, <1>4
    <3> QED BY <3>1, <3>2
  <2>2. CASE k \in DOMAIN s.skipped \ Aside(s, i)
    BY <1>2, <1>3, <2>2 DEF Whole
  <2> QED BY <1>2, <2>1, <2>2
<1>6. ASSUME NEW m \in sent, m.to = p, m.dh = t.dh_remote
      PROVE  m.n >= t.recv_n \/ <<m.dh, m.n>> \in DOMAIN t.skipped \/ m \in opened
  <2>1. m.n \in Nat
    BY DEF Message
  <2>2. m.n >= s.recv_n \/ <<m.dh, m.n>> \in DOMAIN s.skipped \/ m \in opened
    BY <1>2, <1>6 DEF Whole
  <2>3. m.n >= s.recv_n /\ m.n < i => <<m.dh, m.n>> \in Aside(s, i)
    BY <1>1, <1>2, <1>6, <2>1 DEF Aside
  <2> QED BY <1>1, <1>2, <2>1, <2>2, <2>3
<1>7. TurnOf(t) >= 2 => t.recv_chain # NoChain
  BY <1>2
<1> QED BY <1>2, <1>3, <1>5, <1>6, <1>7 DEF Whole

\* `dh_ratchet` with the peer's next key leaves a whole session whole.
LEMMA RatchetedWhole ==
  ASSUME NEW p \in Party, NEW s \in Ratchet, NEW t \in Nat, t = TurnOf(s), Regular(s),
         NEW sent \in SUBSET Message, NEW opened, Whole(p, s, sent, opened)
  PROVE  Whole(p, Ratcheted(s, KeyOf(t + 1)), sent, opened)
<1>1. PICK r : r = Ratcheted(s, KeyOf(t + 1))
  OBVIOUS
<1>2. /\ TurnOf(r) = t + 2 /\ r.recv_chain = Root(t + 1)
      /\ r.recv_n = 0 /\ r.skipped = s.skipped
  BY <1>1, RatchetedTurn
<1>3. r.recv_chain # NoChain
  <2>1. t + 1 \in Nat /\ t + 1 # 0
    OBVIOUS
  <2> QED BY <1>2, <2>1, RootType
<1>4. ASSUME NEW k \in DOMAIN r.skipped
      PROVE  \E v \in 1 .. TurnOf(r) - 1 :
               k[1] = KeyOf(v) /\ r.skipped[k] = KdfCk(Root(v), k[2])
  <2>1. PICK v \in 1 .. TurnOf(s) - 1 :
          k[1] = KeyOf(v) /\ s.skipped[k] = KdfCk(Root(v), k[2])
    BY <1>2 DEF Whole
  <2>2. v \in 1 .. TurnOf(r) - 1
    BY <1>2
  <2> QED BY <1>2, <2>1, <2>2
<1>5. \A m \in sent : m.n >= r.recv_n
  BY <1>2 DEF Message
<1> QED BY <1>1, <1>3, <1>4, <1>5 DEF Whole

\* Opening a message of the receiving chain of a whole session succeeds, or is a replay.
LEMMA OpensWhole ==
  ASSUME NEW p \in Party, NEW s, RatchetOK(p, s), Regular(s), s.recv_chain # NoChain,
         Sent \subseteq Message, DOMAIN reads = Sent, \A l \in Sent : reads[l] \in Nat,
         Numbered, Whole(p, s, Sent, Opened), lost = {},
         NEW m \in Sent, m.to = p, m.dh = s.dh_remote, m.key = KdfCk(s.recv_chain, m.n),
         Opens(m, s)
  PROVE  \/ full' = TRUE
         \/ \E t, hit :
              /\ Settles(m, t, hit) /\ SameKeys(t, s)
              /\ t.recv_n \in {s.recv_n, m.n + 1}
              /\ lost' = {} /\ \A l \in Sent : reads'[l] > 0 <=> l \in Opened \cup {m}
              /\ Whole(p, t, Sent, Opened \cup {m})
<1>1. /\ s \in Ratchet /\ s.recv_n \in Nat /\ m.n \in Nat
      /\ \A l \in Sent : l.n \in Nat
  BY DEF RatchetOK, Ratchet, Message
<1> DEFINE after == Opened \cup {m}
<1>2. \A l \in Sent : l.dh = m.dh /\ l.n = m.n => l = m
  BY DEF Numbered
<1>3. ASSUME NEW t, Settles(m, t, TRUE)
      PROVE  lost' = {} /\ \A l \in Sent : reads'[l] > 0 <=> l \in after
  BY <1>3 DEF Settles, Opened
<1>4. CASE OpensSkipped(m, s)
  <2>1. PICK k : k = <<m.dh, m.n>>
    OBVIOUS
  <2>2. PICK rest : rest = DOMAIN s.skipped \ {k}
    OBVIOUS
  <2>3. PICK skipped : skipped = [j \in rest |-> s.skipped[j]]
    OBVIOUS
  <2>4. PICK t : t = [s EXCEPT !.skipped = skipped]
    OBVIOUS
  <2>5. k \in DOMAIN s.skipped /\ Settles(m, t, s.skipped[k] = m.key)
    BY <1>4, <2>1, <2>2, <2>3, <2>4 DEF OpensSkipped
  <2>6. s.skipped[k] = m.key
    <3>1. PICK v \in 1 .. TurnOf(s) - 1 :
            k[1] = KeyOf(v) /\ s.skipped[k] = KdfCk(Root(v), k[2])
      BY <2>5 DEF Whole
    <3>2. TurnOf(s) \in Nat /\ TurnOf(s) - 1 \in Nat /\ v \in Nat
      BY <1>1 DEF TurnOf, Ratchet, Chain
    <3>3. s.dh_remote = KeyOf(TurnOf(s) - 1) /\ s.recv_chain = Root(TurnOf(s) - 1)
      BY <3>2 DEF Regular
    <3>4. k[1] = m.dh /\ k[2] = m.n
      BY <2>1
    <3>5. v = TurnOf(s) - 1
      BY <3>1, <3>2, <3>3, <3>4, KeyOrder
    <3> QED BY <3>1, <3>3, <3>4, <3>5
  <2>7. Settles(m, t, TRUE)
    BY <2>5, <2>6
  <2>8. /\ t.dh_self = s.dh_self /\ t.dh_remote = s.dh_remote /\ t.root_key = s.root_key
        /\ t.send_chain = s.send_chain /\ t.recv_chain = s.recv_chain
        /\ t.send_n = s.send_n /\ t.recv_n = s.recv_n /\ t.skipped = skipped
    BY <1>1, <2>4 DEF Ratchet
  <2>9. SameKeys(t, s) /\ TurnOf(t) = TurnOf(s)
    BY <2>8 DEF SameKeys, TurnOf
  <2>10. \A j \in DOMAIN skipped : j \in DOMAIN s.skipped /\ skipped[j] = s.skipped[j]
    BY <2>2, <2>3
  <2>11. ASSUME NEW l \in Sent, l.to = p, l.dh = t.dh_remote
         PROVE  l.n >= t.recv_n \/ <<l.dh, l.n>> \in DOMAIN t.skipped \/ l \in after
    <3>1. l.n >= s.recv_n \/ <<l.dh, l.n>> \in DOMAIN s.skipped \/ l \in Opened
      BY <2>8, <2>11 DEF Whole
    <3>2. <<l.dh, l.n>> = k => l = m
      BY <1>2, <2>1
    <3>3. DOMAIN t.skipped = DOMAIN s.skipped \ {k}
      BY <2>2, <2>3, <2>8
    <3> QED BY <2>8, <3>1, <3>2, <3>3
  <2>12. Whole(p, t, Sent, after)
    BY <2>8, <2>9, <2>10, <2>11 DEF Whole
  <2> QED BY <1>3, <2>7, <2>8, <2>9, <2>12
<1>5. CASE RefusesKey(m, s)
  <2>1. <<m.dh, m.n>> \notin DOMAIN s.skipped /\ m.n < s.recv_n /\ Settles(m, s, FALSE)
    BY <1>5 DEF RefusesKey
  <2>2. m \in Opened
    BY <1>1, <2>1 DEF Whole
  <2>3. lost' = {} /\ \A l \in Sent : reads'[l] > 0 <=> l \in after
    BY <2>1, <2>2 DEF Settles, Opened
  <2>4. after = Opened
    BY <2>2
  <2>5. SameKeys(s, s)
    BY DEF SameKeys
  <2> QED BY <2>1, <2>3, <2>4, <2>5
<1>6. CASE OpensNext(m, s)
  <2>1. PICK i \in SkipStops(s, m.n) :
          \/ Overflows(m, s, i)
          \/ i = m.n /\ Settles(m, [SkippedTo(s, i) EXCEPT !.recv_n = i + 1],
                                KdfCk(s.recv_chain, i) = m.key)
    BY <1>6 DEF OpensNext
  <2>2. CASE Overflows(m, s, i)
    BY <2>2 DEF Overflows
  <2>3. CASE i = m.n /\ Settles(m, [SkippedTo(s, i) EXCEPT !.recv_n = i + 1],
                                KdfCk(s.recv_chain, i) = m.key)
    <3>1. i \in Nat /\ s.recv_n <= i
      BY <1>1 DEF SkipStops
    <3>2. PICK u : u = SkippedTo(s, i)
      OBVIOUS
    <3>3. PICK t : t = [u EXCEPT !.recv_n = i + 1]
      OBVIOUS
    <3>4. Settles(m, t, TRUE)
      BY <2>3, <3>2, <3>3
    <3>5. Whole(p, u, Sent, Opened) /\ SameKeys(u, s) /\ u.recv_n = i
      BY <3>1, <3>2, SkippedToWhole
    <3>6. u \in Ratchet
      <4>1. s.dh_remote \in Key
        BY <1>1, Peers DEF RatchetOK, Key
      <4> QED BY <1>1, <3>1, <3>2, <4>1, SkippedToShape
    <3>7. /\ t.dh_self = u.dh_self /\ t.dh_remote = u.dh_remote /\ t.root_key = u.root_key
          /\ t.send_chain = u.send_chain /\ t.recv_chain = u.recv_chain
          /\ t.send_n = u.send_n /\ t.recv_n = i + 1 /\ t.skipped = u.skipped
      BY <3>3, <3>6 DEF Ratchet
    <3>8. SameKeys(t, s) /\ TurnOf(t) = TurnOf(u)
      BY <3>5, <3>7 DEF SameKeys, TurnOf
    <3>9. ASSUME NEW l \in Sent, l.to = p, l.dh = t.dh_remote
          PROVE  l.n >= t.recv_n \/ <<l.dh, l.n>> \in DOMAIN t.skipped \/ l \in after
      <4>1. l.n >= i \/ <<l.dh, l.n>> \in DOMAIN u.skipped \/ l \in Opened
        BY <3>5, <3>7, <3>9 DEF Whole
      <4>2. l.n = i => l = m
        BY <1>2, <2>3, <3>5, <3>7, <3>9 DEF SameKeys
      <4> QED BY <1>1, <3>1, <3>7, <4>1, <4>2
    <3>10. Whole(p, t, Sent, after)
      BY <3>5, <3>7, <3>8, <3>9 DEF Whole
    <3> QED BY <1>3, <2>3, <3>4, <3>7, <3>8, <3>10
  <2> QED BY <2>1, <2>2, <2>3
<1> QED BY <1>4, <1>5, <1>6 DEF Opens

----
(***************************************************************************)
(* The steps.                                                              *)
(***************************************************************************)

\* A message that is not late is opened with its own chain, at once or after a ratchet
\* step.
LEMMA DecryptOpens ==
  ASSUME Sound, InTurn, NEW m \in Sent, ~ IsLate(m), Decrypt(m),
         NEW s, s = session[m.to], NEW u, u = Len(m.key[1])
  PROVE  \E v :
           /\ RatchetOK(m.to, v) /\ Regular(v)
           /\ SameKeys(v, s) \/ (TurnOf(v) = TurnOf(s) + 2 /\ u = TurnOf(s) + 1)
           /\ \/ full' = TRUE /\ Settles(m, v, FALSE)
              \/ /\ v.dh_remote = m.dh /\ Opens(m, v)
                 /\ v = s \/ v.recv_n = 0
                 /\ Whole(m.to, s, Sent, Opened) =>
                      v.recv_chain = Root(u) /\ Whole(m.to, v, Sent, Opened)
<1> DEFINE p == m.to
           t == TurnOf(s)
<1>1. /\ p \in Party /\ RatchetOK(p, s) /\ s \in Ratchet /\ s.recv_n \in Nat
      /\ Sent \in SUBSET Message /\ m.pn \in Nat /\ m.dh \in {Peer(p)} \X Nat
      /\ m.dh \in Key /\ Regular(s)
  BY Peers DEF Sound, Message, RatchetOK, Ratchet, InTurn
<1>2. /\ t \in Nat /\ u \in Nat /\ 1 <= u /\ m.dh = KeyOf(u)
      /\ \/ u = t - 1 /\ s.dh_remote = m.dh
         \/ u = t + 1 /\ s.dh_remote # m.dh
  BY MessageTurn
<1>3. CASE s.dh_remote = m.dh
  <2>1. u = t - 1 /\ Opens(m, s)
    BY <1>2, <1>3 DEF Decrypt
  <2>2. Whole(p, s, Sent, Opened) => s.recv_chain = Root(u)
    <3>1. SUFFICES ASSUME Whole(p, s, Sent, Opened) PROVE s.recv_chain = Root(u)
      OBVIOUS
    <3>2. s.recv_chain # NoChain
      BY <1>2, <2>1, <3>1 DEF Whole
    <3> QED BY <2>1, <3>2, <1>1 DEF Regular
  <2>3. SameKeys(s, s)
    BY DEF SameKeys
  <2> QED BY <1>1, <1>3, <2>1, <2>2, <2>3
<1>4. CASE s.dh_remote # m.dh
  <2>1. u = t + 1 /\ m.dh = KeyOf(t + 1)
    BY <1>2, <1>4
  <2>2. ASSUME NEW a, RatchetOK(p, a), SameKeys(a, s), Opens(m, Ratcheted(a, m.dh)),
               Whole(p, s, Sent, Opened) => Whole(p, a, Sent, Opened)
        PROVE  \E v :
                 /\ RatchetOK(p, v) /\ Regular(v)
                 /\ TurnOf(v) = t + 2
                 /\ v.dh_remote = m.dh /\ Opens(m, v) /\ v.recv_n = 0
                 /\ Whole(p, s, Sent, Opened) =>
                      v.recv_chain = Root(u) /\ Whole(p, v, Sent, Opened)
    <3>1. PICK v : v = Ratcheted(a, m.dh)
      OBVIOUS
    <3>2. Regular(a) /\ TurnOf(a) = t /\ a \in Ratchet
      BY <1>1, <2>2, SameKeysRegular DEF RatchetOK
    <3>3. /\ TurnOf(v) = t + 2 /\ Regular(v) /\ v.recv_chain = Root(u)
          /\ v.dh_remote = m.dh /\ v.recv_n = 0
      BY <1>2, <2>1, <3>1, <3>2, RatchetedTurn
    <3>4. Whole(p, a, Sent, Opened) => Whole(p, v, Sent, Opened)
      BY <1>1, <1>2, <2>1, <3>1, <3>2, RatchetedWhole
    <3>5. RatchetOK(p, v)
      <4>1. Follows(p, a, Ratcheted(a, m.dh))
        BY <1>1, <2>2, RatchetedFollows
      <4> QED BY <3>1, <4>1 DEF Follows
    <3> QED BY <2>2, <3>1, <3>3, <3>4, <3>5
  <2>3. CASE s.recv_chain = NoChain
    <3>1. Opens(m, Ratcheted(s, m.dh)) /\ SameKeys(s, s)
      BY <1>4, <2>3 DEF Decrypt, SameKeys
    <3>2. PICK v :
            /\ RatchetOK(p, v) /\ Regular(v)
            /\ TurnOf(v) = t + 2
            /\ v.dh_remote = m.dh /\ Opens(m, v) /\ v.recv_n = 0
            /\ Whole(p, s, Sent, Opened) =>
                 v.recv_chain = Root(u) /\ Whole(p, v, Sent, Opened)
      BY <1>1, <2>2, <3>1
    <3> QED BY <2>1, <3>2
  <2>4. CASE s.recv_chain # NoChain
    <3>1. PICK i \in SkipStops(s, m.pn) :
            \/ Overflows(m, s, i)
            \/ Opens(m, Ratcheted(SkippedTo(s, i), m.dh))
      BY <1>4, <2>4 DEF Decrypt
    <3>2. s.dh_remote \in Key
      BY <1>1, <2>4, Peers DEF RatchetOK, Key
    <3>3. i \in Nat /\ s.recv_n <= i
      BY <1>1 DEF SkipStops
    <3>4. PICK a : a = SkippedTo(s, i)
      OBVIOUS
    <3>5. RatchetOK(p, a)
      <4>1. Follows(p, s, a)
        BY <1>1, <2>4, <3>2, <3>4, SkippedToFollows
      <4> QED BY <4>1 DEF Follows
    <3>6. SameKeys(a, s) /\ a \in Ratchet
      BY <1>1, <3>2, <3>3, <3>4, SkippedToShape DEF SameKeys
    <3>7. Whole(p, s, Sent, Opened) => Whole(p, a, Sent, Opened)
      BY <1>1, <2>4, <3>3, <3>4, SkippedToWhole
    <3>8. CASE Overflows(m, s, i)
      <4>1. PICK v : v = [a EXCEPT !.recv_chain = NoChain]
        OBVIOUS
      <4>2. Settles(m, v, FALSE) /\ full' = TRUE
        BY <3>4, <3>8, <4>1 DEF Overflows
      <4>3. RatchetOK(p, v)
        <5>1. Follows(p, a, v)
          BY <1>1, <3>5, <4>1, ForgetsChainFollows
        <5> QED BY <5>1 DEF Follows
      <4>4. SameKeys(v, s)
        BY <3>6, <4>1 DEF SameKeys, Ratchet
      <4>5. Regular(v)
        BY <1>1, <4>4, SameKeysRegular
      <4> QED BY <4>2, <4>3, <4>4, <4>5
    <3>9. CASE Opens(m, Ratcheted(a, m.dh))
      <4>1. PICK v :
              /\ RatchetOK(p, v) /\ Regular(v)
              /\ TurnOf(v) = t + 2
              /\ v.dh_remote = m.dh /\ Opens(m, v) /\ v.recv_n = 0
              /\ Whole(p, s, Sent, Opened) =>
                   v.recv_chain = Root(u) /\ Whole(p, v, Sent, Opened)
        BY <2>2, <3>5, <3>6, <3>7, <3>9
      <4> QED BY <2>1, <4>1
    <3> QED BY <3>1, <3>4, <3>8, <3>9
  <2> QED BY <2>3, <2>4
<1> QED BY <1>3, <1>4

LEMMA FullStays == ASSUME NEW m, Decrypt(m), full' # TRUE PROVE full' = full
BY DEF Decrypt, Opens, OpensSkipped, RefusesKey, OpensNext, Overflows

LEMMA DecryptMoves ==
  ASSUME Sound, InTurn, NEW m \in Sent, ~ IsLate(m), Decrypt(m),
         NEW s, s = session[m.to]
  PROVE  \E w :
           /\ session' = [session EXCEPT ![m.to] = w] /\ Regular(w)
           /\ \/ /\ TurnOf(w) = TurnOf(s)
                 /\ w.dh_self = s.dh_self /\ w.send_n = s.send_n
              \/ TurnOf(w) = TurnOf(s) + 2 /\ Len(m.key[1]) = TurnOf(s) + 1
           /\ Complete /\ full' # TRUE =>
                /\ \/ w.recv_n = 0 \/ (w.recv_n = m.n + 1 /\ w.dh_remote = m.dh)
                   \/ w.recv_n = s.recv_n /\ w.dh_remote = s.dh_remote
                /\ lost' = {} /\ \A l \in Sent : reads'[l] > 0 <=> l \in Opened \cup {m}
                /\ Whole(m.to, w, Sent, Opened \cup {m})
<1> DEFINE p == m.to
           t == TurnOf(s)
<1>1. PICK u : u = Len(m.key[1])
  OBVIOUS
<1>2. PICK v :
        /\ RatchetOK(p, v) /\ Regular(v)
        /\ SameKeys(v, s) \/ (TurnOf(v) = t + 2 /\ u = t + 1)
        /\ \/ full' = TRUE /\ Settles(m, v, FALSE)
           \/ /\ v.dh_remote = m.dh /\ Opens(m, v)
              /\ v = s \/ v.recv_n = 0
              /\ Whole(p, s, Sent, Opened) =>
                   v.recv_chain = Root(u) /\ Whole(p, v, Sent, Opened)
  BY <1>1, DecryptOpens
<1>3. p \in Party /\ m.dh \in Key /\ m.n \in Nat
  BY DEF Sound, Message
<1>4. ASSUME NEW w, SameKeys(w, v)
      PROVE  /\ Regular(w)
             /\ \/ /\ TurnOf(w) = TurnOf(s)
                   /\ w.dh_self = s.dh_self /\ w.send_n = s.send_n
                \/ TurnOf(w) = TurnOf(s) + 2 /\ Len(m.key[1]) = TurnOf(s) + 1
  <2>1. Regular(w) /\ TurnOf(w) = TurnOf(v)
    BY <1>2, <1>4, SameKeysRegular
  <2>2. SameKeys(v, s) => TurnOf(v) = t /\ w.dh_self = s.dh_self /\ w.send_n = s.send_n
    BY <1>4 DEF SameKeys, TurnOf
  <2> QED BY <1>1, <1>2, <2>1, <2>2
<1>5. CASE full' = TRUE /\ Settles(m, v, FALSE)
  <2>1. SameKeys(v, v)
    BY DEF SameKeys
  <2> QED BY <1>4, <1>5, <2>1 DEF Settles
<1>6. CASE v.dh_remote = m.dh /\ Opens(m, v) /\ ~ (Complete /\ full' # TRUE)
  <2>1. PICK w, hit : Settles(m, w, hit) /\ SameKeys(w, v)
    BY <1>2, <1>3, <1>6, OpensSameKeys
  <2> QED BY <1>4, <1>6, <2>1 DEF Settles
<1>7. CASE /\ v.dh_remote = m.dh /\ Opens(m, v) /\ Complete /\ full' # TRUE
           /\ v = s \/ v.recv_n = 0
           /\ Whole(p, s, Sent, Opened) =>
                v.recv_chain = Root(u) /\ Whole(p, v, Sent, Opened)
  <2>1. /\ v.recv_chain = Root(u) /\ Whole(p, v, Sent, Opened) /\ lost = {}
    BY <1>3, <1>7 DEF Complete
  <2>2. m.key = KdfCk(Root(u), m.n) /\ Root(u) # NoChain
    <3>1. 1 <= u /\ u \in Nat /\ m.key = KdfCk(Root(u), m.n)
      BY <1>1, MessageTurn
    <3> QED BY <3>1, RootType
  <2>3. /\ Sent \subseteq Message /\ DOMAIN reads = Sent
        /\ \A l \in Sent : reads[l] \in Nat
        /\ Numbered
    <3>1. \A l \in Sent : reads[l] \in 0 .. arrived[l]
      BY DEF Sound
    <3> QED BY <3>1 DEF Sound, InTurn
  <2>4. PICK w, hit :
          /\ Settles(m, w, hit) /\ SameKeys(w, v)
          /\ w.recv_n \in {v.recv_n, m.n + 1}
          /\ lost' = {} /\ \A l \in Sent : reads'[l] > 0 <=> l \in Opened \cup {m}
          /\ Whole(p, w, Sent, Opened \cup {m})
    BY <1>2, <1>3, <1>7, <2>1, <2>2, <2>3, OpensWhole
  <2>5. \/ w.recv_n = 0 \/ (w.recv_n = m.n + 1 /\ w.dh_remote = m.dh)
        \/ w.recv_n = s.recv_n /\ w.dh_remote = s.dh_remote
    BY <1>7, <2>4 DEF SameKeys
  <2>6. /\ Regular(w)
        /\ \/ /\ TurnOf(w) = TurnOf(s)
              /\ w.dh_self = s.dh_self /\ w.send_n = s.send_n
           \/ TurnOf(w) = TurnOf(s) + 2 /\ Len(m.key[1]) = TurnOf(s) + 1
    BY <1>4, <2>4
  <2> QED BY <2>4, <2>5, <2>6 DEF Settles
<1> QED BY <1>2, <1>5, <1>6, <1>7

LEMMA DecryptInOrder ==
  ASSUME InOrder, NEW m \in Sent, Decrypt(m)
  PROVE  InOrder'
<1> DEFINE p == m.to
           q == Peer(p)
<1>1. Sound /\ Sound'
  BY DecryptSound DEF InOrder
<1>2. Sent' = Sent
  BY DEF Decrypt, Sent
<1>3. /\ p \in Party /\ q \in Party /\ q # p /\ Peer(q) = p /\ DOMAIN session = Party
      /\ \A x \in Party : x = p \/ x = q
      /\ \A l \in Sent : l.to \in Party /\ l.n \in Nat
  BY <1>1, Peers, PartyAssumption DEF Sound, Message, Party, Peer
<1> SUFFICES ASSUME ~ late' PROVE InTurn' /\ (full' # TRUE => Complete')
  BY <1>1 DEF InOrder
<1>4. InTurn /\ ~ IsLate(m) /\ ~ late
  BY DEF InOrder, Decrypt
<1>5. PICK s : s = session[p]
  OBVIOUS
<1>6. PICK r : r = session[q]
  OBVIOUS
<1>7. PICK w :
        /\ session' = [session EXCEPT ![p] = w] /\ Regular(w)
        /\ \/ /\ TurnOf(w) = TurnOf(s)
              /\ w.dh_self = s.dh_self /\ w.send_n = s.send_n
           \/ TurnOf(w) = TurnOf(s) + 2 /\ Len(m.key[1]) = TurnOf(s) + 1
        /\ Complete /\ full' # TRUE =>
             /\ \/ w.recv_n = 0 \/ (w.recv_n = m.n + 1 /\ w.dh_remote = m.dh)
                \/ w.recv_n = s.recv_n /\ w.dh_remote = s.dh_remote
             /\ lost' = {} /\ \A l \in Sent : reads'[l] > 0 <=> l \in Opened \cup {m}
             /\ Whole(p, w, Sent, Opened \cup {m})
  BY <1>1, <1>4, <1>5, DecryptMoves
<1>8. session'[p] = w /\ session'[q] = r
  BY <1>3, <1>6, <1>7
<1>9. PICK t, y, u : t = TurnOf(s) /\ y = TurnOf(r) /\ u = Len(m.key[1])
  OBVIOUS
<1>10. /\ t \in Nat /\ y \in {t - 1, t + 1} /\ u \in Nat /\ u <= y
       /\ m.dh = KeyOf(u) /\ m.n \in Nat
  <2>1. t \in Nat /\ y \in {t - 1, t + 1}
    BY <1>1, <1>3, <1>4, <1>5, <1>6, <1>9, OtherTurn
  <2>2. u \in Nat /\ u <= y /\ m.dh = KeyOf(u) /\ m.n \in Nat
    BY <1>1, <1>4, <1>5, <1>6, <1>9, MessageTurn
  <2> QED BY <2>1, <2>2
<1>11. /\ Regular(s) /\ Regular(r) /\ y \in Nat
       /\ TurnOf(w) = t \/ (TurnOf(w) = t + 2 /\ y = t + 1)
  <2>1. y \in Nat
    BY <1>1, <1>3, <1>4, <1>6, <1>9, OtherTurn
  <2> QED BY <1>3, <1>4, <1>5, <1>6, <1>7, <1>9, <1>10, <2>1 DEF InTurn
<1>12. InTurn'
  <2>1. Regular(session'[p]) /\ Regular(session'[q])
    BY <1>7, <1>8, <1>11
  <2>2. /\ TurnOf(session'[q]) <= TurnOf(session'[p]) + 1
        /\ TurnOf(session'[p]) <= TurnOf(session'[q]) + 1
    BY <1>8, <1>9, <1>10, <1>11
  <2>3. ASSUME NEW l \in Sent PROVE Posted(l, session'[Peer(l.to)])
    <3>1. Posted(l, session[Peer(l.to)])
      BY <1>4 DEF InTurn
    <3>2. CASE l.to = p
      BY <1>6, <1>8, <3>1, <3>2
    <3>3. CASE l.to = q
      <4>1. Posted(l, s)
        BY <1>3, <1>5, <3>1, <3>3
      <4>2. TurnOf(w) = t => w.send_n = s.send_n
        BY <1>7, <1>9, <1>10
      <4>3. Posted(l, w)
        <5>1. Len(l.key[1]) \in Nat
          BY <1>1 DEF Sound, Message, MessageKey, Chain
        <5> QED BY <1>9, <1>10, <1>11, <4>1, <4>2, <5>1 DEF Posted
      <4> QED BY <1>3, <1>8, <3>3, <4>3
    <3> QED BY <1>3, <3>2, <3>3
  <2>4. Numbered'
    BY <1>2, <1>4 DEF InTurn, Numbered
  <2>5. \A x \in Party :
          Regular(session'[x]) /\ TurnOf(session'[Peer(x)]) <= TurnOf(session'[x]) + 1
    BY <1>3, <2>1, <2>2
  <2> QED BY <1>2, <2>3, <2>4, <2>5 DEF InTurn
<1>13. ASSUME full' # TRUE PROVE Complete'
  <2>1. Complete
    BY <1>4, <1>13, FullStays DEF InOrder
  <2>2. /\ \/ w.recv_n = 0 \/ (w.recv_n = m.n + 1 /\ w.dh_remote = m.dh)
           \/ w.recv_n = s.recv_n /\ w.dh_remote = s.dh_remote
        /\ lost' = {} /\ \A l \in Sent : reads'[l] > 0 <=> l \in Opened \cup {m}
        /\ Whole(p, w, Sent, Opened \cup {m})
    BY <1>7, <1>13, <2>1
  <2>3. Opened' = Opened \cup {m}
    BY <1>2, <2>2 DEF Opened
  <2>4. Whole(q, r, Sent, Opened \cup {m})
    <3>1. Whole(q, r, Sent, Opened)
      BY <1>3, <1>6, <2>1 DEF Complete
    <3> QED BY <3>1 DEF Whole
  <2>5. Paced(w, r)
    <3>1. SUFFICES ASSUME w.dh_remote = r.dh_self PROVE w.recv_n <= r.send_n
      BY DEF Paced
    <3>2. r.send_n \in Nat
      BY <1>1, <1>3, <1>6 DEF Sound, RatchetOK, Ratchet
    <3>3. CASE w.recv_n = 0
      BY <3>2, <3>3
    <3>4. CASE w.recv_n = s.recv_n /\ w.dh_remote = s.dh_remote
      <4>1. Paced(s, r)
        BY <1>3, <1>5, <1>6, <2>1 DEF Complete
      <4> QED BY <3>1, <3>4, <4>1 DEF Paced
    <3>5. CASE w.recv_n = m.n + 1 /\ w.dh_remote = m.dh
      <4>1. Posted(m, r)
        BY <1>4, <1>6 DEF InTurn
      <4>2. r.dh_self = KeyOf(y)
        BY <1>9, <1>11 DEF Regular
      <4>3. u = y
        BY <1>10, <1>11, <3>1, <3>5, <4>2, KeyOrder
      <4>4. m.n < r.send_n
        BY <1>9, <4>1, <4>3 DEF Posted
      <4> QED BY <1>10, <3>2, <3>5, <4>4
    <3> QED BY <2>2, <3>3, <3>4, <3>5
  <2>6. Paced(r, w)
    <3>1. CASE w.dh_self = s.dh_self /\ w.send_n = s.send_n
      <4>1. Paced(r, s)
        BY <1>3, <1>5, <1>6, <2>1 DEF Complete
      <4> QED BY <3>1, <4>1 DEF Paced
    <3>2. CASE TurnOf(w) = t + 2 /\ y = t + 1
      <4>1. w.dh_self = KeyOf(t + 2)
        BY <1>7, <3>2 DEF Regular
      <4>2. r.dh_remote = KeyOf(t)
        <5>1. y # 0 /\ y - 1 = t
          BY <1>10, <3>2
        <5>2. r.dh_remote = KeyOf(y - 1)
          BY <1>9, <1>11, <5>1 DEF Regular
        <5> QED BY <5>1, <5>2
      <4>3. KeyOf(t) # KeyOf(t + 2)
        <5>1. t + 2 \in Nat /\ t # t + 2
          BY <1>10
        <5> QED BY <1>10, <5>1, KeyOrder
      <4> QED BY <4>1, <4>2, <4>3 DEF Paced
    <3> QED BY <1>7, <1>9, <1>10, <1>11, <3>1, <3>2
  <2> QED BY <1>2, <1>3, <1>8, <2>2, <2>3, <2>4, <2>5, <2>6 DEF Complete
<1> QED BY <1>12, <1>13

\* A step of a sender: the messages it has sent stay posted.
LEMMA AdvancesInTurn ==
  ASSUME Sound, InTurn, NEW p \in Party, AdvancesSending(p)
  PROVE  \E t, w :
           /\ session' = [session EXCEPT ![p] = w] /\ Regular(w)
           /\ t \in Nat /\ t >= 1 /\ t = TurnOf(session[p]) /\ t = TurnOf(w)
           /\ session[p].send_n \in Nat /\ w.send_n = session[p].send_n + 1
           /\ w.dh_self = session[p].dh_self /\ w.dh_remote = session[p].dh_remote
           /\ w.recv_chain = session[p].recv_chain /\ w.recv_n = session[p].recv_n
           /\ w.skipped = session[p].skipped
           /\ session[p].dh_self = KeyOf(t) /\ session[p].send_chain = Root(t)
<1>1. PICK s : s = session[p]
  OBVIOUS
<1>2. PICK w : w = [s EXCEPT !.send_n = s.send_n + 1]
  OBVIOUS
<1>3. PICK t : t = TurnOf(s)
  OBVIOUS
<1>4. s \in Ratchet /\ Regular(s) /\ s.send_chain # NoChain /\ s.send_n \in Nat
  BY <1>1 DEF Sound, RatchetOK, Ratchet, InTurn, AdvancesSending
<1>5. t \in Nat /\ s.dh_self = KeyOf(t) /\ s.send_chain = Root(t)
  BY <1>3, <1>4 DEF Regular, TurnOf, Ratchet, Chain
<1>6. t >= 1
  BY <1>4, <1>5, RootZero
<1>7. /\ w.send_n = s.send_n + 1 /\ w.dh_self = s.dh_self /\ w.dh_remote = s.dh_remote
      /\ w.root_key = s.root_key /\ w.send_chain = s.send_chain
      /\ w.recv_chain = s.recv_chain /\ w.recv_n = s.recv_n /\ w.skipped = s.skipped
  BY <1>2, <1>4 DEF Ratchet
<1>8. Regular(w) /\ TurnOf(w) = t
  BY <1>3, <1>4, <1>7 DEF Regular, TurnOf
<1>9. session' = [session EXCEPT ![p] = w]
  BY <1>1, <1>2 DEF AdvancesSending
<1> QED BY <1>1, <1>3, <1>4, <1>5, <1>6, <1>7, <1>8, <1>9

LEMMA AdvancesInOrder ==
  ASSUME InOrder, NEW p \in Party, AdvancesSending(p), late' = late, full' = full,
         lost' = lost,
         NEW sent, Sent' = sent, Opened' = Opened,
         \/ sent = Sent
         \/ sent = Sent \cup {Sealed(p)}
  PROVE  /\ ~ late' => InTurn'
         /\ ~ late' /\ ~ full' => Complete'
<1> DEFINE q == Peer(p)
<1> SUFFICES ASSUME ~ late PROVE InTurn' /\ (~ full => Complete')
  OBVIOUS
<1>1. Sound /\ InTurn
  BY DEF InOrder
<1>2. /\ q \in Party /\ q # p /\ Peer(q) = p /\ DOMAIN session = Party
      /\ \A x \in Party : x = p \/ x = q
      /\ \A l \in Sent : l.to \in Party /\ l.n \in Nat /\ l.dh[1] = Peer(l.to)
  BY <1>1, Peers, PartyAssumption DEF Sound, Message, Party, Peer
<1>3. PICK s : s = session[p]
  OBVIOUS
<1>4. PICK r : r = session[q]
  OBVIOUS
<1>5. PICK t, w :
        /\ session' = [session EXCEPT ![p] = w] /\ Regular(w)
        /\ t \in Nat /\ t >= 1 /\ t = TurnOf(s) /\ t = TurnOf(w)
        /\ s.send_n \in Nat /\ w.send_n = s.send_n + 1
        /\ w.dh_self = s.dh_self /\ w.dh_remote = s.dh_remote
        /\ w.recv_chain = s.recv_chain /\ w.recv_n = s.recv_n
        /\ w.skipped = s.skipped
        /\ s.dh_self = KeyOf(t) /\ s.send_chain = Root(t)
  BY <1>1, <1>3, AdvancesInTurn
<1>6. session'[p] = w /\ session'[q] = r
  BY <1>2, <1>4, <1>5
<1>7. PICK m : m = Sealed(p)
  OBVIOUS
<1>8. /\ m.to = q /\ m.dh = KeyOf(t) /\ m.n = s.send_n
      /\ m.key = KdfCk(Root(t), s.send_n) /\ Len(m.key[1]) = t
  <2>1. m = [to |-> q, dh |-> s.dh_self, pn |-> s.prev_send_n, n |-> s.send_n,
             key |-> KdfCk(s.send_chain, s.send_n)]
    BY <1>3, <1>7 DEF Sealed
  <2>2. /\ m.to = q /\ m.dh = KeyOf(t) /\ m.n = s.send_n
        /\ m.key = KdfCk(Root(t), s.send_n)
    BY <1>5, <2>1
  <2>3. m.key[1] = Root(t)
    BY <2>2 DEF KdfCk
  <2> QED BY <1>5, <2>2, <2>3, RootType
<1>9. ASSUME NEW l \in Sent, l.dh = KeyOf(t) PROVE l.n < s.send_n
  <2>1. KeyOf(t)[1] = p
    BY <1>1, <1>2, <1>3, <1>5 DEF Sound, RatchetOK
  <2>2. l.to = q
    BY <1>2, <1>9, <2>1
  <2>3. Posted(l, s)
    BY <1>1, <1>2, <1>3, <2>2 DEF InTurn
  <2>4. Len(l.key[1]) \in Nat
    BY <1>1 DEF Sound, Message, MessageKey, Chain
  <2>5. Len(l.key[1]) = t
    BY <1>5, <1>9, <2>3, <2>4, KeyOrder DEF Posted
  <2> QED BY <1>5, <2>3, <2>5 DEF Posted
<1>10. InTurn'
  <2>1. \A x \in Party :
          Regular(session'[x]) /\ TurnOf(session'[Peer(x)]) <= TurnOf(session'[x]) + 1
    <3>1. /\ Regular(r) /\ TurnOf(r) <= TurnOf(w) + 1 /\ TurnOf(w) <= TurnOf(r) + 1
      BY <1>1, <1>2, <1>3, <1>4, <1>5 DEF InTurn
    <3> QED BY <1>2, <1>5, <1>6, <3>1
  <2>2. ASSUME NEW l \in Sent PROVE Posted(l, session'[Peer(l.to)])
    <3>1. Posted(l, session[Peer(l.to)])
      BY <1>1 DEF InTurn
    <3>2. CASE l.to = p
      BY <1>4, <1>6, <3>1, <3>2
    <3>3. CASE l.to = q
      <4>1. Posted(l, s) /\ l.n \in Nat
        BY <1>2, <1>3, <3>1, <3>3
      <4>2. Posted(l, w)
        BY <1>5, <4>1 DEF Posted
      <4> QED BY <1>2, <1>6, <3>3, <4>2
    <3> QED BY <1>2, <3>2, <3>3
  <2>3. Posted(m, session'[Peer(m.to)])
    <3>1. Posted(m, w)
      BY <1>5, <1>8 DEF Posted
    <3> QED BY <1>2, <1>6, <1>8, <3>1
  <2>4. \A l, k \in sent : l.dh = k.dh /\ l.n = k.n => l = k
    <3>1. \A l, k \in Sent : l.dh = k.dh /\ l.n = k.n => l = k
      BY <1>1 DEF InTurn, Numbered
    <3>2. \A l \in Sent : ~ (l.dh = m.dh /\ l.n = m.n)
      BY <1>2, <1>5, <1>8, <1>9
    <3> QED BY <1>7, <3>1, <3>2
  <2>5. \A l \in sent : Posted(l, session'[Peer(l.to)])
    BY <1>7, <2>2, <2>3
  <2> QED BY <2>1, <2>4, <2>5 DEF InTurn, Numbered
<1>11. ASSUME ~ full PROVE Complete'
  <2>1. Complete
    BY <1>11 DEF InOrder
  <2>2. /\ Whole(p, s, Sent, Opened) /\ Whole(q, r, Sent, Opened)
        /\ Paced(s, r) /\ Paced(r, s)
    BY <1>2, <1>3, <1>4, <2>1 DEF Complete
  <2>3. Whole(p, w, sent, Opened)
    <3>1. Whole(p, w, Sent, Opened)
      BY <1>5, <2>2 DEF Whole
    <3>2. m.to # p
      BY <1>2, <1>8
    <3> QED BY <1>7, <3>1, <3>2 DEF Whole
  <2>4. Whole(q, r, sent, Opened)
    <3>1. m.dh = r.dh_remote => m.n >= r.recv_n
      <4>1. r.recv_n \in Nat
        BY <1>1, <1>2, <1>4 DEF Sound, RatchetOK, Ratchet
      <4> QED BY <1>5, <1>8, <2>2, <4>1 DEF Paced
    <3> QED BY <1>7, <2>2, <3>1 DEF Whole
  <2>5. Paced(w, r) /\ Paced(r, w)
    <3>1. r.recv_n \in Nat
      BY <1>1, <1>2, <1>4 DEF Sound, RatchetOK, Ratchet
    <3> QED BY <1>5, <2>2, <3>1 DEF Paced
  <2>6. lost' = {}
    BY <2>1 DEF Complete
  <2>7. \A x \in Party : /\ Whole(x, session'[x], sent, Opened)
                         /\ Paced(session'[x], session'[Peer(x)])
    BY <1>2, <1>6, <2>3, <2>4, <2>5
  <2> QED BY <2>6, <2>7 DEF Complete
<1> QED BY <1>10, <1>11

LEMMA InOrderInit == Init => InOrder
<1> SUFFICES ASSUME Init PROVE InOrder
  OBVIOUS
<1>1. Sound /\ Sent = {} /\ lost = {}
  BY SoundInit DEF Init, Sent
<1>2. /\ Alice \in Party /\ Bob \in Party /\ Peer(Alice) = Bob /\ Peer(Bob) = Alice
      /\ \A p \in Party : p = Alice \/ p = Bob
  BY PartyAssumption DEF Party, Peer
<1>3. PICK s, r : s = session[Alice] /\ r = session[Bob]
  OBVIOUS
<1>4. KeyOf(0) = <<Bob, 0>> /\ KeyOf(1) = <<Alice, 0>>
  <2>1. 0 % 2 = 0 /\ 1 % 2 = 1 /\ 0 \div 2 = 0 /\ 1 \div 2 = 0
    OBVIOUS
  <2> QED BY <2>1 DEF KeyOf
<1>5. KdfRk(<<>>, Agreement(<<Alice, 0>>, <<Bob, 0>>)) = Root(1)
  <2>1. KdfRk(Root(0), Agreement(KeyOf(0), KeyOf(0 + 1))) = Root(0 + 1)
    BY RootGrows
  <2>2. Agreement(KeyOf(0), KeyOf(1)) = Agreement(<<Alice, 0>>, <<Bob, 0>>)
    BY <1>4 DEF Agreement
  <2>3. 0 + 1 = 1 /\ Root(0) = <<>>
    BY RootZero DEF NoChain
  <2> QED BY <2>1, <2>2, <2>3
<1>6. /\ s = InitInitiator(<<Alice, 0>>, <<Bob, 0>>)
      /\ r = InitResponder(<<Bob, 0>>)
  BY <1>2, <1>3, PartyAssumption DEF Init
<1>7. PICK root : root = Root(1) /\ Len(root) = 1
  BY RootType
<1>8. /\ s.dh_self = KeyOf(1) /\ s.dh_remote = KeyOf(0) /\ s.root_key = root
      /\ s.send_chain = root /\ s.recv_chain = NoChain /\ s.recv_n = 0 /\ s.send_n = 0
      /\ s.skipped = NoSkipped
  BY <1>4, <1>5, <1>6, <1>7 DEF InitInitiator
<1>9. /\ r.dh_self = KeyOf(0) /\ r.dh_remote = NoKey /\ r.root_key = NoChain
      /\ r.send_chain = NoChain /\ r.recv_chain = NoChain /\ r.recv_n = 0 /\ r.send_n = 0
      /\ r.skipped = NoSkipped
  BY <1>4, <1>6 DEF InitResponder, NoChain
<1>10. TurnOf(s) = 1 /\ TurnOf(r) = 0
  BY <1>7, <1>8, <1>9 DEF TurnOf, NoChain
<1>11. Regular(s) /\ Regular(r)
  <2>1. Regular(s)
    BY <1>7, <1>8, <1>10 DEF Regular
  <2>2. Regular(r)
    BY <1>9, <1>10, RootZero DEF Regular
  <2> QED BY <2>1, <2>2
<1>12. InTurn
  BY <1>1, <1>2, <1>3, <1>10, <1>11 DEF InTurn, Numbered
<1>13. Complete
  <2>1. DOMAIN NoSkipped = {}
    BY DEF NoSkipped
  <2>2. Whole(Alice, s, {}, Opened) /\ Whole(Bob, r, {}, Opened)
    BY <1>8, <1>9, <1>10, <2>1 DEF Whole
  <2>3. Paced(s, r) /\ Paced(r, s)
    BY <1>8, <1>9 DEF Paced
  <2> QED BY <1>1, <1>2, <1>3, <2>2, <2>3 DEF Complete
<1> QED BY <1>1, <1>12, <1>13 DEF InOrder

LEMMA InOrderNext == InOrder /\ [Next]_vars => InOrder'
<1> SUFFICES ASSUME InOrder, [Next]_vars PROVE InOrder'
  OBVIOUS
<1>1. Sound' /\ Sound
  BY SoundNext DEF InOrder
<1>2. ASSUME NEW p \in Party, Encrypt(p) PROVE InOrder'
  <2>1. PICK sent : sent = Sent \cup {Sealed(p)}
    OBVIOUS
  <2>2. /\ AdvancesSending(p) /\ lost' = lost /\ late' = late /\ full' = full
        /\ Sent' = sent
        /\ reads' = [m \in sent |-> IF m \in Sent THEN reads[m] ELSE 0]
    BY <1>2, <2>1 DEF Encrypt, Sent
  <2>3. Opened' = Opened
    BY <2>1, <2>2 DEF Opened
  <2>4. /\ ~ late' => InTurn'
        /\ ~ late' /\ ~ full' => Complete'
    BY <2>1, <2>2, <2>3, AdvancesInOrder
  <2> QED BY <1>1, <2>4 DEF InOrder
<1>3. ASSUME NEW p \in Party, EncryptTooLong(p) PROVE InOrder'
  <2>1. PICK sent : sent = Sent
    OBVIOUS
  <2>2. /\ AdvancesSending(p) /\ lost' = lost /\ late' = late /\ full' = full
        /\ Sent' = sent /\ Opened' = Opened
    BY <1>3, <2>1 DEF EncryptTooLong, Sent, Opened
  <2>3. /\ ~ late' => InTurn'
        /\ ~ late' /\ ~ full' => Complete'
    BY <2>1, <2>2, AdvancesInOrder
  <2> QED BY <1>1, <2>3 DEF InOrder
<1>4. ASSUME NEW m \in Sent, Decrypt(m) PROVE InOrder'
  BY <1>4, DecryptInOrder
<1>5. CASE UNCHANGED vars
  <2>1. InTurn' = InTurn /\ Complete' = Complete /\ late' = late /\ full' = full
    BY <1>5 DEF vars, InTurn, Complete, Sent, Numbered, Opened
  <2> QED BY <1>1, <2>1 DEF InOrder
<1> QED BY <1>2, <1>3, <1>4, <1>5 DEF Next

----
(***************************************************************************)
(* The theorems.                                                           *)
(***************************************************************************)

\* `InOrder` holds in every state: the invariant the theorems below are read off from.
THEOREM InOrderHolds == Spec => []InOrder
<1>1. QED BY InOrderInit, InOrderNext, PTL DEF Spec

\* As long as no message comes after one of a newer chain, the ends agree on the chains,
\* for any number of ratchet steps, gaps and replays, and a receiving chain is gone only
\* where the bound on skipped keys was hit (ratchet.rs, dh_ratchet and message_key_for).
THEOREM AlignedHolds == Spec => []Aligned
<1>1. InOrder => Aligned
  <2> SUFFICES ASSUME InOrder, ~ late, NEW m \in Sent, ~ IsLate(m),
                      NEW s, s = session[m.to]
               PROVE  \/ s.dh_remote = m.dh /\ s.recv_chain = m.key[1]
                      \/ s.dh_remote = m.dh /\ s.recv_chain = NoChain /\ full
                      \/ /\ s.dh_remote # m.dh
                         /\ KdfRk(s.root_key, Agreement(s.dh_self, m.dh)) = m.key[1]
    BY DEF Aligned
  <2>1. Sound /\ InTurn /\ m.to \in Party
    BY DEF InOrder, Sound, Message
  <2>2. PICK t, u : t = TurnOf(s) /\ u = Len(m.key[1])
    OBVIOUS
  <2>3. /\ t \in Nat /\ u \in Nat /\ 1 <= u
        /\ m.dh = KeyOf(u) /\ m.key = KdfCk(Root(u), m.n)
        /\ \/ u = t - 1 /\ s.dh_remote = m.dh
           \/ u = t + 1 /\ s.dh_remote # m.dh
    BY <2>1, <2>2, MessageTurn
  <2>4. Regular(s) /\ m.key[1] = Root(u)
    BY <2>1, <2>3 DEF InTurn, KdfCk
  <2>5. CASE u = t - 1 /\ s.dh_remote = m.dh
    <3>1. s.recv_chain = NoChain \/ s.recv_chain = m.key[1]
      BY <2>2, <2>4, <2>5 DEF Regular
    <3>2. s.recv_chain # NoChain \/ full
      <4>1. ~ full => Whole(m.to, s, Sent, Opened)
        BY <2>1 DEF InOrder, Complete
      <4> QED BY <2>2, <2>3, <2>5, <4>1 DEF Whole
    <3> QED BY <2>5, <3>1, <3>2
  <2>6. CASE u = t + 1 /\ s.dh_remote # m.dh
    <3>1. s.root_key = Root(t) /\ s.dh_self = KeyOf(t)
      BY <2>2, <2>4 DEF Regular
    <3> QED BY <2>3, <2>4, <2>6, <3>1, RootGrows
  <2> QED BY <2>3, <2>5, <2>6
<1> QED BY <1>1, InOrderHolds, PTL

\* As long as the bound on skipped keys is not hit either, every message opens the first
\* time it comes, in whatever order those of a chain come (ratchet.rs, decrypt).
THEOREM NothingLostHolds == Spec => []NothingLost
<1>1. InOrder => NothingLost
  BY DEF InOrder, Complete, NothingLost
<1> QED BY <1>1, InOrderHolds, PTL
====
