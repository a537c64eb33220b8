---- MODULE DoubleRatchet ----
(***************************************************************************)
(* The two ends of a session of core/src/crypto/ratchet.rs                 *)
(* (`DoubleRatchet`), each behind the mutex of an `FfiSession`.            *)
(*                                                                         *)
(* Their messages travel as envelopes of a store-carry-forward network: in *)
(* any order, more than once, or not at all.                               *)
(*                                                                         *)
(* Keys are symbolic.  A root key is the sequence of the key agreements    *)
(* mixed into the shared secret, a chain key is the root key it was        *)
(* derived with and a position, a message key is the chain and the number  *)
(* of the message.  A position is always the counter next to the chain, so *)
(* a chain is its root key alone.  Opening a ciphertext succeeds exactly   *)
(* when the key is the one it was sealed with.                             *)
(***************************************************************************)
EXTENDS Integers, Sequences, FiniteSets

CONSTANTS
  Alice,      \* the party that was initiator of the handshake
  Bob,        \* the party that was responder
  NoKey,      \* `None`, as a ratchet public key
  MaxSkip,    \* MAX_SKIP
  MaxSteps,   \* bound on the number of the keypair a party still sends with
  MaxChain,   \* bound on the message numbers of a chain
  MaxSent,    \* bound on the messages sent by both parties
  MaxCopies   \* bound on how often the network delivers a message

Party == {Alice, Bob}
Key   == Party \X Nat   \* ratchet keypairs: who generated it, and as which of theirs

ASSUME PartyAssumption == Alice # Bob
ASSUME KeyAssumption   == NoKey \notin Key
ASSUME BoundAssumption ==
  /\ MaxSkip \in Nat /\ MaxCopies \in Nat
  /\ MaxSteps \in Nat /\ MaxChain \in Nat /\ MaxSent \in Nat

VARIABLES
  session,  \* the state of each party's `DoubleRatchet`
  arrived,  \* network: the messages sent, and how often each was delivered
  reads,    \* history: how often each message was opened
  lost,     \* history: the messages that could not be opened when they came
  late,     \* history: a message of an older chain came after one of a newer
  full      \* history: the bound on the skipped keys was hit

vars == <<session, arrived, reads, lost, late, full>>

Peer(p) == IF p = Alice THEN Bob ELSE Alice

----
(***************************************************************************)
(* Key derivation.                                                         *)
(***************************************************************************)
Agreement(own, remote) == {own, remote}

KdfRk(root_key, agreement) == Append(root_key, agreement)

KdfCk(chain, n) == <<chain, n>>

NoChain == <<>>

Fresh(key) == <<key[1], key[2] + 1>>

(***************************************************************************)
(* `DoubleRatchet`.                                                        *)
(***************************************************************************)
NoSkipped == [k \in {} |-> KdfCk(NoChain, 0)]

InitInitiator(own, remote) ==
  LET root == KdfRk(<<>>, Agreement(own, remote))
  IN  [dh_self |-> own, dh_remote |-> remote, root_key |-> root,
       send_chain |-> root, recv_chain |-> NoChain,
       send_n |-> 0, recv_n |-> 0, prev_send_n |-> 0, skipped |-> NoSkipped]

InitResponder(own) ==
  [dh_self |-> own, dh_remote |-> NoKey, root_key |-> <<>>,
   send_chain |-> NoChain, recv_chain |-> NoChain,
   send_n |-> 0, recv_n |-> 0, prev_send_n |-> 0, skipped |-> NoSkipped]

\* Mutant of Ratcheted: the receiving counter is not reset.
RatchetedKeepsCount(s, remote) ==
  LET recv == KdfRk(s.root_key, Agreement(s.dh_self, remote))
      send == KdfRk(recv, Agreement(Fresh(s.dh_self), remote))
  IN  [s EXCEPT !.dh_self = Fresh(@), !.dh_remote = remote, !.root_key = send,
                !.send_chain = send, !.recv_chain = recv,
                !.send_n = 0, !.prev_send_n = s.send_n]

\* Mutant of Ratcheted: the root key of the first of its two derivations is kept.
RatchetedHalfway(s, remote) ==
  LET recv == KdfRk(s.root_key, Agreement(s.dh_self, remote))
      send == KdfRk(recv, Agreement(Fresh(s.dh_self), remote))
  IN  [s EXCEPT !.dh_self = Fresh(@), !.dh_remote = remote, !.root_key = recv,
                !.send_chain = send, !.recv_chain = recv,
                !.send_n = 0, !.recv_n = 0, !.prev_send_n = s.send_n]

\* `dh_ratchet`
Ratcheted(s, remote) ==
  LET recv == KdfRk(s.root_key, Agreement(s.dh_self, remote))
      send == KdfRk(recv, Agreement(Fresh(s.dh_self), remote))
  IN  [s EXCEPT !.dh_self = Fresh(@), !.dh_remote = remote, !.root_key = send,
                !.send_chain = send, !.recv_chain = recv,
                !.send_n = 0, !.recv_n = 0, !.prev_send_n = s.send_n]

\* Mutant of SkippedTo: the key about to be used is set aside as well.
SkippedPast(s, i) ==
  LET aside == {s.dh_remote} \X (s.recv_n .. i)
  IN  [s EXCEPT !.recv_n = i,
                !.skipped = [k \in DOMAIN s.skipped \cup aside |->
                   IF k \in aside THEN KdfCk(s.recv_chain, k[2]) ELSE s.skipped[k]]]

\* The session once the keys of its receiving chain below number i are set aside.
SkippedTo(s, i) ==
  LET aside == {s.dh_remote} \X (s.recv_n .. i - 1)
  IN  [s EXCEPT !.recv_n = i,
                !.skipped = [k \in DOMAIN s.skipped \cup aside |->
                   IF k \in aside THEN KdfCk(s.recv_chain, k[2]) ELSE s.skipped[k]]]

\* Mutant of IsFull: one key too many fits.
IsOverfull(s) == Cardinality(DOMAIN s.skipped) > MaxSkip

IsFull(s) == Cardinality(DOMAIN s.skipped) >= MaxSkip

\* Where setting keys aside up to number `upto` ends: there, or where no more fit.
\* This is the loop of `skip_chain`, and of `message_key_for`.
SkipStops(s, upto) ==
  {i \in s.recv_n .. s.recv_n + upto :
     /\ \A j \in s.recv_n .. i - 1 : j < upto /\ ~ IsFull(SkippedTo(s, j))
     /\ i >= upto \/ IsFull(SkippedTo(s, i))}

----
Init ==
  /\ session = [p \in Party |->
       IF p = Alice THEN InitInitiator(<<Alice, 0>>, <<Bob, 0>>)
                    ELSE InitResponder(<<Bob, 0>>)]
  /\ arrived = [m \in {} |-> 0]
  /\ reads = [m \in {} |-> 0]
  /\ lost = {}
  /\ late = FALSE
  /\ full = FALSE

Sent == DOMAIN arrived

(***************************************************************************)
(* `encrypt`.  A plaintext too large for any size bucket is refused when   *)
(* the sending chain has moved on, which leaves a gap in its numbers.      *)
(***************************************************************************)
Sealed(p) ==
  LET s == session[p]
  IN  [to |-> Peer(p), dh |-> s.dh_self, pn |-> s.prev_send_n, n |-> s.send_n,
       key |-> KdfCk(s.send_chain, s.send_n)]

AdvancesSending(p) ==
  /\ session[p].send_chain # NoChain
  /\ session[p].dh_self[2] < MaxSteps /\ session[p].send_n < MaxChain
  /\ session' = [session EXCEPT ![p].send_n = @ + 1]

Encrypt(p) ==
  /\ Cardinality(Sent) < MaxSent
  /\ AdvancesSending(p)
  /\ arrived' = [m \in Sent \cup {Sealed(p)} |-> IF m \in Sent THEN arrived[m] ELSE 0]
  /\ reads' = [m \in Sent \cup {Sealed(p)} |-> IF m \in Sent THEN reads[m] ELSE 0]
  /\ UNCHANGED <<lost, late, full>>

EncryptTooLong(p) ==
  /\ AdvancesSending(p)
  /\ UNCHANGED <<arrived, reads, lost, late, full>>

(***************************************************************************)
(* `decrypt`.  The session changes before the ciphertext is opened, and    *)
(* stays changed when it cannot be.                                        *)
(***************************************************************************)
Settles(m, s, opened) ==
  /\ session' = [session EXCEPT ![m.to] = s]
  /\ reads' = IF opened THEN [reads EXCEPT ![m] = @ + 1] ELSE reads
  /\ lost' = IF opened \/ reads[m] > 0 THEN lost ELSE lost \cup {m}

\* A bound that was hit leaves the session without its receiving chain.
Overflows(m, s, i) ==
  /\ Settles(m, [SkippedTo(s, i) EXCEPT !.recv_chain = NoChain], FALSE)
  /\ full' = TRUE

\* Mutant of OpensSkipped: the skipped key is read and not removed.
OpensSkippedAgain(m, s) ==
  /\ <<m.dh, m.n>> \in DOMAIN s.skipped
  /\ Settles(m, s, s.skipped[<<m.dh, m.n>>] = m.key)
  /\ UNCHANGED full

\* `message_key_for`, and the opening.
OpensSkipped(m, s) ==
  /\ <<m.dh, m.n>> \in DOMAIN s.skipped
  /\ LET rest == DOMAIN s.skipped \ {<<m.dh, m.n>>}
     IN  Settles(m, [s EXCEPT !.skipped = [k \in rest |-> s.skipped[k]]],
                 s.skipped[<<m.dh, m.n>>] = m.key)
  /\ UNCHANGED full

RefusesKey(m, s) ==
  /\ <<m.dh, m.n>> \notin DOMAIN s.skipped
  /\ m.n < s.recv_n \/ s.recv_chain = NoChain
  /\ Settles(m, s, FALSE)
  /\ UNCHANGED full

OpensNext(m, s) ==
  /\ <<m.dh, m.n>> \notin DOMAIN s.skipped
  /\ m.n >= s.recv_n /\ s.recv_chain # NoChain
  /\ \E i \in SkipStops(s, m.n) :
       \/ i < m.n /\ Overflows(m, s, i)
       \/ /\ i = m.n
          /\ Settles(m, [SkippedTo(s, i) EXCEPT !.recv_n = i + 1],
                     KdfCk(s.recv_chain, i) = m.key)
          /\ UNCHANGED full

Opens(m, s) == OpensSkipped(m, s) \/ RefusesKey(m, s) \/ OpensNext(m, s)

IsLate(m) ==
  LET s == session[m.to] IN s.dh_remote # NoKey /\ m.dh[2] < s.dh_remote[2]

Decrypt(m) ==
  /\ arrived[m] < MaxCopies
  /\ arrived' = [arrived EXCEPT ![m] = @ + 1]
  /\ late' = (late \/ IsLate(m))
  /\ LET s == session[m.to] IN
     \/ s.dh_remote = m.dh /\ Opens(m, s)
     \/ s.dh_remote # m.dh /\ s.recv_chain = NoChain /\ Opens(m, Ratcheted(s, m.dh))
     \/ /\ s.dh_remote # m.dh /\ s.recv_chain # NoChain
        /\ \E i \in SkipStops(s, m.pn) :
             \/ i < m.pn /\ Overflows(m, s, i)
             \/ i >= m.pn /\ Opens(m, Ratcheted(SkippedTo(s, i), m.dh))

Next ==
  \/ \E p \in Party : Encrypt(p) \/ EncryptTooLong(p)
  \/ \E m \in Sent : Decrypt(m)

Spec == Init /\ [][Next]_vars

----
(***************************************************************************)
(* Properties.                                                             *)
(***************************************************************************)
Chain      == Seq(SUBSET Key)
MessageKey == Chain \X Nat
Message    ==
  [to : Party, dh : Key, pn : Nat, n : Nat, key : MessageKey]

\* One type invariant for the module, with the bound on the skipped keys
\* (ratchet.rs, store_skipped): no sequence of gaps, ratchet steps and returns to an
\* older chain makes a session keep more than MAX_SKIP of them.
TypeOK ==
  /\ DOMAIN session = Party
  /\ \A p \in Party :
       LET s == session[p] IN
       /\ s.dh_self \in {p} \X Nat
       /\ s.dh_remote \in ({Peer(p)} \X Nat) \cup {NoKey}
       /\ {s.root_key, s.send_chain, s.recv_chain} \subseteq Chain
       /\ {s.send_n, s.recv_n, s.prev_send_n} \subseteq Nat
       /\ DOMAIN s.skipped \subseteq Key \X Nat
       /\ \A k \in DOMAIN s.skipped : s.skipped[k] \in MessageKey
       /\ Cardinality(DOMAIN s.skipped) <= MaxSkip
  /\ Sent \subseteq Message
  /\ DOMAIN reads = Sent
  /\ \A m \in Sent : arrived[m] \in 0..MaxCopies /\ reads[m] \in 0..arrived[m]
  /\ lost \subseteq Sent
  /\ late \in BOOLEAN /\ full \in BOOLEAN

\* A message opens at most once, however often it is replayed, whatever ratchet steps,
\* gaps and failures came in between (ratchet.rs, message_key_for).
OpensOnce == \A m \in Sent : reads[m] <= 1

Derivable(s, chain, n, key) == s[chain] = key[1] /\ s[n] <= key[2]

\* Forward secrecy: no state of either party gives the key of a message the sender has
\* sent or the receiver has opened, neither from a chain nor from a skipped key
\* (docs/CRYPTOGRAPHY.md, section 5; ratchet.rs, encrypt and decrypt).
ForwardSecret ==
  \A m \in Sent :
    /\ ~ Derivable(session[Peer(m.to)], "send_chain", "send_n", m.key)
    /\ reads[m] > 0 =>
         LET s == session[m.to] IN
         /\ ~ Derivable(s, "recv_chain", "recv_n", m.key)
         /\ \A k \in DOMAIN s.skipped : s.skipped[k] # m.key

\* As long as no message comes after one of a newer chain, the ends agree on the chains: a
\* message of the chain the receiver is at is one of the receiving chain it holds, and one
\* of the next chain follows from its root key.  Gaps, replays and refused messages do not
\* disturb that.  The bound on skipped keys does: where it was hit the receiving chain may
\* be gone, and with it the messages of that chain which have no key set aside, but never
\* the next chain (ratchet.rs, the two `take` of decrypt and message_key_for).
Aligned ==
  ~ late =>
    \A m \in Sent :
      LET s == session[m.to] IN
      \/ IsLate(m)
      \/ s.dh_remote = m.dh /\ s.recv_chain = m.key[1]
      \/ s.dh_remote = m.dh /\ s.recv_chain = NoChain /\ full
      \/ s.dh_remote # m.dh /\ KdfRk(s.root_key, Agreement(s.dh_self, m.dh)) = m.key[1]

\* And as long as the bound on skipped keys is not hit either, every message opens the
\* first time it comes, in whatever order those of a chain come (ratchet.rs, decrypt).
NothingLost == ~ late /\ ~ full => lost = {}

\* What the documents say: lost messages and messages out of order are handled, within the
\* bound.
OutOfOrderHandled == ~ full => lost = {}
====
