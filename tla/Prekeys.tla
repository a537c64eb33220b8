---- MODULE Prekeys ----
(***************************************************************************)
(* Asynchronous session setup: the prekeys of one device, the bundles that *)
(* other devices carry of it, and the first messages sent against them     *)
(* (core/src/crypto/prekey.rs, core/src/crypto/pqxdh.rs,                   *)
(* core/src/ffi_prekey.rs).                                                *)
(*                                                                         *)
(* The pool sits behind a mutex, so each call is one step.  Bundles and    *)
(* first messages travel as envelopes: they are kept for as long as        *)
(* somebody carries them, so they arrive late, again, or never.  The app   *)
(* saves the pool when it likes and the process may die at any moment.     *)
(*                                                                         *)
(* A keypair is its number in the order of generation.  Secrets are        *)
(* symbolic: the tuple of what goes into a key derivation stands for its   *)
(* result.                                                                 *)
(***************************************************************************)
EXTENDS Integers, Sequences, FiniteSets

CONSTANTS
  NoKey,           \* `None`, as an optional one-time prekey
  Altered,         \* a public key that was damaged on the way: nobody has its secret
  NoPool,          \* nothing has been persisted yet
  InitialBatch,    \* initial_batch
  MaxKeys,         \* bound on the keypairs up to which a pool is topped up and rotated
  MaxInitiations,  \* bound on the first messages sent to the device
  MaxRestarts      \* bound on its restarts

PoolSize == InitialBatch + 2   \* keypairs of a new pool

LongTerm == 0   \* the agreement keypair of the device's identity

Key == 1 .. MaxKeys + MaxRestarts * PoolSize

ASSUME NoneAssumption ==
  /\ NoKey \notin Key /\ Altered \notin Key \cup {LongTerm} /\ Altered # NoKey
ASSUME BatchAssumption ==
  /\ InitialBatch \in Nat /\ MaxKeys \in Nat /\ PoolSize <= MaxKeys
ASSUME InitiationAssumption == MaxInitiations \in Nat /\ MaxRestarts \in Nat

VARIABLES
  pool,      \* the `HybridPrekeyPool` of the running process
  saved,     \* the bytes of the pool that the app persisted last
  minted,    \* how many keypairs have been generated
  bundles,   \* the bundles handed out
  firsts,    \* initiators: the bundle, as it arrived, behind each first message
  sessions,  \* the sessions the device has answered with
  uses,      \* history: how many first messages each one-time prekey answered
  revived,   \* history: how many restarts brought each consumed one-time prekey back
  retired,   \* history: the prekeys that were rotated out
  forgotten, \* history: the keys that a restart lost
  backed,    \* history: the bundles handed out when what they name was saved
  restarts

prekeyVars == <<pool, saved, minted, bundles, firsts, sessions,
                uses, revived, retired, forgotten, backed, restarts>>

----
(***************************************************************************)
(* The classical half: signed prekey and one-time prekeys (prekey.rs).  A  *)
(* signature of the identity is told by the public key it was made over.   *)
(***************************************************************************)
SignedPrekey(k) == [public |-> k, signature |-> k]

\* Mutant of GenerateOneTimePrekeys: one too many.
GenerateOneMore(first, n) == first .. first + n

\* What `n` one-time prekeys are called when `first` is the next free number.
\* The pool appends them to its vector and takes them out singly, so the vector
\* is in the order of their numbers and a set of numbers says the same.
GenerateOneTimePrekeys(first, n) == first .. first + n - 1

\* `PrekeyPool::new`
NewClassical(first) ==
  [signed |-> first, available |-> GenerateOneTimePrekeys(first + 1, InitialBatch)]

CurrentOneTimePrekey(p) ==
  IF p.available = {} THEN NoKey
  ELSE CHOOSE k \in p.available : \A o \in p.available : k <= o

\* Mutant of Consume: the secret is looked up and stays in the pool.
ConsumeKeeps(p, k) == p

Consume(p, k) == [p EXCEPT !.available = @ \ {k}]

ToppedUp(p, first, n) ==
  [p EXCEPT !.available = @ \cup GenerateOneTimePrekeys(first, n)]

PrekeyBundle(p) ==
  [agreement |-> LongTerm, signed |-> SignedPrekey(p.signed).public,
   signed_signature |-> SignedPrekey(p.signed).signature,
   one_time |-> CurrentOneTimePrekey(p)]

\* What `from_bytes` may give for this half: every damage that leaves the lengths
\* alone parses.  Neither the agreement key nor the one-time prekey is signed.  (A
\* damaged verifying key or signature is a bundle nobody uses.)
ParsedClassical(b) ==
  {b, [b EXCEPT !.agreement = Altered], [b EXCEPT !.signed = Altered]} \cup
  (IF b.one_time = NoKey THEN {} ELSE {[b EXCEPT !.one_time = Altered]})

VerifySignedPrekey(b) == b.signed_signature = b.signed

\* DH1 to DH4, as the keys they are computed from, through `x3dh_kdf`.
X3dhKdf(ephemeral, agreement, signed, one_time) ==
  <<ephemeral, agreement, signed, one_time>>

\* `initiate`, with the ephemeral keypair of the i-th initiator
X3dhInitiated(i, b) == X3dhKdf(i, b.agreement, b.signed, b.one_time)

\* `respond`
X3dhResponded(p, m) == X3dhKdf(m.ephemeral, LongTerm, p.signed, m.one_time)

ResponderRatchetSeed(p) == p.signed

(***************************************************************************)
(* The hybrid half (pqxdh.rs).  Decapsulating with another key than the    *)
(* one a ciphertext was made for is no error: it gives another secret.     *)
(***************************************************************************)
PqPrekey(k) == [encapsulation_key |-> k, signature |-> k]

HybridBundle(classical, pq_prekey) ==
  [agreement |-> classical.agreement, signed |-> classical.signed,
   signed_signature |-> classical.signed_signature, one_time |-> classical.one_time,
   pq |-> pq_prekey.encapsulation_key, pq_signature |-> pq_prekey.signature]

CurrentHybridBundle(p) == HybridBundle(PrekeyBundle(p), PqPrekey(p.pq))

\* What may come out of `from_bytes` at a peer.
Parsed(b) == ParsedClassical(b) \cup {[b EXCEPT !.pq = Altered]}

\* Mutant of Verify: only the signature of the signed prekey is checked.
VerifyClassical(b) == VerifySignedPrekey(b)

Verify(b) == VerifySignedPrekey(b) /\ b.pq_signature = b.pq

Encapsulated(ephemeral, pq) == <<ephemeral, pq>>

Decapsulate(ciphertext, pq) == <<ciphertext, pq>>

HybridKdf(classical_secret, pq_secret) == <<classical_secret, pq_secret>>

\* The session of the i-th initiator: its secret and the ratchet key it sends to.
Initiated(i, b) ==
  [secret  |-> HybridKdf(X3dhInitiated(i, b), Decapsulate(Encapsulated(i, b.pq), b.pq)),
   ratchet |-> b.signed]

\* `unpack_initiation_message` of what the i-th initiator packed.
InitiationMessage(i) ==
  [ephemeral |-> i, one_time |-> firsts[i].one_time,
   ciphertext |-> Encapsulated(i, firsts[i].pq)]

\* Mutant of Responded: the ratchet starts on the one-time prekey.
RespondedOnOneTime(p, m) ==
  [secret  |-> HybridKdf(X3dhResponded(p, m), Decapsulate(m.ciphertext, p.pq)),
   ratchet |-> IF m.one_time = NoKey THEN p.signed ELSE m.one_time]

\* The responder's session for the first message m.  The message does not say
\* which signed prekey and which PQ prekey it was made for: the current ones
\* are used.
Responded(p, m) ==
  [secret  |-> HybridKdf(X3dhResponded(p, m), Decapsulate(m.ciphertext, p.pq)),
   ratchet |-> ResponderRatchetSeed(p)]

WithSignedPrekey(p, k) == [p EXCEPT !.signed = k]

WithPqPrekey(p, k) == [p EXCEPT !.pq = k]

\* `HybridPrekeyPool::new`, from the next free number on
NewPool(first) ==
  LET classical == NewClassical(first)
  IN  [signed |-> classical.signed, available |-> classical.available,
       pq |-> first + InitialBatch + 1]

(***************************************************************************)
(* The bytes of a pool hold its secrets; public keys and signatures are    *)
(* derived from them again.  A byte string that is not a pool's is an      *)
(* error, and then there is no pool.                                       *)
(***************************************************************************)
\* `PrekeyPool::to_bytes`
ClassicalToBytes(p) == [signed |-> p.signed, secrets |-> p.available]

\* Mutant of ClassicalFromBytes: the first one-time prekey is skipped.
ClassicalFromBytesPastFirst(bytes) ==
  [signed |-> bytes.signed,
   available |-> {k \in bytes.secrets : \E o \in bytes.secrets : o < k}]

\* `PrekeyPool::from_bytes`
ClassicalFromBytes(bytes) == [signed |-> bytes.signed, available |-> bytes.secrets]

\* `HybridPrekeyPool::to_bytes`
ToBytes(p) == [classical |-> ClassicalToBytes(p), pq |-> p.pq]

\* `HybridPrekeyPool::from_bytes`
FromBytes(bytes) ==
  LET classical == ClassicalFromBytes(bytes.classical)
  IN  [signed |-> classical.signed, available |-> classical.available, pq |-> bytes.pq]

----
(***************************************************************************)
(* `FfiHybridPrekeyPool`.                                                  *)
(***************************************************************************)
Secrets(p) == {p.signed, p.pq} \cup p.available

Named(b) == {b.signed, b.pq} \cup ({b.one_time} \ {NoKey})

PrekeysInit ==
  /\ pool = NewPool(1)
  /\ minted = PoolSize
  /\ saved = NoPool
  /\ bundles = {} /\ backed = {}
  /\ firsts = <<>> /\ sessions = {}
  /\ uses = [k \in Key |-> 0] /\ revived = [k \in Key |-> 0]
  /\ retired = {} /\ forgotten = {}
  /\ restarts = 0

\* `current_bundle_bytes`
CurrentBundle ==
  LET b == CurrentHybridBundle(pool)
  IN  /\ bundles' = bundles \cup {b}
      /\ backed' = IF saved # NoPool /\ Named(b) \subseteq Secrets(FromBytes(saved))
                   THEN backed \cup {b} ELSE backed
      /\ UNCHANGED <<pool, saved, minted, firsts, sessions, uses, revived,
                     retired, forgotten, restarts>>

\* `FfiHybridBundle::initiate` on a bundle as it came off the mesh.
Initiate(b) ==
  /\ Len(firsts) < MaxInitiations
  /\ Verify(b)
  /\ firsts' = Append(firsts, b)
  /\ UNCHANGED <<pool, saved, minted, bundles, sessions, uses, revived,
                 retired, forgotten, backed, restarts>>

\* `respond` to a first message whose one-time prekey the pool does not have is an
\* error and changes nothing.
Refuses(i) == InitiationMessage(i).one_time \notin pool.available \cup {NoKey}

\* `respond`
Respond(i) ==
  LET m == InitiationMessage(i)
  IN  /\ ~ Refuses(i)
      /\ pool' = IF m.one_time = NoKey THEN pool ELSE Consume(pool, m.one_time)
      /\ uses' = IF m.one_time = NoKey THEN uses ELSE [uses EXCEPT ![m.one_time] = @ + 1]
      /\ sessions' = sessions \cup {<<i, Responded(pool, m)>>}
      /\ UNCHANGED <<saved, minted, bundles, firsts, revived, retired,
                     forgotten, backed, restarts>>

\* Mutant of TopUp: the new batch takes the place of what is left.
TopUpReplaces(n) ==
  /\ minted + n <= MaxKeys
  /\ pool' = [pool EXCEPT !.available = GenerateOneTimePrekeys(minted + 1, n)]
  /\ minted' = minted + n
  /\ UNCHANGED <<saved, bundles, firsts, sessions, uses, revived, retired,
                 forgotten, backed, restarts>>

\* `top_up`.  `needs_top_up` is advice to the app and guards nothing.
TopUp(n) ==
  /\ minted + n <= MaxKeys
  /\ pool' = ToppedUp(pool, minted + 1, n)
  /\ minted' = minted + n
  /\ UNCHANGED <<saved, bundles, firsts, sessions, uses, revived, retired,
                 forgotten, backed, restarts>>

\* `rotate_signed_prekey`
RotateSignedPrekey ==
  /\ minted < MaxKeys
  /\ pool' = WithSignedPrekey(pool, minted + 1)
  /\ minted' = minted + 1
  /\ retired' = retired \cup {pool.signed}
  /\ UNCHANGED <<saved, bundles, firsts, sessions, uses, revived, forgotten,
                 backed, restarts>>

\* `rotate_pq_prekey`
RotatePqPrekey ==
  /\ minted < MaxKeys
  /\ pool' = WithPqPrekey(pool, minted + 1)
  /\ minted' = minted + 1
  /\ retired' = retired \cup {pool.pq}
  /\ UNCHANGED <<saved, bundles, firsts, sessions, uses, revived, forgotten,
                 backed, restarts>>

\* The app persists `to_bytes`.
Save ==
  /\ saved' = ToBytes(pool)
  /\ UNCHANGED <<pool, minted, bundles, firsts, sessions, uses, revived,
                 retired, forgotten, backed, restarts>>

\* The process dies, its sessions with it, and the app starts it again: with
\* `from_bytes` if it has saved a pool, else with `new`.
Restart ==
  /\ restarts < MaxRestarts
  /\ pool' = IF saved = NoPool THEN NewPool(minted + 1) ELSE FromBytes(saved)
  /\ minted' = IF saved = NoPool THEN minted + PoolSize ELSE minted
  /\ revived' = [k \in Key |->
                  IF k \in pool'.available \ pool.available /\ uses[k] > 0
                  THEN revived[k] + 1 ELSE revived[k]]
  /\ forgotten' = forgotten \cup (Secrets(pool) \ Secrets(pool'))
  /\ restarts' = restarts + 1
  /\ UNCHANGED <<saved, bundles, firsts, sessions, uses, retired, backed>>

PrekeysNext ==
  \/ CurrentBundle
  \/ \E b \in bundles : \E arrived \in Parsed(b) : Initiate(arrived)
  \/ \E i \in DOMAIN firsts : Respond(i)
  \/ \E n \in 1 .. MaxKeys : TopUp(n)
  \/ RotateSignedPrekey
  \/ RotatePqPrekey
  \/ Save
  \/ Restart

PrekeysSpec == PrekeysInit /\ [][PrekeysNext]_prekeyVars

----
(***************************************************************************)
(* Properties.                                                             *)
(***************************************************************************)
Pool   == [signed : Key, available : SUBSET Key, pq : Key]
Bytes  == [classical : [signed : Key, secrets : SUBSET Key], pq : Key]
Bundle == [agreement : {LongTerm, Altered}, signed : Key, signed_signature : Key,
           one_time : Key \cup {NoKey, Altered}, pq : Key, pq_signature : Key]

ASSUME NoPoolAssumption == NoPool \notin Bytes

\* Keys are among those generated, and a one-time prekey is nobody's signed or
\* PQ prekey.
PrekeysTypeOK ==
  /\ minted \in Key /\ restarts \in 0 .. MaxRestarts
  /\ pool \in Pool /\ saved \in Bytes \cup {NoPool}
  /\ Secrets(pool) \subseteq 1 .. minted
  /\ pool.signed \notin pool.available /\ pool.pq \notin pool.available
  /\ bundles \subseteq Bundle /\ backed \subseteq bundles
  /\ firsts \in Seq(Bundle) /\ Len(firsts) <= MaxInitiations
  /\ \A s \in sessions : s[1] \in DOMAIN firsts
  /\ uses \in [Key -> Nat] /\ revived \in [Key -> Nat]
  /\ retired \subseteq Key /\ forgotten \subseteq Key

PrekeyEnds ==
  {[role |-> "initiator", owner |-> i, secret |-> Initiated(i, firsts[i]).secret,
    ratchet |-> Initiated(i, firsts[i]).ratchet] : i \in DOMAIN firsts} \cup
  {[role |-> "responder", owner |-> s[1], secret |-> s[2].secret,
    ratchet |-> s[2].ratchet] : s \in sessions}

PrekeyPromise == INSTANCE Pairing WITH ends <- PrekeyEnds

\* The asynchronous setup implements the same promise as the handshake.  To answer
\* a first message again, with the same keys, is to open the same end again; a
\* session answered with other keys than the bundle named has no other end.
PrekeysPair == PrekeyPromise!PairingSpec

\* A one-time prekey answers one first message, and once more for every restart
\* on a copy of the pool that was older than its consumption.  Bundles that name
\* the same one-time prekey may be in any number of hands, and a first message
\* may arrive again at any time (FfiHybridPrekeyPool::respond, PrekeyPool::consume).
AnswersOnce == \A k \in Key : uses[k] <= 1 + revived[k]

\* Whatever the device answered with is the session its initiator holds, secret
\* and ratchet key, unless a prekey named in the bundle was rotated out, or lost
\* in a restart, before the answer, or the bundle's agreement key was damaged on
\* its way.  Then the two secrets differ, and neither call has failed: a bundle
\* whose signed prekey was rotated out carries its own signature and still
\* verifies, though docs/ROUTING-PROTOCOL.md:142-144 has `initiate` return an error
\* (PrekeyBundle::verify_signed_prekey, pqxdh::initiate, pqxdh::respond).
SameSession ==
  \A s \in sessions :
    LET b    == firsts[s[1]]
        mine == Initiated(s[1], b)
    IN  \/ s[2] = mine
        \/ /\ s[2].secret # mine.secret
           /\ {b.signed, b.pq} \cap (retired \cup forgotten) # {} \/ b.agreement = Altered

\* A first message is refused only if its one-time prekey has answered another,
\* was lost in a restart, or was damaged on its way.  And one whose one-time prekey
\* has answered as often as it was there is refused outright: it is not answered
\* with the three terms that are left, as docs/ROUTING-PROTOCOL.md:144-146 has it
\* (FfiHybridPrekeyPool::respond, PrekeyPool::consume).
RefusedFairly ==
  \A i \in DOMAIN firsts :
    LET k == firsts[i].one_time
    IN  /\ Refuses(i) => k = Altered \/ k \in forgotten \/ uses[k] > 0
        /\ k \in Key /\ uses[k] > revived[k] => Refuses(i)

\* A bundle handed out after the app had saved what it names can be answered for
\* good, restarts or not, until its prekeys are rotated out or its one-time prekey
\* is used (FfiHybridPrekeyPool::from_bytes).
SavedBundleAnswerable ==
  \A b \in backed :
    /\ b.signed = pool.signed \/ b.signed \in retired
    /\ b.pq = pool.pq \/ b.pq \in retired
    /\ b.one_time \in pool.available \cup {NoKey} \/ uses[b.one_time] > 0
====
