---- MODULE DtnSimProofs ----
(***************************************************************************)
(* Theorems about the contact windows of the simulation, for any nodes,    *)
(* links, schedules and envelopes.                                         *)
(***************************************************************************)
EXTENDS DtnSim, ContactHistoryProofs

\* The frame n introduces itself to p with.
Greeting(n, p) == Summary(n, p, DOMAIN before[n])

\* What n has and p has not when the window opens.
Gift(n, p) == DOMAIN before[n] \ DOMAIN before[p]

\* The copy of an envelope n pushes to p.
Pushed(n, p, id) == Data(n, p, id, DecrementTtl(before[n][id]), ProofOf[id][0])

Flying == Range(queue)

\* The frames of a window: greetings, and what the other's greeting made a node push.
Spoken(n, p, f) ==
  \/ f = Greeting(n, p)
  \/ /\ Greeting(p, n) \notin Flying
     /\ \E id \in Gift(n, p) : Forwardable(before[n][id]) /\ f = Pushed(n, p, id)

\* In a window with p, n holds copies it had, and copies one hop poorer of what p had.
HoldsOwnOrGiven(n, p) ==
  \A id \in DOMAIN entries[n] :
    \/ id \in DOMAIN before[n] /\ entries[n][id].ttl = before[n][id]
    \/ /\ id \in Gift(p, n) /\ Forwardable(before[p][id]) /\ ~ IsExpired(id, now)
       /\ entries[n][id].ttl = DecrementTtl(before[p][id])

\* What p's greeting, while it flies, will make n push.
Owed(n, p) == IF Greeting(p, n) \in Flying THEN Cardinality(Gift(n, p)) ELSE 0

Alone(n) == told[n] = {} /\ DOMAIN peers[n] = {}

Meets(n, p) ==
  told[n] = {p} /\ DOMAIN peers[n] = {p} /\ peers[n][p].summary_sent

\* The stages of a window, each with what is true of it.
Greets(n, p) ==
  /\ links = {{n, p}}
  /\ iterations = 0
  /\ before = Copies
  /\ Alone(p)
  /\ \/ Alone(n) /\ queue = <<>>
     \/ Meets(n, p) /\ peers[n][p] = NewPeer(TRUE) /\ queue = <<Greeting(n, p)>>

Talks(n, p) ==
  /\ links = {{n, p}}
  /\ Meets(n, p) /\ Meets(p, n)
  /\ \A f \in Flying : Spoken(n, p, f) \/ Spoken(p, n, f)
  /\ HoldsOwnOrGiven(n, p) /\ HoldsOwnOrGiven(p, n)
  /\ iterations + Len(queue) + Owed(n, p) + Owed(p, n) <= 2 + Cardinality(Id)

Leaves(n, p) ==
  /\ links = {}
  /\ queue = <<>>
  /\ Meets(n, p) \/ Alone(n)
  /\ Meets(p, n)
  /\ HoldsOwnOrGiven(n, p) /\ HoldsOwnOrGiven(p, n)

\* The others are apart, and hold what they held.
Apart(m) == Alone(m) /\ Copies[m] = before[m]

InWindowOf(n, p) ==
  /\ <<n, p>> \in Peerings /\ window = <<n, p>>
  /\ \A m \in Node \ {n, p} : Apart(m)
  /\ Greets(n, p) \/ Talks(n, p) \/ Leaves(n, p)

\* The queue and the frames in flight are the same, without repetition.
Flow ==
  /\ queue \in Seq(Flying)
  /\ IsInjective(queue)
  /\ net = SetToBag(Flying)

Recorded ==
  /\ before = [n \in Node |-> before[n]]
  /\ \A n \in Node : DOMAIN before[n] \subseteq Id /\ before[n] \in [DOMAIN before[n] -> Hops]

Untuned ==
  difficulty = [n \in Node |-> 0] /\ rate_limit = [n \in Node |-> DefaultLimit]

BetweenContacts ==
  window = <<>> /\ links = {} /\ queue = <<>> /\ \A n \in Node : Alone(n)

Steady ==
  Flow /\ Recorded /\ Untuned /\ iterations \in Nat /\ ContactConverges

Scheduled == Steady /\ (BetweenContacts \/ \E n, p \in Node : InWindowOf(n, p))

----
(***************************************************************************)
(* With room and without false positives.                                  *)
(***************************************************************************)
\* Every store has room for all, no summary claims too much, and all the envelopes
\* there are fit the rate limits of a new node.
Roomy ==
  /\ Capacity >= Cardinality(Id)
  /\ \A held \in SUBSET Id : FalsePositives[held] = {}
  /\ Cardinality(Id) <= DefaultLimit.envelopes
  /\ \E size \in Nat :
       /\ \A id \in Id : FrameBytes[id] <= size
       /\ Cardinality(Id) * size <= DefaultLimit.bytes

\* What p is to have of n when they part.
Due(n, p) == {id \in Gift(n, p) : Forwardable(before[n][id]) /\ ~ IsExpired(id, now)}

PushesTo(p) == {f \in Flying : f.kind = "data" /\ f.to = p}

Hands(n, p) ==
  /\ DOMAIN before[n] \subseteq DOMAIN entries[n]
  /\ Greeting(p, n) \in Flying \/
     \A id \in Due(n, p) : id \in DOMAIN entries[p] \/ Pushed(n, p, id) \in Flying

\* The traffic p counts for n, and what bounds its bytes.
Counted(p, n) == InWindow(peers[p][n].rate, DefaultLimit)

Budgeted(rate) ==
  \A size \in Nat :
    (\A id \in Id : FrameBytes[id] <= size) => rate.bytes <= rate.envelopes * size

\* It leaves room for all that n may still send.
Spares(n, p) ==
  /\ Counted(p, n).envelopes + Cardinality(PushesTo(p)) + Owed(n, p) <= Cardinality(Id)
  /\ Budgeted(Counted(p, n))

\* What both nodes of a window have handed over, and have left to count.
Handed(n, p) == Hands(n, p) /\ Hands(p, n) /\ Spares(n, p) /\ Spares(p, n)

Handing ==
  \A n, p \in Node :
    InWindowOf(n, p) =>
      \/ Greets(n, p)
      \/ Talks(n, p) /\ Handed(n, p)
      \/ Leaves(n, p) /\ Hands(n, p) /\ Hands(p, n)

----
(***************************************************************************)
(* Sequences without repetition, and bags that are sets.                   *)
(***************************************************************************)
LEMMA PopLast ==
  ASSUME NEW S, NEW q \in Seq(S), IsInjective(q), q # <<>>
  PROVE  /\ Last(q) \in Range(q)
         /\ Front(q) \in Seq(Range(q) \ {Last(q)}) /\ IsInjective(Front(q))
         /\ Range(Front(q)) = Range(q) \ {Last(q)}
         /\ Len(Front(q)) = Len(q) - 1 /\ Len(q) \in Nat \ {0}
<1>1. Len(q) \in Nat \ {0} /\ DOMAIN q = 1..Len(q)
  OBVIOUS
<1>2. /\ Len(Front(q)) = Len(q) - 1 /\ DOMAIN Front(q) = 1..(Len(q) - 1)
      /\ \A i \in 1..(Len(q) - 1) : Front(q)[i] = q[i]
      /\ Front(q) \in Seq(S)
  BY <1>1 DEF Front
<1>3. Last(q) = q[Len(q)] /\ Last(q) \in Range(q)
  BY <1>1 DEF Last, Range
<1>4. IsInjective(Front(q))
  BY <1>1, <1>2 DEF IsInjective
<1>5. Range(Front(q)) = Range(q) \ {Last(q)}
  BY <1>1, <1>2, <1>3 DEF Range, IsInjective
<1>6. Front(q) \in Seq(Range(q) \ {Last(q)})
  <2>1. \A i \in 1..Len(Front(q)) : Front(q)[i] \in Range(q) \ {Last(q)}
    BY <1>2, <1>5 DEF Range
  <2>2. QED
    BY <1>2, <2>1
<1>7. QED
  BY <1>1, <1>2, <1>3, <1>4, <1>5, <1>6

LEMMA SetInOrder ==
  ASSUME NEW S, IsFiniteSet(S), NEW out \in SetToSeqs(S)
  PROVE  out \in Seq(S) /\ IsInjective(out) /\ Range(out) = S /\ Len(out) = Cardinality(S)
<1>1. Cardinality(S) \in Nat
  BY FS_CardinalityType
<1> DEFINE D == 1..Cardinality(S)
<1>2. out \in [D -> S] /\ IsInjective(out)
  BY DEF SetToSeqs, IsInjective
<1>3. out \in Injection(D, S)
  BY <1>2 DEF Injection
<1>4. IsFiniteSet(D) /\ Cardinality(D) = Cardinality(S)
  BY <1>1, FS_Interval
<1>5. out \in Surjection(D, S)
  <2> HIDE DEF D
  <2>1. QED
    BY <1>3, <1>4, FS_Injection
<1>6. Range(out) = S
  BY <1>2, <1>5 DEF Range, Surjection
<1>7. QED
  BY <1>1, <1>2, <1>6

LEMMA JoinedAt ==
  ASSUME NEW A, NEW B, NEW q \in Seq(A), NEW r \in Seq(B), NEW s, s = q \o r
  PROVE  /\ Len(q) \in Nat /\ Len(r) \in Nat
         /\ s \in Seq(A \cup B) /\ Len(s) = Len(q) + Len(r)
         /\ DOMAIN s = 1..(Len(q) + Len(r))
         /\ \A i \in 1..(Len(q) + Len(r)) :
              IF i <= Len(q) THEN i \in DOMAIN q /\ s[i] = q[i]
              ELSE i - Len(q) \in DOMAIN r /\ s[i] = r[i - Len(q)]
<1>1. /\ Len(q) \in Nat /\ Len(r) \in Nat
      /\ DOMAIN q = 1..Len(q) /\ DOMAIN r = 1..Len(r)
  OBVIOUS
<1>2. q \in Seq(A \cup B) /\ r \in Seq(A \cup B)
  OBVIOUS
<1>3. s \in Seq(A \cup B) /\ Len(s) = Len(q) + Len(r)
  BY <1>2
<1>4. /\ DOMAIN s = 1..(Len(q) + Len(r))
      /\ \A i \in 1..(Len(q) + Len(r)) :
           s[i] = IF i <= Len(q) THEN q[i] ELSE r[i - Len(q)]
  BY <1>1, <1>2
<1>5. \A i \in 1..(Len(q) + Len(r)) :
        IF i <= Len(q) THEN i \in DOMAIN q ELSE i - Len(q) \in DOMAIN r
  BY <1>1
<1>6. QED
  BY <1>1, <1>3, <1>4, <1>5

LEMMA JoinedRange ==
  ASSUME NEW A, NEW B, NEW q \in Seq(A), NEW r \in Seq(B)
  PROVE  Range(q \o r) = Range(q) \cup Range(r)
<1> DEFINE s == q \o r
<1>0. s = q \o r /\ DOMAIN q = 1..Len(q) /\ DOMAIN r = 1..Len(r)
  OBVIOUS
<1> HIDE DEF s
<1>1. /\ Len(q) \in Nat /\ Len(r) \in Nat
      /\ s \in Seq(A \cup B) /\ Len(s) = Len(q) + Len(r)
      /\ DOMAIN s = 1..(Len(q) + Len(r))
      /\ \A i \in 1..(Len(q) + Len(r)) :
           IF i <= Len(q) THEN i \in DOMAIN q /\ s[i] = q[i]
           ELSE i - Len(q) \in DOMAIN r /\ s[i] = r[i - Len(q)]
  BY <1>0, JoinedAt
<1>2. Range(s) \subseteq Range(q) \cup Range(r)
  BY <1>1 DEF Range
<1>3. ASSUME NEW i \in DOMAIN q PROVE q[i] \in Range(s)
  BY <1>0, <1>1 DEF Range
<1>4. ASSUME NEW i \in DOMAIN r PROVE r[i] \in Range(s)
  <2>1. i + Len(q) \in 1..(Len(q) + Len(r)) /\ i + Len(q) > Len(q) /\ i + Len(q) - Len(q) = i
    BY <1>0, <1>1
  <2>2. s[i + Len(q)] = r[i]
    BY <1>1, <2>1
  <2>3. QED
    BY <1>1, <2>1, <2>2 DEF Range
<1>5. Range(s) = Range(q) \cup Range(r)
  BY <1>2, <1>3, <1>4 DEF Range
<1>6. QED
  BY <1>5 DEF s

LEMMA JoinedInjective ==
  ASSUME NEW A, NEW B, NEW q \in Seq(A), NEW r \in Seq(B),
         IsInjective(q), IsInjective(r), \A x \in Range(q) : x \notin Range(r)
  PROVE  IsInjective(q \o r)
<1> DEFINE s == q \o r
<1>0. s = q \o r
  OBVIOUS
<1> HIDE DEF s
<1>1. /\ Len(q) \in Nat /\ Len(r) \in Nat
      /\ DOMAIN s = 1..(Len(q) + Len(r))
      /\ \A i \in 1..(Len(q) + Len(r)) :
           IF i <= Len(q) THEN i \in DOMAIN q /\ s[i] = q[i]
           ELSE i - Len(q) \in DOMAIN r /\ s[i] = r[i - Len(q)]
  BY <1>0, JoinedAt
<1>2. \A i \in DOMAIN q, j \in DOMAIN r : q[i] # r[j]
  BY DEF Range
<1>3. ASSUME NEW i \in DOMAIN s, NEW j \in DOMAIN s, s[i] = s[j]
      PROVE  i = j
  <2>1. i \in 1..(Len(q) + Len(r)) /\ j \in 1..(Len(q) + Len(r))
    BY <1>1
  <2>2. CASE i <= Len(q) /\ j <= Len(q)
    BY <1>1, <1>3, <2>1, <2>2 DEF IsInjective
  <2>3. CASE ~ (i <= Len(q)) /\ ~ (j <= Len(q))
    <3>1. i - Len(q) = j - Len(q)
      BY <1>1, <1>3, <2>1, <2>3 DEF IsInjective
    <3>2. QED
      BY <1>1, <2>1, <3>1
  <2>4. CASE (i <= Len(q)) # (j <= Len(q))
    BY <1>1, <1>2, <1>3, <2>1, <2>4
  <2>5. QED
    BY <2>2, <2>3, <2>4
<1>4. IsInjective(s)
  BY <1>3 DEF IsInjective
<1>5. QED
  BY <1>4 DEF s

\* The last of q is taken off, and the members of `sent` are put on.
LEMMA TurnOfLoop ==
  ASSUME NEW S, NEW q \in Seq(S), IsInjective(q), q # <<>>,
         NEW sent, IsFiniteSet(sent), sent \cap Range(q) = {}, NEW out \in SetToSeqs(sent),
         NEW r, r = Front(q) \o out
  PROVE  /\ r \in Seq((Range(q) \ {Last(q)}) \cup sent) /\ IsInjective(r)
         /\ Range(r) = (Range(q) \ {Last(q)}) \cup sent
         /\ Len(r) = Len(q) - 1 + Cardinality(sent)
<1> DEFINE A == Range(q) \ {Last(q)}
           k == Front(q)
<1>1. k \in Seq(A) /\ IsInjective(k) /\ Range(k) = A /\ Len(k) = Len(q) - 1 /\ Len(q) \in Nat
  BY PopLast
<1>2. out \in Seq(sent) /\ IsInjective(out) /\ Range(out) = sent /\ Len(out) = Cardinality(sent)
  BY SetInOrder
<1>3. \A x \in Range(k) : x \notin Range(out)
  BY <1>1, <1>2
<1>4. r = k \o out
  OBVIOUS
<1> HIDE DEF A, k
<1>5. k \o out \in Seq(A \cup sent) /\ Len(k \o out) = Len(k) + Len(out)
  <2>1. k \in Seq(A \cup sent) /\ out \in Seq(A \cup sent)
    BY <1>1, <1>2
  <2>2. QED
    BY <2>1
<1>6. Range(k \o out) = Range(k) \cup Range(out)
  BY <1>1, <1>2, JoinedRange
<1>7. IsInjective(k \o out)
  BY <1>1, <1>2, <1>3, JoinedInjective
<1>8. QED
  BY <1>1, <1>2, <1>4, <1>5, <1>6, <1>7 DEF A

LEMMA BagLess ==
  ASSUME NEW F, NEW f \in F
  PROVE  SetToBag(F) (-) SetToBag({f}) = SetToBag(F \ {f})
  BY DEF (-), SetToBag

LEMMA BagMore ==
  ASSUME NEW F, NEW S, S \cap F = {}
  PROVE  SetToBag(F) (+) SetToBag(S) = SetToBag(F \cup S)
  BY DEF (+), SetToBag

LEMMA BagRest ==
  ASSUME NEW F, NEW S, S \cap F = {}
  PROVE  BagToSet(SetToBag(F \cup S) (-) SetToBag(F)) = S
  BY DEF (-), SetToBag, BagToSet

LEMMA Emptied ==
  /\ SetToBag({}) = EmptyBag
  /\ \A S : SetToBag(S) (+) SetToBag({}) = SetToBag(S)
  BY DEF EmptyBag, SetToBag, (+)

LEMMA NothingFlies == queue = <<>> => Flying = {}
  BY DEF Flying, Range

LEMMA FlowEmpty ==
  ASSUME queue = <<>>, net = EmptyBag
  PROVE  Flow
<1>1. Flying = {}
  BY NothingFlies
<1>2. <<>> \in Seq({}) /\ IsInjective(<<>>)
  BY DEF IsInjective
<1>3. QED
  BY <1>1, <1>2, Emptied DEF Flow

LEMMA FlowUnchanged == Flow /\ UNCHANGED <<queue, net>> => Flow'
  BY DEF Flow, Flying

----
(***************************************************************************)
(* What the windows know of the stores.                                    *)
(***************************************************************************)
LEMMA CopiesAre ==
  ASSUME Sound
  PROVE  /\ Copies = [n \in Node |-> Copies[n]]
         /\ \A n \in Node :
              /\ DOMAIN Copies[n] = DOMAIN entries[n] /\ DOMAIN entries[n] \subseteq Id
              /\ \A id \in DOMAIN entries[n] : Copies[n][id] = entries[n][id].ttl
              /\ Copies[n] \in [DOMAIN Copies[n] -> Hops]
<1>1. \A n \in Node : DOMAIN entries[n] \subseteq Id
  BY HeldIds
<1>2. \A n \in Node : \A id \in DOMAIN entries[n] : entries[n][id].ttl \in Hops
  BY DEF Sound, Stores, StoreOK, Index, Entry
<1>3. QED
  BY <1>1, <1>2 DEF Copies

LEMMA RecordedNow == Sound /\ before = Copies => Recorded
  BY CopiesAre DEF Recorded

LEMMA RecordedUnchanged == Recorded /\ UNCHANGED before => Recorded'
  BY DEF Recorded

LEMMA Gifts ==
  ASSUME Recorded, NEW n \in Node, NEW p \in Node
  PROVE  /\ Gift(n, p) \subseteq Id /\ IsFiniteSet(Gift(n, p))
         /\ Cardinality(Gift(n, p)) \in Nat /\ Cardinality(Id) \in Nat
         /\ Cardinality(Gift(n, p)) <= Cardinality(Id)
         /\ Cardinality(Gift(n, p)) + Cardinality(Gift(p, n)) <= Cardinality(Id)
         /\ Owed(n, p) \in Nat /\ Owed(n, p) <= Cardinality(Gift(n, p))
<1>1. Gift(n, p) \subseteq Id /\ Gift(p, n) \subseteq Id
  BY DEF Recorded, Gift
<1>2. /\ IsFiniteSet(Gift(n, p)) /\ IsFiniteSet(Gift(p, n))
      /\ Cardinality(Gift(n, p)) <= Cardinality(Id)
  BY <1>1, IdAssumption, FS_Subset
<1>3. /\ Cardinality(Gift(n, p)) \in Nat /\ Cardinality(Gift(p, n)) \in Nat
      /\ Cardinality(Id) \in Nat
  BY <1>2, IdAssumption, FS_CardinalityType
<1>4. Gift(n, p) \cap Gift(p, n) = {}
  BY DEF Gift
<1>5. Cardinality(Gift(n, p) \cup Gift(p, n)) =
        Cardinality(Gift(n, p)) + Cardinality(Gift(p, n))
  <2> DEFINE A == Gift(n, p)
             B == Gift(p, n)
  <2>1. /\ Cardinality(A) \in Nat /\ Cardinality(B) \in Nat
        /\ IsFiniteSet(A) /\ IsFiniteSet(B) /\ A \cap B = {}
    BY <1>2, <1>3, <1>4
  <2> HIDE DEF A, B
  <2>2. Cardinality(A \cup B) = Cardinality(A) + Cardinality(B) - Cardinality(A \cap B)
    BY <2>1, FS_Union
  <2>3. Cardinality({}) = 0
    BY FS_EmptySet
  <2>4. Cardinality(A \cap B) = 0
    BY <2>1, <2>3
  <2>5. Cardinality(A \cup B) = Cardinality(A) + Cardinality(B)
    BY <2>1, <2>2, <2>4
  <2>6. QED
    BY <2>5 DEF A, B
<1>6. Cardinality(Gift(n, p) \cup Gift(p, n)) <= Cardinality(Id)
  BY <1>1, IdAssumption, FS_Subset
<1>7. QED
  BY <1>1, <1>2, <1>3, <1>5, <1>6 DEF Owed

----
(***************************************************************************)
(* The loop: a frame is popped, and what comes of it is pushed.            *)
(***************************************************************************)
LEMMA FlowDrains ==
  ASSUME Flow, queue # <<>>, NEW sent, IsFiniteSet(sent), sent \cap Flying = {},
         Answered(Last(queue), sent),
         NEW out \in SetToSeqs(BagToSet(net' (-) NetWithout(Last(queue)))),
         queue' = Front(queue) \o out
  PROVE  /\ Flow'
         /\ Flying' = (Flying \ {Last(queue)}) \cup sent
         /\ Last(queue) \in Flying
         /\ Len(queue) \in Nat
         /\ Len(queue') = Len(queue) - 1 + Cardinality(sent)
<1> DEFINE f == Last(queue)
           F == Flying
<1>1. /\ f \in F /\ Len(queue) \in Nat
      /\ Front(queue) \in Seq(F \ {f}) /\ IsInjective(Front(queue))
      /\ Range(Front(queue)) = F \ {f} /\ Len(Front(queue)) = Len(queue) - 1
  BY PopLast DEF Flow, Flying
<1>2. NetWithout(f) = SetToBag(F \ {f})
  <2>1. net = SetToBag(F) /\ f \in F
    BY <1>1 DEF Flow
  <2> HIDE DEF f, F
  <2>2. SetToBag(F) (-) SetToBag({f}) = SetToBag(F \ {f})
    BY <2>1, BagLess
  <2>3. QED
    BY <2>1, <2>2 DEF NetWithout
<1>3. /\ net' = SetToBag((F \ {f}) \cup sent)
      /\ BagToSet(net' (-) NetWithout(f)) = sent
  <2>1. f \in F /\ sent \cap F = {} /\ Answered(f, sent)
    BY <1>1
  <2> HIDE DEF f, F
  <2>2. /\ SetToBag(F \ {f}) (+) SetToBag(sent) = SetToBag((F \ {f}) \cup sent)
        /\ BagToSet(SetToBag((F \ {f}) \cup sent) (-) SetToBag(F \ {f})) = sent
    <3>1. sent \cap (F \ {f}) = {}
      BY <2>1
    <3>2. QED
      BY <3>1, BagMore, BagRest
  <2>3. net' = SetToBag((F \ {f}) \cup sent)
    BY <1>2, <2>1, <2>2, Emptied DEF Answered
  <2>4. QED
    BY <1>2, <2>2, <2>3
<1>4. out \in SetToSeqs(sent)
  BY <1>3
<1>5. /\ queue' \in Seq((F \ {f}) \cup sent) /\ IsInjective(queue')
      /\ Range(queue') = (F \ {f}) \cup sent
      /\ Len(queue') = Len(queue) - 1 + Cardinality(sent)
  BY <1>4, TurnOfLoop DEF Flow, Flying
<1>6. Flying' = (F \ {f}) \cup sent
  BY <1>5 DEF Flying
<1>7. Flow'
  BY <1>3, <1>5, <1>6 DEF Flow
<1>8. QED
  BY <1>1, <1>5, <1>6, <1>7

LEMMA FlowAppends ==
  ASSUME Flow, NEW f, f \notin Flying, queue' = Append(queue, f), net' = NetWith({f})
  PROVE  Flow' /\ Flying' = Flying \cup {f}
<1> DEFINE q == queue
           A == Flying
<1>1. q \in Seq(A) /\ IsInjective(q) /\ Range(q) = A /\ f \notin A /\ net = SetToBag(A)
  BY DEF Flow, Flying
<1>2. queue' = Append(q, f) /\ net' = net (+) SetToBag({f})
  BY DEF NetWith
<1> HIDE DEF q, A
<1>3. <<f>> \in Seq({f}) /\ IsInjective(<<f>>) /\ Range(<<f>>) = {f}
  BY DEF IsInjective, Range
<1>4. /\ q \o <<f>> \in Seq(A \cup {f}) /\ IsInjective(q \o <<f>>)
      /\ Range(q \o <<f>>) = A \cup {f}
  <2> DEFINE r == <<f>>
  <2>1. /\ \A x \in Range(q) : x \notin Range(r)
        /\ r \in Seq({f}) /\ IsInjective(r) /\ Range(r) = {f}
    BY <1>1, <1>3
  <2> HIDE DEF r
  <2>2. q \o r \in Seq(A \cup {f})
    BY <1>1, <2>1, JoinedAt
  <2>3. Range(q \o r) = Range(q) \cup Range(r)
    BY <1>1, <2>1, JoinedRange
  <2>4. IsInjective(q \o r)
    BY <1>1, <2>1, JoinedInjective
  <2>5. QED
    BY <1>1, <2>1, <2>2, <2>3, <2>4 DEF r
<1>5. queue' = q \o <<f>>
  BY <1>1, <1>2
<1>6. net' = SetToBag(A \cup {f})
  <2>1. {f} \cap A = {}
    BY <1>1
  <2>2. QED
    BY <1>1, <1>2, <2>1, BagMore
<1>7. Flying' = A \cup {f}
  BY <1>4, <1>5 DEF Flying
<1>8. QED
  BY <1>4, <1>5, <1>6, <1>7 DEF Flow, A

----
(***************************************************************************)
(* One turn of the loop: n reads a frame f of p.                           *)
(***************************************************************************)
\* What n hands to the transport, and what it changes and leaves alone.
Handled(n, p, f, sent) ==
  /\ Answered(f, sent)
  /\ UNCHANGED <<links, told, now, settings>>
  /\ \A m \in Node \ {n} : entries'[m] = entries[m] /\ peers'[m] = peers[m]
  /\ DOMAIN peers'[n] = {p} /\ peers'[n][p].summary_sent

\* The frames are the pushes that p's greeting asks for, and only it does.
Repays(n, p, f, sent) ==
  /\ IsFiniteSet(sent) /\ sent \cap Flying = {}
  /\ \A g \in sent : \E id \in Gift(n, p) : Forwardable(before[n][id]) /\ g = Pushed(n, p, id)
  /\ Cardinality(sent) \in Nat
  /\ \/ sent = {}
     \/ f = Greeting(p, n) /\ Cardinality(sent) <= Cardinality(Gift(n, p))

LEMMA TalkSymmetric ==
  ASSUME Recorded, NEW n \in Node, NEW p \in Node, iterations \in Nat, Len(queue) \in Nat,
         Talks(n, p)
  PROVE  Talks(p, n)
<1>1. Owed(n, p) \in Nat /\ Owed(p, n) \in Nat
  BY Gifts
<1>2. {n, p} = {p, n}
  OBVIOUS
<1>3. QED
  BY <1>1, <1>2 DEF Talks

LEMMA FramesOfP ==
  ASSUME NEW n, NEW p, n # p, Talks(n, p), NEW f \in Flying, f.from = p
  PROVE  /\ Spoken(p, n, f) /\ f.to = n
         /\ f.kind = "summary" <=> f = Greeting(p, n)
<1>1. ~ Spoken(n, p, f)
  BY DEF Spoken, Greeting, Pushed, Summary, Data
<1>2. Spoken(p, n, f)
  BY <1>1 DEF Talks
<1>3. QED
  BY <1>2 DEF Spoken, Greeting, Pushed, Summary, Data

LEMMA TurnKeeps ==
  ASSUME Recorded, NEW n \in Node, NEW p \in Node, n # p, Talks(n, p),
         iterations \in Nat, Len(queue) \in Nat,
         NEW f \in Flying, f.from = p, NEW sent, Handled(n, p, f, sent), Repays(n, p, f, sent),
         HoldsOwnOrGiven(n, p)', UNCHANGED before,
         Flying' = (Flying \ {f}) \cup sent,
         iterations' = iterations + 1,
         Len(queue') = Len(queue) - 1 + Cardinality(sent)
  PROVE  Talks(n, p)' /\ Talks(p, n)' /\ iterations' <= 2 + Cardinality(Id)
<1>1. \A g \in sent : g.kind = "data"
  BY DEF Repays, Pushed, Data
<1>2. Greeting(n, p).kind = "summary" /\ Greeting(p, n).kind = "summary"
  BY DEF Greeting, Summary
<1>3. /\ Greeting(n, p)' = Greeting(n, p) /\ Greeting(p, n)' = Greeting(p, n)
      /\ Gift(n, p)' = Gift(n, p) /\ Gift(p, n)' = Gift(p, n)
  BY DEF Greeting, Gift
<1>4. Greeting(n, p) \in Flying' => Greeting(n, p) \in Flying
  BY <1>1, <1>2
<1>5. Greeting(p, n) \in Flying' => Greeting(p, n) \in Flying
  BY <1>1, <1>2
<1>6. \A g \in Flying' : Spoken(n, p, g)' \/ Spoken(p, n, g)'
  <2>1. TAKE g \in Flying'
  <2>2. CASE g \in sent
    <3>1. PICK id \in Gift(n, p) : Forwardable(before[n][id]) /\ g = Pushed(n, p, id)
      BY <2>2 DEF Repays
    <3>2. Greeting(p, n) \notin Flying'
      <4>1. f = Greeting(p, n)
        BY <2>2 DEF Repays
      <4>2. QED
        BY <1>1, <1>2, <4>1
    <3>3. QED
      BY <1>3, <3>1, <3>2 DEF Spoken, Pushed
  <2>3. CASE g \in Flying
    <3>1. Spoken(n, p, g) => Spoken(n, p, g)'
      BY <1>3, <1>5 DEF Spoken, Pushed
    <3>2. Spoken(p, n, g) => Spoken(p, n, g)'
      BY <1>3, <1>4 DEF Spoken, Pushed
    <3>3. QED
      BY <2>3, <3>1, <3>2 DEF Talks
  <2>4. QED
    BY <2>2, <2>3
<1>7. HoldsOwnOrGiven(p, n)'
  BY <1>3 DEF Talks, HoldsOwnOrGiven, Handled
<1>8. Cardinality(sent) + Owed(n, p)' <= Owed(n, p) /\ Owed(n, p)' \in Nat
  <2>1. Cardinality(Gift(n, p)) \in Nat /\ Cardinality(sent) \in Nat
    BY Gifts DEF Repays
  <2>2. CASE sent = {}
    <3>1. Cardinality(sent) = 0
      BY <2>2, FS_EmptySet
    <3>2. QED
      BY <1>3, <1>5, <2>1, <3>1 DEF Owed
  <2>3. CASE f = Greeting(p, n) /\ Cardinality(sent) <= Cardinality(Gift(n, p))
    <3>1. Greeting(p, n) \notin Flying'
      BY <1>1, <1>2, <2>3
    <3>2. QED
      BY <1>3, <2>1, <2>3, <3>1 DEF Owed
  <2>4. QED
    BY <2>2, <2>3 DEF Repays
<1>9. Owed(p, n)' <= Owed(p, n) /\ Owed(p, n)' \in Nat
  BY <1>3, <1>4, Gifts DEF Owed
<1>10. /\ iterations' + Len(queue') + Owed(n, p)' + Owed(p, n)' <= 2 + Cardinality(Id)
       /\ iterations' + Len(queue') + Owed(p, n)' + Owed(n, p)' <= 2 + Cardinality(Id)
       /\ iterations' <= 2 + Cardinality(Id)
  <2>1. iterations + Len(queue) + Owed(n, p) + Owed(p, n) <= 2 + Cardinality(Id)
    BY DEF Talks
  <2>2. /\ Owed(n, p) \in Nat /\ Owed(p, n) \in Nat /\ Cardinality(sent) \in Nat
        /\ Cardinality(Id) \in Nat
    BY Gifts DEF Repays
  <2>3. Len(queue) # 0
    BY DEF Flying, Range
  <2> DEFINE i == iterations
             l == Len(queue)
             c == Cardinality(Id)
             x == Owed(n, p)
             y == Owed(p, n)
             k == Cardinality(sent)
             x2 == Owed(n, p)'
             y2 == Owed(p, n)'
             l2 == Len(queue')
  <2>4. /\ i \in Nat /\ l \in Nat /\ l # 0 /\ c \in Nat /\ x \in Nat /\ y \in Nat /\ k \in Nat
        /\ x2 \in Nat /\ y2 \in Nat /\ i + l + x + y <= 2 + c
        /\ k + x2 <= x /\ y2 <= y /\ l2 = l - 1 + k /\ iterations' = i + 1
    BY <1>8, <1>9, <2>1, <2>2, <2>3
  <2> HIDE DEF i, l, c, x, y, k, x2, y2, l2
  <2>5. /\ i + 1 + l2 + x2 + y2 <= 2 + c /\ i + 1 + l2 + y2 + x2 <= 2 + c
        /\ i + 1 <= 2 + c
    BY <2>4
  <2>6. QED
    BY <2>4, <2>5 DEF i, l, c, x, y, k, x2, y2, l2
<1>11. Meets(n, p)' /\ Meets(p, n)' /\ links' = {{n, p}} /\ {p, n} = {n, p}
  BY DEF Talks, Meets, Handled
<1>12. QED
  BY <1>6, <1>7, <1>10, <1>11 DEF Talks

\* What p's summary does not claim, n has of its own.
LEMMA PushesAreGifts ==
  ASSUME Untuned, NEW n \in Node, NEW p \in Node, HoldsOwnOrGiven(n, p),
         NEW ids, DOMAIN before[p] \subseteq ids
  PROVE  \A g \in Pushes(n, p, ids) :
           \E id \in Gift(n, p) :
             /\ id \in DOMAIN entries[n] /\ id \notin ids
             /\ Forwardable(before[n][id]) /\ g = Pushed(n, p, id)
<1>1. ASSUME NEW id \in DOMAIN entries[n] \ ids
      PROVE  id \in Gift(n, p) /\ entries[n][id].ttl = before[n][id]
  BY <1>1 DEF HoldsOwnOrGiven, Gift
<1>2. difficulty[n] = 0
  BY DEF Untuned
<1>3. QED
  BY <1>1, <1>2 DEF Pushes, MissingFromBloom, Pushed

LEMMA PushesCounted ==
  ASSUME Recorded, NEW n \in Node, NEW p \in Node, NEW sent,
         \A g \in sent : \E id \in Gift(n, p) : g = Pushed(n, p, id)
  PROVE  /\ IsFiniteSet(sent) /\ Cardinality(sent) \in Nat
         /\ Cardinality(sent) <= Cardinality(Gift(n, p))
<1> DEFINE idOf == [g \in sent |-> g.id]
<1>1. \A g \in sent : g.id \in Gift(n, p) /\ g = Pushed(n, p, g.id)
  BY DEF Pushed, Data
<1>2. idOf \in Injection(sent, Gift(n, p))
  BY <1>1 DEF Injection, IsInjective
<1>3. IsFiniteSet(Gift(n, p))
  BY Gifts
<1> HIDE DEF idOf
<1>4. IsFiniteSet(sent) /\ Cardinality(sent) <= Cardinality(Gift(n, p))
  BY <1>2, <1>3, FS_Injection
<1>5. QED
  BY <1>4, FS_CardinalityType

LEMMA SummaryTurn ==
  ASSUME Sound, Untuned, Recorded, NEW n, NEW p, <<n, p>> \in Peerings, Talks(n, p),
         NEW f \in Flying, f.from = p, OnSummary(f)
  PROVE  /\ f = Greeting(p, n)
         /\ \E sent : /\ sent = Pushes(n, p, SummaryIds(DOMAIN before[p]))
                      /\ Handled(n, p, f, sent) /\ Repays(n, p, f, sent)
         /\ UNCHANGED entries
         /\ peers'[n][p].rate = peers[n][p].rate
<1>0. n \in Node /\ p \in Node /\ n # p /\ Contacts
  BY PeeringsSymmetric, EndsDiffer DEF Sound
<1>1. f = Greeting(p, n) /\ f.to = n
  BY <1>0, FramesOfP DEF OnSummary
<1> DEFINE ids == SummaryIds(DOMAIN before[p])
           pushes == Pushes(n, p, ids)
<1>2. f.ids = ids /\ DOMAIN before[p] \subseteq ids
  BY <1>1 DEF Greeting, Summary, SummaryIds
<1>3. Replies(n, p) = {}
  BY DEF Talks, Meets, Replies, PeerOrNew
<1>4. PICK sent : Sent(pushes, sent) /\ net' = NetWithout(f) (+) SetToBag(sent)
  BY <1>1, <1>2, <1>3 DEF OnSummary
<1>5. \A g \in pushes : g.from = n /\ g.to = p
  BY AnswersFrom
<1>6. sent = pushes
  <2>1. {n, p} \in links
    BY DEF Talks
  <2> HIDE DEF pushes
  <2>2. QED
    BY <1>4, <1>5, <2>1, PushesOut
<1>7. \A g \in pushes : \E id \in Gift(n, p) : Forwardable(before[n][id]) /\ g = Pushed(n, p, id)
  <2>1. HoldsOwnOrGiven(n, p)
    BY DEF Talks
  <2> HIDE DEF ids
  <2>2. QED
    BY <1>0, <1>2, <2>1, PushesAreGifts
<1> HIDE DEF pushes
<1>8. /\ IsFiniteSet(sent) /\ Cardinality(sent) \in Nat
      /\ Cardinality(sent) <= Cardinality(Gift(n, p))
  BY <1>0, <1>6, <1>7, PushesCounted
<1>9. sent \cap Flying = {}
  <2>1. ASSUME NEW g \in sent, g \in Flying
        PROVE  FALSE
    <3>1. g.kind = "data" /\ g.from = n /\ g.to = p
      BY <1>6, <1>7, <2>1 DEF Pushed, Data
    <3>2. ~ Spoken(p, n, g)
      BY <1>0, <3>1 DEF Spoken, Greeting, Summary, Pushed, Data
    <3>3. ~ Spoken(n, p, g)
      BY <1>1, <3>1 DEF Spoken, Greeting, Summary
    <3>4. QED
      BY <2>1, <3>2, <3>3 DEF Talks
  <2>2. QED
    BY <2>1
<1>10. Repays(n, p, f, sent)
  BY <1>1, <1>6, <1>7, <1>8, <1>9 DEF Repays
<1>11. /\ DOMAIN peers'[n] = {p} /\ peers'[n][p].summary_sent
       /\ peers'[n][p].rate = peers[n][p].rate
       /\ \A m \in Node \ {n} : peers'[m] = peers[m]
  <2> DEFINE state == [PeerOrNew(n, p) EXCEPT !.summary_sent = TRUE]
  <2>1. Register(n, p, state)
    BY <1>1 DEF OnSummary, Greeting, Summary
  <2>2. peers' = [peers EXCEPT ![n] = With(@, p, state)] /\ DOMAIN peers[n] = {p}
    BY <2>1 DEF Register, Talks, Meets
  <2>3. state.summary_sent /\ state.rate = peers[n][p].rate
    <3>1. PeerOrNew(n, p) = peers[n][p] /\ PeerOrNew(n, p) \in PeerState
      BY <1>0, <2>2, PeerOrNewState DEF PeerOrNew
    <3>2. QED
      BY <3>1 DEF PeerState
  <2> HIDE DEF state
  <2>4. QED
    BY <1>0, <2>2, <2>3 DEF Contacts, With
<1>12. UNCHANGED <<links, told, now, settings, entries>>
  BY DEF OnSummary, transport, stores
<1>13. Handled(n, p, f, sent)
  BY <1>4, <1>11, <1>12 DEF Handled, Answered
<1>14. QED
  BY <1>1, <1>6, <1>10, <1>11, <1>12, <1>13 DEF pushes

\* What n does with an envelope of p: it stores it, or it does not.
LEMMA DataTurn ==
  ASSUME Sound, Recorded, NEW n, NEW p, <<n, p>> \in Peerings, Talks(n, p),
         NEW f \in Flying, f.from = p, OnWeakProof(f) \/ OnOverBudget(f) \/ OnData(f),
         UNCHANGED before
  PROVE  /\ \E id \in Gift(p, n) : Forwardable(before[p][id]) /\ f = Pushed(p, n, id)
         /\ Handled(n, p, f, {}) /\ Repays(n, p, f, {})
         /\ HoldsOwnOrGiven(n, p)'
<1>0. n \in Node /\ p \in Node /\ n # p /\ Contacts
  BY PeeringsSymmetric, EndsDiffer DEF Sound
<1>1. f.kind = "data" /\ f.to = n
  BY <1>0, FramesOfP DEF OnWeakProof, OnOverBudget, OnData
<1>2. PICK id \in Gift(p, n) : Forwardable(before[p][id]) /\ f = Pushed(p, n, id)
  <2>1. Spoken(p, n, f) /\ Greeting(p, n).kind = "summary"
    BY <1>0, FramesOfP DEF Greeting, Summary
  <2>2. QED
    BY <1>1, <2>1 DEF Spoken
<1>3. Repays(n, p, f, {})
  BY FS_EmptySet DEF Repays
<1>4. /\ DOMAIN peers'[n] = {p} /\ peers'[n][p].summary_sent
      /\ \A m \in Node \ {n} : peers'[m] = peers[m]
  <2>0. /\ DOMAIN peers[n] = {p} /\ peers[n][p].summary_sent
        /\ PeerOrNew(n, p) = peers[n][p] /\ peers[n][p] \in PeerState
    <3>1. DOMAIN peers[n] = {p} /\ peers[n][p].summary_sent /\ PeerOrNew(n, p) = peers[n][p]
      BY DEF Talks, Meets, PeerOrNew
    <3>2. QED
      BY <1>0, <3>1, PeerOrNewState
  <2>1. CASE UNCHANGED peers
    BY <2>0, <2>1
  <2>2. CASE \E rate : Register(n, p, [PeerOrNew(n, p) EXCEPT !.rate = rate])
    <3>1. PICK rate : Register(n, p, [PeerOrNew(n, p) EXCEPT !.rate = rate])
      BY <2>2
    <3> DEFINE state == [PeerOrNew(n, p) EXCEPT !.rate = rate]
    <3>2. peers' = [peers EXCEPT ![n] = With(@, p, state)]
      BY <3>1 DEF Register
    <3>3. state.summary_sent
      BY <2>0 DEF PeerState
    <3> HIDE DEF state
    <3>4. QED
      BY <1>0, <2>0, <3>2, <3>3 DEF Contacts, With
  <2>3. QED
    <3>1. f.from = p /\ f.to = n
      BY <1>1
    <3>2. QED
      BY <2>1, <2>2, <3>1 DEF OnWeakProof, OnOverBudget, OnData
<1>5. CASE UNCHANGED stores /\ net' = NetWithout(f) /\ UNCHANGED <<settings, now, transport>>
  <2>1. UNCHANGED <<entries, links, told, now, settings>>
    BY <1>5 DEF stores, transport
  <2>2. Handled(n, p, f, {})
    BY <1>4, <1>5, <2>1 DEF Handled, Answered
  <2>3. HoldsOwnOrGiven(n, p)'
    BY <2>1 DEF Talks, HoldsOwnOrGiven, Gift
  <2>4. QED
    BY <1>2, <1>3, <2>2, <2>3
<1>6. CASE /\ Takes(n, f.id, f.ttl) /\ Store(n, f.id, f.ttl)
           /\ \E sent \in SUBSET Relays(n, f.id, f.ttl, f.proof, DOMAIN peers[n] \ {p}) :
                net' = NetWithout(f) (+) SetToBag(sent)
           /\ UNCHANGED <<settings, now, transport>>
  <2>1. Relays(n, f.id, f.ttl, f.proof, DOMAIN peers[n] \ {p}) = {}
    BY DEF Relays, Talks, Meets
  <2>2. Answered(f, {})
    BY <1>6, <2>1 DEF Answered
  <2>3. /\ ~ IsExpired(f.id, now)
        /\ entries'[n][f.id].ttl = f.ttl
        /\ \A x \in DOMAIN entries'[n] \ {f.id} :
             x \in DOMAIN entries[n] /\ entries'[n][x] = entries[n][x]
        /\ \A m \in Node \ {n} : entries'[m] = entries[m]
    <3> DEFINE i == f.id
               ttl == f.ttl
    <3>1. Takes(n, i, ttl) /\ Store(n, i, ttl)
      BY <1>6
    <3> HIDE DEF i, ttl
    <3>2. /\ ~ IsExpired(i, now)
          /\ entries'[n][i].ttl = ttl
          /\ \A x \in DOMAIN entries'[n] \ {i} :
               x \in DOMAIN entries[n] /\ entries'[n][x] = entries[n][x]
          /\ \A m \in Node \ {n} : entries'[m] = entries[m]
      BY <1>0, <3>1, StoreShape
    <3>3. QED
      BY <3>2 DEF i, ttl
  <2>4. f.id = id /\ f.ttl = DecrementTtl(before[p][id])
    BY <1>2 DEF Pushed, Data
  <2>5. HoldsOwnOrGiven(n, p)'
    <3>1. UNCHANGED now
      BY <1>6
    <3>2. HoldsOwnOrGiven(n, p)
      BY DEF Talks
    <3>3. QED
      BY <1>2, <2>3, <2>4, <3>1, <3>2 DEF HoldsOwnOrGiven, Gift
  <2>6. Handled(n, p, f, {})
    BY <1>4, <1>6, <2>2, <2>3 DEF Handled, transport
  <2>7. QED
    BY <1>2, <1>3, <2>5, <2>6
<1>7. QED
  BY <1>1, <1>5, <1>6 DEF OnWeakProof, OnOverBudget, OnData, stores

----
(***************************************************************************)
(* The steps of a window.                                                  *)
(***************************************************************************)
\* Which is the sender of a frame is a matter of naming.
LEMMA DrainTalks ==
  ASSUME Sound, Flow, Recorded, Untuned, NEW n, NEW p, <<n, p>> \in Peerings, Talks(n, p),
         iterations \in Nat, queue # <<>>, Last(queue).from = p, OnFrame(Last(queue)),
         \E out \in SetToSeqs(BagToSet(net' (-) NetWithout(Last(queue)))) :
           queue' = Front(queue) \o out,
         iterations' = iterations + 1, UNCHANGED before
  PROVE  /\ Flow' /\ Talks(n, p)' /\ Talks(p, n)' /\ iterations' <= 2 + Cardinality(Id)
         /\ \A m \in Node \ {n} : entries'[m] = entries[m] /\ peers'[m] = peers[m]
         /\ UNCHANGED <<told, settings>>
<1> DEFINE f == Last(queue)
<1>0. n \in Node /\ p \in Node /\ n # p
  BY PeeringsSymmetric, EndsDiffer
<1>1. f \in Flying /\ Len(queue) \in Nat
  BY PopLast DEF Flow, Flying
<1>2. \E sent : Handled(n, p, f, sent) /\ Repays(n, p, f, sent) /\ HoldsOwnOrGiven(n, p)'
  <2>0. f.from = p /\ OnFrame(f)
    OBVIOUS
  <2> HIDE DEF f
  <2>1. CASE OnSummary(f)
    <3>1. /\ \E sent : Handled(n, p, f, sent) /\ Repays(n, p, f, sent)
          /\ UNCHANGED entries
      BY <1>1, <2>0, <2>1, SummaryTurn
    <3>2. UNCHANGED now
      BY <2>1 DEF OnSummary
    <3>3. HoldsOwnOrGiven(n, p)'
      BY <3>1, <3>2 DEF Talks, HoldsOwnOrGiven, Gift
    <3>4. QED
      BY <3>1, <3>3
  <2>2. CASE OnWeakProof(f) \/ OnOverBudget(f) \/ OnData(f)
    BY <1>1, <2>0, <2>2, DataTurn
  <2>3. QED
    BY <2>0, <2>1, <2>2 DEF OnFrame
<1>3. PICK sent : Handled(n, p, f, sent) /\ Repays(n, p, f, sent) /\ HoldsOwnOrGiven(n, p)'
  BY <1>2
<1>4. /\ Flow' /\ Flying' = (Flying \ {f}) \cup sent
      /\ Len(queue') = Len(queue) - 1 + Cardinality(sent)
  <2>1. IsFiniteSet(sent) /\ sent \cap Flying = {} /\ Answered(Last(queue), sent)
    BY <1>3 DEF Repays, Handled
  <2>2. QED
    BY <2>1, FlowDrains
<1>5. Talks(n, p)' /\ Talks(p, n)' /\ iterations' <= 2 + Cardinality(Id)
  <2>1. f.from = p
    OBVIOUS
  <2> HIDE DEF f
  <2>2. QED
    BY <1>0, <1>1, <1>3, <1>4, <2>1, TurnKeeps
<1>6. QED
  BY <1>3, <1>4, <1>5 DEF Handled

LEMMA ApartStays ==
  ASSUME NEW m \in Node, Apart(m), UNCHANGED before,
         entries'[m] = entries[m], peers'[m] = peers[m], told'[m] = told[m]
  PROVE  Apart(m)'
  BY DEF Apart, Alone, Copies

LEMMA Connects ==
  ASSUME Sound, NEW n \in Node, NEW p \in Node, Alone(n), OnPeerConnected(n, p)
  PROVE  /\ Meets(n, p)' /\ peers'[n][p] = NewPeer(TRUE)
         /\ \A m \in Node \ {n} : peers'[m] = peers[m] /\ told'[m] = told[m]
         /\ UNCHANGED <<entries, settings, now, links>>
         /\ net' = NetWith({Summary(n, p, DOMAIN entries[n])})
<1>1. Contacts
  BY DEF Sound
<1>2. NewPeer(TRUE).summary_sent
  BY DEF NewPeer
<1>3. /\ told' = [told EXCEPT ![n] = @ \cup {p}]
      /\ peers' = [peers EXCEPT ![n] = With(@, p, NewPeer(TRUE))]
      /\ UNCHANGED <<entries, settings, now, links>>
      /\ net' = NetWith({Summary(n, p, DOMAIN entries[n])})
  BY DEF OnPeerConnected, Register, stores
<1>4. peers'[n] = With(peers[n], p, NewPeer(TRUE)) /\ told'[n] = {p}
  BY <1>1, <1>3 DEF Contacts, Alone
<1>5. DOMAIN peers'[n] = {p} /\ peers'[n][p] = NewPeer(TRUE)
  BY <1>4 DEF With, Alone
<1>6. \A m \in Node \ {n} : peers'[m] = peers[m] /\ told'[m] = told[m]
  BY <1>1, <1>3 DEF Contacts
<1>7. QED
  BY <1>2, <1>3, <1>4, <1>5, <1>6 DEF Meets

LEMMA Parts ==
  ASSUME Sound, NEW n \in Node, NEW p \in Node, Meets(n, p), OnPeerLost(n, p)
  PROVE  /\ Alone(n)'
         /\ \A m \in Node \ {n} : peers'[m] = peers[m] /\ told'[m] = told[m]
         /\ UNCHANGED <<entries, settings, now, links, net>>
<1>1. Contacts
  BY DEF Sound
<1>2. /\ told' = [told EXCEPT ![n] = @ \ {p}]
      /\ peers' = [peers EXCEPT ![n] = Without(@, {p})]
      /\ UNCHANGED <<entries, settings, now, links, net>>
  BY DEF OnPeerLost, stores
<1>3. peers'[n] = Without(peers[n], {p}) /\ told'[n] = {}
  BY <1>1, <1>2 DEF Contacts, Meets
<1>4. DOMAIN peers'[n] = {}
  BY <1>3 DEF Without, Restrict, Meets
<1>5. \A m \in Node \ {n} : peers'[m] = peers[m] /\ told'[m] = told[m]
  BY <1>1, <1>2 DEF Contacts
<1>6. QED
  BY <1>2, <1>3, <1>4, <1>5 DEF Alone

\* When a window opens, each node holds its own.
LEMMA OwnAtFirst ==
  ASSUME Sound, before = Copies, NEW n \in Node, NEW p \in Node
  PROVE  /\ HoldsOwnOrGiven(n, p)
         /\ Greeting(n, p) = Summary(n, p, DOMAIN entries[n])
  BY CopiesAre DEF HoldsOwnOrGiven, Greeting

LEMMA HelloFirst ==
  ASSUME Sound, Steady, NEW n, NEW p, InWindowOf(n, p), Hello(n, p), window = <<n, p>>
  PROVE  /\ Steady' /\ InWindowOf(n, p)' /\ Greets(n, p)'
         /\ UNCHANGED <<entries, now, window, before>>
<1>0. <<n, p>> \in Peerings /\ n \in Node /\ p \in Node /\ n # p
  BY PeeringsSymmetric, EndsDiffer DEF InWindowOf
<1>1. p \notin told[n] /\ {n, p} \in links /\ OnPeerConnected(n, p)
  BY DEF Hello, OnPeerConnected
<1>2. /\ links = {{n, p}} /\ iterations = 0 /\ before = Copies /\ Alone(p)
      /\ Alone(n) /\ queue = <<>>
  BY <1>1 DEF InWindowOf, Greets, Talks, Leaves, Meets
<1>3. /\ Meets(n, p)' /\ peers'[n][p] = NewPeer(TRUE)
      /\ \A m \in Node \ {n} : peers'[m] = peers[m] /\ told'[m] = told[m]
      /\ UNCHANGED <<entries, settings, now, links>>
      /\ net' = NetWith({Greeting(n, p)})
  <2>1. Greeting(n, p) = Summary(n, p, DOMAIN entries[n])
    BY <1>0, <1>2, OwnAtFirst
  <2>2. /\ Meets(n, p)' /\ peers'[n][p] = NewPeer(TRUE)
        /\ \A m \in Node \ {n} : peers'[m] = peers[m] /\ told'[m] = told[m]
        /\ UNCHANGED <<entries, settings, now, links>>
        /\ net' = NetWith({Summary(n, p, DOMAIN entries[n])})
    BY <1>0, <1>1, <1>2, Connects
  <2>3. QED
    BY <2>1, <2>2
<1>4. /\ queue' = Append(queue, Greeting(n, p))
      /\ UNCHANGED <<window, iterations, before>>
  BY <1>0, <1>2, OwnAtFirst DEF Hello
<1>5. Flow' /\ queue' = <<Greeting(n, p)>>
  <2>1. Greeting(n, p) \notin Flying
    BY <1>2, NothingFlies
  <2>2. Flow'
    BY <1>3, <1>4, <2>1, FlowAppends DEF Steady
  <2>3. QED
    BY <1>2, <1>4, <2>2
<1>6. Steady'
  BY <1>3, <1>4, <1>5, RecordedUnchanged DEF Steady, Untuned, settings, ContactConverges
<1>7. Greets(n, p)'
  <2>1. Greeting(n, p)' = Greeting(n, p) /\ Copies' = Copies
    BY <1>3, <1>4 DEF Greeting, Copies
  <2>2. Alone(p)'
    BY <1>0, <1>2, <1>3 DEF Alone
  <2>3. QED
    BY <1>2, <1>3, <1>4, <1>5, <2>1, <2>2 DEF Greets
<1>8. \A m \in Node \ {n, p} : Apart(m)'
  BY <1>3, <1>4, ApartStays DEF InWindowOf
<1>9. InWindowOf(n, p)'
  BY <1>0, <1>4, <1>7, <1>8 DEF InWindowOf
<1>10. QED
  BY <1>3, <1>4, <1>6, <1>7, <1>9

LEMMA HelloSecond ==
  ASSUME Sound, Steady, NEW n, NEW p, InWindowOf(n, p), Hello(p, n), p \in told[n]
  PROVE  /\ Steady' /\ InWindowOf(n, p)' /\ Talks(n, p)'
         /\ before' = Copies /\ UNCHANGED <<entries, now>>
         /\ Flying' = {Greeting(n, p), Greeting(p, n)} /\ peers'[p][n] = NewPeer(TRUE)
         /\ peers'[n][p] = NewPeer(TRUE) /\ Greets(n, p)
<1>0. <<n, p>> \in Peerings /\ n \in Node /\ p \in Node /\ n # p
  BY PeeringsSymmetric, EndsDiffer DEF InWindowOf
<1>1. n \notin told[p] /\ {n, p} \in links /\ OnPeerConnected(p, n)
  <2>1. {p, n} = {n, p}
    OBVIOUS
  <2>2. QED
    BY <2>1 DEF Hello, OnPeerConnected
<1>2. /\ links = {{n, p}} /\ iterations = 0 /\ before = Copies /\ Alone(p)
      /\ Meets(n, p) /\ peers[n][p] = NewPeer(TRUE) /\ queue = <<Greeting(n, p)>>
      /\ Greets(n, p)
  BY <1>1 DEF InWindowOf, Greets, Talks, Leaves, Meets, Alone
<1>3. /\ Meets(p, n)' /\ peers'[p][n] = NewPeer(TRUE)
      /\ \A m \in Node \ {p} : peers'[m] = peers[m] /\ told'[m] = told[m]
      /\ UNCHANGED <<entries, settings, now, links>>
      /\ net' = NetWith({Greeting(p, n)})
  <2>1. Greeting(p, n) = Summary(p, n, DOMAIN entries[p])
    BY <1>0, <1>2, OwnAtFirst
  <2>2. /\ Meets(p, n)' /\ peers'[p][n] = NewPeer(TRUE)
        /\ \A m \in Node \ {p} : peers'[m] = peers[m] /\ told'[m] = told[m]
        /\ UNCHANGED <<entries, settings, now, links>>
        /\ net' = NetWith({Summary(p, n, DOMAIN entries[p])})
    BY <1>0, <1>1, <1>2, Connects
  <2>3. QED
    BY <2>1, <2>2
<1>4. /\ queue' = Append(queue, Greeting(p, n))
      /\ UNCHANGED <<window, iterations, before>>
  BY <1>0, <1>2, OwnAtFirst DEF Hello
<1>5. Flow' /\ Flying' = {Greeting(n, p), Greeting(p, n)} /\ Len(queue') = 2
  <2>1. Flying = {Greeting(n, p)}
    BY <1>2 DEF Flying, Range
  <2>2. Greeting(p, n) \notin Flying
    BY <1>0, <2>1 DEF Greeting, Summary
  <2>3. Flow' /\ Flying' = Flying \cup {Greeting(p, n)}
    BY <1>3, <1>4, <2>2, FlowAppends DEF Steady
  <2>4. QED
    BY <1>2, <1>4, <2>1, <2>3
<1>6. Steady'
  BY <1>3, <1>4, <1>5, RecordedUnchanged DEF Steady, Untuned, settings, ContactConverges
<1>7. Talks(n, p)'
  <2>1. /\ Greeting(n, p)' = Greeting(n, p) /\ Greeting(p, n)' = Greeting(p, n)
        /\ Gift(n, p)' = Gift(n, p) /\ Gift(p, n)' = Gift(p, n)
    BY <1>4 DEF Greeting, Gift
  <2>2. \A f \in Flying' : Spoken(n, p, f)' \/ Spoken(p, n, f)'
    BY <1>5, <2>1 DEF Spoken
  <2>3. HoldsOwnOrGiven(n, p)' /\ HoldsOwnOrGiven(p, n)'
    <3>1. HoldsOwnOrGiven(n, p) /\ HoldsOwnOrGiven(p, n)
      BY <1>0, <1>2, OwnAtFirst
    <3>2. QED
      BY <1>3, <1>4, <2>1, <3>1 DEF HoldsOwnOrGiven
  <2>4. iterations' + Len(queue') + Owed(n, p)' + Owed(p, n)' <= 2 + Cardinality(Id)
    <3>1. Recorded
      BY DEF Steady
    <3>2. /\ Cardinality(Gift(n, p)) + Cardinality(Gift(p, n)) <= Cardinality(Id)
          /\ Cardinality(Gift(n, p)) \in Nat /\ Cardinality(Gift(p, n)) \in Nat
          /\ Cardinality(Id) \in Nat
      BY <1>0, <3>1, Gifts
    <3>3. Owed(n, p)' = Cardinality(Gift(n, p)) /\ Owed(p, n)' = Cardinality(Gift(p, n))
      BY <1>5, <2>1 DEF Owed
    <3>4. QED
      BY <1>2, <1>4, <1>5, <3>2, <3>3
  <2>5. Meets(n, p)' /\ Meets(p, n)' /\ links' = {{n, p}}
    BY <1>0, <1>2, <1>3 DEF Meets
  <2>6. QED
    BY <2>2, <2>3, <2>4, <2>5 DEF Talks
<1>8. \A m \in Node \ {n, p} : Apart(m)'
  BY <1>3, <1>4, ApartStays DEF InWindowOf
<1>9. window' = <<n, p>>
  BY <1>4 DEF InWindowOf
<1>10. QED
  BY <1>0, <1>2, <1>3, <1>4, <1>5, <1>6, <1>7, <1>8, <1>9 DEF InWindowOf

\* A frame is handed over only while both nodes talk, and one of them sent it.
LEMMA DrainWhileTalking ==
  ASSUME Steady, NEW n, NEW p, InWindowOf(n, p), Drain
  PROVE  /\ Talks(n, p) /\ Talks(p, n) /\ <<p, n>> \in Peerings
         /\ Last(queue) \in Flying
         /\ Last(queue).from \in {n, p}
<1>0. /\ <<n, p>> \in Peerings /\ n \in Node /\ p \in Node
      /\ <<p, n>> \in Peerings /\ window = <<n, p>>
  BY PeeringsSymmetric DEF InWindowOf
<1>1. n \in told[p] /\ queue # <<>>
  BY <1>0 DEF Drain, Connected
<1>2. Talks(n, p)
  BY <1>1 DEF InWindowOf, Greets, Leaves, Alone
<1>3. Last(queue) \in Flying /\ Len(queue) \in Nat
  BY <1>1, PopLast DEF Steady, Flow, Flying
<1>4. Talks(p, n)
  BY <1>0, <1>2, <1>3, TalkSymmetric DEF Steady
<1>5. Spoken(n, p, Last(queue)) \/ Spoken(p, n, Last(queue))
  BY <1>2, <1>3 DEF Talks
<1>6. Last(queue).from \in {n, p}
  BY <1>5 DEF Spoken, Greeting, Pushed, Summary, Data
<1>7. QED
  BY <1>0, <1>2, <1>3, <1>4, <1>6

LEMMA DrainKeeps ==
  ASSUME Sound, Steady, NEW n, NEW p, InWindowOf(n, p), Drain
  PROVE  Steady' /\ InWindowOf(n, p)' /\ Talks(n, p)'
<1>0. /\ <<n, p>> \in Peerings /\ n \in Node /\ p \in Node
      /\ window = <<n, p>>
  BY PeeringsSymmetric DEF InWindowOf
<1>1. /\ Talks(n, p) /\ Talks(p, n) /\ <<p, n>> \in Peerings
      /\ Last(queue).from \in {n, p}
  BY DrainWhileTalking
<1>2. /\ queue # <<>> /\ OnFrame(Last(queue))
      /\ \E out \in SetToSeqs(BagToSet(net' (-) NetWithout(Last(queue)))) :
           queue' = Front(queue) \o out
      /\ iterations' = iterations + 1
      /\ UNCHANGED before /\ UNCHANGED window
  BY DEF Drain
<1>3. Flow /\ Recorded /\ Untuned /\ iterations \in Nat
  BY DEF Steady
<1>4. /\ Flow' /\ Talks(n, p)' /\ iterations' <= 2 + Cardinality(Id)
      /\ \A m \in Node \ {n, p} : entries'[m] = entries[m] /\ peers'[m] = peers[m]
      /\ UNCHANGED <<told, settings>>
  <2>1. CASE Last(queue).from = p
    BY <1>0, <1>1, <1>2, <1>3, <2>1, DrainTalks
  <2>2. CASE Last(queue).from = n
    BY <1>0, <1>1, <1>2, <1>3, <2>2, DrainTalks
  <2>3. QED
    BY <1>1, <2>1, <2>2
<1>5. Steady'
  BY <1>2, <1>3, <1>4, RecordedUnchanged DEF Steady, Untuned, settings, ContactConverges
<1>6. \A m \in Node \ {n, p} : Apart(m)'
  BY <1>2, <1>4, ApartStays DEF InWindowOf
<1>7. QED
  BY <1>0, <1>2, <1>4, <1>5, <1>6 DEF InWindowOf

LEMMA DisconnectKeeps ==
  ASSUME Sound, Steady, NEW n, NEW p, InWindowOf(n, p), Disconnect
  PROVE  /\ Steady' /\ InWindowOf(n, p)' /\ Leaves(n, p)'
         /\ Talks(n, p) /\ queue = <<>> /\ UNCHANGED <<entries, now, before>>
<1>0. window = <<n, p>> /\ n \in Node /\ p \in Node
  BY PeeringsSymmetric DEF InWindowOf
<1>1. /\ links' = links \ {{n, p}} /\ {n, p} \in links
      /\ UNCHANGED <<entries, peers, settings, now, told, net, simVars>>
      /\ queue = <<>> /\ p \in told[n] /\ n \in told[p]
  BY <1>0 DEF Disconnect, LinkDown, Connected, stores
<1>2. Talks(n, p)
  BY <1>1 DEF InWindowOf, Greets, Leaves, Alone
<1>3. UNCHANGED <<window, queue, iterations, before>>
  BY <1>1 DEF simVars
<1>4. Leaves(n, p)'
  <2>1. links' = {} /\ queue' = <<>> /\ Meets(n, p)' /\ Meets(p, n)'
    BY <1>1, <1>2, <1>3 DEF Talks, Meets
  <2>2. HoldsOwnOrGiven(n, p)' /\ HoldsOwnOrGiven(p, n)'
    BY <1>1, <1>2, <1>3 DEF Talks, HoldsOwnOrGiven, Gift
  <2>3. QED
    BY <2>1, <2>2 DEF Leaves
<1>5. Steady'
  BY <1>1, <1>3, FlowUnchanged, RecordedUnchanged
  DEF Steady, Untuned, settings, ContactConverges
<1>6. \A m \in Node \ {n, p} : Apart(m)'
  BY <1>1, <1>3, ApartStays DEF InWindowOf
<1>7. QED
  BY <1>1, <1>2, <1>3, <1>4, <1>5, <1>6 DEF InWindowOf

LEMMA PartFirst ==
  ASSUME Sound, Steady, NEW n, NEW p, InWindowOf(n, p), OnPeerLost(n, p),
         UNCHANGED simVars
  PROVE  /\ Steady' /\ InWindowOf(n, p)' /\ Leaves(n, p)' /\ Leaves(n, p)
         /\ UNCHANGED <<entries, now>>
<1>0. <<n, p>> \in Peerings /\ n \in Node /\ p \in Node /\ n # p
  BY PeeringsSymmetric, EndsDiffer DEF InWindowOf
<1>1. p \in told[n] /\ {n, p} \notin links /\ UNCHANGED <<window, queue, iterations, before>>
  BY DEF OnPeerLost, simVars
<1>2. Leaves(n, p) /\ Meets(n, p)
  BY <1>1 DEF InWindowOf, Greets, Talks, Leaves, Alone
<1>3. /\ Alone(n)'
      /\ \A m \in Node \ {n} : peers'[m] = peers[m] /\ told'[m] = told[m]
      /\ UNCHANGED <<entries, settings, now, links, net>>
  BY <1>0, <1>2, Parts
<1>4. Steady'
  BY <1>1, <1>3, FlowUnchanged, RecordedUnchanged
  DEF Steady, Untuned, settings, ContactConverges
<1>5. \A m \in Node \ {n, p} : Apart(m)'
  BY <1>1, <1>3, ApartStays DEF InWindowOf
<1>6. Leaves(n, p)'
  <2>1. HoldsOwnOrGiven(n, p)' /\ HoldsOwnOrGiven(p, n)'
    BY <1>1, <1>2, <1>3 DEF Leaves, HoldsOwnOrGiven, Gift
  <2>2. Meets(p, n)'
    BY <1>0, <1>2, <1>3 DEF Leaves, Meets
  <2>3. QED
    BY <1>1, <1>2, <1>3, <2>1, <2>2 DEF Leaves
<1>7. QED
  BY <1>1, <1>2, <1>3, <1>4, <1>5, <1>6 DEF InWindowOf

LEMMA PartSecond ==
  ASSUME Sound, Steady, NEW n, NEW p, InWindowOf(n, p), OnPeerLost(p, n), p \notin told[n],
         window' = <<>>, UNCHANGED <<queue, iterations, before>>
  PROVE  Steady' /\ BetweenContacts' /\ Leaves(n, p) /\ UNCHANGED <<entries, now>>
<1>0. <<n, p>> \in Peerings /\ n \in Node /\ p \in Node /\ n # p
  BY PeeringsSymmetric, EndsDiffer DEF InWindowOf
<1>1. n \in told[p]
  BY DEF OnPeerLost
<1>2. Leaves(n, p) /\ Alone(n) /\ Meets(p, n)
  BY <1>1 DEF InWindowOf, Greets, Talks, Leaves, Meets, Alone
<1>3. /\ Alone(p)'
      /\ \A m \in Node \ {p} : peers'[m] = peers[m] /\ told'[m] = told[m]
      /\ UNCHANGED <<entries, settings, now, links, net>>
  BY <1>0, <1>2, Parts
<1>4. Steady'
  BY <1>3, FlowUnchanged, RecordedUnchanged DEF Steady, Untuned, settings, ContactConverges
<1>5. \A m \in Node : Alone(m)'
  <2>1. \A m \in Node \ {p} : Alone(m)
    BY <1>2 DEF InWindowOf, Apart
  <2>2. QED
    BY <1>3, <2>1 DEF Alone
<1>6. QED
  BY <1>2, <1>3, <1>4, <1>5 DEF BetweenContacts, Leaves

----
(***************************************************************************)
(* Between two windows, and every step of the simulation.                  *)
(***************************************************************************)
LEMMA BeginKeeps ==
  ASSUME Sound, Steady, BetweenContacts, NEW n, NEW p, <<n, p>> \in Peerings, Begin(n, p)
  PROVE  /\ Steady' /\ InWindowOf(n, p)' /\ Greets(n, p)'
         /\ before' = Copies /\ UNCHANGED <<entries, now>>
<1>0. n \in Node /\ p \in Node
  BY PeeringsSymmetric
<1>1. /\ links' = {{n, p}} /\ window' = <<n, p>> /\ iterations' = 0
      /\ UNCHANGED <<entries, peers, settings, now, told, net, queue>>
      /\ before' = Copies /\ Copies' = Copies
  BY DEF Begin, LinkUp, BetweenContacts, stores, Copies
<1>2. Recorded'
  BY <1>1, CopiesAre DEF Recorded
<1>3. Steady'
  <2>1. Cardinality(Id) \in Nat
    BY IdAssumption, FS_CardinalityType
  <2>2. QED
    BY <1>1, <1>2, <2>1, FlowUnchanged DEF Steady, Untuned, settings, ContactConverges
<1>4. \A m \in Node : Alone(m)'
  BY <1>1 DEF BetweenContacts, Alone
<1>5. Greets(n, p)'
  BY <1>0, <1>1, <1>4 DEF Greets, BetweenContacts
<1>6. QED
  BY <1>1, <1>3, <1>4, <1>5 DEF InWindowOf, Apart

LEMMA ComposeKeeps ==
  ASSUME Sound, Steady, BetweenContacts, NEW id \in Id, ComposeAt(id)
  PROVE  Steady' /\ BetweenContacts'
<1> DEFINE n == Origin[id]
<1>0. n \in Node
  BY OriginAssumption
<1>1. /\ UNCHANGED <<peers, settings, now, links, told>>
      /\ UNCHANGED <<window, queue, iterations, before>>
  BY DEF ComposeAt, ComposeLocal, transport, simVars
<1>2. UNCHANGED net
  <2>1. DOMAIN peers[n] = {}
    BY <1>0 DEF BetweenContacts, Alone
  <2>2. \A ttl, proof : Relays(n, id, ttl, proof, DOMAIN peers[n]) = {}
    BY <2>1 DEF Relays
  <2>3. UNCHANGED net \/ \E sent \in SUBSET {} : net' = NetWith(sent)
    BY <2>2 DEF ComposeAt, ComposeLocal
  <2>4. UNCHANGED net \/ net' = net (+) SetToBag({})
    BY <2>3 DEF NetWith
  <2>5. QED
    BY <2>4, Emptied DEF Steady, Flow
<1>3. Steady'
  BY <1>1, <1>2, FlowUnchanged, RecordedUnchanged
  DEF Steady, Untuned, settings, ContactConverges
<1>4. QED
  BY <1>1, <1>3 DEF BetweenContacts, Alone

LEMMA TickKeeps ==
  ASSUME Sound, Steady, BetweenContacts, AtTick
  PROVE  Steady' /\ BetweenContacts'
<1>1. /\ UNCHANGED <<peers, settings, links, told, net>>
      /\ UNCHANGED <<window, queue, iterations, before>>
  BY DEF AtTick, Tick, transport, simVars
<1>2. Steady'
  BY <1>1, FlowUnchanged, RecordedUnchanged DEF Steady, Untuned, settings, ContactConverges
<1>3. QED
  BY <1>1, <1>2 DEF BetweenContacts, Alone

\* The steps of a window, each with the roles its nodes play.
LEMMA WindowSteps ==
  ASSUME NEW n, NEW p, InWindowOf(n, p), SimNext
  PROVE  \/ Hello(n, p) /\ window = <<n, p>>
         \/ Hello(p, n) /\ p \in told[n]
         \/ OnPeerLost(n, p) /\ UNCHANGED simVars
         \/ /\ OnPeerLost(p, n) /\ p \notin told[n]
            /\ window' = <<>> /\ UNCHANGED <<queue, iterations, before>>
         \/ Drain
         \/ Disconnect
<1>1. window = <<n, p>> /\ window # <<>> /\ n # p
  BY EndsDiffer DEF InWindowOf
<1>2. ASSUME NEW e \in Peerings, Hello(e[1], e[2])
      PROVE  Hello(n, p) \/ (Hello(p, n) /\ p \in told[n])
  BY <1>1, <1>2 DEF Hello
<1>3. ASSUME NEW e \in Peerings, Part(e[1], e[2])
      PROVE  \/ OnPeerLost(n, p) /\ UNCHANGED simVars
             \/ /\ OnPeerLost(p, n) /\ p \notin told[n]
                /\ window' = <<>> /\ UNCHANGED <<queue, iterations, before>>
  BY <1>1, <1>3 DEF Part, simVars
<1>4. QED
  BY <1>1, <1>2, <1>3 DEF SimNext, ComposeAt, AtTick, Begin

LEMMA WindowKeeps ==
  ASSUME Sound, Steady, NEW n, NEW p, InWindowOf(n, p), SimNext
  PROVE  Steady' /\ (BetweenContacts' \/ InWindowOf(n, p)')
<1>1. CASE Hello(n, p) /\ window = <<n, p>>
  BY <1>1, HelloFirst
<1>2. CASE Hello(p, n) /\ p \in told[n]
  BY <1>2, HelloSecond
<1>3. CASE OnPeerLost(n, p) /\ UNCHANGED simVars
  BY <1>3, PartFirst
<1>4. CASE /\ OnPeerLost(p, n) /\ p \notin told[n]
           /\ window' = <<>> /\ UNCHANGED <<queue, iterations, before>>
  BY <1>4, PartSecond
<1>5. CASE Drain
  BY <1>5, DrainKeeps
<1>6. CASE Disconnect
  BY <1>6, DisconnectKeeps
<1>7. QED
  BY <1>1, <1>2, <1>3, <1>4, <1>5, <1>6, WindowSteps

LEMMA BetweenSteps ==
  ASSUME BetweenContacts, SimNext
  PROVE  \/ \E id \in Id : ComposeAt(id)
         \/ AtTick
         \/ \E e \in Peerings : Begin(e[1], e[2])
  BY DEF SimNext, BetweenContacts, Hello, Part, Drain, Disconnect, Connected

LEMMA BetweenKeeps ==
  ASSUME Sound, Steady, BetweenContacts, SimNext
  PROVE  Steady' /\ (BetweenContacts' \/ \E n, p \in Node : InWindowOf(n, p)')
<1>1. CASE \E id \in Id : ComposeAt(id)
  BY <1>1, ComposeKeeps
<1>2. CASE AtTick
  BY <1>2, TickKeeps
<1>3. CASE \E e \in Peerings : Begin(e[1], e[2])
  <2>1. PICK e \in Peerings : Begin(e[1], e[2])
    BY <1>3
  <2> DEFINE n == e[1]
             p == e[2]
  <2>2. <<n, p>> \in Peerings /\ n \in Node /\ p \in Node /\ Begin(n, p)
    BY <2>1 DEF Peerings
  <2> HIDE DEF n, p
  <2>3. QED
    BY <2>2, BeginKeeps
<1>4. QED
  BY <1>1, <1>2, <1>3, BetweenSteps

LEMMA ScheduledNext == Sound /\ Scheduled /\ [SimNext]_<<vars, simVars>> => Scheduled'
<1> SUFFICES ASSUME Sound, Scheduled, [SimNext]_<<vars, simVars>>
             PROVE  Scheduled'
  OBVIOUS
<1>1. CASE UNCHANGED <<vars, simVars>>
  <2>1. /\ UNCHANGED <<entries, peers, settings, now, links, told, net>>
        /\ UNCHANGED <<window, queue, iterations, before>>
    BY <1>1 DEF vars, stores, transport, simVars
  <2>2. Steady'
    BY <2>1, FlowUnchanged, RecordedUnchanged
    DEF Scheduled, Steady, Untuned, settings, ContactConverges
  <2>3. BetweenContacts => BetweenContacts'
    BY <2>1 DEF BetweenContacts, Alone
  <2>4. ASSUME NEW n \in Node, NEW p \in Node, InWindowOf(n, p)
        PROVE  InWindowOf(n, p)'
    <3>1. Copies' = Copies /\ (Meets(n, p) => Meets(n, p)') /\ (Meets(p, n) => Meets(p, n)')
      BY <2>1 DEF Copies, Meets
    <3>2. \A m \in Node \ {n, p} : Apart(m)'
      BY <2>1, <2>4, ApartStays DEF InWindowOf
    <3>3. Greets(n, p) => Greets(n, p)'
      BY <2>1, <3>1 DEF Greets, Alone, Greeting
    <3>4. /\ HoldsOwnOrGiven(n, p) => HoldsOwnOrGiven(n, p)'
          /\ HoldsOwnOrGiven(p, n) => HoldsOwnOrGiven(p, n)'
      BY <2>1 DEF HoldsOwnOrGiven, Gift
    <3>5. Talks(n, p) => Talks(n, p)'
      BY <2>1, <3>1, <3>4 DEF Talks, Flying, Spoken, Greeting, Pushed, Gift, Owed
    <3>6. Leaves(n, p) => Leaves(n, p)'
      BY <2>1, <3>1, <3>4 DEF Leaves, Alone
    <3>7. QED
      BY <2>1, <2>4, <3>2, <3>3, <3>5, <3>6 DEF InWindowOf
  <2>5. QED
    BY <2>2, <2>3, <2>4 DEF Scheduled
<1>2. CASE SimNext /\ BetweenContacts
  BY <1>2, BetweenKeeps DEF Scheduled
<1>3. CASE SimNext /\ \E n, p \in Node : InWindowOf(n, p)
  <2>1. PICK n \in Node, p \in Node : InWindowOf(n, p)
    BY <1>3
  <2>2. QED
    BY <1>3, <2>1, WindowKeeps DEF Scheduled
<1>4. QED
  BY <1>1, <1>2, <1>3 DEF Scheduled

LEMMA ScheduledInit == SimInit => Sound /\ Scheduled
<1> SUFFICES ASSUME SimInit PROVE Sound /\ Scheduled
  OBVIOUS
<1>1. Init /\ window = <<>> /\ queue = <<>> /\ iterations = 0 /\ before = Copies
  BY DEF SimInit
<1>2. Sound
  BY <1>1, SoundInit
<1>3. Flow /\ Recorded
  BY <1>1, <1>2, FlowEmpty, RecordedNow DEF Init
<1>4. Untuned
  BY <1>1 DEF Init, Untuned
<1>5. ContactConverges /\ iterations \in Nat
  <2>1. Cardinality(Id) \in Nat
    BY IdAssumption, FS_CardinalityType
  <2>2. QED
    BY <1>1, <2>1 DEF ContactConverges
<1>6. BetweenContacts
  BY <1>1 DEF Init, BetweenContacts, Alone, NoPeers
<1>7. QED
  BY <1>2, <1>3, <1>4, <1>5, <1>6 DEF Scheduled, Steady

----
(***************************************************************************)
(* The simulation is a run of the mesh: what holds of every mesh holds of  *)
(* it, and it adds nothing the transport could not do.                     *)
(***************************************************************************)
LEMMA SimStep == Sound /\ Scheduled /\ [SimNext]_<<vars, simVars>> => [Next]_vars
<1> SUFFICES ASSUME Sound, Scheduled, SimNext
             PROVE  [Next]_vars
  OBVIOUS
<1>1. ASSUME NEW e \in Peerings, Begin(e[1], e[2]) \/ Hello(e[1], e[2]) \/ Part(e[1], e[2])
      PROVE  Next
  BY <1>1 DEF Begin, Hello, Part, Next, Report
<1>2. ASSUME Drain PROVE Next
  <2>1. Last(queue) \in BagToSet(net)
    <3>1. Last(queue) \in Flying /\ net = SetToBag(Flying)
      BY <1>2, PopLast DEF Drain, Scheduled, Steady, Flow, Flying
    <3>2. QED
      BY <3>1 DEF SetToBag, BagToSet
  <2>2. OnFrame(Last(queue))
    BY <1>2 DEF Drain
  <2>3. QED
    BY <2>1, <2>2 DEF Next, Transit
<1>3. ASSUME Disconnect PROVE Next
  BY <1>3 DEF Disconnect, LinkDown, Next
<1>4. ASSUME NEW id \in Id, ComposeAt(id) PROVE Next
  BY <1>4 DEF ComposeAt, Next
<1>5. ASSUME AtTick PROVE Next
  BY <1>5 DEF AtTick, Next
<1>6. QED
  BY <1>1, <1>2, <1>3, <1>4, <1>5 DEF SimNext

LEMMA ScheduledAlways == SimSpec => [](Sound /\ Scheduled)
<1>1. Sound /\ Scheduled /\ [SimNext]_<<vars, simVars>> => (Sound /\ Scheduled)'
  BY ScheduledNext, SimStep, SoundNext
<1>2. QED
  BY <1>1, ScheduledInit, PTL DEF SimSpec

\* A schedule of contact windows drives the engines through steps that the nodes of any
\* mesh take, the frames of the queue in its order among those that any order allows.
THEOREM SimulationIsOfMesh == SimSpec => Spec
<1>1. SimInit => Init
  BY DEF SimInit
<1>2. QED
  BY <1>1, ScheduledAlways, SimStep, PTL DEF SimSpec, Spec

\* A window ends after the two summaries and at most one frame for each envelope there
\* is, whatever the nodes hold and the stores and limits let through.
THEOREM ContactConvergesHolds == SimSpec => []ContactConverges
<1>1. Scheduled => ContactConverges
  BY DEF Scheduled, Steady
<1>2. QED
  BY <1>1, ScheduledAlways, PTL

----
(***************************************************************************)
(* Where there is room, all that is due is handed over.                    *)
(***************************************************************************)
LEMMA RateNow ==
  ASSUME Sound, NEW rate \in RateLimiter
  PROVE  /\ InWindow(rate, DefaultLimit) \in RateLimiter
         /\ InWindow(rate, DefaultLimit).window = now \div 60
         /\ rate.window = now \div 60 => InWindow(rate, DefaultLimit) = rate
<1>1. now \in Nat /\ DefaultLimit \in Limit
  BY LimitAssumption DEF Sound, Globals
<1>2. InWindow(rate, DefaultLimit) \in RateLimiter
  BY <1>1, InWindowState
<1>3. DefaultLimit.seconds = 60
  BY DEF DefaultLimit
<1>4. QED
  BY <1>2, <1>3 DEF InWindow

LEMMA ChargedKeeps ==
  ASSUME NEW rate \in RateLimiter, Budgeted(rate), NEW id \in Id
  PROVE  /\ Budgeted(Charged(rate, FrameBytes[id]))
         /\ Charged(rate, FrameBytes[id]).envelopes = rate.envelopes + 1
         /\ Charged(rate, FrameBytes[id]).window = rate.window
         /\ Charged(rate, FrameBytes[id]) \in RateLimiter
<1> DEFINE after == Charged(rate, FrameBytes[id])
<1>1. /\ after.envelopes = rate.envelopes + 1 /\ after.bytes = rate.bytes + FrameBytes[id]
      /\ after.window = rate.window
      /\ rate.envelopes \in Nat /\ rate.bytes \in Nat /\ FrameBytes[id] \in Nat
  BY BytesAssumption DEF Charged, RateLimiter
<1>2. after \in RateLimiter
  BY <1>1, ChargedState
<1> HIDE DEF after
<1>3. ASSUME NEW size \in Nat, \A i \in Id : FrameBytes[i] <= size
      PROVE  after.bytes <= after.envelopes * size
  <2>1. rate.bytes <= rate.envelopes * size /\ FrameBytes[id] <= size
    BY <1>3 DEF Budgeted
  <2>2. (rate.envelopes + 1) * size = rate.envelopes * size + size
    BY <1>1
  <2>3. rate.envelopes * size \in Nat
    BY <1>1
  <2>4. QED
    BY <1>1, <2>1, <2>2, <2>3
<1>4. QED
  BY <1>1, <1>2, <1>3 DEF Budgeted, after

LEMMA BudgetFits ==
  ASSUME Roomy, NEW rate \in RateLimiter, Budgeted(rate), NEW id \in Id,
         rate.envelopes + 1 <= Cardinality(Id)
  PROVE  WithinBudget(rate, FrameBytes[id], DefaultLimit)
<1>1. PICK size \in Nat : /\ \A i \in Id : FrameBytes[i] <= size
                          /\ Cardinality(Id) * size <= DefaultLimit.bytes
  BY DEF Roomy
<1>2. /\ rate.envelopes \in Nat /\ rate.bytes \in Nat /\ FrameBytes[id] \in Nat
      /\ Cardinality(Id) \in Nat
  BY BytesAssumption, IdAssumption, FS_CardinalityType DEF RateLimiter
<1>3. rate.bytes <= rate.envelopes * size /\ FrameBytes[id] <= size
  BY <1>1 DEF Budgeted
<1> DEFINE spare == Cardinality(Id) - rate.envelopes - 1
<1>4. spare \in Nat /\ Cardinality(Id) = rate.envelopes + 1 + spare
  BY <1>2
<1> HIDE DEF spare
<1>5. Cardinality(Id) * size = rate.envelopes * size + size + spare * size
  BY <1>2, <1>4
<1>6. spare * size \in Nat /\ rate.envelopes * size \in Nat
  BY <1>2, <1>4
<1>7. rate.bytes + FrameBytes[id] <= DefaultLimit.bytes
  <2>1. rate.bytes + FrameBytes[id] <= Cardinality(Id) * size
    BY <1>2, <1>3, <1>5, <1>6
  <2>2. DefaultLimit.bytes \in Nat /\ Cardinality(Id) * size \in Nat
    BY <1>2 DEF DefaultLimit
  <2>3. QED
    BY <1>1, <1>2, <2>1, <2>2
<1>8. rate.envelopes < DefaultLimit.envelopes
  BY <1>2 DEF Roomy, DefaultLimit
<1>9. QED
  BY <1>7, <1>8 DEF WithinBudget

LEMMA FlyingFinite ==
  ASSUME Flow, NEW p
  PROVE  /\ IsFiniteSet(Flying) /\ IsFiniteSet(PushesTo(p))
         /\ Cardinality(PushesTo(p)) \in Nat
<1>1. queue \in Surjection(1..Len(queue), Flying) /\ Len(queue) \in Nat
  <2>1. Len(queue) \in Nat /\ DOMAIN queue = 1..Len(queue) /\ queue \in [1..Len(queue) -> Flying]
    BY DEF Flow
  <2>2. QED
    BY <2>1 DEF Surjection, Flying, Range
<1>2. IsFiniteSet(Flying)
  BY <1>1, FS_Interval, FS_Surjection
<1>3. IsFiniteSet(PushesTo(p))
  BY <1>2, FS_Subset DEF PushesTo
<1>4. QED
  BY <1>2, <1>3, FS_CardinalityType

\* A store that lacks an envelope has room for it, and gives nothing up for it.
LEMMA RoomForAll ==
  ASSUME Sound, Roomy, NEW n \in Node, NEW id \in Id, id \notin DOMAIN entries[n]
  PROVE  /\ Admits(entries[n], Capacity, id)
         /\ Evictable(entries[n], Capacity, id) = {}
<1>1. DOMAIN entries[n] \subseteq Id
  BY HeldIds
<1>2. /\ Cardinality(DOMAIN entries[n]) \in Nat /\ Cardinality(Id) \in Nat
      /\ Cardinality(DOMAIN entries[n]) <= Cardinality(Id)
      /\ Cardinality(DOMAIN entries[n]) # Cardinality(Id)
  BY <1>1, IdAssumption, FS_Subset, FS_CardinalityType
<1>3. HasRoom(entries[n], Capacity)
  BY <1>2, BoundAssumption DEF HasRoom, Roomy
<1>4. QED
  BY <1>3 DEF Admits, Evictable

LEMMA RoomyStore ==
  ASSUME Sound, Roomy, NEW n \in Node, NEW id \in Id, NEW ttl,
         Takes(n, id, ttl), Store(n, id, ttl)
  PROVE  entries' = [entries EXCEPT ![n] = With(@, id, [ttl |-> ttl, seq |-> next_seq[n]])]
<1>1. entries = [m \in Node |-> entries[m]]
  BY DEF Sound, Stores
<1>2. Evictable(entries[n], Capacity, id) = {}
  BY RoomForAll DEF Takes, Fresh
<1>3. Without(entries[n], {}) = entries[n]
  <2>1. entries[n] = [x \in DOMAIN entries[n] |-> entries[n][x]]
    BY DEF Sound, Stores, StoreOK, Index
  <2>2. QED
    BY <2>1 DEF Without, Restrict
<1>4. QED
  BY <1>1, <1>2, <1>3 DEF Store, Accepted

LEMMA SummaryHands ==
  ASSUME Sound, Roomy, Flow, Recorded, Untuned, NEW n, NEW p, <<n, p>> \in Peerings,
         Talks(n, p), Handed(n, p), NEW f \in Flying, f.from = p, OnSummary(f),
         NEW sent, sent = Pushes(n, p, SummaryIds(DOMAIN before[p])),
         Repays(n, p, f, sent), Handled(n, p, f, sent), UNCHANGED before,
         Flying' = (Flying \ {f}) \cup sent
  PROVE  Handed(n, p)'
<1>0. /\ n \in Node /\ p \in Node /\ n # p
  BY PeeringsSymmetric, EndsDiffer
<1>1. f = Greeting(p, n) /\ UNCHANGED entries /\ peers'[n][p].rate = peers[n][p].rate
  BY SummaryTurn
<1>2. /\ Greeting(n, p)' = Greeting(n, p) /\ Greeting(p, n)' = Greeting(p, n)
      /\ Gift(n, p)' = Gift(n, p) /\ Gift(p, n)' = Gift(p, n) /\ UNCHANGED now
      /\ \A id : Pushed(n, p, id)' = Pushed(n, p, id) /\ Pushed(p, n, id)' = Pushed(p, n, id)
  BY DEF Greeting, Gift, Pushed, Handled
<1>3. Due(n, p)' = Due(n, p) /\ Due(p, n)' = Due(p, n)
  BY <1>2 DEF Due
<1>4. \A g \in sent : g.kind = "data" /\ g.to = p
  BY DEF Repays, Pushed, Data
<1>5. f.kind = "summary" /\ f.from = p /\ Greeting(n, p).from = n
  BY <1>1 DEF Greeting, Summary
<1>6. \A g \in Flying : g.kind = "data" \/ g = Greeting(n, p) => g \in Flying'
  BY <1>0, <1>5
<1>7. Hands(n, p)'
  <2>1. SummaryIds(DOMAIN before[p]) = DOMAIN before[p]
    BY <1>0 DEF Roomy, SummaryIds, Recorded
  <2>2. ASSUME NEW id \in Due(n, p)
        PROVE  Pushed(n, p, id) \in sent
    <3>1. id \in DOMAIN before[n] /\ id \notin DOMAIN before[p] /\ Forwardable(before[n][id])
      BY DEF Due, Gift
    <3>2. id \in DOMAIN entries[n]
      BY <3>1 DEF Handed, Hands
    <3>3. entries[n][id].ttl = before[n][id]
      BY <3>1, <3>2 DEF Talks, HoldsOwnOrGiven, Gift
    <3>4. difficulty[n] = 0
      BY <1>0 DEF Untuned
    <3>5. QED
      BY <2>1, <3>1, <3>2, <3>3, <3>4 DEF Pushes, MissingFromBloom, Pushed
  <2>3. \A id \in Due(n, p) : Pushed(n, p, id) \in Flying'
    BY <2>2
  <2>4. DOMAIN before[n] \subseteq DOMAIN entries[n]
    BY DEF Handed, Hands
  <2>5. QED
    BY <1>1, <1>2, <1>3, <2>3, <2>4 DEF Hands
<1>8. Hands(p, n)'
  <2>1. \A id : Pushed(p, n, id).kind = "data"
    BY DEF Pushed, Data
  <2>2. /\ DOMAIN before[p] \subseteq DOMAIN entries[p]
        /\ Greeting(n, p) \in Flying \/
           \A id \in Due(p, n) : id \in DOMAIN entries[n] \/ Pushed(p, n, id) \in Flying
    BY DEF Handed, Hands
  <2>3. QED
    BY <1>1, <1>2, <1>3, <1>6, <2>1, <2>2 DEF Hands
<1>9. Spares(n, p)'
  <2>1. PushesTo(p)' = PushesTo(p) \cup sent
    BY <1>4, <1>5 DEF PushesTo
  <2>2. /\ Cardinality(PushesTo(p) \cup sent) <= Cardinality(PushesTo(p)) + Cardinality(sent)
        /\ Cardinality(PushesTo(p) \cup sent) \in Nat
        /\ Cardinality(PushesTo(p)) \in Nat /\ Cardinality(sent) \in Nat
    <3>1. /\ IsFiniteSet(PushesTo(p)) /\ IsFiniteSet(sent)
          /\ Cardinality(PushesTo(p)) \in Nat /\ Cardinality(sent) \in Nat
      BY FlyingFinite DEF Repays
    <3>2. /\ IsFiniteSet(PushesTo(p) \cup sent)
          /\ Cardinality(PushesTo(p) \cup sent) =
               Cardinality(PushesTo(p)) + Cardinality(sent) - Cardinality(PushesTo(p) \cap sent)
      BY <3>1, FS_Union
    <3>3. Cardinality(PushesTo(p) \cap sent) \in Nat
      BY <3>1, FS_Intersection, FS_CardinalityType
    <3>4. Cardinality(PushesTo(p) \cup sent) \in Nat
      BY <3>2, FS_CardinalityType
    <3>5. QED
      BY <3>1, <3>2, <3>3, <3>4
  <2>3. Owed(n, p) = Cardinality(Gift(n, p)) /\ Owed(n, p)' = 0
    BY <1>1, <1>2, <1>4, <1>5 DEF Owed
  <2>4. Cardinality(sent) <= Cardinality(Gift(n, p)) /\ Cardinality(Gift(n, p)) \in Nat
    <3>1. Cardinality(Gift(n, p)) \in Nat
      BY <1>0, Gifts
    <3>2. QED
      BY <3>1, FS_EmptySet DEF Repays
  <2>5. Counted(p, n)' = Counted(p, n) /\ Counted(p, n).envelopes \in Nat
    <3>1. peers'[p] = peers[p]
      BY <1>0 DEF Handled
    <3>2. peers[p][n].rate \in RateLimiter
      BY <1>0 DEF Sound, Contacts, PeersOK, Talks, Meets, PeerState
    <3>3. Counted(p, n) \in RateLimiter
      BY <3>2, RateNow DEF Counted
    <3>4. QED
      BY <1>2, <3>1, <3>3 DEF Counted, InWindow, RateLimiter
  <2>6. /\ Counted(p, n).envelopes + Cardinality(PushesTo(p)) + Owed(n, p) <= Cardinality(Id)
        /\ Budgeted(Counted(p, n)) /\ Cardinality(Id) \in Nat
    BY IdAssumption, FS_CardinalityType DEF Handed, Spares
  <2>7. Counted(p, n)'.envelopes + Cardinality(PushesTo(p)') + Owed(n, p)' <= Cardinality(Id)
    BY <2>1, <2>2, <2>3, <2>4, <2>5, <2>6
  <2>8. QED
    BY <2>5, <2>6, <2>7 DEF Spares, Budgeted
<1>10. Spares(p, n)'
  <2>1. PushesTo(n)' = PushesTo(n)
    BY <1>0, <1>4, <1>5 DEF PushesTo
  <2>2. Owed(p, n)' = Owed(p, n)
    BY <1>2, <1>4, <1>6 DEF Owed, Greeting, Summary
  <2>3. Counted(n, p)' = Counted(n, p)
    BY <1>1, <1>2 DEF Counted, InWindow
  <2>4. QED
    BY <2>1, <2>2, <2>3 DEF Handed, Spares, Budgeted
<1>11. QED
  BY <1>7, <1>8, <1>9, <1>10 DEF Handed

\* The reader of an envelope counts it, and finds its proof and the sender's budget good.
LEMMA DataCounted ==
  ASSUME Sound, Roomy, Flow, Recorded, Untuned, NEW n, NEW p, <<n, p>> \in Peerings,
         Talks(n, p), Spares(p, n), NEW id \in Gift(p, n), NEW f \in Flying,
         f = Pushed(p, n, id), OnWeakProof(f) \/ OnOverBudget(f) \/ OnData(f)
  PROVE  /\ OnData(f)
         /\ Counted(n, p) \in RateLimiter
         /\ peers'[n][p].rate = Charged(Counted(n, p), FrameBytes[id])
<1>0. n \in Node /\ p \in Node /\ Contacts /\ id \in Id
  BY PeeringsSymmetric, Gifts DEF Sound
<1>1. /\ f.kind = "data" /\ f.from = p /\ f.to = n /\ f.id = id
      /\ f.proof = ProofOf[id][0]
  BY DEF Pushed, Data
<1>2. difficulty[n] = 0 /\ rate_limit[n] = DefaultLimit
  BY <1>0 DEF Untuned
<1>3. Verifies(n, f.proof)
  BY <1>0, <1>1, <1>2, ProofAssumption, DifficultyAssumption DEF Verifies
<1>4. PeerOrNew(n, p) = peers[n][p] /\ peers[n][p] \in PeerState /\ DOMAIN peers[n] = {p}
  <2>1. DOMAIN peers[n] = {p} /\ PeerOrNew(n, p) = peers[n][p]
    BY DEF Talks, Meets, PeerOrNew
  <2>2. QED
    BY <1>0, <2>1, PeerOrNewState
<1>5. /\ Counted(n, p) \in RateLimiter
      /\ Counted(n, p) = InWindow(PeerOrNew(n, p).rate, DefaultLimit)
  BY <1>4, RateNow DEF Counted, PeerState
<1>6. Counted(n, p).envelopes + 1 <= Cardinality(Id)
  <2>1. f \in PushesTo(n)
    BY <1>1 DEF PushesTo
  <2>2. IsFiniteSet(PushesTo(n)) /\ Cardinality(PushesTo(n)) \in Nat
    BY FlyingFinite
  <2>3. Cardinality(PushesTo(n)) # 0
    BY <2>1, <2>2, FS_EmptySet
  <2>4. Owed(p, n) \in Nat /\ Cardinality(Id) \in Nat
    BY <1>0, Gifts
  <2>5. Counted(n, p).envelopes + Cardinality(PushesTo(n)) + Owed(p, n) <= Cardinality(Id)
    BY DEF Spares
  <2>6. Counted(n, p).envelopes \in Nat
    BY <1>5 DEF RateLimiter
  <2>7. QED
    BY <2>2, <2>3, <2>4, <2>5, <2>6
<1>7. WithinBudget(Counted(n, p), FrameBytes[id], DefaultLimit)
  BY <1>0, <1>5, <1>6, BudgetFits DEF Spares
<1>8. OnData(f)
  BY <1>1, <1>2, <1>3, <1>5, <1>7 DEF OnWeakProof, OnOverBudget
<1> DEFINE state == [PeerOrNew(n, p) EXCEPT !.rate = Charged(Counted(n, p), FrameBytes[id])]
<1>9. Register(n, p, state)
  BY <1>1, <1>2, <1>5, <1>8 DEF OnData
<1>10. state.rate = Charged(Counted(n, p), FrameBytes[id])
  BY <1>4 DEF PeerState
<1> HIDE DEF state
<1>11. peers'[n][p] = state
  BY <1>0, <1>9 DEF Register, Contacts, With
<1>12. QED
  BY <1>5, <1>8, <1>10, <1>11

\* It has the envelope afterwards, unless that has expired, and all it had.
LEMMA DataKept ==
  ASSUME Sound, Roomy, Recorded, NEW n, NEW p, <<n, p>> \in Peerings,
         NEW id \in Gift(p, n), Forwardable(before[p][id]), NEW f, f = Pushed(p, n, id),
         OnData(f)
  PROVE  /\ DOMAIN entries[n] \subseteq DOMAIN entries'[n]
         /\ id \in DOMAIN entries'[n] \/ IsExpired(id, now)
         /\ UNCHANGED now
<1>0. n \in Node /\ p \in Node /\ id \in Id /\ Stores
  BY PeeringsSymmetric, Gifts DEF Sound
<1>1. f.to = n /\ f.id = id /\ f.ttl = DecrementTtl(before[p][id])
  BY DEF Pushed, Data
<1>2. f.ttl # 0
  <2>1. before[p][id] \in Hops
    BY <1>0 DEF Recorded, Gift
  <2>2. QED
    BY <1>1, <2>1 DEF Forwardable, DecrementTtl, Hops
<1>3. CASE Takes(n, id, f.ttl) /\ Store(n, id, f.ttl)
  <2> DEFINE ttl == f.ttl
  <2>1. Takes(n, id, ttl) /\ Store(n, id, ttl)
    BY <1>3
  <2> HIDE DEF ttl
  <2>2. entries' = [entries EXCEPT ![n] = With(@, id, [ttl |-> ttl, seq |-> next_seq[n]])]
    BY <1>0, <2>1, RoomyStore
  <2>3. entries'[n] = With(entries[n], id, [ttl |-> ttl, seq |-> next_seq[n]])
    BY <1>0, <2>2 DEF Stores
  <2>4. DOMAIN entries'[n] = DOMAIN entries[n] \cup {id}
    BY <2>3 DEF With
  <2>5. QED
    BY <2>4 DEF OnData
<1>4. CASE ~ Takes(n, id, f.ttl) /\ UNCHANGED stores
  <2>1. id \in DOMAIN entries[n] \/ IsExpired(id, now)
    BY <1>0, <1>2, <1>4, RoomForAll DEF Takes, Fresh
  <2>2. QED
    BY <1>4, <2>1 DEF stores, OnData
<1>5. QED
  BY <1>1, <1>3, <1>4 DEF OnData

LEMMA DataHands ==
  ASSUME Sound, Roomy, Flow, Recorded, Untuned, NEW n, NEW p, <<n, p>> \in Peerings,
         Talks(n, p), Handed(n, p), NEW f \in Flying, f.from = p,
         OnWeakProof(f) \/ OnOverBudget(f) \/ OnData(f),
         Handled(n, p, f, {}), UNCHANGED before, Flying' = Flying \ {f}
  PROVE  Handed(n, p)'
<1>0. n \in Node /\ p \in Node /\ n # p
  BY PeeringsSymmetric, EndsDiffer
<1>1. PICK id \in Gift(p, n) : Forwardable(before[p][id]) /\ f = Pushed(p, n, id)
  BY DataTurn
<1>2. /\ OnData(f)
      /\ Counted(n, p) \in RateLimiter
      /\ peers'[n][p].rate = Charged(Counted(n, p), FrameBytes[id])
  BY <1>1, DataCounted DEF Handed
<1>3. /\ DOMAIN entries[n] \subseteq DOMAIN entries'[n]
      /\ id \in DOMAIN entries'[n] \/ IsExpired(id, now)
      /\ UNCHANGED now
      /\ entries'[p] = entries[p] /\ peers'[p] = peers[p]
  BY <1>0, <1>1, <1>2, DataKept DEF Handled
<1>4. /\ Greeting(n, p)' = Greeting(n, p) /\ Greeting(p, n)' = Greeting(p, n)
      /\ Gift(n, p)' = Gift(n, p) /\ Gift(p, n)' = Gift(p, n)
      /\ \A x : Pushed(n, p, x)' = Pushed(n, p, x) /\ Pushed(p, n, x)' = Pushed(p, n, x)
  BY DEF Greeting, Gift, Pushed
<1>5. Due(n, p)' = Due(n, p) /\ Due(p, n)' = Due(p, n)
  BY <1>3, <1>4 DEF Due
<1>6. /\ f.kind = "data" /\ f.from = p /\ f.to = n /\ f.id = id
      /\ Greeting(n, p).kind = "summary" /\ Greeting(p, n).kind = "summary"
      /\ \A x : Pushed(n, p, x).to = p /\ Pushed(p, n, x).id = x
  BY <1>1 DEF Pushed, Data, Greeting, Summary
<1>7. /\ Greeting(n, p) \in Flying' <=> Greeting(n, p) \in Flying
      /\ Greeting(p, n) \in Flying' <=> Greeting(p, n) \in Flying
  BY <1>6
<1>8. Hands(n, p)'
  <2>1. /\ DOMAIN before[n] \subseteq DOMAIN entries[n]
        /\ Greeting(p, n) \in Flying \/
           \A x \in Due(n, p) : x \in DOMAIN entries[p] \/ Pushed(n, p, x) \in Flying
    BY DEF Handed, Hands
  <2>2. \A x : Pushed(n, p, x) \in Flying => Pushed(n, p, x) \in Flying'
    BY <1>0, <1>6
  <2>3. DOMAIN before[n] \subseteq DOMAIN entries'[n]
    BY <1>3, <2>1
  <2>4. QED
    BY <1>3, <1>4, <1>5, <1>7, <2>1, <2>2, <2>3 DEF Hands
<1>9. Hands(p, n)'
  <2>1. /\ DOMAIN before[p] \subseteq DOMAIN entries[p]
        /\ Greeting(n, p) \in Flying \/
           \A x \in Due(p, n) : x \in DOMAIN entries[n] \/ Pushed(p, n, x) \in Flying
    BY DEF Handed, Hands
  <2>2. \A x : Pushed(p, n, x) \in Flying => Pushed(p, n, x) \in Flying' \/ x = id
    BY <1>6
  <2>3. id \in Due(p, n) => id \in DOMAIN entries'[n]
    BY <1>3 DEF Due
  <2>4. QED
    BY <1>3, <1>4, <1>5, <1>7, <2>1, <2>2, <2>3 DEF Hands
<1>10. Spares(n, p)'
  <2>1. PushesTo(p)' = PushesTo(p)
    BY <1>0, <1>6 DEF PushesTo
  <2>2. Owed(n, p)' = Owed(n, p) /\ Counted(p, n)' = Counted(p, n)
    BY <1>3, <1>4, <1>7 DEF Owed, Counted, InWindow
  <2>3. QED
    BY <2>1, <2>2 DEF Handed, Spares, Budgeted
<1>11. Spares(p, n)'
  <2> DEFINE rate == Counted(n, p)
             after == Charged(rate, FrameBytes[id])
  <2>1. /\ rate \in RateLimiter /\ Budgeted(rate) /\ id \in Id
        /\ rate.envelopes + Cardinality(PushesTo(n)) + Owed(p, n) <= Cardinality(Id)
    BY <1>0, <1>2, Gifts DEF Handed, Spares
  <2>2. /\ Budgeted(after) /\ after.envelopes = rate.envelopes + 1
        /\ after.window = rate.window /\ after \in RateLimiter
    <3> HIDE DEF rate
    <3>1. QED
      BY <2>1, ChargedKeeps
  <2>3. Counted(n, p)' = after
    <3>1. rate.window = now \div 60
      <4>1. peers[n][p].rate \in RateLimiter
        BY <1>0 DEF Sound, Contacts, PeersOK, Talks, Meets, PeerState
      <4>2. QED
        BY <4>1, RateNow DEF Counted
    <3>2. InWindow(after, DefaultLimit) = after
      BY <2>2, <3>1, RateNow
    <3>3. peers'[n][p].rate = after
      BY <1>2
    <3> HIDE DEF after
    <3>4. QED
      BY <1>3, <3>2, <3>3 DEF Counted, InWindow
  <2>4. Cardinality(PushesTo(n)') = Cardinality(PushesTo(n)) - 1
    <3>1. PushesTo(n)' = PushesTo(n) \ {f} /\ f \in PushesTo(n)
      BY <1>6 DEF PushesTo
    <3>2. IsFiniteSet(PushesTo(n))
      BY FlyingFinite
    <3>3. QED
      BY <3>1, <3>2, FS_RemoveElement
  <2>5. Owed(p, n)' = Owed(p, n) /\ Owed(p, n) \in Nat /\ Cardinality(PushesTo(n)) \in Nat
    <3>1. Owed(p, n) \in Nat /\ Cardinality(PushesTo(n)) \in Nat
      BY <1>0, Gifts, FlyingFinite
    <3>2. QED
      BY <1>4, <1>7, <3>1 DEF Owed
  <2>6. rate.envelopes \in Nat /\ Cardinality(Id) \in Nat
    BY <2>1, IdAssumption, FS_CardinalityType DEF RateLimiter
  <2> HIDE DEF rate, after
  <2>7. after.envelopes + Cardinality(PushesTo(n)') + Owed(p, n)' <= Cardinality(Id)
    BY <2>1, <2>2, <2>4, <2>5, <2>6
  <2>8. QED
    BY <2>2, <2>3, <2>7 DEF Spares, Budgeted
<1>12. QED
  BY <1>8, <1>9, <1>10, <1>11 DEF Handed

\* One turn of the loop, whichever node reads.
LEMMA TurnHands ==
  ASSUME Sound, Roomy, Flow, Recorded, Untuned, NEW n, NEW p, <<n, p>> \in Peerings,
         Talks(n, p), Handed(n, p), queue # <<>>, Last(queue).from = p, OnFrame(Last(queue)),
         \E out \in SetToSeqs(BagToSet(net' (-) NetWithout(Last(queue)))) :
           queue' = Front(queue) \o out,
         UNCHANGED before
  PROVE  Handed(n, p)' /\ UNCHANGED now
<1> DEFINE f == Last(queue)
<1>1. f \in Flying /\ f.from = p /\ OnFrame(f)
  BY PopLast DEF Flow, Flying
<1>2. ASSUME NEW sent, Handled(n, p, f, sent), Repays(n, p, f, sent)
      PROVE  Flying' = (Flying \ {f}) \cup sent
  <2>1. IsFiniteSet(sent) /\ sent \cap Flying = {} /\ Answered(Last(queue), sent)
    BY <1>2 DEF Repays, Handled
  <2>2. QED
    BY <2>1, FlowDrains
<1> HIDE DEF f
<1>3. CASE OnSummary(f)
  <2>1. PICK sent : /\ sent = Pushes(n, p, SummaryIds(DOMAIN before[p]))
                    /\ Handled(n, p, f, sent) /\ Repays(n, p, f, sent)
    BY <1>1, <1>3, SummaryTurn
  <2>2. Flying' = (Flying \ {f}) \cup sent
    BY <1>2, <2>1
  <2>3. Handed(n, p)'
    BY <1>1, <1>3, <2>1, <2>2, SummaryHands
  <2>4. QED
    BY <2>1, <2>3 DEF Handled
<1>4. CASE OnWeakProof(f) \/ OnOverBudget(f) \/ OnData(f)
  <2>1. Handled(n, p, f, {}) /\ Repays(n, p, f, {})
    BY <1>1, <1>4, DataTurn
  <2>2. Flying' = Flying \ {f}
    BY <1>2, <2>1
  <2>3. Handed(n, p)'
    BY <1>1, <1>4, <2>1, <2>2, DataHands
  <2>4. QED
    BY <2>1, <2>3 DEF Handled
<1>5. QED
  BY <1>1, <1>3, <1>4 DEF OnFrame

LEMMA DrainHands ==
  ASSUME Sound, Roomy, Steady, NEW n, NEW p, InWindowOf(n, p), Handed(n, p), Drain
  PROVE  Handed(n, p)' /\ UNCHANGED <<now, window, before>>
<1>0. <<n, p>> \in Peerings
  BY DEF InWindowOf
<1>1. /\ Talks(n, p) /\ Talks(p, n) /\ <<p, n>> \in Peerings
      /\ Last(queue).from \in {n, p}
  BY DrainWhileTalking
<1>2. /\ queue # <<>> /\ OnFrame(Last(queue))
      /\ \E out \in SetToSeqs(BagToSet(net' (-) NetWithout(Last(queue)))) :
           queue' = Front(queue) \o out
      /\ UNCHANGED before /\ UNCHANGED window
  BY DEF Drain
<1>3. Flow /\ Recorded /\ Untuned
  BY DEF Steady
<1>4. Handed(p, n)
  BY DEF Handed
<1>5. CASE Last(queue).from = p
  BY <1>0, <1>1, <1>2, <1>3, <1>5, TurnHands
<1>6. CASE Last(queue).from = n
  <2>1. Handed(p, n)' /\ UNCHANGED now
    BY <1>1, <1>2, <1>3, <1>4, <1>6, TurnHands
  <2>2. QED
    BY <1>2, <2>1 DEF Handed
<1>7. QED
  BY <1>1, <1>5, <1>6

\* When both have introduced themselves, both greetings are still to be read.
LEMMA HelloHands ==
  ASSUME Sound, Steady, NEW n, NEW p, InWindowOf(n, p), Hello(p, n), p \in told[n]
  PROVE  Handed(n, p)'
<1>0. n \in Node /\ p \in Node /\ n # p
  BY PeeringsSymmetric, EndsDiffer DEF InWindowOf
<1>1. /\ before' = Copies /\ before = Copies /\ UNCHANGED <<entries, now>>
      /\ Flying' = {Greeting(n, p), Greeting(p, n)}
      /\ peers'[p][n] = NewPeer(TRUE) /\ peers'[n][p] = NewPeer(TRUE)
  BY HelloSecond DEF Greets
<1>2. /\ Greeting(n, p)' = Greeting(n, p) /\ Greeting(p, n)' = Greeting(p, n)
      /\ Gift(n, p)' = Gift(n, p) /\ Gift(p, n)' = Gift(p, n)
  BY <1>1 DEF Greeting, Gift
<1>3. Hands(n, p)' /\ Hands(p, n)'
  <2>1. DOMAIN before'[n] = DOMAIN entries'[n] /\ DOMAIN before'[p] = DOMAIN entries'[p]
    BY <1>0, <1>1, CopiesAre
  <2>2. QED
    BY <1>1, <1>2, <2>1 DEF Hands
<1>4. PushesTo(n)' = {} /\ PushesTo(p)' = {} /\ Cardinality({}) = 0
  BY <1>1, FS_EmptySet DEF PushesTo, Greeting, Summary
<1>5. /\ Counted(p, n)'.envelopes = 0 /\ Counted(p, n)'.bytes = 0
      /\ Counted(n, p)'.envelopes = 0 /\ Counted(n, p)'.bytes = 0
  BY <1>1 DEF Counted, NewPeer, NoTraffic, InWindow
<1>6. /\ Owed(n, p)' \in Nat /\ Owed(n, p)' <= Cardinality(Id)
      /\ Owed(p, n)' \in Nat /\ Owed(p, n)' <= Cardinality(Id)
  <2>1. Recorded
    BY DEF Steady
  <2>2. /\ Cardinality(Gift(n, p)) \in Nat /\ Cardinality(Gift(p, n)) \in Nat
        /\ Cardinality(Id) \in Nat
        /\ Cardinality(Gift(n, p)) <= Cardinality(Id)
        /\ Cardinality(Gift(p, n)) <= Cardinality(Id)
    BY <1>0, <2>1, Gifts
  <2>3. QED
    BY <1>2, <2>2 DEF Owed
<1>7. Budgeted(Counted(p, n))' /\ Budgeted(Counted(n, p))'
  BY <1>5 DEF Budgeted
<1>8. Spares(n, p)' /\ Spares(p, n)'
  BY <1>4, <1>5, <1>6, <1>7 DEF Spares
<1>9. QED
  BY <1>3, <1>8 DEF Handed

LEMMA HandsUnchanged ==
  ASSUME NEW n, NEW p, Hands(n, p), UNCHANGED <<queue, entries, now, before>>
  PROVE  Hands(n, p)'
  BY DEF Hands, Flying, Greeting, Due, Gift, Pushed

LEMMA SparesUnchanged ==
  ASSUME NEW n, NEW p, Spares(n, p), UNCHANGED <<queue, peers, now, before>>
  PROVE  Spares(n, p)'
  BY DEF Spares, Counted, InWindow, PushesTo, Flying, Owed, Greeting, Gift, Budgeted

\* A window is in one stage at a time.
LEMMA StagesDiffer ==
  ASSUME NEW n, NEW p
  PROVE  /\ Talks(n, p) => ~ Greets(n, p) /\ ~ Leaves(n, p)
         /\ Leaves(n, p) => ~ Greets(n, p)
  BY DEF Talks, Greets, Leaves, Alone, Meets

LEMMA WindowHands ==
  ASSUME Sound, Roomy, Steady, NEW n, NEW p, InWindowOf(n, p), SimNext,
         \/ Greets(n, p)
         \/ Talks(n, p) /\ Handed(n, p)
         \/ Leaves(n, p) /\ Hands(n, p) /\ Hands(p, n)
  PROVE  \/ window' = <<>>
         \/ /\ window' = <<n, p>>
            /\ \/ Greets(n, p)'
               \/ Talks(n, p)' /\ Handed(n, p)'
               \/ Leaves(n, p)' /\ Hands(n, p)' /\ Hands(p, n)'
<1>0. window = <<n, p>>
  BY DEF InWindowOf
<1>1. CASE Hello(n, p) /\ window = <<n, p>>
  BY <1>1, HelloFirst
<1>2. CASE Hello(p, n) /\ p \in told[n]
  <2>1. Talks(n, p)' /\ InWindowOf(n, p)'
    BY <1>2, HelloSecond
  <2>2. QED
    BY <1>2, <2>1, HelloHands DEF InWindowOf
<1>3. CASE OnPeerLost(n, p) /\ UNCHANGED simVars
  <2>1. Leaves(n, p)' /\ Leaves(n, p) /\ UNCHANGED <<entries, now>>
    BY <1>3, PartFirst
  <2>2. UNCHANGED <<window, queue, before>>
    BY <1>3 DEF simVars
  <2>3. Hands(n, p) /\ Hands(p, n)
    BY <2>1, StagesDiffer
  <2>4. Hands(n, p)' /\ Hands(p, n)'
    BY <2>1, <2>2, <2>3, HandsUnchanged
  <2>5. QED
    BY <1>0, <2>1, <2>2, <2>4
<1>4. CASE /\ OnPeerLost(p, n) /\ p \notin told[n]
           /\ window' = <<>> /\ UNCHANGED <<queue, iterations, before>>
  BY <1>4
<1>5. CASE Drain
  <2>1. Talks(n, p)
    BY <1>5, DrainWhileTalking
  <2>2. Handed(n, p)
    BY <2>1, StagesDiffer
  <2>3. Talks(n, p)'
    BY <1>5, DrainKeeps
  <2>4. QED
    BY <1>0, <1>5, <2>2, <2>3, DrainHands
<1>6. CASE Disconnect
  <2>1. Leaves(n, p)' /\ Talks(n, p) /\ UNCHANGED <<entries, now, before>>
    BY <1>6, DisconnectKeeps
  <2>2. UNCHANGED <<window, queue>>
    BY <1>6 DEF Disconnect, simVars
  <2>3. Hands(n, p) /\ Hands(p, n)
    BY <2>1, StagesDiffer DEF Handed
  <2>4. Hands(n, p)' /\ Hands(p, n)'
    BY <2>1, <2>2, <2>3, HandsUnchanged
  <2>5. QED
    BY <1>0, <2>1, <2>2, <2>4
<1>7. QED
  BY <1>1, <1>2, <1>3, <1>4, <1>5, <1>6, WindowSteps

LEMMA StageUnchanged ==
  ASSUME NEW n, NEW p, UNCHANGED <<vars, simVars>>,
         \/ Greets(n, p)
         \/ Talks(n, p) /\ Handed(n, p)
         \/ Leaves(n, p) /\ Hands(n, p) /\ Hands(p, n)
  PROVE  \/ Greets(n, p)'
         \/ Talks(n, p)' /\ Handed(n, p)'
         \/ Leaves(n, p)' /\ Hands(n, p)' /\ Hands(p, n)'
<1>1. /\ UNCHANGED <<entries, peers, settings, now, links, told, net>>
      /\ UNCHANGED <<window, queue, iterations, before>>
  BY DEF vars, stores, transport, simVars
<1>2. Copies' = Copies /\ (Meets(n, p) => Meets(n, p)') /\ (Meets(p, n) => Meets(p, n)')
  BY <1>1 DEF Copies, Meets
<1>3. Greets(n, p) => Greets(n, p)'
  BY <1>1, <1>2 DEF Greets, Alone, Greeting
<1>4. /\ HoldsOwnOrGiven(n, p) => HoldsOwnOrGiven(n, p)'
      /\ HoldsOwnOrGiven(p, n) => HoldsOwnOrGiven(p, n)'
  BY <1>1 DEF HoldsOwnOrGiven, Gift
<1>5. Talks(n, p) => Talks(n, p)'
  BY <1>1, <1>2, <1>4 DEF Talks, Flying, Spoken, Greeting, Pushed, Gift, Owed
<1>6. Leaves(n, p) => Leaves(n, p)'
  BY <1>1, <1>2, <1>4 DEF Leaves, Alone
<1>7. (Hands(n, p) => Hands(n, p)') /\ (Hands(p, n) => Hands(p, n)')
  BY <1>1, HandsUnchanged
<1>8. (Spares(n, p) => Spares(n, p)') /\ (Spares(p, n) => Spares(p, n)')
  BY <1>1, SparesUnchanged
<1>9. QED
  BY <1>3, <1>5, <1>6, <1>7, <1>8 DEF Handed

LEMMA HandingNext ==
  ASSUME Sound, Scheduled, Roomy, Handing, [SimNext]_<<vars, simVars>>
  PROVE  Handing'
<1> SUFFICES ASSUME NEW n \in Node, NEW p \in Node, InWindowOf(n, p)'
             PROVE  \/ Greets(n, p)'
                    \/ Talks(n, p)' /\ Handed(n, p)'
                    \/ Leaves(n, p)' /\ Hands(n, p)' /\ Hands(p, n)'
  BY DEF Handing
<1>0. window' = <<n, p>>
  BY DEF InWindowOf
<1>1. ASSUME NEW a \in Node, NEW b \in Node, InWindowOf(a, b)
      PROVE  \/ Greets(a, b)
             \/ Talks(a, b) /\ Handed(a, b)
             \/ Leaves(a, b) /\ Hands(a, b) /\ Hands(b, a)
  BY <1>1 DEF Handing
<1>2. CASE UNCHANGED <<vars, simVars>>
  <2>1. \E a, b \in Node : InWindowOf(a, b)
    BY <1>0, <1>2 DEF Scheduled, BetweenContacts, simVars
  <2>2. InWindowOf(n, p)
    BY <1>0, <1>2, <2>1 DEF InWindowOf, simVars
  <2>3. QED
    BY <1>1, <1>2, <2>2, StageUnchanged
<1>3. CASE SimNext /\ BetweenContacts
  <2>1. \E e \in Peerings : Begin(e[1], e[2])
    BY <1>0, <1>3, BetweenSteps DEF ComposeAt, AtTick, simVars
  <2>2. PICK a, b : <<a, b>> \in Peerings /\ Begin(a, b)
    BY <2>1 DEF Peerings
  <2>3. Greets(a, b)' /\ window' = <<a, b>>
    BY <1>3, <2>2, BeginKeeps DEF Scheduled, Begin
  <2>4. QED
    BY <1>0, <2>3
<1>4. CASE SimNext /\ \E a, b \in Node : InWindowOf(a, b)
  <2>1. PICK a \in Node, b \in Node : InWindowOf(a, b)
    BY <1>4
  <2>2. /\ window' = <<a, b>>
        /\ \/ Greets(a, b)'
           \/ Talks(a, b)' /\ Handed(a, b)'
           \/ Leaves(a, b)' /\ Hands(a, b)' /\ Hands(b, a)'
    BY <1>0, <1>1, <1>4, <2>1, WindowHands DEF Scheduled
  <2>3. QED
    BY <1>0, <2>2
<1>5. QED
  BY <1>2, <1>3, <1>4 DEF Scheduled

LEMMA HandingAlways ==
  ASSUME Roomy
  PROVE  SimSpec => [](Sound /\ Scheduled /\ Handing)
<1>1. SimInit => Handing
  BY DEF SimInit, Handing, InWindowOf
<1>2. Sound /\ Scheduled /\ Handing /\ [SimNext]_<<vars, simVars>> => Handing'
  BY HandingNext
<1>3. QED
  BY <1>1, <1>2, ScheduledAlways, PTL DEF SimSpec

----
(***************************************************************************)
(* What the carriers of the devices see of it: one exchange.               *)
(***************************************************************************)
Shown == IF window = <<>> THEN Copies ELSE before

\* What n has of a window that is over.
LEMMA TakesAllDue ==
  ASSUME Sound, Recorded, NEW n \in Node, NEW p \in Node, queue = <<>>,
         HoldsOwnOrGiven(n, p), Hands(n, p), Hands(p, n)
  PROVE  Copies[n] = [id \in DOMAIN before[n] \cup Due(p, n) |->
                        IF id \in DOMAIN before[n] THEN before[n][id]
                        ELSE DecrementTtl(before[p][id])]
<1>1. /\ Copies = [m \in Node |-> [id \in DOMAIN entries[m] |-> entries[m][id].ttl]]
      /\ Flying = {}
  BY NothingFlies DEF Copies
<1>2. Due(p, n) \subseteq DOMAIN entries[n] /\ DOMAIN before[n] \subseteq DOMAIN entries[n]
  BY <1>1 DEF Hands
<1>3. \A id \in DOMAIN entries[n] :
        \/ id \in DOMAIN before[n] /\ entries[n][id].ttl = before[n][id]
        \/ /\ id \in Due(p, n) /\ id \notin DOMAIN before[n]
           /\ entries[n][id].ttl = DecrementTtl(before[p][id])
  BY DEF HoldsOwnOrGiven, Due, Gift
<1>4. DOMAIN entries[n] = DOMAIN before[n] \cup Due(p, n)
  BY <1>2, <1>3
<1>5. \A id \in DOMAIN entries[n] :
        entries[n][id].ttl =
          IF id \in DOMAIN before[n] THEN before[n][id] ELSE DecrementTtl(before[p][id])
  BY <1>3 DEF Due, Gift
<1>6. QED
  BY <1>1, <1>4, <1>5

\* The second of the two nodes is told that the window is over.
LEMMA PartMeets ==
  ASSUME Sound, Steady, NEW n, NEW p, InWindowOf(n, p), Leaves(n, p),
         Hands(n, p), Hands(p, n), window' = <<>>, UNCHANGED <<entries, now>>
  PROVE  Exchange!Meet(n, p)
<1>0. {n, p} \in Link /\ n \in Node /\ p \in Node /\ n # p /\ window = <<n, p>>
  BY PeeringsSymmetric, EndsDiffer DEF InWindowOf, Peerings
<1>1. Shown = before /\ Shown' = Copies
  BY <1>0 DEF Shown, Copies
<1>2. queue = <<>> /\ HoldsOwnOrGiven(n, p) /\ HoldsOwnOrGiven(p, n) /\ Recorded
  BY DEF Leaves, Steady
<1>3. Copies[n] = Exchange!Enriched(n, p)
  <2>1. Exchange!News(n, p) = Due(p, n)
    BY <1>1
    DEF Exchange!News, Exchange!Forwardable, Exchange!IsExpired, Due, Gift, Forwardable,
        IsExpired, Shown
  <2>2. Copies[n] = [id \in DOMAIN before[n] \cup Due(p, n) |->
                       IF id \in DOMAIN before[n] THEN before[n][id]
                       ELSE DecrementTtl(before[p][id])]
    BY <1>0, <1>2, TakesAllDue
  <2>3. QED
    BY <1>1, <2>1, <2>2 DEF Exchange!Enriched, Exchange!DecrementTtl, DecrementTtl, Shown
<1>4. Copies[p] = Exchange!Enriched(p, n)
  <2>1. Exchange!News(p, n) = Due(n, p)
    BY <1>1
    DEF Exchange!News, Exchange!Forwardable, Exchange!IsExpired, Due, Gift, Forwardable,
        IsExpired, Shown
  <2>2. Copies[p] = [id \in DOMAIN before[p] \cup Due(n, p) |->
                       IF id \in DOMAIN before[p] THEN before[p][id]
                       ELSE DecrementTtl(before[n][id])]
    BY <1>0, <1>2, TakesAllDue
  <2>3. QED
    BY <1>1, <2>1, <2>2 DEF Exchange!Enriched, Exchange!DecrementTtl, DecrementTtl, Shown
<1>5. \A m \in Node \ {n, p} : Copies[m] = before[m]
  BY DEF InWindowOf, Apart
<1>6. /\ Copies = [m \in Node |-> Copies[m]] /\ before = [m \in Node |-> before[m]]
  BY <1>2, CopiesAre DEF Recorded
<1>7. Copies = [before EXCEPT ![n] = Exchange!Enriched(n, p), ![p] = Exchange!Enriched(p, n)]
  <2> DEFINE a == Exchange!Enriched(n, p)
             b == Exchange!Enriched(p, n)
             c == Copies
  <2>1. /\ c[n] = a /\ c[p] = b /\ \A m \in Node \ {n, p} : c[m] = before[m]
        /\ c = [m \in Node |-> c[m]] /\ before = [m \in Node |-> before[m]]
    BY <1>3, <1>4, <1>5, <1>6
  <2> HIDE DEF a, b, c
  <2>2. c = [before EXCEPT ![n] = a, ![p] = b]
    BY <1>0, <2>1
  <2>3. QED
    BY <2>2 DEF a, b, c
<1>8. QED
  BY <1>0, <1>1, <1>7 DEF Exchange!Meet, Shown

LEMMA ComposeRefines ==
  ASSUME Sound, Roomy, NEW id \in Id, ComposeAt(id)
  PROVE  Exchange!Compose(id) \/ UNCHANGED <<Shown, now>>
<1> DEFINE n == Origin[id]
           ttl == InitTtl[id]
<1>0. n \in Node
  BY OriginAssumption
<1>1. window = <<>> /\ window' = <<>> /\ UNCHANGED now /\ Shown = Copies /\ Shown' = Copies'
  BY DEF ComposeAt, ComposeLocal, simVars, Shown
<1>2. CASE Takes(n, id, ttl) /\ Store(n, id, ttl)
  <2>1. id \notin DOMAIN entries[n] /\ ~ IsExpired(id, now)
    BY <1>2 DEF Takes, Fresh
  <2>2. /\ \A m \in Node \ {n} : entries'[m] = entries[m]
        /\ entries'[n] = With(entries[n], id, [ttl |-> ttl, seq |-> next_seq[n]])
    <3> HIDE DEF n, ttl
    <3>1. entries' = [entries EXCEPT ![n] = With(@, id, [ttl |-> ttl, seq |-> next_seq[n]])]
      BY <1>0, <1>2, RoomyStore
    <3>2. QED
      BY <1>0, <3>1 DEF Sound, Stores
  <2>3. Copies' = [Copies EXCEPT ![n] = With(@, id, ttl)]
    <3> HIDE DEF n, ttl
    <3>1. \A m \in Node \ {n} : Copies'[m] = Copies[m]
      BY <2>2 DEF Copies
    <3>2. Copies'[n] = With(Copies[n], id, ttl)
      BY <1>0, <2>2 DEF Copies, With
    <3>3. DOMAIN Copies = Node /\ DOMAIN Copies' = Node
      BY DEF Copies
    <3>4. /\ Copies = [m \in Node |-> Copies[m]] /\ Copies' = [m \in Node |-> Copies'[m]]
      BY DEF Copies
    <3> DEFINE c == Copies
               d == Copies'
    <3>5. /\ \A m \in Node \ {n} : d[m] = c[m]
          /\ d[n] = With(c[n], id, ttl) /\ DOMAIN c = Node
          /\ c = [m \in Node |-> c[m]] /\ d = [m \in Node |-> d[m]]
      BY <3>1, <3>2, <3>3, <3>4
    <3> HIDE DEF c, d
    <3>6. d = [c EXCEPT ![n] = With(@, id, ttl)]
      BY <1>0, <3>5
    <3>7. QED
      BY <3>6 DEF c, d
  <2>4. id \notin DOMAIN Copies[n]
    BY <1>0, <2>1 DEF Copies
  <2>5. QED
    BY <1>1, <2>1, <2>3, <2>4
    DEF Exchange!Compose, Exchange!IsExpired, Exchange!With, IsExpired, With, Shown
<1>3. CASE UNCHANGED stores
  BY <1>1, <1>3 DEF stores, Copies
<1>4. QED
  BY <1>2, <1>3 DEF ComposeAt, ComposeLocal

\* Until it is over, a window shows nothing.
LEMMA WindowRefines ==
  ASSUME Sound, Roomy, Steady, NEW n, NEW p, InWindowOf(n, p), SimNext,
         \/ Greets(n, p)
         \/ Talks(n, p) /\ Handed(n, p)
         \/ Leaves(n, p) /\ Hands(n, p) /\ Hands(p, n)
  PROVE  Exchange!Meet(n, p) \/ UNCHANGED <<Shown, now>>
<1>0. window = <<n, p>> /\ window # <<>>
  BY DEF InWindowOf
<1>1. UNCHANGED <<window, before, now>> => UNCHANGED <<Shown, now>>
  BY <1>0 DEF Shown
<1>2. CASE Hello(n, p) /\ window = <<n, p>>
  BY <1>1, <1>2, HelloFirst
<1>3. CASE Hello(p, n) /\ p \in told[n]
  BY <1>1, <1>3, HelloSecond DEF Hello
<1>4. CASE OnPeerLost(n, p) /\ UNCHANGED simVars
  BY <1>1, <1>4, PartFirst DEF simVars
<1>5. CASE /\ OnPeerLost(p, n) /\ p \notin told[n]
           /\ window' = <<>> /\ UNCHANGED <<queue, iterations, before>>
  <2>1. Leaves(n, p) /\ UNCHANGED <<entries, now>>
    BY <1>5, PartSecond
  <2>2. Hands(n, p) /\ Hands(p, n)
    BY <2>1, StagesDiffer
  <2>3. QED
    BY <1>5, <2>1, <2>2, PartMeets
<1>6. CASE Drain
  <2>1. Handed(n, p)
    BY <1>6, DrainWhileTalking, StagesDiffer
  <2>2. QED
    BY <1>1, <1>6, <2>1, DrainHands
<1>7. CASE Disconnect
  BY <1>1, <1>7, DisconnectKeeps DEF Disconnect, simVars
<1>8. QED
  BY <1>2, <1>3, <1>4, <1>5, <1>6, <1>7, WindowSteps

LEMMA ExchangeStep ==
  ASSUME Sound, Scheduled, Roomy, Handing, [SimNext]_<<vars, simVars>>
  PROVE  [Exchange!ExchangeNext]_<<Shown, now>>
<1>1. CASE UNCHANGED <<vars, simVars>>
  BY <1>1 DEF vars, stores, simVars, Shown, Copies
<1>2. CASE SimNext /\ BetweenContacts
  <2>1. ASSUME NEW id \in Id, ComposeAt(id)
        PROVE  Exchange!Compose(id) \/ UNCHANGED <<Shown, now>>
    BY <2>1, ComposeRefines
  <2>2. ASSUME AtTick PROVE Exchange!Pass
    BY <2>2 DEF AtTick, Tick, stores, simVars, Exchange!Pass, Shown, Copies
  <2>3. ASSUME NEW e \in Peerings, Begin(e[1], e[2]) PROVE UNCHANGED <<Shown, now>>
    BY <2>3 DEF Begin, LinkUp, stores, Shown, Copies
  <2>4. QED
    BY <1>2, <2>1, <2>2, <2>3, BetweenSteps DEF Exchange!ExchangeNext
<1>3. CASE SimNext /\ \E n, p \in Node : InWindowOf(n, p)
  <2>1. PICK n \in Node, p \in Node : InWindowOf(n, p)
    BY <1>3
  <2>2. Exchange!Meet(n, p) \/ UNCHANGED <<Shown, now>>
    BY <1>3, <2>1, WindowRefines DEF Scheduled, Handing
  <2>3. n # p
    BY <2>1, EndsDiffer DEF InWindowOf
  <2>4. QED
    BY <2>2, <2>3 DEF Exchange!ExchangeNext
<1>4. QED
  BY <1>1, <1>2, <1>3 DEF Scheduled

LEMMA ExchangeStart == SimInit => Exchange!ExchangeInit
<1> SUFFICES ASSUME SimInit PROVE Exchange!ExchangeInit
  OBVIOUS
<1>1. window = <<>> /\ now = 0 /\ entries = [n \in Node |-> NoEntries]
  BY DEF SimInit, Init
<1>2. Copies = [n \in Node |-> [id \in {} |-> 0]]
  BY <1>1 DEF Copies, NoEntries
<1>3. QED
  BY <1>1, <1>2 DEF Exchange!ExchangeInit

\* Where stores have room, limits are not reached and no summary claims too much, a
\* contact window is one exchange: both come away with everything the other could pass
\* on, one hop poorer, whatever they held and in whichever order frames were read.
THEOREM WindowsExchangeHolds ==
  ASSUME Roomy
  PROVE  SimSpec => WindowsExchange
<1>1. /\ Sound /\ Scheduled /\ Handing /\ [SimNext]_<<vars, simVars>>
      => [Exchange!ExchangeNext]_<<IF window = <<>> THEN Copies ELSE before, now>>
  BY ExchangeStep DEF Shown
<1>2. QED
  BY <1>1, ExchangeStart, HandingAlways, PTL
  DEF SimSpec, WindowsExchange, Exchange!ExchangeSpec
====
