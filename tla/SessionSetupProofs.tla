---- MODULE SessionSetupProofs ----
(***************************************************************************)
(* Theorems about the two ways to a session, each alone and both in one    *)
(* state space.                                                            *)
(*                                                                         *)
(* The handshake, for any handles and any mixture of their messages.  A    *)
(* responder takes anything for a first message, and an initiator answers  *)
(* to a transcript it has not chosen.  What pairs the two is the third     *)
(* message: it is read only on the transcript it was written on, so its    *)
(* writer is done with the responder's very transcript, the first message  *)
(* of which is the writer's own.                                           *)
(*                                                                         *)
(* The prekeys, for any number of keys, first messages and restarts.  The  *)
(* inductive invariant `Kept` adds to the properties what makes them       *)
(* survive each call: a number is of one kind for good, in the pool and in *)
(* its saved bytes alike; a one-time prekey still in the pool has not      *)
(* answered since it was last brought back; and whatever a bundle names is *)
(* in the pool or has left it in a way that was recorded.                  *)
(***************************************************************************)
EXTENDS SessionSetup, SequenceTheorems, WellFoundedInduction, TLAPS

Session == [secret : Seq(wire), ratchet : Handle \X Nat]

Shaped ==
  /\ transcript \in [Handle -> Seq(wire)]
  /\ established \in [Handle -> Seq(Session)]
  /\ taken \subseteq Handle
  /\ \A m \in wire : m.from \in Handle /\ m.on \in Seq(wire)

\* Every handle has put its own message where its role writes, and a responder has
\* read a third message on its own transcript.
Placed ==
  /\ \A h \in Handle : Len(transcript[h]) <= 3
  /\ \A i \in Initiators : Len(transcript[i]) >= 1 => transcript[i][1].from = i
  /\ \A r \in Responders :
       /\ Len(transcript[r]) >= 2 => transcript[r][2].from = r
       /\ Len(transcript[r]) = 3 =>
            /\ Len(transcript[r][3].on) = 2
            /\ transcript[r] = Append(transcript[r][3].on, transcript[r][3])

\* The session a responder gives.
Yield(r) == [secret |-> transcript[r], ratchet |-> <<r, 0>>]

\* The writer of a third message is done with it; the writer of a fourth is a
\* responder that has given its session.
Signed ==
  \A m \in wire :
    /\ Len(m.on) = 2 => m.from \in Initiators /\ transcript[m.from] = Append(m.on, m)
    /\ Len(m.on) = 3 => m.from \in Responders \cap taken /\ transcript[m.from] = m.on

Held ==
  \A r \in Responders :
    /\ r \notin taken => established[r] = <<>>
    /\ r \in taken => Len(transcript[r]) = 3 /\ established[r] = <<Yield(r)>>

Joined ==
  /\ strays \subseteq Initiators \cap taken
  /\ \A i \in Initiators :
       /\ i \notin taken \/ i \in strays => established[i] = <<>>
       /\ i \in taken => Len(transcript[i]) = 3
       /\ i \in taken \ strays =>
            \E r \in Responders \cap taken :
              transcript[r] = transcript[i] /\ established[i] = <<Yield(r)>>

Paired == Shaped /\ Placed /\ Signed /\ Held /\ Joined

----
(***************************************************************************)
(* The invariant is inductive.                                             *)
(***************************************************************************)
LEMMA PairedInit == HandshakeInit => Paired
<1> SUFFICES ASSUME HandshakeInit PROVE Paired
  OBVIOUS
<1>1. Shaped
  BY EmptySeq DEF HandshakeInit, Shaped
<1>2. Placed
  BY DEF HandshakeInit, Placed, Handle
<1>3. Signed /\ Held /\ Joined
  BY DEF HandshakeInit, Signed, Held, Joined, Handle
<1> QED BY <1>1, <1>2, <1>3 DEF Paired

\* More messages on the wire make no sequence of them anything else.
LEMMA WireGrows ==
  ASSUME wire \subseteq wire'
  PROVE  Seq(wire) \subseteq Seq(wire') /\ Seq(Session) \subseteq Seq(Session')
<1>1. Seq(wire) \subseteq Seq(wire')
  BY SeqMonotonic
<1>2. Session \subseteq Session'
  BY <1>1 DEF Session
<1> QED BY <1>1, <1>2, SeqMonotonic

\* `write_message` keeps it: the writer was not finished, so no message and no
\* session speaks of its transcript.
LEMMA WriteKeeps ==
  ASSUME Paired, NEW h \in Handle, WriteMessage(h)
  PROVE  Paired'
<1> DEFINE t == transcript[h]
           m == Written(h)
<1>1. /\ t \in Seq(wire) /\ Len(t) \in {0, 1, 2}
      /\ h \in Initiators <=> Len(t) \in {0, 2}
      /\ m.from = h /\ m.on = t
      /\ h \notin taken
  <2>1. t \in Seq(wire) /\ Len(t) \in Nat /\ Len(t) <= 3
    BY DEF Paired, Shaped, Placed
  <2>2. /\ Len(t) # 3 /\ h \notin taken
        /\ h \in Initiators <=> Len(t) % 2 = 0
    BY DEF WriteMessage, MayWrite, IsFinished, Rounds
  <2>3. Len(t) \in {0, 1, 2}
    <3> \A n \in Nat : n <= 3 /\ n # 3 => n \in {0, 1, 2}
      OBVIOUS
    <3> HIDE DEF t
    <3> QED BY <2>1, <2>2
  <2>4. m.from = h /\ m.on = t
    BY DEF Written
  <2>5. Len(t) % 2 = 0 <=> Len(t) \in {0, 2}
    <3> \A n \in {0, 1, 2} : n % 2 = 0 <=> n \in {0, 2}
      OBVIOUS
    <3> HIDE DEF t
    <3> QED BY <2>3
  <2> QED BY <2>1, <2>2, <2>3, <2>4, <2>5
<1>2. /\ wire \subseteq wire' /\ m \in wire' /\ wire' = wire \cup {m}
      /\ transcript' = [transcript EXCEPT ![h] = Append(t, m)]
      /\ UNCHANGED <<taken, established, strays>>
  BY DEF WriteMessage
<1>3. Seq(wire) \subseteq Seq(wire') /\ Seq(Session) \subseteq Seq(Session')
  BY <1>2, WireGrows
<1>4. /\ Append(t, m) \in Seq(wire') /\ Len(Append(t, m)) = Len(t) + 1
      /\ Append(t, m)[Len(t) + 1] = m
      /\ \A k \in 1 .. Len(t) : Append(t, m)[k] = t[k]
  <2>1. t \in Seq(wire') /\ m \in wire'
    BY <1>1, <1>2, <1>3
  <2> HIDE DEF t, m
  <2> QED BY <2>1, AppendProperties
<1>5. /\ transcript'[h] = Append(t, m)
      /\ \A o \in Handle \ {h} : transcript'[o] = transcript[o]
  BY <1>2 DEF Paired, Shaped
<1> HIDE DEF t, m
<1>6. Shaped'
  <2>1. transcript' \in [Handle -> Seq(wire')]
    BY <1>2, <1>3, <1>4 DEF Paired, Shaped
  <2>2. established' \in [Handle -> Seq(Session')]
    BY <1>2, <1>3 DEF Paired, Shaped
  <2>3. \A x \in wire' : x.from \in Handle /\ x.on \in Seq(wire')
    BY <1>1, <1>2, <1>3 DEF Paired, Shaped
  <2> QED BY <1>2, <2>1, <2>2, <2>3 DEF Paired, Shaped
<1>7. Placed'
  <2>1. \A o \in Handle : Len(transcript'[o]) <= 3
    BY <1>1, <1>4, <1>5 DEF Paired, Placed
  <2>2. \A i \in Initiators : Len(transcript'[i]) >= 1 => transcript'[i][1].from = i
    <3> SUFFICES ASSUME NEW i \in Initiators, Len(transcript'[i]) >= 1
                 PROVE  transcript'[i][1].from = i
      OBVIOUS
    <3>1. CASE i # h
      BY <3>1, <1>5 DEF Paired, Placed, Handle
    <3>2. CASE i = h /\ Len(t) = 0
      BY <3>2, <1>1, <1>4, <1>5
    <3>3. CASE i = h /\ Len(t) = 2
      <4>1. t[1].from = h
        BY <3>3 DEF Paired, Placed, t
      <4> QED BY <3>3, <4>1, <1>4, <1>5
    <3> QED BY <3>1, <3>2, <3>3, <1>1
  <2>3. ASSUME NEW r \in Responders
        PROVE  /\ Len(transcript'[r]) >= 2 => transcript'[r][2].from = r
               /\ Len(transcript'[r]) = 3 =>
                    /\ Len(transcript'[r][3].on) = 2
                    /\ transcript'[r] = Append(transcript'[r][3].on, transcript'[r][3])
    <3>1. CASE r # h
      BY <3>1, <1>5 DEF Paired, Placed, Handle
    <3>2. CASE r = h
      <4>1. h \notin Initiators
        BY <3>2, HandleAssumption
      <4>2. Len(t) = 1
        BY <4>1, <1>1
      <4> QED BY <4>2, <3>2, <1>1, <1>4, <1>5
    <3> QED BY <3>1, <3>2
  <2> QED BY <2>1, <2>2, <2>3 DEF Placed
<1>8. Signed'
  <2> SUFFICES ASSUME NEW x \in wire'
               PROVE  /\ Len(x.on) = 2 => /\ x.from \in Initiators
                                          /\ transcript'[x.from] = Append(x.on, x)
                      /\ Len(x.on) = 3 => /\ x.from \in Responders \cap taken
                                          /\ transcript'[x.from] = x.on
    BY <1>2 DEF Signed
  <2>1. CASE x = m
    BY <2>1, <1>1, <1>5
  <2>2. CASE x \in wire
    <3>1. CASE Len(x.on) = 2
      <4>1. x.from \in Initiators /\ transcript[x.from] = Append(x.on, x)
        BY <2>2, <3>1 DEF Paired, Signed
      <4>2. x.on \in Seq(wire) /\ x \in wire
        BY <2>2 DEF Paired, Shaped
      <4>3. Len(Append(x.on, x)) = Len(x.on) + 1
        BY <4>2, AppendProperties
      <4>4. x.from # h
        BY <3>1, <4>1, <4>3, <1>1 DEF t
      <4> QED BY <3>1, <4>1, <4>4, <1>5 DEF Handle
    <3>2. CASE Len(x.on) = 3
      BY <2>2, <3>2, <1>1, <1>5 DEF Paired, Signed, Handle
    <3> QED BY <3>1, <3>2
  <2> QED BY <2>1, <2>2, <1>2
<1>9. Held'
  <2> SUFFICES ASSUME NEW r \in Responders
               PROVE  /\ r \notin taken => established[r] = <<>>
                      /\ r \in taken => Len(transcript'[r]) = 3 /\ established[r] = <<Yield(r)'>>
    BY <1>2 DEF Held
  <2>1. CASE r \in taken
    BY <2>1, <1>1, <1>5 DEF Paired, Held, Yield, Handle
  <2>2. CASE r \notin taken
    BY <2>2 DEF Paired, Held
  <2> QED BY <2>1, <2>2
<1>10. Joined'
  <2> SUFFICES ASSUME NEW i \in Initiators
               PROVE  /\ i \notin taken \/ i \in strays => established[i] = <<>>
                      /\ i \in taken => Len(transcript'[i]) = 3
                      /\ i \in taken \ strays =>
                           \E r \in Responders \cap taken :
                             /\ transcript'[r] = transcript'[i]
                             /\ established[i] = <<Yield(r)'>>
    BY <1>2 DEF Joined, Paired
  <2>1. i \in taken => transcript'[i] = transcript[i]
    BY <1>1, <1>5 DEF Handle
  <2>2. \A r \in Responders \cap taken :
          transcript'[r] = transcript[r] /\ Yield(r)' = Yield(r)
    BY <1>1, <1>5 DEF Handle, Yield
  <2> QED BY <2>1, <2>2 DEF Paired, Joined
<1> QED BY <1>6, <1>7, <1>8, <1>9, <1>10 DEF Paired

\* `read_message` keeps it: the reader was not finished either.
LEMMA ReadKeeps ==
  ASSUME Paired, NEW h \in Handle, NEW m \in wire, ReadMessage(h, m)
  PROVE  Paired'
<1> DEFINE t == transcript[h]
<1>1. /\ t \in Seq(wire) /\ Len(t) \in {0, 1, 2}
      /\ h \in Initiators => Len(t) = 1
      /\ h \in Responders => Len(t) \in {0, 2}
      /\ t = <<>> \/ m.on = t
      /\ h \notin taken
  <2>1. t \in Seq(wire) /\ Len(t) \in Nat /\ Len(t) <= 3
    BY DEF Paired, Shaped, Placed
  <2>2. /\ Len(t) # 3 /\ h \notin taken
        /\ t = <<>> \/ m.on = t
        /\ h \in Initiators <=> Len(t) % 2 # 0
    BY DEF ReadMessage, Reads, MayWrite, IsFinished, Rounds
  <2>3. Len(t) \in {0, 1, 2}
    <3> \A n \in Nat : n <= 3 /\ n # 3 => n \in {0, 1, 2}
      OBVIOUS
    <3> HIDE DEF t
    <3> QED BY <2>1, <2>2
  <2>4. Len(t) % 2 = 0 <=> Len(t) \in {0, 2}
    <3> \A n \in {0, 1, 2} : n % 2 = 0 <=> n \in {0, 2}
      OBVIOUS
    <3> HIDE DEF t
    <3> QED BY <2>3
  <2>5. h \in Responders => h \notin Initiators
    BY HandleAssumption
  <2> QED BY <2>1, <2>2, <2>3, <2>4, <2>5
<1>2. /\ transcript' = [transcript EXCEPT ![h] = Append(t, m)]
      /\ UNCHANGED <<wire, taken, established, strays>>
  BY DEF ReadMessage
<1>3. /\ Append(t, m) \in Seq(wire) /\ Len(Append(t, m)) = Len(t) + 1
      /\ Append(t, m)[Len(t) + 1] = m
      /\ \A k \in 1 .. Len(t) : Append(t, m)[k] = t[k]
  <2> HIDE DEF t
  <2> QED BY <1>1, AppendProperties
<1>4. /\ transcript'[h] = Append(t, m)
      /\ \A o \in Handle \ {h} : transcript'[o] = transcript[o]
  BY <1>2 DEF Paired, Shaped
<1>5. Session' = Session
  BY <1>2 DEF Session
<1>6. /\ h \in Initiators => t[1].from = h
      /\ h \in Responders /\ Len(t) = 2 => t[2].from = h
  BY <1>1 DEF Paired, Placed
<1> HIDE DEF t
<1>7. Shaped'
  BY <1>2, <1>3, <1>5 DEF Paired, Shaped
<1>8. Placed'
  <2>1. \A o \in Handle : Len(transcript'[o]) <= 3
    BY <1>1, <1>3, <1>4 DEF Paired, Placed
  <2>2. ASSUME NEW i \in Initiators, Len(transcript'[i]) >= 1
        PROVE  transcript'[i][1].from = i
    <3>1. CASE i # h
      BY <2>2, <3>1, <1>4 DEF Paired, Placed, Handle
    <3>2. CASE i = h
      BY <3>2, <1>1, <1>3, <1>4, <1>6
    <3> QED BY <3>1, <3>2
  <2>3. ASSUME NEW r \in Responders
        PROVE  /\ Len(transcript'[r]) >= 2 => transcript'[r][2].from = r
               /\ Len(transcript'[r]) = 3 =>
                    /\ Len(transcript'[r][3].on) = 2
                    /\ transcript'[r] = Append(transcript'[r][3].on, transcript'[r][3])
    <3>1. CASE r # h
      BY <3>1, <1>4 DEF Paired, Placed, Handle
    <3>2. CASE r = h /\ Len(t) = 0
      BY <3>2, <1>3, <1>4
    <3>3. CASE r = h /\ Len(t) = 2
      <4>1. m.on = t
        BY <3>3, <1>1
      <4> QED BY <3>3, <4>1, <1>3, <1>4, <1>6
    <3> QED BY <3>1, <3>2, <3>3, <1>1
  <2> QED BY <2>1, <2>2, <2>3 DEF Placed
<1>9. Signed'
  <2> SUFFICES ASSUME NEW x \in wire
               PROVE  /\ Len(x.on) = 2 => /\ x.from \in Initiators
                                          /\ transcript'[x.from] = Append(x.on, x)
                      /\ Len(x.on) = 3 => /\ x.from \in Responders \cap taken
                                          /\ transcript'[x.from] = x.on
    BY <1>2 DEF Signed
  <2>1. CASE Len(x.on) = 2
    <3>1. x.from \in Initiators /\ transcript[x.from] = Append(x.on, x)
      BY <2>1 DEF Paired, Signed
    <3>2. x.on \in Seq(wire)
      BY DEF Paired, Shaped
    <3>3. Len(Append(x.on, x)) = Len(x.on) + 1
      BY <3>2, AppendProperties
    <3>4. x.from # h
      BY <2>1, <3>1, <3>3, <1>1 DEF t
    <3> QED BY <2>1, <3>1, <3>4, <1>4 DEF Handle
  <2>2. CASE Len(x.on) = 3
    BY <2>2, <1>1, <1>4 DEF Paired, Signed, Handle
  <2> QED BY <2>1, <2>2
<1>10. Held'
  <2> SUFFICES ASSUME NEW r \in Responders
               PROVE  /\ r \notin taken => established[r] = <<>>
                      /\ r \in taken => Len(transcript'[r]) = 3 /\ established[r] = <<Yield(r)'>>
    BY <1>2 DEF Held
  <2>1. CASE r \in taken
    BY <2>1, <1>1, <1>4 DEF Paired, Held, Yield, Handle
  <2>2. CASE r \notin taken
    BY <2>2 DEF Paired, Held
  <2> QED BY <2>1, <2>2
<1>11. Joined'
  <2> SUFFICES ASSUME NEW i \in Initiators
               PROVE  /\ i \notin taken \/ i \in strays => established[i] = <<>>
                      /\ i \in taken => Len(transcript'[i]) = 3
                      /\ i \in taken \ strays =>
                           \E r \in Responders \cap taken :
                             /\ transcript'[r] = transcript'[i]
                             /\ established[i] = <<Yield(r)'>>
    BY <1>2 DEF Joined, Paired
  <2>1. i \in taken => transcript'[i] = transcript[i]
    BY <1>1, <1>4 DEF Handle
  <2>2. \A r \in Responders \cap taken :
          transcript'[r] = transcript[r] /\ Yield(r)' = Yield(r)
    BY <1>1, <1>4 DEF Handle, Yield
  <2> QED BY <2>1, <2>2 DEF Paired, Joined
<1> QED BY <1>7, <1>8, <1>9, <1>10, <1>11 DEF Paired

\* `finish_as_responder` keeps it: no initiator has this transcript's session yet.
LEMMA AnswerKeeps ==
  ASSUME Paired, NEW h \in Responders, FinishAsResponder(h)
  PROVE  Paired'
<1> DEFINE m == Written(h)
<1>1. /\ h \in Handle /\ h \notin taken /\ h \notin Initiators
      /\ transcript[h] \in Seq(wire) /\ Len(transcript[h]) = 3
      /\ established[h] = <<>>
      /\ m.from = h /\ m.on = transcript[h]
  BY HandleAssumption
     DEF Paired, Shaped, Held, FinishAsResponder, EstablishedAsResponder, TakeFinished, IsFinished, Rounds, Written, Handle
<1>2. /\ taken' = taken \cup {h} /\ wire' = wire \cup {m}
      /\ established' = [established EXCEPT ![h] = <<Yield(h)>>]
      /\ UNCHANGED <<transcript, strays>>
  <2>1. established' = [established EXCEPT
          ![h] = Append(established[h], [secret |-> transcript[h], ratchet |-> <<h, Len(established[h])>>])]
    BY DEF FinishAsResponder, EstablishedAsResponder
  <2>2. Append(established[h], [secret |-> transcript[h], ratchet |-> <<h, Len(established[h])>>])
          = <<Yield(h)>>
    BY <1>1 DEF Yield
  <2> QED BY <2>1, <2>2 DEF FinishAsResponder, EstablishedAsResponder, TakeFinished
<1>3. Seq(wire) \subseteq Seq(wire') /\ Seq(Session) \subseteq Seq(Session')
  BY <1>2, WireGrows
<1>4. /\ established'[h] = <<Yield(h)>>
      /\ \A o \in Handle \ {h} : established'[o] = established[o]
      /\ \A r \in Responders : Yield(r)' = Yield(r)
  BY <1>1, <1>2 DEF Paired, Shaped, Yield
<1> HIDE DEF m
<1>5. Shaped'
  <2>1. transcript' \in [Handle -> Seq(wire')]
    BY <1>2, <1>3 DEF Paired, Shaped
  <2>2. Yield(h) \in Session'
    BY <1>1, <1>3 DEF Yield, Session
  <2>3. <<Yield(h)>> \in Seq(Session')
    BY <2>2
  <2>4. established' \in [Handle -> Seq(Session')]
    BY <1>2, <1>3, <2>3 DEF Paired, Shaped
  <2>5. \A x \in wire' : x.from \in Handle /\ x.on \in Seq(wire')
    BY <1>1, <1>2, <1>3 DEF Paired, Shaped
  <2> QED BY <1>1, <1>2, <2>1, <2>4, <2>5 DEF Paired, Shaped
<1>6. Placed'
  BY <1>2 DEF Paired, Placed
<1>7. Signed'
  <2> SUFFICES ASSUME NEW x \in wire'
               PROVE  /\ Len(x.on) = 2 => /\ x.from \in Initiators
                                          /\ transcript[x.from] = Append(x.on, x)
                      /\ Len(x.on) = 3 => /\ x.from \in Responders \cap taken'
                                          /\ transcript[x.from] = x.on
    BY <1>2 DEF Signed
  <2>1. CASE x = m
    <3>1. x.on = transcript[h] /\ x.from = h
      BY <2>1, <1>1
    <3>2. Len(x.on) # 2
      BY <3>1, <1>1
    <3>3. x.from \in Responders \cap taken' /\ transcript[x.from] = x.on
      BY <3>1, <1>2
    <3> QED BY <3>2, <3>3
  <2>2. CASE x \in wire
    BY <2>2, <1>2 DEF Paired, Signed
  <2> QED BY <2>1, <2>2, <1>2
<1>8. Held'
  <2> SUFFICES ASSUME NEW r \in Responders
               PROVE  /\ r \notin taken' => established'[r] = <<>>
                      /\ r \in taken' => Len(transcript[r]) = 3 /\ established'[r] = <<Yield(r)>>
    BY <1>2, <1>4 DEF Held
  <2>1. CASE r = h
    BY <2>1, <1>1, <1>2, <1>4
  <2>2. CASE r # h
    BY <2>2, <1>2, <1>4 DEF Paired, Held, Handle
  <2> QED BY <2>1, <2>2
<1>9. Joined'
  <2>1. strays' \subseteq Initiators \cap taken'
    BY <1>2 DEF Paired, Joined
  <2>2. ASSUME NEW i \in Initiators
        PROVE  /\ i \notin taken' \/ i \in strays' => established'[i] = <<>>
               /\ i \in taken' => Len(transcript'[i]) = 3
               /\ i \in taken' \ strays' =>
                    \E r \in Responders \cap taken' :
                      transcript'[r] = transcript'[i] /\ established'[i] = <<Yield(r)'>>
    <3>1. i # h /\ established'[i] = established[i]
      BY <1>1, <1>4 DEF Handle
    <3> QED BY <3>1, <1>2, <1>4 DEF Paired, Joined
  <2> QED BY <2>1, <2>2 DEF Joined
<1> QED BY <1>5, <1>6, <1>7, <1>8, <1>9 DEF Paired

\* The message an initiator is finished with, when it decrypts, is from the one
\* responder with the same transcript.
LEMMA CarrierAnswered ==
  ASSUME Paired, NEW h \in Initiators, NEW m \in wire, Len(transcript[h]) = 3, Carries(h, m)
  PROVE  m.from \in Responders \cap taken /\ transcript[m.from] = transcript[h]
BY DEF Paired, Signed, Carries

\* `finish_as_initiator` keeps it.
LEMMA FinishKeeps ==
  ASSUME Paired, NEW h \in Initiators, NEW m \in wire, FinishAsInitiator(h, m)
  PROVE  Paired'
<1>1. /\ h \in Handle /\ h \notin taken /\ h \notin Responders
      /\ transcript[h] \in Seq(wire) /\ Len(transcript[h]) = 3
      /\ established[h] = <<>>
  BY HandleAssumption
     DEF Paired, Shaped, Joined, FinishAsInitiator, EstablishedAsInitiator, TakeFinished, IsFinished, Rounds, Handle
<1>2. taken' = taken \cup {h} /\ UNCHANGED <<transcript, wire>>
  BY DEF FinishAsInitiator, EstablishedAsInitiator, TakeFinished
<1>3. Session' = Session /\ \A r \in Responders : Yield(r)' = Yield(r)
  BY <1>2 DEF Session, Yield
<1>4. Placed'
  BY <1>2 DEF Paired, Placed
<1>5. Signed'
  BY <1>2 DEF Paired, Signed
<1>6. CASE Carries(h, m)
  <2>1. m.from \in Responders \cap taken /\ transcript[m.from] = transcript[h]
    BY <1>1, <1>6, CarrierAnswered
  <2>2. established' = [established EXCEPT ![h] = <<Yield(m.from)>>] /\ UNCHANGED strays
    <3>1. established' = [established EXCEPT
            ![h] = Append(established[h], [secret |-> transcript[h], ratchet |-> <<m.from, 0>>])]
      BY <1>6 DEF FinishAsInitiator, EstablishedAsInitiator
    <3>2. Append(established[h], [secret |-> transcript[h], ratchet |-> <<m.from, 0>>])
            = <<Yield(m.from)>>
      BY <1>1, <2>1 DEF Yield
    <3> QED BY <1>6, <3>1, <3>2 DEF FinishAsInitiator, EstablishedAsInitiator
  <2>3. /\ established'[h] = <<Yield(m.from)>>
        /\ \A o \in Handle \ {h} : established'[o] = established[o]
    BY <1>1, <2>2 DEF Paired, Shaped
  <2>4. Shaped'
    <3>1. Yield(m.from) \in Session
      BY <1>1, <2>1 DEF Yield, Session, Handle
    <3>2. <<Yield(m.from)>> \in Seq(Session)
      BY <3>1
    <3>3. established' \in [Handle -> Seq(Session)]
      BY <2>2, <3>2 DEF Paired, Shaped
    <3> QED BY <1>1, <1>2, <1>3, <3>3 DEF Paired, Shaped
  <2>5. Held'
    <3> SUFFICES ASSUME NEW r \in Responders
                 PROVE  /\ r \notin taken' => established'[r] = <<>>
                        /\ r \in taken' => Len(transcript[r]) = 3 /\ established'[r] = <<Yield(r)>>
      BY <1>2, <1>3 DEF Held
    <3>1. r # h /\ established'[r] = established[r]
      BY <1>1, <2>3 DEF Handle
    <3> QED BY <3>1, <1>2 DEF Paired, Held
  <2>6. Joined'
    <3>1. strays' \subseteq Initiators \cap taken'
      BY <1>2, <2>2 DEF Paired, Joined
    <3>2. ASSUME NEW i \in Initiators
          PROVE  /\ i \notin taken' \/ i \in strays' => established'[i] = <<>>
                 /\ i \in taken' => Len(transcript'[i]) = 3
                 /\ i \in taken' \ strays' =>
                      \E r \in Responders \cap taken' :
                        transcript'[r] = transcript'[i] /\ established'[i] = <<Yield(r)'>>
      <4>1. CASE i = h
        <5>1. h \notin strays
          BY <1>1 DEF Paired, Joined
        <5> QED BY <4>1, <5>1, <1>1, <1>2, <1>3, <2>1, <2>2, <2>3
      <4>2. CASE i # h
        <5>1. established'[i] = established[i]
          BY <4>2, <2>3 DEF Handle
        <5> QED BY <4>2, <5>1, <1>2, <1>3, <2>2 DEF Paired, Joined
      <4> QED BY <4>1, <4>2
    <3> QED BY <3>1, <3>2 DEF Joined
  <2> QED BY <1>4, <1>5, <2>4, <2>5, <2>6 DEF Paired
<1>7. CASE ~ Carries(h, m)
  <2>1. strays' = strays \cup {h} /\ UNCHANGED established
    BY <1>7 DEF FinishAsInitiator, EstablishedAsInitiator
  <2>2. Shaped'
    BY <1>1, <1>2, <1>3, <2>1 DEF Paired, Shaped
  <2>3. Held'
    BY <1>1, <1>2, <1>3, <2>1 DEF Paired, Held
  <2>4. Joined'
    BY <1>1, <1>2, <1>3, <2>1 DEF Paired, Joined
  <2> QED BY <1>4, <1>5, <2>2, <2>3, <2>4 DEF Paired
<1> QED BY <1>6, <1>7

LEMMA PairedStep == Paired /\ [HandshakeNext]_handshakeVars => Paired'
<1> SUFFICES ASSUME Paired, [HandshakeNext]_handshakeVars PROVE Paired'
  OBVIOUS
<1>1. ASSUME NEW h \in Handle, WriteMessage(h) PROVE Paired'
  BY <1>1, WriteKeeps
<1>2. ASSUME NEW h \in Handle, NEW m \in wire, ReadMessage(h, m) PROVE Paired'
  BY <1>2, ReadKeeps
<1>3. ASSUME NEW h \in Responders, FinishAsResponder(h) PROVE Paired'
  BY <1>3, AnswerKeeps
<1>4. ASSUME NEW h \in Initiators, NEW m \in wire, FinishAsInitiator(h, m) PROVE Paired'
  BY <1>4, FinishKeeps
<1>5. CASE UNCHANGED handshakeVars
  <2>1. Session' = Session /\ \A r \in Responders : Yield(r)' = Yield(r)
    BY <1>5 DEF handshakeVars, Session, Yield
  <2> QED BY <1>5, <2>1 DEF handshakeVars, Paired, Shaped, Placed, Signed, Held, Joined
<1> QED BY <1>1, <1>2, <1>3, <1>4, <1>5 DEF HandshakeNext

LEMMA AlwaysPaired == HandshakeSpec => []Paired
BY PairedInit, PairedStep, PTL DEF HandshakeSpec

----
(***************************************************************************)
(* Theorems about the handshake.                                           *)
(***************************************************************************)
\* No handle ever gives a second session, whatever it is called with
\* (FfiHandshake::take_finished).
THEOREM OneSessionEachHolds == HandshakeSpec => []OneSessionEach
<1>1. Paired => OneSessionEach
  <2> SUFFICES ASSUME Paired, NEW h \in Handle PROVE Len(established[h]) <= 1
    BY DEF OneSessionEach
  <2>1. established[h] = <<>> \/ \E s : established[h] = <<s>>
    BY DEF Paired, Held, Joined, Handle
  <2>2. ASSUME NEW s, established[h] = <<s>> PROVE Len(established[h]) <= 1
    <3>1. Len(<<s>>) = 1
      OBVIOUS
    <3> QED BY <2>2, <3>1
  <2>3. ASSUME established[h] = <<>> PROVE Len(established[h]) <= 1
    BY <2>3
  <2> QED BY <2>1, <2>2, <2>3
<1> QED BY <1>1, AlwaysPaired, PTL

LEMMA OnlySession ==
  ASSUME Paired, NEW h \in Handle, NEW s, s \in Given(h)
  PROVE  /\ h \in taken /\ established[h] = <<s>>
         /\ Len(transcript[h]) = 3 /\ s.secret = transcript[h]
         /\ h \in Responders => s = Yield(h)
         /\ h \in Initiators => \E r \in Responders \cap taken :
                                 transcript[r] = transcript[h] /\ s = Yield(r)
<1>1. CASE h \in Responders
  <2>1. h \notin Initiators
    BY <1>1, HandleAssumption
  <2>2. h \in taken
    BY <1>1 DEF Paired, Held, Given
  <2>3. Len(transcript[h]) = 3 /\ established[h] = <<Yield(h)>>
    BY <1>1, <2>2 DEF Paired, Held
  <2>4. s = Yield(h)
    BY <2>3 DEF Given
  <2> QED BY <1>1, <2>1, <2>2, <2>3, <2>4 DEF Yield
<1>2. CASE h \in Initiators
  <2>1. h \notin Responders
    BY <1>2, HandleAssumption
  <2>2. h \in taken \ strays
    BY <1>2 DEF Paired, Joined, Given
  <2>3. PICK r \in Responders \cap taken :
          transcript[r] = transcript[h] /\ established[h] = <<Yield(r)>>
    BY <1>2, <2>2 DEF Paired, Joined
  <2>4. s = Yield(r)
    BY <2>3 DEF Given
  <2>5. Len(transcript[h]) = 3
    BY <1>2, <2>2 DEF Paired, Joined
  <2> QED BY <2>1, <2>2, <2>3, <2>4, <2>5 DEF Yield
<1> QED BY <1>1, <1>2 DEF Handle

LEMMA SoleResponder ==
  ASSUME Paired, NEW r \in Responders, NEW o \in Responders, Len(transcript[r]) = 3,
         transcript[r] = transcript[o]
  PROVE  r = o
BY DEF Paired, Placed

LEMMA SoleInitiator ==
  ASSUME Paired, NEW i \in Initiators, NEW o \in Initiators, Len(transcript[i]) = 3,
         transcript[i] = transcript[o]
  PROVE  i = o
<1>1. Len(transcript[i]) >= 1 /\ Len(transcript[o]) >= 1
  <2>1. Len(transcript[i]) >= 1
    OBVIOUS
  <2>2. Len(transcript[o]) = Len(transcript[i])
    OBVIOUS
  <2> QED BY <2>1, <2>2
<1>2. transcript[i][1].from = i /\ transcript[o][1].from = o
  BY <1>1 DEF Paired, Placed
<1> QED BY <1>2

\* Whatever the handles read, the initiator a responder's session was made with
\* is finished with the same transcript, and has that session or can still get it,
\* unless a stray message finished it (FfiHandshake::finish_as_initiator).
THEOREM OtherEndHolds == HandshakeSpec => []OtherEnd
<1>1. Paired => OtherEnd
  <2> SUFFICES ASSUME Paired, NEW r \in Responders, NEW s \in Given(r)
               PROVE  /\ s.secret[1].from \in Initiators
                      /\ transcript[s.secret[1].from] = s.secret
                      /\ \/ s \in Given(s.secret[1].from)
                         \/ s.secret[1].from \notin taken
                         \/ s.secret[1].from \in strays
    BY DEF OtherEnd
  <2>1. /\ r \in taken /\ Len(transcript[r]) = 3
        /\ s = Yield(r) /\ s.secret = transcript[r]
    BY OnlySession DEF Handle
  <2> DEFINE m == transcript[r][3]
             i == m.from
  <2>2. /\ m \in wire /\ Len(m.on) = 2 /\ transcript[r] = Append(m.on, m)
    <3>1. transcript[r] \in Seq(wire)
      BY DEF Paired, Shaped, Handle
    <3>2. m \in wire
      BY <3>1, <2>1, ElementOfSeq
    <3> QED BY <3>2, <2>1 DEF Paired, Placed
  <2>3. i \in Initiators /\ transcript[i] = transcript[r]
    BY <2>2 DEF Paired, Signed
  <2>4. i = s.secret[1].from
    BY <2>1, <2>3 DEF Paired, Placed
  <2> HIDE DEF i, m
  <2>5. ASSUME i \in taken \ strays PROVE s \in Given(i)
    <3>1. PICK o \in Responders \cap taken :
            transcript[o] = transcript[i] /\ established[i] = <<Yield(o)>>
      BY <2>3, <2>5 DEF Paired, Joined
    <3>2. o = r
      BY <3>1, <2>1, <2>3, SoleResponder
    <3>3. established[i] = <<s>>
      BY <3>1, <3>2, <2>1
    <3> QED BY <3>3 DEF Given
  <2> QED BY <2>1, <2>3, <2>4, <2>5
<1> QED BY <1>1, AlwaysPaired, PTL

\* No initiator has a session that no responder has.
THEOREM NoLoneInitiatorHolds == HandshakeSpec => []NoLoneInitiator
<1>1. Paired => NoLoneInitiator
  <2> SUFFICES ASSUME Paired, NEW i \in Initiators, NEW s \in Given(i)
               PROVE  \E r \in Responders : s \in Given(r)
    BY DEF NoLoneInitiator
  <2>1. PICK r \in Responders \cap taken : s = Yield(r)
    BY OnlySession DEF Handle
  <2>2. established[r] = <<s>>
    BY <2>1 DEF Paired, Held
  <2>3. s \in Given(r)
    BY <2>2 DEF Given
  <2> QED BY <2>1, <2>3
<1> QED BY <1>1, AlwaysPaired, PTL

----
(***************************************************************************)
(* Refinement.                                                             *)
(***************************************************************************)
End(h, s) == [role |-> Role(h), owner |-> h, secret |-> s.secret, ratchet |-> s.ratchet]

LEMMA HandshakeEndsAre ==
  \A x : x \in HandshakeEnds <=> \E h \in Handle : \E s \in Given(h) : x = End(h, s)
BY DEF HandshakeEnds, End

\* One more handle gives its session s, and the session fits every other.
LEMMA Opens ==
  ASSUME NEW h \in Handle, NEW s,
         established \in [Handle -> Seq(Session)],
         established[h] = <<>>,
         established' = [established EXCEPT ![h] = <<s>>],
         \A x \in HandshakeEnds : HandshakePromise!Fits(End(h, s), x)
  PROVE  HandshakePromise!OpenEnd
<1>1. Given(h) = {} /\ Given(h)' = {s}
  BY DEF Given
<1>2. \A o \in Handle \ {h} : Given(o)' = Given(o)
  BY DEF Given
<1>3. \A x : x \in HandshakeEnds' <=> \E o \in Handle : \E e \in Given(o)' : x = End(o, e)
  BY DEF HandshakeEnds, End, Role, Given
<1>4. HandshakeEnds' = HandshakeEnds \cup {End(h, s)}
  <2>1. ASSUME NEW x \in HandshakeEnds' PROVE x \in HandshakeEnds \cup {End(h, s)}
    <3>1. PICK o \in Handle : \E e \in Given(o)' : x = End(o, e)
      BY <1>3
    <3>2. CASE o = h
      BY <1>1, <3>1, <3>2
    <3>3. CASE o # h
      BY <1>2, <3>1, <3>3, HandshakeEndsAre
    <3> QED BY <3>2, <3>3
  <2>2. End(h, s) \in HandshakeEnds'
    BY <1>1, <1>3
  <2>3. ASSUME NEW x \in HandshakeEnds PROVE x \in HandshakeEnds'
    <3>1. PICK o \in Handle : \E e \in Given(o) : x = End(o, e)
      BY HandshakeEndsAre
    <3>2. o # h
      BY <1>1, <3>1
    <3> QED BY <1>2, <1>3, <3>1, <3>2
  <2> QED BY <2>1, <2>2, <2>3
<1> QED BY <1>4 DEF HandshakePromise!OpenEnd

\* The handshakes, in any number and mixed up in any way, implement the promise of
\* a session setup: whoever shares a secret is one initiator and one responder,
\* and they mean the same ratchet key.
THEOREM HandshakesPairHolds == HandshakeSpec => HandshakesPair
<1>1. HandshakeInit => HandshakePromise!PairingInit
  BY DEF HandshakeInit, HandshakePromise!PairingInit, HandshakeEnds, Given
<1>2. ASSUME Paired, [HandshakeNext]_handshakeVars
      PROVE  [HandshakePromise!OpenEnd]_HandshakeEnds
  <2>1. ASSUME UNCHANGED established PROVE UNCHANGED HandshakeEnds
    BY <2>1 DEF HandshakeEnds, Given, Role
  <2>2. ASSUME NEW h \in Responders, FinishAsResponder(h) PROVE HandshakePromise!OpenEnd
    <3>1. /\ h \in Handle /\ h \notin Initiators /\ h \notin taken
          /\ Len(transcript[h]) = 3 /\ established[h] = <<>>
      BY <2>2, <1>2, HandleAssumption
         DEF Paired, Held, FinishAsResponder, EstablishedAsResponder, TakeFinished, IsFinished, Rounds, Handle
    <3>2. established' = [established EXCEPT ![h] = <<Yield(h)>>]
      <4>1. established' = [established EXCEPT
              ![h] = Append(established[h], [secret |-> transcript[h], ratchet |-> <<h, Len(established[h])>>])]
        BY <2>2 DEF FinishAsResponder, EstablishedAsResponder
      <4>2. Append(established[h], [secret |-> transcript[h], ratchet |-> <<h, Len(established[h])>>])
              = <<Yield(h)>>
        BY <3>1 DEF Yield
      <4> QED BY <4>1, <4>2
    <3>3. ASSUME NEW x \in HandshakeEnds PROVE x.secret # transcript[h]
      <4>1. PICK o \in Handle : \E s \in Given(o) : x = End(o, s)
        BY <3>3, HandshakeEndsAre
      <4>2. PICK s \in Given(o) : x = End(o, s)
        BY <4>1
      <4>3. x.secret = transcript[o] /\ o \in taken
        BY <1>2, <4>2, OnlySession DEF End
      <4>4. ASSUME transcript[o] = transcript[h] PROVE FALSE
        <5>1. CASE o \in Responders
          BY <5>1, <1>2, <3>1, <4>3, <4>4, SoleResponder
        <5>2. CASE o \in Initiators
          <6>1. PICK r \in Responders \cap taken : transcript[r] = transcript[o]
            BY <5>2, <1>2, <4>2, OnlySession
          <6>2. r = h
            BY <6>1, <1>2, <3>1, <4>4, SoleResponder
          <6> QED BY <6>1, <6>2, <3>1
        <5> QED BY <5>1, <5>2 DEF Handle
      <4> QED BY <4>3, <4>4
    <3>4. \A x \in HandshakeEnds : HandshakePromise!Fits(End(h, Yield(h)), x)
      BY <3>3 DEF HandshakePromise!Fits, End, Yield
    <3> HIDE DEF HandshakePromise!OpenEnd
    <3> QED BY <3>1, <3>2, <3>4, <1>2, Opens DEF Paired, Shaped
  <2>3. ASSUME NEW h \in Initiators, NEW m \in wire, FinishAsInitiator(h, m)
        PROVE  HandshakePromise!OpenEnd \/ UNCHANGED established
    <3>1. /\ h \in Handle /\ h \notin Responders /\ h \notin taken
          /\ Len(transcript[h]) = 3 /\ established[h] = <<>>
      BY <2>3, <1>2, HandleAssumption
         DEF Paired, Joined, FinishAsInitiator, EstablishedAsInitiator, TakeFinished, IsFinished, Rounds, Handle
    <3>2. CASE ~ Carries(h, m)
      BY <2>3, <3>2 DEF FinishAsInitiator, EstablishedAsInitiator
    <3>3. CASE Carries(h, m)
      <4>1. m.from \in Responders \cap taken /\ transcript[m.from] = transcript[h]
        BY <1>2, <3>1, <3>3, CarrierAnswered
      <4>2. established' = [established EXCEPT ![h] = <<Yield(m.from)>>]
        <5>1. established' = [established EXCEPT
                ![h] = Append(established[h], [secret |-> transcript[h], ratchet |-> <<m.from, 0>>])]
          BY <2>3, <3>3 DEF FinishAsInitiator, EstablishedAsInitiator
        <5>2. Append(established[h], [secret |-> transcript[h], ratchet |-> <<m.from, 0>>])
                = <<Yield(m.from)>>
          BY <3>1, <4>1 DEF Yield
        <5> QED BY <5>1, <5>2
      <4>3. ASSUME NEW x \in HandshakeEnds, x.secret = transcript[h]
            PROVE  x.role = "responder" /\ x.ratchet = <<m.from, 0>>
        <5>1. PICK o \in Handle : \E s \in Given(o) : x = End(o, s)
          BY <4>3, HandshakeEndsAre
        <5>2. PICK s \in Given(o) : x = End(o, s)
          BY <5>1
        <5>3. transcript[o] = transcript[h] /\ o \in taken
          BY <1>2, <4>3, <5>2, OnlySession DEF End
        <5>4. o \notin Initiators
          BY <1>2, <3>1, <5>3, SoleInitiator
        <5>5. o \in Responders /\ s = Yield(o)
          BY <1>2, <5>2, <5>4, OnlySession DEF Handle
        <5>6. o = m.from
          BY <1>2, <3>1, <4>1, <5>3, <5>5, SoleResponder
        <5> QED BY <5>2, <5>4, <5>5, <5>6 DEF End, Role, Yield
      <4>4. \A x \in HandshakeEnds : HandshakePromise!Fits(End(h, Yield(m.from)), x)
        <5>1. /\ End(h, Yield(m.from)).role = "initiator"
              /\ End(h, Yield(m.from)).secret = transcript[h]
              /\ End(h, Yield(m.from)).ratchet = <<m.from, 0>>
          BY <4>1 DEF End, Role, Yield
        <5> QED BY <4>3, <5>1 DEF HandshakePromise!Fits
      <4> HIDE DEF HandshakePromise!OpenEnd
      <4> QED BY <3>1, <4>2, <4>4, <1>2, Opens DEF Paired, Shaped
    <3> QED BY <3>2, <3>3
  <2>4. ASSUME NEW h \in Handle, WriteMessage(h) PROVE UNCHANGED established
    BY <2>4 DEF WriteMessage
  <2>5. ASSUME NEW h \in Handle, NEW m \in wire, ReadMessage(h, m) PROVE UNCHANGED established
    BY <2>5 DEF ReadMessage
  <2>6. CASE UNCHANGED handshakeVars
    BY <2>6, <2>1 DEF handshakeVars
  <2> QED BY <1>2, <2>1, <2>2, <2>3, <2>4, <2>5, <2>6 DEF HandshakeNext
<1> QED BY <1>1, <1>2, AlwaysPaired, PTL DEF HandshakeSpec, HandshakesPair, HandshakePromise!PairingSpec

----
(***************************************************************************)
(* The prekeys.                                                            *)
(***************************************************************************)
LastKey == MaxKeys + MaxRestarts * PoolSize

\* The keys that may have been generated before the next restart but r.
Room(r) == MaxKeys + r * PoolSize

Restored == FromBytes(saved)

\* No number is of one kind in p and of another in q.
Alike(p, q) ==
  /\ p.signed # q.pq /\ q.signed # p.pq
  /\ p.signed \notin q.available /\ p.pq \notin q.available
  /\ q.signed \notin p.available /\ q.pq \notin p.available

WellFormed(p) == p \in Pool /\ Secrets(p) \subseteq 1 .. minted /\ Alike(p, p)

Typed ==
  /\ minted \in Nat /\ restarts \in 0 .. MaxRestarts
  /\ PoolSize <= minted /\ minted <= Room(restarts)
  /\ WellFormed(pool)
  /\ saved \in Bytes \cup {NoPool}
  /\ saved # NoPool => WellFormed(Restored) /\ Alike(pool, Restored)
  /\ uses \in [Key -> Nat] /\ revived \in [Key -> Nat]
  /\ retired \subseteq Key /\ forgotten \subseteq Key

Counted ==
  \A k \in Key :
    /\ uses[k] <= 1 + revived[k]
    /\ k \in pool.available => uses[k] <= revived[k]
    /\ k > minted => uses[k] = 0

\* What b names is in the pool, or left it.
Known(b) ==
  /\ b.signed = pool.signed \/ b.signed \in retired \cup forgotten
  /\ b.pq = pool.pq \/ b.pq \in retired \cup forgotten
  /\ \/ b.one_time \in pool.available \cup {NoKey, Altered}
     \/ b.one_time \in forgotten
     \/ b.one_time \in Key /\ uses[b.one_time] > 0

Bundled ==
  \A b \in bundles :
    /\ b \in Bundle /\ Known(b)
    /\ b.signed_signature = b.signed /\ b.pq_signature = b.pq
    /\ b.one_time # Altered

Arrived ==
  /\ firsts \in Seq(Bundle) /\ Len(firsts) <= MaxInitiations
  /\ \A i \in DOMAIN firsts : Known(firsts[i])

\* The session the device answers the i-th first message with, on the keys k and q.
Answer(i, k, q) ==
  [secret  |-> HybridKdf(X3dhKdf(i, LongTerm, k, firsts[i].one_time),
                         Decapsulate(Encapsulated(i, firsts[i].pq), q)),
   ratchet |-> k]

Answered ==
  \A s \in sessions :
    \E i \in DOMAIN firsts : \E k, q \in Key :
      /\ s = <<i, Answer(i, k, q)>>
      /\ \/ k = firsts[i].signed
         \/ firsts[i].signed \in retired \cup forgotten
      /\ \/ q = firsts[i].pq
         \/ firsts[i].pq \in retired \cup forgotten

\* p can answer for b, as far as rotations and use let it.
AnswersFor(p, b) ==
  /\ b.signed = p.signed \/ b.signed \in retired
  /\ b.pq = p.pq \/ b.pq \in retired
  /\ \/ b.one_time \in p.available \cup {NoKey}
     \/ b.one_time \in Key /\ uses[b.one_time] > 0

Backed ==
  /\ backed \subseteq bundles
  /\ \A b \in backed : saved # NoPool /\ AnswersFor(pool, b) /\ AnswersFor(Restored, b)

Kept == Typed /\ Counted /\ Bundled /\ Arrived /\ Answered /\ Backed

----
(***************************************************************************)
(* Numbers.                                                                *)
(***************************************************************************)
LEMMA Sizes ==
  /\ PoolSize \in Nat /\ PoolSize = InitialBatch + 2 /\ InitialBatch \in Nat
  /\ MaxKeys \in Nat /\ MaxRestarts \in Nat /\ PoolSize <= MaxKeys
BY BatchAssumption, InitiationAssumption DEF PoolSize

LEMMA RoomGrows ==
  ASSUME NEW r \in Nat, r < MaxRestarts
  PROVE  Room(r) \in Nat /\ Room(r) + PoolSize <= Room(r + 1)
<1>1. \A p, q, s \in Nat : (q + 1) * p = q * p + p /\ q * p \in Nat
  OBVIOUS
<1> QED BY <1>1, Sizes DEF Room

LEMMA RoomEnds ==
  ASSUME NEW r \in 0 .. MaxRestarts
  PROVE  Room(r) \in Nat /\ LastKey \in Nat /\ MaxKeys <= Room(r) /\ Room(r) <= LastKey
<1>1. \A p, q, s \in Nat : q <= s => q * p <= s * p /\ q * p \in Nat
  OBVIOUS
<1>2. r * PoolSize <= MaxRestarts * PoolSize /\ r * PoolSize \in Nat /\ r \in Nat
      /\ MaxRestarts * PoolSize \in Nat
  BY <1>1, Sizes
<1> QED BY <1>2, Sizes DEF Room, LastKey

LEMMA KeyIs == Key = 1 .. LastKey
BY DEF Key, LastKey

LEMMA LastKeyType == LastKey \in Nat /\ MaxKeys <= LastKey
<1>1. MaxRestarts \in 0 .. MaxRestarts
  BY Sizes
<1> QED BY <1>1, RoomEnds, Sizes

LEMMA MintedKeys == Typed => minted <= LastKey /\ 1 .. minted \subseteq Key
BY RoomEnds, KeyIs, LastKeyType DEF Typed

LEMMA KeyPlus ==
  ASSUME NEW n \in Nat, n <= LastKey, n > 0
  PROVE  n \in Key
BY KeyIs, LastKeyType

\* A nonempty set of keys has a least one, which is the one a bundle names.
LEMMA OneTimeOfPool ==
  ASSUME NEW p \in Pool
  PROVE  CurrentOneTimePrekey(p) \in p.available \cup {NoKey}
<1> DEFINE R == OpToRel(<, Nat)
           T == p.available
<1>1. CASE T = {}
  BY <1>1 DEF CurrentOneTimePrekey
<1>2. CASE T # {}
  <2>1. T \subseteq Nat
    BY KeyIs, LastKeyType DEF Pool
  <2>2. IsWellFoundedOn(R, Nat)
    BY NatLessThanWellFounded
  <2>3. PICK m \in T : \A k \in T : <<k, m>> \notin R
    <3> HIDE DEF R, T
    <3> QED BY <1>2, <2>1, <2>2, WFMin
  <2>4. \A k \in T : ~ (k < m)
    BY <2>1, <2>3 DEF OpToRel
  <2>5. \A k \in T : m <= k
    BY <2>1, <2>4
  <2> QED BY <1>2, <2>5 DEF CurrentOneTimePrekey
<1> QED BY <1>1, <1>2

----
(***************************************************************************)
(* The pools that are made.                                                *)
(***************************************************************************)
LEMMA NewPoolIs ==
  ASSUME NEW first \in Nat, first > 0, first + PoolSize - 1 <= LastKey
  PROVE  /\ NewPool(first) \in Pool
         /\ Alike(NewPool(first), NewPool(first))
         /\ Secrets(NewPool(first)) \subseteq first .. first + PoolSize - 1
<1>1. /\ NewPool(first).signed = first
      /\ NewPool(first).available = first + 1 .. first + 1 + InitialBatch - 1
      /\ NewPool(first).pq = first + InitialBatch + 1
      /\ NewPool(first) = [signed |-> first, available |-> NewPool(first).available,
                           pq |-> first + InitialBatch + 1]
  BY DEF NewPool, NewClassical, GenerateOneTimePrekeys
<1>2. first .. first + PoolSize - 1 \subseteq Key
  BY KeyIs, Sizes, LastKeyType
<1>3. Secrets(NewPool(first)) \subseteq first .. first + PoolSize - 1
  BY <1>1, Sizes DEF Secrets
<1>4. NewPool(first) \in Pool
  BY <1>1, <1>2, <1>3 DEF Pool, Secrets
<1>5. Alike(NewPool(first), NewPool(first))
  BY <1>1, Sizes DEF Alike
<1> QED BY <1>3, <1>4, <1>5

\* `to_bytes` and `from_bytes` lose nothing.
LEMMA RoundTrip ==
  ASSUME NEW p \in Pool
  PROVE  ToBytes(p) \in Bytes /\ FromBytes(ToBytes(p)) = p
BY DEF ToBytes, FromBytes, ClassicalToBytes, ClassicalFromBytes, Pool, Bytes

LEMMA RestoredIs ==
  ASSUME saved \in Bytes
  PROVE  Restored \in Pool
BY DEF Restored, FromBytes, ClassicalFromBytes, Bytes, Pool

LEMMA KeptInit == PrekeysInit => Kept
<1> SUFFICES ASSUME PrekeysInit PROVE Kept
  OBVIOUS
<1>1. 1 + PoolSize - 1 = PoolSize /\ PoolSize <= LastKey
  BY Sizes, LastKeyType
<1>2. /\ NewPool(1) \in Pool /\ Alike(NewPool(1), NewPool(1))
      /\ Secrets(NewPool(1)) \subseteq 1 .. PoolSize
  BY <1>1, NewPoolIs
<1>3. Room(0) = MaxKeys /\ 0 \in 0 .. MaxRestarts
  BY Sizes DEF Room
<1>4. Typed
  BY <1>2, <1>3, Sizes DEF PrekeysInit, Typed, WellFormed
<1>5. Counted
  BY DEF PrekeysInit, Counted
<1>6. Bundled /\ Arrived /\ Answered /\ Backed
  BY InitiationAssumption DEF PrekeysInit, Bundled, Arrived, Answered, Backed
<1> QED BY <1>4, <1>5, <1>6 DEF Kept

----
(***************************************************************************)
(* Each call keeps the invariant.                                          *)
(***************************************************************************)
LEMMA CurrentBundleKeeps == Kept /\ CurrentBundle => Kept'
<1> SUFFICES ASSUME Kept, CurrentBundle PROVE Kept'
  OBVIOUS
<1> DEFINE b == CurrentHybridBundle(pool)
<1>1. /\ b.agreement = LongTerm /\ b.signed = pool.signed /\ b.signed_signature = pool.signed
      /\ b.one_time = CurrentOneTimePrekey(pool) /\ b.pq = pool.pq /\ b.pq_signature = pool.pq
      /\ b = [agreement |-> LongTerm, signed |-> pool.signed, signed_signature |-> pool.signed,
              one_time |-> CurrentOneTimePrekey(pool), pq |-> pool.pq, pq_signature |-> pool.pq]
  BY DEF CurrentHybridBundle, HybridBundle, PrekeyBundle, SignedPrekey, PqPrekey
<1>2. pool \in Pool
  BY DEF Kept, Typed, WellFormed
<1>3. b.one_time \in pool.available \cup {NoKey} /\ pool.available \subseteq Key
  BY <1>1, <1>2, OneTimeOfPool DEF Pool
<1>4. b \in Bundle
  BY <1>1, <1>2, <1>3 DEF Pool, Bundle
<1>5. b.one_time # Altered
  BY <1>3, NoneAssumption
<1>6. /\ bundles' = bundles \cup {b}
      /\ \/ backed' = backed
         \/ /\ backed' = backed \cup {b}
            /\ saved # NoPool /\ Named(b) \subseteq Secrets(Restored)
      /\ UNCHANGED <<pool, saved, minted, firsts, sessions, uses, revived,
                     retired, forgotten, restarts>>
  BY DEF CurrentBundle, Restored
<1> HIDE DEF b
<1>7. Typed' /\ Counted' /\ Answered'
  BY <1>6 DEF Kept, Typed, Counted, Answered, WellFormed, Restored, Answer
<1>8. \A x : Known(x)' <=> Known(x)
  BY <1>6 DEF Known
<1>9. Bundled'
  <2>1. Known(b)
    BY <1>1, <1>3 DEF Known
  <2> QED BY <1>1, <1>4, <1>5, <1>6, <1>8, <2>1 DEF Kept, Bundled
<1>10. Arrived'
  BY <1>6, <1>8 DEF Kept, Arrived
<1>11. Backed'
  <2>2. AnswersFor(pool, b)
    BY <1>1, <1>3 DEF AnswersFor
  <2>3. ASSUME saved # NoPool, Named(b) \subseteq Secrets(Restored)
        PROVE  AnswersFor(Restored, b)
    <3>1. Alike(pool, Restored)
      BY <2>3 DEF Kept, Typed
    <3>2. b.signed = Restored.signed /\ b.pq = Restored.pq
      BY <1>1, <2>3, <3>1 DEF Named, Secrets, Alike
    <3>3. b.one_time \in Restored.available \cup {NoKey}
      BY <1>1, <1>3, <2>3, <3>1 DEF Named, Secrets, Alike
    <3> QED BY <3>2, <3>3 DEF AnswersFor
  <2> QED BY <1>6, <2>2, <2>3 DEF Kept, Backed, AnswersFor, Restored
<1> QED BY <1>7, <1>9, <1>10, <1>11 DEF Kept

\* What a bundle may be when it arrives, if it still verifies.
LEMMA ArrivedIs ==
  ASSUME NEW b \in Bundle, b.signed_signature = b.signed, b.pq_signature = b.pq,
         NEW x \in Parsed(b), Verify(x)
  PROVE  /\ x \in Bundle /\ x.signed = b.signed /\ x.pq = b.pq
         /\ x.one_time = b.one_time \/ x.one_time = Altered
<1>1. b.signed # Altered /\ b.pq # Altered
  BY NoneAssumption DEF Bundle
<1>2. x \in {b, [b EXCEPT !.agreement = Altered], [b EXCEPT !.signed = Altered],
             [b EXCEPT !.one_time = Altered], [b EXCEPT !.pq = Altered]}
  BY DEF Parsed, ParsedClassical
<1>3. x # [b EXCEPT !.signed = Altered] /\ x # [b EXCEPT !.pq = Altered]
  BY <1>1 DEF Verify, VerifySignedPrekey, Bundle
<1> QED BY <1>2, <1>3 DEF Bundle

LEMMA InitiateKeeps ==
  ASSUME Kept, NEW b \in bundles, NEW x \in Parsed(b), Initiate(x)
  PROVE  Kept'
<1>1. /\ Len(firsts) < MaxInitiations /\ Verify(x)
      /\ firsts' = Append(firsts, x)
      /\ UNCHANGED <<pool, saved, minted, bundles, sessions, uses, revived,
                     retired, forgotten, backed, restarts>>
  BY DEF Initiate
<1>2. /\ x \in Bundle /\ x.signed = b.signed /\ x.pq = b.pq
      /\ x.one_time = b.one_time \/ x.one_time = Altered
  BY <1>1, ArrivedIs DEF Kept, Bundled
<1>3. Typed' /\ Counted' /\ Bundled' /\ Backed'
  BY <1>1 DEF Kept, Typed, Counted, Bundled, Known, Backed, AnswersFor, WellFormed, Restored
<1>5. firsts \in Seq(Bundle)
  BY DEF Kept, Arrived
<1>6. /\ firsts' \in Seq(Bundle) /\ Len(firsts') = Len(firsts) + 1
      /\ \A i \in DOMAIN firsts : i \in DOMAIN firsts' /\ firsts'[i] = firsts[i]
      /\ \A i \in DOMAIN firsts' : i \in DOMAIN firsts \/ firsts'[i] = x
  BY <1>1, <1>2, <1>5
<1>7. Known(x)
  <2>1. Known(b)
    BY DEF Kept, Bundled
  <2> QED BY <1>2, <2>1 DEF Known
<1>8. Arrived'
  <2>1. Len(firsts) \in Nat /\ Len(firsts) + 1 <= MaxInitiations
    BY <1>1, <1>5, InitiationAssumption
  <2>2. ASSUME NEW i \in DOMAIN firsts' PROVE Known(firsts[i])'
    <3>1. Known(firsts'[i])
      BY <1>6, <1>7 DEF Kept, Arrived
    <3> QED BY <1>1, <3>1 DEF Known
  <2> QED BY <1>6, <2>1, <2>2 DEF Arrived
<1>9. Answered'
  BY <1>1, <1>6 DEF Kept, Answered, Answer
<1> QED BY <1>3, <1>8, <1>9 DEF Kept

\* What an answer takes out of the pool, and adds.
LEMMA RespondEffect ==
  ASSUME Kept, NEW i \in DOMAIN firsts, Respond(i)
  PROVE  /\ sessions' = sessions \cup {<<i, Answer(i, pool.signed, pool.pq)>>}
         /\ \/ UNCHANGED <<pool, uses>>
            \/ \E k \in pool.available :
                 /\ k \in Key
                 /\ pool' = [pool EXCEPT !.available = @ \ {k}]
                 /\ uses' = [uses EXCEPT ![k] = @ + 1]
         /\ UNCHANGED <<saved, minted, bundles, firsts, revived, retired,
                        forgotten, backed, restarts>>
<1> DEFINE m == InitiationMessage(i)
<1>1. /\ m.ephemeral = i /\ m.one_time = firsts[i].one_time
      /\ m.ciphertext = Encapsulated(i, firsts[i].pq)
  BY DEF InitiationMessage
<1>2. Responded(pool, m) = Answer(i, pool.signed, pool.pq)
  BY <1>1 DEF Responded, Answer, X3dhResponded, ResponderRatchetSeed
<1>3. /\ ~ Refuses(i)
      /\ pool' = IF m.one_time = NoKey THEN pool ELSE Consume(pool, m.one_time)
      /\ uses' = IF m.one_time = NoKey THEN uses ELSE [uses EXCEPT ![m.one_time] = @ + 1]
      /\ sessions' = sessions \cup {<<i, Responded(pool, m)>>}
      /\ UNCHANGED <<saved, minted, bundles, firsts, revived, retired,
                     forgotten, backed, restarts>>
  BY DEF Respond
<1>4. m.one_time \in pool.available \cup {NoKey}
  BY <1>3 DEF Refuses
<1> HIDE DEF m
<1>5. pool.available \subseteq Key
  BY DEF Kept, Typed, WellFormed, Pool
<1>6. CASE m.one_time = NoKey
  BY <1>2, <1>3, <1>6
<1>7. CASE m.one_time # NoKey
  <2>1. m.one_time \in pool.available /\ m.one_time \in Key
    BY <1>4, <1>5, <1>7
  <2>2. pool' = [pool EXCEPT !.available = @ \ {m.one_time}]
    BY <1>3, <1>7 DEF Consume
  <2>3. uses' = [uses EXCEPT ![m.one_time] = @ + 1]
    BY <1>3, <1>7
  <2> QED BY <1>2, <1>3, <2>1, <2>2, <2>3
<1> QED BY <1>6, <1>7

\* The parts that speak of one-time prekeys, when k is used up.
LEMMA ConsumeKept ==
  ASSUME Kept, NEW k \in pool.available, k \in Key,
         pool' = [pool EXCEPT !.available = @ \ {k}],
         uses' = [uses EXCEPT ![k] = @ + 1],
         UNCHANGED <<saved, minted, bundles, firsts, revived, retired,
                     forgotten, backed, restarts>>
  PROVE  Typed' /\ Counted' /\ Bundled' /\ Arrived' /\ Backed'
<1>1. pool \in Pool /\ uses \in [Key -> Nat] /\ revived \in [Key -> Nat] /\ minted \in Nat
  BY DEF Kept, Typed, WellFormed
<1>2. /\ pool'.signed = pool.signed /\ pool'.pq = pool.pq
      /\ pool'.available = pool.available \ {k} /\ pool' \in Pool
  BY <1>1 DEF Pool
<1>3. /\ uses' \in [Key -> Nat] /\ uses'[k] = uses[k] + 1
      /\ \A o \in Key : o # k => uses'[o] = uses[o]
      /\ \A o \in Key : uses[o] > 0 => uses'[o] > 0
  BY <1>1
<1>4. Typed'
  BY <1>2, <1>3 DEF Kept, Typed, WellFormed, Alike, Secrets, Restored
<1>5. k <= minted
  BY <1>1 DEF Kept, Typed, WellFormed, Secrets
<1>6. Counted'
  <2> SUFFICES ASSUME NEW o \in Key
               PROVE  /\ uses'[o] <= 1 + revived[o]
                      /\ o \in pool'.available => uses'[o] <= revived[o]
                      /\ o > minted => uses'[o] = 0
    BY DEF Counted
  <2>1. CASE o = k
    <3>1. uses[k] <= revived[k]
      BY DEF Kept, Counted
    <3>2. uses[k] \in Nat /\ revived[k] \in Nat /\ k \in Nat
      BY <1>1, KeyIs, LastKeyType
    <3> QED BY <1>1, <1>2, <1>3, <1>5, <2>1, <3>1, <3>2
  <2>2. CASE o # k
    BY <1>2, <1>3, <2>2 DEF Kept, Counted
  <2> QED BY <2>1, <2>2
<1>7. uses'[k] > 0
  BY <1>1, <1>3
<1>8. ASSUME NEW x, Known(x)
      PROVE  /\ x.signed = pool'.signed \/ x.signed \in retired \cup forgotten
             /\ x.pq = pool'.pq \/ x.pq \in retired \cup forgotten
             /\ \/ x.one_time \in pool'.available \cup {NoKey, Altered}
                \/ x.one_time \in forgotten
                \/ x.one_time \in Key /\ uses'[x.one_time] > 0
  BY <1>2, <1>3, <1>7, <1>8 DEF Known
<1>9. Bundled'
  BY <1>8 DEF Kept, Bundled, Known
<1>10. Arrived'
  BY <1>8 DEF Kept, Arrived, Known
<1>11. ASSUME NEW p, NEW x, AnswersFor(p, x)
       PROVE  /\ x.signed = p.signed \/ x.signed \in retired
              /\ x.pq = p.pq \/ x.pq \in retired
              /\ \/ x.one_time \in p.available \cup {NoKey}
                 \/ x.one_time \in Key /\ uses'[x.one_time] > 0
  BY <1>3, <1>11 DEF AnswersFor
<1>12. Backed'
  <2>1. ASSUME NEW x \in backed PROVE AnswersFor(pool, x)' /\ AnswersFor(Restored, x)'
    <3>1. AnswersFor(pool, x) /\ AnswersFor(Restored, x)
      BY DEF Kept, Backed
    <3>2. AnswersFor(pool, x)'
      BY <1>2, <1>7, <1>11, <3>1 DEF AnswersFor
    <3>3. AnswersFor(Restored, x)'
      BY <1>11, <3>1 DEF AnswersFor, Restored
    <3> QED BY <3>2, <3>3
  <2> QED BY <2>1 DEF Kept, Backed
<1> QED BY <1>4, <1>6, <1>9, <1>10, <1>12

LEMMA RespondKeeps ==
  ASSUME Kept, NEW i \in DOMAIN firsts, Respond(i)
  PROVE  Kept'
<1>1. /\ sessions' = sessions \cup {<<i, Answer(i, pool.signed, pool.pq)>>}
      /\ UNCHANGED <<saved, minted, bundles, firsts, revived, retired,
                     forgotten, backed, restarts>>
  BY RespondEffect
<1>2. Typed' /\ Counted' /\ Bundled' /\ Arrived' /\ Backed'
  <2>1. CASE UNCHANGED <<pool, uses>>
    BY <1>1, <2>1 DEF Kept, Typed, Counted, Bundled, Arrived, Backed, Known, AnswersFor,
                      WellFormed, Restored
  <2>2. ASSUME NEW k \in pool.available, k \in Key,
               pool' = [pool EXCEPT !.available = @ \ {k}],
               uses' = [uses EXCEPT ![k] = @ + 1]
        PROVE  Typed' /\ Counted' /\ Bundled' /\ Arrived' /\ Backed'
    BY <1>1, <2>2, ConsumeKept
  <2> QED BY <2>1, <2>2, RespondEffect
<1>3. Answered'
  <2>1. pool.signed \in Key /\ pool.pq \in Key
    BY DEF Kept, Typed, WellFormed, Pool
  <2>2. /\ pool.signed = firsts[i].signed \/ firsts[i].signed \in retired \cup forgotten
        /\ pool.pq = firsts[i].pq \/ firsts[i].pq \in retired \cup forgotten
    BY DEF Kept, Arrived, Known
  <2> QED BY <1>1, <2>1, <2>2 DEF Kept, Answered, Answer
<1> QED BY <1>2, <1>3 DEF Kept

LEMMA TopUpKeeps ==
  ASSUME Kept, NEW n \in 1 .. MaxKeys, TopUp(n)
  PROVE  Kept'
<1>1. /\ minted + n <= MaxKeys /\ minted' = minted + n
      /\ pool' = [pool EXCEPT !.available = @ \cup (minted + 1 .. minted + 1 + n - 1)]
      /\ UNCHANGED <<saved, bundles, firsts, sessions, uses, revived, retired,
                     forgotten, backed, restarts>>
  BY DEF TopUp, ToppedUp, GenerateOneTimePrekeys
<1>2. /\ pool \in Pool /\ minted \in Nat /\ n \in Nat /\ n > 0 /\ MaxKeys \in Nat
      /\ Secrets(pool) \subseteq 1 .. minted /\ Alike(pool, pool)
      /\ uses \in [Key -> Nat] /\ revived \in [Key -> Nat]
  BY Sizes DEF Kept, Typed, WellFormed
<1>3. PICK new \in SUBSET Key : new = minted + 1 .. minted + n
  BY <1>1, <1>2, KeyIs, LastKeyType
<1>4. /\ pool'.signed = pool.signed /\ pool'.pq = pool.pq
      /\ pool'.available = pool.available \cup new /\ pool' \in Pool
  <2>1. minted + 1 + n - 1 = minted + n
    BY <1>2
  <2> QED BY <1>1, <1>2, <1>3, <2>1 DEF Pool
<1>5. \A k \in 1 .. minted : k \notin new
  BY <1>2, <1>3
<1>6. WellFormed(pool)'
  <2>1. Secrets(pool)' \subseteq 1 .. minted'
    BY <1>1, <1>2, <1>3, <1>4 DEF Secrets
  <2>2. Alike(pool, pool)'
    BY <1>2, <1>4, <1>5 DEF Alike, Secrets
  <2> QED BY <1>4, <2>1, <2>2 DEF WellFormed
<1>7. saved # NoPool => WellFormed(Restored)' /\ Alike(pool, Restored)'
  <2> SUFFICES ASSUME saved # NoPool PROVE WellFormed(Restored)' /\ Alike(pool, Restored)'
    OBVIOUS
  <2>1. WellFormed(Restored) /\ Alike(pool, Restored)
    BY DEF Kept, Typed
  <2>2. Restored' = Restored
    BY <1>1 DEF Restored
  <2>3. 1 .. minted \subseteq 1 .. minted'
    BY <1>1, <1>2
  <2>4. WellFormed(Restored)'
    BY <2>1, <2>2, <2>3 DEF WellFormed, Secrets
  <2>5. Alike(pool, Restored)'
    BY <1>4, <1>5, <2>1, <2>2 DEF Alike, WellFormed, Secrets
  <2> QED BY <2>4, <2>5
<1>8. Typed'
  <2>1. PoolSize <= minted' /\ minted' <= Room(restarts)' /\ minted' \in Nat
    <3>1. Room(restarts) \in Nat /\ MaxKeys <= Room(restarts) /\ PoolSize <= minted
      BY RoomEnds DEF Kept, Typed
    <3> QED BY <1>1, <1>2, <3>1, Sizes DEF Room
  <2> QED BY <1>1, <1>6, <1>7, <2>1 DEF Kept, Typed
<1>9. Counted'
  <2> SUFFICES ASSUME NEW o \in Key
               PROVE  /\ uses[o] <= 1 + revived[o]
                      /\ o \in pool'.available => uses[o] <= revived[o]
                      /\ o > minted' => uses[o] = 0
    BY <1>1 DEF Counted
  <2>1. o \in Nat /\ uses[o] \in Nat /\ revived[o] \in Nat
    BY <1>2, KeyIs, LastKeyType
  <2>2. o \in new => uses[o] = 0
    BY <1>2, <1>3, <2>1 DEF Kept, Counted
  <2> QED BY <1>1, <1>2, <1>4, <2>1, <2>2 DEF Kept, Counted
<1>10. \A x : Known(x) => Known(x)'
  BY <1>1, <1>4 DEF Known
<1>11. Bundled'
  BY <1>1, <1>10 DEF Kept, Bundled
<1>12. Arrived'
  BY <1>1, <1>4 DEF Kept, Arrived, Known
<1>13. Answered'
  BY <1>1 DEF Kept, Answered, Answer
<1>14. Backed'
  BY <1>1, <1>4 DEF Kept, Backed, AnswersFor, Restored
<1> QED BY <1>8, <1>9, <1>11, <1>12, <1>13, <1>14 DEF Kept

\* A key that has just been generated is of no kind yet.
LEMMA FreshKey ==
  ASSUME Kept, minted < MaxKeys
  PROVE  /\ minted + 1 \in Key /\ minted + 1 <= Room(restarts)
         /\ minted + 1 \notin Secrets(pool)
         /\ saved # NoPool => minted + 1 \notin Secrets(Restored)
<1>1. minted \in Nat /\ MaxKeys \in Nat /\ Room(restarts) \in Nat /\ MaxKeys <= Room(restarts)
  BY Sizes, RoomEnds DEF Kept, Typed
<1>2. minted + 1 \notin 1 .. minted /\ minted + 1 \in Key /\ minted + 1 <= Room(restarts)
  BY <1>1, KeyIs, LastKeyType
<1> QED BY <1>2 DEF Kept, Typed, WellFormed

\* The parts a rotation leaves alone, whichever prekey it is.
LEMMA RotationKept ==
  ASSUME Kept, minted < MaxKeys, minted' = minted + 1,
         pool'.available = pool.available, retired \subseteq retired',
         pool'.signed = pool.signed \/ pool.signed \in retired',
         pool'.pq = pool.pq \/ pool.pq \in retired',
         UNCHANGED <<saved, bundles, firsts, sessions, uses, revived, forgotten,
                     backed, restarts>>
  PROVE  Counted' /\ Bundled' /\ Arrived' /\ Answered' /\ Backed'
<1>1. Counted'
  <2>1. minted \in Nat /\ \A o \in Key : o \in Nat
    BY KeyIs, LastKeyType DEF Kept, Typed
  <2> QED BY <2>1 DEF Kept, Counted
<1>2. \A x : Known(x) => Known(x)'
  BY DEF Known
<1>3. Bundled'
  BY <1>2 DEF Kept, Bundled
<1>4. Arrived'
  BY DEF Kept, Arrived, Known
<1>5. Answered'
  BY DEF Kept, Answered, Answer
<1>6. Backed'
  BY DEF Kept, Backed, AnswersFor, Restored
<1> QED BY <1>1, <1>3, <1>4, <1>5, <1>6

\* The types, after a rotation that leaves a well-formed pool of the old kinds.
LEMMA RotationTyped ==
  ASSUME Kept, minted < MaxKeys, minted' = minted + 1,
         pool' \in Pool, Secrets(pool') \subseteq Secrets(pool) \cup {minted + 1},
         Alike(pool', pool'), saved # NoPool => Alike(pool', Restored),
         retired' \subseteq Key,
         UNCHANGED <<saved, uses, revived, forgotten, restarts>>
  PROVE  Typed'
<1>1. /\ minted + 1 \in Key /\ minted + 1 <= Room(restarts) /\ minted \in Nat
      /\ PoolSize <= minted /\ Secrets(pool) \subseteq 1 .. minted
  BY FreshKey DEF Kept, Typed, WellFormed
<1>2. 1 .. minted \cup {minted + 1} \subseteq 1 .. minted' /\ PoolSize <= minted' /\ minted' \in Nat
  BY <1>1, Sizes
<1>3. WellFormed(pool)'
  BY <1>1, <1>2 DEF WellFormed, Alike, Secrets
<1>4. Restored' = Restored
  BY DEF Restored
<1>5. saved # NoPool => WellFormed(Restored)' /\ Alike(pool, Restored)'
  BY <1>2, <1>4 DEF Kept, Typed, WellFormed, Alike, Secrets
<1> QED BY <1>1, <1>2, <1>3, <1>5 DEF Kept, Typed, Room

LEMMA RotateSignedPrekeyKeeps == Kept /\ RotateSignedPrekey => Kept'
<1> SUFFICES ASSUME Kept, RotateSignedPrekey PROVE Kept'
  OBVIOUS
<1>1. /\ minted < MaxKeys /\ minted' = minted + 1
      /\ pool' = [pool EXCEPT !.signed = minted + 1]
      /\ retired' = retired \cup {pool.signed}
      /\ UNCHANGED <<saved, bundles, firsts, sessions, uses, revived, forgotten,
                     backed, restarts>>
  BY DEF RotateSignedPrekey, WithSignedPrekey
<1>2. /\ minted + 1 \in Key /\ minted + 1 \notin Secrets(pool)
      /\ saved # NoPool => minted + 1 \notin Secrets(Restored)
      /\ pool \in Pool /\ retired \subseteq Key
  BY <1>1, FreshKey DEF Kept, Typed, WellFormed
<1>3. /\ pool' \in Pool /\ pool'.signed = minted + 1
      /\ pool'.pq = pool.pq /\ pool'.available = pool.available
      /\ retired' \subseteq Key
  BY <1>1, <1>2 DEF Pool
<1>4. Secrets(pool') \subseteq Secrets(pool) \cup {minted + 1}
  BY <1>3 DEF Secrets
<1>5. Alike(pool', pool') /\ (saved # NoPool => Alike(pool', Restored))
  BY <1>2, <1>3 DEF Kept, Typed, WellFormed, Alike, Secrets
<1>6. Typed'
  BY <1>1, <1>3, <1>4, <1>5, RotationTyped
<1>7. Counted' /\ Bundled' /\ Arrived' /\ Answered' /\ Backed'
  BY <1>1, <1>3, RotationKept
<1> QED BY <1>6, <1>7 DEF Kept

LEMMA RotatePqPrekeyKeeps == Kept /\ RotatePqPrekey => Kept'
<1> SUFFICES ASSUME Kept, RotatePqPrekey PROVE Kept'
  OBVIOUS
<1>1. /\ minted < MaxKeys /\ minted' = minted + 1
      /\ pool' = [pool EXCEPT !.pq = minted + 1]
      /\ retired' = retired \cup {pool.pq}
      /\ UNCHANGED <<saved, bundles, firsts, sessions, uses, revived, forgotten,
                     backed, restarts>>
  BY DEF RotatePqPrekey, WithPqPrekey
<1>2. /\ minted + 1 \in Key /\ minted + 1 \notin Secrets(pool)
      /\ saved # NoPool => minted + 1 \notin Secrets(Restored)
      /\ pool \in Pool /\ retired \subseteq Key
  BY <1>1, FreshKey DEF Kept, Typed, WellFormed
<1>3. /\ pool' \in Pool /\ pool'.pq = minted + 1
      /\ pool'.signed = pool.signed /\ pool'.available = pool.available
      /\ retired' \subseteq Key
  BY <1>1, <1>2 DEF Pool
<1>4. Secrets(pool') \subseteq Secrets(pool) \cup {minted + 1}
  BY <1>3 DEF Secrets
<1>5. Alike(pool', pool') /\ (saved # NoPool => Alike(pool', Restored))
  BY <1>2, <1>3 DEF Kept, Typed, WellFormed, Alike, Secrets
<1>6. Typed'
  BY <1>1, <1>3, <1>4, <1>5, RotationTyped
<1>7. Counted' /\ Bundled' /\ Arrived' /\ Answered' /\ Backed'
  BY <1>1, <1>3, RotationKept
<1> QED BY <1>6, <1>7 DEF Kept

LEMMA SaveKeeps == Kept /\ Save => Kept'
<1> SUFFICES ASSUME Kept, Save PROVE Kept'
  OBVIOUS
<1>1. /\ saved' = ToBytes(pool)
      /\ UNCHANGED <<pool, minted, bundles, firsts, sessions, uses, revived,
                     retired, forgotten, backed, restarts>>
  BY DEF Save
<1>2. pool \in Pool
  BY DEF Kept, Typed, WellFormed
<1>3. saved' \in Bytes /\ saved' # NoPool /\ Restored' = pool
  BY <1>1, <1>2, RoundTrip, NoPoolAssumption DEF Restored
<1>4. Typed'
  BY <1>1, <1>3 DEF Kept, Typed, WellFormed, Room
<1>5. Counted' /\ Bundled' /\ Arrived' /\ Answered'
  BY <1>1 DEF Kept, Counted, Bundled, Arrived, Answered, Known, Answer
<1>6. Backed'
  BY <1>1, <1>3 DEF Kept, Backed, AnswersFor
<1> QED BY <1>4, <1>5, <1>6 DEF Kept

----
(***************************************************************************)
(* A restart.                                                              *)
(***************************************************************************)
\* Whatever the restarted process is left with, it is a pool of the old kinds, or
\* of numbers never used before.
LEMMA RestartPool ==
  ASSUME Kept, Restart
  PROVE  /\ minted \in Nat /\ minted' \in Nat /\ minted <= minted'
         /\ minted' <= Room(restarts + 1)
         /\ WellFormed(pool)'
         /\ \/ /\ saved # NoPool /\ pool' = Restored /\ minted' = minted
               /\ Alike(pool, Restored)
            \/ saved = NoPool /\ Secrets(pool') \cap 1 .. minted = {}
<1>1. /\ minted \in Nat /\ restarts \in Nat /\ restarts < MaxRestarts
      /\ minted <= Room(restarts) /\ PoolSize \in Nat
      /\ Room(restarts) \in Nat /\ Room(restarts) + PoolSize <= Room(restarts + 1)
      /\ Room(restarts + 1) \in Nat
      /\ Room(restarts + 1) <= LastKey /\ LastKey \in Nat
  <2>1. restarts \in Nat /\ restarts < MaxRestarts /\ minted \in Nat /\ minted <= Room(restarts)
    BY Sizes DEF Kept, Typed, Restart
  <2>2. restarts + 1 \in 0 .. MaxRestarts
    BY <2>1, Sizes
  <2>3. Room(restarts) \in Nat /\ Room(restarts) + PoolSize <= Room(restarts + 1)
    BY <2>1, RoomGrows
  <2>4. Room(restarts + 1) \in Nat /\ LastKey \in Nat /\ Room(restarts + 1) <= LastKey
    BY <2>2, RoomEnds
  <2> QED BY <2>1, <2>3, <2>4, Sizes
<1>2. CASE saved # NoPool
  <2>1. pool' = Restored /\ minted' = minted
    BY <1>2 DEF Restart, Restored
  <2>2. WellFormed(Restored) /\ Alike(pool, Restored)
    BY <1>2 DEF Kept, Typed
  <2>3. WellFormed(pool)'
    BY <2>1, <2>2 DEF WellFormed
  <2> QED BY <1>1, <1>2, <2>1, <2>2, <2>3
<1>3. CASE saved = NoPool
  <2>1. pool' = NewPool(minted + 1) /\ minted' = minted + PoolSize
    BY <1>3 DEF Restart
  <2>2. /\ minted + 1 \in Nat /\ minted + 1 > 0 /\ minted + 1 + PoolSize - 1 = minted'
        /\ minted' <= LastKey /\ minted' \in Nat
    BY <1>1, <2>1
  <2>3. /\ pool' \in Pool /\ Alike(pool', pool')
        /\ Secrets(pool') \subseteq minted + 1 .. minted'
    BY <2>1, <2>2, NewPoolIs
  <2>4. minted + 1 .. minted' \subseteq 1 .. minted'
        /\ minted + 1 .. minted' \cap 1 .. minted = {}
    BY <1>1, <2>2
  <2>5. WellFormed(pool)'
    BY <2>3, <2>4 DEF WellFormed, Alike, Secrets
  <2> QED BY <1>1, <1>3, <2>1, <2>2, <2>3, <2>4, <2>5
<1> QED BY <1>2, <1>3

LEMMA RestartKeeps == Kept /\ Restart => Kept'
<1> SUFFICES ASSUME Kept, Restart PROVE Kept'
  OBVIOUS
<1>1. /\ restarts < MaxRestarts /\ restarts' = restarts + 1
      /\ revived' = [k \in Key |->
                  IF k \in pool'.available \ pool.available /\ uses[k] > 0
                  THEN revived[k] + 1 ELSE revived[k]]
      /\ forgotten' = forgotten \cup (Secrets(pool) \ Secrets(pool'))
      /\ UNCHANGED <<saved, bundles, firsts, sessions, uses, retired, backed>>
  BY DEF Restart
<1>2. /\ minted \in Nat /\ minted' \in Nat /\ minted <= minted'
      /\ minted' <= Room(restarts + 1) /\ WellFormed(pool)'
  BY RestartPool
<1>3. /\ uses \in [Key -> Nat] /\ revived \in [Key -> Nat] /\ revived' \in [Key -> Nat]
      /\ \A k \in Key : revived'[k] \in {revived[k], revived[k] + 1}
  BY <1>1 DEF Kept, Typed
<1>4. Typed'
  <2>1. restarts' \in 0 .. MaxRestarts /\ PoolSize <= minted' /\ minted' <= Room(restarts)'
    BY <1>1, <1>2, Sizes DEF Kept, Typed, Room
  <2>2. Secrets(pool) \subseteq Key
    BY DEF Kept, Typed, WellFormed, Pool, Secrets
  <2>3. Restored' = Restored
    BY <1>1 DEF Restored
  <2>4. ASSUME saved # NoPool PROVE WellFormed(Restored)' /\ Alike(pool, Restored)'
    <3>1. pool' = Restored /\ minted' = minted /\ WellFormed(Restored)
      BY <2>4, RestartPool DEF Kept, Typed
    <3> QED BY <2>3, <3>1 DEF WellFormed, Alike
  <2> QED BY <1>1, <1>2, <1>3, <2>1, <2>2, <2>4 DEF Kept, Typed
<1>5. Counted'
  <2> SUFFICES ASSUME NEW o \in Key
               PROVE  /\ uses[o] <= 1 + revived'[o]
                      /\ o \in pool'.available => uses[o] <= revived'[o]
                      /\ o > minted' => uses[o] = 0
    BY <1>1 DEF Counted
  <2>1. o \in Nat /\ uses[o] \in Nat /\ revived[o] \in Nat
    BY <1>3, KeyIs, LastKeyType
  <2>2. /\ uses[o] <= 1 + revived[o]
        /\ o \in pool.available => uses[o] <= revived[o]
        /\ o > minted => uses[o] = 0
    BY DEF Kept, Counted
  <2>3. revived'[o] = IF o \in pool'.available \ pool.available /\ uses[o] > 0
                      THEN revived[o] + 1 ELSE revived[o]
    BY <1>1
  <2> QED BY <1>2, <2>1, <2>2, <2>3
<1>6. /\ pool.signed = pool'.signed \/ pool.signed \in forgotten'
      /\ pool.pq = pool'.pq \/ pool.pq \in forgotten'
      /\ \A k \in pool.available : k \in pool'.available \/ k \in forgotten'
  <2>1. Alike(pool, pool')
    <3>1. CASE saved # NoPool
      BY <3>1, RestartPool
    <3>2. CASE saved = NoPool
      <4>1. Secrets(pool) \cap Secrets(pool') = {}
        BY <3>2, RestartPool DEF Kept, Typed, WellFormed
      <4> QED BY <4>1 DEF Alike, Secrets
    <3> QED BY <3>1, <3>2
  <2> QED BY <1>1, <2>1 DEF Alike, Secrets
<1>7. ASSUME NEW x, Known(x)
      PROVE  /\ x.signed = pool'.signed \/ x.signed \in retired \cup forgotten'
             /\ x.pq = pool'.pq \/ x.pq \in retired \cup forgotten'
             /\ \/ x.one_time \in pool'.available \cup {NoKey, Altered}
                \/ x.one_time \in forgotten'
                \/ x.one_time \in Key /\ uses[x.one_time] > 0
  BY <1>1, <1>6, <1>7 DEF Known
<1>8. Bundled'
  BY <1>1, <1>7 DEF Kept, Bundled, Known
<1>9. Arrived'
  BY <1>1, <1>7 DEF Kept, Arrived, Known
<1>10. Answered'
  BY <1>1 DEF Kept, Answered, Answer
<1>11. Backed'
  <2>1. saved # NoPool => pool' = Restored
    BY RestartPool
  <2> QED BY <1>1, <2>1 DEF Kept, Backed, AnswersFor, Restored
<1> QED BY <1>4, <1>5, <1>8, <1>9, <1>10, <1>11 DEF Kept

LEMMA KeptStep == Kept /\ [PrekeysNext]_prekeyVars => Kept'
<1> SUFFICES ASSUME Kept, [PrekeysNext]_prekeyVars PROVE Kept'
  OBVIOUS
<1>1. ASSUME NEW b \in bundles, NEW x \in Parsed(b), Initiate(x) PROVE Kept'
  BY <1>1, InitiateKeeps
<1>2. ASSUME NEW i \in DOMAIN firsts, Respond(i) PROVE Kept'
  BY <1>2, RespondKeeps
<1>3. ASSUME NEW n \in 1 .. MaxKeys, TopUp(n) PROVE Kept'
  BY <1>3, TopUpKeeps
<1>4. CASE CurrentBundle \/ RotateSignedPrekey \/ RotatePqPrekey \/ Save \/ Restart
  BY <1>4, CurrentBundleKeeps, RotateSignedPrekeyKeeps, RotatePqPrekeyKeeps, SaveKeeps,
     RestartKeeps
<1>5. CASE UNCHANGED prekeyVars
  <2>1. Typed' /\ Counted' /\ Bundled' /\ Arrived'
    BY <1>5 DEF prekeyVars, Kept, Typed, Counted, Bundled, Arrived, Known, WellFormed,
                Restored, Room
  <2>2. Answered' /\ Backed'
    BY <1>5 DEF prekeyVars, Kept, Answered, Answer, Backed, AnswersFor, Restored
  <2> QED BY <2>1, <2>2 DEF Kept
<1> QED BY <1>1, <1>2, <1>3, <1>4, <1>5 DEF PrekeysNext

LEMMA AlwaysKept == PrekeysSpec => []Kept
BY KeptInit, KeptStep, PTL DEF PrekeysSpec

----
(***************************************************************************)
(* Theorems about the prekeys.                                             *)
(***************************************************************************)
\* Every state is well typed, every key is among those generated, and no one-time
\* prekey is the device's signed or PQ prekey.
THEOREM PrekeysTypeCorrect == PrekeysSpec => []PrekeysTypeOK
<1>1. Kept => PrekeysTypeOK
  <2> SUFFICES ASSUME Kept PROVE PrekeysTypeOK
    OBVIOUS
  <2>1. minted \in Key
    <3>1. minted \in Nat /\ minted > 0 /\ minted <= LastKey
      BY Sizes, MintedKeys DEF Kept, Typed
    <3> QED BY <3>1, KeyPlus
  <2>2. bundles \subseteq Bundle /\ backed \subseteq bundles
    BY DEF Kept, Bundled, Backed
  <2>3. \A s \in sessions : s[1] \in DOMAIN firsts
    BY DEF Kept, Answered
  <2> QED BY <2>1, <2>2, <2>3
          DEF Kept, Typed, Arrived, WellFormed, Alike, PrekeysTypeOK
<1> QED BY <1>1, AlwaysKept, PTL

\* A one-time prekey answers once, and once more for every restart that brought it
\* back, however many bundles name it and however often a first message arrives
\* (FfiHybridPrekeyPool::respond).
THEOREM AnswersOnceHolds == PrekeysSpec => []AnswersOnce
<1>1. Kept => AnswersOnce
  BY DEF Kept, Counted, AnswersOnce
<1> QED BY <1>1, AlwaysKept, PTL

\* The device answers with the session its initiator holds, unless a key the bundle
\* named was rotated out or lost, or the bundle was damaged on its way: then the two
\* secrets differ (pqxdh::initiate, pqxdh::respond).
THEOREM SameSessionHolds == PrekeysSpec => []SameSession
<1>1. Kept => SameSession
  <2> SUFFICES ASSUME Kept, NEW s \in sessions
               PROVE  \/ s[2] = Initiated(s[1], firsts[s[1]])
                      \/ /\ s[2].secret # Initiated(s[1], firsts[s[1]]).secret
                         /\ \/ {firsts[s[1]].signed, firsts[s[1]].pq}
                                 \cap (retired \cup forgotten) # {}
                            \/ firsts[s[1]].agreement = Altered
    BY DEF SameSession
  <2>1. PICK i \in DOMAIN firsts, k \in Key, q \in Key :
          /\ s = <<i, Answer(i, k, q)>>
          /\ k = firsts[i].signed \/ firsts[i].signed \in retired \cup forgotten
          /\ q = firsts[i].pq \/ firsts[i].pq \in retired \cup forgotten
    BY DEF Kept, Answered
  <2>2. s[1] = i /\ s[2] = Answer(i, k, q)
    BY <2>1
  <2>3. firsts[i].agreement \in {LongTerm, Altered}
    <3>1. firsts[i] \in Bundle
      BY DEF Kept, Arrived
    <3> QED BY <3>1 DEF Bundle
  <2>4. CASE k = firsts[i].signed /\ q = firsts[i].pq /\ firsts[i].agreement = LongTerm
    BY <2>2, <2>4 DEF Answer, Initiated, X3dhInitiated
  <2>5. CASE k # firsts[i].signed \/ q # firsts[i].pq \/ firsts[i].agreement # LongTerm
    <3>1. Answer(i, k, q).secret = <<<<i, LongTerm, k, firsts[i].one_time>>,
                                     <<<<i, firsts[i].pq>>, q>>>>
      BY DEF Answer, HybridKdf, X3dhKdf, Decapsulate, Encapsulated
    <3>2. Initiated(i, firsts[i]).secret
            = <<<<i, firsts[i].agreement, firsts[i].signed, firsts[i].one_time>>,
                <<<<i, firsts[i].pq>>, firsts[i].pq>>>>
      BY DEF Initiated, HybridKdf, X3dhInitiated, X3dhKdf, Decapsulate, Encapsulated
    <3>3. Answer(i, k, q).secret # Initiated(i, firsts[i]).secret
      BY <2>5, <3>1, <3>2
    <3> QED BY <2>1, <2>2, <2>3, <2>5, <3>3
  <2> QED BY <2>4, <2>5
<1> QED BY <1>1, AlwaysKept, PTL

\* A first message is refused only over a one-time prekey that has answered another,
\* was lost in a restart, or was damaged on its way, and always over one that has
\* answered as often as it was there (PrekeyPool::consume).
THEOREM RefusedFairlyHolds == PrekeysSpec => []RefusedFairly
<1>1. Kept => RefusedFairly
  <2> SUFFICES ASSUME Kept, NEW i \in DOMAIN firsts
               PROVE  /\ Refuses(i) => \/ firsts[i].one_time = Altered
                                       \/ firsts[i].one_time \in forgotten
                                       \/ uses[firsts[i].one_time] > 0
                      /\ firsts[i].one_time \in Key
                           /\ uses[firsts[i].one_time] > revived[firsts[i].one_time]
                           => Refuses(i)
    BY DEF RefusedFairly
  <2>1. Refuses(i) <=> firsts[i].one_time \notin pool.available \cup {NoKey}
    BY DEF Refuses, InitiationMessage
  <2>2. ASSUME Refuses(i)
        PROVE  \/ firsts[i].one_time = Altered
               \/ firsts[i].one_time \in forgotten
               \/ uses[firsts[i].one_time] > 0
    BY <2>1, <2>2 DEF Kept, Arrived, Known
  <2>3. ASSUME firsts[i].one_time \in Key,
               uses[firsts[i].one_time] > revived[firsts[i].one_time]
        PROVE  Refuses(i)
    <3>1. uses[firsts[i].one_time] \in Nat /\ revived[firsts[i].one_time] \in Nat
      BY <2>3 DEF Kept, Typed
    <3>2. firsts[i].one_time \in pool.available
            => uses[firsts[i].one_time] <= revived[firsts[i].one_time]
      BY <2>3 DEF Kept, Counted
    <3>3. firsts[i].one_time \notin pool.available
      BY <2>3, <3>1, <3>2
    <3> QED BY <2>1, <2>3, <3>3, NoneAssumption
  <2> QED BY <2>2, <2>3
<1> QED BY <1>1, AlwaysKept, PTL

\* What was saved before it was handed out can be answered for through any number of
\* restarts, until it is rotated out or used up (FfiHybridPrekeyPool::from_bytes).
THEOREM SavedBundleAnswerableHolds == PrekeysSpec => []SavedBundleAnswerable
<1>1. Kept => SavedBundleAnswerable
  BY DEF Kept, Backed, AnswersFor, SavedBundleAnswerable
<1> QED BY <1>1, AlwaysKept, PTL

----
(***************************************************************************)
(* Refinement.                                                             *)
(***************************************************************************)
InitiatorEnd(i, b) ==
  [role |-> "initiator", owner |-> i, secret |-> Initiated(i, b).secret,
   ratchet |-> Initiated(i, b).ratchet]

ResponderEnd(s) ==
  [role |-> "responder", owner |-> s[1], secret |-> s[2].secret, ratchet |-> s[2].ratchet]

LEMMA PrekeyEndsAre ==
  PrekeyEnds = {InitiatorEnd(i, firsts[i]) : i \in DOMAIN firsts}
                 \cup {ResponderEnd(s) : s \in sessions}
BY DEF PrekeyEnds, InitiatorEnd, ResponderEnd

\* A secret tells who began it and which signed prekey it was made with.
LEMMA InitiatorSecret ==
  ASSUME NEW i, NEW b
  PROVE  InitiatorEnd(i, b) =
           [role |-> "initiator", owner |-> i,
            secret |-> <<<<i, b.agreement, b.signed, b.one_time>>, <<<<i, b.pq>>, b.pq>>>>,
            ratchet |-> b.signed]
BY DEF InitiatorEnd, Initiated, HybridKdf, X3dhInitiated, X3dhKdf, Decapsulate, Encapsulated

LEMMA ResponderSecret ==
  ASSUME NEW i, NEW k, NEW q
  PROVE  ResponderEnd(<<i, Answer(i, k, q)>>) =
           [role |-> "responder", owner |-> i,
            secret |-> <<<<i, LongTerm, k, firsts[i].one_time>>, <<<<i, firsts[i].pq>>, q>>>>,
            ratchet |-> k]
BY DEF ResponderEnd, Answer, HybridKdf, X3dhKdf, Decapsulate, Encapsulated

\* Bundles, however they travel and whatever the pool goes through, implement the
\* promise the handshake implements.
THEOREM PrekeysPairHolds == PrekeysSpec => PrekeysPair
<1>1. PrekeysInit => PrekeyPromise!PairingInit
  BY DEF PrekeysInit, PrekeyPromise!PairingInit, PrekeyEnds
<1>2. ASSUME Kept, [PrekeysNext]_prekeyVars
      PROVE  [PrekeyPromise!OpenEnd]_PrekeyEnds
  <2>1. ASSUME UNCHANGED <<firsts, sessions>> PROVE UNCHANGED PrekeyEnds
    BY <2>1 DEF PrekeyEnds, Initiated
  <2>2. ASSUME NEW s \in sessions
        PROVE  \E i \in DOMAIN firsts : \E k, q \in Key : s = <<i, Answer(i, k, q)>>
    BY <1>2 DEF Kept, Answered
  <2>3. ASSUME NEW b \in bundles, NEW x \in Parsed(b), Initiate(x)
        PROVE  PrekeyPromise!OpenEnd
    <3>1. firsts' = Append(firsts, x) /\ UNCHANGED sessions /\ firsts \in Seq(Bundle)
      BY <1>2, <2>3 DEF Initiate, Kept, Arrived
    <3> DEFINE new == Len(firsts) + 1
    <3>2. x \in Bundle
      BY <1>2, <2>3, ArrivedIs DEF Initiate, Kept, Bundled
    <3>3. /\ DOMAIN firsts' = DOMAIN firsts \cup {new} /\ new \notin DOMAIN firsts
          /\ \A i \in DOMAIN firsts : firsts'[i] = firsts[i]
      BY <3>1, <3>2
    <3> HIDE DEF new
    <3> DEFINE end == InitiatorEnd(new, x)
    <3>4. firsts'[new] = x
      BY <3>1 DEF new
    <3>5. PrekeyEnds' = PrekeyEnds \cup {end}
      <4>1. PrekeyEnds' = {InitiatorEnd(i, firsts'[i]) : i \in DOMAIN firsts'}
                            \cup {ResponderEnd(s) : s \in sessions'}
        BY PrekeyEndsAre DEF PrekeyEnds, InitiatorEnd, ResponderEnd
      <4>2. {InitiatorEnd(i, firsts'[i]) : i \in DOMAIN firsts'}
              = {InitiatorEnd(i, firsts[i]) : i \in DOMAIN firsts} \cup {end}
        BY <3>3, <3>4
      <4> HIDE DEF end
      <4> QED BY <3>1, <4>1, <4>2, PrekeyEndsAre
    <3>6. end = [role |-> "initiator", owner |-> new,
                 secret |-> <<<<new, x.agreement, x.signed, x.one_time>>,
                              <<<<new, x.pq>>, x.pq>>>>,
                 ratchet |-> x.signed]
      BY InitiatorSecret
    <3> HIDE DEF end
    <3>7. ASSUME NEW y \in PrekeyEnds PROVE y.secret # end.secret
      <4>1. CASE \E i \in DOMAIN firsts : y = InitiatorEnd(i, firsts[i])
        <5>1. PICK i \in DOMAIN firsts : y = InitiatorEnd(i, firsts[i])
          BY <4>1
        <5>2. y = [role |-> "initiator", owner |-> i,
                   secret |-> <<<<i, firsts[i].agreement, firsts[i].signed,
                                  firsts[i].one_time>>,
                                <<<<i, firsts[i].pq>>, firsts[i].pq>>>>,
                   ratchet |-> firsts[i].signed]
          BY <5>1, InitiatorSecret
        <5> QED BY <3>3, <3>6, <5>2
      <4>2. CASE \E s \in sessions : y = ResponderEnd(s)
        <5>1. PICK s \in sessions : y = ResponderEnd(s)
          BY <4>2
        <5>2. PICK i \in DOMAIN firsts, k \in Key, q \in Key : s = <<i, Answer(i, k, q)>>
          BY <2>2
        <5>3. y = [role |-> "responder", owner |-> i,
                   secret |-> <<<<i, LongTerm, k, firsts[i].one_time>>,
                                <<<<i, firsts[i].pq>>, q>>>>,
                   ratchet |-> k]
          BY <5>1, <5>2, ResponderSecret
        <5> QED BY <3>3, <3>6, <5>3
      <4> QED BY <3>7, <4>1, <4>2, PrekeyEndsAre
    <3>8. \A y \in PrekeyEnds : PrekeyPromise!Fits(end, y)
      BY <3>7 DEF PrekeyPromise!Fits
    <3>9. end \in PrekeyEnds'
      BY <3>5
    <3> QED BY <3>5, <3>8, <3>9 DEF PrekeyPromise!OpenEnd
  <2>4. ASSUME NEW i \in DOMAIN firsts, Respond(i)
        PROVE  PrekeyPromise!OpenEnd \/ UNCHANGED PrekeyEnds
    <3> DEFINE s == <<i, Answer(i, pool.signed, pool.pq)>>
               end == ResponderEnd(s)
    <3>1. sessions' = sessions \cup {s} /\ UNCHANGED firsts
      BY <1>2, <2>4, RespondEffect
    <3>2. PrekeyEnds' = PrekeyEnds \cup {end}
      <4>1. PrekeyEnds' = {InitiatorEnd(j, firsts[j]) : j \in DOMAIN firsts}
                            \cup {ResponderEnd(t) : t \in sessions'}
        BY <3>1 DEF PrekeyEnds, InitiatorEnd, ResponderEnd, Initiated
      <4> HIDE DEF s
      <4> QED BY <3>1, <4>1, PrekeyEndsAre
    <3>3. end = [role |-> "responder", owner |-> i,
                 secret |-> <<<<i, LongTerm, pool.signed, firsts[i].one_time>>,
                              <<<<i, firsts[i].pq>>, pool.pq>>>>,
                 ratchet |-> pool.signed]
      BY ResponderSecret
    <3> HIDE DEF end, s
    <3>4. CASE end \in PrekeyEnds
      BY <3>2, <3>4
    <3>5. CASE end \notin PrekeyEnds
      <4>1. ASSUME NEW y \in PrekeyEnds, y.secret = end.secret
            PROVE  y.role = "initiator" /\ y.ratchet = end.ratchet
        <5>1. CASE \E j \in DOMAIN firsts : y = InitiatorEnd(j, firsts[j])
          BY <3>3, <4>1, <5>1, InitiatorSecret
        <5>2. CASE \E t \in sessions : y = ResponderEnd(t)
          <6>1. PICK j \in DOMAIN firsts, k \in Key, q \in Key :
                  y = ResponderEnd(<<j, Answer(j, k, q)>>)
            BY <2>2, <5>2
          <6>2. y = [role |-> "responder", owner |-> j,
                     secret |-> <<<<j, LongTerm, k, firsts[j].one_time>>,
                                  <<<<j, firsts[j].pq>>, q>>>>,
                     ratchet |-> k]
            BY <6>1, ResponderSecret
          <6>3. j = i /\ k = pool.signed /\ q = pool.pq
            BY <3>3, <4>1, <6>2
          <6> QED BY <3>3, <3>5, <6>2, <6>3
        <5> QED BY <4>1, <5>1, <5>2, PrekeyEndsAre
      <4>2. \A y \in PrekeyEnds : PrekeyPromise!Fits(end, y)
        BY <3>3, <4>1 DEF PrekeyPromise!Fits
      <4>3. end \in PrekeyEnds'
        BY <3>2
      <4> QED BY <3>2, <4>2, <4>3 DEF PrekeyPromise!OpenEnd
    <3> QED BY <3>4, <3>5
  <2>5. ASSUME NEW n \in 1 .. MaxKeys, TopUp(n) PROVE UNCHANGED <<firsts, sessions>>
    BY <2>5 DEF TopUp
  <2>6. CASE CurrentBundle \/ RotateSignedPrekey \/ RotatePqPrekey \/ Save \/ Restart
    BY <2>6, <2>1
       DEF CurrentBundle, RotateSignedPrekey, RotatePqPrekey, Save, Restart
  <2>7. CASE UNCHANGED prekeyVars
    BY <2>7, <2>1 DEF prekeyVars
  <2> HIDE DEF PrekeyPromise!OpenEnd
  <2> QED BY <1>2, <2>1, <2>3, <2>4, <2>5, <2>6, <2>7 DEF PrekeysNext
<1> QED BY <1>1, <1>2, AlwaysKept, PTL DEF PrekeysSpec, PrekeysPair, PrekeyPromise!PairingSpec

----
(***************************************************************************)
(* Both in one state space.                                                *)
(***************************************************************************)
LEMMA SetupStep ==
  [SetupNext]_setupVars => [HandshakeNext]_handshakeVars /\ [PrekeysNext]_prekeyVars
BY DEF SetupNext, ByContact, ByBundle, setupVars, handshakeVars, prekeyVars

\* A device that may go either way to a session does, on each, nothing but what that
\* way does alone (SetupNext interleaves the steps of Handshake and of Prekeys).
THEOREM SetupIsEither == SetupSpec => HandshakeSpec /\ PrekeysSpec
<1>1. SetupInit => HandshakeInit /\ PrekeysInit
  BY DEF SetupInit
<1> QED BY <1>1, SetupStep, PTL DEF SetupSpec, HandshakeSpec, PrekeysSpec

\* Where both ways are open, each keeps what it promises: a handle gives one session and
\* its other end exists, a one-time prekey answers once, both ends of a session hold the
\* same keys, and what is refused was used, lost or damaged.
THEOREM SetupKeepsPromises ==
  SetupSpec =>
    /\ [](OneSessionEach /\ OtherEnd /\ NoLoneInitiator)
    /\ [](PrekeysTypeOK /\ AnswersOnce /\ SameSession /\ RefusedFairly)
    /\ []SavedBundleAnswerable
    /\ HandshakesPair /\ PrekeysPair
BY SetupIsEither, OneSessionEachHolds, OtherEndHolds, NoLoneInitiatorHolds, PrekeysTypeCorrect,
   AnswersOnceHolds, SameSessionHolds, RefusedFairlyHolds, SavedBundleAnswerableHolds,
   HandshakesPairHolds, PrekeysPairHolds, PTL
====
