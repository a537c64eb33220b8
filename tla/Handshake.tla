---- MODULE Handshake ----
(***************************************************************************)
(* Interactive session setup: Noise XX handshakes driven message by        *)
(* message through `FfiHandshake` handles (core/src/ffi.rs over            *)
(* core/src/crypto/noise.rs), and the hand-off to the Double Ratchet       *)
(* (core/src/crypto/session.rs).                                           *)
(*                                                                         *)
(* A device makes a handle for each attempt, as initiator or as responder. *)
(* The bytes a handle returns go out over the mesh, so a handle may be     *)
(* given any of them, early, late, again, or never, and an initiator's     *)
(* first message may reach several responders.                             *)
(*                                                                         *)
(* A handshake state is its transcript, the messages written and read so   *)
(* far.  A message is its writer and the transcript it was written on:     *)
(* every message after the first is authenticated with that transcript,    *)
(* and so is the responder's one transport message.                        *)
(***************************************************************************)
EXTENDS Naturals, Sequences, FiniteSets

CONSTANTS
  Initiators,  \* the handles made by `new_initiator`
  Responders   \* the handles made by `new_responder`

Handle == Initiators \cup Responders

ASSUME HandleAssumption == Initiators \cap Responders = {}

VARIABLES
  transcript,  \* the `HandshakeState` of each handle
  taken,       \* the handles whose state was taken: `None`
  wire,        \* the messages written, kept by the mesh
  established, \* the sessions each handle has given, in order
  strays       \* history: the initiators finished with something else than their
               \* responder's message

handshakeVars == <<transcript, taken, wire, established, strays>>

----
(***************************************************************************)
(* Noise XX (noise.rs; the snow library is external).                      *)
(***************************************************************************)
Rounds == 3

IsFinished(t) == Len(t) = Rounds

\* -> e   <- e, ee, s, es   -> s, se
MayWrite(h) ==
  /\ ~ IsFinished(transcript[h])
  /\ h \in Initiators <=> Len(transcript[h]) % 2 = 0

Written(h) == [from |-> h, on |-> transcript[h]]

\* Mutant of Reads: a message is taken for what its position says.
ReadsByPosition(h, m) ==
  /\ ~ IsFinished(transcript[h])
  /\ ~ MayWrite(h)
  /\ Len(m.on) = Len(transcript[h])

\* A first message is a bare public key: whatever comes first is read as one.
\* Later ones must be authenticated with the reader's own transcript.
Reads(h, m) ==
  /\ ~ IsFinished(transcript[h])
  /\ ~ MayWrite(h)
  /\ transcript[h] = <<>> \/ m.on = transcript[h]

----
(***************************************************************************)
(* `FfiHandshake`.                                                         *)
(***************************************************************************)
HandshakeInit ==
  /\ transcript = [h \in Handle |-> <<>>]
  /\ taken = {} /\ wire = {}
  /\ established = [h \in Handle |-> <<>>]
  /\ strays = {}

\* `write_message`.  The bytes cannot be had a second time.
WriteMessage(h) ==
  /\ h \notin taken
  /\ MayWrite(h)
  /\ wire' = wire \cup {Written(h)}
  /\ transcript' = [transcript EXCEPT ![h] = Append(@, Written(h))]
  /\ UNCHANGED <<taken, established, strays>>

\* `read_message`.  One that does not read leaves the state as it was.
ReadMessage(h, m) ==
  /\ h \notin taken
  /\ Reads(h, m)
  /\ transcript' = [transcript EXCEPT ![h] = Append(@, m)]
  /\ UNCHANGED <<taken, wire, established, strays>>

\* Mutant of TakeFinished: the state is copied out of the handle.
CopyFinished(h) ==
  /\ h \notin taken
  /\ IsFinished(transcript[h])
  /\ UNCHANGED taken

\* `take_finished`
TakeFinished(h) ==
  /\ h \notin taken
  /\ IsFinished(transcript[h])
  /\ taken' = taken \cup {h}

\* `establish_as_responder`: the handshake hash is the secret, and the ratchet keypair
\* is new.
EstablishedAsResponder(h) ==
  [secret |-> transcript[h], ratchet |-> <<h, Len(established[h])>>]

\* Mutant of FinishAsResponder: the message with the ratchet key is not sent.
FinishAsResponderSilently(h) ==
  /\ TakeFinished(h)
  /\ established' = [established EXCEPT
       ![h] = Append(@, EstablishedAsResponder(h))]
  /\ UNCHANGED <<transcript, wire, strays>>

\* `finish_as_responder`.  One more message carries the public half of the ratchet
\* keypair.
FinishAsResponder(h) ==
  /\ TakeFinished(h)
  /\ established' = [established EXCEPT
       ![h] = Append(@, EstablishedAsResponder(h))]
  /\ wire' = wire \cup {Written(h)}
  /\ UNCHANGED <<transcript, strays>>

\* Mutant of Carries: any responder's key will do.
CarriesAny(h, m) == IsFinished(m.on)

\* m decrypts under the transport keys of h.  Only a responder ever writes on a
\* finished transcript.
Carries(h, m) == m.on = transcript[h]

\* `establish_as_initiator`, when m decrypts to a ratchet key.
EstablishedAsInitiator(h, m) == [secret |-> transcript[h], ratchet |-> <<m.from, 0>>]

\* `finish_as_initiator`: the state is taken before the message is looked at.
FinishAsInitiator(h, m) ==
  /\ TakeFinished(h)
  /\ IF Carries(h, m)
     THEN /\ established' = [established EXCEPT
               ![h] = Append(@, EstablishedAsInitiator(h, m))]
          /\ UNCHANGED strays
     ELSE /\ strays' = strays \cup {h}
          /\ UNCHANGED established
  /\ UNCHANGED <<transcript, wire>>

HandshakeNext ==
  \/ \E h \in Handle : WriteMessage(h)
  \/ \E h \in Handle, m \in wire : ReadMessage(h, m)
  \/ \E h \in Responders : FinishAsResponder(h)
  \/ \E h \in Initiators, m \in wire : FinishAsInitiator(h, m)

\* The mesh keeps messages and delivers them in the end, and the app goes on with
\* a handshake it has begun.
HandshakeFairness ==
  \A h \in Handle :
    /\ WF_handshakeVars(WriteMessage(h))
    /\ WF_handshakeVars(\E m \in wire : ReadMessage(h, m))
    /\ WF_handshakeVars(h \in Responders /\ FinishAsResponder(h))
    /\ WF_handshakeVars(\E m \in wire : h \in Initiators /\ Carries(h, m) /\ FinishAsInitiator(h, m))

HandshakeSpec == HandshakeInit /\ [][HandshakeNext]_handshakeVars
HandshakeFairSpec == HandshakeSpec /\ HandshakeFairness

----
(***************************************************************************)
(* Properties.                                                             *)
(***************************************************************************)
Given(h) == {established[h][n] : n \in DOMAIN established[h]}

Role(h) == IF h \in Initiators THEN "initiator" ELSE "responder"

HandshakeEnds ==
  UNION {{[role |-> Role(h), owner |-> h, secret |-> s.secret, ratchet |-> s.ratchet] :
             s \in Given(h)} : h \in Handle}

HandshakePromise == INSTANCE Pairing WITH ends <- HandshakeEnds

\* The handshakes implement the promise of a session setup: however messages are
\* mixed up between handles, no secret is ever held by two initiators or by two
\* responders, and an initiator and a responder that share one agree on the
\* responder's ratchet key.
HandshakesPair == HandshakePromise!PairingSpec

\* A handle gives one session, whatever it is called with afterwards
\* (FfiHandshake::take_finished).
OneSessionEach == \A h \in Handle : Len(established[h]) <= 1

\* A session of a responder has its other end in the handle that began the
\* handshake: that handle is finished with the same transcript and has the same
\* session, or can still get it, unless it was finished with a stray message,
\* after which nothing brings the handshake back (FfiHandshake::finish_as_initiator).
OtherEnd ==
  \A r \in Responders : \A s \in Given(r) :
    LET i == s.secret[1].from
    IN  /\ i \in Initiators
        /\ transcript[i] = s.secret
        /\ s \in Given(i) \/ i \notin taken \/ i \in strays

\* A session of an initiator is one that a responder has.
NoLoneInitiator ==
  \A i \in Initiators : \A s \in Given(i) : \E r \in Responders : s \in Given(r)

\* An initiator that has written its last message gets its session, unless it is
\* finished with a stray message.
FinishedGetsSession ==
  \A i \in Initiators :
    IsFinished(transcript[i]) ~> (established[i] # <<>> \/ i \in strays)
====
