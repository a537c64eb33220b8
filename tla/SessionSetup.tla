---- MODULE SessionSetup ----
(***************************************************************************)
(* The two ways a pair of devices gets to a session: by a handshake while  *)
(* they can exchange messages, or by a bundle while they cannot.  They     *)
(* share the long-term identity, which nothing changes, and no other       *)
(* state, so a behaviour takes one of the two.                             *)
(***************************************************************************)
EXTENDS Handshake, Prekeys

VARIABLE way

setupVars == <<way, transcript, taken, wire, established, strays,
               pool, saved, minted, bundles, firsts, sessions,
               uses, revived, retired, forgotten, backed, restarts>>

SetupInit == way \in {"contact", "bundle"} /\ HandshakeInit /\ PrekeysInit

ByContact == way = "contact" /\ HandshakeNext /\ UNCHANGED <<way, prekeyVars>>

ByBundle == way = "bundle" /\ PrekeysNext /\ UNCHANGED <<way, handshakeVars>>

SetupNext == ByContact \/ ByBundle

SetupFairness ==
  \A h \in Handle :
    /\ WF_setupVars(ByContact /\ WriteMessage(h))
    /\ WF_setupVars(ByContact /\ \E m \in wire : ReadMessage(h, m))
    /\ WF_setupVars(ByContact /\ h \in Responders /\ FinishAsResponder(h))
    /\ WF_setupVars(ByContact /\ \E m \in wire :
                      h \in Initiators /\ Carries(h, m) /\ FinishAsInitiator(h, m))

SetupSpec == SetupInit /\ [][SetupNext]_setupVars /\ SetupFairness
====
