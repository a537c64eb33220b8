---- MODULE Pairing ----
(***************************************************************************)
(* What every way of setting up a session promises to the Double Ratchet   *)
(* that is seeded with it: a secret joins two ends at most, one initiator  *)
(* and one responder, and both mean the same ratchet key by the            *)
(* responder's first.                                                      *)
(***************************************************************************)
VARIABLE ends   \* the sessions opened so far: role, owner, secret, ratchet key

PairingInit == ends = {}

Fits(x, y) == x.secret = y.secret => x.role # y.role /\ x.ratchet = y.ratchet

\* One more end opens.  It may meet its counterpart, or have none yet, or never.
OpenEnd ==
  \E x \in ends' :
    /\ ends' = ends \cup {x}
    /\ \A y \in ends : Fits(x, y)

PairingSpec == PairingInit /\ [][OpenEnd]_ends
====
