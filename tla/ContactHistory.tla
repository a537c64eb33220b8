---- MODULE ContactHistory ----
(***************************************************************************)
(* MeshRelay with a history of what a contact has failed to carry across,  *)
(* and the promise of a contact with that history: all the rest crosses.   *)
(*                                                                         *)
(* An envelope misses a peer for a reason the code gives and does not make *)
(* up for on the same contact.  The history of the way from n to p begins  *)
(* anew when p, told of the contact, sends n its summary.                  *)
(***************************************************************************)
EXTENDS MeshRelay

VARIABLE missed  \* by <<n, p>>, what has failed to cross from n to p

historyVars == <<vars, missed>>

\* The ids a summary may claim by mistake.
Misreported == UNION {FalsePositives[held] : held \in SUBSET Id}

\* The frames from n that p reads in a step.
Read(n, p) ==
  {f \in DOMAIN net :
     f.from = n /\ f.to = p /\ (f \notin DOMAIN net' \/ net'[f] < net[f])}

DataOf(frames, id) == {f \in frames : f.kind = "data" /\ f.id = id}

\* p gives up an envelope that has not expired: evicted, or lost in a restart.
Dropped(p) == {id \in DOMAIN entries[p] \ DOMAIN entries'[p] : ~ IsExpired(id, now)}

\* What p may turn the data frame f of its peer away for.
TurnsAway(p, f) ==
  \/ ~ Verifies(p, f.proof)
  \/ ~ WithinBudget(InWindow(PeerOrNew(p, f.from).rate, rate_limit[p]),
                    FrameBytes[f.id], rate_limit[p])
  \/ ~ Admits(entries[p], Capacity, f.id)

Refused(n, p) ==
  {id \in Id \ DOMAIN entries[p] : \E f \in DataOf(Read(n, p), id) : TurnsAway(p, f)}

\* n keeps back an envelope of its own because the summary of p claims it by mistake.
Misread(n, p) ==
  {id \in DOMAIN entries[n] \cap Misreported :
     \E f \in Read(p, n) : f.kind = "summary" /\ id \in f.ids}

\* n takes an envelope and does not flood it to p: an earlier send of the flood failed,
\* or n has it from p, in a frame that came so late that p has given it up since.
Unsent(n, p) ==
  {id \in DOMAIN entries'[n] \ DOMAIN entries[n] :
     /\ \/ DiskFaults
        \/ \E q \in DOMAIN peers[n] : {n, q} \notin links
        \/ DataOf(Read(p, n), id) # {} /\ id \notin DOMAIN entries[p]
     /\ ~ \E f \in DataOf(FramesSent, id) : f.from = n /\ f.to = p}

HistoryInit == Init /\ missed = [e \in Peerings |-> {}]

HistoryNext ==
  /\ Next
  /\ missed' = [e \in Peerings |->
       LET n == e[1]
           p == e[2]
       IN  IF n \in told'[p] \ told[p]
           THEN {}
           ELSE missed[e] \cup Dropped(p) \cup Refused(n, p) \cup Misread(n, p) \cup Unsent(n, p)]

HistorySpec     == HistoryInit /\ [][HistoryNext]_historyVars
FairHistorySpec == HistorySpec /\ Fairness

----
\* A contact on which the frames have drained has exchanged everything it has not missed:
\* whatever was composed or taken before, during or after the exchange of summaries, in
\* whatever order the two ends noticed the contact and whatever an earlier contact left
\* in flight, each end holds what the other can still forward, unless it turned it away
\* or gave it up, a false positive hid it or a failed send kept it back on this contact
\* (relay.rs, on_peer_connected and on_frame).
ContactSynced ==
  \A e \in Peerings :
    Settled(e[1], e[2]) => Offered(e[1]) \ missed[e] \subseteq DOMAIN entries[e[2]]

(***************************************************************************)
(* What the documents say, and the code does not do.                       *)
(***************************************************************************)

\* What a contact, once drained, has left with n because a summary of p claims it.
Suppressed(n, p) ==
  {id \in (Offered(n) \cap missed[<<n, p>>] \cap Misreported) \ DOMAIN entries[p] :
     Settled(n, p)}

\* A send that a false positive suppressed is made up for on the next contact: what one
\* contact left behind for that reason, a later one that drains does not leave behind again.
HealsOnNextContact ==
  \A e \in Peerings, id \in Id, c \in 1 .. MaxContacts :
    [](contacts = c /\ id \in Suppressed(e[1], e[2]) =>
         [](contacts > c => id \notin Suppressed(e[1], e[2])))
====
