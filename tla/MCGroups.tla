---- MODULE MCGroups ----
(***************************************************************************)
(* A founder and two devices that get into its group, in five scenarios:   *)
(* concurrent commits, messages out of order, a restart while messages     *)
(* travel, one while commits do, and two, after which a device may be      *)
(* added a second time.  Each bounds what the module's constants bound.    *)
(***************************************************************************)
EXTENDS Groups

VARIABLE scenario

Scenarios ==
  {[commits |-> 3, messages |-> 1, restarts |-> 0, renewals |-> 3, mishaps |-> TRUE],
   [commits |-> 1, messages |-> 3, restarts |-> 0, renewals |-> 0, mishaps |-> TRUE],
   [commits |-> 1, messages |-> 2, restarts |-> 1, renewals |-> 1, mishaps |-> TRUE],
   [commits |-> 3, messages |-> 0, restarts |-> 1, renewals |-> 1, mishaps |-> TRUE],
   [commits |-> 3, messages |-> 0, restarts |-> 2, renewals |-> 2, mishaps |-> FALSE]}

MCInit == scenario \in Scenarios /\ GroupsInit

\* A message is given to the wrong call, a snapshot is cut short, or a second device
\* dies with an old one.
Mishap ==
  \/ misled' # {}
  \/ \E d \in Device : disk[d] # NoGroup /\ disk'[d] = NoGroup
  \/ Cardinality(stale') > 1

\* The founder is never added to its own group, so its key packages are left out.
MCNext ==
  /\ GroupsNext
  /\ Len(commits') <= scenario.commits /\ Len(messages') <= scenario.messages
  /\ restarts' <= scenario.restarts /\ (scenario.restarts = 0 => disk' = disk)
  /\ Cardinality({d \in Device : made'[d] > 1}) <= scenario.renewals
  /\ \A p \in packages' : p[1] # Founder
  /\ scenario.mishaps \/ ~ Mishap
  /\ UNCHANGED scenario

MCSpec == MCInit /\ [][MCNext]_<<scenario, vars>> /\ GroupsFairness
====
