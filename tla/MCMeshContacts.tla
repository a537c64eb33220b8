---- MODULE MCMeshContacts ----
(***************************************************************************)
(* Three nodes in a line, driven by radios whose links come up in any      *)
(* order and stay, while the user of one end waits for what the other      *)
(* composes; or by a schedule of contact windows.  Each bounds what the    *)
(* modules' constants bound.                                               *)
(***************************************************************************)
EXTENDS DtnSim, Inbox, MCMeshLine

VARIABLE driver

\* Driven by radios, no schedule is run: the simulation is in a window for good.
MCInit ==
  /\ InboxInit
  /\ \/ driver = "schedule" /\ SimInit
     \/ /\ driver = "radio" /\ Init
        /\ window = <<a, b>> /\ queue = <<>> /\ iterations = 0 /\ before = Copies

ByRadio ==
  /\ driver = "radio"
  /\ \/ Next /\ UNCHANGED inboxVars
     \/ InboxNext
  /\ DOMAIN composed' \subseteq {x} /\ now' = 0
  /\ contacts' <= 2 /\ contacts' = Cardinality(links')
  /\ UNCHANGED <<driver, simVars>>

BySchedule == driver = "schedule" /\ SimNext /\ UNCHANGED <<driver, inboxVars>>

mcVars == <<driver, vars, simVars, inboxVars>>

Radio(A) == driver = "radio" /\ A /\ UNCHANGED <<driver, simVars>>

\* The fairness of MeshRelay for the radios, and of an app that keeps polling and
\* fetches what it lists; nobody has to go on with a schedule.
MCFairness ==
  /\ WF_mcVars(Radio(Transit) /\ UNCHANGED inboxVars)
  /\ WF_mcVars(Radio(Report) /\ UNCHANGED inboxVars)
  /\ \A n \in Reader : \A id \in Id : WF_mcVars(Radio(Poll(n))) /\ WF_mcVars(Radio(Fetch(n, id)))

MCSpec == MCInit /\ [][ByRadio \/ BySchedule]_mcVars /\ MCFairness
====
