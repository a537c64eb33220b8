---- MODULE DtnSim ----
(***************************************************************************)
(* The simulation of core/src/dtn_sim.rs (`Simulation`): the engines of    *)
(* MeshRelay, driven through a schedule of contact windows.  A window      *)
(* connects two nodes, delivers every frame they produce, the newest       *)
(* first, until there are none, and disconnects them.  Nothing fails, and  *)
(* nothing happens outside the one window that is open but composing.      *)
(*                                                                         *)
(* Every step of a window is a step of MeshRelay; `net` holds the frames   *)
(* of `queue`, without their order.                                        *)
(***************************************************************************)
EXTENDS MeshRelay, SequencesExt

VARIABLES
  window,      \* the two nodes in contact, <<>> between contacts
  queue,       \* `queue`, in the order frames were pushed
  iterations,  \* `iterations`
  before       \* history: the copies each node held when the window opened

simVars == <<window, queue, iterations, before>>

Copies ==
  [n \in Node |-> [id \in DOMAIN entries[n] |-> entries[n][id].ttl]]

\* `Simulation::new`
SimInit ==
  /\ Init
  /\ window = <<>> /\ queue = <<>> /\ iterations = 0
  /\ before = Copies

\* `compose_at`
ComposeAt(id) ==
  /\ window = <<>>
  /\ ComposeLocal(id)
  /\ UNCHANGED simVars

\* `run_schedule` takes the next event, at its tick.
AtTick == window = <<>> /\ Tick /\ UNCHANGED simVars

\* `contact` is called.
Begin(n, p) ==
  /\ window = <<>>
  /\ LinkUp(n, p)
  /\ window' = <<n, p>> /\ iterations' = 0
  /\ before' = Copies
  /\ UNCHANGED queue

\* The two `on_peer_connected`, the caller's first node first.
Hello(n, p) ==
  /\ window = <<n, p>> \/ (window = <<p, n>> /\ n \in told[p])
  /\ OnPeerConnected(n, p)
  /\ queue' = Append(queue, Summary(n, p, DOMAIN entries[n]))
  /\ UNCHANGED <<window, iterations, before>>

Connected == window # <<>> /\ window[2] \in told[window[1]] /\ window[1] \in told[window[2]]

\* One turn of the loop: pop a frame, hand it over, push what comes of it.
Drain ==
  /\ Connected /\ queue # <<>>
  /\ OnFrame(Last(queue))
  /\ \E out \in SetToSeqs(BagToSet(net' (-) NetWithout(Last(queue)))) :
       queue' = Front(queue) \o out
  /\ iterations' = iterations + 1
  /\ UNCHANGED <<window, before>>

\* Mutant of Disconnect: the window closes on a timer.
DisconnectEarly ==
  /\ Connected
  /\ LinkDown({window[1], window[2]})
  /\ UNCHANGED simVars

\* The loop is over and the nodes part.
Disconnect ==
  /\ Connected /\ queue = <<>>
  /\ LinkDown({window[1], window[2]})
  /\ UNCHANGED simVars

\* The two `on_peer_lost`; `contact` returns after the second.
Part(n, p) ==
  /\ \/ window = <<n, p>> /\ UNCHANGED window
     \/ window = <<p, n>> /\ n \notin told[p] /\ window' = <<>>
  /\ OnPeerLost(n, p)
  /\ UNCHANGED <<queue, iterations, before>>

SimNext ==
  \/ \E id \in Id : ComposeAt(id)
  \/ AtTick
  \/ \E e \in Peerings : Begin(e[1], e[2]) \/ Hello(e[1], e[2]) \/ Part(e[1], e[2])
  \/ Drain
  \/ Disconnect

SimSpec == SimInit /\ [][SimNext]_<<vars, simVars>>

Exchange == INSTANCE ContactExchange WITH
  copies <- IF window = <<>> THEN Copies ELSE before,
  clock  <- now

----
\* A contact converges after the two summaries and at most one frame for each
\* envelope, far below the bound the simulation asserts: no summary is answered by
\* another, and no envelope is sent to a node that has it (dtn_sim.rs, contact).
ContactConverges == iterations <= 2 + Cardinality(Id)

\* A contact window, from its connect to its disconnect, is one exchange: summaries,
\* pushes and the order they are delivered in leave nothing out that either node could
\* pass on, take one hop off each copy, and let nothing expired across (dtn_sim.rs,
\* contact, over RelayEngine::on_peer_connected and on_frame).
WindowsExchange == Exchange!ExchangeSpec
====
