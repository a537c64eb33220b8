---- MODULE Inbox ----
(***************************************************************************)
(* How what a node holds gets to its user: nothing reports an arrival, so  *)
(* the app polls the ids `FfiMeshNode` holds, takes away those it has      *)
(* shown, and fetches the rest one by one, while frames go on arriving     *)
(* between its calls (core/src/ffi_node.rs).                               *)
(***************************************************************************)
EXTENDS MeshRelay

CONSTANT Reader   \* the nodes whose user is looking

ASSUME ReaderAssumption == Reader \subseteq Node

VARIABLES
  listed,  \* what each app has left to fetch of its last poll
  shown    \* what each app has shown

inboxVars == <<listed, shown>>

InboxInit ==
  /\ listed = [n \in Reader |-> {}]
  /\ shown = [n \in Reader |-> {}]

\* Mutant of Poll: copies that go no further are not listed.
PollForwardable(n) ==
  /\ listed' = [listed EXCEPT
       ![n] = {id \in DOMAIN entries[n] : Forwardable(entries[n][id].ttl)} \ shown[n]]
  /\ UNCHANGED <<shown, vars>>

\* `all_ids_hex`, and the difference with what the app already knows.
Poll(n) ==
  /\ listed' = [listed EXCEPT ![n] = DOMAIN entries[n] \ shown[n]]
  /\ UNCHANGED <<shown, vars>>

\* `get_envelope_hex`, which has nothing to give if the envelope was evicted since.
Fetch(n, id) ==
  /\ id \in listed[n]
  /\ listed' = [listed EXCEPT ![n] = @ \ {id}]
  /\ shown' = [shown EXCEPT ![n] = @ \cup ({id} \cap DOMAIN entries[n])]
  /\ UNCHANGED vars

InboxNext ==
  \E n \in Reader : Poll(n) \/ \E id \in Id : Fetch(n, id)

----
\* An envelope gets from the user who composes it to a user who is looking, over any
\* number of hops within its budget, unless it expires on the way
\* (FfiMeshNode::compose_local, on_frame, all_ids_hex, get_envelope_hex).
Shown ==
  <>[](links = Link) =>
    \A id \in Id : \A n \in {p \in Reader : Distance[Origin[id]][p] < InitTtl[id]} :
      id \in DOMAIN composed ~> (id \in shown[n] \/ IsExpired(id, now))
====
