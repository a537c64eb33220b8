---- MODULE Groups ----
(***************************************************************************)
(* One MLS group: the devices' `FfiMlsMember` and `FfiMlsGroupHandle`      *)
(* objects (core/src/groups.rs behind core/src/ffi_groups.rs), the commits,*)
(* welcomes and messages that travel between them as envelopes, and the    *)
(* snapshots they are restored from.                                       *)
(*                                                                         *)
(* openmls is external.  A commit starts an epoch with secrets of its own, *)
(* so an epoch is the number of the commit that started it, 0 the founding *)
(* one, and commits form a tree: two of them may have the same base.       *)
(* Within an epoch a message is sealed with the key of its sender's        *)
(* generation, and a receiver gives up a key when it uses it.              *)
(*                                                                         *)
(* Whatever was sent stays available, so it may be processed early, late,  *)
(* again or never.  A device has at most one handle of the group.          *)
(***************************************************************************)
EXTENDS Naturals, Sequences, FiniteSets

CONSTANTS
  Device,
  Founder,
  NoGroup,      \* no handle; no snapshot that can be read
  Tolerance,    \* out_of_order_tolerance of openmls
  MaxMembers,   \* bound on the `FfiMlsMember` objects of a device
  MaxCommits,   \* bound on the commits
  MaxMessages,  \* bound on the application messages
  MaxRestarts   \* bound on the restarts of all devices

ASSUME FounderAssumption == Founder \in Device
ASSUME GroupBoundsAssumption ==
  /\ Tolerance \in Nat /\ MaxMembers \in Nat \ {0}
  /\ MaxCommits \in Nat /\ MaxMessages \in Nat /\ MaxRestarts \in Nat

VARIABLES
  made,      \* how many member objects each device has made
  member,    \* the one at hand, by its number; 0: used up, or none
  packages,  \* the key packages published: <<device, member object>>
  handle,    \* the group as each device sees it
  commits,   \* the commits made, each with its welcome
  messages,  \* the application messages sealed
  disk,      \* the last snapshot of each device
  restarts,
  opened,    \* history: the messages each device has opened
  twice,     \* history: the devices that opened a message again
  misled,    \* history: the devices that gave a message to the wrong call
  stale      \* history: the devices that died with a snapshot older than their state

vars == <<made, member, packages, handle, commits, messages, disk, restarts,
          opened, twice, misled, stale>>

history == <<opened, twice, misled, stale>>

----
(***************************************************************************)
(* A device's view of the group (`MlsGroup`).                              *)
(***************************************************************************)
\* A handle that has just entered epoch e: `used` will hold the message keys given
\* up, `spent` the senders whose commit key is.
Entered(e) == [epoch |-> e, sent |-> 0, used |-> {}, spent |-> {}]

Members(e) == IF e = 0 THEN {Founder} ELSE commits[e].members

In(d) == handle[d] # NoGroup

\* The number of keys of sender s that are behind the newest one used.
Ahead(d, s) ==
  LET gens == {k[2] : k \in {u \in handle[d].used : u[1] = s}}
  IN  IF gens = {} THEN 0 ELSE 1 + CHOOSE g \in gens : \A o \in gens : o <= g

\* Mutant of Decrypts: only in the order of the generations.
DecryptsInOrder(d, m) ==
  /\ In(d)
  /\ m.epoch = handle[d].epoch
  /\ m.from # d
  /\ Ahead(d, m.from) <= m.gen

\* `process_message` decrypts application message m for d.
Decrypts(d, m) ==
  /\ In(d)
  /\ m.epoch = handle[d].epoch
  /\ m.from # d
  /\ <<m.from, m.gen>> \notin handle[d].used
  /\ Ahead(d, m.from) <= m.gen + Tolerance

\* `process_message` decrypts commit c for d.
DecryptsCommit(d, c) ==
  /\ In(d)
  /\ commits[c].base = handle[d].epoch
  /\ commits[c].by # d
  /\ commits[c].by \notin handle[d].spent

\* Mutant of Uses: the key stays.
UsesNothing(d, m) == handle

Uses(d, m) == [handle EXCEPT ![d].used = @ \cup {<<m.from, m.gen>>}]

----
(***************************************************************************)
(* `FfiMlsMember`.                                                         *)
(***************************************************************************)
GroupsInit ==
  /\ made = [d \in Device |-> 1] /\ member = [d \in Device |-> 1]
  /\ packages = {} /\ commits = <<>> /\ messages = <<>>
  /\ handle = [d \in Device |-> NoGroup] /\ disk = [d \in Device |-> NoGroup]
  /\ restarts = 0
  /\ opened = [d \in Device |-> {}] /\ twice = {} /\ misled = {} /\ stale = {}

\* `MlsMember::from_identity_and_signer`: the old signature key, and a provider with
\* nothing in it, so that no earlier key package can be joined with.
NewMember(d) ==
  /\ made' = [made EXCEPT ![d] = @ + 1]
  /\ member' = [member EXCEPT ![d] = made'[d]]

\* `from_identity_and_signer`, with the signer bytes kept from the first one.
FromIdentityAndSigner(d) ==
  /\ member[d] = 0 /\ ~ In(d) /\ made[d] < MaxMembers
  /\ NewMember(d)
  /\ UNCHANGED <<packages, handle, commits, messages, disk, restarts, history>>

\* `take`, for the three calls that consume the member object.
Take(d) == member[d] # 0 /\ member' = [member EXCEPT ![d] = 0]

\* `key_package_bytes`.  The private keys stay in the object's own provider.
KeyPackage(d) ==
  /\ member[d] # 0
  /\ packages' = packages \cup {<<d, member[d]>>}
  /\ UNCHANGED <<made, member, handle, commits, messages, disk, restarts, history>>

\* `create_group`, by the founder's first object; another would make another group.
CreateGroup(d) ==
  /\ d = Founder /\ member[d] = 1
  /\ Take(d)
  /\ handle' = [handle EXCEPT ![d] = Entered(0)]
  /\ UNCHANGED <<made, packages, commits, messages, disk, restarts, history>>

\* Mutant of Welcomes: any welcome will do.
WelcomesAnyone(d, c) == TRUE

\* The welcome of commit c was made for a key package of the member object at hand.
Welcomes(d, c) == commits[c].added = <<d, member[d]>>

\* `join_from_welcome`.  The object is taken before the welcome is looked at: one
\* that is not for its key packages costs the device the object, and the private
\* keys with it.
JoinFromWelcome(d, c) ==
  /\ ~ In(d)
  /\ Take(d)
  /\ handle' = IF Welcomes(d, c)
               THEN [handle EXCEPT ![d] = Entered(c)] ELSE handle
  /\ UNCHANGED <<made, packages, commits, messages, disk, restarts, history>>

\* What `MlsMember::load_group_from_disk` reads, opens and decodes; NoGroup when one
\* of the three fails.
Loaded(d) == disk[d]

\* `load_group_from_disk`, which also takes the object first.
LoadGroupFromDisk(d) ==
  /\ ~ In(d)
  /\ Take(d)
  /\ handle' = [handle EXCEPT ![d] = Loaded(d)]
  /\ UNCHANGED <<made, packages, commits, messages, disk, restarts, history>>

----
(***************************************************************************)
(* `FfiMlsGroupHandle`, behind its mutex.                                  *)
(***************************************************************************)
\* The commit and the welcome that add key package p.
Committed(d, p) ==
  [base |-> handle[d].epoch, by |-> d, added |-> p,
   members |-> Members(handle[d].epoch) \cup {p[1]}]

\* Mutant of AddMember: the pending commit is not merged.
AddMemberUnmerged(d, p) ==
  /\ In(d)
  /\ Len(commits) < MaxCommits
  /\ p[1] \notin Members(handle[d].epoch)
  /\ commits' = Append(commits, Committed(d, p))
  /\ UNCHANGED <<made, member, packages, handle, messages, disk, restarts, history>>

\* `add_member`: commits and merges its own commit at once, whoever else may be
\* committing in the same epoch.  openmls refuses a signing key that is already in.
AddMember(d, p) ==
  /\ In(d)
  /\ Len(commits) < MaxCommits
  /\ p[1] \notin Members(handle[d].epoch)
  /\ commits' = Append(commits, Committed(d, p))
  /\ handle' = [handle EXCEPT ![d] = Entered(Len(commits'))]
  /\ UNCHANGED <<made, member, packages, messages, disk, restarts, history>>

\* Mutant of ProcessCommit: the staged commit is not merged.
ProcessCommitUnmerged(d, c) ==
  /\ DecryptsCommit(d, c)
  /\ handle' = [handle EXCEPT ![d].spent = @ \cup {commits[c].by}]
  /\ UNCHANGED <<made, member, packages, commits, messages, disk, restarts, history>>

\* `process_commit` with a commit.  With one that does not decrypt it is an error
\* and changes nothing.
ProcessCommit(d, c) ==
  /\ DecryptsCommit(d, c)
  /\ handle' = [handle EXCEPT ![d] = Entered(c)]
  /\ UNCHANGED <<made, member, packages, commits, messages, disk, restarts, history>>

\* `process_commit` with an application message: an error, after the key is used.
ProcessCommitOnMessage(d, n) ==
  /\ Decrypts(d, messages[n])
  /\ handle' = Uses(d, messages[n])
  /\ misled' = misled \cup {d}
  /\ UNCHANGED <<made, member, packages, commits, messages, disk, restarts,
                 opened, twice, stale>>

Sealed(d) == [epoch |-> handle[d].epoch, from |-> d, gen |-> handle[d].sent]

\* Mutant of Seal: the generation stays.
SealAgain(d) ==
  /\ In(d)
  /\ Len(messages) < MaxMessages
  /\ messages' = Append(messages, Sealed(d))
  /\ UNCHANGED <<made, member, packages, handle, commits, disk, restarts, history>>

\* `seal`, `seal_as_envelope`
Seal(d) ==
  /\ In(d)
  /\ Len(messages) < MaxMessages
  /\ messages' = Append(messages, Sealed(d))
  /\ handle' = [handle EXCEPT ![d].sent = @ + 1]
  /\ UNCHANGED <<made, member, packages, commits, disk, restarts, history>>

\* `open`, `open_from_envelope` with an application message.  With one that does
\* not decrypt, or of another group, it is an error and changes nothing.
Open(d, n) ==
  /\ Decrypts(d, messages[n])
  /\ handle' = Uses(d, messages[n])
  /\ opened' = [opened EXCEPT ![d] = @ \cup {n}]
  /\ twice' = IF n \in opened[d] THEN twice \cup {d} ELSE twice
  /\ UNCHANGED <<made, member, packages, commits, messages, disk, restarts,
                 misled, stale>>

\* `open` with a commit: an error, after the commit's key is used.
OpenOnCommit(d, c) ==
  /\ DecryptsCommit(d, c)
  /\ handle' = [handle EXCEPT ![d].spent = @ \cup {commits[c].by}]
  /\ misled' = misled \cup {d}
  /\ UNCHANGED <<made, member, packages, commits, messages, disk, restarts,
                 opened, twice, stale>>

\* `snapshot_to_disk`
Snapshot(d) ==
  /\ In(d)
  /\ disk' = [disk EXCEPT ![d] = handle[d]]
  /\ UNCHANGED <<made, member, packages, handle, commits, messages, restarts, history>>

\* A snapshot that was cut short.  It overwrites the one copy there is, and neither
\* `aead_open` nor `decode_kv_pairs` takes it for a shorter one.
Torn(d) == [disk EXCEPT ![d] = NoGroup]

\* The process dies, maybe in the middle of `snapshot_to_disk`.
Restart(d) ==
  /\ restarts < MaxRestarts
  /\ In(d) \/ member[d] # 0
  /\ member' = [member EXCEPT ![d] = 0]
  /\ handle' = [handle EXCEPT ![d] = NoGroup]
  /\ disk' \in {disk} \cup (IF In(d) THEN {Torn(d)} ELSE {})
  /\ stale' = IF In(d) /\ disk'[d] # handle[d] THEN stale \cup {d} ELSE stale
  /\ restarts' = restarts + 1
  /\ UNCHANGED <<made, packages, commits, messages, opened, twice, misled>>

GroupsNext ==
  \E d \in Device :
    \/ FromIdentityAndSigner(d)
    \/ KeyPackage(d)
    \/ CreateGroup(d)
    \/ \E c \in DOMAIN commits : JoinFromWelcome(d, c)
    \/ LoadGroupFromDisk(d)
    \/ \E p \in packages : AddMember(d, p)
    \/ \E c \in DOMAIN commits : ProcessCommit(d, c)
    \/ \E n \in DOMAIN messages : ProcessCommitOnMessage(d, n)
    \/ Seal(d)
    \/ \E n \in DOMAIN messages : Open(d, n)
    \/ \E c \in DOMAIN commits : OpenOnCommit(d, c)
    \/ Snapshot(d)
    \/ Restart(d)

\* The mesh delivers commits in the end, and the app processes them.
GroupsFairness ==
  \A d \in Device : WF_vars(\E c \in DOMAIN commits : ProcessCommit(d, c))

GroupsSpec == GroupsInit /\ [][GroupsNext]_vars
GroupsFairSpec == GroupsSpec /\ GroupsFairness

----
(***************************************************************************)
(* Properties.                                                             *)
(***************************************************************************)
View ==
  [epoch : 0 .. MaxCommits, sent : 0 .. MaxMessages,
   used : SUBSET (Device \X (0 .. MaxMessages)), spent : SUBSET Device]

ASSUME NoGroupAssumption == NoGroup \notin View

\* The types, and that nobody has a view, live or on disk, of an epoch it is not
\* a member of.
GroupsTypeOK ==
  /\ made \in [Device -> 1 .. MaxMembers] /\ member \in [Device -> 0 .. MaxMembers]
  /\ packages \subseteq Device \X (1 .. MaxMembers)
  /\ handle \in [Device -> View \cup {NoGroup}]
  /\ disk \in [Device -> View \cup {NoGroup}]
  /\ commits \in Seq([base : 0 .. MaxCommits, by : Device,
                      added : Device \X (1 .. MaxMembers), members : SUBSET Device])
  /\ Len(commits) <= MaxCommits
  /\ messages \in Seq([epoch : 0 .. MaxCommits, from : Device, gen : 0 .. MaxMessages])
  /\ Len(messages) <= MaxMessages
  /\ restarts \in 0 .. MaxRestarts
  /\ opened \in [Device -> SUBSET (DOMAIN messages)]
  /\ twice \subseteq Device /\ misled \subseteq Device /\ stale \subseteq Device
  /\ \A d \in Device : \A v \in {handle[d], disk[d]} \ {NoGroup} :
       v.epoch <= Len(commits) /\ d \in Members(v.epoch)

\* The epochs that e goes back to, e included: the least set that has with each
\* epoch the one it was made in.
Ancestry(e) ==
  {c \in 0 .. Len(commits) :
     \A S \in SUBSET (0 .. Len(commits)) :
       e \in S /\ (\A x \in S \ {0} : commits[x].base \in S) => c \in S}

\* The commits on the way to e that added d.
Additions(d, e) == {c \in Ancestry(e) \ {0} : commits[c].added[1] = d}

\* A device is in an epoch that its own commits have led to: it never falls back
\* behind one of them, whoever else commits in the same epoch, unless it came back
\* on a snapshot older than its state, or another branch has added it again and it
\* took that welcome in place of its snapshot (MlsGroupHandle::add_member).
KeepsOwnCommits ==
  \A c \in DOMAIN commits :
    LET d == commits[c].by
    IN  In(d) /\ d \notin stale /\ Additions(d, c) = Additions(d, handle[d].epoch) =>
          c \in Ancestry(handle[d].epoch)

\* No two messages of a device are sealed with the same key, through any number of
\* commits, snapshots and restarts, unless it came back on a snapshot older than
\* its state (MlsGroupHandle::seal, snapshot_to_disk).
KeysSealOnce ==
  \A m, n \in DOMAIN messages :
    m # n /\ messages[m] = messages[n] => messages[m].from \in stale

\* No device opens a message twice, with the same exception.
ReadsOnce == twice \subseteq stale

\* A message of the epoch a device is in can be opened, or has been, unless more
\* than the tolerated number of newer ones of its sender have been opened, the
\* device gave a message to the wrong call, or its sender sealed with an old key.
StillReadable ==
  \A d \in Device : \A n \in DOMAIN messages :
    LET m == messages[n]
    IN  In(d) /\ m.epoch = handle[d].epoch /\ m.from # d =>
          \/ Decrypts(d, m)
          \/ n \in opened[d]
          \/ Ahead(d, m.from) > m.gen + Tolerance
          \/ d \in misled \/ m.from \in stale

Forked == \E b, c \in DOMAIN commits : b # c /\ commits[b].base = commits[c].base

\* When no two commits were made on the same epoch, everyone who is in the group
\* ends up in its last epoch, unless it gave a message to the wrong call or came
\* back on an old snapshot.
Converges ==
  <>[](\A d \in Device :
         In(d) /\ ~ Forked /\ d \notin misled \cup stale => handle[d].epoch = Len(commits))
====
