---- MODULE GroupsProofs ----
(***************************************************************************)
(* Proofs about Groups: the keys a group message is sealed and opened with,*)
(* for any number of devices, commits, messages and restarts.              *)
(*                                                                         *)
(* What a device goes on from is its handle, or the snapshot it would load *)
(* when it has none.  The inductive invariant `Consistent` says that this  *)
(* only moves on while the device does not die with an older snapshot:     *)
(* every message it sealed or opened is behind it.  To show that a welcome *)
(* cannot take it back, a member object is known to be younger than any    *)
(* epoch on the device's disk.                                             *)
(***************************************************************************)
EXTENDS Groups, WellFoundedInduction, TLAPS

Commit == [base : 0 .. MaxCommits, by : Device,
           added : Device \X (1 .. MaxMembers), members : SUBSET Device]

Message == [epoch : 0 .. MaxCommits, from : Device, gen : 0 .. MaxMessages]

Typed ==
  /\ made \in [Device -> 1 .. MaxMembers] /\ member \in [Device -> 0 .. MaxMembers]
  /\ packages \subseteq Device \X (1 .. MaxMembers)
  /\ handle \in [Device -> View \cup {NoGroup}]
  /\ disk \in [Device -> View \cup {NoGroup}]
  /\ commits \in Seq(Commit) /\ Len(commits) <= MaxCommits
  /\ messages \in Seq(Message) /\ Len(messages) <= MaxMessages
  /\ restarts \in 0 .. MaxRestarts
  /\ opened \in [Device -> SUBSET (DOMAIN messages)]
  /\ twice \subseteq Device /\ misled \subseteq Device /\ stale \subseteq Device

\* Commits form a tree, and each is for a package of an object that was made.
Grown ==
  \A c \in DOMAIN commits :
    /\ commits[c].base \in 0 .. c - 1
    /\ commits[c].members = Members(commits[c].base) \cup {commits[c].added[1]}
    /\ commits[c].added[2] <= made[commits[c].added[1]]

\* A member object is at hand only while there is no handle, and nothing that was
\* made for it is older than what the device has on disk.
Fresh ==
  /\ \A p \in packages : p[2] <= made[p[1]]
  /\ \A d \in Device :
       /\ member[d] <= made[d]
       /\ In(d) => member[d] = 0
       /\ member[d] = 1 => disk[d] = NoGroup
       /\ \A c \in DOMAIN commits :
            member[d] # 0 /\ Welcomes(d, c) /\ disk[d] # NoGroup => disk[d].epoch < c

\* v, a view of device d, is of an epoch d is a member of, and has given up no keys
\* but of messages that d opened or gave to the wrong call.
Sound(d, v) ==
  /\ v.epoch <= Len(commits) /\ d \in Members(v.epoch)
  /\ v.sent <= Len(messages)
  /\ d \notin misled =>
       \A k \in v.used :
         \E n \in opened[d] : messages[n] = [epoch |-> v.epoch, from |-> k[1], gen |-> k[2]]

Held(d) == {handle[d], disk[d]} \ {NoGroup}

Viewed == \A d \in Device : \A v \in Held(d) : Sound(d, v)

\* What d goes on from.
Current(d) == IF In(d) THEN handle[d] ELSE disk[d]

SealedBefore(m, v) ==
  v # NoGroup /\ (m.epoch < v.epoch \/ (m.epoch = v.epoch /\ m.gen < v.sent))

OpenedBefore(m, v) ==
  v # NoGroup /\ (m.epoch < v.epoch \/ (m.epoch = v.epoch /\ <<m.from, m.gen>> \in v.used))

Past ==
  \A d \in Device \ stale :
    /\ \A n \in DOMAIN messages :
         messages[n].from = d => SealedBefore(messages[n], Current(d))
    /\ \A n \in opened[d] : OpenedBefore(messages[n], Current(d))

Consistent == Typed /\ Grown /\ Fresh /\ Viewed /\ Past /\ KeysSealOnce /\ ReadsOnce

\* A device at w that goes on from v forgets nothing.
Follows(v, w) ==
  w # NoGroup =>
    /\ v # NoGroup
    /\ w.epoch < v.epoch
         \/ (w.epoch = v.epoch /\ w.sent <= v.sent /\ w.used \subseteq v.used)

----
(***************************************************************************)
(* Views.                                                                  *)
(***************************************************************************)
LEMMA Bounds ==
  /\ MaxMembers \in Nat /\ MaxMembers # 0 /\ MaxCommits \in Nat /\ MaxMessages \in Nat
  /\ MaxRestarts \in Nat /\ Tolerance \in Nat
BY GroupBoundsAssumption

LEMMA ViewFields ==
  ASSUME NEW v \in View
  PROVE  /\ v.epoch \in 0 .. MaxCommits /\ v.sent \in 0 .. MaxMessages
         /\ v.epoch \in Nat /\ v.sent \in Nat
         /\ v.used \subseteq Device \X (0 .. MaxMessages) /\ v.spent \subseteq Device
         /\ v # NoGroup
BY NoGroupAssumption, Bounds DEF View

\* `Members`, in any tree of commits.
MembersIn(tree, e) == IF e = 0 THEN {Founder} ELSE tree[e].members

LEMMA EnteredIs ==
  ASSUME NEW e \in 0 .. MaxCommits
  PROVE  /\ Entered(e) \in View
         /\ Entered(e).epoch = e /\ Entered(e).sent = 0 /\ Entered(e).used = {}
<1>1. Entered(e) = [epoch |-> e, sent |-> 0, used |-> {}, spent |-> {}]
  BY DEF Entered
<1> QED BY <1>1, Bounds DEF View

LEMMA MessageFields ==
  ASSUME Typed, NEW n \in DOMAIN messages
  PROVE  /\ messages[n] \in Message
         /\ messages[n].epoch \in Nat /\ messages[n].gen \in Nat
         /\ messages[n].from \in Device
<1>1. messages[n] \in Message
  BY DEF Typed
<1> QED BY <1>1, Bounds DEF Message

LEMMA CurrentIs ==
  ASSUME Typed, NEW d \in Device
  PROVE  Current(d) \in View \cup {NoGroup}
BY DEF Typed, Current, In

LEMMA FollowsItself ==
  ASSUME NEW v \in View \cup {NoGroup}
  PROVE  Follows(v, v)
BY ViewFields DEF Follows

\* Nothing sealed or opened is lost by moving on.
LEMMA PastStays ==
  ASSUME Typed, Typed', Past, messages' = messages, opened' = opened,
         stale \subseteq stale',
         \A d \in Device \ stale' : Follows(Current(d)', Current(d))
  PROVE  Past'
<1> SUFFICES ASSUME NEW d \in Device \ stale'
             PROVE  /\ \A n \in DOMAIN messages :
                         messages[n].from = d => SealedBefore(messages[n], Current(d)')
                    /\ \A n \in opened[d] : OpenedBefore(messages[n], Current(d)')
  BY DEF Past, SealedBefore, OpenedBefore
<1> DEFINE v == Current(d)'
           w == Current(d)
<1>1. w \in View \cup {NoGroup} /\ v \in View \cup {NoGroup} /\ Follows(v, w)
  BY DEF Typed, Current, In
<1>2. /\ \A n \in DOMAIN messages : messages[n].from = d => SealedBefore(messages[n], w)
      /\ \A n \in opened[d] : OpenedBefore(messages[n], w)
  BY DEF Past
<1>3. \A n \in DOMAIN messages : messages[n].epoch \in Nat /\ messages[n].gen \in Nat
  BY MessageFields
<1>4. opened[d] \subseteq DOMAIN messages
  BY DEF Typed
<1> HIDE DEF v, w
<1>5. ASSUME NEW n \in DOMAIN messages, SealedBefore(messages[n], w)
      PROVE  SealedBefore(messages[n], v)
  BY <1>1, <1>3, <1>5, ViewFields DEF SealedBefore, Follows
<1>6. ASSUME NEW n \in DOMAIN messages, OpenedBefore(messages[n], w)
      PROVE  OpenedBefore(messages[n], v)
  BY <1>1, <1>3, <1>6, ViewFields DEF OpenedBefore, Follows
<1> QED BY <1>2, <1>4, <1>5, <1>6 DEF v

\* Nothing that is added makes a view unsound.
LEMMA SoundStays ==
  ASSUME Typed, NEW d \in Device, NEW v \in View, Sound(d, v),
         Len(commits) <= Len(commits'), Len(commits') \in Nat,
         \A c \in DOMAIN commits : commits'[c] = commits[c],
         Len(messages) <= Len(messages'), Len(messages') \in Nat,
         \A n \in DOMAIN messages : messages'[n] = messages[n],
         opened[d] \subseteq opened'[d], misled \subseteq misled'
  PROVE  Sound(d, v)'
<1>1. v.epoch \in Nat /\ v.sent \in Nat
  BY ViewFields
<1>2. v.epoch \in DOMAIN commits \/ v.epoch = 0
  BY <1>1 DEF Sound, Typed
<1>3. Members(v.epoch)' = Members(v.epoch)
  BY <1>2 DEF Members
<1>4. Len(commits) \in Nat /\ Len(messages) \in Nat /\ opened[d] \subseteq DOMAIN messages
  BY DEF Typed
<1>5. d \in Members(v.epoch)'
  BY <1>3 DEF Sound
<1>6. v.epoch <= Len(commits') /\ v.sent <= Len(messages')
  BY <1>1, <1>4 DEF Sound
<1>7. ASSUME d \notin misled', NEW k \in v.used
      PROVE  \E n \in opened'[d] :
               messages'[n] = [epoch |-> v.epoch, from |-> k[1], gen |-> k[2]]
  <2>1. PICK n \in opened[d] :
          messages[n] = [epoch |-> v.epoch, from |-> k[1], gen |-> k[2]]
    BY <1>7 DEF Sound
  <2> QED BY <1>4, <2>1
<1> QED BY <1>5, <1>6, <1>7 DEF Sound

\* A view that has just entered an epoch is sound.
LEMMA EnteredSound ==
  ASSUME NEW d \in Device, NEW e \in 0 .. MaxCommits,
         e <= Len(commits), d \in Members(e), Typed
  PROVE  Sound(d, Entered(e))
<1>1. Len(messages) \in Nat
  BY DEF Typed
<1> QED BY <1>1, EnteredIs DEF Sound

\* An epoch that is entered later is another.
LEMMA GrownMembers ==
  ASSUME Typed, Grown, NEW c \in DOMAIN commits
  PROVE  /\ commits[c] \in Commit /\ c \in 1 .. MaxCommits /\ c \in 0 .. MaxCommits
         /\ c \in Nat /\ c <= Len(commits)
         /\ Members(commits[c].base) \subseteq Members(c)
         /\ commits[c].added[1] \in Members(c)
<1>1. c \in 1 .. Len(commits) /\ Len(commits) \in Nat /\ commits[c] \in Commit
  BY DEF Typed
<1>2. Members(c) = commits[c].members
  BY <1>1 DEF Members
<1> QED BY <1>1, <1>2, Bounds DEF Grown, Typed

\* Views that were sound still are; what is new is to be shown.
LEMMA ViewedStays ==
  ASSUME Typed, Viewed,
         Len(commits) <= Len(commits'), Len(commits') \in Nat,
         \A c \in DOMAIN commits : commits'[c] = commits[c],
         Len(messages) <= Len(messages'), Len(messages') \in Nat,
         \A n \in DOMAIN messages : messages'[n] = messages[n],
         \A d \in Device : opened[d] \subseteq opened'[d],
         misled \subseteq misled',
         \A d \in Device : \A v \in Held(d)' : v \in Held(d) \/ Sound(d, v)'
  PROVE  Viewed'
<1> SUFFICES ASSUME NEW d \in Device, NEW v \in Held(d)' PROVE Sound(d, v)'
  BY DEF Viewed, Held
<1>1. CASE v \in Held(d)
  <2>1. v \in View /\ Sound(d, v)
    BY <1>1 DEF Held, Viewed, Typed
  <2> QED BY <2>1, SoundStays
<1> QED BY <1>1

----
(***************************************************************************)
(* Every call keeps what is consistent so.                                 *)
(***************************************************************************)
LEMMA ConsistentInit == GroupsInit => Consistent
<1> SUFFICES ASSUME GroupsInit PROVE Consistent
  OBVIOUS
<1>1. Typed
  BY Bounds DEF GroupsInit, Typed
<1>2. Grown /\ Fresh
  BY DEF GroupsInit, Grown, Fresh, In
<1>3. Viewed /\ Past
  BY DEF GroupsInit, Viewed, Held, Past
<1>4. KeysSealOnce /\ ReadsOnce
  BY DEF GroupsInit, KeysSealOnce, ReadsOnce
<1> QED BY <1>1, <1>2, <1>3, <1>4 DEF Consistent

LEMMA FromIdentityAndSignerKeeps ==
  ASSUME Consistent, NEW d \in Device, FromIdentityAndSigner(d)
  PROVE  Consistent'
<1> USE DEF FromIdentityAndSigner, NewMember, history
<1>1. Typed'
  BY Bounds DEF Consistent, Typed
<1>2. /\ made' = [made EXCEPT ![d] = @ + 1] /\ made[d] \in Nat
      /\ member' = [member EXCEPT ![d] = made[d] + 1]
      /\ made \in [Device -> Nat] /\ member \in [Device -> Nat]
      /\ \A x \in Device : made[x] <= made'[x]
      /\ made'[d] = made[d] + 1 /\ member'[d] = made[d] + 1 /\ made[d] >= 1
  BY Bounds DEF Consistent, Typed
<1>3. \A c \in DOMAIN commits : commits[c].added \in Device \X (1 .. MaxMembers)
  BY GrownMembers DEF Consistent, Commit
<1>4. Grown'
  <2> SUFFICES ASSUME NEW c \in DOMAIN commits
               PROVE  commits[c].added[2] <= made'[commits[c].added[1]]
    BY DEF Consistent, Grown, Members
  <2>1. commits[c].added[2] <= made[commits[c].added[1]] /\ commits[c].added[1] \in Device
        /\ commits[c].added[2] \in Nat
    BY <1>3 DEF Consistent, Grown
  <2> QED BY <1>2, <2>1
<1>5. Fresh'
  <2>1. ASSUME NEW p \in packages PROVE p[2] <= made'[p[1]]
    <3>1. p[1] \in Device /\ p[2] \in Nat /\ p[2] <= made[p[1]]
      BY DEF Consistent, Fresh, Typed
    <3> QED BY <1>2, <3>1
  <2>2. ASSUME NEW x \in Device
        PROVE  /\ member'[x] <= made'[x]
               /\ In(x)' => member'[x] = 0
               /\ member'[x] = 1 => disk'[x] = NoGroup
    BY <1>2 DEF Consistent, Fresh, In
  <2>3. ASSUME NEW x \in Device, NEW c \in DOMAIN commits,
               member'[x] # 0, Welcomes(x, c)', disk[x] # NoGroup
        PROVE  disk[x].epoch < c
    <3>1. x # d
      <4> SUFFICES ASSUME x = d PROVE FALSE
        OBVIOUS
      <4>1. commits[c].added[2] = made[d] + 1 /\ commits[c].added[1] = d
        BY <1>2, <2>3 DEF Welcomes
      <4> QED BY <1>2, <4>1 DEF Consistent, Grown
    <3> QED BY <1>2, <2>3, <3>1 DEF Welcomes, Consistent, Fresh
  <2> QED BY <2>1, <2>2, <2>3 DEF Fresh
<1>6. Viewed'
  BY DEF Consistent, Viewed, Held, Sound, Members
<1>7. Past' /\ KeysSealOnce' /\ ReadsOnce'
  BY DEF Consistent, Past, Current, In, KeysSealOnce, ReadsOnce
<1> QED BY <1>1, <1>4, <1>5, <1>6, <1>7 DEF Consistent

LEMMA KeyPackageKeeps ==
  ASSUME Consistent, NEW d \in Device, KeyPackage(d)
  PROVE  Consistent'
<1> USE DEF KeyPackage, history
<1>1. Typed'
  BY Bounds DEF Consistent, Typed
<1>2. Grown' /\ Viewed'
  BY DEF Consistent, Grown, Viewed, Held, Sound, Members
<1>3. Fresh'
  <2>1. \A p \in packages' : p[2] <= made[p[1]]
    BY DEF Consistent, Fresh
  <2> QED BY <2>1 DEF Consistent, Fresh, In, Welcomes
<1>4. Past' /\ KeysSealOnce' /\ ReadsOnce'
  BY DEF Consistent, Past, Current, In, KeysSealOnce, ReadsOnce
<1> QED BY <1>1, <1>2, <1>3, <1>4 DEF Consistent

\* A device without a handle gets one at v, or none when v is NoGroup.
LEMMA ArrivesKeeps ==
  ASSUME Consistent, NEW d \in Device, NEW v \in View \cup {NoGroup},
         Take(d), handle' = [handle EXCEPT ![d] = v],
         UNCHANGED <<made, packages, commits, messages, disk, restarts, history>>,
         v # NoGroup => Sound(d, v),
         v # NoGroup => Follows(v, disk[d])
  PROVE  Consistent'
<1> USE DEF history
<1>1. Typed'
  BY Bounds DEF Consistent, Typed, Take
<1>2. member' = [member EXCEPT ![d] = 0] /\ member[d] # 0 /\ handle[d] = NoGroup
  BY DEF Take, Consistent, Fresh, In
<1>3. Grown'
  BY DEF Consistent, Grown, Members
<1>4. handle'[d] = v /\ \A x \in Device \ {d} : handle'[x] = handle[x]
  BY DEF Consistent, Typed
<1>5. member'[d] = 0 /\ \A x \in Device \ {d} : member'[x] = member[x]
  BY <1>2 DEF Consistent, Typed
<1>6. Fresh'
  <2>1. ASSUME NEW x \in Device
        PROVE  /\ member'[x] <= made[x]
               /\ In(x)' => member'[x] = 0
               /\ member'[x] = 1 => disk[x] = NoGroup
               /\ \A c \in DOMAIN commits :
                    member'[x] # 0 /\ Welcomes(x, c)' /\ disk[x] # NoGroup => disk[x].epoch < c
    <3>1. CASE x = d
      BY <1>5, <3>1 DEF Consistent, Typed
    <3>2. CASE x # d
      BY <1>4, <1>5, <3>2 DEF Consistent, Fresh, In, Welcomes
    <3> QED BY <3>1, <3>2
  <2> QED BY <2>1 DEF Consistent, Fresh
<1>7. Viewed'
  <2> SUFFICES ASSUME NEW x \in Device, NEW w \in Held(x)' PROVE Sound(x, w)
    BY DEF Viewed, Sound, Held, Members
  <2>1. w \in Held(x) \/ (x = d /\ w = v /\ v # NoGroup)
    BY <1>4 DEF Held
  <2> QED BY <2>1 DEF Consistent, Viewed
<1>8. Past'
  <2>1. ASSUME NEW x \in Device PROVE Follows(Current(x)', Current(x))
    <3>1. CASE x = d
      <4>1. Current(d) = disk[d] /\ Current(d)' = IF v = NoGroup THEN disk[d] ELSE v
        BY <1>2, <1>4 DEF Current, In
      <4>2. disk[d] \in View \cup {NoGroup}
        BY DEF Consistent, Typed
      <4> QED BY <3>1, <4>1, <4>2, FollowsItself
    <3>2. CASE x # d
      <4>1. Current(x)' = Current(x) /\ Current(x) \in View \cup {NoGroup}
        BY <1>4, <3>2, CurrentIs DEF Current, In, Consistent
      <4> QED BY <4>1, FollowsItself
    <3> QED BY <3>1, <3>2
  <2>2. Typed /\ Past
    BY DEF Consistent
  <2> QED BY <1>1, <2>1, <2>2, PastStays
<1>9. KeysSealOnce' /\ ReadsOnce'
  BY DEF Consistent, KeysSealOnce, ReadsOnce
<1> QED BY <1>1, <1>3, <1>6, <1>7, <1>8, <1>9 DEF Consistent

LEMMA CreateGroupKeeps ==
  ASSUME Consistent, NEW d \in Device, CreateGroup(d)
  PROVE  Consistent'
<1>1. disk[d] = NoGroup
  BY DEF CreateGroup, Consistent, Fresh
<1>2. 0 \in 0 .. MaxCommits /\ 0 <= Len(commits) /\ d \in Members(0) /\ Typed
  BY Bounds DEF CreateGroup, Members, Consistent, Typed
<1>3. Sound(d, Entered(0)) /\ Entered(0) \in View
  BY <1>2, EnteredSound, EnteredIs
<1> QED BY <1>1, <1>3, ArrivesKeeps DEF CreateGroup, Follows

LEMMA JoinFromWelcomeKeeps ==
  ASSUME Consistent, NEW d \in Device, NEW c \in DOMAIN commits, JoinFromWelcome(d, c)
  PROVE  Consistent'
<1>1. Typed /\ Grown
  BY DEF Consistent
<1>2. CASE Welcomes(d, c)
  <2>1. /\ c \in 0 .. MaxCommits /\ c \in Nat /\ c <= Len(commits)
        /\ commits[c].added[1] \in Members(c)
    BY <1>1, GrownMembers
  <2>2. commits[c].added = <<d, member[d]>>
    BY <1>2 DEF Welcomes
  <2>3. commits[c].added[1] = d
    BY <2>2
  <2>4. Sound(d, Entered(c)) /\ Entered(c) \in View /\ Entered(c).epoch = c
        /\ Entered(c) # NoGroup
    BY <1>1, <2>1, <2>3, EnteredSound, EnteredIs, ViewFields
  <2>5. Follows(Entered(c), disk[d])
    BY <1>2, <2>4 DEF Follows, JoinFromWelcome, Take, Consistent, Fresh
  <2>6. handle' = [handle EXCEPT ![d] = Entered(c)]
    BY <1>2 DEF JoinFromWelcome
  <2> HIDE DEF Follows, Consistent, Sound, Entered
  <2> QED BY <2>4, <2>5, <2>6, ArrivesKeeps DEF JoinFromWelcome
<1>3. CASE ~ Welcomes(d, c)
  <2>1. handle' = [handle EXCEPT ![d] = NoGroup]
    BY <1>1, <1>3 DEF JoinFromWelcome, In, Typed
  <2> QED BY <2>1, ArrivesKeeps DEF JoinFromWelcome
<1> QED BY <1>2, <1>3

LEMMA LoadGroupFromDiskKeeps ==
  ASSUME Consistent, NEW d \in Device, LoadGroupFromDisk(d)
  PROVE  Consistent'
<1>1. disk[d] \in View \cup {NoGroup} /\ Loaded(d) = disk[d]
  BY DEF Consistent, Typed, Loaded
<1>2. disk[d] # NoGroup => Sound(d, disk[d])
  BY DEF Consistent, Viewed, Held
<1>3. Follows(disk[d], disk[d])
  BY <1>1, FollowsItself
<1> QED BY <1>1, <1>2, <1>3, ArrivesKeeps DEF LoadGroupFromDisk

\* A device with a handle goes on to v, and commits may be added.
LEMMA MovesOnKeeps ==
  ASSUME Consistent, NEW d \in Device, NEW v \in View,
         In(d), handle' = [handle EXCEPT ![d] = v],
         UNCHANGED <<made, member, packages, messages, disk, restarts, opened, twice, stale>>,
         commits' \in Seq(Commit), Len(commits') <= MaxCommits, Len(commits) <= Len(commits'),
         \A c \in DOMAIN commits : commits'[c] = commits[c],
         Grown', misled \subseteq misled', misled' \subseteq Device,
         Sound(d, v)', Follows(v, handle[d])
  PROVE  Consistent'
<1>1. Typed'
  BY Bounds DEF Consistent, Typed
<1>2. handle'[d] = v /\ \A x \in Device \ {d} : handle'[x] = handle[x]
  BY DEF Consistent, Typed
<1>3. v # NoGroup
  BY ViewFields
<1>4. Fresh'
  <2>1. ASSUME NEW x \in Device
        PROVE  /\ member[x] <= made[x]
               /\ In(x)' => member[x] = 0
               /\ member[x] = 1 => disk[x] = NoGroup
    BY <1>2 DEF Consistent, Fresh, In
  <2>2. ASSUME NEW x \in Device, NEW c \in DOMAIN commits',
               member[x] # 0, Welcomes(x, c)', disk[x] # NoGroup
        PROVE  disk[x].epoch < c
    <3>1. CASE c \in DOMAIN commits
      BY <2>2, <3>1 DEF Consistent, Fresh, Welcomes
    <3>2. CASE c \notin DOMAIN commits
      <4>1. disk[x] \in View /\ Sound(x, disk[x]) /\ Len(commits) \in Nat
        BY <2>2 DEF Consistent, Typed, Viewed, Held
      <4>2. c > Len(commits) /\ c \in Nat
        BY <3>2, <4>1 DEF Consistent, Typed
      <4>3. disk[x].epoch \in Nat /\ disk[x].epoch <= Len(commits)
        BY <4>1, ViewFields DEF Sound
      <4> QED BY <4>1, <4>2, <4>3
    <3> QED BY <3>1, <3>2
  <2> QED BY <2>1, <2>2 DEF Consistent, Fresh
<1>5. Viewed'
  <2>1. ASSUME NEW x \in Device, NEW w \in Held(x)' PROVE w \in Held(x) \/ Sound(x, w)'
    <3>1. w \in Held(x) \/ (x = d /\ w = v)
      BY <1>2 DEF Held
    <3> QED BY <3>1
  <2>2. /\ Typed /\ Viewed /\ Len(commits') \in Nat /\ Len(messages') \in Nat
        /\ Len(messages) <= Len(messages')
    BY DEF Consistent, Typed
  <2> QED BY <2>1, <2>2, ViewedStays
<1>6. Past'
  <2>1. ASSUME NEW x \in Device PROVE Follows(Current(x)', Current(x))
    <3>1. CASE x = d
      BY <1>2, <1>3, <3>1 DEF Current, In
    <3>2. CASE x # d
      <4>1. Current(x)' = Current(x) /\ Current(x) \in View \cup {NoGroup}
        BY <1>2, <3>2, CurrentIs DEF Current, In, Consistent
      <4> QED BY <4>1, FollowsItself
    <3> QED BY <3>1, <3>2
  <2>2. Typed /\ Past
    BY DEF Consistent
  <2> QED BY <1>1, <2>1, <2>2, PastStays
<1>7. KeysSealOnce' /\ ReadsOnce'
  BY DEF Consistent, KeysSealOnce, ReadsOnce
<1> QED BY <1>1, <1>4, <1>5, <1>6, <1>7 DEF Consistent

\* The view of a device with a handle.
LEMMA HandleIs ==
  ASSUME Consistent, NEW d \in Device, In(d)
  PROVE  /\ handle[d] \in View /\ Sound(d, handle[d]) /\ Current(d) = handle[d]
         /\ handle[d].epoch \in Nat /\ handle[d].epoch <= Len(commits)
         /\ handle[d].epoch \in 0 .. MaxCommits
         /\ handle[d].sent \in Nat /\ handle[d].sent <= Len(messages)
         /\ d \in Members(handle[d].epoch)
<1>1. handle[d] \in View /\ Sound(d, handle[d])
  BY DEF Consistent, Typed, Viewed, Held, In
<1>2. Current(d) = handle[d]
  BY DEF Current
<1> QED BY <1>1, <1>2, ViewFields DEF Sound

LEMMA AddMemberKeeps ==
  ASSUME Consistent, NEW d \in Device, NEW p \in packages, AddMember(d, p)
  PROVE  Consistent'
<1> DEFINE c == Committed(d, p)
           e == Len(commits) + 1
<1>1. /\ Typed /\ Grown /\ Len(commits) \in Nat /\ Len(commits) < MaxCommits
      /\ commits' = Append(commits, c) /\ commits \in Seq(Commit) /\ In(d)
  BY DEF AddMember, Consistent, Typed
<1>2. p \in Device \X (1 .. MaxMembers) /\ p[1] \in Device
  BY DEF Consistent, Typed
<1>3. /\ handle[d].epoch \in 0 .. MaxCommits /\ handle[d].epoch <= Len(commits)
      /\ d \in Members(handle[d].epoch) /\ handle[d] \in View
  BY <1>1, HandleIs
<1>4. Members(handle[d].epoch) \subseteq Device
  <2>1. CASE handle[d].epoch = 0
    BY <2>1, FounderAssumption DEF Members
  <2>2. CASE handle[d].epoch # 0
    <3>1. handle[d].epoch \in DOMAIN commits
      BY <1>1, <1>3, <2>2, Bounds
    <3>2. commits[handle[d].epoch] \in Commit
      BY <1>1, <3>1, GrownMembers
    <3> QED BY <2>2, <3>2 DEF Members, Commit
  <2> QED BY <2>1, <2>2
<1>5. c \in Commit
  BY <1>2, <1>3, <1>4 DEF Committed, Commit
<1>6. /\ commits' \in Seq(Commit) /\ Len(commits') = e /\ e <= MaxCommits
      /\ DOMAIN commits' = DOMAIN commits \cup {e} /\ e \notin DOMAIN commits
      /\ commits'[e] = c
      /\ \A n \in DOMAIN commits : commits'[n] = commits[n]
  <2> HIDE DEF c
  <2> QED BY <1>1, <1>5, Bounds
<1>7. \A n \in 0 .. Len(commits) : MembersIn(commits', n) = MembersIn(commits, n)
  BY <1>1, <1>6 DEF MembersIn
<1>8. c.base = handle[d].epoch /\ c.added = p /\ c.members = MembersIn(commits, c.base) \cup {p[1]}
  BY DEF Committed, Members, MembersIn
<1>9. Grown'
  <2>1. ASSUME NEW n \in DOMAIN commits
        PROVE  /\ commits'[n].base \in 0 .. n - 1
               /\ commits'[n].members = MembersIn(commits', commits'[n].base) \cup {commits'[n].added[1]}
               /\ commits'[n].added[2] <= made[commits'[n].added[1]]
    <3>1. commits[n].base \in 0 .. Len(commits)
      BY <1>1 DEF Grown
    <3>2. commits[n].members = MembersIn(commits, commits[n].base) \cup {commits[n].added[1]}
      BY <1>1 DEF Grown, Members, MembersIn
    <3> QED BY <1>1, <1>6, <1>7, <3>1, <3>2 DEF Grown
  <2>2. /\ commits'[e].base \in 0 .. e - 1
        /\ commits'[e].members = MembersIn(commits', commits'[e].base) \cup {commits'[e].added[1]}
        /\ commits'[e].added[2] <= made[commits'[e].added[1]]
    <3>1. c.base \in 0 .. Len(commits)
      BY <1>1, <1>3, <1>8, Bounds
    <3>2. p[2] <= made[p[1]]
      BY DEF Consistent, Fresh
    <3> HIDE DEF c
    <3> QED BY <1>1, <1>6, <1>7, <1>8, <3>1, <3>2
  <2>3. made' = made
    BY DEF AddMember
  <2> HIDE DEF c, e
  <2> QED BY <1>6, <2>1, <2>2, <2>3 DEF Grown, Members, MembersIn
<1>10. PICK v \in View : /\ v = Entered(Len(commits')) /\ v.epoch = e
                        /\ v.sent = 0 /\ v.used = {}
  <2>1. Len(commits') \in 0 .. MaxCommits
    BY <1>1, <1>6, Bounds
  <2>2. /\ Entered(Len(commits')) \in View /\ Entered(Len(commits')).epoch = Len(commits')
        /\ Entered(Len(commits')).sent = 0 /\ Entered(Len(commits')).used = {}
    BY <2>1, EnteredIs
  <2> QED BY <1>6, <2>2
<1>11. Sound(d, v)'
  <2>1. MembersIn(commits', e) = c.members
    BY <1>1, <1>6 DEF MembersIn
  <2>2. d \in MembersIn(commits', e)
    BY <1>3, <1>8, <2>1 DEF Members, MembersIn
  <2>3. Len(messages') \in Nat
    BY DEF AddMember, Consistent, Typed
  <2>4. v.epoch <= Len(commits') /\ d \in MembersIn(commits', v.epoch)
        /\ v.sent <= Len(messages') /\ v.used = {}
    BY <1>1, <1>6, <1>10, <2>2, <2>3
  <2> HIDE DEF e, c
  <2> QED BY <2>4 DEF Sound, Members, MembersIn
<1>12. Follows(v, handle[d])
  <2>1. handle[d].epoch < v.epoch
    BY <1>1, <1>3, <1>10, Bounds
  <2>2. v # NoGroup
    BY <1>10, ViewFields
  <2> QED BY <2>1, <2>2 DEF Follows
<1>13. /\ handle' = [handle EXCEPT ![d] = v]
       /\ UNCHANGED <<made, member, packages, messages, disk, restarts, opened, twice, stale>>
       /\ misled' = misled
  BY <1>10 DEF AddMember, history
<1>14. misled \subseteq Device /\ Len(commits) <= Len(commits')
  BY <1>1, <1>6 DEF Typed
<1> HIDE DEF e, c
<1> QED BY <1>1, <1>6, <1>9, <1>10, <1>11, <1>12, <1>13, <1>14, MovesOnKeeps

LEMMA ProcessCommitKeeps ==
  ASSUME Consistent, NEW d \in Device, NEW c \in DOMAIN commits, ProcessCommit(d, c)
  PROVE  Consistent'
<1>1. /\ Typed /\ Grown /\ In(d) /\ commits[c].base = handle[d].epoch
      /\ Len(commits) \in Nat /\ Len(commits) <= MaxCommits /\ commits \in Seq(Commit)
      /\ misled \subseteq Device
  BY DEF ProcessCommit, DecryptsCommit, Consistent, Typed
<1>2. /\ c \in 0 .. MaxCommits /\ c \in Nat /\ c <= Len(commits)
      /\ Members(handle[d].epoch) \subseteq Members(c)
  BY <1>1, GrownMembers
<1>3. d \in Members(c) /\ handle[d].epoch \in Nat /\ handle[d].epoch < c
  BY <1>1, <1>2, HandleIs DEF Grown
<1>4. PICK v \in View : v = Entered(c) /\ Sound(d, v) /\ v.epoch = c /\ v # NoGroup
  BY <1>1, <1>2, <1>3, EnteredSound, EnteredIs, ViewFields
<1>5. Follows(v, handle[d])
  BY <1>3, <1>4 DEF Follows
<1>6. /\ handle' = [handle EXCEPT ![d] = v] /\ commits' = commits
      /\ UNCHANGED <<made, member, packages, messages, disk, restarts, opened, twice, stale>>
      /\ misled' = misled
  BY <1>4 DEF ProcessCommit, history
<1>7. Sound(d, v)' /\ Grown'
  BY <1>1, <1>4, <1>6 DEF Sound, Members, Grown
<1>8. /\ commits' \in Seq(Commit) /\ Len(commits') <= MaxCommits
      /\ Len(commits) <= Len(commits') /\ \A n \in DOMAIN commits : commits'[n] = commits[n]
      /\ misled \subseteq misled' /\ misled' \subseteq Device
  BY <1>1, <1>6
<1> QED BY <1>1, <1>4, <1>5, <1>6, <1>7, <1>8, MovesOnKeeps

\* Using a key gives a view that goes on from the one before.
LEMMA UsesIs ==
  ASSUME Consistent, NEW d \in Device, NEW n \in DOMAIN messages, Decrypts(d, messages[n])
  PROVE  \E v \in View :
           /\ v = [handle[d] EXCEPT !.used = @ \cup {<<messages[n].from, messages[n].gen>>}]
           /\ Uses(d, messages[n]) = [handle EXCEPT ![d] = v]
           /\ v.used = handle[d].used \cup {<<messages[n].from, messages[n].gen>>}
           /\ v.epoch = handle[d].epoch /\ v.sent = handle[d].sent
           /\ messages[n].epoch = v.epoch /\ v # NoGroup
           /\ Follows(v, handle[d])
<1> DEFINE m == messages[n]
           v == [handle[d] EXCEPT !.used = @ \cup {<<m.from, m.gen>>}]
<1>1. In(d) /\ m.epoch = handle[d].epoch /\ m \in Message
  BY MessageFields DEF Decrypts, Consistent
<1>2. handle[d] \in View /\ handle[d].epoch \in Nat /\ handle[d].sent \in Nat
  BY <1>1, HandleIs
<1>3. m.from \in Device /\ m.gen \in 0 .. MaxMessages
  BY <1>1 DEF Message
<1> HIDE DEF m
<1>4. v \in View /\ v.epoch = handle[d].epoch /\ v.sent = handle[d].sent
      /\ v.used = handle[d].used \cup {<<m.from, m.gen>>}
  BY <1>2, <1>3 DEF View
<1>5. Uses(d, m) = [handle EXCEPT ![d] = v]
  BY DEF Uses
<1>6. v # NoGroup
  BY <1>4, ViewFields
<1> HIDE DEF v
<1>7. Follows(v, handle[d])
  BY <1>2, <1>4, <1>6 DEF Follows
<1> QED BY <1>1, <1>4, <1>5, <1>6, <1>7 DEF v, m

LEMMA ProcessCommitOnMessageKeeps ==
  ASSUME Consistent, NEW d \in Device, NEW n \in DOMAIN messages, ProcessCommitOnMessage(d, n)
  PROVE  Consistent'
<1>1. /\ Typed /\ Grown /\ In(d)
      /\ Len(commits) \in Nat /\ Len(commits) <= MaxCommits /\ commits \in Seq(Commit)
      /\ misled \subseteq Device /\ misled' = misled \cup {d}
      /\ commits' = commits
      /\ UNCHANGED <<made, member, packages, messages, disk, restarts, opened, twice, stale>>
      /\ Decrypts(d, messages[n]) /\ handle' = Uses(d, messages[n])
  BY DEF ProcessCommitOnMessage, Decrypts, Consistent, Typed
<1>2. PICK v \in View :
        /\ handle' = [handle EXCEPT ![d] = v]
        /\ v.epoch = handle[d].epoch /\ v.sent = handle[d].sent /\ Follows(v, handle[d])
  BY <1>1, UsesIs
<1>3. Sound(d, handle[d])
  BY <1>1, HandleIs
<1>4. Sound(d, v)' /\ Grown'
  BY <1>1, <1>2, <1>3 DEF Sound, Members, Grown
<1>5. /\ commits' \in Seq(Commit) /\ Len(commits') <= MaxCommits
      /\ Len(commits) <= Len(commits') /\ \A c \in DOMAIN commits : commits'[c] = commits[c]
      /\ misled \subseteq misled' /\ misled' \subseteq Device
  BY <1>1
<1> QED BY <1>1, <1>2, <1>4, <1>5, MovesOnKeeps

LEMMA OpenOnCommitKeeps ==
  ASSUME Consistent, NEW d \in Device, NEW c \in DOMAIN commits, OpenOnCommit(d, c)
  PROVE  Consistent'
<1>1. /\ Typed /\ Grown /\ In(d) /\ commits[c] \in Commit
      /\ Len(commits) \in Nat /\ Len(commits) <= MaxCommits /\ commits \in Seq(Commit)
      /\ misled \subseteq Device /\ misled' = misled \cup {d}
      /\ commits' = commits
      /\ UNCHANGED <<made, member, packages, messages, disk, restarts, opened, twice, stale>>
      /\ handle' = [handle EXCEPT ![d].spent = @ \cup {commits[c].by}]
  BY GrownMembers DEF OpenOnCommit, DecryptsCommit, Consistent, Typed
<1>2. handle[d] \in View /\ Sound(d, handle[d])
      /\ handle[d].epoch \in Nat /\ handle[d].sent \in Nat
  BY <1>1, HandleIs
<1>3. commits[c].by \in Device
  BY <1>1 DEF Commit
<1>4. PICK v \in View : /\ v = [handle[d] EXCEPT !.spent = @ \cup {commits[c].by}]
                        /\ v.epoch = handle[d].epoch /\ v.sent = handle[d].sent
                        /\ v.used = handle[d].used
  <2> DEFINE w == [handle[d] EXCEPT !.spent = @ \cup {commits[c].by}]
  <2>1. /\ w \in View /\ w.epoch = handle[d].epoch /\ w.sent = handle[d].sent
        /\ w.used = handle[d].used
    BY <1>2, <1>3 DEF View
  <2> QED BY <2>1
<1>5. handle' = [handle EXCEPT ![d] = v] /\ v # NoGroup
  BY <1>1, <1>4, ViewFields
<1>6. Follows(v, handle[d])
  BY <1>2, <1>4, <1>5 DEF Follows
<1>7. Sound(d, v)' /\ Grown'
  BY <1>1, <1>2, <1>4 DEF Sound, Members, Grown
<1>8. /\ commits' \in Seq(Commit) /\ Len(commits') <= MaxCommits
      /\ Len(commits) <= Len(commits') /\ \A n \in DOMAIN commits : commits'[n] = commits[n]
      /\ misled \subseteq misled' /\ misled' \subseteq Device
  BY <1>1
<1> QED BY <1>1, <1>5, <1>6, <1>7, <1>8, MovesOnKeeps

LEMMA SealKeeps ==
  ASSUME Consistent, NEW d \in Device, Seal(d)
  PROVE  Consistent'
<1> DEFINE m == Sealed(d)
           e == Len(messages) + 1
<1>1. /\ Typed /\ Grown /\ Fresh /\ Viewed /\ Past /\ In(d)
      /\ Len(messages) \in Nat /\ Len(messages) < MaxMessages /\ messages \in Seq(Message)
      /\ messages' = Append(messages, m)
      /\ handle' = [handle EXCEPT ![d].sent = @ + 1]
      /\ UNCHANGED <<made, member, packages, commits, disk, restarts, opened, twice,
                     misled, stale>>
  BY DEF Seal, Consistent, Typed, history
<1>2. /\ handle[d] \in View /\ Sound(d, handle[d]) /\ Current(d) = handle[d]
      /\ handle[d].epoch \in Nat /\ handle[d].sent \in Nat
      /\ handle[d].epoch \in 0 .. MaxCommits /\ handle[d].sent <= Len(messages)
  BY <1>1, HandleIs
<1>3. PICK v \in View : /\ v = [handle[d] EXCEPT !.sent = @ + 1]
                        /\ v.epoch = handle[d].epoch /\ v.sent = handle[d].sent + 1
                        /\ v.used = handle[d].used
  <2>1. handle[d].sent + 1 \in 0 .. MaxMessages
    BY <1>1, <1>2, Bounds
  <2> DEFINE w == [handle[d] EXCEPT !.sent = @ + 1]
  <2>2. /\ w \in View /\ w.epoch = handle[d].epoch /\ w.sent = handle[d].sent + 1
        /\ w.used = handle[d].used
    BY <1>2, <2>1 DEF View
  <2> QED BY <2>2
<1>4. handle' = [handle EXCEPT ![d] = v] /\ v # NoGroup
  BY <1>1, <1>3, ViewFields
<1>5. m \in Message /\ m.epoch = handle[d].epoch /\ m.from = d /\ m.gen = handle[d].sent
  BY <1>1, <1>2, Bounds DEF Sealed, Message
<1> HIDE DEF m
<1>6. /\ messages' \in Seq(Message) /\ Len(messages') = e /\ e <= MaxMessages /\ e \in Nat
      /\ DOMAIN messages' = DOMAIN messages \cup {e} /\ e \notin DOMAIN messages
      /\ messages'[e] = m
      /\ \A n \in DOMAIN messages : messages'[n] = messages[n]
  BY <1>1, <1>5, Bounds
<1>7. handle'[d] = v /\ \A x \in Device \ {d} : handle'[x] = handle[x]
  BY <1>1, <1>4 DEF Typed
<1>8. Typed'
  <2>1. opened' \in [Device -> SUBSET (DOMAIN messages')]
    BY <1>1, <1>6 DEF Typed
  <2> QED BY <1>1, <1>4, <1>6, <2>1, Bounds DEF Typed
<1>9. Grown'
  BY <1>1 DEF Grown, Members
<1>10. Fresh'
  <2>1. \A x \in Device : In(x)' = In(x)
    BY <1>1, <1>4, <1>7 DEF In
  <2> QED BY <1>1, <2>1 DEF Fresh, Welcomes
<1>11. Viewed'
  <2>1. Sound(d, v)'
    <3>1. v.epoch <= Len(commits) /\ d \in Members(v.epoch) /\ v.sent <= Len(messages')
      BY <1>1, <1>2, <1>3, <1>6 DEF Sound
    <3>2. ASSUME d \notin misled, NEW k \in v.used
          PROVE  \E n \in opened[d] :
                   messages'[n] = [epoch |-> v.epoch, from |-> k[1], gen |-> k[2]]
      <4>1. PICK n \in opened[d] :
              messages[n] = [epoch |-> v.epoch, from |-> k[1], gen |-> k[2]]
        BY <1>2, <1>3, <3>2 DEF Sound
      <4>2. n \in DOMAIN messages
        BY <1>1 DEF Typed
      <4> QED BY <1>6, <4>1, <4>2
    <3> QED BY <1>1, <3>1, <3>2 DEF Sound, Members
  <2>2. ASSUME NEW x \in Device, NEW w \in Held(x)' PROVE w \in Held(x) \/ Sound(x, w)'
    <3>1. w \in Held(x) \/ (x = d /\ w = v)
      BY <1>1, <1>7 DEF Held
    <3> QED BY <2>1, <3>1
  <2>3. /\ Len(commits) <= Len(commits') /\ Len(commits') \in Nat
        /\ \A c \in DOMAIN commits : commits'[c] = commits[c]
        /\ Len(messages) <= Len(messages') /\ Len(messages') \in Nat
        /\ \A x \in Device : opened[x] \subseteq opened'[x]
        /\ misled \subseteq misled'
    BY <1>1, <1>6 DEF Typed
  <2> QED BY <1>1, <1>6, <2>2, <2>3, ViewedStays
<1>12. ASSUME d \notin stale, NEW n \in DOMAIN messages, messages[n].from = d
       PROVE  /\ messages[n] # m
              /\ SealedBefore(messages[n], v)
  <2>1. SealedBefore(messages[n], handle[d])
    BY <1>1, <1>2, <1>12 DEF Past
  <2>2. messages[n].epoch \in Nat /\ messages[n].gen \in Nat
    BY <1>1, MessageFields
  <2> QED BY <1>2, <1>3, <1>4, <1>5, <2>1, <2>2 DEF SealedBefore
<1>13. Past'
  <2> SUFFICES ASSUME NEW x \in Device \ stale
               PROVE  /\ \A n \in DOMAIN messages' :
                           messages'[n].from = x => SealedBefore(messages'[n], Current(x)')
                      /\ \A n \in opened[x] : OpenedBefore(messages'[n], Current(x)')
    BY <1>1 DEF Past, SealedBefore, OpenedBefore
  <2>1. opened[x] \subseteq DOMAIN messages
    BY <1>1 DEF Typed
  <2>2. CASE x = d
    <3>1. Current(d)' = v
      BY <1>4, <1>7 DEF Current, In
    <3>2. SealedBefore(m, v)
      BY <1>2, <1>3, <1>4, <1>5 DEF SealedBefore
    <3>3. ASSUME NEW n \in opened[d] PROVE OpenedBefore(messages'[n], v)
      <4>1. OpenedBefore(messages[n], handle[d])
        BY <1>1, <1>2, <2>2, <3>3 DEF Past
      <4>2. messages'[n] = messages[n]
        BY <1>6, <2>1, <2>2, <3>3
      <4> QED BY <1>3, <1>4, <4>1, <4>2 DEF OpenedBefore
    <3> QED BY <1>6, <1>12, <2>2, <3>1, <3>2, <3>3
  <2>3. CASE x # d
    <3>1. Current(x)' = Current(x)
      BY <1>1, <1>7, <2>3 DEF Current, In
    <3>2. \A n \in DOMAIN messages :
            messages'[n].from = x => SealedBefore(messages'[n], Current(x))
      BY <1>1, <1>6 DEF Past
    <3>3. \A n \in opened[x] : OpenedBefore(messages'[n], Current(x))
      BY <1>1, <1>6, <2>1 DEF Past
    <3> QED BY <1>5, <1>6, <2>3, <3>1, <3>2, <3>3
  <2> QED BY <2>2, <2>3
<1>14. KeysSealOnce'
  <2> SUFFICES ASSUME NEW n \in DOMAIN messages', NEW k \in DOMAIN messages',
                      n # k, messages'[n] = messages'[k]
               PROVE  messages'[n].from \in stale
    BY <1>1 DEF KeysSealOnce
  <2>1. CASE n \in DOMAIN messages /\ k \in DOMAIN messages
    BY <1>6, <2>1 DEF Consistent, KeysSealOnce
  <2>2. CASE n = e
    BY <1>5, <1>6, <1>12, <2>2
  <2>3. CASE k = e
    BY <1>5, <1>6, <1>12, <2>3
  <2> QED BY <1>6, <2>1, <2>2, <2>3
<1>15. ReadsOnce'
  BY <1>1 DEF Consistent, ReadsOnce
<1> QED BY <1>8, <1>9, <1>10, <1>11, <1>13, <1>14, <1>15 DEF Consistent

LEMMA OpenKeeps ==
  ASSUME Consistent, NEW d \in Device, NEW n \in DOMAIN messages, Open(d, n)
  PROVE  Consistent'
<1> DEFINE m == messages[n]
<1>1. /\ Typed /\ Grown /\ Fresh /\ Viewed /\ Past /\ In(d)
      /\ Decrypts(d, m) /\ handle' = Uses(d, m)
      /\ opened' = [opened EXCEPT ![d] = @ \cup {n}]
      /\ twice' = IF n \in opened[d] THEN twice \cup {d} ELSE twice
      /\ UNCHANGED <<made, member, packages, commits, messages, disk, restarts,
                     misled, stale>>
  BY DEF Open, Decrypts, Consistent
<1>2. /\ handle[d] \in View /\ Sound(d, handle[d]) /\ Current(d) = handle[d]
      /\ handle[d].epoch \in Nat /\ handle[d].sent \in Nat
  BY <1>1, HandleIs
<1>3. PICK v \in View :
        /\ handle' = [handle EXCEPT ![d] = v]
        /\ v.used = handle[d].used \cup {<<m.from, m.gen>>}
        /\ v.epoch = handle[d].epoch /\ v.sent = handle[d].sent
        /\ m.epoch = v.epoch /\ v # NoGroup /\ Follows(v, handle[d])
  BY <1>1, UsesIs
<1>4. m \in Message /\ m.epoch \in Nat /\ m.gen \in Nat
  BY <1>1, MessageFields
<1>5. handle'[d] = v /\ \A x \in Device \ {d} : handle'[x] = handle[x]
  BY <1>1, <1>3 DEF Typed
<1>6. opened'[d] = opened[d] \cup {n} /\ \A x \in Device \ {d} : opened'[x] = opened[x]
  BY <1>1 DEF Typed
<1>7. Typed'
  BY <1>1, <1>3 DEF Typed
<1>8. Grown'
  BY <1>1 DEF Grown, Members
<1>9. Fresh'
  <2>1. \A x \in Device : In(x)' = In(x)
    BY <1>1, <1>3, <1>5 DEF In
  <2> QED BY <1>1, <2>1 DEF Fresh, Welcomes
<1>10. Viewed'
  <2>1. Sound(d, v)'
    <3>1. v.epoch <= Len(commits) /\ d \in Members(v.epoch) /\ v.sent <= Len(messages)
      BY <1>2, <1>3 DEF Sound
    <3>2. ASSUME d \notin misled, NEW k \in v.used
          PROVE  \E i \in opened'[d] :
                   messages[i] = [epoch |-> v.epoch, from |-> k[1], gen |-> k[2]]
      <4>1. CASE k \in handle[d].used
        BY <1>2, <1>3, <1>6, <3>2, <4>1 DEF Sound
      <4>2. CASE k = <<m.from, m.gen>>
        <5>1. m = [epoch |-> v.epoch, from |-> k[1], gen |-> k[2]]
          BY <1>3, <1>4, <4>2 DEF Message
        <5> QED BY <1>6, <5>1
      <4> QED BY <1>3, <3>2, <4>1, <4>2
    <3> QED BY <1>1, <3>1, <3>2 DEF Sound, Members
  <2>2. ASSUME NEW x \in Device, NEW w \in Held(x)' PROVE w \in Held(x) \/ Sound(x, w)'
    <3>1. w \in Held(x) \/ (x = d /\ w = v)
      BY <1>1, <1>5 DEF Held
    <3> QED BY <2>1, <3>1
  <2>3. /\ Len(commits) <= Len(commits') /\ Len(commits') \in Nat
        /\ \A c \in DOMAIN commits : commits'[c] = commits[c]
        /\ Len(messages) <= Len(messages') /\ Len(messages') \in Nat
        /\ \A i \in DOMAIN messages : messages'[i] = messages[i]
        /\ \A x \in Device : opened[x] \subseteq opened'[x]
        /\ misled \subseteq misled'
    BY <1>1, <1>6 DEF Typed
  <2> QED BY <1>1, <2>2, <2>3, ViewedStays
<1>11. Past'
  <2> SUFFICES ASSUME NEW x \in Device \ stale
               PROVE  /\ \A i \in DOMAIN messages :
                           messages[i].from = x => SealedBefore(messages[i], Current(x)')
                      /\ \A i \in opened'[x] : OpenedBefore(messages[i], Current(x)')
    BY <1>1 DEF Past, SealedBefore, OpenedBefore
  <2>1. CASE x = d
    <3>1. Current(d)' = v
      BY <1>3, <1>5 DEF Current, In
    <3>2. ASSUME NEW i \in DOMAIN messages, messages[i].from = d
          PROVE  SealedBefore(messages[i], v)
      <4>1. SealedBefore(messages[i], handle[d])
        BY <1>1, <1>2, <2>1, <3>2 DEF Past
      <4> QED BY <1>3, <4>1 DEF SealedBefore
    <3>3. ASSUME NEW i \in opened[d] PROVE OpenedBefore(messages[i], v)
      <4>1. OpenedBefore(messages[i], handle[d])
        BY <1>1, <1>2, <2>1, <3>3 DEF Past
      <4> QED BY <1>3, <4>1 DEF OpenedBefore
    <3>4. OpenedBefore(m, v)
      BY <1>3 DEF OpenedBefore
    <3> QED BY <1>6, <2>1, <3>1, <3>2, <3>3, <3>4
  <2>2. CASE x # d
    <3>1. Current(x)' = Current(x) /\ opened'[x] = opened[x]
      BY <1>1, <1>5, <1>6, <2>2 DEF Current, In
    <3> QED BY <1>1, <3>1 DEF Past
  <2> QED BY <2>1, <2>2
<1>12. KeysSealOnce'
  BY <1>1 DEF Consistent, KeysSealOnce
<1>13. ReadsOnce'
  <2>1. ASSUME n \in opened[d], d \notin stale PROVE FALSE
    <3>1. OpenedBefore(m, handle[d])
      BY <1>1, <1>2, <2>1 DEF Past
    <3>2. m.epoch = handle[d].epoch /\ <<m.from, m.gen>> \notin handle[d].used
      BY <1>1 DEF Decrypts
    <3> QED BY <1>2, <1>4, <3>1, <3>2 DEF OpenedBefore
  <2> QED BY <1>1, <2>1 DEF Consistent, ReadsOnce
<1> QED BY <1>7, <1>8, <1>9, <1>10, <1>11, <1>12, <1>13 DEF Consistent

LEMMA SnapshotKeeps ==
  ASSUME Consistent, NEW d \in Device, Snapshot(d)
  PROVE  Consistent'
<1>1. /\ Typed /\ Grown /\ Fresh /\ Viewed /\ Past /\ In(d)
      /\ disk' = [disk EXCEPT ![d] = handle[d]]
      /\ UNCHANGED <<made, member, packages, handle, commits, messages, restarts, opened,
                     twice, misled, stale>>
  BY DEF Snapshot, Consistent, history
<1>2. disk'[d] = handle[d] /\ \A x \in Device \ {d} : disk'[x] = disk[x]
  BY <1>1 DEF Typed
<1>3. Typed' /\ Grown'
  BY <1>1 DEF Typed, Grown, Members
<1>4. Fresh'
  <2>1. ASSUME NEW x \in Device
        PROVE  /\ member[x] <= made[x]
               /\ In(x) => member[x] = 0
               /\ member[x] = 1 => disk'[x] = NoGroup
               /\ \A c \in DOMAIN commits :
                    member[x] # 0 /\ Welcomes(x, c) /\ disk'[x] # NoGroup => disk'[x].epoch < c
    <3>1. CASE x = d
      BY <1>1, <3>1 DEF Fresh
    <3>2. CASE x # d
      BY <1>1, <1>2, <3>2 DEF Fresh
    <3> QED BY <3>1, <3>2
  <2> QED BY <1>1, <2>1 DEF Fresh, In, Welcomes
<1>5. Viewed'
  <2> SUFFICES ASSUME NEW x \in Device, NEW w \in Held(x)' PROVE Sound(x, w)
    BY <1>1 DEF Viewed, Sound, Held, Members
  <2>1. w \in Held(x)
    BY <1>1, <1>2 DEF Held
  <2> QED BY <1>1, <2>1 DEF Viewed
<1>6. Past'
  <2>1. \A x \in Device : Current(x)' = Current(x)
    BY <1>1, <1>2 DEF Current, In
  <2> QED BY <1>1, <2>1 DEF Past
<1>7. KeysSealOnce' /\ ReadsOnce'
  BY <1>1 DEF Consistent, KeysSealOnce, ReadsOnce
<1> QED BY <1>3, <1>4, <1>5, <1>6, <1>7 DEF Consistent

LEMMA RestartKeeps ==
  ASSUME Consistent, NEW d \in Device, Restart(d)
  PROVE  Consistent'
<1>1. /\ Typed /\ Grown /\ Fresh /\ Viewed /\ Past
      /\ restarts < MaxRestarts /\ restarts' = restarts + 1
      /\ member' = [member EXCEPT ![d] = 0]
      /\ handle' = [handle EXCEPT ![d] = NoGroup]
      /\ disk' = disk \/ disk' = [disk EXCEPT ![d] = NoGroup]
      /\ In(d) \/ disk' = disk
      /\ stale' = IF In(d) /\ disk'[d] # handle[d] THEN stale \cup {d} ELSE stale
      /\ UNCHANGED <<made, packages, commits, messages, opened, twice, misled>>
  BY DEF Restart, Torn, Consistent
<1>2. /\ handle'[d] = NoGroup /\ \A x \in Device \ {d} : handle'[x] = handle[x]
      /\ member'[d] = 0 /\ \A x \in Device \ {d} : member'[x] = member[x]
      /\ disk'[d] \in {disk[d], NoGroup} /\ \A x \in Device \ {d} : disk'[x] = disk[x]
  BY <1>1 DEF Typed
<1>3. Typed'
  <2>1. disk' \in [Device -> View \cup {NoGroup}]
    BY <1>1 DEF Typed
  <2>2. handle' \in [Device -> View \cup {NoGroup}] /\ member' \in [Device -> 0 .. MaxMembers]
    BY <1>1, Bounds DEF Typed
  <2>3. restarts' \in 0 .. MaxRestarts /\ stale' \subseteq Device
    BY <1>1, Bounds DEF Typed
  <2> QED BY <1>1, <2>1, <2>2, <2>3 DEF Typed
<1>4. Grown'
  BY <1>1 DEF Grown, Members
<1>5. Fresh'
  <2>1. ASSUME NEW x \in Device
        PROVE  /\ member'[x] <= made[x]
               /\ In(x)' => member'[x] = 0
               /\ member'[x] = 1 => disk'[x] = NoGroup
               /\ \A c \in DOMAIN commits :
                    member'[x] # 0 /\ Welcomes(x, c)' /\ disk'[x] # NoGroup
                      => disk'[x].epoch < c
    <3>1. CASE x = d
      BY <1>1, <1>2, <3>1 DEF Typed
    <3>2. CASE x # d
      BY <1>1, <1>2, <3>2 DEF Fresh, In, Welcomes
    <3> QED BY <3>1, <3>2
  <2> QED BY <1>1, <2>1 DEF Fresh
<1>6. Viewed'
  <2> SUFFICES ASSUME NEW x \in Device, NEW w \in Held(x)' PROVE Sound(x, w)
    BY <1>1 DEF Viewed, Sound, Held, Members
  <2>1. w \in Held(x)
    BY <1>2 DEF Held
  <2> QED BY <1>1, <2>1 DEF Viewed
<1>7. Past'
  <2>1. ASSUME NEW x \in Device \ stale' PROVE Follows(Current(x)', Current(x))
    <3>1. Current(x)' = Current(x)
      <4>1. CASE x = d
        BY <1>1, <1>2, <4>1 DEF Current, In
      <4>2. CASE x # d
        BY <1>2, <4>2 DEF Current, In
      <4> QED BY <4>1, <4>2
    <3>2. Current(x) \in View \cup {NoGroup}
      BY <1>1, CurrentIs
    <3> QED BY <3>1, <3>2, FollowsItself
  <2>2. messages' = messages /\ opened' = opened /\ stale \subseteq stale'
    BY <1>1
  <2> QED BY <1>1, <1>3, <2>1, <2>2, PastStays
<1>8. KeysSealOnce' /\ ReadsOnce'
  BY <1>1 DEF Consistent, KeysSealOnce, ReadsOnce
<1> QED BY <1>3, <1>4, <1>5, <1>6, <1>7, <1>8 DEF Consistent

LEMMA ConsistentStep == Consistent /\ [GroupsNext]_vars => Consistent'
<1> SUFFICES ASSUME Consistent, [GroupsNext]_vars PROVE Consistent'
  OBVIOUS
<1>1. ASSUME NEW d \in Device, FromIdentityAndSigner(d) \/ KeyPackage(d) \/ CreateGroup(d)
      PROVE  Consistent'
  BY <1>1, FromIdentityAndSignerKeeps, KeyPackageKeeps, CreateGroupKeeps
<1>2. ASSUME NEW d \in Device, NEW c \in DOMAIN commits,
             JoinFromWelcome(d, c) \/ ProcessCommit(d, c) \/ OpenOnCommit(d, c)
      PROVE  Consistent'
  BY <1>2, JoinFromWelcomeKeeps, ProcessCommitKeeps, OpenOnCommitKeeps
<1>3. ASSUME NEW d \in Device, NEW n \in DOMAIN messages,
             ProcessCommitOnMessage(d, n) \/ Open(d, n)
      PROVE  Consistent'
  BY <1>3, ProcessCommitOnMessageKeeps, OpenKeeps
<1>4. ASSUME NEW d \in Device, NEW p \in packages, AddMember(d, p)
      PROVE  Consistent'
  BY <1>4, AddMemberKeeps
<1>5. ASSUME NEW d \in Device, LoadGroupFromDisk(d) \/ Seal(d) \/ Snapshot(d) \/ Restart(d)
      PROVE  Consistent'
  BY <1>5, LoadGroupFromDiskKeeps, SealKeeps, SnapshotKeeps, RestartKeeps
<1>6. CASE UNCHANGED vars
  <2>1. Typed' /\ Grown' /\ Fresh'
    BY <1>6 DEF vars, history, Consistent, Typed, Grown, Members, Fresh, In, Welcomes
  <2>2. Viewed'
    BY <1>6 DEF vars, history, Consistent, Viewed, Held, Sound, Members
  <2>3. Past' /\ KeysSealOnce' /\ ReadsOnce'
    BY <1>6 DEF vars, history, Consistent, Past, Current, In, KeysSealOnce, ReadsOnce
  <2> QED BY <2>1, <2>2, <2>3 DEF Consistent
<1> QED BY <1>1, <1>2, <1>3, <1>4, <1>5, <1>6 DEF GroupsNext

LEMMA AlwaysConsistent == GroupsSpec => []Consistent
BY ConsistentInit, ConsistentStep, PTL DEF GroupsSpec

----
(***************************************************************************)
(* The way the commits of a device have led.  `Branched` adds to           *)
(* `Consistent` that a device has a member object at hand only when it has *)
(* made no commit on a branch that this object could be welcomed to: so    *)
(* what a welcome leads behind is another membership.                      *)
(***************************************************************************)
\* Ancestry and Additions, in any tree of commits.
Tree(t) == t \in Seq(Commit) /\ \A c \in DOMAIN t : t[c].base \in 0 .. c - 1

Closed(t, S) == \A x \in S \ {0} : t[x].base \in S

AncestryIn(t, e) ==
  {c \in 0 .. Len(t) : \A S \in SUBSET (0 .. Len(t)) : e \in S /\ Closed(t, S) => c \in S}

AdditionsIn(t, d, e) == {c \in AncestryIn(t, e) \ {0} : t[c].added[1] = d}

\* A device that goes on from v, in the tree t, is not behind a commit of the
\* membership it has there.
Leads(t, d, v) ==
  v # NoGroup =>
    \A c \in DOMAIN t :
      t[c].by = d /\ AdditionsIn(t, d, c) = AdditionsIn(t, d, v.epoch) =>
        c \in AncestryIn(t, v.epoch)

UsedUp(t, d, k) ==
  \A c \in DOMAIN t :
    t[c].by = d => k # 1 /\ \A j \in AdditionsIn(t, d, c) : t[j].added[2] # k

Branched ==
  /\ \A c \in DOMAIN commits : commits[c].added[1] \notin Members(commits[c].base)
  /\ \A d \in Device : UsedUp(commits, d, member[d])
  /\ \A d \in Device \ stale : Leads(commits, d, Current(d))

LEMMA AncestrySame ==
  /\ \A e : Ancestry(e) = AncestryIn(commits, e)
  /\ \A d, e : Additions(d, e) = AdditionsIn(commits, d, e)
BY DEF Ancestry, AncestryIn, Additions, AdditionsIn, Closed

\* An epoch goes back to itself, and to what the one it was made in goes back to.
LEMMA AncestryOf ==
  ASSUME NEW t, Tree(t), NEW c \in DOMAIN t
  PROVE  AncestryIn(t, c) = {c} \cup AncestryIn(t, t[c].base)
<1> DEFINE b == t[c].base
<1>1. c \in 0 .. Len(t) /\ c # 0 /\ Len(t) \in Nat
  BY DEF Tree
<1>2. c \in AncestryIn(t, c)
  BY <1>1 DEF AncestryIn
<1>3. ASSUME NEW x \in AncestryIn(t, b) PROVE x \in AncestryIn(t, c)
  <2>1. x \in 0 .. Len(t)
    BY DEF AncestryIn
  <2>2. ASSUME NEW S \in SUBSET (0 .. Len(t)), c \in S, Closed(t, S) PROVE x \in S
    <3>1. b \in S
      BY <1>1, <2>2 DEF Closed
    <3> QED BY <2>2, <3>1 DEF AncestryIn
  <2> QED BY <2>1, <2>2 DEF AncestryIn
<1>4. ASSUME NEW x \in AncestryIn(t, c), x # c PROVE x \in AncestryIn(t, b)
  <2>1. x \in 0 .. Len(t)
    BY DEF AncestryIn
  <2>2. ASSUME NEW S \in SUBSET (0 .. Len(t)), b \in S, Closed(t, S) PROVE x \in S
    <3>1. S \cup {c} \in SUBSET (0 .. Len(t)) /\ c \in S \cup {c}
      BY <1>1
    <3>2. Closed(t, S \cup {c})
      BY <2>2 DEF Closed
    <3>3. x \in S \cup {c}
      BY <3>1, <3>2 DEF AncestryIn
    <3> QED BY <1>4, <3>3
  <2> QED BY <2>1, <2>2 DEF AncestryIn
<1> QED BY <1>2, <1>3, <1>4

LEMMA AncestryFields ==
  ASSUME NEW t, Tree(t), NEW e \in 0 .. Len(t)
  PROVE  AncestryIn(t, e) \subseteq 0 .. Len(t) /\ e \in AncestryIn(t, e)
BY DEF AncestryIn

\* A commit that is added leaves the past of the others alone.
LEMMA AncestryStays ==
  ASSUME NEW t, Tree(t), NEW k \in Commit, k.base <= Len(t), NEW e \in 0 .. Len(t), NEW d
  PROVE  /\ Tree(Append(t, k))
         /\ AncestryIn(Append(t, k), e) = AncestryIn(t, e)
         /\ AdditionsIn(Append(t, k), d, e) = AdditionsIn(t, d, e)
<1> DEFINE u == Append(t, k)
<1>1. /\ Len(t) \in Nat /\ u \in Seq(Commit) /\ Len(u) = Len(t) + 1
      /\ \A c \in 1 .. Len(t) : u[c] = t[c]
      /\ u[Len(t) + 1] = k /\ k.base \in Nat
      /\ DOMAIN t = 1 .. Len(t) /\ DOMAIN u = 1 .. Len(t) + 1
  BY Bounds DEF Tree, Commit
<1> HIDE DEF u
<1>2. Tree(u)
  BY <1>1 DEF Tree
<1>3. ASSUME NEW x \in AncestryIn(u, e) PROVE x \in AncestryIn(t, e)
  <2>1. x \in 0 .. Len(t)
    <3>1. 0 .. Len(t) \in SUBSET (0 .. Len(u))
      BY <1>1
    <3>2. Closed(u, 0 .. Len(t))
      BY <1>1 DEF Closed, Tree
    <3> QED BY <3>1, <3>2 DEF AncestryIn
  <2>2. ASSUME NEW S \in SUBSET (0 .. Len(t)), e \in S, Closed(t, S) PROVE x \in S
    <3>1. S \in SUBSET (0 .. Len(u))
      BY <1>1
    <3>2. Closed(u, S)
      BY <1>1, <2>2 DEF Closed
    <3> QED BY <2>2, <3>1, <3>2 DEF AncestryIn
  <2> QED BY <2>1, <2>2 DEF AncestryIn
<1>4. ASSUME NEW x \in AncestryIn(t, e) PROVE x \in AncestryIn(u, e)
  <2>1. x \in 0 .. Len(u)
    BY <1>1 DEF AncestryIn
  <2>2. ASSUME NEW S \in SUBSET (0 .. Len(u)), e \in S, Closed(u, S) PROVE x \in S
    <3> DEFINE R == S \cap (0 .. Len(t))
    <3>1. R \in SUBSET (0 .. Len(t)) /\ e \in R
      BY <2>2
    <3>2. Closed(t, R)
      BY <1>1, <2>2 DEF Closed, Tree
    <3>3. x \in R
      BY <3>1, <3>2 DEF AncestryIn
    <3> QED BY <3>3
  <2> QED BY <2>1, <2>2 DEF AncestryIn
<1>5. AncestryIn(u, e) = AncestryIn(t, e)
  BY <1>3, <1>4
<1>6. AdditionsIn(u, d, e) = AdditionsIn(t, d, e)
  <2>1. AncestryIn(t, e) \subseteq 0 .. Len(t)
    BY AncestryFields
  <2> QED BY <1>1, <1>5, <2>1 DEF AdditionsIn
<1> QED BY <1>2, <1>5, <1>6 DEF u

\* An epoch made in e by another device, or for another, is of the same membership.
LEMMA AdditionsOf ==
  ASSUME NEW t, Tree(t), NEW c \in DOMAIN t, NEW d, t[c].added[1] # d
  PROVE  AdditionsIn(t, d, c) = AdditionsIn(t, d, t[c].base)
BY AncestryOf DEF AdditionsIn

LEMMA ConsistentTree ==
  ASSUME Consistent
  PROVE  /\ Tree(commits) /\ Len(commits) \in Nat /\ DOMAIN commits = 1 .. Len(commits)
         /\ \A c \in DOMAIN commits : commits[c].added \in Device \X (1 .. MaxMembers)
<1>1. Typed /\ Grown
  BY DEF Consistent
<1>2. commits \in Seq(Commit)
  BY <1>1 DEF Typed
<1>3. Tree(commits)
  BY <1>1, <1>2 DEF Grown, Tree
<1>4. \A c \in DOMAIN commits : commits[c].added \in Device \X (1 .. MaxMembers)
  <2>1. ASSUME NEW c \in DOMAIN commits PROVE commits[c] \in Commit
    BY <1>2
  <2> QED BY <2>1 DEF Commit
<1> QED BY <1>2, <1>3, <1>4

LEMMA BranchedInit == GroupsInit => Branched
BY DEF GroupsInit, Branched, UsedUp, Leads

\* Calls that make no commit, take no welcome and make no member object.
LEMMA BranchedStays ==
  ASSUME Consistent, Branched, commits' = commits, stale \subseteq stale',
         \A d \in Device : member'[d] \in {0, member[d]},
         \A d \in Device \ stale' :
           Current(d)' # NoGroup => Leads(commits, d, Current(d)')
  PROVE  Branched'
<1>1. \A c \in DOMAIN commits : commits[c].added[1] \notin Members(commits[c].base)'
  BY DEF Branched, Members
<1>2. ASSUME NEW d \in Device PROVE UsedUp(commits, d, member'[d])
  <2>1. UsedUp(commits, d, 0)
    BY ConsistentTree, Bounds, AncestryFields DEF UsedUp, AdditionsIn
  <2> QED BY <2>1 DEF Branched
<1>3. ASSUME NEW d \in Device \ stale' PROVE Leads(commits, d, Current(d)')
  BY <1>3 DEF Leads
<1> QED BY <1>1, <1>2, <1>3 DEF Branched

\* A device that does not go on from anything else than it did.
LEMMA LeadsStays ==
  ASSUME Branched, stale \subseteq stale', NEW d \in Device \ stale',
         Current(d)' # NoGroup =>
           Current(d) # NoGroup /\ Current(d)'.epoch = Current(d).epoch
  PROVE  Leads(commits, d, Current(d)')
BY DEF Branched, Leads

LEMMA FromIdentityAndSignerBranched ==
  ASSUME Consistent, Branched, NEW d \in Device, FromIdentityAndSigner(d)
  PROVE  Branched'
<1>1. /\ commits' = commits /\ handle' = handle /\ disk' = disk /\ stale' = stale
      /\ member' = [member EXCEPT ![d] = made[d] + 1]
      /\ made \in [Device -> 1 .. MaxMembers] /\ member \in [Device -> 0 .. MaxMembers]
      /\ made[d] \in Nat /\ made[d] >= 1
  BY Bounds DEF FromIdentityAndSigner, NewMember, history, Consistent, Typed
<1>2. \A c \in DOMAIN commits : commits[c].added[1] \notin Members(commits[c].base)'
  BY <1>1 DEF Branched, Members
<1>3. ASSUME NEW x \in Device PROVE UsedUp(commits, x, member'[x])
  <2>1. CASE x # d
    BY <1>1, <2>1 DEF Branched
  <2>2. CASE x = d
    <3>1. member'[d] = made[d] + 1 /\ member'[d] # 1
      BY <1>1
    <3>2. ASSUME NEW c \in DOMAIN commits, NEW j \in AdditionsIn(commits, d, c)
          PROVE  commits[j].added[2] # made[d] + 1
      <4>1. c \in 0 .. Len(commits) /\ Tree(commits)
        BY ConsistentTree
      <4>2. j \in DOMAIN commits /\ commits[j].added[1] = d
        BY <4>1, ConsistentTree, AncestryFields DEF AdditionsIn
      <4>3. commits[j].added[2] <= made[d] /\ commits[j].added[2] \in Nat
        BY <4>2, ConsistentTree DEF Consistent, Grown
      <4> QED BY <1>1, <4>3
    <3> QED BY <2>2, <3>1, <3>2 DEF UsedUp
  <2> QED BY <2>1, <2>2
<1>4. ASSUME NEW x \in Device \ stale' PROVE Leads(commits, x, Current(x)')
  BY <1>1 DEF Branched, Current, In
<1> QED BY <1>1, <1>2, <1>3, <1>4 DEF Branched

\* A device that has no handle, and whose member object has never been used, has made
\* no commit.
LEMMA CreateGroupBranched ==
  ASSUME Consistent, Branched, NEW d \in Device, CreateGroup(d)
  PROVE  Branched'
<1>1. /\ commits' = commits /\ disk' = disk /\ stale' = stale
      /\ member' = [member EXCEPT ![d] = 0] /\ member[d] = 1
      /\ handle' = [handle EXCEPT ![d] = Entered(0)]
      /\ member \in [Device -> 0 .. MaxMembers] /\ handle \in [Device -> View \cup {NoGroup}]
  BY DEF CreateGroup, Take, history, Consistent, Typed
<1>2. \A x \in Device : member'[x] \in {0, member[x]}
  BY <1>1
<1>3. ASSUME NEW x \in Device \ stale', Current(x)' # NoGroup
      PROVE  Leads(commits, x, Current(x)')
  <2>1. CASE x = d
    <3>1. \A c \in DOMAIN commits : commits[c].by # d
      BY <1>1 DEF Branched, UsedUp
    <3> QED BY <2>1, <3>1 DEF Leads
  <2>2. CASE x # d
    BY <1>1, <2>2 DEF Branched, Current, In
  <2> QED BY <2>1, <2>2
<1> QED BY <1>1, <1>2, <1>3, BranchedStays

\* What a welcome leads to is a membership the device has made no commit of.
LEMMA JoinFromWelcomeBranched ==
  ASSUME Consistent, Branched, NEW d \in Device, NEW c \in DOMAIN commits,
         JoinFromWelcome(d, c)
  PROVE  Branched'
<1>1. /\ commits' = commits /\ disk' = disk /\ stale' = stale
      /\ member' = [member EXCEPT ![d] = 0] /\ ~ In(d)
      /\ handle' = IF Welcomes(d, c) THEN [handle EXCEPT ![d] = Entered(c)] ELSE handle
      /\ member \in [Device -> 0 .. MaxMembers] /\ handle \in [Device -> View \cup {NoGroup}]
  BY DEF JoinFromWelcome, Take, history, Consistent, Typed
<1>2. \A x \in Device : member'[x] \in {0, member[x]}
  BY <1>1
<1>3. ASSUME NEW x \in Device \ stale', Current(x)' # NoGroup
      PROVE  Leads(commits, x, Current(x)')
  <2>1. CASE x = d /\ Welcomes(d, c)
    <3>1. c \in 0 .. Len(commits) /\ c # 0 /\ Tree(commits) /\ c \in 0 .. MaxCommits
      BY ConsistentTree, GrownMembers DEF Consistent
    <3>2. handle'[d] = Entered(c) /\ handle'[d] # NoGroup
      BY <1>1, <2>1, <3>1, EnteredIs, ViewFields
    <3>3. Current(d)' = Entered(c) /\ Entered(c).epoch = c
      BY <3>1, <3>2, EnteredIs DEF Current, In
    <3>4. c \in AdditionsIn(commits, d, c) /\ commits[c].added[2] = member[d]
      BY <2>1, <3>1, AncestryFields DEF Welcomes, AdditionsIn
    <3>5. ASSUME NEW o \in DOMAIN commits, commits[o].by = d
          PROVE  AdditionsIn(commits, d, o) # AdditionsIn(commits, d, c)
      BY <3>4, <3>5 DEF Branched, UsedUp
    <3> QED BY <2>1, <3>3, <3>5 DEF Leads
  <2>2. CASE ~ (x = d /\ Welcomes(d, c))
    BY <1>1, <2>2 DEF Branched, Current, In
  <2> QED BY <2>1, <2>2
<1> QED BY <1>1, <1>2, <1>3, BranchedStays

\* Another's commit leads on from where the device is, and adds somebody else.
LEMMA ProcessCommitBranched ==
  ASSUME Consistent, Branched, NEW d \in Device, NEW c \in DOMAIN commits,
         ProcessCommit(d, c)
  PROVE  Branched'
<1>1. /\ commits' = commits /\ disk' = disk /\ stale' = stale /\ member' = member
      /\ handle' = [handle EXCEPT ![d] = Entered(c)]
      /\ In(d) /\ commits[c].base = handle[d].epoch
      /\ handle \in [Device -> View \cup {NoGroup}] /\ member \in [Device -> 0 .. MaxMembers]
  BY DEF ProcessCommit, DecryptsCommit, history, Consistent, Typed
<1>2. c \in 0 .. MaxCommits /\ Tree(commits) /\ c \in DOMAIN commits
  BY ConsistentTree, GrownMembers DEF Consistent
<1>3. handle'[d] = Entered(c) /\ handle'[d] # NoGroup /\ Entered(c).epoch = c
  BY <1>1, <1>2, EnteredIs, ViewFields
<1>4. Current(d)' = Entered(c) /\ Current(d) = handle[d] /\ handle[d] # NoGroup
  BY <1>1, <1>3 DEF Current, In
<1>5. commits[c].added[1] # d
  <2>1. d \in Members(handle[d].epoch)
    BY <1>4 DEF Consistent, Viewed, Held, Sound
  <2> QED BY <1>1, <2>1 DEF Branched
<1>6. /\ AdditionsIn(commits, d, c) = AdditionsIn(commits, d, handle[d].epoch)
      /\ AncestryIn(commits, handle[d].epoch) \subseteq AncestryIn(commits, c)
  BY <1>1, <1>2, <1>5, AdditionsOf, AncestryOf
<1>7. ASSUME NEW x \in Device \ stale', Current(x)' # NoGroup
      PROVE  Leads(commits, x, Current(x)')
  <2>1. CASE x = d
    <3>1. Leads(commits, d, handle[d])
      BY <1>1, <1>4, <2>1 DEF Branched
    <3> QED BY <1>3, <1>4, <1>6, <2>1, <3>1 DEF Leads
  <2>2. CASE x # d
    BY <1>1, <2>2 DEF Branched, Current, In
  <2> QED BY <2>1, <2>2
<1> QED BY <1>1, <1>7, BranchedStays

\* A commit of its own leads on too, and the commits of the others lead nobody else.
LEMMA AddMemberBranched ==
  ASSUME Consistent, Branched, NEW d \in Device, NEW p \in packages, AddMember(d, p)
  PROVE  Branched'
<1> DEFINE k == Committed(d, p)
           c == Len(commits) + 1
           e == handle[d].epoch
           t == Append(commits, k)
<1>1. /\ commits' = t /\ disk' = disk /\ stale' = stale /\ member' = member
      /\ handle' = [handle EXCEPT ![d] = Entered(Len(commits'))]
      /\ In(d) /\ p[1] \notin Members(e) /\ Len(commits) < MaxCommits
      /\ handle \in [Device -> View \cup {NoGroup}] /\ member \in [Device -> 0 .. MaxMembers]
      /\ packages \subseteq Device \X (1 .. MaxMembers)
  BY DEF AddMember, history, Consistent, Typed
<1>2. /\ Tree(commits) /\ Len(commits) \in Nat /\ DOMAIN commits = 1 .. Len(commits)
      /\ \A o \in DOMAIN commits : commits[o].added \in Device \X (1 .. MaxMembers)
  BY ConsistentTree
<1>3. handle[d] \in View /\ e \in 0 .. MaxCommits /\ e \in Nat /\ Sound(d, handle[d])
  BY <1>1, ViewFields DEF In, Consistent, Viewed, Held
<1>4. e <= Len(commits) /\ d \in Members(e)
  BY <1>3 DEF Sound
<1>5. /\ k \in Commit /\ k.base = e /\ k.by = d /\ k.added = p
      /\ k.members = Members(e) \cup {p[1]}
  <2>1. Members(e) \subseteq Device
    <3>1. CASE e = 0
      BY <3>1, FounderAssumption DEF Members
    <3>2. CASE e # 0
      <4>1. commits[e] \in Commit
        BY <1>2, <1>3, <1>4, <3>2 DEF Tree
      <4> QED BY <3>2, <4>1 DEF Members, Commit
    <3> QED BY <3>1, <3>2
  <2> QED BY <1>1, <1>3, <2>1 DEF Committed, Commit
<1>6. /\ t \in Seq(Commit) /\ Len(t) = c /\ t[c] = k /\ DOMAIN t = 1 .. c
      /\ \A o \in DOMAIN commits : t[o] = commits[o]
      /\ c \in DOMAIN t /\ c \in 0 .. MaxCommits /\ c \in Nat
  BY <1>1, <1>2, <1>5, Bounds DEF Tree
<1> HIDE DEF k, t, e
<1>7. /\ Tree(t)
      /\ \A x, o : o \in 0 .. Len(commits) =>
           /\ AncestryIn(t, o) = AncestryIn(commits, o)
           /\ AdditionsIn(t, x, o) = AdditionsIn(commits, x, o)
  <2>1. k.base <= Len(commits)
    BY <1>4, <1>5
  <2>2. ASSUME NEW x, NEW o \in 0 .. Len(commits)
        PROVE  /\ Tree(t) /\ AncestryIn(t, o) = AncestryIn(commits, o)
               /\ AdditionsIn(t, x, o) = AdditionsIn(commits, x, o)
    BY <1>2, <1>5, <2>1, AncestryStays DEF t
  <2>3. 0 \in 0 .. Len(commits)
    BY <1>2
  <2> QED BY <2>2, <2>3
<1>8. \A o \in 0 .. Len(commits) : MembersIn(t, o) = Members(o)
  <2> SUFFICES ASSUME NEW o \in 0 .. Len(commits) PROVE MembersIn(t, o) = Members(o)
    OBVIOUS
  <2>1. o = 0 \/ o \in DOMAIN commits
    BY <1>2
  <2> QED BY <1>6, <2>1 DEF Members, MembersIn
<1>9. \A o \in DOMAIN t : t[o].added[1] \notin MembersIn(t, t[o].base)
  <2> SUFFICES ASSUME NEW o \in DOMAIN t PROVE t[o].added[1] \notin MembersIn(t, t[o].base)
    OBVIOUS
  <2>1. CASE o = c
    BY <1>1, <1>3, <1>4, <1>5, <1>6, <1>8, <2>1
  <2>2. CASE o # c
    <3>1. o \in DOMAIN commits /\ t[o] = commits[o]
      BY <1>2, <1>6, <2>2
    <3>2. commits[o].base \in 0 .. Len(commits)
      BY <1>2, <3>1 DEF Tree
    <3> QED BY <1>8, <3>1, <3>2 DEF Branched
  <2> QED BY <2>1, <2>2
<1>10. AncestryIn(t, c) = {c} \cup AncestryIn(commits, e)
  BY <1>3, <1>4, <1>5, <1>6, <1>7, AncestryOf
<1>11. \A x : x # p[1] => AdditionsIn(t, x, c) = AdditionsIn(commits, x, e)
  BY <1>3, <1>4, <1>5, <1>6, <1>7, AdditionsOf
<1>12. d # p[1]
  BY <1>1, <1>4
<1>13. ASSUME NEW x \in Device PROVE UsedUp(t, x, member'[x])
  <2> SUFFICES ASSUME NEW o \in DOMAIN t, t[o].by = x
               PROVE  /\ member[x] # 1
                      /\ \A j \in AdditionsIn(t, x, o) : t[j].added[2] # member[x]
    BY <1>1 DEF UsedUp
  <2>1. CASE o = c
    <3>1. x = d /\ member[x] = 0
      BY <1>1, <1>5, <1>6, <2>1 DEF Consistent, Fresh
    <3>2. AdditionsIn(t, x, o) \subseteq DOMAIN t
      BY <1>6, <1>7, <2>1, AncestryFields DEF AdditionsIn
    <3>3. \A j \in DOMAIN t : t[j].added[2] # 0
      <4>1. \A j \in DOMAIN t : t[j].added \in Device \X (1 .. MaxMembers)
        <5>1. ASSUME NEW j \in DOMAIN t PROVE t[j] \in Commit
          BY <1>6
        <5> QED BY <5>1 DEF Commit
      <4> QED BY <4>1
    <3> QED BY <3>1, <3>2, <3>3
  <2>2. CASE o # c
    <3>1. o \in DOMAIN commits /\ commits[o].by = x /\ o \in 0 .. Len(commits)
      BY <1>2, <1>6, <2>2
    <3>2. AdditionsIn(t, x, o) = AdditionsIn(commits, x, o)
      BY <1>7, <3>1
    <3>3. AdditionsIn(commits, x, o) \subseteq DOMAIN commits
      BY <1>2, <3>1, AncestryFields DEF AdditionsIn
    <3> QED BY <1>6, <3>1, <3>2, <3>3 DEF Branched, UsedUp
  <2> QED BY <2>1, <2>2
<1>14. Current(d) = handle[d] /\ Current(d)' = Entered(c) /\ Entered(c).epoch = c
       /\ handle[d] # NoGroup
  <2>1. handle'[d] = Entered(c) /\ handle'[d] # NoGroup /\ Entered(c).epoch = c
    BY <1>1, <1>6, EnteredIs, ViewFields
  <2> QED BY <1>1, <2>1 DEF Current, In
<1>15. ASSUME NEW x \in Device \ stale' PROVE Leads(t, x, Current(x)')
  <2>1. CASE x = d
    <3>1. Leads(commits, d, handle[d])
      BY <1>1, <1>14, <2>1 DEF Branched
    <3>2. ASSUME NEW o \in DOMAIN t, t[o].by = d,
                 AdditionsIn(t, d, o) = AdditionsIn(t, d, c)
          PROVE  o \in AncestryIn(t, c)
      <4>1. CASE o = c
        BY <1>10, <4>1
      <4>2. CASE o # c
        <5>1. o \in DOMAIN commits /\ commits[o].by = d /\ o \in 0 .. Len(commits)
          BY <1>2, <1>6, <3>2, <4>2
        <5>2. AdditionsIn(commits, d, o) = AdditionsIn(commits, d, e)
          BY <1>7, <1>11, <1>12, <3>2, <5>1
        <5>3. o \in AncestryIn(commits, e)
          BY <1>14, <3>1, <5>1, <5>2 DEF Leads, e
        <5> QED BY <1>10, <5>3
      <4> QED BY <4>1, <4>2
    <3> QED BY <1>14, <2>1, <3>2 DEF Leads
  <2>2. CASE x # d
    <3>1. Current(x)' = Current(x)
      BY <1>1, <2>2 DEF Current, In
    <3>2. SUFFICES ASSUME Current(x) # NoGroup PROVE Leads(t, x, Current(x))
      BY <3>1 DEF Leads
    <3>3. Current(x).epoch \in 0 .. Len(commits)
      <4>1. Current(x) \in Held(x) /\ Current(x) \in View
        BY <3>2, CurrentIs DEF Held, Current, In, Consistent
      <4> QED BY <1>2, <4>1, ViewFields DEF Consistent, Viewed, Sound
    <3>4. Leads(commits, x, Current(x))
      BY <1>1 DEF Branched
    <3>5. \A o \in DOMAIN t : t[o].by = x => o \in DOMAIN commits /\ o \in 0 .. Len(commits)
      BY <1>2, <1>5, <1>6, <2>2
    <3> QED BY <1>6, <1>7, <3>3, <3>4, <3>5 DEF Leads
  <2> QED BY <2>1, <2>2
<1>16. \A o \in DOMAIN commits' :
         commits'[o].added[1] \notin MembersIn(commits', commits'[o].base)
  BY <1>1, <1>9
<1>17. \A x \in Device : UsedUp(commits', x, member'[x])
  BY <1>1, <1>13
<1>18. \A x \in Device \ stale' : Leads(commits', x, Current(x)')
  BY <1>1, <1>15
<1> QED BY <1>16, <1>17, <1>18 DEF Branched, Members, MembersIn

\* All other calls leave every device in the epoch it is in.
LEMMA StayingBranched ==
  ASSUME Consistent, Branched, NEW d \in Device,
         \/ KeyPackage(d) \/ LoadGroupFromDisk(d) \/ Seal(d) \/ Snapshot(d) \/ Restart(d)
         \/ \E n \in DOMAIN messages : ProcessCommitOnMessage(d, n) \/ Open(d, n)
         \/ \E c \in DOMAIN commits : OpenOnCommit(d, c)
  PROVE  Branched'
<1>1. /\ handle \in [Device -> View \cup {NoGroup}] /\ member \in [Device -> 0 .. MaxMembers]
      /\ disk \in [Device -> View \cup {NoGroup}]
  BY DEF Consistent, Typed
<1>2. /\ commits' = commits /\ stale \subseteq stale'
      /\ \A x \in Device : member'[x] \in {0, member[x]}
  BY <1>1 DEF KeyPackage, LoadGroupFromDisk, Take, Seal, Snapshot, Restart,
              ProcessCommitOnMessage, Open, OpenOnCommit, history
<1>3. \A x \in Device \ stale' :
        Current(x)' # NoGroup =>
          Current(x) # NoGroup /\ Current(x)'.epoch = Current(x).epoch
  <2>1. CASE KeyPackage(d)
    BY <2>1 DEF KeyPackage, Current, In
  <2>2. CASE LoadGroupFromDisk(d)
    BY <1>1, <2>2 DEF LoadGroupFromDisk, Loaded, Current, In
  <2>3. CASE Snapshot(d)
    BY <1>1, <2>3 DEF Snapshot, Current, In
  <2>4. CASE Restart(d)
    <3>1. /\ handle' = [handle EXCEPT ![d] = NoGroup]
          /\ disk' \in {disk, [disk EXCEPT ![d] = NoGroup]} /\ (In(d) \/ disk' = disk)
          /\ stale' = IF In(d) /\ disk'[d] # handle[d] THEN stale \cup {d} ELSE stale
      BY <2>4 DEF Restart, Torn
    <3>2. /\ handle'[d] = NoGroup /\ \A x \in Device \ {d} : handle'[x] = handle[x]
          /\ \A x \in Device \ {d} : disk'[x] = disk[x]
      BY <1>1, <3>1
    <3>3. \A x \in Device \ stale' : Current(x)' = Current(x)
      <4> SUFFICES ASSUME NEW x \in Device \ stale' PROVE Current(x)' = Current(x)
        OBVIOUS
      <4>1. CASE x = d
        BY <1>1, <3>1, <3>2, <4>1 DEF Current, In
      <4>2. CASE x # d
        BY <3>2, <4>2 DEF Current, In
      <4> QED BY <4>1, <4>2
    <3> QED BY <3>3
  <2>5. ASSUME In(d), NEW v \in View, handle' = [handle EXCEPT ![d] = v],
               v.epoch = handle[d].epoch, disk' = disk
        PROVE  \A x \in Device \ stale' :
                 Current(x)' # NoGroup =>
                   Current(x) # NoGroup /\ Current(x)'.epoch = Current(x).epoch
    <3>1. \A x \in Device : x # d => handle'[x] = handle[x]
      BY <1>1, <2>5
    <3>2. handle'[d] = v /\ handle[d] # NoGroup
      BY <1>1, <2>5 DEF In
    <3> QED BY <2>5, <3>1, <3>2, ViewFields DEF Current, In
  <2>6. CASE Seal(d)
    <3>1. /\ In(d) /\ handle[d] \in View /\ disk' = disk
          /\ handle' = [handle EXCEPT ![d] = [handle[d] EXCEPT !.sent = @ + 1]]
      BY <2>6, HandleIs DEF Seal
    <3>2. handle[d].sent + 1 \in 0 .. MaxMessages
      BY <2>6, <3>1, HandleIs, Bounds DEF Seal, Consistent, Typed
    <3>3. /\ [handle[d] EXCEPT !.sent = @ + 1] \in View
          /\ [handle[d] EXCEPT !.sent = @ + 1].epoch = handle[d].epoch
      BY <3>1, <3>2 DEF View
    <3> QED BY <2>5, <3>1, <3>3
  <2>7. CASE \E n \in DOMAIN messages : ProcessCommitOnMessage(d, n) \/ Open(d, n)
    <3>1. PICK n \in DOMAIN messages : ProcessCommitOnMessage(d, n) \/ Open(d, n)
      BY <2>7
    <3>2. Decrypts(d, messages[n]) /\ handle' = Uses(d, messages[n]) /\ disk' = disk
      BY <3>1 DEF ProcessCommitOnMessage, Open
    <3>3. PICK v \in View :
            Uses(d, messages[n]) = [handle EXCEPT ![d] = v] /\ v.epoch = handle[d].epoch
      BY <3>2, UsesIs
    <3> QED BY <2>5, <3>2, <3>3 DEF Decrypts
  <2>8. CASE \E c \in DOMAIN commits : OpenOnCommit(d, c)
    <3>1. PICK c \in DOMAIN commits : OpenOnCommit(d, c)
      BY <2>8
    <3> DEFINE v == [handle[d] EXCEPT !.spent = @ \cup {commits[c].by}]
    <3>2. In(d) /\ handle[d] \in View /\ disk' = disk /\ handle' = [handle EXCEPT ![d] = v]
      BY <3>1, HandleIs DEF OpenOnCommit, DecryptsCommit
    <3>3. commits[c].by \in Device
      BY GrownMembers DEF Consistent, Commit
    <3>4. v \in View /\ v.epoch = handle[d].epoch
      BY <3>2, <3>3 DEF View
    <3> QED BY <2>5, <3>2, <3>4
  <2> QED BY <2>1, <2>2, <2>3, <2>4, <2>6, <2>7, <2>8
<1> QED BY <1>2, <1>3, LeadsStays, BranchedStays

LEMMA BranchedStep == Consistent /\ Branched /\ [GroupsNext]_vars => Branched'
<1> SUFFICES ASSUME Consistent, Branched, [GroupsNext]_vars PROVE Branched'
  OBVIOUS
<1>1. ASSUME NEW d \in Device, FromIdentityAndSigner(d) \/ CreateGroup(d)
      PROVE  Branched'
  BY <1>1, FromIdentityAndSignerBranched, CreateGroupBranched
<1>2. ASSUME NEW d \in Device, NEW c \in DOMAIN commits,
             JoinFromWelcome(d, c) \/ ProcessCommit(d, c)
      PROVE  Branched'
  BY <1>2, JoinFromWelcomeBranched, ProcessCommitBranched
<1>3. ASSUME NEW d \in Device, NEW p \in packages, AddMember(d, p)
      PROVE  Branched'
  BY <1>3, AddMemberBranched
<1>4. CASE UNCHANGED vars
  <2>1. /\ commits' = commits /\ stale \subseteq stale'
        /\ \A d \in Device : member'[d] \in {0, member[d]} /\ Current(d)' = Current(d)
    BY <1>4 DEF vars, history, Current, In
  <2> QED BY <2>1, LeadsStays, BranchedStays
<1> QED BY <1>1, <1>2, <1>3, <1>4, StayingBranched DEF GroupsNext

----
(***************************************************************************)
(* Theorems.                                                               *)
(***************************************************************************)
\* Every state is well typed, and nobody holds a view, live or on disk, of an epoch
\* it is not a member of (MlsGroupHandle, MlsMember::join_from_welcome).
THEOREM GroupsTypeCorrect == GroupsSpec => []GroupsTypeOK
<1>1. Consistent => GroupsTypeOK
  <2> SUFFICES ASSUME Consistent PROVE GroupsTypeOK
    OBVIOUS
  <2>1. \A d \in Device : \A v \in {handle[d], disk[d]} \ {NoGroup} :
          v.epoch <= Len(commits) /\ d \in Members(v.epoch)
    BY DEF Consistent, Viewed, Held, Sound
  <2> QED BY <2>1 DEF Consistent, Typed, GroupsTypeOK, Commit, Message
<1> QED BY <1>1, AlwaysConsistent, PTL

\* A device that does not come back on an old snapshot never seals two messages with
\* the same key, however often it commits, joins, restarts or loads
\* (MlsGroupHandle::seal, snapshot_to_disk).
THEOREM KeysSealOnceHolds == GroupsSpec => []KeysSealOnce
<1>1. Consistent => KeysSealOnce
  BY DEF Consistent
<1> QED BY <1>1, AlwaysConsistent, PTL

\* Nor does it open a message a second time (MlsGroupHandle::open).
THEOREM ReadsOnceHolds == GroupsSpec => []ReadsOnce
<1>1. Consistent => ReadsOnce
  BY DEF Consistent
<1> QED BY <1>1, AlwaysConsistent, PTL

\* The newest generation among keys that were used is a number.
LEMMA AheadType ==
  ASSUME Typed, NEW d \in Device, In(d), NEW s
  PROVE  Ahead(d, s) \in Nat
<1> DEFINE gens == {k[2] : k \in {u \in handle[d].used : u[1] = s}}
           R == OpToRel(<, Nat)
           T == {n \in Nat : \A g \in gens : g <= n}
<1>1. handle[d].used \subseteq Device \X (0 .. MaxMessages)
  BY ViewFields DEF Typed, In
<1>2. gens \subseteq 0 .. MaxMessages
  BY <1>1
<1>3. CASE gens = {}
  BY <1>3 DEF Ahead
<1>4. CASE gens # {}
  <2>1. MaxMessages \in T
    BY <1>2, Bounds
  <2>2. PICK x \in T : \A y \in T : ~ (<<y, x>> \in R)
    <3>1. IsWellFoundedOn(R, Nat)
      BY NatLessThanWellFounded
    <3>2. T \subseteq Nat /\ T # {}
      BY <2>1
    <3> HIDE DEF T, R
    <3> QED BY <3>1, <3>2, WFMin
  <2>3. x \in Nat /\ \A g \in gens : g <= x
    OBVIOUS
  <2>4. \A y \in T : ~ (y < x)
    BY <2>2 DEF OpToRel
  <2>5. x \in gens
    <3> SUFFICES ASSUME x \notin gens PROVE FALSE
      OBVIOUS
    <3>1. PICK g \in gens : g \in Nat
      BY <1>2, <1>4, Bounds
    <3>2. g < x
      BY <2>3, <3>1
    <3>3. \A h \in gens : h <= x - 1
      <4> TAKE h \in gens
      <4>1. h \in Nat /\ h <= x /\ h # x
        BY <1>2, <2>3, Bounds
      <4> QED BY <2>3, <4>1
    <3>4. x - 1 \in Nat
      BY <2>3, <3>1, <3>2
    <3>5. x - 1 \in T
      BY <3>3, <3>4
    <3>6. x - 1 < x
      BY <2>3
    <3> HIDE DEF T, gens
    <3> QED BY <2>4, <3>5, <3>6
  <2>6. \E g \in gens : \A o \in gens : o <= g
    BY <2>3, <2>5
  <2>7. (CHOOSE g \in gens : \A o \in gens : o <= g) \in Nat
    BY <1>2, <2>6, Bounds
  <2> HIDE DEF T, R
  <2> QED BY <1>4, <2>7 DEF Ahead
<1> QED BY <1>3, <1>4

\* A device stays on the way its own commits have led, for as long as the membership it
\* has made them in (MlsGroupHandle::add_member, MlsMember::join_from_welcome).
THEOREM KeepsOwnCommitsHolds == GroupsSpec => []KeepsOwnCommits
<1>1. Consistent /\ Branched => KeepsOwnCommits
  <2> SUFFICES ASSUME Consistent, Branched,
                      NEW c \in DOMAIN commits, NEW d, d = commits[c].by, In(d), d \notin stale,
                      Additions(d, c) = Additions(d, handle[d].epoch)
               PROVE  c \in Ancestry(handle[d].epoch)
    BY DEF KeepsOwnCommits
  <2>1. d \in Device
    BY GrownMembers DEF Consistent, Commit
  <2>2. Leads(commits, d, handle[d]) /\ handle[d] # NoGroup
    BY <2>1 DEF Branched, Current, In
  <2> QED BY <2>2, AncestrySame DEF Leads
<1>2. GroupsSpec => []Branched
  BY BranchedInit, BranchedStep, AlwaysConsistent, PTL DEF GroupsSpec
<1> QED BY <1>1, <1>2, AlwaysConsistent, PTL

\* A message of a device's epoch can be opened there or has been, but for the cases
\* the property names (MlsGroupHandle::open, process_commit).
THEOREM StillReadableHolds == GroupsSpec => []StillReadable
<1>1. Consistent => StillReadable
  <2> SUFFICES ASSUME Consistent, NEW d \in Device, NEW n \in DOMAIN messages,
                      In(d), messages[n].epoch = handle[d].epoch, messages[n].from # d,
                      ~ Decrypts(d, messages[n]),
                      ~ (Ahead(d, messages[n].from) > messages[n].gen + Tolerance),
                      d \notin misled, messages[n].from \notin stale
               PROVE  n \in opened[d]
    BY DEF StillReadable
  <2> DEFINE m == messages[n]
  <2>1. m \in Message /\ m.gen \in Nat /\ Typed
    BY MessageFields DEF Consistent
  <2>2. Ahead(d, m.from) <= m.gen + Tolerance
    <3>1. Ahead(d, m.from) \in Nat
      BY <2>1, AheadType
    <3> QED BY <2>1, <3>1, Bounds
  <2>3. <<m.from, m.gen>> \in handle[d].used
    BY <2>2 DEF Decrypts
  <2>4. Sound(d, handle[d])
    BY HandleIs
  <2>5. PICK i \in opened[d] :
          messages[i] = [epoch |-> handle[d].epoch, from |-> m.from, gen |-> m.gen]
    <3> DEFINE k == <<m.from, m.gen>>
    <3>1. \E i \in opened[d] :
            messages[i] = [epoch |-> handle[d].epoch, from |-> k[1], gen |-> k[2]]
      BY <2>3, <2>4 DEF Sound
    <3> QED BY <3>1
  <2>6. m = [epoch |-> handle[d].epoch, from |-> m.from, gen |-> m.gen]
    BY <2>1 DEF Message
  <2>7. i \in DOMAIN messages
    BY <2>1 DEF Typed
  <2>8. messages[i] = messages[n]
    BY <2>5, <2>6
  <2> QED BY <2>7, <2>8 DEF Consistent, KeysSealOnce
<1> QED BY <1>1, AlwaysConsistent, PTL
====
