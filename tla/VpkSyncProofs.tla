---------------------------- MODULE VpkSyncProofs ---------------------------
(***************************************************************************)
(* Proofs about VpkSync for any servers, jobs, pool size and builds: type  *)
(* correctness, and that jobs and update loop keep the promise of          *)
(* SharedTree.                                                             *)
(***************************************************************************)
EXTENDS VpkSync, Least, SequenceTheorems, TLAPS

-----------------------------------------------------------------------------
(* Operators *)

(* Taking an entry out of a queue leaves a queue of servers (dequeue).     *)
LEMMA WithoutType ==
    ASSUME NEW S, NEW q \in Seq(S), NEW c
    PROVE  Without(q, c) \in Seq(S)
<1> DEFINE first == CHOOSE i \in DOMAIN q : q[i] = c /\ \A k \in DOMAIN q : q[k] = c => i <= k
           n == IF Len(q) = 0 THEN 0 ELSE Len(q) - 1
           w == [i \in 1..(Len(q) - 1) |-> IF i < first THEN q[i] ELSE q[i + 1]]
<1>1. Len(q) \in Nat /\ q \in [1..Len(q) -> S]
  BY LenProperties
<1>2. n \in Nat /\ 1..(Len(q) - 1) = 1..n
  BY <1>1
<1>3. ASSUME NEW i \in 1..(Len(q) - 1)
      PROVE  q[i] \in S /\ q[i + 1] \in S
  <2>1. i \in 1..Len(q) /\ i + 1 \in 1..Len(q)
    BY <1>1
  <2>2. QED  BY <2>1, <1>1
<1>4. w \in [1..n -> S]
  <2> HIDE DEF n, first
  <2>1. w \in [1..(Len(q) - 1) -> S]
    BY <1>3
  <2>2. QED  BY <2>1, <1>2
<1>5. w \in Seq(S)
  <2> HIDE DEF w, n
  <2>1. QED  BY <1>2, <1>4, SeqDef
<1>6. QED  BY <1>5 DEF Without

-----------------------------------------------------------------------------
(* Type correctness *)

(* The job part of TypeOK with what its bound on the slots rests on.       *)
TypeInv == TypeOK /\ IsFiniteSet(slots)

LEMMA JobType ==
    ASSUME NEW j \in Jobs
    PROVE  Server(j) \in Containers
BY DEF Jobs, Server

LEMMA InitType == Init => TypeInv
<1> SUFFICES ASSUME Init PROVE TypeInv
  OBVIOUS
<1> USE SyncAssumption DEF Init
<1>1. IsFiniteSet(slots) /\ Cardinality(slots) = 0
  BY FS_EmptySet
<1>2. queue \in Seq(Containers)
  BY EmptySeq
<1>3. /\ running \subseteq Containers /\ due \subseteq Containers
      /\ torn \in BOOLEAN /\ changed \in BOOLEAN
      /\ tree \in {"free", "wanted", "writing"}
      /\ readers \subseteq Jobs /\ slots \subseteq Jobs
  OBVIOUS
<1>4. /\ central \in 0..MaxBuild /\ restarts \in 0..MaxRestarts
      /\ Cardinality(slots) <= Workers
  BY <1>1
<1>5. /\ lock \in [Containers -> Jobs \cup {NoJob}]
      /\ pc \in [Jobs -> Places]
      /\ last \in [Containers -> Statuses]
  BY DEF Places, Statuses
<1>6. vpks \in [Containers -> 0..MaxBuild] /\ rest \in [Containers -> 0..Mixed]
  BY DEF Mixed
<1>7. QED
  BY <1>1, <1>2, <1>3, <1>4, <1>5, <1>6 DEF TypeInv, TypeOK

(* A pc that moves between places is still a function to places.           *)
LEMMA AtType ==
    ASSUME TypeOK, NEW j \in Jobs, NEW from, NEW to \in Places, At(j, from, to)
    PROVE  pc' \in [Jobs -> Places]
BY DEF TypeOK, At

LEMMA SendType ==
    ASSUME TypeOK, NEW j \in Jobs, NEW status \in Statuses, Send(j, status)
    PROVE  last' \in [Containers -> Statuses]
BY JobType DEF TypeOK, Send

LEMMA announceType ==
    ASSUME TypeOK, announce
    PROVE  last' \in [Containers -> Statuses]
BY DEF TypeOK, announce, Statuses

(* One lemma per group of actions: what a job does up to its worker slot,  *)
(* what it does to the files, what it does when it is through, and what    *)
(* the update loop and the world around do.                                *)
LEMMA QueueStepType ==
    ASSUME TypeInv, NEW j \in Jobs,
           Start(j) \/ enqueued(j) \/ takeSlot(j) \/ dequeue(j) \/ dequeued(j)
    PROVE  TypeInv'
<1> USE AtType, JobType DEF TypeInv, Places, jobVars, diskVars
<1>1. CASE Start(j)
  <2>1. queue' \in Seq(Containers)
    BY <1>1 DEF Start, TypeOK
  <2>2. pc' \in [Jobs -> Places]
    BY <1>1 DEF Start
  <2>3. QED  BY <1>1, <2>1, <2>2 DEF Start, TypeOK
<1>2. CASE enqueued(j) \/ dequeued(j)
  <2>1. pc' \in [Jobs -> Places]
    BY <1>2 DEF enqueued, dequeued
  <2>2. last' \in [Containers -> Statuses]
    BY <1>2, announceType DEF enqueued, dequeued
  <2>3. QED  BY <1>2, <2>1, <2>2 DEF enqueued, dequeued, TypeOK
<1>3. CASE takeSlot(j)
  <2>1. pc' \in [Jobs -> Places]
    BY <1>3 DEF takeSlot
  <2>2. IsFiniteSet(slots') /\ Cardinality(slots') <= Workers
    <3>1. slots' = slots \cup {j} /\ Cardinality(slots) < Workers
      BY <1>3 DEF takeSlot
    <3>2. IsFiniteSet(slots) /\ Cardinality(slots) \in Nat
      BY FS_CardinalityType
    <3>3. /\ IsFiniteSet(slots \cup {j})
          /\ Cardinality(slots \cup {j}) <= Cardinality(slots) + 1
      <4> DEFINE c == Cardinality(slots)
      <4>1. /\ IsFiniteSet(slots \cup {j})
            /\ Cardinality(slots \cup {j}) = IF j \in slots THEN c ELSE c + 1
        BY <3>2, FS_AddElement
      <4>2. c \in Nat
        BY <3>2
      <4> HIDE DEF c
      <4>3. Cardinality(slots \cup {j}) <= c + 1
        BY <4>1, <4>2
      <4>4. QED  BY <4>1, <4>3 DEF c
    <3>4. Cardinality(slots \cup {j}) \in Nat
      BY <3>3, FS_CardinalityType
    <3>5. QED  BY <3>1, <3>2, <3>3, <3>4, SyncAssumption
  <2>3. slots' \subseteq Jobs
    BY <1>3 DEF takeSlot, TypeOK
  <2>4. QED  BY <1>3, <2>1, <2>2, <2>3 DEF takeSlot, TypeOK
<1>4. CASE dequeue(j)
  <2>1. queue' \in Seq(Containers)
    BY <1>4, WithoutType DEF dequeue, TypeOK
  <2>2. pc' \in [Jobs -> Places]
    BY <1>4 DEF dequeue
  <2>3. QED  BY <1>4, <2>1, <2>2 DEF dequeue, TypeOK
<1>5. QED  BY <1>1, <1>2, <1>3, <1>4

LEMMA FileStepType ==
    ASSUME TypeInv, NEW j \in Jobs,
           \/ lockVolume(j) \/ tryRLock(j) \/ rLock(j) \/ checkBuild(j) \/ verify(j)
           \/ pushSome(j) \/ pushAll(j)
    PROVE  TypeInv'
<1> USE AtType, JobType, SendType DEF TypeInv, Places, Statuses, jobVars, diskVars
<1>1. CASE lockVolume(j)
  <2>1. pc' \in [Jobs -> Places]
    BY <1>1 DEF lockVolume
  <2>2. lock' \in [Containers -> Jobs \cup {NoJob}]
    BY <1>1 DEF lockVolume, TypeOK
  <2>3. QED  BY <1>1, <2>1, <2>2 DEF lockVolume, TypeOK
<1>2. CASE tryRLock(j) \/ rLock(j)
  <2>1. pc' \in [Jobs -> Places]
    BY <1>2 DEF tryRLock, rLock
  <2>2. last' \in [Containers -> Statuses]
    <3>1. UNCHANGED last \/ Send(j, "updating")
      BY <1>2 DEF tryRLock, rLock
    <3>2. QED  BY <3>1 DEF TypeOK
  <2>3. readers' \subseteq Jobs
    BY <1>2 DEF tryRLock, rLock, TypeOK
  <2>4. QED  BY <1>2, <2>1, <2>2, <2>3 DEF tryRLock, rLock, TypeOK
<1>3. CASE checkBuild(j) \/ verify(j)
  <2>1. pc' \in [Jobs -> Places]
    BY <1>3 DEF checkBuild, verify
  <2>2. last' \in [Containers -> Statuses]
    BY <1>3 DEF checkBuild, verify
  <2>3. QED  BY <1>3, <2>1, <2>2 DEF checkBuild, verify, TypeOK
<1>4. CASE pushSome(j) \/ pushAll(j)
  <2>1. pc' \in [Jobs -> Places]
    BY <1>4 DEF pushSome, pushAll, TypeOK
  <2>2. vpks' \in [Containers -> 0..MaxBuild]
    BY <1>4 DEF pushSome, pushAll, TypeOK
  <2>3. rest' \in [Containers -> 0..Mixed]
    <3>1. central \in 0..Mixed /\ Mixed \in 0..Mixed
      BY SyncAssumption DEF TypeOK, Mixed
    <3>2. \E r \in 0..Mixed : rest' = rest \/ rest' = [rest EXCEPT ![Server(j)] = r]
      <4>1. CASE pushSome(j)
        <5>1. rest' = rest \/ rest' = [rest EXCEPT ![Server(j)] = rest[Server(j)]]
              \/ rest' = [rest EXCEPT ![Server(j)] = Mixed]
          BY <4>1 DEF pushSome
        <5>2. rest[Server(j)] \in 0..Mixed
          BY DEF TypeOK
        <5>3. QED  BY <3>1, <5>1, <5>2
      <4>2. CASE pushAll(j)
        BY <3>1, <4>2 DEF pushAll
      <4>3. QED  BY <1>4, <4>1, <4>2
    <3>3. QED  BY <3>2 DEF TypeOK
  <2>4. QED  BY <1>4, <2>1, <2>2, <2>3 DEF pushSome, pushAll, TypeOK
<1>5. QED  BY <1>1, <1>2, <1>3, <1>4

LEMMA EndStepType ==
    ASSUME TypeInv, NEW j \in Jobs,
           pushFails(j) \/ succeed(j) \/ rUnlock(j) \/ unlockVolume(j) \/ freeSlot(j)
    PROVE  TypeInv'
<1> USE AtType, JobType, SendType DEF TypeInv, Places, Statuses, jobVars, diskVars
<1>1. CASE pushFails(j) \/ succeed(j)
  <2>1. pc' \in [Jobs -> Places]
    BY <1>1 DEF pushFails, succeed
  <2>2. last' \in [Containers -> Statuses]
    BY <1>1 DEF pushFails, succeed
  <2>3. QED  BY <1>1, <2>1, <2>2 DEF pushFails, succeed, TypeOK
<1>2. CASE rUnlock(j)
  <2>1. pc' \in [Jobs -> Places]
    BY <1>2 DEF rUnlock
  <2>2. QED  BY <1>2, <2>1 DEF rUnlock, TypeOK
<1>3. CASE unlockVolume(j)
  <2>1. pc' \in [Jobs -> Places]
    BY <1>3 DEF unlockVolume
  <2>2. lock' \in [Containers -> Jobs \cup {NoJob}]
    BY <1>3 DEF unlockVolume, TypeOK
  <2>3. QED  BY <1>3, <2>1, <2>2 DEF unlockVolume, TypeOK
<1>4. CASE freeSlot(j)
  <2>1. pc' \in [Jobs -> Places]
    BY <1>4 DEF freeSlot
  <2>2. slots' \in SUBSET slots
    BY <1>4 DEF freeSlot
  <2>3. IsFiniteSet(slots') /\ Cardinality(slots') <= Cardinality(slots)
    BY <2>2, FS_Subset
  <2>4. Cardinality(slots) \in Nat /\ Cardinality(slots') \in Nat
    BY <2>3, FS_CardinalityType
  <2>5. Cardinality(slots') <= Workers
    BY <2>3, <2>4, SyncAssumption DEF TypeOK
  <2>6. QED  BY <1>4, <2>1, <2>2, <2>3, <2>5 DEF freeSlot, TypeOK
<1>5. QED  BY <1>1, <1>2, <1>3, <1>4

LEMMA WorldStepType ==
    ASSUME TypeInv,
           \/ wantTree \/ lockTree \/ steamEnds \/ beginRound \/ daemonRestarts
           \/ \E c \in Containers : pushRound(c) \/ serverTurns(c)
    PROVE  TypeInv'
<1> USE DEF TypeInv, jobVars, diskVars
<1>1. CASE wantTree \/ lockTree \/ beginRound
  BY <1>1 DEF wantTree, lockTree, beginRound, TypeOK
<1>2. CASE steamEnds
  <2>1. central' \in 0..MaxBuild
    <3>1. central' = central \/ (central < MaxBuild /\ central' = central + 1)
      BY <1>2 DEF steamEnds, steamUpdates, steamFails
    <3>2. central \in 0..MaxBuild /\ MaxBuild \in Nat
      BY SyncAssumption DEF TypeOK
    <3>3. QED  BY <3>1, <3>2
  <2>2. torn' \in BOOLEAN /\ changed' \in BOOLEAN
    BY <1>2 DEF steamEnds, steamUpdates, steamFails, TypeOK
  <2>3. QED  BY <1>2, <2>1, <2>2 DEF steamEnds, steamUpdates, steamFails, TypeOK
<1>3. ASSUME NEW c \in Containers, pushRound(c)
      PROVE  TypeInv'
  <2>1. <<c, Update>> \in Jobs
    BY DEF Jobs
  <2>2. pc' \in [Jobs -> Places]
    BY <1>3, <2>1, AtType DEF pushRound, Places
  <2>3. queue' \in Seq(Containers)
    BY <1>3 DEF pushRound, TypeOK
  <2>4. QED  BY <1>3, <2>2, <2>3 DEF pushRound, TypeOK
<1>4. ASSUME NEW c \in Containers, serverTurns(c)
      PROVE  TypeInv'
  BY <1>4 DEF serverTurns, TypeOK
<1>5. CASE daemonRestarts
  <2>1. IsFiniteSet(slots') /\ Cardinality(slots') = 0
    BY <1>5, FS_EmptySet DEF daemonRestarts
  <2>2. queue' \in Seq(Containers)
    BY <1>5, EmptySeq DEF daemonRestarts
  <2>3. /\ lock' \in [Containers -> Jobs \cup {NoJob}]
        /\ pc' \in [Jobs -> Places]
        /\ last' \in [Containers -> Statuses]
    BY <1>5 DEF daemonRestarts, Places, Statuses
  <2>4. restarts' \in 0..MaxRestarts /\ Cardinality(slots') <= Workers
    BY <1>5, <2>1, SyncAssumption DEF daemonRestarts, TypeOK
  <2>5. torn' \in BOOLEAN /\ slots' \subseteq Jobs
    BY <1>5 DEF daemonRestarts, TypeOK
  <2>6. QED  BY <1>5, <2>1, <2>2, <2>3, <2>4, <2>5 DEF daemonRestarts, TypeOK
<1>6. QED  BY <1>1, <1>2, <1>3, <1>4, <1>5

LEMMA NextType == TypeInv /\ [Next]_vars => TypeInv'
<1> SUFFICES ASSUME TypeInv, [Next]_vars PROVE TypeInv'
  OBVIOUS
<1>1. CASE UNCHANGED vars
  BY <1>1 DEF vars, jobVars, diskVars, TypeInv, TypeOK
<1>2. ASSUME NEW j \in Jobs, eggConnected(j) \/ jobStep(j) \/ pushSome(j)
      PROVE  TypeInv'
  BY <1>2, QueueStepType, FileStepType, EndStepType DEF eggConnected, jobStep
<1>3. QED  BY <1>1, <1>2, WorldStepType DEF Next

(* At most max_workers jobs hold a slot and every variable keeps its type, *)
(* in every behaviour and for any number of servers (job, m.sem).          *)
THEOREM TypeCorrect == Spec => []TypeOK
<1>1. Spec => []TypeInv
  BY InitType, NextType, PTL DEF Spec
<1>2. TypeInv => TypeOK
  BY DEF TypeInv
<1>3. QED  BY <1>1, <1>2, PTL

-----------------------------------------------------------------------------
(* The locks *)

(* What the locks are for, as an inductive invariant: the readers of the   *)
(* install are the jobs between RLock and RUnlock, a job past vol.Lock     *)
(* holds its volume's lock, and SteamCMD writes without readers.           *)
Locks ==
    /\ readers = {j \in Jobs : pc[j] \in Reading}
    /\ \A j \in Jobs : pc[j] \in Holding => lock[Server(j)] = j
    /\ tree = "writing" => readers = {}

LEMMA InitLocks == Init => Locks
BY DEF Init, Locks, Reading, Holding

(* A step of one job: where the other jobs stand does not change.          *)
LEMMA AtEffect ==
    ASSUME TypeOK, NEW j \in Jobs, NEW from, NEW to, At(j, from, to)
    PROVE  /\ pc[j] = from /\ pc'[j] = to
           /\ \A i \in Jobs \ {j} : pc'[i] = pc[i]
BY DEF TypeOK, At

(* A step that neither enters nor leaves the locks.                        *)
LEMMA OutsideLocks ==
    ASSUME TypeOK, Locks, NEW j \in Jobs, NEW from, NEW to, At(j, from, to),
           from \in Reading <=> to \in Reading,
           to \in Holding => from \in Holding,
           UNCHANGED <<readers, lock, tree>>
    PROVE  Locks'
<1>1. /\ pc[j] = from /\ pc'[j] = to
      /\ \A i \in Jobs \ {j} : pc'[i] = pc[i]
  BY AtEffect
<1>2. \A i \in Jobs : pc'[i] \in Reading <=> pc[i] \in Reading
  BY <1>1
<1>3. \A i \in Jobs : pc'[i] \in Holding => pc[i] \in Holding
  BY <1>1
<1>4. QED  BY <1>2, <1>3 DEF Locks

LEMMA JobLocks ==
    ASSUME TypeOK, Locks, NEW j \in Jobs, Start(j) \/ jobStep(j) \/ pushSome(j)
    PROVE  Locks'
<1> USE DEF Reading, Holding, jobVars, diskVars
<1>1. CASE Start(j) \/ enqueued(j) \/ takeSlot(j) \/ dequeue(j) \/ dequeued(j)
  BY <1>1, OutsideLocks DEF Start, enqueued, takeSlot, dequeue, dequeued
<1>2. CASE checkBuild(j) \/ verify(j) \/ pushAll(j) \/ pushFails(j) \/ succeed(j) \/ freeSlot(j)
  BY <1>2, OutsideLocks DEF checkBuild, verify, pushAll, pushFails, succeed, freeSlot
<1>3. CASE pushSome(j)
  BY <1>3 DEF pushSome, Locks
<1>4. CASE lockVolume(j)
  <2>1. /\ pc'[j] = "locked" /\ pc[j] = "ready" /\ \A i \in Jobs \ {j} : pc'[i] = pc[i]
    BY <1>4, AtEffect DEF lockVolume
  <2>2. /\ lock[Server(j)] = NoJob /\ lock' = [lock EXCEPT ![Server(j)] = j]
        /\ readers' = readers /\ tree' = tree
    BY <1>4 DEF lockVolume
  <2>3. ASSUME NEW i \in Jobs, pc'[i] \in Holding
        PROVE  lock'[Server(i)] = i
    <3>1. CASE i = j
      BY <3>1, <2>2, JobType DEF TypeOK
    <3>2. CASE i # j
      <4>1. lock[Server(i)] = i
        BY <3>2, <2>1, <2>3 DEF Locks
      <4>2. Server(i) # Server(j)
        BY <4>1, <2>2, SyncAssumption
      <4>3. QED  BY <4>1, <4>2, <2>2, JobType DEF TypeOK
    <3>3. QED  BY <3>1, <3>2
  <2>4. QED  BY <2>1, <2>2, <2>3 DEF Locks
<1>5. CASE tryRLock(j) /\ tree # "free"
  BY <1>5, OutsideLocks DEF tryRLock
<1>6. CASE (tryRLock(j) /\ tree = "free") \/ rLock(j)
  <2>1. /\ pc'[j] = "reading" /\ pc[j] \in {"locked", "blocked"}
        /\ \A i \in Jobs \ {j} : pc'[i] = pc[i]
    BY <1>6, AtEffect DEF tryRLock, rLock
  <2>2. readers' = readers \cup {j} /\ lock' = lock /\ tree' = tree /\ tree = "free"
    BY <1>6 DEF tryRLock, rLock
  <2>3. readers' = {i \in Jobs : pc'[i] \in Reading}
    BY <2>1, <2>2 DEF Locks
  <2>4. \A i \in Jobs : pc'[i] \in Holding => lock'[Server(i)] = i
    BY <2>1, <2>2 DEF Locks
  <2>5. QED  BY <2>2, <2>3, <2>4 DEF Locks
<1>7. CASE rUnlock(j)
  <2>1. /\ pc'[j] = "unread" /\ pc[j] = "ended" /\ \A i \in Jobs \ {j} : pc'[i] = pc[i]
    BY <1>7, AtEffect DEF rUnlock
  <2>2. readers' = readers \ {j} /\ lock' = lock /\ tree' = tree
    BY <1>7 DEF rUnlock
  <2>3. readers' = {i \in Jobs : pc'[i] \in Reading}
    BY <2>1, <2>2 DEF Locks
  <2>4. \A i \in Jobs : pc'[i] \in Holding => lock'[Server(i)] = i
    BY <2>1, <2>2 DEF Locks
  <2>5. QED  BY <2>2, <2>3, <2>4 DEF Locks
<1>8. CASE unlockVolume(j)
  <2>1. /\ pc'[j] = "unlocked" /\ pc[j] = "unread" /\ \A i \in Jobs \ {j} : pc'[i] = pc[i]
    BY <1>8, AtEffect DEF unlockVolume
  <2>2. /\ lock' = [lock EXCEPT ![Server(j)] = NoJob]
        /\ readers' = readers /\ tree' = tree
    BY <1>8 DEF unlockVolume
  <2>3. ASSUME NEW i \in Jobs, pc'[i] \in Holding
        PROVE  lock'[Server(i)] = i
    <3>1. i # j /\ lock[Server(i)] = i /\ lock[Server(j)] = j
      BY <2>1, <2>3 DEF Locks
    <3>2. Server(i) # Server(j)
      BY <3>1
    <3>3. QED  BY <3>1, <3>2, <2>2, JobType DEF TypeOK
  <2>4. readers' = {i \in Jobs : pc'[i] \in Reading}
    BY <2>1, <2>2 DEF Locks
  <2>5. QED  BY <2>2, <2>3, <2>4 DEF Locks
<1>9. QED  BY <1>1, <1>2, <1>3, <1>4, <1>5, <1>6, <1>7, <1>8 DEF jobStep

LEMMA WorldLocks ==
    ASSUME TypeOK, Locks,
           \/ wantTree \/ lockTree \/ steamEnds \/ beginRound \/ daemonRestarts
           \/ \E c \in Containers : pushRound(c) \/ serverTurns(c)
    PROVE  Locks'
<1> USE DEF Reading, Holding, jobVars, diskVars
<1>1. CASE wantTree \/ lockTree \/ steamEnds \/ beginRound
  BY <1>1 DEF wantTree, lockTree, steamEnds, steamUpdates, steamFails, beginRound, Locks
<1>2. CASE daemonRestarts
  BY <1>2 DEF daemonRestarts, Locks
<1>3. ASSUME NEW c \in Containers, pushRound(c)
      PROVE  Locks'
  <2>1. <<c, Update>> \in Jobs
    BY DEF Jobs
  <2>2. QED  BY <1>3, <2>1, OutsideLocks DEF pushRound
<1>4. ASSUME NEW c \in Containers, serverTurns(c)
      PROVE  Locks'
  BY <1>4 DEF serverTurns, Locks
<1>5. QED  BY <1>1, <1>2, <1>3, <1>4

LEMMA NextLocks == TypeOK /\ Locks /\ [Next]_vars => Locks'
<1> SUFFICES ASSUME TypeOK, Locks, [Next]_vars PROVE Locks'
  OBVIOUS
<1>1. CASE UNCHANGED vars
  BY <1>1 DEF vars, jobVars, diskVars, Locks
<1>2. CASE Next
  BY <1>2, JobLocks, WorldLocks DEF Next, eggConnected
<1>3. QED  BY <1>1, <1>2

(* The locks of a job mean what they are for in every behaviour: while     *)
(* SteamCMD writes nobody reads the install, and one volume's lock has one *)
(* holder (module.go, central and volumeLock).                             *)
THEOREM LocksHold == Spec => []Locks
<1>1. Init => Locks
  BY InitLocks
<1>2. QED  BY <1>1, NextLocks, TypeCorrect, PTL DEF Spec

-----------------------------------------------------------------------------
(* The promise *)

(* A step in which no job starts or ends reading, and SteamCMD neither     *)
(* starts nor ends writing, is none of SharedTree's.                       *)
LEMMA Stutters ==
    ASSUME \A i \in Jobs : pc'[i] \in Reading <=> pc[i] \in Reading,
           tree' = "writing" <=> tree = "writing"
    PROVE  UNCHANGED Promise!vars
<1>1. Busy' = Busy
  BY DEF Busy
<1>2. (tree = "writing")' = (tree = "writing")
  OBVIOUS
<1>3. QED  BY <1>1, <1>2 DEF Promise!vars

(* A job step between two places on one side of RLock and RUnlock.         *)
LEMMA StepAside ==
    ASSUME TypeOK, NEW j \in Jobs, NEW from, NEW to, At(j, from, to),
           from \in Reading <=> to \in Reading, UNCHANGED tree
    PROVE  UNCHANGED Promise!vars
<1>1. \A i \in Jobs : pc'[i] \in Reading <=> pc[i] \in Reading
  BY AtEffect
<1>2. QED  BY <1>1, Stutters

(* RLock begins the work on a volume nobody else works on.                 *)
LEMMA RLockBegins ==
    ASSUME TypeOK, Locks, NEW j \in Jobs, (tryRLock(j) /\ tree = "free") \/ rLock(j)
    PROVE  Promise!Begin(Server(j))
<1> USE DEF Reading, Holding
<1>1. /\ pc'[j] = "reading" /\ pc[j] \in {"locked", "blocked"}
      /\ \A i \in Jobs \ {j} : pc'[i] = pc[i]
      /\ tree' = tree /\ tree = "free"
  BY AtEffect DEF tryRLock, rLock
<1>2. Server(j) \notin Busy
  <2>1. SUFFICES ASSUME NEW i \in Jobs, Server(i) = Server(j), pc[i] \in Reading
                 PROVE  FALSE
    BY DEF Busy
  <2>2. lock[Server(i)] = i /\ lock[Server(j)] = j
    BY <1>1, <2>1 DEF Locks
  <2>3. QED  BY <1>1, <2>1, <2>2
<1>3. Busy' = Busy \cup {Server(j)}
  BY <1>1, JobType DEF Busy
<1>4. ~(tree = "writing") /\ (tree = "writing")' = (tree = "writing")
  BY <1>1
<1>5. QED  BY <1>2, <1>3, <1>4 DEF Promise!Begin

(* RUnlock ends it, and no other job still works on the volume.            *)
LEMMA RUnlockEnds ==
    ASSUME TypeOK, Locks, NEW j \in Jobs, rUnlock(j)
    PROVE  Promise!End(Server(j))
<1> USE DEF Reading, Holding
<1>1. /\ pc'[j] = "unread" /\ pc[j] = "ended"
      /\ \A i \in Jobs \ {j} : pc'[i] = pc[i]
      /\ tree' = tree
  BY AtEffect DEF rUnlock
<1>2. Server(j) \in Busy
  BY <1>1, JobType DEF Busy
<1>3. \A i \in Jobs : Server(i) = Server(j) /\ pc[i] \in Reading => i = j
  BY <1>1 DEF Locks
<1>4. Busy' = Busy \ {Server(j)}
  BY <1>1, <1>3, JobType DEF Busy
<1>5. (tree = "writing")' = (tree = "writing")
  BY <1>1
<1>6. QED  BY <1>2, <1>4, <1>5 DEF Promise!End

LEMMA JobPromise ==
    ASSUME TypeOK, Locks, NEW j \in Jobs, Start(j) \/ jobStep(j) \/ pushSome(j)
    PROVE  [Promise!Next]_Promise!vars
<1> USE DEF Reading, Holding, jobVars, diskVars
<1>1. CASE \/ Start(j) \/ enqueued(j) \/ takeSlot(j) \/ dequeue(j) \/ dequeued(j)
           \/ lockVolume(j) \/ unlockVolume(j) \/ freeSlot(j)
  BY <1>1, StepAside
     DEF Start, enqueued, takeSlot, dequeue, dequeued, lockVolume, unlockVolume, freeSlot
<1>2. CASE \/ checkBuild(j) \/ verify(j) \/ pushAll(j) \/ pushFails(j) \/ succeed(j)
           \/ (tryRLock(j) /\ tree # "free")
  BY <1>2, StepAside DEF checkBuild, verify, pushAll, pushFails, succeed, tryRLock
<1>3. CASE pushSome(j)
  BY <1>3, Stutters DEF pushSome
<1>4. CASE (tryRLock(j) /\ tree = "free") \/ rLock(j)
  BY <1>4, RLockBegins, JobType DEF Promise!Next
<1>5. CASE rUnlock(j)
  BY <1>5, RUnlockEnds, JobType DEF Promise!Next
<1>6. QED  BY <1>1, <1>2, <1>3, <1>4, <1>5 DEF jobStep

LEMMA WorldPromise ==
    ASSUME TypeOK, Locks,
           \/ wantTree \/ lockTree \/ steamEnds \/ beginRound \/ daemonRestarts
           \/ \E c \in Containers : pushRound(c) \/ serverTurns(c)
    PROVE  [Promise!Next]_Promise!vars
<1> USE DEF Reading, Holding, jobVars, diskVars
<1>1. CASE wantTree \/ beginRound
  BY <1>1, Stutters DEF wantTree, beginRound
<1>2. CASE lockTree
  <2>1. Busy = {} /\ Busy' = Busy
    BY <1>2 DEF lockTree, Locks, Busy
  <2>2. ~(tree = "writing") /\ (tree = "writing")' = TRUE
    BY <1>2 DEF lockTree
  <2>3. Promise!BeginUpdate
    BY <2>1, <2>2 DEF Promise!BeginUpdate
  <2>4. QED  BY <2>3 DEF Promise!Next
<1>3. CASE steamEnds
  <2>1. Busy' = Busy
    BY <1>3 DEF steamEnds, steamUpdates, steamFails, Busy
  <2>2. tree = "writing" /\ (tree = "writing")' = FALSE
    BY <1>3 DEF steamEnds, steamUpdates, steamFails
  <2>3. Promise!EndUpdate
    BY <2>1, <2>2 DEF Promise!EndUpdate
  <2>4. QED  BY <2>3 DEF Promise!Next
<1>4. CASE daemonRestarts
  <2>1. Busy' = {}
    BY <1>4 DEF daemonRestarts, Busy
  <2>2. (tree = "writing")' = FALSE
    BY <1>4 DEF daemonRestarts
  <2>3. Promise!Crash
    BY <2>1, <2>2 DEF Promise!Crash
  <2>4. QED  BY <2>3 DEF Promise!Next
<1>5. ASSUME NEW c \in Containers, pushRound(c)
      PROVE  UNCHANGED Promise!vars
  <2>1. <<c, Update>> \in Jobs
    BY DEF Jobs
  <2>2. QED  BY <1>5, <2>1, StepAside DEF pushRound
<1>6. ASSUME NEW c \in Containers, serverTurns(c)
      PROVE  UNCHANGED Promise!vars
  BY <1>6, Stutters DEF serverTurns
<1>7. QED  BY <1>1, <1>2, <1>3, <1>4, <1>5, <1>6

LEMMA InitPromise == Init => Promise!Init
<1> SUFFICES ASSUME Init PROVE Promise!Init
  OBVIOUS
<1>1. Busy = {}
  BY DEF Init, Busy, Reading
<1>2. (tree = "writing") = FALSE
  BY DEF Init
<1>3. QED  BY <1>1, <1>2 DEF Promise!Init

LEMMA NextPromise == TypeOK /\ Locks /\ [Next]_vars => [Promise!Next]_Promise!vars
<1> SUFFICES ASSUME TypeOK, Locks, [Next]_vars PROVE [Promise!Next]_Promise!vars
  OBVIOUS
<1>1. CASE UNCHANGED vars
  BY <1>1, Stutters DEF vars, jobVars, diskVars
<1>2. CASE Next
  BY <1>2, JobPromise, WorldPromise DEF Next, eggConnected
<1>3. QED  BY <1>1, <1>2

(* The jobs and the update loop implement SharedTree for any number of     *)
(* servers, jobs, workers and builds: no volume is compared with or filled *)
(* from an install that SteamCMD writes, and none by two jobs at once.     *)
THEOREM PromiseKept == Spec => KeepsPromise
<1>1. Spec => Promise!Init
  BY InitPromise DEF Spec
<1>2. Spec => [][Promise!Next]_Promise!vars
  BY NextPromise, TypeCorrect, LocksHold, PTL DEF Spec
<1>3. QED  BY <1>1, <1>2 DEF KeepsPromise, Promise!Spec

(* SteamCMD writes only while no volume is at work (central.Lock).         *)
THEOREM WritesAlone == Spec => []Promise!Exclusive
<1>1. Locks => Promise!Exclusive
  BY DEF Locks, Promise!Exclusive, Busy
<1>2. QED  BY <1>1, LocksHold, PTL

-----------------------------------------------------------------------------
(* Whole pushes *)

(* Two jobs past their volume lock are jobs of two volumes.                *)
LEMMA HoldersDiffer ==
    ASSUME Locks, NEW i \in Jobs, NEW j \in Jobs, i # j,
           pc[i] \in Holding, pc[j] \in Holding
    PROVE  Server(i) # Server(j)
BY DEF Locks

(* Files, build and torn stay, and nobody comes to "pushed".               *)
LEMMA PushedStays ==
    ASSUME PushedIsWhole, UNCHANGED <<vpks, rest, central, torn>>,
           \A i \in Jobs : pc'[i] = "pushed" => pc[i] = "pushed"
    PROVE  PushedIsWhole'
BY DEF PushedIsWhole

LEMMA JobPushed ==
    ASSUME TypeOK, Locks, PushedIsWhole, NEW j \in Jobs,
           Start(j) \/ jobStep(j) \/ pushSome(j)
    PROVE  PushedIsWhole'
<1> USE DEF jobVars, diskVars
<1>1. CASE \/ Start(j) \/ enqueued(j) \/ takeSlot(j) \/ dequeue(j) \/ dequeued(j)
           \/ lockVolume(j) \/ unlockVolume(j) \/ freeSlot(j)
  <2>1. \A i \in Jobs : pc'[i] = "pushed" => pc[i] = "pushed"
    BY <1>1, AtEffect
       DEF Start, enqueued, takeSlot, dequeue, dequeued, lockVolume, unlockVolume, freeSlot
  <2>2. UNCHANGED <<vpks, rest, central, torn>>
    BY <1>1
       DEF Start, enqueued, takeSlot, dequeue, dequeued, lockVolume, unlockVolume, freeSlot
  <2>3. QED  BY <2>1, <2>2, PushedStays
<1>2. CASE \/ tryRLock(j) \/ rLock(j) \/ checkBuild(j) \/ verify(j)
           \/ pushFails(j) \/ succeed(j) \/ rUnlock(j)
  <2>1. \A i \in Jobs : pc'[i] = "pushed" => pc[i] = "pushed"
    BY <1>2, AtEffect DEF tryRLock, rLock, checkBuild, verify, pushFails, succeed, rUnlock
  <2>2. UNCHANGED <<vpks, rest, central, torn>>
    BY <1>2 DEF tryRLock, rLock, checkBuild, verify, pushFails, succeed, rUnlock
  <2>3. QED  BY <2>1, <2>2, PushedStays
<1>3. CASE pushSome(j) \/ pushAll(j)
  <2>1. pc[j] = "pushing" /\ \A i \in Jobs \ {j} : pc'[i] = pc[i]
    BY <1>3, AtEffect DEF pushSome, pushAll
  <2>2. \A c \in Containers \ {Server(j)} : vpks'[c] = vpks[c] /\ rest'[c] = rest[c]
    BY <1>3 DEF pushSome, pushAll, TypeOK
  <2>3. central' = central /\ torn' = torn
    BY <1>3 DEF pushSome, pushAll
  <2>4. SUFFICES ASSUME NEW i \in Jobs, pc'[i] = "pushed"
                 PROVE  vpks'[Server(i)] = central /\ (rest'[Server(i)] = central \/ torn)
    BY <2>3 DEF PushedIsWhole
  <2>5. CASE i = j
    <3>1. pushAll(j)
      BY <1>3, <2>1, <2>4, <2>5 DEF pushSome
    <3>2. tree # "writing"
      BY <2>1 DEF Locks, Reading
    <3>3. QED  BY <2>5, <3>1, <3>2, JobType DEF pushAll, TypeOK
  <2>6. CASE i # j
    <3>1. pc[i] = "pushed"
      BY <2>1, <2>4, <2>6
    <3>2. Server(i) # Server(j)
      BY <2>1, <2>6, <3>1, HoldersDiffer DEF Holding
    <3>3. QED  BY <2>2, <3>1, <3>2, JobType DEF PushedIsWhole
  <2>7. QED  BY <2>5, <2>6
<1>4. QED  BY <1>1, <1>2, <1>3 DEF jobStep

LEMMA WorldPushed ==
    ASSUME TypeOK, Locks, PushedIsWhole,
           \/ wantTree \/ lockTree \/ steamEnds \/ beginRound \/ daemonRestarts
           \/ \E c \in Containers : pushRound(c) \/ serverTurns(c)
    PROVE  PushedIsWhole'
<1> USE DEF jobVars, diskVars
<1>1. CASE wantTree \/ lockTree \/ beginRound
  BY <1>1, PushedStays DEF wantTree, lockTree, beginRound
<1>2. CASE steamEnds
  <2>1. \A i \in Jobs : pc'[i] # "pushed"
    BY <1>2 DEF steamEnds, steamUpdates, steamFails, Locks, Reading
  <2>2. QED  BY <2>1 DEF PushedIsWhole
<1>3. CASE daemonRestarts
  BY <1>3 DEF daemonRestarts, PushedIsWhole
<1>4. ASSUME NEW c \in Containers, pushRound(c)
      PROVE  PushedIsWhole'
  <2>1. <<c, Update>> \in Jobs
    BY DEF Jobs
  <2>2. \A i \in Jobs : pc'[i] = "pushed" => pc[i] = "pushed"
    BY <1>4, <2>1, AtEffect DEF pushRound
  <2>3. QED  BY <1>4, <2>2, PushedStays DEF pushRound
<1>5. ASSUME NEW c \in Containers, serverTurns(c)
      PROVE  PushedIsWhole'
  BY <1>5, PushedStays DEF serverTurns
<1>6. QED  BY <1>1, <1>2, <1>3, <1>4, <1>5

(* A push that ends well leaves one build in the volume, in every          *)
(* behaviour: no other push and no SteamCMD came between (job, Push).      *)
THEOREM PushesAreWhole == Spec => []PushedIsWhole
<1>1. Init => PushedIsWhole
  BY DEF Init, PushedIsWhole
<1>2. TypeOK /\ Locks /\ PushedIsWhole /\ [Next]_vars => PushedIsWhole'
  <2> SUFFICES ASSUME TypeOK, Locks, PushedIsWhole, [Next]_vars PROVE PushedIsWhole'
    OBVIOUS
  <2>1. CASE UNCHANGED vars
    BY <2>1, PushedStays DEF vars, jobVars, diskVars
  <2>2. CASE Next
    BY <2>2, JobPushed, WorldPushed DEF Next, eggConnected
  <2>3. QED  BY <2>1, <2>2
<1>3. QED  BY <1>1, <1>2, TypeCorrect, LocksHold, PTL DEF Spec

-----------------------------------------------------------------------------
(* The queue *)

(* Where a server stands in a queue, and who stands in it for that server. *)
Positions(q, c) == {i \in DOMAIN q : q[i] = c}
Waiters(c)      == {j \in Jobs : Server(j) = c /\ pc[j] \in Waiting}

LEMMA JobsFinite == IsFiniteSet(Jobs)
<1>1. IsFiniteSet(BootJobs \cup {Update})
  BY SyncAssumption, FS_AddElement
<1>2. QED  BY <1>1, SyncAssumption, FS_Product DEF Jobs

LEMMA WaitersFinite == \A c : IsFiniteSet(Waiters(c))
BY JobsFinite, FS_Subset DEF Waiters

LEMMA PositionsFinite ==
    ASSUME NEW S, NEW q \in Seq(S), NEW c
    PROVE  IsFiniteSet(Positions(q, c)) /\ Cardinality(Positions(q, c)) \in Nat
<1>1. Len(q) \in Nat /\ DOMAIN q = 1..Len(q)
  BY LenProperties
<1>2. IsFiniteSet(1..Len(q)) /\ Positions(q, c) \in SUBSET (1..Len(q))
  BY <1>1, FS_Interval DEF Positions
<1>3. IsFiniteSet(Positions(q, c))
  BY <1>2, FS_Subset
<1>4. QED  BY <1>3, FS_CardinalityType

(* enqueue: one more entry of the server, and no other moves.              *)
LEMMA AppendCounts ==
    ASSUME NEW S, NEW q \in Seq(S), NEW c \in S, NEW d
    PROVE  Cardinality(Positions(Append(q, c), d))
             = Cardinality(Positions(q, d)) + (IF d = c THEN 1 ELSE 0)
<1>1. Len(q) \in Nat /\ DOMAIN q = 1..Len(q)
  BY LenProperties
<1>2. /\ DOMAIN Append(q, c) = 1..(Len(q) + 1)
      /\ \A i \in 1..Len(q) : Append(q, c)[i] = q[i]
      /\ Append(q, c)[Len(q) + 1] = c
  BY <1>1, AppendProperties
<1>3. IsFiniteSet(Positions(q, d)) /\ Cardinality(Positions(q, d)) \in Nat
  BY PositionsFinite
<1>4. CASE d = c
  <2>1. Positions(Append(q, c), d) = Positions(q, d) \cup {Len(q) + 1}
    BY <1>1, <1>2, <1>4 DEF Positions
  <2>2. Len(q) + 1 \notin Positions(q, d)
    BY <1>1 DEF Positions
  <2>3. QED  BY <1>3, <1>4, <2>1, <2>2, FS_AddElement
<1>5. CASE d # c
  <2>1. Positions(Append(q, c), d) = Positions(q, d)
    BY <1>1, <1>2, <1>5 DEF Positions
  <2>2. QED  BY <1>3, <1>5, <2>1
<1>6. QED  BY <1>4, <1>5

(* dequeue: one entry of the server less, whoever's it was, and the rest   *)
(* of the queue closes up.                                                 *)
LEMMA WithoutCounts ==
    ASSUME NEW S, NEW q \in Seq(S), NEW c, Positions(q, c) # {}, NEW d
    PROVE  Cardinality(Positions(Without(q, c), d))
             = Cardinality(Positions(q, d)) - (IF d = c THEN 1 ELSE 0)
<1> DEFINE first == CHOOSE i \in DOMAIN q : q[i] = c /\ \A k \in DOMAIN q : q[k] = c => i <= k
           kept  == Positions(Without(q, c), d)
           old   == Positions(q, d) \ {first}
           back  == [i \in kept |-> IF i < first THEN i ELSE i + 1]
<1>1. Len(q) \in Nat /\ DOMAIN q = 1..Len(q)
  BY LenProperties
<1>2. first \in 1..Len(q) /\ q[first] = c
  <2>1. Positions(q, c) \subseteq Nat
    BY <1>1 DEF Positions
  <2>2. \E i \in Positions(q, c) : \A k \in Positions(q, c) : i <= k
    BY <2>1, LeastExists
  <2>3. \E i \in DOMAIN q : q[i] = c /\ \A k \in DOMAIN q : q[k] = c => i <= k
    BY <2>2 DEF Positions
  <2>4. QED  BY <2>3, <1>1
<1>3. /\ DOMAIN Without(q, c) = 1..(Len(q) - 1)
      /\ \A i \in 1..(Len(q) - 1) :
            Without(q, c)[i] = IF i < first THEN q[i] ELSE q[i + 1]
  BY DEF Without
<1> HIDE DEF first
<1>4. kept \subseteq 1..(Len(q) - 1)
  BY <1>3 DEF Positions
<1>5. back \in [kept -> old]
  <2>1. SUFFICES ASSUME NEW i \in kept
                 PROVE  (IF i < first THEN i ELSE i + 1) \in old
    OBVIOUS
  <2>2. i \in 1..(Len(q) - 1) /\ (IF i < first THEN q[i] ELSE q[i + 1]) = d
    BY <2>1, <1>3 DEF Positions
  <2>3. CASE i < first
    BY <2>2, <2>3, <1>1, <1>2 DEF Positions
  <2>4. CASE ~(i < first)
    BY <2>2, <2>4, <1>1, <1>2 DEF Positions
  <2>5. QED  BY <2>3, <2>4
<1>6. \A i, k \in kept : back[i] = back[k] => i = k
  BY <1>1, <1>2, <1>4
<1>7. \A k \in old : \E i \in kept : back[i] = k
  <2>1. SUFFICES ASSUME NEW k \in old
                 PROVE  \E i \in kept : back[i] = k
    OBVIOUS
  <2>2. k \in 1..Len(q) /\ q[k] = d /\ k # first
    BY <2>1, <1>1 DEF Positions
  <2>3. CASE k < first
    <3>1. k \in 1..(Len(q) - 1)
      BY <2>2, <2>3, <1>1, <1>2
    <3>2. k \in kept
      BY <2>2, <2>3, <3>1, <1>3 DEF Positions
    <3>3. QED  BY <2>3, <3>2
  <2>4. CASE ~(k < first)
    <3>1. /\ k - 1 \in 1..(Len(q) - 1)
          /\ ~(k - 1 < first) /\ (k - 1) + 1 = k
      BY <2>2, <2>4, <1>1, <1>2
    <3>2. k - 1 \in kept
      BY <2>2, <3>1, <1>3 DEF Positions
    <3>3. QED  BY <3>1, <3>2
  <2>5. QED  BY <2>3, <2>4
<1>8. IsFiniteSet(kept)
  <2>1. 1 \in Int /\ Len(q) - 1 \in Int
    BY <1>1
  <2>2. IsFiniteSet(1..(Len(q) - 1)) /\ kept \in SUBSET (1..(Len(q) - 1))
    BY <2>1, <1>4, FS_Interval
  <2>3. QED  BY <2>2, FS_Subset
<1>9. Cardinality(old) = Cardinality(kept)
  <2> HIDE DEF kept, old, back
  <2>1. back \in Bijection(kept, old)
    BY <1>5, <1>6, <1>7 DEF Bijection, Injection, Surjection, IsInjective
  <2>2. QED  BY <1>8, <2>1, FS_Bijection DEF ExistsBijection
<1>10. first \in Positions(q, d) <=> d = c
  BY <1>1, <1>2 DEF Positions
<1>11. IsFiniteSet(Positions(q, d)) /\ Cardinality(Positions(q, d)) \in Nat
  BY PositionsFinite
<1>12. Cardinality(old) = IF first \in Positions(q, d) THEN Cardinality(Positions(q, d)) - 1
                                                      ELSE Cardinality(Positions(q, d))
  BY <1>11, FS_RemoveElement
<1>13. QED
  <2> HIDE DEF kept, old, back
  <2>1. Cardinality(kept) = Cardinality(Positions(q, d)) - (IF d = c THEN 1 ELSE 0)
    BY <1>9, <1>10, <1>11, <1>12
  <2>2. QED  BY <2>1 DEF kept

LEMMA QueueAsCounts ==
    QueueIsTheWaiters <=> \A c \in Containers : Cardinality(Positions(queue, c)) = Cardinality(Waiters(c))
BY DEF QueueIsTheWaiters, Positions, Waiters

(* The queue stays, and nobody begins or ends waiting.                     *)
LEMMA QueueStays ==
    ASSUME QueueIsTheWaiters, UNCHANGED queue,
           \A i \in Jobs : pc'[i] \in Waiting <=> pc[i] \in Waiting
    PROVE  QueueIsTheWaiters'
<1>1. \A c \in Containers : {j \in Jobs : Server(j) = c /\ pc'[j] \in Waiting}
                              = {j \in Jobs : Server(j) = c /\ pc[j] \in Waiting}
  OBVIOUS
<1>2. QED  BY <1>1 DEF QueueIsTheWaiters

(* A job step between two places on one side of the queue.                 *)
LEMMA QueueAside ==
    ASSUME TypeOK, QueueIsTheWaiters, NEW j \in Jobs, NEW from, NEW to, At(j, from, to),
           from \in Waiting <=> to \in Waiting, UNCHANGED queue
    PROVE  QueueIsTheWaiters'
BY AtEffect, QueueStays

(* enqueue: one entry and one waiter more.                                 *)
LEMMA QueueJoined ==
    ASSUME TypeOK, QueueIsTheWaiters, NEW j \in Jobs,
           At(j, "idle", "announcing"), queue' = Append(queue, Server(j))
    PROVE  QueueIsTheWaiters'
<1>1. pc[j] = "idle" /\ pc'[j] = "announcing" /\ \A i \in Jobs \ {j} : pc'[i] = pc[i]
  BY AtEffect
<1>2. queue \in Seq(Containers) /\ Server(j) \in Containers
  BY JobType DEF TypeOK
<1>3. ASSUME NEW c \in Containers
      PROVE  Cardinality(Positions(queue, c))' = Cardinality(Waiters(c))'
  <2>1. Cardinality(Positions(queue, c)) = Cardinality(Waiters(c))
    BY QueueAsCounts
  <2>2. Cardinality(Positions(queue', c))
          = Cardinality(Positions(queue, c)) + (IF c = Server(j) THEN 1 ELSE 0)
    BY <1>2, AppendCounts
  <2>3. IsFiniteSet(Waiters(c)) /\ Cardinality(Waiters(c)) \in Nat
    BY WaitersFinite, FS_CardinalityType
  <2>4. j \notin Waiters(c)
    BY <1>1 DEF Waiters, Waiting
  <2>5. Waiters(c)' = IF c = Server(j) THEN Waiters(c) \cup {j} ELSE Waiters(c)
    BY <1>1 DEF Waiters, Waiting
  <2>6. CASE c = Server(j)
    <3>1. Cardinality(Waiters(c) \cup {j}) = Cardinality(Waiters(c)) + 1
      BY <2>3, <2>4, FS_AddElement
    <3>2. QED  BY <2>1, <2>2, <2>5, <2>6, <3>1
  <2>7. CASE c # Server(j)
    BY <2>1, <2>2, <2>3, <2>5, <2>7
  <2>8. QED  BY <2>6, <2>7
<1>4. QED  BY <1>3 DEF QueueIsTheWaiters, Positions, Waiters

(* dequeue: the job waits, so its server is in the queue; one entry and    *)
(* one waiter go.                                                          *)
LEMMA QueueLeft ==
    ASSUME TypeOK, QueueIsTheWaiters, NEW j \in Jobs, dequeue(j)
    PROVE  QueueIsTheWaiters'
<1>1. /\ pc[j] = "slotted" /\ pc'[j] = "dequeued" /\ \A i \in Jobs \ {j} : pc'[i] = pc[i]
      /\ queue' = Without(queue, Server(j))
  BY AtEffect DEF dequeue
<1>2. queue \in Seq(Containers) /\ Server(j) \in Containers
  BY JobType DEF TypeOK
<1>3. j \in Waiters(Server(j))
  BY <1>1 DEF Waiters, Waiting
<1>4. Positions(queue, Server(j)) # {}
  <2>1. Cardinality(Positions(queue, Server(j))) = Cardinality(Waiters(Server(j)))
    BY <1>2, QueueAsCounts
  <2>2. Cardinality(Waiters(Server(j))) # 0
    BY <1>3, WaitersFinite, FS_EmptySet
  <2>3. QED  BY <2>1, <2>2, FS_EmptySet
<1>5. ASSUME NEW c \in Containers
      PROVE  Cardinality(Positions(queue, c))' = Cardinality(Waiters(c))'
  <2>1. Cardinality(Positions(queue, c)) = Cardinality(Waiters(c))
    BY QueueAsCounts
  <2>2. Cardinality(Positions(queue', c))
          = Cardinality(Positions(queue, c)) - (IF c = Server(j) THEN 1 ELSE 0)
    BY <1>1, <1>2, <1>4, WithoutCounts
  <2>3. IsFiniteSet(Waiters(c)) /\ Cardinality(Waiters(c)) \in Nat
    BY WaitersFinite, FS_CardinalityType
  <2>4. Waiters(c)' = IF c = Server(j) THEN Waiters(c) \ {j} ELSE Waiters(c)
    BY <1>1 DEF Waiters, Waiting
  <2>5. CASE c = Server(j)
    <3>1. Cardinality(Waiters(c) \ {j}) = Cardinality(Waiters(c)) - 1
      BY <1>3, <2>3, <2>5, FS_RemoveElement
    <3>2. QED  BY <2>1, <2>2, <2>4, <2>5, <3>1
  <2>6. CASE c # Server(j)
    BY <2>1, <2>2, <2>3, <2>4, <2>6
  <2>7. QED  BY <2>5, <2>6
<1>6. QED  BY <1>5 DEF QueueIsTheWaiters, Positions, Waiters

LEMMA NoQueue ==
    ASSUME queue = <<>>, \A j \in Jobs : pc[j] = "idle"
    PROVE  QueueIsTheWaiters
<1>1. \A c \in Containers : Positions(queue, c) = {} /\ Waiters(c) = {}
  BY DEF Positions, Waiters, Waiting
<1>2. QED  BY <1>1, QueueAsCounts

LEMMA JobQueue ==
    ASSUME TypeOK, QueueIsTheWaiters, NEW j \in Jobs, Start(j) \/ jobStep(j) \/ pushSome(j)
    PROVE  QueueIsTheWaiters'
<1> USE DEF Waiting, jobVars, diskVars
<1>1. CASE Start(j)
  BY <1>1, QueueJoined DEF Start
<1>2. CASE dequeue(j)
  BY <1>2, QueueLeft
<1>3. CASE \/ enqueued(j) \/ takeSlot(j) \/ dequeued(j) \/ lockVolume(j) \/ tryRLock(j)
           \/ rLock(j) \/ checkBuild(j) \/ verify(j)
  BY <1>3, QueueAside
     DEF enqueued, takeSlot, dequeued, lockVolume, tryRLock, rLock, checkBuild, verify
<1>4. CASE \/ pushAll(j) \/ pushFails(j) \/ succeed(j)
           \/ rUnlock(j) \/ unlockVolume(j) \/ freeSlot(j)
  BY <1>4, QueueAside DEF pushAll, pushFails, succeed, rUnlock, unlockVolume, freeSlot
<1>5. CASE pushSome(j)
  BY <1>5, QueueStays DEF pushSome
<1>6. QED  BY <1>1, <1>2, <1>3, <1>4, <1>5 DEF jobStep

LEMMA WorldQueue ==
    ASSUME TypeOK, QueueIsTheWaiters,
           \/ wantTree \/ lockTree \/ steamEnds \/ beginRound \/ daemonRestarts
           \/ \E c \in Containers : pushRound(c) \/ serverTurns(c)
    PROVE  QueueIsTheWaiters'
<1> USE DEF jobVars, diskVars
<1>1. CASE wantTree \/ lockTree \/ steamEnds \/ beginRound
  BY <1>1, QueueStays DEF wantTree, lockTree, steamEnds, steamUpdates, steamFails, beginRound
<1>2. CASE daemonRestarts
  <2>1. queue' = <<>> /\ \A j \in Jobs : pc'[j] = "idle"
    BY <1>2 DEF daemonRestarts
  <2>2. \A c \in Containers : /\ {i \in DOMAIN queue' : queue'[i] = c} = {}
                              /\ {j \in Jobs : Server(j) = c /\ pc'[j] \in Waiting} = {}
    BY <2>1 DEF Waiting
  <2>3. QED  BY <2>2 DEF QueueIsTheWaiters
<1>3. ASSUME NEW c \in Containers, pushRound(c)
      PROVE  QueueIsTheWaiters'
  <2>1. <<c, Update>> \in Jobs /\ Server(<<c, Update>>) = c
    BY DEF Jobs, Server
  <2>2. QED  BY <1>3, <2>1, QueueJoined DEF pushRound
<1>4. ASSUME NEW c \in Containers, serverTurns(c)
      PROVE  QueueIsTheWaiters'
  BY <1>4, QueueStays DEF serverTurns
<1>5. QED  BY <1>1, <1>2, <1>3, <1>4

LEMMA NextQueue == TypeOK /\ QueueIsTheWaiters /\ [Next]_vars => QueueIsTheWaiters'
<1> SUFFICES ASSUME TypeOK, QueueIsTheWaiters, [Next]_vars PROVE QueueIsTheWaiters'
  OBVIOUS
<1>1. CASE UNCHANGED vars
  BY <1>1, QueueStays DEF vars, jobVars, diskVars
<1>2. CASE Next
  BY <1>2, JobQueue, WorldQueue DEF Next, eggConnected
<1>3. QED  BY <1>1, <1>2

(* In every behaviour the queue counts each server's waiting jobs, no more *)
(* and no fewer, although a job that leaves takes the first entry of its   *)
(* server and not its own (enqueue, dequeue).                              *)
THEOREM QueueIsRight == Spec => []QueueIsTheWaiters
<1>1. Init => QueueIsTheWaiters
  BY NoQueue DEF Init
<1>2. QED  BY <1>1, NextQueue, TypeCorrect, PTL DEF Spec

-----------------------------------------------------------------------------
(* The status left behind *)

(* A status that is not final belongs to a job that has still to give one. *)
Final   == {"none", "done", "failed"}
Working == Places \ {"idle", "ended", "unread", "unlocked"}
WillSettle ==
    \A c \in Containers :
        last[c] \in Final \/ \E j \in Jobs : Server(j) = c /\ pc[j] \in Working

(* announce marks only servers a job waits for.                            *)
LEMMA QueuedHaveWaiters ==
    ASSUME TypeOK, QueueIsTheWaiters, NEW c \in Containers,
           \E i \in DOMAIN queue : queue[i] = c
    PROVE  \E j \in Jobs : Server(j) = c /\ pc[j] \in Waiting
<1>1. Positions(queue, c) # {} /\ IsFiniteSet(Positions(queue, c))
  BY PositionsFinite DEF Positions, TypeOK
<1>2. Cardinality(Waiters(c)) # 0
  BY <1>1, QueueAsCounts, FS_EmptySet
<1>3. Waiters(c) # {}
  BY <1>2, FS_EmptySet
<1>4. QED  BY <1>3 DEF Waiters

(* A step that keeps a working job at work, and the statuses with it.      *)
LEMMA StillWorking ==
    ASSUME TypeOK, WillSettle, NEW j \in Jobs, NEW from, NEW to, At(j, from, to),
           from \in Working => to \in Working,
           UNCHANGED last \/ (to \in Working /\ \E s : Send(j, s))
    PROVE  WillSettle'
<1>1. /\ pc[j] = from /\ pc'[j] = to
      /\ \A i \in Jobs \ {j} : pc'[i] = pc[i]
  BY AtEffect
<1>2. SUFFICES ASSUME NEW c \in Containers
               PROVE  last'[c] \in Final \/ \E i \in Jobs : Server(i) = c /\ pc'[i] \in Working
  BY DEF WillSettle
<1>3. \A i \in Jobs : pc[i] \in Working => pc'[i] \in Working
  BY <1>1
<1>4. CASE last'[c] = last[c]
  BY <1>3, <1>4 DEF WillSettle
<1>5. CASE last'[c] # last[c]
  <2>1. c = Server(j) /\ to \in Working
    BY <1>5 DEF Send, TypeOK
  <2>2. QED  BY <1>1, <2>1
<1>6. QED  BY <1>4, <1>5

(* A step that gives the job's final status.                               *)
LEMMA GivesFinal ==
    ASSUME TypeOK, WillSettle, NEW j \in Jobs, NEW from, NEW to, At(j, from, to),
           NEW s \in Final, Send(j, s)
    PROVE  WillSettle'
<1>1. \A i \in Jobs \ {j} : pc'[i] = pc[i]
  BY AtEffect
<1>2. last'[Server(j)] = s /\ \A c \in Containers \ {Server(j)} : last'[c] = last[c]
  BY JobType DEF Send, TypeOK
<1>3. QED  BY <1>1, <1>2 DEF WillSettle

(* A step that announces the queue, before or after the job left it.       *)
LEMMA AnnounceSettles ==
    ASSUME TypeOK, QueueIsTheWaiters, WillSettle, NEW j \in Jobs, enqueued(j) \/ dequeued(j)
    PROVE  WillSettle'
<1>1. /\ pc[j] \in Working /\ pc'[j] \in Working
      /\ \A i \in Jobs \ {j} : pc'[i] = pc[i]
  BY AtEffect DEF enqueued, dequeued, Working, Places
<1>2. \A i \in Jobs : pc[i] \in Working => pc'[i] \in Working
  BY <1>1
<1>3. SUFFICES ASSUME NEW c \in Containers
               PROVE  last'[c] \in Final \/ \E i \in Jobs : Server(i) = c /\ pc'[i] \in Working
  BY DEF WillSettle
<1>4. announce
  BY DEF enqueued, dequeued
<1>5. CASE \E i \in DOMAIN queue : queue[i] = c
  <2>1. \E i \in Jobs : Server(i) = c /\ pc[i] \in Waiting
    BY <1>5, QueuedHaveWaiters
  <2>2. Waiting \subseteq Working
    BY DEF Waiting, Working, Places
  <2>3. QED  BY <1>2, <2>1, <2>2
<1>6. CASE ~ \E i \in DOMAIN queue : queue[i] = c
  <2>1. last'[c] = last[c]
    BY <1>4, <1>6 DEF announce
  <2>2. QED  BY <1>2, <2>1 DEF WillSettle
<1>7. QED  BY <1>5, <1>6

LEMMA JobSettles ==
    ASSUME TypeOK, QueueIsTheWaiters, WillSettle, NEW j \in Jobs,
           Start(j) \/ jobStep(j) \/ pushSome(j)
    PROVE  WillSettle'
<1> USE DEF Working, Places, Final, jobVars, diskVars
<1>1. CASE enqueued(j) \/ dequeued(j)
  BY <1>1, AnnounceSettles
<1>2. CASE \/ Start(j) \/ takeSlot(j) \/ dequeue(j) \/ lockVolume(j) \/ rLock(j)
           \/ pushAll(j) \/ rUnlock(j) \/ unlockVolume(j) \/ freeSlot(j)
  BY <1>2, StillWorking
     DEF Start, takeSlot, dequeue, lockVolume, rLock, pushAll, rUnlock, unlockVolume, freeSlot
<1>3. CASE tryRLock(j)
  BY <1>3, StillWorking DEF tryRLock
<1>4. CASE checkBuild(j) \/ verify(j)
  <2>1. CASE checkBuild(j) /\ central = 0
    BY <2>1, GivesFinal DEF checkBuild
  <2>2. CASE checkBuild(j) /\ central # 0
    BY <2>2, StillWorking DEF checkBuild
  <2>3. CASE verify(j) /\ ~Forced(j) /\ Verify(Server(j))
    BY <2>3, GivesFinal DEF verify
  <2>4. CASE verify(j) /\ ~(~Forced(j) /\ Verify(Server(j)))
    BY <2>4, StillWorking DEF verify
  <2>5. QED  BY <1>4, <2>1, <2>2, <2>3, <2>4
<1>5. CASE pushFails(j) \/ succeed(j)
  BY <1>5, GivesFinal DEF pushFails, succeed
<1>6. CASE pushSome(j)
  BY <1>6 DEF pushSome, WillSettle
<1>7. QED  BY <1>1, <1>2, <1>3, <1>4, <1>5, <1>6 DEF jobStep

LEMMA WorldSettles ==
    ASSUME TypeOK, WillSettle,
           \/ wantTree \/ lockTree \/ steamEnds \/ beginRound \/ daemonRestarts
           \/ \E c \in Containers : pushRound(c) \/ serverTurns(c)
    PROVE  WillSettle'
<1> USE DEF jobVars, diskVars
<1>1. CASE wantTree \/ lockTree \/ steamEnds \/ beginRound
  BY <1>1 DEF wantTree, lockTree, steamEnds, steamUpdates, steamFails, beginRound, WillSettle
<1>2. CASE daemonRestarts
  BY <1>2 DEF daemonRestarts, WillSettle, Final
<1>3. ASSUME NEW c \in Containers, pushRound(c)
      PROVE  WillSettle'
  <2>1. <<c, Update>> \in Jobs
    BY DEF Jobs
  <2>2. QED  BY <1>3, <2>1, StillWorking DEF pushRound, Working, Places
<1>4. ASSUME NEW c \in Containers, serverTurns(c)
      PROVE  WillSettle'
  BY <1>4 DEF serverTurns, WillSettle
<1>5. QED  BY <1>1, <1>2, <1>3, <1>4

LEMMA NextSettles == TypeOK /\ QueueIsTheWaiters /\ WillSettle /\ [Next]_vars => WillSettle'
<1> SUFFICES ASSUME TypeOK, QueueIsTheWaiters, WillSettle, [Next]_vars PROVE WillSettle'
  OBVIOUS
<1>1. CASE UNCHANGED vars
  BY <1>1 DEF vars, jobVars, WillSettle
<1>2. CASE Next
  BY <1>2, JobSettles, WorldSettles DEF Next, eggConnected
<1>3. QED  BY <1>1, <1>2

(* In every behaviour a server without a job at work has a final status:   *)
(* no announcement of another job can leave it "queued", because announce  *)
(* marks only servers a job still waits for (announce, job).               *)
THEOREM StatusSettles == Spec => []IdleMeansSettled
<1>1. Init => WillSettle
  BY DEF Init, WillSettle, Final
<1>2. Spec => []WillSettle
  BY <1>1, NextSettles, TypeCorrect, QueueIsRight, PTL DEF Spec
<1>3. WillSettle => IdleMeansSettled
  BY DEF WillSettle, IdleMeansSettled, Working, Final
<1>4. QED  BY <1>2, <1>3, PTL

=============================================================================
