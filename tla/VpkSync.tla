------------------------------- MODULE VpkSync ------------------------------
(***************************************************************************)
(* The jobs of the vpksync module (internal/node/vpksync/module.go): one   *)
(* job per EggConnected event, one per running container after a central   *)
(* update, all of them goroutines that queue for a worker slot, lock their *)
(* volume, take the central install for reading, and verify or push.  The  *)
(* update loop takes the install for writing.                              *)
(*                                                                         *)
(* A build is a number; 0 is "no install".  A volume is two facts: the     *)
(* build its VPK files (or links) were last placed for, and the build of   *)
(* everything else, the server's binaries among it.                        *)
(***************************************************************************)
EXTENDS Naturals, Sequences, FiniteSets

CONSTANTS
    Containers,  \* the servers with a volume
    BootJobs,    \* bound: jobs of one server that EggConnected may start at once
    Workers,     \* max_workers
    MaxBuild,    \* bound: builds Valve ships
    NewNames,    \* the builds that bring a VPK file of a new name
    Links,       \* push_method is symlink (otherwise a copy per volume)
    SteamFails,  \* whether the node's SteamCMD may fail
    MaxRestarts, \* bound: daemon restarts
    NoJob        \* nobody holds a volume's lock

Update == "update"
Jobs   == Containers \X (BootJobs \cup {Update})
Mixed  == MaxBuild + 1     \* files of more than one build

ASSUME SyncAssumption ==
    /\ IsFiniteSet(Containers) /\ IsFiniteSet(BootJobs) /\ Update \notin BootJobs
    /\ Workers \in Nat \ {0}
    /\ MaxBuild \in Nat /\ NewNames \subseteq 1..MaxBuild
    /\ Links \in BOOLEAN /\ SteamFails \in BOOLEAN
    /\ MaxRestarts \in Nat
    /\ NoJob \notin Jobs

VARIABLES
    running,  \* containers the core knows
    central,  \* build of the central install
    torn,     \* a SteamCMD that failed left files of two builds in it
    tree,     \* its lock: "free", "wanted" by the update loop, or "writing"
    changed,  \* the update loop has a new build to push
    due,      \* containers the current round has still to start a job for
    readers,  \* jobs holding it for reading
    queue,    \* containers waiting for a worker slot, in order
    slots,    \* jobs holding a worker slot
    lock,     \* per volume, the job holding its lock
    pc,       \* where each job stands
    last,     \* the status the module keeps per container (m.last)
    vpks,     \* per volume, the build its VPKs were placed for
    rest,     \* per volume, the build of its other files
    restarts

jobVars  == <<queue, slots, lock, pc, last>>
diskVars == <<vpks, rest>>
vars == <<running, central, torn, tree, changed, due, readers, jobVars, diskVars, restarts>>

Statuses == {"none", "queued", "updating", "verifying", "pushing", "done", "failed"}

(* The places of a job.  It is in the queue from "announcing" to "slotted".*)
Places == {"idle", "announcing", "queued", "slotted", "dequeued", "ready", "locked",
           "blocked", "reading", "comparing", "pushing", "pushed", "ended", "unread", "unlocked"}
Waiting == {"announcing", "queued", "slotted"}
Slotted == Places \ {"idle", "announcing", "queued"}
Holding == {"locked", "blocked", "reading", "comparing", "pushing", "pushed", "ended", "unread"}
Reading == {"reading", "comparing", "pushing", "pushed", "ended"}

TypeOK ==
    /\ running \subseteq Containers
    /\ central \in 0..MaxBuild
    /\ torn \in BOOLEAN /\ changed \in BOOLEAN /\ due \subseteq Containers
    /\ tree \in {"free", "wanted", "writing"}
    /\ readers \subseteq Jobs
    /\ queue \in Seq(Containers)
    /\ slots \subseteq Jobs /\ Cardinality(slots) <= Workers
    /\ lock \in [Containers -> Jobs \cup {NoJob}]
    /\ pc \in [Jobs -> Places]
    /\ last \in [Containers -> Statuses]
    /\ vpks \in [Containers -> 0..MaxBuild]
    /\ rest \in [Containers -> 0..Mixed]
    /\ restarts \in 0..MaxRestarts

Init ==
    /\ running \in SUBSET Containers
    /\ central \in {0, 1} \cap 0..MaxBuild
    /\ torn = FALSE /\ tree = "free" /\ changed = FALSE /\ due = {} /\ readers = {}
    /\ queue = <<>> /\ slots = {}
    /\ lock = [c \in Containers |-> NoJob]
    /\ pc = [j \in Jobs |-> "idle"]
    /\ last = [c \in Containers |-> "none"]
    /\ vpks = [c \in Containers |-> 0] /\ rest = [c \in Containers |-> 0]
    /\ restarts = 0

Server(j) == j[1]
Forced(j) == j[2] = Update

At(j, from, to) == pc[j] = from /\ pc' = [pc EXCEPT ![j] = to]
Send(j, status) == last' = [last EXCEPT ![Server(j)] = status]

-----------------------------------------------------------------------------
(* job, up to the worker slot *)

(* enqueue, its first half. *)
Start(j) ==
    /\ At(j, "idle", "announcing")
    /\ queue' = Append(queue, Server(j))
    /\ UNCHANGED <<running, central, torn, tree, changed, due, readers, slots, lock, last, diskVars, restarts>>

eggConnected(j) == ~Forced(j) /\ Server(j) \in running /\ Start(j)

(* announce marks everyone in the queue as queued. *)
announce ==
    last' = [c \in Containers |->
               IF \E i \in DOMAIN queue : queue[i] = c THEN "queued" ELSE last[c]]

enqueued(j) ==
    /\ At(j, "announcing", "queued")
    /\ announce
    /\ UNCHANGED <<running, central, torn, tree, changed, due, readers, queue, slots, lock, diskVars, restarts>>

(* Mutant of takeSlot: the pool has no size. *)
takeAnySlot(j) ==
    /\ At(j, "queued", "slotted")
    /\ slots' = slots \cup {j}
    /\ UNCHANGED <<running, central, torn, tree, changed, due, readers, queue, lock, last, diskVars, restarts>>

takeSlot(j) ==
    /\ At(j, "queued", "slotted")
    /\ Cardinality(slots) < Workers
    /\ slots' = slots \cup {j}
    /\ UNCHANGED <<running, central, torn, tree, changed, due, readers, queue, lock, last, diskVars, restarts>>

(* Mutant of Without: every entry of the server goes. *)
WithoutAny(q, c) == SelectSeq(q, LAMBDA n : n # c)

(* dequeue takes the first entry of the job's server out of the queue. *)
Without(q, c) ==
    LET first == CHOOSE i \in DOMAIN q : q[i] = c /\ \A k \in DOMAIN q : q[k] = c => i <= k
    IN  [i \in 1..(Len(q) - 1) |-> IF i < first THEN q[i] ELSE q[i + 1]]

dequeue(j) ==
    /\ At(j, "slotted", "dequeued")
    /\ queue' = Without(queue, Server(j))
    /\ UNCHANGED <<running, central, torn, tree, changed, due, readers, slots, lock, last, diskVars, restarts>>

dequeued(j) ==
    /\ At(j, "dequeued", "ready")
    /\ announce
    /\ UNCHANGED <<running, central, torn, tree, changed, due, readers, queue, slots, lock, diskVars, restarts>>

-----------------------------------------------------------------------------
(* job, from the volume's lock to the status it ends with *)

lockVolume(j) ==
    /\ At(j, "ready", "locked")
    /\ lock[Server(j)] = NoJob
    /\ lock' = [lock EXCEPT ![Server(j)] = j]
    /\ UNCHANGED <<running, central, torn, tree, changed, due, readers, queue, slots, last, diskVars, restarts>>

(* A writer that waits for the install keeps new readers out. *)
tryRLock(j) ==
    /\ IF tree = "free"
       THEN /\ At(j, "locked", "reading")
            /\ readers' = readers \cup {j}
            /\ UNCHANGED last
       ELSE /\ At(j, "locked", "blocked")
            /\ Send(j, "updating")
            /\ UNCHANGED readers
    /\ UNCHANGED <<running, central, torn, tree, changed, due, queue, slots, lock, diskVars, restarts>>

(* Mutant of rLock: the job goes on after it said that it waits. *)
rLockBarges(j) ==
    /\ At(j, "blocked", "reading")
    /\ readers' = readers \cup {j}
    /\ UNCHANGED <<running, central, torn, tree, changed, due, queue, slots, lock, last, diskVars, restarts>>

rLock(j) ==
    /\ At(j, "blocked", "reading")
    /\ tree = "free"
    /\ readers' = readers \cup {j}
    /\ UNCHANGED <<running, central, torn, tree, changed, due, queue, slots, lock, last, diskVars, restarts>>

(* Without a central build there is nothing to push. *)
checkBuild(j) ==
    /\ IF central = 0
       THEN At(j, "reading", "ended") /\ Send(j, "failed")
       ELSE At(j, "reading", "comparing") /\ Send(j, "verifying")
    /\ UNCHANGED <<running, central, torn, tree, changed, due, readers, queue, slots, lock, diskVars, restarts>>

(* Verify looks at the VPK files only: a link is current when its name is  *)
(* there, a copy when it is as new as its source.                          *)
Verify(c) ==
    IF Links
    THEN vpks[c] # 0 /\ \A b \in NewNames : ~(vpks[c] < b /\ b <= central)
    ELSE vpks[c] = central

verify(j) ==
    /\ IF ~Forced(j) /\ Verify(Server(j))
       THEN At(j, "comparing", "ended") /\ Send(j, "done")
       ELSE At(j, "comparing", "pushing") /\ Send(j, "pushing")
    /\ UNCHANGED <<running, central, torn, tree, changed, due, readers, queue, slots, lock, diskVars, restarts>>

(* Push goes on after an error, and the daemon may die under it: the files *)
(* may have moved in part, VPKs and the rest independently.                *)
pushSome(j) ==
    /\ pc[j] = "pushing"
    /\ vpks' \in {vpks, [vpks EXCEPT ![Server(j)] = central]}
    /\ rest' \in {rest, [rest EXCEPT ![Server(j)] = IF @ = central THEN @ ELSE Mixed]}
    /\ UNCHANGED <<running, central, torn, tree, changed, due, readers, jobVars, restarts>>

(* A push is as whole as what it copied from. *)
pushAll(j) ==
    /\ At(j, "pushing", "pushed")
    /\ vpks' = [vpks EXCEPT ![Server(j)] = central]
    /\ rest' = [rest EXCEPT ![Server(j)] = IF tree = "writing" \/ torn THEN Mixed ELSE central]
    /\ UNCHANGED <<running, central, torn, tree, changed, due, readers, queue, slots, lock, last, restarts>>

pushFails(j) ==
    /\ At(j, "pushing", "ended")
    /\ Send(j, "failed")
    /\ UNCHANGED <<running, central, torn, tree, changed, due, readers, queue, slots, lock, diskVars, restarts>>

succeed(j) ==
    /\ At(j, "pushed", "ended")
    /\ Send(j, "done")
    /\ UNCHANGED <<running, central, torn, tree, changed, due, readers, queue, slots, lock, diskVars, restarts>>

(* The deferred unlocks, last taken first. *)
rUnlock(j) ==
    /\ At(j, "ended", "unread")
    /\ readers' = readers \ {j}
    /\ UNCHANGED <<running, central, torn, tree, changed, due, queue, slots, lock, last, diskVars, restarts>>

(* Mutant of unlockVolume: a return that skips it. *)
unlockVolumeForgets(j) ==
    /\ At(j, "unread", "unlocked")
    /\ UNCHANGED <<running, central, torn, tree, changed, due, readers, queue, slots, lock, last, diskVars, restarts>>

unlockVolume(j) ==
    /\ At(j, "unread", "unlocked")
    /\ lock' = [lock EXCEPT ![Server(j)] = NoJob]
    /\ UNCHANGED <<running, central, torn, tree, changed, due, readers, queue, slots, last, diskVars, restarts>>

freeSlot(j) ==
    /\ At(j, "unlocked", "idle")
    /\ slots' = slots \ {j}
    /\ UNCHANGED <<running, central, torn, tree, changed, due, readers, queue, lock, last, diskVars, restarts>>

-----------------------------------------------------------------------------
(* updateLoop: a check starts only when the jobs of the previous round are *)
(* through (wg.Wait).                                                      *)

RoundOver == ~changed /\ due = {} /\ \A j \in Jobs : Forced(j) => pc[j] = "idle"

wantTree ==
    /\ tree = "free" /\ RoundOver
    /\ tree' = "wanted"
    /\ UNCHANGED <<running, central, torn, changed, due, readers, jobVars, diskVars, restarts>>

(* Mutant of lockTree: RLock in its place. *)
lockTreeShared ==
    /\ tree = "wanted"
    /\ tree' = "writing"
    /\ UNCHANGED <<running, central, torn, changed, due, readers, jobVars, diskVars, restarts>>

lockTree ==
    /\ tree = "wanted" /\ readers = {}
    /\ tree' = "writing"
    /\ UNCHANGED <<running, central, torn, changed, due, readers, jobVars, diskVars, restarts>>

(* SteamCMD succeeds: the install is whole, of the same build or the next. *)
steamUpdates ==
    /\ tree = "writing"
    /\ tree' = "free" /\ torn' = FALSE
    /\ \/ central # 0 /\ UNCHANGED <<central, changed>>
       \/ /\ central < MaxBuild
          /\ central' = central + 1 /\ changed' = TRUE
    /\ UNCHANGED <<running, due, readers, jobVars, diskVars, restarts>>

(* SteamCMD fails, at any point of its work.  The build may have moved     *)
(* although nobody is told: the next check compares with it as it is now.  *)
steamFails ==
    /\ SteamFails /\ tree = "writing"
    /\ tree' = "free"
    /\ torn' \in {torn, TRUE}
    /\ \/ UNCHANGED central
       \/ central < MaxBuild /\ central' = central + 1
    /\ UNCHANGED <<running, changed, due, readers, jobVars, diskVars, restarts>>

(* A new build: every container the core knows by now gets a forced job. *)
beginRound ==
    /\ changed
    /\ changed' = FALSE /\ due' = running
    /\ UNCHANGED <<running, central, torn, tree, readers, jobVars, diskVars, restarts>>

pushRound(c) ==
    /\ c \in due
    /\ due' = due \ {c}
    /\ At(<<c, Update>>, "idle", "announcing")
    /\ queue' = Append(queue, c)
    /\ UNCHANGED <<running, central, torn, changed, tree, readers, slots, lock, last, diskVars, restarts>>

-----------------------------------------------------------------------------
(* The servers come and go, and so does the daemon: volumes and the        *)
(* central install are all that survives it.                               *)

serverTurns(c) ==
    /\ running' = IF c \in running THEN running \ {c} ELSE running \cup {c}
    /\ UNCHANGED <<central, torn, changed, due, tree, readers, jobVars, diskVars, restarts>>

daemonRestarts ==
    /\ restarts < MaxRestarts
    /\ restarts' = restarts + 1
    /\ tree' = "free" /\ changed' = FALSE /\ due' = {} /\ readers' = {}
    /\ torn' \in {torn, tree = "writing"}
    /\ queue' = <<>> /\ slots' = {}
    /\ lock' = [c \in Containers |-> NoJob]
    /\ pc' = [j \in Jobs |-> "idle"]
    /\ last' = [c \in Containers |-> "none"]
    /\ UNCHANGED <<running, central, diskVars>>

-----------------------------------------------------------------------------
jobStep(j) ==
    \/ enqueued(j) \/ takeSlot(j) \/ dequeue(j) \/ dequeued(j) \/ lockVolume(j)
    \/ tryRLock(j) \/ rLock(j) \/ checkBuild(j) \/ verify(j)
    \/ pushAll(j) \/ pushFails(j) \/ succeed(j)
    \/ rUnlock(j) \/ unlockVolume(j) \/ freeSlot(j)

steamEnds == steamUpdates \/ steamFails

Next ==
    \/ \E j \in Jobs : eggConnected(j) \/ jobStep(j) \/ pushSome(j)
    \/ wantTree \/ lockTree \/ steamEnds \/ beginRound
    \/ \E c \in Containers : pushRound(c) \/ serverTurns(c)
    \/ daemonRestarts

(* A job's goroutine runs, and the locks it waits for are handed over in   *)
(* turn: a channel send and a sync.Mutex serve their waiters in order, and *)
(* RWMutex.Unlock lets the waiting readers in before the next writer.      *)
(* SteamCMD is assumed to end.                                             *)
Fairness ==
    /\ \A j \in Jobs : SF_vars(jobStep(j))
    /\ WF_vars(lockTree) /\ WF_vars(steamEnds)

Spec == Init /\ [][Next]_vars /\ Fairness

-----------------------------------------------------------------------------
(* Properties *)

(* What the jobs and the update loop promise together: SharedTree, with a  *)
(* volume busy while a job of it holds the install for reading.            *)
Busy == {c \in Containers : \E j \in Jobs : Server(j) = c /\ pc[j] \in Reading}
Promise == INSTANCE SharedTree WITH Volumes <- Containers, busy <- Busy, updating <- tree = "writing"
KeepsPromise == Promise!Spec

(* The queue the eggs are told their position from holds every waiting job *)
(* and nobody else, although dequeue takes the first entry of the server   *)
(* and not the caller's own (enqueue, dequeue).                            *)
QueueIsTheWaiters ==
    \A c \in Containers :
        Cardinality({i \in DOMAIN queue : queue[i] = c})
          = Cardinality({j \in Jobs : Server(j) = c /\ pc[j] \in Waiting})

(* The status left behind is a final one: when no job of a server is at    *)
(* work, no announcement of another job may leave it "queued" (announce).  *)
IdleMeansSettled ==
    \A c \in Containers :
        (\A j \in Jobs : Server(j) = c => pc[j] = "idle") => last[c] \in {"none", "done", "failed"}

(* A push that succeeds leaves one build in the volume, the central one:   *)
(* it never copied from a tree SteamCMD was writing, nor lost a file to    *)
(* another push, unless a failed SteamCMD left the tree in pieces.         *)
PushedIsWhole ==
    \A j \in Jobs :
        pc[j] = "pushed" =>
            /\ vpks[Server(j)] = central
            /\ rest[Server(j)] = central \/ torn

(* Every job ends: neither the slots, the volume locks nor the central     *)
(* lock hold each other up, whatever order jobs and updates come in.       *)
EveryJobEnds == \A j \in Jobs : pc[j] # "idle" ~> pc[j] = "idle"

(* "pushes the new files into every volume": once the round of an update   *)
(* is over, a server that runs on a volume still of an older build is not  *)
(* told that its files are done (the containers of updateLoop, Verify).    *)
DoneIsUpToDate ==
    [][\A j \in Jobs :
          (/\ RoundOver /\ Server(j) \in running /\ rest[Server(j)] \in 1..MaxBuild
           /\ pc[j] = "comparing" /\ pc'[j] = "ended" /\ last'[Server(j)] = "done")
             => rest[Server(j)] = central]_vars
=============================================================================
