----------------------------- MODULE HostBlocks -----------------------------
(***************************************************************************)
(* The blocks of the host guard (internal/node/guard): the kernel's block  *)
(* set, the daemon's record of offenders, its file, and the commands that  *)
(* use both from a process of their own.                                   *)
(*                                                                         *)
(* Every egg's socket goroutine and the reader of the kernel log decide on *)
(* blocks, in three steps with nothing locked in between: Escalate counts  *)
(* the hit, FW.Block sets the timeout, Record keeps the reason.  A ticker  *)
(* flushes the records.  Times are what is left of a block and ages.       *)
(***************************************************************************)
EXTENDS Naturals, FiniteSets

CONSTANTS
    Sources,       \* addresses
    Eggs,          \* goroutines of block(): one per egg's connection
    Kernel,        \* the goroutine of onKmsg
    Requests,      \* minutes an egg may ask for
    StaticBan,     \* how long a static rule blocks
    MaxBan,        \* max_ban_minutes
    RepeatWindow,  \* repeat_window_hours
    MaxOffenders,  \* the cap on records
    BlockFails,    \* calls to nftables and writes of the file may fail
    Restarts       \* the daemon may stop, crash and start again

Deciders == Eggs \cup {Kernel}
Unblocked == 0
NoRecord == [count |-> 0, age |-> 0, left |-> 0, is |-> FALSE]

ASSUME BlocksAssumption ==
    /\ Kernel \notin Eggs /\ Sources # {}
    /\ MaxBan \in Nat \ {0} /\ StaticBan \in 1..MaxBan
    /\ Requests \subseteq Nat /\ RepeatWindow \in Nat
    /\ MaxOffenders \in Nat \ {0} /\ BlockFails \in BOOLEAN /\ Restarts \in BOOLEAN

VARIABLES
    table,     \* the nftables table is loaded
    blocked,   \* the block set: what is left, 0 is no element
    logged,    \* static blocks whose kernel log line is not read yet
    running,   \* the daemon runs
    seen,      \* o.seen in the daemon
    dirty,     \* o.dirty
    file,      \* offenders.json
    decider,   \* where each goroutine stands and what it decided
    tool,      \* a `cs2node block`: where it stands, its address, its o.seen
    told       \* history: addresses the daemon blocked and has the reason of,
               \* unless something excuses that it is lost

daemonVars == <<running, seen, dirty, decider>>
blocksVars == <<table, blocked, logged, daemonVars, file, tool, told>>

Offenders == [count : 0..3, age : 0..RepeatWindow + 1, left : 0..MaxBan, is : BOOLEAN]
Tables == [Sources -> Offenders]
Excused == [ip \in Sources |-> FALSE]
NoRecords == [ip \in Sources |-> NoRecord]
NoDecision == [at |-> "idle", ip |-> CHOOSE ip \in Sources : TRUE, minutes |-> 0, alone |-> TRUE]
NoTool == [at |-> "idle", ip |-> NoDecision.ip, o |-> NoRecords]

BlocksTypeOK ==
    /\ table \in BOOLEAN /\ running \in BOOLEAN /\ dirty \in BOOLEAN
    /\ blocked \in [Sources -> 0..MaxBan] /\ logged \subseteq Sources
    /\ seen \in Tables /\ file \in Tables
    /\ decider \in [Deciders -> [at : {"idle", "block", "record"}, ip : Sources,
                                 minutes : 0..MaxBan, alone : BOOLEAN]]
    /\ tool \in [at : {"idle", "record"}, ip : Sources, o : Tables]
    /\ told \in [Sources -> BOOLEAN]

BlocksInit ==
    /\ table = TRUE /\ running = TRUE /\ dirty = FALSE
    /\ blocked = [ip \in Sources |-> Unblocked] /\ logged = {}
    /\ seen = NoRecords /\ file = NoRecords
    /\ decider = [d \in Deciders |-> NoDecision]
    /\ tool = NoTool
    /\ told = Excused

-----------------------------------------------------------------------------
(* The records *)

Clamp(minutes) ==
    IF minutes = 0 THEN 1 ELSE IF minutes > MaxBan THEN MaxBan ELSE minutes

Listed(o) == {ip \in Sources : o[ip].is}
Lifted(o) == {ip \in Listed(o) : o[ip].left = 0}

(* The oldest records without a block go, down to three quarters. *)
Evictions(o) ==
    LET target == Cardinality(Listed(o)) - (MaxOffenders * 3) \div 4 IN
    {S \in SUBSET Lifted(o) :
        /\ Cardinality(S) = IF Cardinality(Lifted(o)) < target
                            THEN Cardinality(Lifted(o)) ELSE target
        /\ \A a \in S, b \in Lifted(o) \ S : o[a].age >= o[b].age}
Room(o) == IF Cardinality(Listed(o)) >= MaxOffenders THEN Evictions(o) ELSE {{}}
Without(o, S) == [ip \in Sources |-> IF ip \in S THEN NoRecord ELSE o[ip]]

Hit(rec) ==
    LET n == IF rec.is /\ rec.age <= RepeatWindow THEN rec.count ELSE 0 IN
    [rec EXCEPT !.count = IF n < 3 THEN n + 1 ELSE 3, !.age = 0, !.is = TRUE]

(* Mutant: a repeat is not clamped to max_ban_minutes. *)
LengthUnclamped(count, requested) ==
    CASE count = 1 -> requested [] count = 2 -> requested * 4 [] count = 3 -> MaxBan

Length(count, requested) ==
    Clamp(CASE count = 1 -> requested [] count = 2 -> requested * 4 [] count = 3 -> MaxBan)

Recorded(rec, minutes) ==
    [rec EXCEPT !.left = minutes, !.is = TRUE]

(* Mutant: a record goes with the repeat window, whatever it blocks. *)
StaleByAge(o) == {ip \in Listed(o) : o[ip].age > RepeatWindow}

(* save forgets what neither blocks nor counts any more. *)
Stale(o) == {ip \in Lifted(o) : o[ip].age > RepeatWindow}
save(o) == Without(o, Stale(o))

-----------------------------------------------------------------------------
(* The daemon decides *)

Overlaps(d, ip) == \E e \in Deciders \ {d} : decider[e].at # "idle" /\ decider[e].ip = ip

Escalate(d, ip, requested) ==
    /\ running /\ decider[d].at = "idle"
    /\ \E S \in Room(seen) :
          LET o == Without(seen, S) rec == Hit(o[ip]) IN
          /\ seen' = [o EXCEPT ![ip] = rec]
          /\ decider' = [e \in Deciders |->
                CASE e = d -> [at |-> IF d = Kernel /\ rec.count = 1 THEN "record" ELSE "block",
                               ip |-> ip, minutes |-> Length(rec.count, requested),
                               alone |-> ~Overlaps(d, ip)]
                  [] e # d /\ decider[e].at # "idle" /\ decider[e].ip = ip -> [decider[e] EXCEPT !.alone = FALSE]
                  [] OTHER -> decider[e]]
    /\ dirty' = TRUE

onHit(d, ip) ==
    /\ \E requested \in Requests : Escalate(d, ip, Clamp(requested))
    /\ UNCHANGED <<table, blocked, logged, running, file, tool, told>>

onKmsg(ip) ==
    /\ ip \in logged /\ logged' = logged \ {ip}
    /\ Escalate(Kernel, ip, StaticBan)
    /\ UNCHANGED <<table, blocked, running, file, tool, told>>

(* Delete, then add: a failed add leaves the address without a block. *)
fwBlock(ip, minutes) ==
    \/ table /\ blocked' = [blocked EXCEPT ![ip] = minutes]
    \/ table /\ BlockFails /\ blocked' = [blocked EXCEPT ![ip] = Unblocked]

(* block() gives up on an error; onKmsg records all the same. *)
applyBlock(d) ==
    LET ip == decider[d].ip
        then(failed) == decider' = [decider EXCEPT ![d] =
            IF failed /\ d # Kernel THEN NoDecision ELSE [@ EXCEPT !.at = "record"]]
    IN
    /\ decider[d].at = "block"
    /\ \/ /\ fwBlock(ip, decider[d].minutes)
          /\ told' = [told EXCEPT ![ip] = FALSE] /\ then(blocked'[ip] = Unblocked)
       \/ ~table /\ then(TRUE) /\ UNCHANGED <<blocked, told>>
    /\ UNCHANGED <<table, logged, running, seen, dirty, file, tool>>

Record(d) ==
    LET ip == decider[d].ip IN
    /\ decider[d].at = "record"
    /\ seen' = [seen EXCEPT ![ip] = Recorded(@, decider[d].minutes)]
    /\ dirty' = TRUE
    /\ decider' = [decider EXCEPT ![d] = NoDecision]
    /\ told' = [told EXCEPT ![ip] =
           decider[d].alone /\ blocked[ip] \in 1..decider[d].minutes]
    /\ UNCHANGED <<table, blocked, logged, running, file, tool>>

(* A write that fails is not repeated: dirty is reset before it. *)
Flush ==
    /\ running /\ dirty
    /\ seen' = save(seen) /\ dirty' = FALSE
    /\ \/ file' = save(seen) /\ UNCHANGED told
       \/ BlockFails /\ told' = Excused /\ UNCHANGED file
    /\ UNCHANGED <<table, blocked, logged, running, decider, tool>>

-----------------------------------------------------------------------------
(* The commands, each a process that loads the file when it starts *)

Reasoned(o, ip) == o[ip].left >= blocked[ip]

(* Load and FW.Block are one step: what the daemon does to the file in     *)
(* between, it can as well do after the block, with the same loss.         *)
toolBlocks(ip) ==
    /\ tool.at = "idle"
    /\ fwBlock(ip, MaxBan)
    /\ told' = [told EXCEPT ![ip] = FALSE]
    /\ tool' = IF blocked'[ip] # Unblocked THEN [at |-> "record", ip |-> ip, o |-> file] ELSE NoTool
    /\ UNCHANGED <<table, logged, daemonVars, file>>

(* Record and Flush write back what the command loaded: whatever the file  *)
(* got since is gone from it.                                              *)
toolRecords ==
    LET ip == tool.ip
        o == [tool.o EXCEPT ![ip] = Recorded(@, MaxBan)]
    IN
    /\ tool.at = "record"
    /\ file' = save(o)
    /\ told' = [i \in Sources |-> i # ip /\ Reasoned(save(o), i) /\ told[i]]
    /\ tool' = NoTool
    /\ UNCHANGED <<table, blocked, logged, daemonVars>>

(* An address that has no block is an error, and changes nothing. *)
fwUnblock(ip) == blocked[ip] # Unblocked /\ blocked' = [blocked EXCEPT ![ip] = Unblocked]
fwUnblockAll == blocked' = [ip \in Sources |-> Unblocked]

(* `cs2node unblock <ip>` or `all`: the records stay as they are. *)
Unblock ==
    /\ table
    /\ \/ \E ip \in Sources : fwUnblock(ip) /\ told' = [told EXCEPT ![ip] = FALSE]
       \/ fwUnblockAll /\ told' = Excused
    /\ UNCHANGED <<table, logged, daemonVars, file, tool>>

-----------------------------------------------------------------------------
(* The kernel, the clock and the daemon's life *)

(* A static rule blocks by itself; its log line is rate limited. *)
staticDrop(ip) ==
    /\ table /\ blocked[ip] = Unblocked
    /\ blocked' = [blocked EXCEPT ![ip] = StaticBan]
    /\ \/ running /\ logged' = logged \cup {ip}
       \/ UNCHANGED logged
    /\ UNCHANGED <<table, daemonVars, file, tool, told>>

(* Another tool flushes nftables; Run notices within a minute. *)
tableVanishes ==
    /\ table /\ table' = FALSE
    /\ blocked' = [ip \in Sources |-> Unblocked] /\ told' = Excused
    /\ UNCHANGED <<logged, daemonVars, file, tool>>

Apply ==
    /\ running /\ ~table /\ table' = TRUE
    /\ UNCHANGED <<blocked, logged, daemonVars, file, tool, told>>

(* Past the window Hit does not read the count, and it is forgotten here. *)
Aged(o) == [ip \in Sources |->
    IF ~o[ip].is THEN o[ip]
    ELSE [o[ip] EXCEPT !.count = IF o[ip].age < RepeatWindow THEN @ ELSE 0,
                       !.age = IF @ <= RepeatWindow THEN @ + 1 ELSE @,
                       !.left = IF @ > 0 THEN @ - 1 ELSE 0]]
timePassesBlocks ==
    /\ blocked' = [ip \in Sources |-> IF blocked[ip] > 0 THEN blocked[ip] - 1 ELSE 0]
    /\ seen' = Aged(seen) /\ file' = Aged(file) /\ tool' = [tool EXCEPT !.o = Aged(@)]
    /\ told' = [ip \in Sources |-> blocked[ip] > 1 /\ told[ip]]
    /\ UNCHANGED <<table, logged, running, dirty, decider>>

ends ==
    /\ Restarts /\ running /\ running' = FALSE
    /\ seen' = NoRecords /\ dirty' = FALSE /\ logged' = {}
    /\ decider' = [d \in Deciders |-> NoDecision]
    /\ UNCHANGED <<table, blocked, tool>>

(* Run flushes on its way out, by the time it took when it began.  The     *)
(* process does not wait for it: a stop can be as short as a crash.        *)
stops ==
    /\ ends
    /\ \/ \E S \in SUBSET Stale(seen) :
             file' = (IF dirty THEN Without(seen, S) ELSE file) /\ UNCHANGED told
       \/ BlockFails /\ dirty /\ told' = Excused /\ UNCHANGED file

crashes == ends /\ told' = (IF dirty THEN Excused ELSE told) /\ UNCHANGED file

starts ==
    /\ ~running /\ running' = TRUE
    /\ seen' = file /\ table' = TRUE
    /\ UNCHANGED <<blocked, logged, dirty, decider, file, tool, told>>

HostBlocksNext ==
    \/ \E ip \in Sources :
          \/ \E d \in Eggs : onHit(d, ip)
          \/ onKmsg(ip) \/ toolBlocks(ip) \/ staticDrop(ip)
    \/ \E d \in Deciders : applyBlock(d) \/ Record(d)
    \/ Flush \/ toolRecords \/ Unblock
    \/ tableVanishes \/ Apply \/ timePassesBlocks
    \/ stops \/ crashes \/ starts

HostBlocksSpec == BlocksInit /\ [][HostBlocksNext]_blocksVars

-----------------------------------------------------------------------------
(* docs/modules/guard.md: the record of a block the daemon applied "is     *)
(* kept for as long as the block lasts, across daemon restarts".  It holds *)
(* until one of these: two decisions on the address overlapped, a crash or *)
(* a failed write before the record was flushed, a command that wrote back *)
(* an older copy.                                                          *)
ReasonLasts ==
    \A ip \in Sources : told[ip] => Reasoned(IF running THEN seen ELSE file, ip)
=============================================================================
