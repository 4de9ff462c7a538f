---------------------------- MODULE GuardsProofs ----------------------------
(***************************************************************************)
(* Theorems about the four components of Guards, which share nothing: the  *)
(* host guard's blocks, the archives outside a volume, the addon cache and *)
(* the egg's guard.  The last two are about the four together.             *)
(***************************************************************************)
EXTENDS Guards, Least, FiniteSetTheorems, TLAPS

-----------------------------------------------------------------------------
(* HostBlocks: the reason of a block *)

(* What the file holds is what the daemon would load: without a change     *)
(* that is not flushed it has the reasons itself, and a daemon that is     *)
(* down has no change and no goroutine that decides.  An address with a    *)
(* reason told has a block, so that no static rule blocks it longer and    *)
(* nothing forgets its record.                                             *)
ReasonsKept ==
    /\ ReasonLasts
    /\ \A ip \in Sources : told[ip] => blocked[ip] > 0
    /\ ~dirty => \A ip \in Sources : told[ip] => Reasoned(file, ip)
    /\ ~running => ~dirty /\ \A d \in Deciders : decider[d].at = "idle"

BlocksInv == BlocksTypeOK /\ ReasonsKept

LEMMA ClampType == \A m \in Nat : Clamp(m) \in 1..MaxBan
  BY BlocksAssumption DEF Clamp

LEMMA WithoutType == \A o \in Tables, S \in SUBSET Sources : Without(o, S) \in Tables
  BY BlocksAssumption DEF Without, Tables, Offenders, NoRecord

LEMMA saveType == \A o \in Tables : save(o) \in Tables
  BY WithoutType DEF save, Stale, Lifted, Listed

(* What save forgets blocks nothing. *)
LEMMA saveKeeps == \A o \in Tables, ip \in Sources : save(o)[ip].left = o[ip].left
  BY DEF save, Without, Stale, Lifted, Listed, NoRecord

LEMMA RoomFacts ==
    ASSUME NEW o \in Tables, NEW S \in Room(o)
    PROVE  S \subseteq Sources /\ \A ip \in Sources : Without(o, S)[ip].left = o[ip].left
  BY DEF Room, Evictions, Lifted, Listed, Without, NoRecord

LEMMA HitType ==
    ASSUME NEW rec \in Offenders
    PROVE  /\ Hit(rec) \in Offenders /\ Hit(rec).count \in 1..3
           /\ Hit(rec).left = rec.left
<1> DEFINE n == IF rec.is /\ rec.age <= RepeatWindow THEN rec.count ELSE 0
           k == IF n < 3 THEN n + 1 ELSE 3
<1>1. n \in 0..3 /\ k \in 1..3
  BY DEF Offenders
<1>2. Hit(rec) = [rec EXCEPT !.count = k, !.age = 0, !.is = TRUE]
  BY DEF Hit
<1> HIDE DEF k
<1>3. Hit(rec) = [count |-> k, age |-> 0, left |-> rec.left, is |-> TRUE]
  BY <1>2 DEF Offenders
<1>4. 0 \in 0..RepeatWindow + 1 /\ k \in 0..3 /\ rec.left \in 0..MaxBan
  BY <1>1, BlocksAssumption DEF Offenders
<1>5. QED  BY <1>1, <1>3, <1>4 DEF Offenders

LEMMA LengthType == \A c \in 1..3, m \in 1..MaxBan : Length(c, m) \in 1..MaxBan
  BY ClampType, BlocksAssumption DEF Length

LEMMA RecordedType ==
    ASSUME NEW rec \in Offenders, NEW m \in 0..MaxBan
    PROVE  Recorded(rec, m) \in Offenders /\ Recorded(rec, m).left = m
  BY DEF Recorded, Offenders

LEMMA AgedType ==
    ASSUME NEW o \in Tables
    PROVE  /\ Aged(o) \in Tables
           /\ \A ip \in Sources : Aged(o)[ip].left >= o[ip].left - 1
<1>1. ASSUME NEW ip \in Sources
      PROVE  Aged(o)[ip] \in Offenders /\ Aged(o)[ip].left >= o[ip].left - 1
  <2>1. /\ o[ip] \in Offenders /\ o[ip].left \in 0..MaxBan /\ o[ip].age \in 0..RepeatWindow + 1
    BY <1>1 DEF Tables, Offenders
  <2>2. CASE ~o[ip].is
    <3>1. Aged(o)[ip] = o[ip]
      BY <2>2 DEF Aged
    <3>2. QED  BY <3>1, <2>1, BlocksAssumption
  <2>3. CASE o[ip].is
    <3>1. Aged(o)[ip] = [o[ip] EXCEPT !.count = IF o[ip].age < RepeatWindow THEN @ ELSE 0,
                                      !.age = IF @ <= RepeatWindow THEN @ + 1 ELSE @,
                                      !.left = IF @ > 0 THEN @ - 1 ELSE 0]
      BY <2>3 DEF Aged
    <3>2. (IF o[ip].age <= RepeatWindow THEN o[ip].age + 1 ELSE o[ip].age) \in 0..RepeatWindow + 1
      BY <2>1, BlocksAssumption
    <3>3. /\ (IF o[ip].left > 0 THEN o[ip].left - 1 ELSE 0) \in 0..MaxBan
          /\ (IF o[ip].left > 0 THEN o[ip].left - 1 ELSE 0) >= o[ip].left - 1
      BY <2>1, BlocksAssumption
    <3>4. (IF o[ip].age < RepeatWindow THEN o[ip].count ELSE 0) \in 0..3
      BY <2>1 DEF Offenders
    <3>5. QED  BY <2>1, <3>1, <3>2, <3>3, <3>4 DEF Offenders
  <2>4. QED  BY <2>2, <2>3
<1>2. DOMAIN Aged(o) = Sources
  BY DEF Aged
<1>3. Aged(o) = [ip \in Sources |-> Aged(o)[ip]]
  BY DEF Aged
<1>4. QED  BY <1>1, <1>3 DEF Tables

LEMMA NothingDecided ==
    /\ NoDecision \in [at : {"idle", "block", "record"}, ip : Sources,
                       minutes : 0..MaxBan, alone : BOOLEAN]
    /\ NoDecision.at = "idle" /\ NoDecision.ip \in Sources
    /\ NoRecords \in Tables
    /\ NoTool \in [at : {"idle", "record"}, ip : Sources, o : Tables]
<1>1. \E ip \in Sources : TRUE
  BY BlocksAssumption
<1>2. NoDecision.ip \in Sources
  BY <1>1 DEF NoDecision
<1>3. 0 \in 0..MaxBan /\ 0 \in 0..3 /\ 0 \in 0..RepeatWindow + 1
  BY BlocksAssumption
<1>4. NoRecords \in Tables
  BY <1>3 DEF NoRecords, NoRecord, Tables, Offenders
<1>5. QED  BY <1>2, <1>3, <1>4 DEF NoDecision, NoTool

LEMMA BlocksInitHolds == BlocksInit => BlocksInv
<1>1. ASSUME BlocksInit PROVE BlocksTypeOK
  <2>1. 0 \in 0..MaxBan
    BY BlocksAssumption
  <2>2. QED  BY <1>1, <2>1, NothingDecided DEF BlocksInit, BlocksTypeOK, Unblocked, Excused
<1>2. ASSUME BlocksInit PROVE ReasonsKept
  BY <1>2, NothingDecided DEF BlocksInit, ReasonsKept, ReasonLasts, Excused
<1>3. QED  BY <1>1, <1>2 DEF BlocksInv

(* Room evicts what blocks nothing, and a hit keeps what is left.          *)
LEMMA EscalateHolds ==
    ASSUME BlocksInv, NEW d \in Deciders, NEW ip \in Sources, NEW m \in 1..MaxBan,
           Escalate(d, ip, m), logged' \subseteq Sources,
           UNCHANGED <<table, blocked, running, file, tool, told>>
    PROVE  BlocksInv'
<1>1. BlocksTypeOK /\ ReasonsKept
  BY DEF BlocksInv
<1>2. PICK S \in Room(seen) :
         LET o == Without(seen, S) rec == Hit(o[ip]) IN
          /\ seen' = [o EXCEPT ![ip] = rec]
          /\ decider' = [e \in Deciders |->
                CASE e = d -> [at |-> IF d = Kernel /\ rec.count = 1 THEN "record" ELSE "block",
                               ip |-> ip, minutes |-> Length(rec.count, m),
                               alone |-> ~Overlaps(d, ip)]
                  [] e # d /\ decider[e].at # "idle" /\ decider[e].ip = ip -> [decider[e] EXCEPT !.alone = FALSE]
                  [] OTHER -> decider[e]]
  BY DEF Escalate
<1> DEFINE o == Without(seen, S)
           rec == Hit(o[ip])
<1>3. running /\ dirty'
  BY DEF Escalate
<1>4. o \in Tables /\ \A i \in Sources : o[i].left = seen[i].left
  BY <1>1, RoomFacts, WithoutType DEF BlocksTypeOK
<1>5. rec \in Offenders /\ rec.count \in 1..3 /\ rec.left = seen[ip].left
  BY <1>4, HitType DEF Tables
<1>6. seen' \in Tables /\ \A i \in Sources : seen'[i].left = seen[i].left
  BY <1>2, <1>4, <1>5 DEF Tables
<1>7. decider' \in [Deciders -> [at : {"idle", "block", "record"}, ip : Sources,
                                 minutes : 0..MaxBan, alone : BOOLEAN]]
  <2> DEFINE D == [at : {"idle", "block", "record"}, ip : Sources,
                   minutes : 0..MaxBan, alone : BOOLEAN]
  <2>1. Length(rec.count, m) \in 0..MaxBan
    BY <1>5, LengthType, BlocksAssumption
  <2>2. [at |-> IF d = Kernel /\ rec.count = 1 THEN "record" ELSE "block",
         ip |-> ip, minutes |-> Length(rec.count, m), alone |-> ~Overlaps(d, ip)] \in D
    BY <2>1 DEF Overlaps
  <2>3. \A e \in Deciders : decider[e] \in D
    BY <1>1 DEF BlocksTypeOK
  <2>4. \A c \in D : [c EXCEPT !.alone = FALSE] \in D
    OBVIOUS
  <2> HIDE DEF rec, o, D
  <2>5. \A e \in Deciders : decider'[e] \in D
    BY <1>2, <2>2, <2>3, <2>4 DEF rec, o
  <2>6. QED  BY <1>2, <2>5 DEF D
<1>8. BlocksTypeOK'
  BY <1>1, <1>6, <1>7 DEF BlocksTypeOK, Escalate
<1>9. ReasonsKept'
  BY <1>1, <1>3, <1>6 DEF ReasonsKept, ReasonLasts, Reasoned
<1>10. QED  BY <1>8, <1>9 DEF BlocksInv

(* What sets or clears the block of an address leaves no reason told.      *)
LEMMA fwBlockFacts ==
    ASSUME BlocksTypeOK, NEW ip \in Sources, NEW m \in 0..MaxBan, fwBlock(ip, m)
    PROVE  /\ blocked' \in [Sources -> 0..MaxBan]
           /\ \A i \in Sources : i # ip => blocked'[i] = blocked[i]
<1>1. 0 \in 0..MaxBan
  BY BlocksAssumption
<1>2. QED  BY <1>1 DEF fwBlock, BlocksTypeOK, Unblocked

LEMMA applyBlockHolds ==
    ASSUME BlocksInv, NEW d \in Deciders, applyBlock(d) PROVE BlocksInv'
<1>1. BlocksTypeOK /\ ReasonsKept
  BY DEF BlocksInv
<1> DEFINE ip == decider[d].ip
           D == [at : {"idle", "block", "record"}, ip : Sources,
                 minutes : 0..MaxBan, alone : BOOLEAN]
<1>2. ip \in Sources /\ decider[d].minutes \in 0..MaxBan /\ decider[d].at = "block" /\ decider[d] \in D
  BY <1>1 DEF BlocksTypeOK, applyBlock
<1>3. \E x \in {NoDecision, [decider[d] EXCEPT !.at = "record"]} : decider' = [decider EXCEPT ![d] = x]
  BY DEF applyBlock
<1>4. decider' \in [Deciders -> D]
  <2>1. NoDecision \in D /\ [decider[d] EXCEPT !.at = "record"] \in D
    BY <1>2, NothingDecided
  <2>2. QED  BY <1>1, <1>3, <2>1 DEF BlocksTypeOK
<1>5. \/ /\ fwBlock(ip, decider[d].minutes) /\ told' = [told EXCEPT ![ip] = FALSE]
      \/ UNCHANGED <<blocked, told>>
  BY DEF applyBlock
<1>6. UNCHANGED <<table, logged, running, seen, dirty, file, tool>>
  BY DEF applyBlock
<1>7. running
  BY <1>1, <1>2 DEF ReasonsKept
<1>8. CASE fwBlock(ip, decider[d].minutes) /\ told' = [told EXCEPT ![ip] = FALSE]
  <2>1. /\ blocked' \in [Sources -> 0..MaxBan]
        /\ \A i \in Sources : i # ip => blocked'[i] = blocked[i]
    BY <1>1, <1>2, <1>8, fwBlockFacts
  <2>2. told' \in [Sources -> BOOLEAN] /\ \A i \in Sources : told'[i] => i # ip /\ told[i]
    BY <1>1, <1>2, <1>8 DEF BlocksTypeOK
  <2> HIDE DEF ip
  <2>3. BlocksTypeOK'
    BY <1>1, <1>4, <1>6, <2>1, <2>2 DEF BlocksTypeOK
  <2>4. ReasonsKept'
    BY <1>1, <1>6, <1>7, <2>1, <2>2 DEF ReasonsKept, ReasonLasts, Reasoned
  <2>5. QED  BY <2>3, <2>4 DEF BlocksInv
<1>9. CASE UNCHANGED <<blocked, told>>
  <2>1. BlocksTypeOK'
    BY <1>1, <1>4, <1>6, <1>9 DEF BlocksTypeOK
  <2>2. ReasonsKept'
    BY <1>1, <1>6, <1>7, <1>9 DEF ReasonsKept, ReasonLasts, Reasoned
  <2>3. QED  BY <2>1, <2>2 DEF BlocksInv
<1>10. QED  BY <1>5, <1>8, <1>9

LEMMA RecordHolds ==
    ASSUME BlocksInv, NEW d \in Deciders, Record(d) PROVE BlocksInv'
<1>1. BlocksTypeOK /\ ReasonsKept
  BY DEF BlocksInv
<1> DEFINE ip == decider[d].ip
<1>2. /\ ip \in Sources /\ decider[d].minutes \in 0..MaxBan /\ decider[d].at = "record"
      /\ decider[d].alone \in BOOLEAN
  BY <1>1 DEF BlocksTypeOK, Record
<1>3. running
  BY <1>1, <1>2 DEF ReasonsKept
<1>4. seen[ip] \in Offenders
  BY <1>1, <1>2 DEF BlocksTypeOK, Tables
<1>5. /\ seen' \in Tables /\ seen'[ip].left = decider[d].minutes
      /\ \A i \in Sources : i # ip => seen'[i] = seen[i]
  <2>1. seen' = [seen EXCEPT ![ip] = Recorded(seen[ip], decider[d].minutes)]
    BY DEF Record
  <2>2. QED  BY <1>1, <1>2, <1>4, <2>1, RecordedType DEF BlocksTypeOK, Tables
<1>6. /\ told' \in [Sources -> BOOLEAN] /\ (told'[ip] => blocked[ip] \in 1..decider[d].minutes)
      /\ \A i \in Sources : i # ip => told'[i] = told[i]
  BY <1>1, <1>2 DEF BlocksTypeOK, Record
<1>7. dirty' = TRUE /\ decider' = [decider EXCEPT ![d] = NoDecision]
      /\ UNCHANGED <<table, blocked, logged, running, file, tool>>
  BY DEF Record
<1> HIDE DEF ip
<1>8. BlocksTypeOK'
  BY <1>1, <1>5, <1>6, <1>7, NothingDecided DEF BlocksTypeOK
<1>9. ReasonsKept'
  <2>1. ASSUME NEW i \in Sources, told'[i]
        PROVE  blocked'[i] > 0 /\ seen'[i].left >= blocked'[i]
    <3>1. CASE i = ip
      BY <1>2, <1>5, <1>6, <1>7, <2>1, <3>1
    <3>2. CASE i # ip
      BY <1>1, <1>3, <1>5, <1>6, <1>7, <2>1, <3>2 DEF ReasonsKept, ReasonLasts, Reasoned
    <3>3. QED  BY <3>1, <3>2
  <2>2. QED  BY <1>3, <1>7, <2>1 DEF ReasonsKept, ReasonLasts, Reasoned
<1>10. QED  BY <1>8, <1>9 DEF BlocksInv

LEMMA FlushHolds == ASSUME BlocksInv, Flush PROVE BlocksInv'
<1>1. BlocksTypeOK /\ ReasonsKept
  BY DEF BlocksInv
<1>2. /\ running /\ seen' = save(seen) /\ dirty' = FALSE
      /\ (file' = save(seen) /\ told' = told) \/ (told' = Excused /\ file' = file)
      /\ UNCHANGED <<table, blocked, logged, running, decider, tool>>
  BY DEF Flush
<1>3. save(seen) \in Tables /\ \A i \in Sources : save(seen)[i].left = seen[i].left
  BY <1>1, saveType, saveKeeps DEF BlocksTypeOK
<1>4. told' \in [Sources -> BOOLEAN] /\ \A i \in Sources : told'[i] => told[i] /\ file' = save(seen)
  BY <1>1, <1>2 DEF BlocksTypeOK, Excused
<1>5. BlocksTypeOK'
  BY <1>1, <1>2, <1>3, <1>4 DEF BlocksTypeOK
<1>6. ReasonsKept'
  BY <1>1, <1>2, <1>3, <1>4 DEF ReasonsKept, ReasonLasts, Reasoned
<1>7. QED  BY <1>5, <1>6 DEF BlocksInv

LEMMA toolBlocksHolds ==
    ASSUME BlocksInv, NEW ip \in Sources, toolBlocks(ip) PROVE BlocksInv'
<1>1. BlocksTypeOK /\ ReasonsKept
  BY DEF BlocksInv
<1>2. /\ blocked' \in [Sources -> 0..MaxBan]
      /\ \A i \in Sources : i # ip => blocked'[i] = blocked[i]
  <2>1. MaxBan \in 0..MaxBan
    BY BlocksAssumption
  <2>2. QED  BY <1>1, <2>1, fwBlockFacts DEF toolBlocks
<1>3. told' \in [Sources -> BOOLEAN] /\ \A i \in Sources : told'[i] => i # ip /\ told[i]
  BY <1>1 DEF toolBlocks, BlocksTypeOK
<1>4. tool' \in [at : {"idle", "record"}, ip : Sources, o : Tables]
  BY <1>1, NothingDecided DEF toolBlocks, BlocksTypeOK
<1>5. UNCHANGED <<table, logged, running, seen, dirty, decider, file>>
  BY DEF toolBlocks, daemonVars
<1>6. BlocksTypeOK'
  BY <1>1, <1>2, <1>3, <1>4, <1>5 DEF BlocksTypeOK
<1>7. ReasonsKept'
  BY <1>1, <1>2, <1>3, <1>5 DEF ReasonsKept, ReasonLasts, Reasoned
<1>8. QED  BY <1>6, <1>7 DEF BlocksInv

(* A command keeps told what the file it writes has.                       *)
LEMMA toolRecordsHolds == ASSUME BlocksInv, toolRecords PROVE BlocksInv'
<1>1. BlocksTypeOK /\ ReasonsKept
  BY DEF BlocksInv
<1> DEFINE ip == tool.ip
           o == [tool.o EXCEPT ![ip] = Recorded(@, MaxBan)]
<1>2. o \in Tables
  <2>1. ip \in Sources /\ tool.o \in Tables /\ tool.o[ip] \in Offenders
    BY <1>1 DEF BlocksTypeOK, Tables
  <2>2. MaxBan \in 0..MaxBan
    BY BlocksAssumption
  <2>3. Recorded(tool.o[ip], MaxBan) \in Offenders
    BY <2>1, <2>2, RecordedType
  <2>4. QED  BY <2>1, <2>3 DEF Tables
<1>3. /\ file' = save(o) /\ tool' = NoTool
      /\ told' = [i \in Sources |-> i # ip /\ Reasoned(save(o), i) /\ told[i]]
      /\ UNCHANGED <<table, blocked, logged, running, seen, dirty, decider>>
  BY DEF toolRecords, daemonVars
<1> HIDE DEF o
<1>4. save(o) \in Tables
  BY <1>2, saveType
<1>5. told' \in [Sources -> BOOLEAN] /\ \A i \in Sources : told'[i] => told[i] /\ Reasoned(file', i)
  BY <1>1, <1>3 DEF BlocksTypeOK, Reasoned
<1>6. BlocksTypeOK'
  BY <1>1, <1>3, <1>4, <1>5, NothingDecided DEF BlocksTypeOK
<1>7. ReasonsKept'
  BY <1>1, <1>3, <1>5 DEF ReasonsKept, ReasonLasts, Reasoned
<1>8. QED  BY <1>6, <1>7 DEF BlocksInv

(* An address that is not blocked has no reason told.                      *)
LEMMA KernelHolds ==
    ASSUME BlocksInv,
           Unblock \/ tableVanishes \/ Apply \/ \E ip \in Sources : staticDrop(ip)
    PROVE  BlocksInv'
<1>1. BlocksTypeOK /\ ReasonsKept /\ 0 \in 0..MaxBan /\ StaticBan \in 0..MaxBan
  BY BlocksAssumption DEF BlocksInv
<1>2. UNCHANGED <<running, seen, dirty, decider, file, tool>>
  BY DEF Unblock, tableVanishes, Apply, staticDrop, daemonVars
<1>3. table' \in BOOLEAN /\ logged' \subseteq Sources
  BY <1>1 DEF Unblock, tableVanishes, Apply, staticDrop, BlocksTypeOK
<1>4. /\ blocked' \in [Sources -> 0..MaxBan] /\ told' \in [Sources -> BOOLEAN]
      /\ \A i \in Sources : told'[i] => told[i] /\ blocked'[i] = blocked[i]
  <2>1. CASE Unblock
    <3>1. /\ told \in [Sources -> BOOLEAN]
          /\ blocked \in [Sources -> 0..MaxBan]
      BY <1>1 DEF BlocksTypeOK
    <3>2. CASE fwUnblockAll /\ told' = Excused
      BY <1>1, <3>2 DEF fwUnblockAll, Unblocked, Excused
    <3>3. ASSUME NEW ip \in Sources, fwUnblock(ip), told' = [told EXCEPT ![ip] = FALSE]
          PROVE  /\ blocked' \in [Sources -> 0..MaxBan] /\ told' \in [Sources -> BOOLEAN]
                 /\ \A i \in Sources : told'[i] => told[i] /\ blocked'[i] = blocked[i]
      BY <1>1, <3>1, <3>3 DEF fwUnblock, Unblocked
    <3>4. QED  BY <2>1, <3>2, <3>3 DEF Unblock
  <2>2. CASE tableVanishes
    BY <1>1, <2>2 DEF tableVanishes, BlocksTypeOK, Unblocked, Excused
  <2>3. CASE Apply
    BY <1>1, <2>3 DEF Apply, BlocksTypeOK
  <2>4. ASSUME NEW ip \in Sources, staticDrop(ip)
        PROVE  /\ blocked' \in [Sources -> 0..MaxBan] /\ told' \in [Sources -> BOOLEAN]
               /\ \A i \in Sources : told'[i] => told[i] /\ blocked'[i] = blocked[i]
    <3>1. ~told[ip]
      BY <1>1, <2>4 DEF staticDrop, ReasonsKept, Unblocked
    <3>2. QED  BY <1>1, <2>4, <3>1 DEF staticDrop, BlocksTypeOK
  <2>5. QED  BY <2>1, <2>2, <2>3, <2>4
<1>5. BlocksTypeOK'
  BY <1>1, <1>2, <1>3, <1>4 DEF BlocksTypeOK
<1>6. ReasonsKept'
  BY <1>1, <1>2, <1>4 DEF ReasonsKept, ReasonLasts, Reasoned
<1>7. QED  BY <1>5, <1>6 DEF BlocksInv

(* A record has as much left as its block when both grow older.            *)
LEMMA timePassesBlocksHolds == ASSUME BlocksInv, timePassesBlocks PROVE BlocksInv'
<1>1. BlocksTypeOK /\ ReasonsKept
  BY DEF BlocksInv
<1>2. /\ blocked' = [ip \in Sources |-> IF blocked[ip] > 0 THEN blocked[ip] - 1 ELSE 0]
      /\ seen' = Aged(seen) /\ file' = Aged(file) /\ tool' = [tool EXCEPT !.o = Aged(tool.o)]
      /\ told' = [ip \in Sources |-> blocked[ip] > 1 /\ told[ip]]
      /\ UNCHANGED <<table, logged, running, dirty, decider>>
  BY DEF timePassesBlocks
<1>3. /\ Aged(seen) \in Tables /\ Aged(file) \in Tables /\ Aged(tool.o) \in Tables
      /\ \A i \in Sources : /\ Aged(seen)[i].left >= seen[i].left - 1
                            /\ Aged(file)[i].left >= file[i].left - 1
  BY <1>1, AgedType DEF BlocksTypeOK
<1>4. \A i \in Sources : blocked[i] \in 0..MaxBan /\ blocked'[i] \in 0..MaxBan
  BY <1>1, <1>2, BlocksAssumption DEF BlocksTypeOK
<1>5. ASSUME NEW i \in Sources, told'[i]
      PROVE  told[i] /\ blocked[i] > 1 /\ blocked'[i] = blocked[i] - 1
  <2>1. told'[i] = (blocked[i] > 1 /\ told[i])
    BY <1>2
  <2>2. blocked[i] > 1 /\ told[i]
    BY <1>5, <2>1
  <2>3. QED  BY <1>2, <1>4, <2>2
<1>6. BlocksTypeOK'
  BY <1>1, <1>2, <1>3, <1>4 DEF BlocksTypeOK
<1>7. \A i \in Sources : told'[i] => blocked'[i] > 0
  BY <1>4, <1>5
<1>8. ASSUME NEW o \in {seen, file}, NEW i \in Sources, told'[i], Reasoned(o, i)
      PROVE  Aged(o)[i].left >= blocked'[i]
  <2>1. o \in Tables /\ o[i].left \in 0..MaxBan /\ Aged(o)[i].left \in 0..MaxBan
    BY <1>1, <1>3, <1>8 DEF BlocksTypeOK, Tables, Offenders
  <2>2. o[i].left >= blocked[i] /\ Aged(o)[i].left >= o[i].left - 1
    BY <1>3, <1>8 DEF Reasoned
  <2>3. QED  BY <1>4, <1>5, <1>8, <2>1, <2>2
<1>9. ReasonsKept'
  <2>1. ReasonLasts'
    BY <1>1, <1>2, <1>5, <1>8 DEF ReasonsKept, ReasonLasts, Reasoned
  <2>2. (~dirty => \A ip \in Sources : told[ip] => Reasoned(file, ip))'
    BY <1>1, <1>2, <1>5, <1>8 DEF ReasonsKept, Reasoned
  <2>3. QED  BY <1>1, <1>2, <1>7, <2>1, <2>2 DEF ReasonsKept
<1>10. QED  BY <1>6, <1>9 DEF BlocksInv

(* The flush on the way out may forget some of what blocks nothing.        *)
LEMMA EndHolds == ASSUME BlocksInv, stops \/ crashes PROVE BlocksInv'
<1>1. BlocksTypeOK /\ ReasonsKept
  BY DEF BlocksInv
<1>2. /\ running /\ running' = FALSE /\ seen' = NoRecords /\ dirty' = FALSE /\ logged' = {}
      /\ decider' = [d \in Deciders |-> NoDecision]
      /\ UNCHANGED <<table, blocked, tool>>
  BY DEF stops, crashes, ends
<1>3. /\ file' \in Tables /\ told' \in [Sources -> BOOLEAN]
      /\ \A i \in Sources : told'[i] => told[i] /\ Reasoned(file', i)
  <2>1. CASE told' = Excused
    <3>1. told' \in [Sources -> BOOLEAN] /\ \A i \in Sources : ~told'[i]
      BY <2>1 DEF Excused
    <3>2. file' = file \/ \E S \in SUBSET Stale(seen) : file' = Without(seen, S)
      BY DEF stops, crashes
    <3>3. seen \in Tables /\ file \in Tables /\ SUBSET Stale(seen) \subseteq SUBSET Sources
      BY <1>1 DEF Stale, Lifted, Listed, BlocksTypeOK
    <3>4. QED  BY <3>1, <3>2, <3>3, WithoutType
  <2>2. CASE ~dirty /\ told' = told /\ file' = file
    BY <1>1, <2>2 DEF BlocksTypeOK, ReasonsKept
  <2>3. ASSUME NEW S \in SUBSET Stale(seen), file' = Without(seen, S), told' = told
        PROVE  /\ file' \in Tables /\ told' \in [Sources -> BOOLEAN]
               /\ \A i \in Sources : told'[i] => told[i] /\ Reasoned(file', i)
    <3>1. S \in SUBSET Sources /\ seen \in Tables
      BY <1>1 DEF Stale, Lifted, Listed, BlocksTypeOK
    <3>2. \A i \in Sources : Without(seen, S)[i].left = seen[i].left
      BY <2>3 DEF Without, Stale, Lifted, Listed, NoRecord
    <3>3. QED  BY <1>1, <1>2, <2>3, <3>1, <3>2, WithoutType
                  DEF ReasonsKept, ReasonLasts, Reasoned, BlocksTypeOK
  <2>4. QED  BY <1>1, <2>1, <2>2, <2>3 DEF stops, crashes, BlocksTypeOK
<1>4. BlocksTypeOK'
  BY <1>1, <1>2, <1>3, NothingDecided DEF BlocksTypeOK
<1>5. ReasonsKept'
  BY <1>1, <1>2, <1>3, NothingDecided DEF ReasonsKept, ReasonLasts, Reasoned
<1>6. QED  BY <1>4, <1>5 DEF BlocksInv

LEMMA startsHolds == ASSUME BlocksInv, starts PROVE BlocksInv'
<1>1. BlocksTypeOK /\ ReasonsKept
  BY DEF BlocksInv
<1>2. BlocksTypeOK'
  BY <1>1 DEF starts, BlocksTypeOK
<1>3. ReasonsKept'
  BY <1>1 DEF starts, ReasonsKept, ReasonLasts, Reasoned
<1>4. QED  BY <1>2, <1>3 DEF BlocksInv

LEMMA BlocksStepHolds == BlocksInv /\ [HostBlocksNext]_blocksVars => BlocksInv'
<1> SUFFICES ASSUME BlocksInv, [HostBlocksNext]_blocksVars PROVE BlocksInv'
  OBVIOUS
<1>1. BlocksTypeOK /\ ReasonsKept
  BY DEF BlocksInv
<1>2. ASSUME NEW ip \in Sources, NEW d \in Eggs, onHit(d, ip) PROVE BlocksInv'
  <2>1. PICK requested \in Requests : Escalate(d, ip, Clamp(requested))
    BY <1>2 DEF onHit
  <2>2. Clamp(requested) \in 1..MaxBan /\ d \in Deciders
    BY ClampType, BlocksAssumption DEF Deciders
  <2>3. logged' \subseteq Sources /\ UNCHANGED <<table, blocked, running, file, tool, told>>
    BY <1>1, <1>2 DEF onHit, BlocksTypeOK
  <2>4. QED  BY <2>1, <2>2, <2>3, EscalateHolds
<1>3. ASSUME NEW ip \in Sources, onKmsg(ip) PROVE BlocksInv'
  <2>1. StaticBan \in 1..MaxBan /\ Kernel \in Deciders
    BY BlocksAssumption DEF Deciders
  <2>2. logged' \subseteq Sources /\ UNCHANGED <<table, blocked, running, file, tool, told>>
    BY <1>1, <1>3 DEF onKmsg, BlocksTypeOK
  <2>3. QED  BY <1>3, <2>1, <2>2, EscalateHolds DEF onKmsg
<1>4. CASE UNCHANGED blocksVars
  <2>1. BlocksTypeOK' /\ ReasonsKept'
    BY <1>1, <1>4 DEF blocksVars, daemonVars, BlocksTypeOK, ReasonsKept, ReasonLasts, Reasoned
  <2>2. QED  BY <2>1 DEF BlocksInv
<1>5. QED
  BY <1>2, <1>3, <1>4, applyBlockHolds, RecordHolds, FlushHolds, toolBlocksHolds, toolRecordsHolds,
     KernelHolds, timePassesBlocksHolds, EndHolds, startsHolds DEF HostBlocksNext

(* docs/modules/guard.md: the record of a block is "kept for as long as    *)
(* the block lasts, across daemon restarts", for any number of addresses,  *)
(* eggs and records, and any ban and window, unless two decisions on the   *)
(* address overlapped, the record was not flushed, or a command wrote back *)
(* an older copy.  The cap on records never evicts a block's reason.       *)
THEOREM ReasonsLast == HostBlocksSpec => []ReasonLasts
<1>1. BlocksInv => ReasonLasts
  BY DEF BlocksInv, ReasonsKept
<1>2. QED  BY <1>1, BlocksInitHolds, BlocksStepHolds, PTL DEF HostBlocksSpec

-----------------------------------------------------------------------------
(* Bundles: pruning *)

(* A run may remove the archive of a stamp: as many newer ones are listed  *)
(* as are kept, or it is too old.                                          *)
Doomed(t) ==
    \/ KeepCount > 0 /\ Cardinality(Newer(sidecars, t)) >= KeepCount
    \/ KeepDays > 0 /\ now - t > KeepDays

Writes(w) == writer[w].at \in {"write", "meta"}

(* What is listed without its archive, and what a prune still removes, is  *)
(* a victim for good: what it counted on is removed only as a victim of    *)
(* its own.  A run that writes has a stamp of its own, which no list shows *)
(* before its sidecar does.                                                *)
PruneInv ==
    /\ \A t \in sidecars : t <= now /\ (t \notin archives => Doomed(t))
    /\ \A w \in Writers :
          /\ writer[w].stamp <= now
          /\ \A t \in writer[w].rest : Doomed(t) /\ t < now
          /\ writer[w].at \in {"remove", "unlink"} => writer[w].stamp \in writer[w].rest
          /\ Writes(w) => writer[w].stamp \in Stamps \ sidecars
          /\ writer[w].at = "meta" => writer[w].stamp \in archives
    /\ \A v, w \in Writers :
          Writes(w) => /\ writer[w].stamp \notin writer[v].rest
                       /\ Writes(v) /\ writer[v].stamp = writer[w].stamp => v = w

BundlesInv == BundlesTypeOK /\ PruneInv

LEMMA NewerFinite ==
    ASSUME NEW S \in SUBSET Stamps, NEW t
    PROVE  /\ Newer(S, t) \in SUBSET Stamps /\ IsFiniteSet(Newer(S, t))
           /\ Cardinality(Newer(S, t)) \in Nat
<1>1. IsFiniteSet(Stamps)
  BY FS_Interval, BundlesAssumption DEF Stamps
<1>2. Newer(S, t) \in SUBSET Stamps
  BY DEF Newer
<1>3. QED  BY <1>1, <1>2, FS_Subset, FS_CardinalityType

LEMMA NewerGrows ==
    ASSUME NEW S \in SUBSET Stamps, NEW T \in SUBSET Stamps, NEW t, NEW u,
           Newer(S, t) \subseteq Newer(T, u)
    PROVE  Cardinality(Newer(S, t)) <= Cardinality(Newer(T, u))
  BY NewerFinite, FS_Subset

LEMMA MaxIsIn ==
    ASSUME NEW S \in SUBSET Stamps, S # {}
    PROVE  Max(S) \in S
<1> DEFINE Below == {MaxTime - x : x \in S}
<1>1. \A x \in S : x \in 1..MaxTime
  BY DEF Stamps
<1>2. Below \subseteq Nat /\ Below # {}
  BY <1>1, BundlesAssumption
<1>3. PICK b \in Below : \A c \in Below : b <= c
  <2> HIDE DEF Below
  <2>1. QED  BY <1>2, LeastExists
<1>4. PICK x \in S : b = MaxTime - x
  OBVIOUS
<1>5. ASSUME NEW y \in S
      PROVE  x >= y
  <2>1. MaxTime - x <= MaxTime - y
    BY <1>3, <1>4
  <2>2. x \in Nat /\ y \in Nat /\ MaxTime \in Nat
    BY <1>1, BundlesAssumption
  <2>3. QED  BY <2>1, <2>2
<1>6. QED  BY <1>5 DEF Max

(* The newest stamp there can be is no victim.                             *)
LEMMA DoomedIsOld ==
    ASSUME BundlesTypeOK, \A u \in sidecars : u <= now, NEW t \in Stamps, Doomed(t)
    PROVE  t < now
<1>1. now \in Nat /\ t \in Nat /\ KeepCount \in Nat /\ KeepDays \in Nat
  BY BundlesAssumption DEF BundlesTypeOK, Stamps
<1>2. CASE KeepDays > 0 /\ now - t > KeepDays
  BY <1>1, <1>2
<1>3. CASE KeepCount > 0 /\ Cardinality(Newer(sidecars, t)) >= KeepCount
  <2>1. Newer(sidecars, t) # {}
    <3>1. Cardinality({}) = 0
      BY FS_EmptySet
    <3>2. QED  BY <1>1, <1>3, <3>1
  <2>2. PICK u \in sidecars : u > t
    BY <2>1 DEF Newer
  <2>3. u <= now /\ u \in Nat
    BY DEF BundlesTypeOK, Stamps
  <2>4. QED  BY <1>1, <2>2, <2>3
<1>4. QED  BY <1>2, <1>3 DEF Doomed

LEMMA DoomedStays ==
    ASSUME BundlesTypeOK, NEW t \in Stamps, Doomed(t),
           sidecars \subseteq sidecars', sidecars' \subseteq Stamps,
           now' \in Stamps, now <= now'
    PROVE  Doomed(t)'
<1>1. /\ now \in Nat /\ now' \in Nat /\ t \in Nat /\ KeepCount \in Nat /\ KeepDays \in Nat
  BY BundlesAssumption DEF BundlesTypeOK, Stamps
<1>2. CASE KeepDays > 0 /\ now - t > KeepDays
  <2>1. \A m, n, k, d \in Nat : n - k > d /\ n <= m => m - k > d
    OBVIOUS
  <2>2. now' - t > KeepDays
    BY <1>1, <1>2, <2>1
  <2>3. QED  BY <1>2, <2>2 DEF Doomed
<1>3. CASE KeepCount > 0 /\ Cardinality(Newer(sidecars, t)) >= KeepCount
  <2>1. sidecars \in SUBSET Stamps /\ sidecars' \in SUBSET Stamps
    BY DEF BundlesTypeOK
  <2>2. Newer(sidecars, t) \subseteq Newer(sidecars', t)
    BY DEF Newer
  <2>3. /\ Cardinality(Newer(sidecars, t)) <= Cardinality(Newer(sidecars', t))
        /\ Cardinality(Newer(sidecars, t)) \in Nat /\ Cardinality(Newer(sidecars', t)) \in Nat
    BY <2>1, <2>2, NewerGrows, NewerFinite
  <2>4. Cardinality(Newer(sidecars', t)) >= KeepCount
    BY <1>1, <1>3, <2>3
  <2>5. QED  BY <1>3, <2>4 DEF Doomed
<1>4. QED  BY <1>2, <1>3 DEF Doomed

(* One victim less is no reason to keep another: the newer ones that the   *)
(* removed one counted on are newer than the other as well.                *)
LEMMA DoomedWithout ==
    ASSUME BundlesTypeOK, NEW t \in Stamps, Doomed(t), NEW u \in Stamps, Doomed(u),
           sidecars' = sidecars \ {u}, now' = now
    PROVE  Doomed(t)'
<1>1. /\ now \in Nat /\ t \in Nat /\ u \in Nat /\ KeepCount \in Nat /\ KeepDays \in Nat
  BY BundlesAssumption DEF BundlesTypeOK, Stamps
<1>2. sidecars \in SUBSET Stamps /\ sidecars' \in SUBSET Stamps
  BY DEF BundlesTypeOK
<1>3. \A s \in Stamps : /\ Cardinality(Newer(sidecars, s)) \in Nat
                        /\ Cardinality(Newer(sidecars', s)) \in Nat
  BY <1>2, NewerFinite
<1>4. CASE KeepDays > 0 /\ now - t > KeepDays
  BY <1>4 DEF Doomed
<1>5. CASE KeepCount > 0 /\ Cardinality(Newer(sidecars, t)) >= KeepCount
  <2>1. CASE ~(t < u)
    <3>1. Newer(sidecars, t) \subseteq Newer(sidecars', t)
      BY <1>1, <2>1 DEF Newer
    <3>2. Cardinality(Newer(sidecars, t)) <= Cardinality(Newer(sidecars', t))
      BY <1>2, <3>1, NewerGrows
    <3>3. QED  BY <1>1, <1>3, <1>5, <3>2 DEF Doomed
  <2>2. CASE t < u /\ KeepDays > 0 /\ now - u > KeepDays
    <3>1. now - t > KeepDays
      BY <1>1, <2>2
    <3>2. QED  BY <2>2, <3>1 DEF Doomed
  <2>3. CASE t < u /\ KeepCount > 0 /\ Cardinality(Newer(sidecars, u)) >= KeepCount
    <3>1. \A s \in sidecars : s \in Nat
      BY <1>2 DEF Stamps
    <3>2. Newer(sidecars, u) \subseteq Newer(sidecars', t)
      BY <1>1, <2>3, <3>1 DEF Newer
    <3>3. Cardinality(Newer(sidecars, u)) <= Cardinality(Newer(sidecars', t))
      BY <1>2, <3>2, NewerGrows
    <3>4. QED  BY <1>1, <1>3, <2>3, <3>3 DEF Doomed
  <2>4. QED  BY <2>1, <2>2, <2>3 DEF Doomed
<1>6. QED  BY <1>4, <1>5 DEF Doomed

(* What a step leaves of the sidecars and the clock keeps victims victims. *)
LEMMA SameVictims ==
    ASSUME UNCHANGED <<now, sidecars>>, NEW t
    PROVE  Doomed(t)' = Doomed(t)
  BY DEF Doomed, Newer

LEMMA BundlesInitHolds == BundlesInit => BundlesInv
<1> SUFFICES ASSUME BundlesInit PROVE BundlesInv
  OBVIOUS
<1>1. 1 \in Stamps /\ 0 <= 1
  BY BundlesAssumption DEF Stamps
<1>2. BundlesTypeOK
  BY <1>1 DEF BundlesInit, BundlesTypeOK, NoRun, NoRestore
<1>3. PruneInv
  BY <1>1 DEF BundlesInit, PruneInv, NoRun, NoStamp, Writes
<1>4. QED  BY <1>2, <1>3 DEF BundlesInv

Runs == [at : {"idle", "write", "meta", "prune", "remove", "unlink"},
         stamp : Stamps \cup {NoStamp}, rest : SUBSET Stamps]

(* A step of one writer, w, that lists nothing and takes nothing off.      *)
LEMMA WriterHolds ==
    ASSUME BundlesInv, NEW w \in Writers,
           NEW r \in Runs,
           writer' = [writer EXCEPT ![w] = r],
           UNCHANGED <<now, sidecars, server, restore, volume>>,
           partial' \subseteq Stamps, archives' \subseteq Stamps,
           \A t \in sidecars : t \in archives => t \in archives' \/ Doomed(t),
           \A v \in Writers : v # w /\ writer[v].at = "meta" => writer[v].stamp \in archives',
           r.stamp <= now,
           \A t \in r.rest : Doomed(t) /\ t < now,
           \A v \in Writers : v # w /\ Writes(v) => writer[v].stamp \notin r.rest,
           r.at \in {"remove", "unlink"} => r.stamp \in r.rest,
           r.at = "meta" => r.stamp \in archives',
           r.at \in {"write", "meta"} =>
              /\ r.stamp \in Stamps \ sidecars /\ r.stamp \notin r.rest
              /\ \A v \in Writers \ {w} :
                    /\ r.stamp \notin writer[v].rest
                    /\ Writes(v) => writer[v].stamp # r.stamp
    PROVE  BundlesInv'
<1>1. BundlesTypeOK /\ PruneInv
  BY DEF BundlesInv
<1>2. /\ \A v \in Writers : writer'[v] = IF v = w THEN r ELSE writer[v]
      /\ \A t : Doomed(t)' = Doomed(t)
  BY <1>1, SameVictims DEF BundlesTypeOK
<1>3. BundlesTypeOK'
  BY <1>1 DEF BundlesTypeOK, Runs
<1>4. \A t \in sidecars' : t <= now' /\ (t \notin archives' => Doomed(t)')
  BY <1>1, <1>2 DEF PruneInv
<1>5. \A v \in Writers :
          /\ writer'[v].stamp <= now'
          /\ \A t \in writer'[v].rest : Doomed(t)' /\ t < now'
          /\ writer'[v].at \in {"remove", "unlink"} => writer'[v].stamp \in writer'[v].rest
          /\ Writes(v)' => writer'[v].stamp \in Stamps \ sidecars'
          /\ writer'[v].at = "meta" => writer'[v].stamp \in archives'
  BY <1>1, <1>2 DEF PruneInv, Writes
<1>6. \A u, v \in Writers :
          Writes(v)' => /\ writer'[v].stamp \notin writer'[u].rest
                        /\ Writes(u)' /\ writer'[u].stamp = writer'[v].stamp => u = v
  BY <1>1, <1>2 DEF PruneInv, Writes
<1>7. PruneInv'
  BY <1>4, <1>5, <1>6 DEF PruneInv
<1>8. QED  BY <1>3, <1>7 DEF BundlesInv

LEMMA WriterFacts ==
    ASSUME BundlesTypeOK
    PROVE  /\ \A w \in Writers :
                /\ writer[w] \in Runs
                /\ writer[w].stamp \in Stamps \cup {0} /\ writer[w].rest \in SUBSET Stamps
           /\ NoRun \in Runs /\ NoRun.at = "idle" /\ NoRun.stamp = 0 /\ NoRun.rest = {}
           /\ now \in Stamps /\ now \in Nat /\ 0 <= now
  BY DEF BundlesTypeOK, NoRun, NoStamp, Stamps, Runs

(* A step of a run that changes its place alone.                           *)
LEMMA RunGoesOn ==
    ASSUME NEW rec \in Runs, NEW at \in {"idle", "write", "meta", "prune", "remove", "unlink"}
    PROVE  /\ [rec EXCEPT !.at = at] \in Runs /\ [rec EXCEPT !.at = at].at = at
           /\ [rec EXCEPT !.at = at].stamp = rec.stamp /\ [rec EXCEPT !.at = at].rest = rec.rest
  BY DEF Runs

LEMMA OthersFacts ==
    ASSUME BundlesInv
    PROVE  /\ partial \subseteq Stamps /\ archives \subseteq Stamps
           /\ \A w \in Writers : /\ writer[w].stamp <= now
                                 /\ \A t \in writer[w].rest : Doomed(t) /\ t < now
                                 /\ writer[w].at = "meta" => writer[w].stamp \in archives
           /\ \A v, w \in Writers : Writes(v) => writer[v].stamp \notin writer[w].rest
           /\ \A v \in Writers : Writes(v) => writer[v].stamp \notin sidecars
  BY DEF BundlesInv, BundlesTypeOK, PruneInv

(* The stamp of a new run is nobody's yet.                                 *)
LEMMA ArchiveHolds ==
    ASSUME BundlesInv, NEW w \in Writers, Archive(w) PROVE BundlesInv'
<1>1. BundlesTypeOK /\ PruneInv
  BY DEF BundlesInv
<1> DEFINE r == [at |-> "write", stamp |-> now, rest |-> {}]
<1>2. writer' = [writer EXCEPT ![w] = r]
  <2>1. writer' = [writer EXCEPT ![w] = [writer[w] EXCEPT !.at = "write", !.stamp = now]]
    BY DEF Archive
  <2> DEFINE m == [NoRun EXCEPT !.at = "write"]
  <2>2. m = [at |-> "write", stamp |-> NoStamp, rest |-> {}]
    BY DEF NoRun
  <2> HIDE DEF m
  <2>3. [m EXCEPT !.stamp = now] = r
    BY <2>2
  <2>4. QED  BY <2>1, <2>3 DEF Archive, m
<1>3. /\ partial' \subseteq Stamps /\ now \notin archives
      /\ \A v \in Writers : writer[v].stamp # now
      /\ UNCHANGED <<now, archives, sidecars, server, restore, volume>>
  BY <1>1 DEF Archive, Volume, BundlesTypeOK
<1>4. ~Doomed(now) /\ \A v \in Writers : now \notin writer[v].rest
  <2>1. now \in Stamps /\ now \in Nat /\ \A u \in sidecars : u <= now
    BY <1>1, WriterFacts DEF PruneInv
  <2>2. ~Doomed(now)
    BY <1>1, <2>1, DoomedIsOld
  <2>3. QED  BY <1>1, <2>2 DEF PruneInv
<1>5. now \notin sidecars
  BY <1>1, <1>3, <1>4 DEF PruneInv
<1>6. r \in Runs /\ r.stamp <= now
  BY <1>1, WriterFacts DEF Runs
<1>7. archives \subseteq Stamps /\ \A v \in Writers : writer[v].at = "meta" => writer[v].stamp \in archives
  BY <1>1 DEF BundlesTypeOK, PruneInv
<1>8. now \in Stamps /\ \A v \in Writers \ {w} :
         /\ r.stamp \notin writer[v].rest
         /\ Writes(v) => writer[v].stamp # r.stamp
  BY <1>1, <1>3, <1>4, WriterFacts
<1>9. QED  BY <1>2, <1>3, <1>5, <1>6, <1>7, <1>8, WriterHolds

LEMMA RenameHolds ==
    ASSUME BundlesInv, NEW w \in Writers, Rename(w) PROVE BundlesInv'
<1>1. BundlesTypeOK /\ PruneInv
  BY DEF BundlesInv
<1> DEFINE r == [writer[w] EXCEPT !.at = "meta"]
<1>2. /\ writer' = [writer EXCEPT ![w] = r]
      /\ r \in Runs /\ r.at = "meta" /\ r.stamp = writer[w].stamp /\ r.rest = writer[w].rest
  BY <1>1, WriterFacts, RunGoesOn DEF Rename
<1> HIDE DEF r
<1>3. /\ partial' = partial \ {writer[w].stamp} /\ archives' = archives \cup {writer[w].stamp}
      /\ UNCHANGED <<now, sidecars, server, restore, volume>> /\ writer[w].at = "write"
  BY DEF Rename, Volume
<1>4. Writes(w)
  BY <1>3 DEF Writes
<1>5. writer[w].stamp \in Stamps \ sidecars /\ archives' \subseteq Stamps /\ partial' \subseteq Stamps
  BY <1>1, <1>3, <1>4 DEF BundlesTypeOK, PruneInv
<1>6. \A v \in Writers \ {w} :
         /\ writer[w].stamp \notin writer[v].rest
         /\ Writes(v) => writer[v].stamp # writer[w].stamp
  BY <1>1, <1>4 DEF PruneInv
<1>7. /\ r.stamp \in archives' /\ r.stamp <= now
      /\ \A v \in Writers : writer[v].at = "meta" => writer[v].stamp \in archives'
      /\ \A t \in r.rest : Doomed(t) /\ t < now
      /\ \A v \in Writers : Writes(v) => writer[v].stamp \notin r.rest
      /\ \A t \in sidecars : t \in archives => t \in archives'
  BY <1>2, <1>3, OthersFacts
<1>8. r.stamp \in Stamps \ sidecars /\ r.stamp \notin r.rest
  BY <1>2, <1>4, <1>5, <1>7
<1>9. \A v \in Writers \ {w} :
         /\ r.stamp \notin writer[v].rest
         /\ Writes(v) => writer[v].stamp # r.stamp
  BY <1>2, <1>6
<1>10. QED  BY <1>2, <1>3, <1>5, <1>7, <1>8, <1>9, WriterHolds

(* Both a run whose sidecar failed and one that goes on with a prune.      *)
LEMMA FailsHolds ==
    ASSUME BundlesInv, NEW w \in Writers, backupFails(w) \/ bundleFails(w) \/ dies(w)
    PROVE  BundlesInv'
<1>1. BundlesTypeOK /\ PruneInv
  BY DEF BundlesInv
<1> DEFINE r == [writer[w] EXCEPT !.at = "prune"]
<1>2. \E x \in {r, NoRun} : writer' = [writer EXCEPT ![w] = x]
  BY DEF backupFails, bundleFails, dies
<1>3. /\ partial' \subseteq partial
      /\ UNCHANGED <<now, archives, sidecars, server, restore, volume>>
  BY DEF backupFails, bundleFails, dies, Volume, Files
<1>4. PICK x \in {r, NoRun} : writer' = [writer EXCEPT ![w] = x]
  BY <1>2
<1>5. /\ x \in Runs /\ x.at \in {"idle", "prune"}
      /\ x.stamp <= now /\ x.rest \subseteq writer[w].rest
  <2>1. CASE x = r
    <3>1. r \in Runs /\ r.at = "prune" /\ r.stamp = writer[w].stamp /\ r.rest = writer[w].rest
      BY <1>1, WriterFacts, RunGoesOn
    <3>2. QED  BY <2>1, <3>1, OthersFacts
  <2>2. CASE x = NoRun
    BY <1>1, <2>2, WriterFacts
  <2>3. QED  BY <2>1, <2>2
<1> HIDE DEF r
<1>6. /\ partial' \subseteq Stamps /\ archives' \subseteq Stamps
      /\ \A t \in sidecars : t \in archives => t \in archives' \/ Doomed(t)
      /\ \A v \in Writers : v # w /\ writer[v].at = "meta" => writer[v].stamp \in archives'
  BY <1>3, OthersFacts
<1>7. /\ x.at # "remove" /\ x.at # "unlink" /\ x.at # "meta" /\ x.at # "write"
      /\ x \in Runs /\ x.stamp <= now
  BY <1>5
<1>8. /\ \A t \in x.rest : Doomed(t) /\ t < now
      /\ \A v \in Writers : v # w /\ Writes(v) => writer[v].stamp \notin x.rest
  BY <1>5, OthersFacts
<1>9. UNCHANGED <<now, sidecars, server, restore, volume>>
  BY <1>3
<1>10. QED  BY <1>4, <1>6, <1>7, <1>8, <1>9, WriterHolds

LEMMA PruneListHolds ==
    ASSUME BundlesInv, NEW w \in Writers, PruneList(w) PROVE BundlesInv'
<1>1. BundlesTypeOK /\ PruneInv
  BY DEF BundlesInv
<1> DEFINE V == Victims(sidecars)
           r == [at |-> "remove", stamp |-> Max(V), rest |-> V]
           x == IF V = {} THEN NoRun ELSE r
<1>2. /\ writer' = [writer EXCEPT ![w] = x]
      /\ UNCHANGED <<now, partial, archives, sidecars, server, restore, volume>>
  BY DEF PruneList, Files, Volume
<1>3. V \subseteq sidecars /\ V \in SUBSET Stamps /\ \A t \in V : Doomed(t)
  BY <1>1 DEF Victims, Doomed, BundlesTypeOK
<1>4. \A t \in V : t \in Stamps /\ t < now
  <2>1. \A u \in sidecars : u <= now
    BY <1>1 DEF PruneInv
  <2>2. QED  BY <1>1, <1>3, <2>1, DoomedIsOld
<1> HIDE DEF V
<1>5. V # {} => Max(V) \in V
  BY <1>3, MaxIsIn
<1>6. V # {} => Max(V) \in Stamps /\ Max(V) <= now
  <2>1. ASSUME NEW t \in V PROVE t <= now
    BY <1>1, <1>4, WriterFacts DEF Stamps
  <2>2. QED  BY <1>4, <1>5, <2>1
<1>7. /\ x \in Runs /\ x.at \in {"idle", "remove"}
      /\ x.stamp <= now /\ x.rest \subseteq V
      /\ x.at = "remove" => x.stamp \in x.rest
  BY <1>1, <1>3, <1>5, <1>6, WriterFacts DEF Runs
<1> HIDE DEF x
<1>8. \A t \in x.rest : Doomed(t) /\ t < now /\ t \in sidecars
  BY <1>3, <1>4, <1>7
<1>9. QED  BY <1>2, <1>7, <1>8, OthersFacts, WriterHolds

LEMMA RemoveArchiveHolds ==
    ASSUME BundlesInv, NEW w \in Writers, RemoveArchive(w) PROVE BundlesInv'
<1>1. BundlesTypeOK /\ PruneInv
  BY DEF BundlesInv
<1> DEFINE r == [writer[w] EXCEPT !.at = "unlink"]
<1>2. /\ writer' = [writer EXCEPT ![w] = r]
      /\ r \in Runs /\ r.at = "unlink" /\ r.stamp = writer[w].stamp /\ r.rest = writer[w].rest
  BY <1>1, WriterFacts, RunGoesOn DEF RemoveArchive
<1> HIDE DEF r
<1>3. /\ archives' = archives \ {writer[w].stamp} /\ writer[w].at = "remove"
      /\ UNCHANGED <<now, partial, sidecars, server, restore, volume>>
  BY DEF RemoveArchive, Volume
<1>4. writer[w].stamp \in writer[w].rest /\ Doomed(writer[w].stamp)
  BY <1>1, <1>3 DEF PruneInv
<1>5. \A v \in Writers : writer[v].at = "meta" => writer[v].stamp \in archives'
  BY <1>1, <1>3, <1>4 DEF PruneInv, Writes
<1>6. QED  BY <1>2, <1>3, <1>4, <1>5, OthersFacts, WriterHolds

(* The sidecar shows the stamp of a run, which has its archive.            *)
LEMMA WriteMetaHolds ==
    ASSUME BundlesInv, NEW w \in Writers, WriteMeta(w) PROVE BundlesInv'
<1>1. BundlesTypeOK /\ PruneInv
  BY DEF BundlesInv
<1> DEFINE r == [writer[w] EXCEPT !.at = "prune"]
           t0 == writer[w].stamp
<1>2. /\ writer' = [writer EXCEPT ![w] = r]
      /\ r \in Runs /\ r.at = "prune" /\ r.stamp = t0 /\ r.rest = writer[w].rest
  BY <1>1, WriterFacts, RunGoesOn DEF WriteMeta
<1> HIDE DEF r
<1>3. /\ sidecars' \in {sidecars, sidecars \cup {t0}} /\ writer[w].at = "meta" /\ Writes(w)
      /\ UNCHANGED <<now, partial, archives, server, restore, volume>>
  BY DEF WriteMeta, Volume, Writes
<1>4. t0 \in Stamps /\ t0 \in archives /\ t0 <= now
  BY <1>1, <1>3 DEF PruneInv
<1>5. sidecars \subseteq sidecars' /\ sidecars' \subseteq Stamps
  BY <1>1, <1>3, <1>4 DEF BundlesTypeOK
<1>6. \A v \in Writers : writer'[v] = IF v = w THEN r ELSE writer[v]
  BY <1>1, <1>2 DEF BundlesTypeOK
<1>7. BundlesTypeOK'
  BY <1>1, <1>2, <1>3, <1>5 DEF BundlesTypeOK, Runs
<1>8. \A t \in Stamps : Doomed(t) => Doomed(t)'
  <2>1. now' \in Stamps /\ now <= now'
    BY <1>1, <1>3, WriterFacts DEF Stamps
  <2>2. QED  BY <1>1, <1>5, <2>1, DoomedStays
<1>9. \A t \in sidecars' : t <= now' /\ (t \notin archives' => Doomed(t)')
  BY <1>1, <1>3, <1>4, <1>5, <1>8 DEF PruneInv
<1>10. \A v \in Writers : Writes(v)' <=> v # w /\ Writes(v)
  BY <1>2, <1>6 DEF Writes
<1>11. \A v \in Writers : v # w /\ Writes(v) => writer[v].stamp # t0
  BY <1>1, <1>3 DEF PruneInv
<1>12. ASSUME NEW v \in Writers
       PROVE  /\ writer'[v].stamp <= now'
              /\ \A t \in writer'[v].rest : Doomed(t)' /\ t < now'
              /\ writer'[v].at \in {"remove", "unlink"} => writer'[v].stamp \in writer'[v].rest
              /\ Writes(v)' => writer'[v].stamp \in Stamps \ sidecars'
              /\ writer'[v].at = "meta" => writer'[v].stamp \in archives'
  <2>1. writer'[v].stamp = writer[v].stamp /\ writer'[v].rest = writer[v].rest
    BY <1>2, <1>6
  <2>2. writer[v].rest \subseteq Stamps
    BY <1>1, WriterFacts
  <2>3. \A t \in writer'[v].rest : Doomed(t)' /\ t < now'
    BY <1>3, <1>8, <2>1, <2>2, OthersFacts
  <2>4. Writes(v)' => writer'[v].stamp \in Stamps \ sidecars'
    BY <1>1, <1>3, <1>10, <1>11, <2>1 DEF PruneInv
  <2>5. /\ writer'[v].at \in {"remove", "unlink"} => writer'[v].stamp \in writer'[v].rest
        /\ writer'[v].at = "meta" => writer'[v].stamp \in archives'
    BY <1>1, <1>2, <1>3, <1>6 DEF PruneInv
  <2>6. QED  BY <1>3, <2>1, <2>3, <2>4, <2>5, OthersFacts
<1>13. \A u, v \in Writers :
          Writes(v)' => /\ writer'[v].stamp \notin writer'[u].rest
                        /\ Writes(u)' /\ writer'[u].stamp = writer'[v].stamp => u = v
  <2>1. \A v \in Writers : writer'[v].stamp = writer[v].stamp /\ writer'[v].rest = writer[v].rest
    BY <1>2, <1>6
  <2>2. QED  BY <1>1, <1>10, <2>1 DEF PruneInv
<1>14. PruneInv'
  BY <1>9, <1>12, <1>13 DEF PruneInv
<1>15. QED  BY <1>7, <1>14 DEF BundlesInv

(* A sidecar that goes was a victim itself.                                *)
LEMMA RemoveMetaHolds ==
    ASSUME BundlesInv, NEW w \in Writers, RemoveMeta(w) PROVE BundlesInv'
<1>1. BundlesTypeOK /\ PruneInv
  BY DEF BundlesInv
<1> DEFINE t0 == writer[w].stamp
           left == writer[w].rest \ {t0}
           x == IF left = {} THEN NoRun ELSE [at |-> "remove", stamp |-> Max(left), rest |-> left]
<1>2. /\ writer' = [writer EXCEPT ![w] = x] /\ writer[w].at = "unlink"
      /\ sidecars' = sidecars \ {t0}
      /\ UNCHANGED <<now, partial, archives, server, restore, volume>>
  BY DEF RemoveMeta, Volume
<1>3. left \subseteq writer[w].rest /\ left \in SUBSET Stamps
  BY <1>1, WriterFacts
<1>4. t0 \in Stamps /\ Doomed(t0)
  <2>1. t0 \in writer[w].rest
    BY <1>1, <1>2 DEF PruneInv
  <2>2. QED  BY <1>1, <2>1, WriterFacts, OthersFacts
<1> HIDE DEF left
<1>5. left # {} => Max(left) \in left
  BY <1>3, MaxIsIn
<1>6. left # {} => Max(left) \in Stamps /\ Max(left) <= now
  <2>1. ASSUME NEW t \in left PROVE t \in Stamps /\ t <= now
    BY <1>1, <1>3, WriterFacts, OthersFacts DEF Stamps
  <2>2. QED  BY <1>5, <2>1
<1>7. /\ x \in Runs /\ x.at \in {"idle", "remove"}
      /\ x.stamp <= now /\ x.rest \subseteq left
      /\ x.at = "remove" => x.stamp \in x.rest
  BY <1>1, <1>3, <1>5, <1>6, WriterFacts DEF Runs
<1> HIDE DEF x, t0
<1>8. \A v \in Writers : writer'[v] = IF v = w THEN x ELSE writer[v]
  BY <1>1, <1>2 DEF BundlesTypeOK
<1>9. BundlesTypeOK'
  BY <1>1, <1>2, <1>7 DEF BundlesTypeOK, Runs
<1>10. \A t \in Stamps : Doomed(t) => Doomed(t)'
  BY <1>1, <1>2, <1>4, DoomedWithout
<1>11. \A t \in sidecars' : t <= now' /\ (t \notin archives' => Doomed(t)')
  <2>1. sidecars' \subseteq Stamps
    BY <1>9 DEF BundlesTypeOK
  <2>2. QED  BY <1>1, <1>2, <1>10, <2>1 DEF PruneInv
<1>12. \A v \in Writers : Writes(v)' <=> v # w /\ Writes(v)
  BY <1>2, <1>7, <1>8 DEF Writes
<1>13. \A v \in Writers : writer'[v].rest \subseteq writer[v].rest /\ writer[v].rest \subseteq Stamps
  BY <1>1, <1>3, <1>7, <1>8, WriterFacts
<1>14. ASSUME NEW v \in Writers
       PROVE  /\ writer'[v].stamp <= now'
              /\ \A t \in writer'[v].rest : Doomed(t)' /\ t < now'
              /\ writer'[v].at \in {"remove", "unlink"} => writer'[v].stamp \in writer'[v].rest
              /\ Writes(v)' => writer'[v].stamp \in Stamps \ sidecars'
              /\ writer'[v].at = "meta" => writer'[v].stamp \in archives'
  <2>1. writer'[v].stamp <= now'
    BY <1>2, <1>7, <1>8, OthersFacts
  <2>2. \A t \in writer'[v].rest : Doomed(t)' /\ t < now'
    BY <1>2, <1>10, <1>13, OthersFacts
  <2>3. Writes(v)' => writer'[v].stamp \in Stamps \ sidecars'
    BY <1>1, <1>2, <1>8, <1>12 DEF PruneInv
  <2>4. /\ writer'[v].at \in {"remove", "unlink"} => writer'[v].stamp \in writer'[v].rest
        /\ writer'[v].at = "meta" => writer'[v].stamp \in archives'
    BY <1>1, <1>2, <1>7, <1>8 DEF PruneInv
  <2>5. QED  BY <2>1, <2>2, <2>3, <2>4
<1>15. \A u, v \in Writers :
          Writes(v)' => /\ writer'[v].stamp \notin writer'[u].rest
                        /\ Writes(u)' /\ writer'[u].stamp = writer'[v].stamp => u = v
  <2>1. \A v \in Writers : Writes(v)' => Writes(v) /\ writer'[v].stamp = writer[v].stamp
    BY <1>8, <1>12
  <2>2. QED  BY <1>1, <1>13, <2>1 DEF PruneInv
<1>16. PruneInv'
  BY <1>11, <1>14, <1>15 DEF PruneInv
<1>17. QED  BY <1>9, <1>16 DEF BundlesInv

(* Time makes victims only.                                                *)
LEMMA clockHolds == ASSUME BundlesInv, clock PROVE BundlesInv'
<1>1. BundlesTypeOK /\ PruneInv
  BY DEF BundlesInv
<1>2. /\ now' = now + 1 /\ now < MaxTime
      /\ UNCHANGED <<partial, archives, sidecars, writer, server, restore, volume>>
  BY DEF clock, Files, Volume
<1>3. now' \in Stamps /\ \A t \in Stamps \cup {0} : (t <= now => t <= now') /\ (t < now => t < now')
  BY <1>1, <1>2, BundlesAssumption DEF BundlesTypeOK, Stamps
<1>4. BundlesTypeOK'
  BY <1>1, <1>2, <1>3 DEF BundlesTypeOK
<1>5. \A t \in Stamps : Doomed(t) => Doomed(t)'
  <2>1. now <= now' /\ sidecars \subseteq sidecars' /\ sidecars' \subseteq Stamps
    BY <1>1, <1>2, WriterFacts DEF BundlesTypeOK
  <2>2. QED  BY <1>1, <1>3, <2>1, DoomedStays
<1>6. \A v \in Writers : Writes(v)' = Writes(v)
  BY <1>2 DEF Writes
<1>7. /\ sidecars \subseteq Stamps
      /\ \A v \in Writers : writer[v].stamp \in Stamps \cup {0} /\ writer[v].rest \subseteq Stamps
  BY <1>1, WriterFacts DEF BundlesTypeOK
<1>8. PruneInv'
  BY <1>1, <1>2, <1>3, <1>5, <1>6, <1>7 DEF PruneInv
<1>9. QED  BY <1>4, <1>8 DEF BundlesInv

LEMMA BundlesStepHolds == BundlesInv /\ [BundlesNext]_bundleVars => BundlesInv'
<1> SUFFICES ASSUME BundlesInv, [BundlesNext]_bundleVars PROVE BundlesInv'
  OBVIOUS
<1>1. BundlesTypeOK /\ PruneInv
  BY DEF BundlesInv
<1>2. CASE /\ UNCHANGED <<now, partial, archives, sidecars, writer>>
           /\ server' \in BOOLEAN /\ volume' \in {"own", "mixed", "restored"}
           /\ restore' \in [at : {"none", "prompt", "unpack"}, stamp : Stamps \cup {NoStamp}]
  <2>1. BundlesTypeOK'
    BY <1>1, <1>2 DEF BundlesTypeOK
  <2>2. PruneInv'
    BY <1>1, <1>2, SameVictims DEF PruneInv, Writes
  <2>3. QED  BY <2>1, <2>2 DEF BundlesInv
<1>3. CASE RestoreCmd \/ Confirm \/ Abort \/ Restore \/ serverTurns \/ UNCHANGED bundleVars
  <2>1. UNCHANGED <<now, partial, archives, sidecars, writer>>
    BY <1>3 DEF RestoreCmd, Confirm, Abort, Restore, serverTurns, bundleVars, Files
  <2>2. server' \in BOOLEAN /\ volume' \in {"own", "mixed", "restored"}
    BY <1>1, <1>3 DEF RestoreCmd, Confirm, Abort, Restore, serverTurns, bundleVars, BundlesTypeOK
  <2>3. restore' \in [at : {"none", "prompt", "unpack"}, stamp : Stamps \cup {NoStamp}]
    <3>1. NoRestore \in [at : {"none", "prompt", "unpack"}, stamp : Stamps \cup {NoStamp}]
      BY DEF NoRestore
    <3>2. QED  BY <1>1, <1>3, <3>1
                  DEF RestoreCmd, Confirm, Abort, Restore, serverTurns, bundleVars, BundlesTypeOK
  <2>4. QED  BY <1>2, <2>1, <2>2, <2>3
<1>4. QED
  BY <1>3, ArchiveHolds, RenameHolds, WriteMetaHolds, FailsHolds, PruneListHolds,
     RemoveArchiveHolds, RemoveMetaHolds, clockHolds DEF BundlesNext, RunAll

(* A bundle that neither limit reaches is not doomed. *)
LEMMA BundlesNewest == BundlesInv => NewestAreThere
<1>1. ASSUME BundlesInv, NEW t \in sidecars,
             KeepCount = 0 \/ Cardinality(Newer(sidecars, t)) < KeepCount,
             KeepDays = 0 \/ now - t <= KeepDays
      PROVE  t \in archives
  <2>1. Cardinality(Newer(sidecars, t)) \in Nat /\ now \in Nat /\ t \in Nat
        /\ KeepCount \in Nat /\ KeepDays \in Nat
    BY <1>1, NewerFinite, BundlesAssumption DEF BundlesInv, BundlesTypeOK, Stamps
  <2>2. ~Doomed(t)
    BY <1>1, <2>1 DEF Doomed
  <2>3. QED  BY <1>1, <2>2 DEF BundlesInv, PruneInv
<1>2. QED  BY <1>1 DEF NewestAreThere

(* bundles.go, "Prune keeps the newest keepCount bundles per server": for  *)
(* any number of runs at a time, ending anywhere, and any limits, a listed *)
(* bundle that neither limit reaches has its archive.                      *)
THEOREM NewestStay == BundlesSpec => []NewestAreThere
<1>1. QED  BY BundlesNewest, BundlesInitHolds, BundlesStepHolds, PTL DEF BundlesSpec

-----------------------------------------------------------------------------
(* Addons: the cache and the pins *)

Booted == [no : 0..Boots, at : Places, tag : 0..Newest]
Asked == [q : Query, at : {"queued", "looks", "locks", "loads", "opens", "copies"},
          pin : 0..Newest]
OnFiles == {"locks", "loads", "opens", "copies"}
OnRelease == {"needs", "awaits", "fetches", "local", "unpacks", "copies", "records"}

(* A query comes from a boot, and is about a file when it is at one.       *)
AddonsTyped ==
    /\ AddonsTypeOK
    /\ \A s \in Servers : boot[s].at # "off" => boot[s].no >= 1
    /\ \A x \in queries : /\ boot[x.q.s].no >= 1
                          /\ x.at \in OnFiles => x.q.want \in Releases
                          /\ x.at = "looks" => x.q.want = 0

(* Who writes a .part is who holds the lock of its url.                    *)
WritersHold ==
    \A v \in Releases : writers[v] # {} => holder[v] # NoQuery /\ writers[v] = {holder[v]}

(* The pin of a server is among those its boot's answers are made under,   *)
(* and so is the pin each answer is made with: what an egg installs is one *)
(* of them, or it had no pin or no answer.                                 *)
PinsAsked ==
    /\ \A s \in Servers :
          /\ boot[s].no >= 1 => Pin(s) \in asked[s]
          /\ boot[s].at = "github" => 0 \in asked[s]
          /\ boot[s].at \in OnRelease => boot[s].tag \in asked[s] \/ 0 \in asked[s]
    /\ \A x \in queries : x.at = "looks" => x.pin \in asked[x.q.s]

AddonsInv == AddonsTyped /\ WritersHold /\ CachedIsWhole /\ PinsAsked

LEMMA QueryFacts ==
    ASSUME AddonsTyped, NEW x \in queries
    PROVE  /\ x \in Asked /\ x.q \in Query /\ x.q.s \in Servers /\ x.q.want \in 0..Newest
           /\ x.pin \in 0..Newest /\ boot[x.q.s].no >= 1
           /\ x.at \in {"queued", "looks", "locks", "loads", "opens", "copies"}
           /\ x.at \in OnFiles => x.q.want \in Releases
           /\ x.at = "looks" => x.q.want = 0
  BY DEF AddonsTyped, AddonsTypeOK, Asked, Query

LEMMA NoQueryIsNone == NoQuery \notin Query
<1>1. \A q \in Query : DOMAIN q = {"s", "no", "want"}
  BY DEF Query
<1>2. DOMAIN NoQuery # {"s", "no", "want"}
  <2>1. DOMAIN NoQuery = 1..0
    BY DEF NoQuery
  <2>2. 1..0 = {}
    OBVIOUS
  <2>3. QED  BY <2>1, <2>2
<1>3. QED  BY <1>1, <1>2

AskedWell(y) ==
    /\ y \in Asked /\ boot[y.q.s].no >= 1
    /\ y.at \in OnFiles => y.q.want \in Releases
    /\ y.at = "looks" => y.q.want = 0 /\ y.pin \in asked'[y.q.s]

(* What a step does to boots and queries: a boot goes on with the release  *)
(* it has, or gets one that it was pinned to; a new query is one of a      *)
(* boot.                                                                   *)
Moves ==
    /\ boot' \in [Servers -> Booted] /\ asked' \in [Servers -> SUBSET (0..Newest)]
    /\ UNCHANGED <<every, own>>
    /\ \A s \in Servers :
          /\ boot'[s].no = boot[s].no /\ (boot'[s].at # "off" => boot[s].at # "off")
          /\ boot'[s].at = "github" => boot[s].at = "github" \/ 0 \in asked'[s]
          /\ boot'[s].at \in OnRelease =>
                \/ boot[s].at \in OnRelease /\ boot'[s].tag = boot[s].tag
                \/ boot'[s].tag \in asked'[s]
                \/ 0 \in asked'[s]
          /\ asked[s] \subseteq asked'[s]
    /\ \A y \in queries' : AskedWell(y)

LEMMA MovesHold ==
    ASSUME AddonsInv, Moves, AddonsTypeOK'
    PROVE  AddonsTyped' /\ PinsAsked'
<1>1. AddonsTyped /\ PinsAsked
  BY DEF AddonsInv
<1>2. \A y \in queries' : y.q.s \in Servers
  BY DEF Moves, AskedWell, Asked, Query
<1>3. AddonsTyped'
  BY <1>1, <1>2 DEF AddonsTyped, Moves, AskedWell
<1>4. \A s \in Servers : Pin(s)' = Pin(s)
  BY DEF Moves, Pin
<1>5. PinsAsked'
  BY <1>1, <1>2, <1>4 DEF PinsAsked, Moves, AskedWell
<1>6. QED  BY <1>3, <1>5

(* The files of the cache, which few steps touch.                          *)
LEMMA SameFiles ==
    ASSUME WritersHold, CachedIsWhole, UNCHANGED <<files, writers, holder>>
    PROVE  WritersHold' /\ CachedIsWhole'
  BY DEF WritersHold, CachedIsWhole

LEMMA AddonsInitHolds == AddonsInit => AddonsInv
<1> SUFFICES ASSUME AddonsInit PROVE AddonsInv
  OBVIOUS
<1>1. 1 \in Releases /\ 0 \in 0..Newest /\ Unset \in 0..Unset /\ 0 \in 0..Torn /\ 0 \in 0..Boots
      /\ 0 \in 0..MaxTurns
  BY AddonsAssumption DEF Releases, Unset, Torn
<1>2. AddonsTypeOK
  BY <1>1 DEF AddonsInit, AddonsTypeOK, Places
<1>3. AddonsTyped
  BY <1>2 DEF AddonsInit, AddonsTyped
<1>4. WritersHold /\ CachedIsWhole
  BY DEF AddonsInit, WritersHold, CachedIsWhole
<1>5. PinsAsked
  <2>1. \A s \in Servers : boot[s].no = 0 /\ boot[s].at = "off"
    BY DEF AddonsInit
  <2>2. queries = {}
    BY DEF AddonsInit
  <2>3. QED  BY <2>1, <2>2 DEF PinsAsked, OnRelease
<1>6. QED  BY <1>3, <1>4, <1>5 DEF AddonsInv

LEMMA PinType ==
    ASSUME AddonsTypeOK, NEW s \in Servers
    PROVE  Pin(s) \in 0..Newest
<1>1. own[s] \in 0..Newest + 1 /\ every \in 0..Newest
  BY DEF AddonsTypeOK, Unset
<1>2. QED  BY <1>1, AddonsAssumption DEF Pin, Unset

-----------------------------------------------------------------------------
(* Addons: the egg's steps *)

Placed(s, at, tag) == boot' = [boot EXCEPT ![s].at = at, ![s].tag = tag]

LEMMA PlaceAndTag ==
    ASSUME boot \in [Servers -> Booted], NEW s \in Servers, NEW at \in Places, NEW tag \in 0..Newest,
           Placed(s, at, tag)
    PROVE  /\ boot' \in [Servers -> Booted] /\ \A r \in Servers : r # s => boot'[r] = boot[r]
           /\ boot'[s].no = boot[s].no /\ boot'[s].at = at /\ boot'[s].tag = tag
<1> DEFINE m == [boot EXCEPT ![s].at = at]
<1>1. /\ m \in [Servers -> Booted] /\ \A r \in Servers : r # s => m[r] = boot[r]
      /\ m[s].no = boot[s].no /\ m[s].at = at
  BY DEF Booted
<1>2. boot' = [m EXCEPT ![s].tag = tag]
  BY DEF Placed
<1> HIDE DEF m
<1>3. m[s] \in Booted
  BY <1>1
<1>4. /\ [m[s] EXCEPT !.tag = tag] \in Booted /\ [m[s] EXCEPT !.tag = tag].tag = tag
      /\ [m[s] EXCEPT !.tag = tag].no = m[s].no /\ [m[s] EXCEPT !.tag = tag].at = m[s].at
  BY <1>3 DEF Booted
<1>5. boot' = [m EXCEPT ![s] = [m[s] EXCEPT !.tag = tag]]
  BY <1>2
<1> HIDE DEF Booted
<1>6. boot' \in [Servers -> Booted] /\ boot'[s] = [m[s] EXCEPT !.tag = tag]
      /\ \A r \in Servers : r # s => boot'[r] = m[r]
  BY <1>1, <1>4, <1>5
<1>7. QED  BY <1>1, <1>4, <1>6

LEMMA GoesFacts ==
    ASSUME AddonsTypeOK, NEW s \in Servers, NEW at \in Places, Goes(s, at)
    PROVE  /\ boot' \in [Servers -> Booted] /\ \A r \in Servers : r # s => boot'[r] = boot[r]
           /\ boot'[s].no = boot[s].no /\ boot'[s].at = at
           /\ boot'[s].tag = IF at \in Over THEN 0 ELSE boot[s].tag
<1>1. boot \in [Servers -> Booted] /\ boot[s].tag \in 0..Newest /\ 0 \in 0..Newest
  BY AddonsAssumption DEF AddonsTypeOK, Booted
<1> DEFINE tag == IF at \in Over THEN 0 ELSE boot[s].tag
<1>2. Placed(s, at, tag)
  BY DEF Goes, Placed
<1>3. tag \in 0..Newest
  BY <1>1
<1> HIDE DEF tag, Booted
<1>4. /\ boot' \in [Servers -> Booted] /\ \A r \in Servers : r # s => boot'[r] = boot[r]
      /\ boot'[s].no = boot[s].no /\ boot'[s].at = at /\ boot'[s].tag = tag
  BY <1>1, <1>2, <1>3, PlaceAndTag
<1>5. QED  BY <1>4 DEF tag

LEMMA OldQueries ==
    ASSUME AddonsInv, NEW y \in queries, \A s \in Servers : asked[s] \subseteq asked'[s]
    PROVE  AskedWell(y)
  BY QueryFacts DEF AddonsInv, PinsAsked, AskedWell

(* A step of a boot that runs.                                             *)
LEMMA GoesMoves ==
    ASSUME AddonsInv, NEW s \in Servers, NEW at \in Places, boot[s].at # "off", Goes(s, at),
           UNCHANGED <<every, own>>, asked' \in [Servers -> SUBSET (0..Newest)],
           \A r \in Servers : asked[r] \subseteq asked'[r],
           at = "github" => 0 \in asked'[s],
           at \in OnRelease => boot[s].at \in OnRelease,
           \A y \in queries' : AskedWell(y)
    PROVE  Moves
<1>1. AddonsTypeOK
  BY DEF AddonsInv, AddonsTyped
<1>2. /\ boot' \in [Servers -> Booted] /\ \A r \in Servers : r # s => boot'[r] = boot[r]
      /\ boot'[s].no = boot[s].no /\ boot'[s].at = at
      /\ boot'[s].tag = IF at \in Over THEN 0 ELSE boot[s].tag
  BY <1>1, GoesFacts
<1>3. at \in OnRelease => at \notin Over
  BY DEF Over, OnRelease
<1>4. QED  BY <1>2, <1>3 DEF Moves

LEMMA EggOnlyFacts ==
    ASSUME AddonsInv
    PROVE  /\ AddonsTypeOK /\ WritersHold /\ CachedIsWhole /\ AddonsTyped /\ PinsAsked
           /\ asked \in [Servers -> SUBSET (0..Newest)] /\ \A y \in queries : y \in Asked
           /\ boot \in [Servers -> Booted]
  BY DEF AddonsInv, AddonsTyped, AddonsTypeOK, Asked, Booted

(* The same for a whole step: what else it changes keeps its type.         *)
LEMMA EggHolds ==
    ASSUME AddonsInv, Moves, eggOnly' = eggOnly,
           delivered' \in [Servers -> {"none", "part", "whole"}], UNCHANGED copier,
           installed' \in [Servers -> 0..Torn], recorded' \in [Servers -> 0..Newest]
    PROVE  AddonsInv'
<1>1. UNCHANGED <<latest, every, own, answered, files, writers, holder, pruning, turns>>
  BY DEF eggOnly, nodeStore
<1>2. boot' \in [Servers -> Booted] /\ asked' \in [Servers -> SUBSET (0..Newest)] /\ queries' \subseteq Asked
  BY DEF Moves, AskedWell
<1>3. AddonsTypeOK'
  BY <1>1, <1>2, EggOnlyFacts DEF AddonsTypeOK, Booted, Asked
<1>4. QED  BY <1>1, <1>3, EggOnlyFacts, MovesHold, SameFiles DEF AddonsInv

LEMMA StopsHolds == ASSUME AddonsInv, NEW s \in Servers, Stops(s) PROVE AddonsInv'
<1>1. /\ boot[s].at # "off" /\ Goes(s, "off") /\ eggOnly' = eggOnly
      /\ UNCHANGED <<queries, delivered, copier, installed, recorded, asked>>
  BY DEF Stops, volumes
<1>2. "off" \in Places /\ "off" \notin OnRelease /\ UNCHANGED <<every, own>>
  BY <1>1 DEF Places, OnRelease, eggOnly
<1>3. Moves
  BY <1>1, <1>2, EggOnlyFacts, OldQueries, GoesMoves
<1>4. QED  BY <1>1, <1>3, EggHolds, EggOnlyFacts DEF AddonsTypeOK

(* A query of this boot; a server that asked too much is not heard.        *)
LEMMA AsksHolds ==
    ASSUME AddonsInv, NEW s \in Servers, NEW want \in 0..Newest, Asks(s, want)
    PROVE  AddonsInv'
<1> DEFINE q == [s |-> s, no |-> boot[s].no, want |-> want]
           y0 == [q |-> q, at |-> "queued", pin |-> 0]
<1>1. PICK at \in {"waits", "awaits"} :
         /\ Goes(s, at) /\ (at = "awaits" => boot[s].at = "needs")
         /\ boot[s].at \in {"asks", "needs"}
  BY DEF Asks
<1>2. /\ eggOnly' = eggOnly /\ UNCHANGED <<delivered, copier, installed, recorded, asked>>
      /\ queries' \subseteq queries \cup {y0}
  BY DEF Asks, volumes, Claim
<1>3. boot[s] \in Booted /\ boot[s].no \in 1..Boots
  <2>1. boot[s] \in Booted /\ boot[s].no \in 0..Boots /\ boot[s].no >= 1
    BY <1>1, EggOnlyFacts DEF AddonsTyped, Booted
  <2>2. QED  BY <2>1, AddonsAssumption
<1>4. y0 \in Asked /\ y0.q.s = s /\ y0.at = "queued"
  <2>1. q \in Query
    BY <1>3 DEF Query
  <2>2. 0 \in 0..Newest
    BY AddonsAssumption
  <2>3. QED  BY <2>1, <2>2 DEF Asked
<1>5. AskedWell(y0)
  BY <1>3, <1>4 DEF AskedWell, OnFiles
<1> HIDE DEF y0
<1>6. \A y \in queries' : AskedWell(y)
  BY <1>2, <1>5, OldQueries
<1>7. at \in Places /\ at # "github" /\ (at \in OnRelease => boot[s].at \in OnRelease)
      /\ boot[s].at # "off" /\ UNCHANGED <<every, own>>
  BY <1>1, <1>2 DEF Places, OnRelease, eggOnly
<1>8. Moves
  BY <1>1, <1>2, <1>6, <1>7, EggOnlyFacts, GoesMoves
<1>9. QED  BY <1>2, <1>8, EggHolds, EggOnlyFacts DEF AddonsTypeOK

(* Without an answer the egg asks GitHub itself, as if it had no pin.      *)
LEMMA NoAnswerHolds == ASSUME AddonsInv, NEW s \in Servers, NoAnswer(s) PROVE AddonsInv'
<1>1. PICK at \in {"github", "fetches"} :
         /\ Goes(s, at) /\ (at = "fetches" => boot[s].at = "awaits")
         /\ boot[s].at \in {"waits", "awaits"}
  BY DEF NoAnswer
<1>2. /\ eggOnly' = eggOnly /\ UNCHANGED <<queries, delivered, copier, installed, recorded>>
      /\ asked' = [asked EXCEPT ![s] = asked[s] \cup {0}]
  BY DEF NoAnswer, volumes
<1>3. /\ asked' \in [Servers -> SUBSET (0..Newest)] /\ 0 \in asked'[s]
      /\ \A r \in Servers : asked[r] \subseteq asked'[r]
  BY <1>2, EggOnlyFacts, AddonsAssumption
<1>4. at \in Places /\ (at \in OnRelease => boot[s].at \in OnRelease)
      /\ boot[s].at # "off" /\ UNCHANGED <<every, own>>
  BY <1>1, <1>2 DEF Places, OnRelease, eggOnly
<1>5. Moves
  BY <1>1, <1>2, <1>3, <1>4, OldQueries, GoesMoves
<1>6. QED  BY <1>2, <1>5, EggHolds, EggOnlyFacts DEF AddonsTypeOK

LEMMA GitHubHolds == ASSUME AddonsInv, NEW s \in Servers, GitHub(s) PROVE AddonsInv'
<1>1. /\ boot[s].at = "github" /\ eggOnly' = eggOnly
      /\ UNCHANGED <<queries, delivered, copier, installed, recorded, asked, every, own>>
  BY DEF GitHub, volumes, eggOnly
<1>2. 0 \in asked[s]
  BY <1>1, EggOnlyFacts DEF PinsAsked
<1>3. Moves
  <2>1. CASE Goes(s, "runs")
    <3>1. "runs" \in Places /\ "runs" \notin OnRelease
      BY DEF Places, OnRelease
    <3>2. QED  BY <1>1, <2>1, <3>1, EggOnlyFacts, OldQueries, GoesMoves
  <2>2. CASE boot' = [boot EXCEPT ![s].at = "needs", ![s].tag = latest]
    <3>1. Placed(s, "needs", latest) /\ "needs" \in Places /\ latest \in 0..Newest
      BY <2>2, EggOnlyFacts, AddonsAssumption DEF Placed, Places, AddonsTypeOK, Releases
    <3>2. /\ boot' \in [Servers -> Booted] /\ \A r \in Servers : r # s => boot'[r] = boot[r]
          /\ boot'[s].no = boot[s].no /\ boot'[s].at = "needs" /\ boot'[s].tag = latest
      BY <3>1, EggOnlyFacts, PlaceAndTag
    <3>3. \A y \in queries' : AskedWell(y)
      BY <1>1, OldQueries
    <3>4. QED  BY <1>1, <1>2, <3>2, <3>3, EggOnlyFacts DEF Moves
  <2>3. QED  BY <2>1, <2>2 DEF GitHub
<1>4. QED  BY <1>1, <1>3, EggHolds, EggOnlyFacts DEF AddonsTypeOK

(* The rest of an update keeps the release it got.                         *)
LEMMA InstallsHolds ==
    ASSUME AddonsInv, NEW s \in Servers,
           Fetches(s) \/ TakesLocal(s) \/ Unpacks(s) \/ Copies(s) \/ Records(s)
    PROVE  AddonsInv'
<1>1. /\ boot[s].at \in OnRelease /\ boot[s].at # "off"
      /\ eggOnly' = eggOnly /\ UNCHANGED <<queries, copier, asked, every, own>>
  BY DEF Fetches, TakesLocal, Unpacks, Copies, Records, OnRelease, eggOnly, volumes
<1>2. PICK at \in {"unpacks", "copies", "records", "runs"} : Goes(s, at)
  BY DEF Fetches, TakesLocal, Unpacks, Copies, Records
<1>3. at \in Places /\ at # "github"
  BY DEF Places
<1>4. Moves
  BY <1>1, <1>2, <1>3, EggOnlyFacts, OldQueries, GoesMoves
<1>5. boot[s].tag \in 0..Newest /\ boot[s].tag \in 0..Torn /\ Torn \in 0..Torn
  <2>1. boot[s].tag \in 0..Newest
    BY EggOnlyFacts DEF Booted
  <2>2. QED  BY <2>1, AddonsAssumption DEF Torn
<1>6. /\ delivered' \in [Servers -> {"none", "part", "whole"}]
      /\ installed' \in [Servers -> 0..Torn] /\ recorded' \in [Servers -> 0..Newest]
  BY <1>5, EggOnlyFacts
     DEF AddonsTypeOK, Fetches, TakesLocal, Unpacks, Copies, Records, volumes
<1>7. QED  BY <1>1, <1>4, <1>6, EggHolds

(* A boot starts what is asked over, unless an answer of an earlier one is *)
(* still to come.                                                          *)
LEMMA BootHolds == ASSUME AddonsInv, NEW s \in Servers, Boot(s) PROVE AddonsInv'
<1> DEFINE b == [no |-> boot[s].no + 1, at |-> "asks", tag |-> 0]
<1>1. /\ boot' = [boot EXCEPT ![s] = b] /\ boot[s].no < Boots
      /\ asked' = [asked EXCEPT ![s] = (IF Outstanding(s) THEN asked[s] ELSE {}) \cup {Pin(s)}]
      /\ UNCHANGED <<latest, every, own, answered, files, writers, holder, pruning, turns,
                     queries, delivered, copier, installed, recorded>>
  BY DEF Boot, eggOnly, nodeStore, volumes
<1>2. b \in Booted /\ b.no >= 1 /\ b.at = "asks"
  <2>1. boot[s].no \in 0..Boots
    BY EggOnlyFacts DEF Booted
  <2>2. boot[s].no + 1 \in 0..Boots /\ boot[s].no + 1 >= 1 /\ 0 \in 0..Newest
    BY <1>1, <2>1, AddonsAssumption
  <2>3. QED  BY <2>2 DEF Booted, Places
<1> HIDE DEF b
<1>3. /\ boot' \in [Servers -> Booted] /\ boot'[s] = b
      /\ \A r \in Servers : r # s => boot'[r] = boot[r]
  BY <1>1, <1>2, EggOnlyFacts
<1>4. Pin(s) \in 0..Newest /\ \A r \in Servers : Pin(r)' = Pin(r)
  BY <1>1, EggOnlyFacts, PinType DEF Pin
<1>5. /\ asked' \in [Servers -> SUBSET (0..Newest)] /\ Pin(s) \in asked'[s]
      /\ \A r \in Servers : r # s => asked'[r] = asked[r]
      /\ Outstanding(s) => asked[s] \subseteq asked'[s]
  BY <1>1, <1>4, EggOnlyFacts
<1>6. AddonsTypeOK'
  BY <1>1, <1>3, <1>5, EggOnlyFacts DEF AddonsTypeOK, Booted
<1>7. AddonsTyped'
  <2>1. \A r \in Servers : boot'[r].at # "off" => boot'[r].no >= 1
    BY <1>2, <1>3, EggOnlyFacts DEF AddonsTyped
  <2>2. \A x \in queries : /\ boot'[x.q.s].no >= 1
                           /\ x.at \in OnFiles => x.q.want \in Releases
                           /\ x.at = "looks" => x.q.want = 0
    BY <1>2, <1>3, EggOnlyFacts, QueryFacts
  <2>3. QED  BY <1>1, <1>6, <2>1, <2>2 DEF AddonsTyped
<1>8. PinsAsked'
  <2>1. ASSUME NEW r \in Servers
        PROVE  /\ boot'[r].no >= 1 => Pin(r)' \in asked'[r]
               /\ boot'[r].at = "github" => 0 \in asked'[r]
               /\ boot'[r].at \in OnRelease => boot'[r].tag \in asked'[r] \/ 0 \in asked'[r]
    <3>1. CASE r = s
      BY <1>2, <1>3, <1>4, <1>5, <3>1 DEF OnRelease
    <3>2. CASE r # s
      BY <1>3, <1>4, <1>5, <3>2, EggOnlyFacts DEF PinsAsked
    <3>3. QED  BY <3>1, <3>2
  <2>2. ASSUME NEW x \in queries, x.at = "looks"
        PROVE  x.pin \in asked'[x.q.s]
    <3>1. x.q.s \in Servers /\ x.q.want = 0 /\ x.pin \in asked[x.q.s]
      BY <2>2, EggOnlyFacts, QueryFacts DEF PinsAsked
    <3>2. CASE x.q.s = s
      <4>1. Outstanding(s)
        BY <3>1, <3>2 DEF Outstanding
      <4>2. QED  BY <1>5, <3>1, <3>2, <4>1
    <3>3. CASE x.q.s # s
      BY <1>5, <3>1, <3>3
    <3>4. QED  BY <3>2, <3>3
  <2>3. QED  BY <1>1, <2>1, <2>2 DEF PinsAsked
<1>9. QED  BY <1>1, <1>7, <1>8, EggOnlyFacts, SameFiles DEF AddonsInv

(* A change of a pin is one more that answers may be made under.           *)
LEMMA ChangePinsHolds == ASSUME AddonsInv, ChangePins PROVE AddonsInv'
<1>1. /\ asked' = [s \in Servers |-> asked[s] \cup {Pin(s)'}]
      /\ turns' \in 0..MaxTurns
      /\ UNCHANGED <<latest, answered, files, writers, holder, pruning, queries, boot,
                     delivered, copier, installed, recorded>>
  <2>1. turns \in 0..MaxTurns
    BY EggOnlyFacts DEF AddonsTypeOK
  <2>2. turns' \in 0..MaxTurns
    BY <2>1, AddonsAssumption DEF ChangePins, Turn
  <2>3. QED  BY <2>2 DEF ChangePins, nodeStore, volumes
<1>2. every' \in 0..Newest /\ own' \in [Servers -> 0..Unset]
  <2>1. 0 \in 0..Newest /\ Unset \in 0..Unset /\ 0..Newest \subseteq 0..Unset /\ Releases \subseteq 0..Newest
    BY AddonsAssumption DEF Unset, Releases
  <2>2. every \in 0..Newest /\ own \in [Servers -> 0..Unset]
    BY EggOnlyFacts DEF AddonsTypeOK
  <2>3. CASE own' = own
    BY <2>1, <2>2, <2>3 DEF ChangePins, SetPin, SetOwnPin, ClearPin, ClearOwnPin
  <2>4. CASE \E s \in Servers, v \in 0..Unset : own' = [own EXCEPT ![s] = v] /\ every' = every
    BY <2>2, <2>4
  <2>5. QED  BY <2>1, <2>3, <2>4 DEF ChangePins, SetPin, SetOwnPin, ClearPin, ClearOwnPin
<1>3. \A s \in Servers : Pin(s)' \in 0..Newest
  <2>1. ASSUME NEW s \in Servers PROVE Pin(s)' \in 0..Newest
    <3>1. own'[s] \in 0..Newest + 1 /\ every' \in 0..Newest
      BY <1>2 DEF Unset
    <3>2. own'[s] # Unset => own'[s] \in 0..Newest
      BY <3>1, AddonsAssumption DEF Unset
    <3>3. QED  BY <3>1, <3>2 DEF Pin, Unset
  <2>2. QED  BY <2>1
<1>4. /\ asked' \in [Servers -> SUBSET (0..Newest)]
      /\ \A s \in Servers : asked[s] \subseteq asked'[s] /\ Pin(s)' \in asked'[s]
  BY <1>1, <1>3, EggOnlyFacts
<1>5. AddonsTypeOK'
  BY <1>1, <1>2, <1>4, EggOnlyFacts DEF AddonsTypeOK
<1>6. AddonsTyped'
  BY <1>1, <1>5, EggOnlyFacts DEF AddonsTyped
<1>7. PinsAsked'
  <2>1. \A x \in queries : x.at = "looks" => x.pin \in asked'[x.q.s]
    BY <1>4, EggOnlyFacts, QueryFacts DEF PinsAsked
  <2>2. QED  BY <1>1, <1>4, <2>1, EggOnlyFacts DEF PinsAsked
<1>8. QED  BY <1>1, <1>6, <1>7, EggOnlyFacts, SameFiles DEF AddonsInv

LEMMA ReleasedHolds == ASSUME AddonsInv, Released PROVE AddonsInv'
<1>1. /\ latest' \in Releases /\ turns' \in 0..MaxTurns
      /\ UNCHANGED <<every, own, answered, files, writers, holder, pruning, queries, boot,
                     delivered, copier, installed, recorded, asked>>
  <2>1. turns \in 0..MaxTurns /\ latest \in 1..Newest
    BY EggOnlyFacts DEF AddonsTypeOK, Releases
  <2>2. turns' \in 0..MaxTurns /\ latest' \in Releases
    BY <2>1, AddonsAssumption DEF Released, Turn, Releases
  <2>3. QED  BY <2>2 DEF Released, nodeStore, volumes
<1>2. AddonsTypeOK'
  BY <1>1, EggOnlyFacts DEF AddonsTypeOK
<1>3. AddonsTyped'
  BY <1>1, <1>2, EggOnlyFacts DEF AddonsTyped
<1>4. PinsAsked'
  BY <1>1, EggOnlyFacts DEF PinsAsked, Pin
<1>5. QED  BY <1>1, <1>3, <1>4, EggOnlyFacts, SameFiles DEF AddonsInv

-----------------------------------------------------------------------------
(* Addons: the node's steps *)

LEMMA ToWell ==
    ASSUME AddonsInv, NEW x \in queries, NEW at \in OnFiles, x.at \in OnFiles, To(x, at),
           UNCHANGED asked
    PROVE  \A y \in queries' : AskedWell(y)
<1> DEFINE z == [x EXCEPT !.at = at]
<1>1. x \in Asked /\ x.q.want \in Releases /\ boot[x.q.s].no >= 1
  BY EggOnlyFacts, QueryFacts
<1>2. z \in Asked /\ z.q = x.q /\ z.at = at
  BY <1>1 DEF Asked, OnFiles
<1>3. AskedWell(z)
  BY <1>1, <1>2 DEF AskedWell, OnFiles
<1>4. queries' \subseteq queries \cup {z}
  BY DEF To
<1> HIDE DEF z
<1>5. QED  BY <1>3, <1>4, OldQueries

(* Whatever answer there is, of a release or of a file.                    *)
LEMMA NodeHolds ==
    ASSUME AddonsInv, Moves, UNCHANGED <<latest, every, own, installed, recorded>>,
           answered' \in 0..Newest, pruning' \in 0..Newest, turns' \in 0..MaxTurns,
           files' \in [Releases -> {"none", "part", "whole"}],
           writers' \in [Releases -> SUBSET Query], holder' \in [Releases -> Query \cup {NoQuery}],
           delivered' \in [Servers -> {"none", "part", "whole"}],
           copier' \in [Servers -> Query \cup {NoQuery}],
           WritersHold', CachedIsWhole'
    PROVE  AddonsInv'
<1>1. boot' \in [Servers -> Booted] /\ asked' \in [Servers -> SUBSET (0..Newest)] /\ queries' \subseteq Asked
  BY DEF Moves, AskedWell
<1>2. AddonsTypeOK'
  BY <1>1, EggOnlyFacts DEF AddonsTypeOK, Booted, Asked
<1>3. QED  BY <1>2, MovesHold DEF AddonsInv

(* Nothing happens to a boot.                                              *)
LEMMA BootStays ==
    ASSUME AddonsInv, UNCHANGED <<boot, every, own, asked>>, \A y \in queries' : AskedWell(y)
    PROVE  Moves
  BY EggOnlyFacts DEF Moves

LEMMA AnswerHolds == ASSUME AddonsInv, NEW x \in queries, Answer(x) PROVE AddonsInv'
<1>1. /\ x.at = "queued" /\ UNCHANGED <<latest, every, own, installed, recorded, asked, turns, answered,
                     files, writers, holder, pruning, boot, delivered, copier>>
      /\ queries' = (queries \ {x}) \cup
         {IF x.q.want = 0 THEN [x EXCEPT !.at = "looks", !.pin = Pin(x.q.s)]
                          ELSE [x EXCEPT !.at = "locks"]}
  BY DEF Answer, nodeOnly, nodeStore, volumes
<1>2. /\ x \in Asked /\ x.q \in Query /\ x.q.s \in Servers /\ x.q.want \in 0..Newest /\ boot[x.q.s].no >= 1
  BY EggOnlyFacts, QueryFacts
<1>3. Pin(x.q.s) \in 0..Newest /\ Pin(x.q.s) \in asked[x.q.s]
  BY <1>2, EggOnlyFacts, PinType DEF PinsAsked
<1> DEFINE m == [x EXCEPT !.at = "looks"]
           z == [m EXCEPT !.pin = Pin(x.q.s)]
           f == [x EXCEPT !.at = "locks"]
<1>4. m \in Asked /\ m.q = x.q /\ m.at = "looks"
  BY <1>2 DEF Asked
<1>5. queries' \subseteq queries \cup {IF x.q.want = 0 THEN z ELSE f}
  BY <1>1
<1>6. f \in Asked /\ f.q = x.q /\ f.at = "locks"
  BY <1>2 DEF Asked
<1> HIDE DEF m, f
<1>7. z \in Asked /\ z.q = x.q /\ z.at = "looks" /\ z.pin = Pin(x.q.s)
  BY <1>3, <1>4 DEF Asked
<1> HIDE DEF z
<1>8. x.q.want = 0 => AskedWell(z)
  BY <1>1, <1>2, <1>3, <1>7 DEF AskedWell, OnFiles
<1>9. x.q.want # 0 => AskedWell(f)
  <2>1. x.q.want # 0 => x.q.want \in Releases
    BY <1>2, AddonsAssumption DEF Releases
  <2>2. QED  BY <1>2, <1>6, <2>1 DEF AskedWell, OnFiles
<1>10. \A y \in queries' : AskedWell(y)
  BY <1>1, <1>5, <1>8, <1>9, OldQueries
<1>11. Moves
  BY <1>1, <1>10, BootStays
<1>12. QED  BY <1>1, <1>11, NodeHolds, EggOnlyFacts, SameFiles DEF AddonsTypeOK

(* A reply reaches a boot that waits, made under a pin it was asked under. *)
LEMMA RepliesMoves ==
    ASSUME AddonsInv, NEW x \in queries, NEW at \in {"needs", "runs", "github"}, NEW tag \in 0..Newest,
           Replies(x, at, tag), UNCHANGED <<every, own, asked>>,
           at = "github" => 0 \in asked[x.q.s],
           at = "needs" => tag \in asked[x.q.s] \/ 0 \in asked[x.q.s]
    PROVE  Moves
<1> DEFINE s == x.q.s
           new == IF at \in Over THEN 0 ELSE tag
<1>1. s \in Servers /\ \A y \in queries' : AskedWell(y)
  BY EggOnlyFacts, QueryFacts, OldQueries DEF Replies
<1>2. CASE boot[s].at = "waits"
  <2>1. Placed(s, at, new) /\ at \in Places /\ new \in 0..Newest
    BY <1>2, AddonsAssumption DEF Replies, Placed, Places
  <2> HIDE DEF new
  <2>2. /\ boot' \in [Servers -> Booted] /\ \A r \in Servers : r # s => boot'[r] = boot[r]
        /\ boot'[s].no = boot[s].no /\ boot'[s].at = at /\ boot'[s].tag = new
    BY <1>1, <2>1, EggOnlyFacts, PlaceAndTag
  <2>3. at \in OnRelease => at = "needs" /\ new = tag
    BY DEF OnRelease, Over, new
  <2>4. QED  BY <1>1, <1>2, <2>2, <2>3, EggOnlyFacts DEF Moves
<1>3. CASE boot[s].at # "waits"
  <2>1. UNCHANGED boot
    BY <1>3 DEF Replies
  <2>2. QED  BY <1>1, <2>1, BootStays
<1>4. QED  BY <1>2, <1>3

LEMMA ReleaseHolds ==
    ASSUME AddonsInv, NEW x \in queries, ReleaseByVersion(x) \/ Release(x) PROVE AddonsInv'
<1>1. /\ x.q.s \in Servers /\ x.at = "looks" /\ x.pin \in asked[x.q.s] /\ x.pin \in 0..Newest
      /\ latest \in 0..Newest /\ answered \in 0..Newest /\ 0 \in 0..Newest
  <2>1. x.at = "looks"
    BY DEF ReleaseByVersion, Release
  <2>2. x.q.s \in Servers /\ x.pin \in 0..Newest /\ x.pin \in asked[x.q.s]
    BY <2>1, EggOnlyFacts, QueryFacts DEF PinsAsked
  <2>3. latest \in 0..Newest /\ answered \in 0..Newest /\ 0 \in 0..Newest
    BY EggOnlyFacts, AddonsAssumption DEF AddonsTypeOK, Releases
  <2>4. QED  BY <2>1, <2>2, <2>3
<1>2. UNCHANGED <<latest, every, own, installed, recorded, asked, turns, files, writers, holder,
                  pruning, delivered, copier>>
  BY DEF ReleaseByVersion, Release, nodeOnly, nodeStore, volumes
<1>3. \A t, isPinned : Wanted(x.q.s, t, isPinned) \in {"needs", "runs"}
  BY DEF Wanted
<1>4. answered' \in 0..Newest
  BY <1>1 DEF ReleaseByVersion, Release, nodeStore
<1>5. Moves
  <2>1. CASE ReleaseByVersion(x)
    <3>1. \/ Replies(x, Wanted(x.q.s, x.pin, TRUE), x.pin)
          \/ Replies(x, "runs", 0)
      BY <2>1 DEF ReleaseByVersion, notFound
    <3>2. QED  BY <1>1, <1>2, <1>3, <3>1, RepliesMoves
  <2>2. CASE Release(x)
    <3>1. 0 \in asked[x.q.s]
      BY <1>1, <2>2 DEF Release
    <3>2. \/ Replies(x, Wanted(x.q.s, latest, FALSE), latest)
          \/ Replies(x, Wanted(x.q.s, answered, FALSE), answered)
          \/ Replies(x, "github", 0)
      BY <2>2 DEF Release
    <3>3. QED  BY <1>1, <1>2, <1>3, <3>1, <3>2, RepliesMoves
  <2>3. QED  BY <2>1, <2>2
<1>6. QED  BY <1>2, <1>4, <1>5, NodeHolds, EggOnlyFacts, SameFiles DEF AddonsTypeOK

(* The file's answer reaches the boot that waits for it.                   *)
LEMMA DeliversMoves ==
    ASSUME AddonsInv, NEW x \in queries, NEW at \in {"fetches", "local"}, Delivers(x, at),
           UNCHANGED <<every, own, asked>>
    PROVE  Moves
<1> DEFINE s == x.q.s
<1>1. s \in Servers /\ \A y \in queries' : AskedWell(y)
  BY EggOnlyFacts, QueryFacts, OldQueries DEF Delivers
<1>2. CASE UNCHANGED boot
  BY <1>1, <1>2, BootStays
<1>3. CASE boot[s].at = "awaits" /\ boot' = [boot EXCEPT ![s].at = at]
  <2>1. at \in Places /\ at \in OnRelease /\ "awaits" \in OnRelease
    BY DEF Places, OnRelease
  <2>2. /\ boot' \in [Servers -> Booted] /\ \A r \in Servers : r # s => boot'[r] = boot[r]
        /\ boot'[s].no = boot[s].no /\ boot'[s].at = at /\ boot'[s].tag = boot[s].tag
    BY <1>1, <1>3, <2>1, EggOnlyFacts DEF Booted
  <2>3. QED  BY <1>1, <1>3, <2>1, <2>2, EggOnlyFacts DEF Moves
<1>4. QED  BY <1>2, <1>3 DEF Delivers

(* Who fetches has the lock, and is the only writer.                       *)
LEMMA FileHolds == ASSUME AddonsInv, NEW x \in queries, File(x) PROVE AddonsInv'
<1> DEFINE v == x.q.want
<1>1. /\ x.at \in OnFiles /\ v \in Releases /\ x.q \in Query /\ x.q # NoQuery
      /\ UNCHANGED <<latest, every, own, installed, recorded, asked, turns, answered, files, pruning,
                     boot, delivered, copier>>
  BY EggOnlyFacts, QueryFacts, NoQueryIsNone DEF File, nodeOnly, volumes, OnFiles
<1>2. Moves
  <2>1. To(x, "opens") \/ To(x, "loads")
    BY DEF File
  <2>2. \A y \in queries' : AskedWell(y)
    BY <1>1, <2>1, ToWell DEF OnFiles
  <2>3. QED  BY <1>1, <2>2, BootStays
<1>3. /\ writers' \in [Releases -> SUBSET Query] /\ holder' \in [Releases -> Query \cup {NoQuery}]
      /\ WritersHold'
  <2>1. CASE UNCHANGED <<writers, holder>>
    BY <2>1, EggOnlyFacts DEF AddonsTypeOK, WritersHold
  <2>2. CASE takeLock(v, x.q) /\ fetch(v, x.q)
    <3>1. /\ holder[v] = NoQuery /\ holder' = [holder EXCEPT ![v] = x.q]
          /\ writers' = [writers EXCEPT ![v] = writers[v] \cup {x.q}]
      BY <2>2 DEF takeLock, fetch
    <3>2. /\ writers \in [Releases -> SUBSET Query] /\ holder \in [Releases -> Query \cup {NoQuery}]
      BY EggOnlyFacts DEF AddonsTypeOK
    <3>3. writers[v] = {}
      BY <1>1, <3>1, EggOnlyFacts DEF WritersHold
    <3>4. /\ writers' \in [Releases -> SUBSET Query] /\ holder' \in [Releases -> Query \cup {NoQuery}]
      BY <1>1, <3>1, <3>2
    <3>5. \A u \in Releases : /\ writers'[u] = (IF u = v THEN {x.q} ELSE writers[u])
                              /\ holder'[u] = (IF u = v THEN x.q ELSE holder[u])
      BY <3>1, <3>2, <3>3
    <3>6. WritersHold'
      BY <1>1, <3>5, EggOnlyFacts DEF WritersHold
    <3>7. QED  BY <3>4, <3>6
  <2>3. QED  BY <2>1, <2>2 DEF File
<1>4. QED  BY <1>1, <1>2, <1>3, NodeHolds, EggOnlyFacts DEF AddonsTypeOK, CachedIsWhole

(* Nobody writes a .part that was renamed, failed or pruned.               *)
LEMMA NoWriter ==
    ASSUME AddonsInv, NEW v \in Releases, writers' = [writers EXCEPT ![v] = {}],
           holder' \in {holder, [holder EXCEPT ![v] = NoQuery]}
    PROVE  /\ writers' \in [Releases -> SUBSET Query] /\ holder' \in [Releases -> Query \cup {NoQuery}]
           /\ WritersHold'
<1>1. /\ writers \in [Releases -> SUBSET Query] /\ holder \in [Releases -> Query \cup {NoQuery}]
  BY EggOnlyFacts DEF AddonsTypeOK
<1>2. \A u \in Releases : /\ writers'[u] = (IF u = v THEN {} ELSE writers[u])
                          /\ (u # v => holder'[u] = holder[u])
  BY <1>1
<1>3. WritersHold'
  BY <1>2, EggOnlyFacts DEF WritersHold
<1>4. QED  BY <1>1, <1>3

LEMMA unlockFacts ==
    ASSUME AddonsInv, NEW v \in Releases, NEW q, unlock(v, q)
    PROVE  holder' \in {holder, [holder EXCEPT ![v] = NoQuery]}
<1>1. holder \in [Releases -> Query \cup {NoQuery}]
  BY EggOnlyFacts DEF AddonsTypeOK
<1>2. QED  BY <1>1 DEF unlock

LEMMA DownloadHolds ==
    ASSUME AddonsInv, NEW x \in queries, Downloaded(x) \/ DownloadFails(x) PROVE AddonsInv'
<1> DEFINE v == x.q.want
<1>1. /\ x.at \in OnFiles /\ v \in Releases
      /\ UNCHANGED <<latest, every, own, installed, recorded, asked, turns, answered, pruning,
                     delivered, copier>>
      /\ writers' = [writers EXCEPT ![v] = {}] /\ unlock(v, x.q)
  BY EggOnlyFacts, QueryFacts DEF Downloaded, DownloadFails, nodeOnly, volumes, OnFiles
<1>2. Moves
  <2>1. CASE Downloaded(x)
    <3>1. To(x, "opens") /\ UNCHANGED boot
      BY <2>1 DEF Downloaded
    <3>2. \A y \in queries' : AskedWell(y)
      BY <1>1, <3>1, ToWell DEF OnFiles
    <3>3. QED  BY <1>1, <3>1, <3>2, BootStays
  <2>2. CASE DownloadFails(x)
    BY <1>1, <2>2, DeliversMoves DEF DownloadFails
  <2>3. QED  BY <2>1, <2>2
<1>3. files' \in [Releases -> {"none", "part", "whole"}] /\ CachedIsWhole'
  <2>1. files \in [Releases -> {"none", "part", "whole"}]
    BY EggOnlyFacts DEF AddonsTypeOK
  <2>2. CASE UNCHANGED files
    BY <2>1, <2>2, EggOnlyFacts DEF CachedIsWhole
  <2>3. CASE Downloaded(x)
    <3>1. writers[v] = {x.q}
      BY <1>1, <2>3, EggOnlyFacts DEF Downloaded, WritersHold
    <3>2. files' = [files EXCEPT ![v] = "whole"]
      BY <2>3, <3>1 DEF Downloaded
    <3>3. QED  BY <1>1, <2>1, <3>2, EggOnlyFacts DEF CachedIsWhole
  <2>4. QED  BY <2>2, <2>3 DEF DownloadFails
<1>4. /\ writers' \in [Releases -> SUBSET Query] /\ holder' \in [Releases -> Query \cup {NoQuery}]
      /\ WritersHold'
  BY <1>1, NoWriter, unlockFacts
<1>5. QED  BY <1>1, <1>2, <1>3, <1>4, NodeHolds, EggOnlyFacts DEF AddonsTypeOK

LEMMA DeliverHolds ==
    ASSUME AddonsInv, NEW x \in queries, Opens(x) \/ Deliver(x) PROVE AddonsInv'
<1>1. /\ x.at \in OnFiles /\ x.q.s \in Servers /\ x.q \in Query
      /\ UNCHANGED <<latest, every, own, installed, recorded, asked, turns, answered, files, writers,
                     holder, pruning>>
  BY EggOnlyFacts, QueryFacts DEF Opens, Deliver, nodeOnly, nodeStore, OnFiles
<1>2. Moves
  <2>1. CASE \E at \in {"fetches", "local"} : Delivers(x, at)
    BY <1>1, <2>1, DeliversMoves
  <2>2. CASE To(x, "copies") /\ UNCHANGED boot
    <3>1. \A y \in queries' : AskedWell(y)
      BY <1>1, <2>2, ToWell DEF OnFiles
    <3>2. QED  BY <1>1, <2>2, <3>1, BootStays
  <2>3. QED  BY <2>1, <2>2 DEF Opens, Deliver
<1>3. /\ delivered' \in [Servers -> {"none", "part", "whole"}]
      /\ copier' \in [Servers -> Query \cup {NoQuery}]
  BY <1>1, EggOnlyFacts DEF Opens, Deliver, AddonsTypeOK
<1>4. QED  BY <1>1, <1>2, <1>3, NodeHolds, EggOnlyFacts, SameFiles DEF AddonsTypeOK

LEMMA PruneHolds == ASSUME AddonsInv, NEW v \in Releases, Prune(v) PROVE AddonsInv'
<1>1. /\ UNCHANGED <<latest, every, own, installed, recorded, asked, answered, holder, queries, boot,
                     delivered, copier>>
      /\ \/ Turn /\ pruning' = v /\ UNCHANGED <<files, writers>>
         \/ /\ pruning' = 0 /\ UNCHANGED turns
            /\ files' = [files EXCEPT ![v] = "none"] /\ writers' = [writers EXCEPT ![v] = {}]
  BY DEF Prune, volumes
<1>2. pruning' \in 0..Newest /\ turns' \in 0..MaxTurns
  <2>1. turns \in 0..MaxTurns /\ v \in 0..Newest /\ 0 \in 0..Newest
    BY EggOnlyFacts, AddonsAssumption DEF AddonsTypeOK, Releases
  <2>2. QED  BY <1>1, <2>1, AddonsAssumption DEF Turn
<1>3. Moves
  BY <1>1, BootStays, EggOnlyFacts, OldQueries
<1>4. /\ files' \in [Releases -> {"none", "part", "whole"}] /\ CachedIsWhole'
      /\ writers' \in [Releases -> SUBSET Query] /\ WritersHold'
  <2>1. CASE UNCHANGED <<files, writers>>
    BY <1>1, <2>1, EggOnlyFacts, SameFiles DEF AddonsTypeOK
  <2>2. CASE files' = [files EXCEPT ![v] = "none"] /\ writers' = [writers EXCEPT ![v] = {}]
    <3>1. /\ writers' \in [Releases -> SUBSET Query] /\ WritersHold'
      BY <1>1, <2>2, NoWriter
    <3>2. QED  BY <2>2, <3>1, EggOnlyFacts DEF AddonsTypeOK, CachedIsWhole
  <2>3. QED  BY <1>1, <2>1, <2>2
<1>5. QED  BY <1>1, <1>2, <1>3, <1>4, NodeHolds, EggOnlyFacts DEF AddonsTypeOK

LEMMA NodeRestartsHolds == ASSUME AddonsInv, NodeRestarts PROVE AddonsInv'
<1>1. /\ queries' = {} /\ pruning' = 0
      /\ writers' = [v \in Releases |-> {}] /\ holder' = [v \in Releases |-> NoQuery]
      /\ copier' = [s \in Servers |-> NoQuery]
      /\ UNCHANGED <<latest, every, own, answered, files, boot, delivered, installed, recorded, asked>>
  BY DEF NodeRestarts
<1>2. 0 \in 0..Newest /\ turns' \in 0..MaxTurns
  <2>1. turns \in 0..MaxTurns
    BY EggOnlyFacts DEF AddonsTypeOK
  <2>2. QED  BY <2>1, AddonsAssumption DEF NodeRestarts, Turn
<1>3. Moves
  BY <1>1, BootStays
<1>4. WritersHold' /\ CachedIsWhole'
  BY <1>1, EggOnlyFacts DEF WritersHold, CachedIsWhole
<1>5. QED  BY <1>1, <1>2, <1>3, <1>4, NodeHolds, EggOnlyFacts DEF AddonsTypeOK

LEMMA AddonsStepHolds == AddonsInv /\ [AddonsNext]_addonVars => AddonsInv'
<1> SUFFICES ASSUME AddonsInv, [AddonsNext]_addonVars PROVE AddonsInv'
  OBVIOUS
<1>1. CASE UNCHANGED addonVars
  <2>1. UNCHANGED <<latest, every, own, answered, files, writers, holder, pruning, queries, boot,
                    delivered, copier, installed, recorded, asked, turns>>
    BY <1>1 DEF addonVars, nodeStore, volumes
  <2>2. Moves
    BY <2>1, BootStays, OldQueries
  <2>3. QED  BY <2>1, <2>2, NodeHolds, EggOnlyFacts, SameFiles DEF AddonsTypeOK
<1>2. ASSUME NEW s \in Servers, Boot(s) \/ Stops(s) \/ Update(s) PROVE AddonsInv'
  BY <1>2, BootHolds, StopsHolds, AsksHolds, NoAnswerHolds, GitHubHolds, InstallsHolds DEF Update
<1>3. ASSUME NEW x \in queries,
             \/ Answer(x) \/ ReleaseByVersion(x) \/ Release(x) \/ File(x) \/ Downloaded(x)
             \/ DownloadFails(x) \/ Opens(x) \/ Deliver(x)
      PROVE  AddonsInv'
  BY <1>3, AnswerHolds, ReleaseHolds, FileHolds, DownloadHolds, DeliverHolds
<1>4. QED
  BY <1>1, <1>2, <1>3, ChangePinsHolds, ReleasedHolds, NodeRestartsHolds, PruneHolds DEF AddonsNext

(* addoncache's File: a file under its name in the cache is whole, for any *)
(* number of servers, queries and releases, because the rename comes from  *)
(* who holds the url's lock and nobody else writes its .part.              *)
THEOREM CacheStaysWhole == AddonsSpec => []CachedIsWhole
<1>1. AddonsInv => CachedIsWhole
  BY DEF AddonsInv
<1>2. QED  BY <1>1, AddonsInitHolds, AddonsStepHolds, PTL DEF AddonsSpec

(* What an egg records is a pin of its boot, or it had none. *)
LEMMA RecordsPinned ==
    AddonsInv /\ [AddonsNext]_addonVars =>
        \A s \in Servers : recorded'[s] # recorded[s] => recorded'[s] \in asked[s] \/ 0 \in asked[s]
<1>1. ASSUME AddonsInv, [AddonsNext]_addonVars, NEW s \in Servers, recorded'[s] # recorded[s]
      PROVE  recorded'[s] \in asked[s] \/ 0 \in asked[s]
  <2>1. PICK r \in Servers : Records(r)
    <3>1. ASSUME NEW r \in Servers, Update(r), ~Records(r)
          PROVE  recorded' = recorded
      BY <3>1 DEF Update, Asks, NoAnswer, GitHub, Fetches, TakesLocal, Unpacks, Copies
    <3>2. ASSUME NEW r \in Servers, Boot(r) \/ Stops(r)
          PROVE  recorded' = recorded
      BY <3>2 DEF Boot, Stops
    <3>3. ASSUME ChangePins \/ Released \/ NodeRestarts \/ \E v \in Releases : Prune(v)
          PROVE  recorded' = recorded
      BY <3>3 DEF ChangePins, Released, NodeRestarts, Prune
    <3>4. ASSUME NEW x \in queries,
                 \/ Answer(x) \/ ReleaseByVersion(x) \/ Release(x) \/ File(x) \/ Downloaded(x)
                 \/ DownloadFails(x) \/ Opens(x) \/ Deliver(x)
          PROVE  recorded' = recorded
      BY <3>4 DEF Answer, ReleaseByVersion, Release, File, Downloaded, DownloadFails, Opens, Deliver,
                  nodeOnly
    <3>5. UNCHANGED addonVars => recorded' = recorded
      BY DEF addonVars
    <3>6. QED  BY <1>1, <3>1, <3>2, <3>3, <3>4, <3>5 DEF AddonsNext
  <2>2. recorded' = [recorded EXCEPT ![r] = boot[r].tag] /\ boot[r].at = "records"
    BY <2>1 DEF Records
  <2>3. recorded \in [Servers -> 0..Newest]
    BY <1>1, EggOnlyFacts DEF AddonsTypeOK
  <2>4. s = r /\ recorded'[s] = boot[s].tag
    BY <1>1, <2>2, <2>3
  <2>5. QED  BY <1>1, <2>2, <2>4, EggOnlyFacts DEF PinsAsked, OnRelease
<1>2. QED  BY <1>1

(* For any pins, changed at any time, any order of answers, restarts of    *)
(* the node and boots: what an egg records is a release it was pinned to   *)
(* while it asked, unless it had no pin or got no answer.                  *)
THEOREM AnsweredPinsHold == AddonsSpec => AnsweredPinHolds
<1>1. QED  BY RecordsPinned, AddonsInitHolds, AddonsStepHolds, PTL DEF AddonsSpec, AnsweredPinHolds

-----------------------------------------------------------------------------
(* EggGuard: the picture of the clients *)

Fields == {"clients", "ip2uid", "name2uid", "ipTrusted", "connSince", "ip2steamid",
           "counters", "cooldown", "mute", "swept"}

(* What the maps of s say of the engine.  A name leads to the client that  *)
(* has it, an address to one that plays from it, and is trusted only while *)
(* somebody does; a SteamID is kept with the time of its accept.  A client *)
(* whose address nobody shared is trusted for as long as trustAge says,    *)
(* because the guard's time of the address is no older.                    *)
Pictures(s) ==
    /\ DOMAIN s = Fields
    /\ DOMAIN s.clients = Live
    /\ \A u \in Live : s.clients[u] = [ip |-> IPOf[slot[u]], name |-> NameOf[slot[u]],
                                       trusted |-> u \in joined]
    /\ \A u \in Live : /\ NameOf[slot[u]] \in DOMAIN s.name2uid
                       /\ s.name2uid[NameOf[slot[u]]] = u
    /\ \A ip \in DOMAIN s.ip2uid : s.ip2uid[ip] \in On(ip)
    /\ \A ip \in s.ipTrusted : On(ip) # {}
    /\ DOMAIN s.ip2steamid \subseteq DOMAIN s.connSince
    /\ \A ip \in DOMAIN s.connSince : s.connSince[ip] \in ConnAge
    /\ \A u \in joined : IPOf[slot[u]] \notin crowded =>
          /\ IPOf[slot[u]] \in DOMAIN s.connSince => s.connSince[IPOf[slot[u]]] <= trustAge[u]
          /\ trustAge[u] <= StrangerTTL => IPOf[slot[u]] \in s.ipTrusted

(* Two clients on one address have crowded it.                             *)
Seated ==
    /\ slot \in [Uids -> Players \cup {NoPlayer}] /\ joined \subseteq Live
    /\ trustAge \in [Uids -> ConnAge]
    /\ \A u, v \in Live : u # v /\ IPOf[slot[u]] = IPOf[slot[v]] => IPOf[slot[u]] \in crowded

GuardInv == Seated /\ Pictures(g)

(* Two tables that show the same clients, whatever they counted. *)
SamePicture(s, t) ==
    /\ DOMAIN t = DOMAIN s
    /\ t.clients = s.clients
    /\ t.ip2uid = s.ip2uid
    /\ t.name2uid = s.name2uid
    /\ t.ipTrusted = s.ipTrusted
    /\ t.connSince = s.connSince
    /\ t.ip2steamid = s.ip2steamid

LEMMA DropFacts ==
    ASSUME NEW f, NEW S
    PROVE  /\ DOMAIN Drop(f, S) = DOMAIN f \ S
           /\ \A x \in DOMAIN f \ S : Drop(f, S)[x] = f[x]
  BY DEF Drop, Restrict

LEMMA GuardInitHolds == GuardInit => GuardInv
<1>1. ASSUME GuardInit
      PROVE  Live = {} /\ joined = {} /\ slot \in [Uids -> Players \cup {NoPlayer}]
             /\ trustAge \in [Uids -> ConnAge]
  BY <1>1, GuardAssumption DEF GuardInit, Live, ConnAge
<1>2. ASSUME GuardInit
      PROVE  /\ DOMAIN g = Fields
             /\ g.clients = <<>>
             /\ g.ip2uid = <<>>
             /\ g.name2uid = <<>>
             /\ g.ipTrusted = {}
             /\ g.connSince = <<>>
             /\ g.ip2steamid = <<>>
  BY <1>2 DEF GuardInit, Fields
<1>3. DOMAIN <<>> = {}
  OBVIOUS
<1>4. QED  BY <1>1, <1>2, <1>3 DEF GuardInv, Seated, Pictures

-----------------------------------------------------------------------------
(* The sweep *)

LEMMA sweepFacts ==
    ASSUME NEW s, DOMAIN s = Fields
    PROVE  /\ DOMAIN sweep(s) = Fields
           /\ sweep(s).clients = s.clients
           /\ sweep(s).name2uid = s.name2uid
           /\ sweep(s).ipTrusted = s.ipTrusted \ Strangers(s)
           /\ sweep(s).connSince = Drop(s.connSince, Strangers(s))
           /\ sweep(s).ip2steamid = Drop(s.ip2steamid, Strangers(s))
           /\ \E S : sweep(s).ip2uid = Drop(s.ip2uid, S)
<1> DEFINE gone == Strangers(s)
<1> DEFINE s1 == [s EXCEPT !.swept = 0]
<1> DEFINE s2 == [s1 EXCEPT !.counters = Drop(@, {k \in DOMAIN @ : @[k].age > MaxRuleWindow})]
<1> DEFINE s3 == [s2 EXCEPT !.cooldown = <<>>]
<1> DEFINE s4 == [s3 EXCEPT !.connSince = Drop(@, gone)]
<1> DEFINE s5 == [s4 EXCEPT !.ip2steamid = Drop(@, gone)]
<1> DEFINE s6 == [s5 EXCEPT !.ipTrusted = @ \ gone]
<1> DEFINE dead == {ip \in gone \cap DOMAIN s6.ip2uid : s6.ip2uid[ip] \notin DOMAIN s.clients}
<1> DEFINE s7 == [s6 EXCEPT !.ip2uid = Drop(@, dead)]
<1>0. sweep(s) = s7
  BY DEF sweep
<1>1. SamePicture(s, s1)
  BY DEF SamePicture, Fields
<1> HIDE DEF s1
<1>2. SamePicture(s, s2)
  BY <1>1 DEF SamePicture, Fields
<1> HIDE DEF s2
<1>3. SamePicture(s, s3)
  BY <1>2 DEF SamePicture, Fields
<1> HIDE DEF s3, gone
<1>4. /\ DOMAIN s4 = Fields
      /\ s4.clients = s.clients
      /\ s4.name2uid = s.name2uid
      /\ s4.ip2uid = s.ip2uid
      /\ s4.ipTrusted = s.ipTrusted
      /\ s4.ip2steamid = s.ip2steamid
      /\ s4.connSince = Drop(s.connSince, gone)
  BY <1>3 DEF SamePicture, Fields
<1> HIDE DEF s4
<1>5. /\ DOMAIN s5 = Fields
      /\ s5.clients = s.clients
      /\ s5.name2uid = s.name2uid
      /\ s5.ip2uid = s.ip2uid
      /\ s5.ipTrusted = s.ipTrusted
      /\ s5.ip2steamid = Drop(s.ip2steamid, gone)
      /\ s5.connSince = Drop(s.connSince, gone)
  BY <1>4 DEF Fields
<1> HIDE DEF s5
<1>6. /\ DOMAIN s6 = Fields
      /\ s6.clients = s.clients
      /\ s6.name2uid = s.name2uid
      /\ s6.ip2uid = s.ip2uid
      /\ s6.ipTrusted = s.ipTrusted \ gone
      /\ s6.ip2steamid = Drop(s.ip2steamid, gone)
      /\ s6.connSince = Drop(s.connSince, gone)
  BY <1>5 DEF Fields
<1> HIDE DEF s6, dead
<1>7. /\ DOMAIN s7 = Fields
      /\ s7.clients = s.clients
      /\ s7.name2uid = s.name2uid
      /\ s7.ip2uid = Drop(s.ip2uid, dead)
      /\ s7.ipTrusted = s.ipTrusted \ gone
      /\ s7.ip2steamid = Drop(s.ip2steamid, gone)
      /\ s7.connSince = Drop(s.connSince, gone)
  BY <1>6 DEF Fields
<1>8. QED  BY <1>0, <1>7 DEF gone

(* A sweep takes nobody's trust within the time a stranger is remembered. *)
LEMMA sweepShows ==
    ASSUME GuardInv
    PROVE  Pictures(sweep(g))
<1> DEFINE t == sweep(g)
<1>1. Seated /\ Pictures(g) /\ DOMAIN g = Fields
  BY DEF GuardInv, Pictures
<1>2. /\ DOMAIN t = Fields
      /\ t.clients = g.clients
      /\ t.name2uid = g.name2uid
      /\ t.ipTrusted = g.ipTrusted \ Strangers(g)
      /\ t.connSince = Drop(g.connSince, Strangers(g))
      /\ t.ip2steamid = Drop(g.ip2steamid, Strangers(g))
  BY <1>1, sweepFacts
<1>3. PICK S : t.ip2uid = Drop(g.ip2uid, S)
  BY <1>1, sweepFacts
<1> HIDE DEF t
<1>4. \A ip \in DOMAIN t.ip2uid : t.ip2uid[ip] \in On(ip)
  <2>1. /\ DOMAIN Drop(g.ip2uid, S) = DOMAIN g.ip2uid \ S
        /\ \A ip \in DOMAIN g.ip2uid \ S : Drop(g.ip2uid, S)[ip] = g.ip2uid[ip]
    BY DropFacts
  <2>2. \A ip \in DOMAIN g.ip2uid : g.ip2uid[ip] \in On(ip)
    BY <1>1 DEF Pictures
  <2>3. QED  BY <1>3, <2>1, <2>2
<1>5. /\ DOMAIN t.connSince = DOMAIN g.connSince \ Strangers(g)
      /\ \A ip \in DOMAIN t.connSince : t.connSince[ip] = g.connSince[ip]
      /\ DOMAIN t.ip2steamid = DOMAIN g.ip2steamid \ Strangers(g)
  <2> DEFINE gone == Strangers(g)
  <2> HIDE DEF gone
  <2>1. /\ DOMAIN Drop(g.connSince, gone) = DOMAIN g.connSince \ gone
        /\ \A ip \in DOMAIN g.connSince \ gone : Drop(g.connSince, gone)[ip] = g.connSince[ip]
    BY DropFacts
  <2>2. DOMAIN Drop(g.ip2steamid, gone) = DOMAIN g.ip2steamid \ gone
    BY DropFacts
  <2>3. t.connSince = Drop(g.connSince, gone) /\ t.ip2steamid = Drop(g.ip2steamid, gone)
    BY <1>2 DEF gone
  <2>4. /\ DOMAIN t.connSince = DOMAIN g.connSince \ gone
        /\ \A ip \in DOMAIN t.connSince : t.connSince[ip] = g.connSince[ip]
        /\ DOMAIN t.ip2steamid = DOMAIN g.ip2steamid \ gone
    BY <2>1, <2>2, <2>3
  <2>5. QED  BY <2>4 DEF gone
<1>6. ASSUME NEW u \in joined, IPOf[slot[u]] \notin crowded
      PROVE  /\ IPOf[slot[u]] \in DOMAIN t.connSince
                  => t.connSince[IPOf[slot[u]]] <= trustAge[u]
             /\ trustAge[u] <= StrangerTTL => IPOf[slot[u]] \in t.ipTrusted
  <2> DEFINE ip == IPOf[slot[u]]
  <2>1. /\ ip \in DOMAIN g.connSince => g.connSince[ip] <= trustAge[u]
        /\ ip \in DOMAIN g.connSince => g.connSince[ip] \in Nat
        /\ trustAge[u] <= StrangerTTL => ip \in g.ipTrusted
    BY <1>1, <1>6, GuardAssumption DEF Pictures, ConnAge
  <2>2. trustAge[u] \in Nat /\ StrangerTTL \in Nat
    BY <1>1, GuardAssumption DEF Seated, ConnAge, Live
  <2>3. ASSUME ip \in Strangers(g)
        PROVE  ip \in DOMAIN g.connSince /\ g.connSince[ip] > StrangerTTL
    BY <2>3 DEF Strangers
  <2> HIDE DEF ip
  <2>4. trustAge[u] <= StrangerTTL => ip \notin Strangers(g)
    BY <2>1, <2>2, <2>3
  <2>5. QED  BY <1>2, <1>5, <2>1, <2>4 DEF ip
<1>7. Pictures(t)
  BY <1>1, <1>2, <1>4, <1>5, <1>6 DEF Pictures
<1>8. QED  BY <1>7 DEF t

LEMMA GShows == GuardInv => Pictures(G)
  BY sweepShows DEF GuardInv, G

-----------------------------------------------------------------------------
(* Lines that only count, mute or report *)

LEMMA CountersShow ==
    ASSUME NEW s, DOMAIN s = Fields, NEW m
    PROVE  /\ SamePicture(s, [s EXCEPT !.counters = m])
           /\ SamePicture(s, [s EXCEPT !.cooldown = m])
           /\ SamePicture(s, [s EXCEPT !.mute = m])
  BY DEF SamePicture, Fields

LEMMA SameAgain ==
    ASSUME NEW s, NEW t, NEW r, SamePicture(s, t), SamePicture(t, r)
    PROVE  SamePicture(s, r)
  BY DEF SamePicture

LEMMA SameSelf == \A s : SamePicture(s, s)
  BY DEF SamePicture

LEMMA bumpShows ==
    ASSUME NEW s, DOMAIN s = Fields, NEW rule, NEW key
    PROVE  SamePicture(s, bump(s, rule, key))
<1>1. CASE rule \notin Enabled
  BY <1>1, SameSelf DEF bump
<1>2. CASE rule \in Enabled
  <2> DEFINE m == Put(s.counters, <<rule, key>>, counted(s, rule, key))
  <2>1. bump(s, rule, key) = [s EXCEPT !.counters = m]
    BY <1>2 DEF bump
  <2> HIDE DEF m
  <2>2. SamePicture(s, [s EXCEPT !.counters = m])
    BY CountersShow
  <2>3. QED  BY <2>1, <2>2
<1>3. QED  BY <1>1, <1>2

LEMMA muteAddShows ==
    ASSUME NEW s, DOMAIN s = Fields, NEW ip
    PROVE  SamePicture(s, muteAdd(s, ip))
<1> DEFINE keys == {ip} \cup {s.ip2steamid[i] : i \in {ip} \cap DOMAIN s.ip2steamid}
<1> DEFINE m == [k \in keys \cup DOMAIN s.mute |-> IF k \in keys THEN BanTime ELSE s.mute[k]]
<1>1. muteAdd(s, ip) = s \/ muteAdd(s, ip) = [s EXCEPT !.mute = m]
  BY DEF muteAdd
<1> HIDE DEF m
<1>2. QED  BY <1>1, CountersShow, SameSelf

LEMMA reactedShows ==
    ASSUME NEW s, DOMAIN s = Fields, NEW uid, NEW ip
    PROVE  SamePicture(s, reacted(s, uid, ip))
<1> DEFINE m == Put(s.cooldown, CooldownKey(uid, ip), 0)
<1> DEFINE t == [s EXCEPT !.cooldown = m]
<1>1. reacted(s, uid, ip) = t \/ reacted(s, uid, ip) = muteAdd(t, ip)
  BY DEF reacted
<1> HIDE DEF m
<1>2. SamePicture(s, t)
  BY CountersShow
<1> HIDE DEF t
<1>3. DOMAIN t = Fields
  BY <1>2 DEF SamePicture
<1>4. SamePicture(t, muteAdd(t, ip))
  BY <1>3, muteAddShows
<1>5. QED  BY <1>1, <1>2, <1>4, SameAgain

LEMMA countShows ==
    ASSUME NEW rule, NEW key, NEW uid, NEW ip, DOMAIN G = Fields, count(rule, key, uid, ip)
    PROVE  SamePicture(G, g')
<1> DEFINE s == bump(G, rule, key)
<1>1. g' = s \/ g' = reacted(s, uid, ip)
  BY DEF count
<1>2. SamePicture(G, s)
  BY bumpShows
<1> HIDE DEF s
<1>3. DOMAIN s = Fields
  BY <1>2 DEF SamePicture
<1>4. SamePicture(s, reacted(s, uid, ip))
  BY <1>3, reactedShows
<1>5. QED  BY <1>1, <1>2, <1>4, SameAgain

(* The picture of a table, seen in the next state. *)
LEMMA StillShows ==
    ASSUME NEW s, Seated, Pictures(s), SamePicture(s, g'),
           UNCHANGED <<slot, joined, trustAge, crowded>>
    PROVE  GuardInv'
<1>1. Live' = Live /\ \A ip : On(ip)' = On(ip)
  BY DEF Live, On
<1>2. Seated'
  BY <1>1 DEF Seated
<1>3. Pictures(g')
  BY DEF Pictures, SamePicture
<1>4. Pictures(g)'
  BY <1>1, <1>3 DEF Pictures
<1>5. QED  BY <1>2, <1>4 DEF GuardInv

LEMMA SuspectHolds ==
    ASSUME GuardInv,
           NEW ip, NEW rule, NEW name,
           \/ stray(ip) \/ malformed(ip) \/ connectFlood(ip) \/ rconBan(ip) \/ keepalive(ip)
           \/ aboutClient(rule, name)
    PROVE  GuardInv'
<1>1. Seated /\ Pictures(G) /\ DOMAIN G = Fields
  BY GShows DEF GuardInv, Pictures
<1>2. suspect /\ (ignore \/ \E r, key, uid, i : count(r, key, uid, i))
  <2>1. CASE stray(ip)
    BY <2>1 DEF stray
  <2>2. CASE malformed(ip) \/ rconBan(ip)
    BY <2>2 DEF malformed, rconBan
  <2>3. CASE connectFlood(ip)
    BY <2>3 DEF connectFlood
  <2>4. CASE keepalive(ip)
    BY <2>4 DEF keepalive
  <2>5. CASE aboutClient(rule, name)
    BY <2>5 DEF aboutClient
  <2>6. QED  BY <2>1, <2>2, <2>3, <2>4, <2>5
<1>3. SamePicture(G, g')
  BY <1>1, <1>2, countShows, SameSelf DEF ignore
<1>4. UNCHANGED <<slot, joined, trustAge, crowded>>
  BY <1>2 DEF suspect, engineVars
<1>5. QED  BY <1>1, <1>3, <1>4, StillShows

LEMMA ChatHolds ==
    ASSUME GuardInv, NEW u, chat(u)
    PROVE  GuardInv'
<1>1. g' = G /\ UNCHANGED <<slot, joined, trustAge, crowded>>
  BY DEF chat, engineVars
<1>2. QED  BY <1>1, GShows, SameSelf, StillShows DEF GuardInv

LEMMA NoticeHolds ==
    ASSUME GuardInv, NEW ip, NEW uid, HostNotice(ip, uid)
    PROVE  GuardInv'
<1>1. g' \in {g, muteAdd(g, ip)} /\ UNCHANGED <<slot, joined, trustAge, crowded>>
  BY DEF HostNotice, engineVars
<1>2. Pictures(g) /\ DOMAIN g = Fields
  BY DEF GuardInv, Pictures
<1>3. CASE g' = muteAdd(g, ip)
  BY <1>1, <1>2, <1>3, muteAddShows, StillShows DEF GuardInv
<1>4. CASE g' = g
  BY <1>1, <1>2, <1>4, SameSelf, StillShows DEF GuardInv
<1>5. QED  BY <1>1, <1>3, <1>4

-----------------------------------------------------------------------------
(* Clients come and go *)

(* What the picture says of a client and of its address. *)
LEMMA ClientFacts ==
    ASSUME GuardInv, NEW u \in Live
    PROVE  /\ Known(G, u) /\ slot[u] \in Players
           /\ IPOf[slot[u]] # NoIP /\ ipOf(G, u) = IPOf[slot[u]]
           /\ G.clients[u] = [ip |-> IPOf[slot[u]], name |-> NameOf[slot[u]],
                              trusted |-> u \in joined]
           /\ Named(NameOf[slot[u]]) = u
           /\ \A v \in Live : NameOf[slot[v]] = NameOf[slot[u]] => v = u
<1>1. Seated /\ Pictures(G)
  BY GShows DEF GuardInv
<1>2. /\ u \in DOMAIN G.clients
      /\ G.clients[u] = [ip |-> IPOf[slot[u]], name |-> NameOf[slot[u]], trusted |-> u \in joined]
      /\ \A v \in Live : /\ NameOf[slot[v]] \in DOMAIN G.name2uid
                         /\ G.name2uid[NameOf[slot[v]]] = v
  BY <1>1 DEF Pictures
<1>3. slot[u] \in Players
  BY <1>1 DEF Seated, Live
<1>4. IPOf[slot[u]] # NoIP
  BY <1>3, GuardAssumption DEF IPs
<1>5. G.clients[u].ip = IPOf[slot[u]]
  BY <1>2
<1>6. ipOf(G, u) = IPOf[slot[u]] /\ Known(G, u)
  BY <1>2, <1>5 DEF ipOf, Known
<1>7. Named(NameOf[slot[u]]) = u
  BY <1>2 DEF Named, Lookup
<1>8. QED  BY <1>2, <1>3, <1>4, <1>6, <1>7

LEMMA acceptFields ==
    ASSUME GuardInv, NEW ip, accept(ip)
    PROVE  /\ DOMAIN g' = Fields
           /\ g'.clients = G.clients
           /\ g'.ip2uid = G.ip2uid
           /\ g'.name2uid = G.name2uid
           /\ g'.ipTrusted = G.ipTrusted
           /\ DOMAIN g'.connSince = DOMAIN G.connSince \cup {ip}
           /\ \A i \in DOMAIN G.connSince : g'.connSince[i] = G.connSince[i]
           /\ ip \notin DOMAIN G.connSince => g'.connSince[ip] = 0
           /\ DOMAIN g'.ip2steamid \subseteq DOMAIN G.ip2steamid \cup {ip}
<1>1. DOMAIN G = Fields
  BY GShows DEF Pictures
<1>2. PICK sid \in SteamIDs \cup {"no steamid"} :
        g' = [G EXCEPT !.connSince = IF ip \in DOMAIN @ THEN @ ELSE Put(@, ip, 0),
                       !.ip2steamid = IF sid \in SteamIDs THEN Put(@, ip, sid) ELSE @]
  BY DEF accept
<1> DEFINE since == IF ip \in DOMAIN G.connSince THEN G.connSince ELSE Put(G.connSince, ip, 0)
<1> DEFINE s == [G EXCEPT !.connSince = since]
<1> DEFINE steam == IF sid \in SteamIDs THEN Put(s.ip2steamid, ip, sid) ELSE s.ip2steamid
<1>3. g' = [s EXCEPT !.ip2steamid = steam]
  BY <1>2
<1>4. /\ DOMAIN since = DOMAIN G.connSince \cup {ip}
      /\ \A i \in DOMAIN G.connSince : since[i] = G.connSince[i]
      /\ ip \notin DOMAIN G.connSince => since[ip] = 0
  <2> DEFINE f == G.connSince
  <2> HIDE DEF f
  <2>1. /\ DOMAIN Put(f, ip, 0) = DOMAIN f \cup {ip}
        /\ Put(f, ip, 0)[ip] = 0
        /\ \A i \in DOMAIN f : i # ip => Put(f, ip, 0)[i] = f[i]
    BY DEF Put
  <2>2. since = IF ip \in DOMAIN f THEN f ELSE Put(f, ip, 0)
    BY DEF f
  <2> HIDE DEF since
  <2>3. /\ DOMAIN since = DOMAIN f \cup {ip}
        /\ \A i \in DOMAIN f : since[i] = f[i]
        /\ ip \notin DOMAIN f => since[ip] = 0
    BY <2>1, <2>2
  <2>4. QED  BY <2>3 DEF f
<1> HIDE DEF since
<1>5. /\ DOMAIN s = Fields
      /\ s.clients = G.clients
      /\ s.ip2uid = G.ip2uid
      /\ s.name2uid = G.name2uid
      /\ s.ipTrusted = G.ipTrusted
      /\ s.connSince = since
      /\ s.ip2steamid = G.ip2steamid
  BY <1>1 DEF Fields
<1>6. DOMAIN steam \subseteq DOMAIN G.ip2steamid \cup {ip}
  <2> DEFINE f == G.ip2steamid
  <2> HIDE DEF s, f
  <2>1. DOMAIN Put(f, ip, sid) = DOMAIN f \cup {ip}
    BY DEF Put
  <2>2. steam = f \/ steam = Put(f, ip, sid)
    BY <1>5 DEF f
  <2> HIDE DEF steam
  <2>3. DOMAIN steam \subseteq DOMAIN f \cup {ip}
    BY <2>1, <2>2
  <2>4. QED  BY <2>3 DEF f
<1> HIDE DEF s, steam
<1>7. /\ DOMAIN g' = Fields
      /\ g'.clients = G.clients
      /\ g'.ip2uid = G.ip2uid
      /\ g'.name2uid = G.name2uid
      /\ g'.ipTrusted = G.ipTrusted
      /\ g'.connSince = since
      /\ g'.ip2steamid = steam
  BY <1>3, <1>5 DEF Fields
<1>8. QED  BY <1>4, <1>6, <1>7

LEMMA AcceptHolds ==
    ASSUME GuardInv, NEW ip, accept(ip)
    PROVE  GuardInv'
<1>1. Seated /\ Pictures(G)
  BY GShows DEF GuardInv
<1>2. UNCHANGED <<slot, joined, trustAge, crowded>>
  BY DEF accept, engineVars
<1>3. Live' = Live /\ \A i : On(i)' = On(i)
  BY <1>2 DEF Live, On
<1>4. Seated'
  BY <1>1, <1>2, <1>3 DEF Seated
<1>5. /\ DOMAIN g' = Fields
      /\ g'.clients = G.clients
      /\ g'.ip2uid = G.ip2uid
      /\ g'.name2uid = G.name2uid
      /\ g'.ipTrusted = G.ipTrusted
      /\ DOMAIN g'.connSince = DOMAIN G.connSince \cup {ip}
      /\ \A i \in DOMAIN G.connSince : g'.connSince[i] = G.connSince[i]
      /\ ip \notin DOMAIN G.connSince => g'.connSince[ip] = 0
      /\ DOMAIN g'.ip2steamid \subseteq DOMAIN G.ip2steamid \cup {ip}
  BY acceptFields
<1>6. /\ 0 \in ConnAge
      /\ \A u \in joined : trustAge[u] \in Nat
  BY <1>1, GuardAssumption DEF ConnAge, Seated, Live
<1>7. DOMAIN g'.ip2steamid \subseteq DOMAIN g'.connSince
  BY <1>1, <1>5 DEF Pictures
<1>8. \A i \in DOMAIN g'.connSince : g'.connSince[i] \in ConnAge
  BY <1>1, <1>5, <1>6 DEF Pictures
<1>9. ASSUME NEW u \in joined, IPOf[slot[u]] \notin crowded
      PROVE  /\ IPOf[slot[u]] \in DOMAIN g'.connSince
                  => g'.connSince[IPOf[slot[u]]] <= trustAge[u]
             /\ trustAge[u] <= StrangerTTL => IPOf[slot[u]] \in g'.ipTrusted
  <2>1. /\ IPOf[slot[u]] \in DOMAIN G.connSince => G.connSince[IPOf[slot[u]]] <= trustAge[u]
        /\ trustAge[u] <= StrangerTTL => IPOf[slot[u]] \in G.ipTrusted
    BY <1>1, <1>9 DEF Pictures
  <2>2. 0 <= trustAge[u]
    BY <1>6
  <2>3. QED  BY <1>5, <2>1, <2>2
<1>10. Pictures(g')
  BY <1>1, <1>5, <1>7, <1>8, <1>9 DEF Pictures
<1>11. Pictures(g)'
  BY <1>2, <1>3, <1>10 DEF Pictures
<1>12. QED  BY <1>4, <1>11 DEF GuardInv

LEMMA connectFields ==
    ASSUME GuardInv, NEW p, NEW u, g' = met(G, p, u)
    PROVE  /\ DOMAIN g' = Fields
           /\ g'.clients = Put(G.clients, u, [ip |-> IPOf[p], name |-> NameOf[p], trusted |-> FALSE])
           /\ g'.ip2uid = Put(G.ip2uid, IPOf[p], u)
           /\ g'.name2uid = Put(G.name2uid, NameOf[p], u)
           /\ g'.ipTrusted = G.ipTrusted
           /\ g'.connSince = G.connSince
           /\ g'.ip2steamid = G.ip2steamid
<1> DEFINE c == Put(G.clients, u, [ip |-> IPOf[p], name |-> NameOf[p], trusted |-> FALSE])
<1> DEFINE s == [G EXCEPT !.clients = c]
<1> DEFINE t == [s EXCEPT !.ip2uid = Put(@, IPOf[p], u)]
<1>1. DOMAIN G = Fields
  BY GShows DEF Pictures
<1>2. g' = [t EXCEPT !.name2uid = Put(@, NameOf[p], u)]
  BY DEF met
<1> HIDE DEF c
<1>3. /\ DOMAIN s = Fields
      /\ s.clients = c
      /\ s.ip2uid = G.ip2uid
      /\ s.name2uid = G.name2uid
      /\ s.ipTrusted = G.ipTrusted
      /\ s.connSince = G.connSince
      /\ s.ip2steamid = G.ip2steamid
  BY <1>1 DEF Fields
<1> HIDE DEF s
<1>4. /\ DOMAIN t = Fields
      /\ t.clients = c
      /\ t.ip2uid = Put(G.ip2uid, IPOf[p], u)
      /\ t.name2uid = G.name2uid
      /\ t.ipTrusted = G.ipTrusted
      /\ t.connSince = G.connSince
      /\ t.ip2steamid = G.ip2steamid
  BY <1>3 DEF Fields
<1> HIDE DEF t
<1>5. /\ DOMAIN g' = Fields
      /\ g'.clients = c
      /\ g'.ip2uid = Put(G.ip2uid, IPOf[p], u)
      /\ g'.name2uid = Put(G.name2uid, NameOf[p], u)
      /\ g'.ipTrusted = G.ipTrusted
      /\ g'.connSince = G.connSince
      /\ g'.ip2steamid = G.ip2steamid
  BY <1>2, <1>4 DEF Fields
<1>6. QED  BY <1>5 DEF c

LEMMA ConnectHolds ==
    ASSUME GuardInv, NEW p \in Players, NEW u \in Uids, connect(p, u)
    PROVE  GuardInv'
<1> DEFINE ip == IPOf[p]
<1> DEFINE c == [ip |-> IPOf[p], name |-> NameOf[p], trusted |-> FALSE]
<1>1. Seated /\ Pictures(G)
  BY GShows DEF GuardInv
<1>2. /\ slot[u] = NoPlayer
      /\ slot' = [slot EXCEPT ![u] = p]
      /\ \A v \in Live : NameOf[slot[v]] # NameOf[p]
      /\ joined' = joined
      /\ trustAge' = trustAge
      /\ crowded' = IF On(ip) = {} THEN crowded ELSE crowded \cup {ip}
      /\ g' = met(G, p, u)
  BY DEF connect
<1>3. /\ slot' \in [Uids -> Players \cup {NoPlayer}]
      /\ slot'[u] = p
      /\ u \notin Live
      /\ Live' = Live \cup {u}
      /\ \A v \in Live : v # u /\ slot'[v] = slot[v]
      /\ joined \subseteq Live
      /\ u \notin joined
  BY <1>1, <1>2, GuardAssumption DEF Seated, Live
<1>4. \A i : On(i) \subseteq On(i)' /\ u \in On(ip)'
  BY <1>3 DEF On
<1>5. /\ DOMAIN g' = Fields
      /\ g'.clients = Put(G.clients, u, c)
      /\ g'.ip2uid = Put(G.ip2uid, ip, u)
      /\ g'.name2uid = Put(G.name2uid, NameOf[p], u)
      /\ g'.ipTrusted = G.ipTrusted
      /\ g'.connSince = G.connSince
      /\ g'.ip2steamid = G.ip2steamid
  BY <1>2, connectFields
<1>6. Seated'
  <2>1. ASSUME NEW v \in Live', NEW w \in Live', v # w, IPOf[slot'[v]] = IPOf[slot'[w]]
        PROVE  IPOf[slot'[v]] \in crowded'
    <3>1. CASE v \in Live /\ w \in Live
      BY <1>1, <1>2, <1>3, <2>1, <3>1 DEF Seated
    <3>2. CASE v = u \/ w = u
      <4>1. On(ip) # {} /\ IPOf[slot'[v]] = ip
        BY <1>3, <2>1, <3>2 DEF On
      <4>2. QED  BY <1>2, <4>1
    <3>3. QED  BY <1>3, <2>1, <3>1, <3>2
  <2>2. QED  BY <1>1, <1>2, <1>3, <2>1 DEF Seated
<1>7. /\ DOMAIN g'.clients = Live'
      /\ \A v \in Live' : g'.clients[v] = [ip |-> IPOf[slot'[v]], name |-> NameOf[slot'[v]],
                                           trusted |-> v \in joined']
  <2> DEFINE f == G.clients
  <2> HIDE DEF c, f
  <2>0. /\ DOMAIN Put(f, u, c) = DOMAIN f \cup {u}
        /\ Put(f, u, c)[u] = c
        /\ \A v \in DOMAIN f : v # u => Put(f, u, c)[v] = f[v]
    BY DEF Put
  <2>1. /\ DOMAIN g'.clients = DOMAIN f \cup {u}
        /\ g'.clients[u] = c
        /\ \A v \in DOMAIN f : v # u => g'.clients[v] = f[v]
    BY <1>5, <2>0 DEF f
  <2>2. /\ DOMAIN f = Live
        /\ \A v \in Live : f[v] = [ip |-> IPOf[slot[v]], name |-> NameOf[slot[v]],
                                   trusted |-> v \in joined]
    BY <1>1 DEF Pictures, f
  <2>3. \A v \in Live : g'.clients[v] = [ip |-> IPOf[slot'[v]], name |-> NameOf[slot'[v]],
                                         trusted |-> v \in joined']
    BY <1>2, <1>3, <2>1, <2>2
  <2>4. g'.clients[u] = [ip |-> IPOf[slot'[u]], name |-> NameOf[slot'[u]], trusted |-> u \in joined']
    <3>1. (u \in joined') = FALSE
      BY <1>2, <1>3
    <3>2. c = [ip |-> IPOf[slot'[u]], name |-> NameOf[slot'[u]], trusted |-> u \in joined']
      BY <1>3, <3>1 DEF c
    <3>3. QED  BY <2>1, <3>2
  <2>5. DOMAIN g'.clients = Live'
    BY <1>3, <2>1, <2>2
  <2>6. QED  BY <1>3, <2>3, <2>4, <2>5
<1>8. \A v \in Live' : /\ NameOf[slot'[v]] \in DOMAIN g'.name2uid
                       /\ g'.name2uid[NameOf[slot'[v]]] = v
  <2> DEFINE n == NameOf[p]
  <2> DEFINE f == G.name2uid
  <2>0. n = NameOf[p] /\ g'.name2uid = Put(f, n, u)
    BY <1>5
  <2> HIDE DEF n, f
  <2>1. /\ DOMAIN Put(f, n, u) = DOMAIN f \cup {n}
        /\ Put(f, n, u)[n] = u
        /\ \A x \in DOMAIN f : x # n => Put(f, n, u)[x] = f[x]
    BY DEF Put
  <2>2. \A v \in Live : /\ NameOf[slot[v]] \in DOMAIN f
                        /\ f[NameOf[slot[v]]] = v
    BY <1>1 DEF Pictures, f
  <2>3. QED  BY <1>2, <1>3, <2>0, <2>1, <2>2
<1>9. \A i \in DOMAIN g'.ip2uid : g'.ip2uid[i] \in On(i)'
  <2> DEFINE f == G.ip2uid
  <2>0. g'.ip2uid = Put(f, ip, u) /\ u \in On(ip)'
    BY <1>4, <1>5
  <2> HIDE DEF ip, f
  <2>1. /\ DOMAIN Put(f, ip, u) = DOMAIN f \cup {ip}
        /\ Put(f, ip, u)[ip] = u
        /\ \A x \in DOMAIN f : x # ip => Put(f, ip, u)[x] = f[x]
    BY DEF Put
  <2>2. \A i \in DOMAIN f : f[i] \in On(i)
    BY <1>1 DEF Pictures, f
  <2>3. QED  BY <1>4, <2>0, <2>1, <2>2
<1>10. ASSUME NEW v \in joined', IPOf[slot'[v]] \notin crowded'
       PROVE  /\ IPOf[slot'[v]] \in DOMAIN g'.connSince
                   => g'.connSince[IPOf[slot'[v]]] <= trustAge'[v]
              /\ trustAge'[v] <= StrangerTTL => IPOf[slot'[v]] \in g'.ipTrusted
  <2>1. v \in joined /\ slot'[v] = slot[v] /\ IPOf[slot[v]] \notin crowded
    BY <1>2, <1>3, <1>10
  <2>2. QED  BY <1>1, <1>2, <1>5, <2>1 DEF Pictures
<1>11. /\ \A i \in g'.ipTrusted : On(i)' # {}
       /\ DOMAIN g'.ip2steamid \subseteq DOMAIN g'.connSince
       /\ \A i \in DOMAIN g'.connSince : g'.connSince[i] \in ConnAge
  BY <1>1, <1>4, <1>5 DEF Pictures
<1>12. Pictures(g)'
  BY <1>5, <1>7, <1>8, <1>9, <1>10, <1>11 DEF Pictures
<1>13. QED  BY <1>6, <1>12 DEF GuardInv

(* The names differ, so that only the client itself is told apart. *)
LEMMA signonFields ==
    ASSUME GuardInv, NEW u \in Live, NEW full \in BOOLEAN, signon(u, full)
    PROVE  /\ DOMAIN g' = Fields
           /\ g'.name2uid = Put(G.name2uid, NameOf[slot[u]], u)
           /\ g'.ip2uid = G.ip2uid
           /\ g'.connSince = G.connSince
           /\ g'.ip2steamid = G.ip2steamid
           /\ g'.clients = IF full THEN Put(G.clients, u, [G.clients[u] EXCEPT !.trusted = TRUE])
                           ELSE G.clients
           /\ g'.ipTrusted = IF full THEN G.ipTrusted \cup {IPOf[slot[u]]} ELSE G.ipTrusted
<1> DEFINE name == NameOf[slot[u]]
<1> DEFINE names == Put(G.name2uid, name, u)
<1> DEFINE s == [G EXCEPT !.name2uid = names]
<1> DEFINE c == Put(G.clients, u, [G.clients[u] EXCEPT !.trusted = TRUE])
<1> DEFINE t == [s EXCEPT !.clients = c]
<1>1. DOMAIN G = Fields /\ Known(G, u) /\ G.clients[u].ip = IPOf[slot[u]] /\ IPOf[slot[u]] # NoIP
  <2>1. DOMAIN G = Fields
    BY GShows DEF Pictures
  <2>2. /\ Known(G, u) /\ IPOf[slot[u]] # NoIP
        /\ G.clients[u] = [ip |-> IPOf[slot[u]], name |-> name, trusted |-> u \in joined]
    BY ClientFacts
  <2>3. G.clients[u].ip = IPOf[slot[u]]
    BY <2>2
  <2>4. QED  BY <2>1, <2>2, <2>3
<1>2. s.clients = G.clients /\ s.ipTrusted = G.ipTrusted
  BY <1>1 DEF Fields
<1>3. full => g' = [t EXCEPT !.ipTrusted = G.ipTrusted \cup {IPOf[slot[u]]}]
  BY <1>1, <1>2 DEF signon
<1>4. ~full => g' = s
  BY DEF signon
<1> HIDE DEF names
<1>5. /\ DOMAIN s = Fields
      /\ s.clients = G.clients
      /\ s.ip2uid = G.ip2uid
      /\ s.name2uid = names
      /\ s.ipTrusted = G.ipTrusted
      /\ s.connSince = G.connSince
      /\ s.ip2steamid = G.ip2steamid
  BY <1>1 DEF Fields
<1> HIDE DEF s, c
<1>6. /\ DOMAIN t = Fields
      /\ t.clients = c
      /\ t.ip2uid = G.ip2uid
      /\ t.name2uid = names
      /\ t.connSince = G.connSince
      /\ t.ip2steamid = G.ip2steamid
  BY <1>5 DEF Fields
<1> HIDE DEF t
<1>7. CASE full
  <2>1. /\ DOMAIN g' = Fields
        /\ g'.clients = c
        /\ g'.ip2uid = G.ip2uid
        /\ g'.name2uid = names
        /\ g'.ipTrusted = G.ipTrusted \cup {IPOf[slot[u]]}
        /\ g'.connSince = G.connSince
        /\ g'.ip2steamid = G.ip2steamid
    BY <1>3, <1>6, <1>7 DEF Fields
  <2>2. QED  BY <1>7, <2>1 DEF c, names
<1>8. CASE ~full
  BY <1>4, <1>5, <1>8 DEF names
<1>9. QED  BY <1>7, <1>8

LEMMA TrustedForm ==
    ASSUME NEW ip, NEW name, NEW b, NEW r, NEW c,
           r = [ip |-> ip, name |-> name, trusted |-> b]
    PROVE  [r EXCEPT !.trusted = c] = [ip |-> ip, name |-> name, trusted |-> c]
  OBVIOUS

LEMMA SignonHolds ==
    ASSUME GuardInv, NEW u \in Uids, NEW full \in BOOLEAN, signon(u, full)
    PROVE  GuardInv'
<1> DEFINE ip == IPOf[slot[u]]
<1> DEFINE name == NameOf[slot[u]]
<1>1. Seated /\ Pictures(G)
  BY GShows DEF GuardInv
<1>2. /\ u \in Live
      /\ slot' = slot
      /\ crowded' = crowded
      /\ ~full => joined' = joined /\ trustAge' = trustAge
      /\ full => joined' = joined \cup {u}
  BY DEF signon
<1>3. /\ slot[u] \in Players
      /\ G.clients[u] = [ip |-> ip, name |-> name, trusted |-> u \in joined]
      /\ \A v \in Live : NameOf[slot[v]] = name => v = u
      /\ ip # NoIP
      /\ Known(G, u)
  BY <1>2, ClientFacts
<1>4. full => trustAge' = [trustAge EXCEPT ![u] =
                              IF ip \in DOMAIN G.connSince THEN G.connSince[ip] ELSE 0]
  <2>1. G.clients[u].ip = ip
    BY <1>3
  <2>2. QED  BY <1>3, <2>1 DEF signon
<1>5. /\ DOMAIN g' = Fields
      /\ g'.name2uid = Put(G.name2uid, name, u)
      /\ g'.ip2uid = G.ip2uid
      /\ g'.connSince = G.connSince
      /\ g'.ip2steamid = G.ip2steamid
      /\ g'.clients = IF full THEN Put(G.clients, u, [G.clients[u] EXCEPT !.trusted = TRUE])
                      ELSE G.clients
      /\ g'.ipTrusted = IF full THEN G.ipTrusted \cup {ip} ELSE G.ipTrusted
  BY <1>2, signonFields
<1>6. Live' = Live /\ \A i : On(i)' = On(i)
  BY <1>2 DEF Live, On
<1>7. Seated'
  <2>1. \A i \in DOMAIN G.connSince : G.connSince[i] \in ConnAge
    BY <1>1 DEF Pictures
  <2>2. 0 \in ConnAge
    BY GuardAssumption DEF ConnAge
  <2>3. trustAge' \in [Uids -> ConnAge]
    BY <1>1, <1>2, <1>4, <2>1, <2>2 DEF Seated
  <2>4. QED  BY <1>1, <1>2, <1>6, <2>3 DEF Seated
<1>8. /\ DOMAIN g'.clients = Live'
      /\ \A v \in Live' : g'.clients[v] = [ip |-> IPOf[slot'[v]], name |-> NameOf[slot'[v]],
                                           trusted |-> v \in joined']
  <2> DEFINE f == G.clients
  <2> DEFINE c == [f[u] EXCEPT !.trusted = TRUE]
  <2>1. /\ DOMAIN f = Live
        /\ \A v \in Live : f[v] = [ip |-> IPOf[slot[v]], name |-> NameOf[slot[v]],
                                   trusted |-> v \in joined]
    BY <1>1 DEF Pictures
  <2>2. CASE ~full
    BY <1>2, <1>5, <1>6, <2>1, <2>2
  <2>3. CASE full
    <3>1. g'.clients = Put(f, u, c)
      BY <1>5, <2>3
    <3>2. c = [ip |-> ip, name |-> name, trusted |-> TRUE]
      <4> DEFINE b == u \in joined
      <4>1. f[u] = [ip |-> ip, name |-> name, trusted |-> b]
        BY <1>3
      <4> DEFINE yes == TRUE
      <4>2. c = [f[u] EXCEPT !.trusted = yes]
        OBVIOUS
      <4> HIDE DEF b, c, f, ip, name, yes
      <4>3. [f[u] EXCEPT !.trusted = yes] = [ip |-> ip, name |-> name, trusted |-> yes]
        BY <4>1, TrustedForm
      <4>4. c = [ip |-> ip, name |-> name, trusted |-> yes]
        BY <4>2, <4>3
      <4>5. QED  BY <4>4 DEF yes
    <3>3. (u \in joined') = TRUE
      BY <1>2, <2>3
    <3>4. c = [ip |-> IPOf[slot'[u]], name |-> NameOf[slot'[u]], trusted |-> u \in joined']
      BY <1>2, <3>2, <3>3
    <3> HIDE DEF f, c
    <3>5. /\ DOMAIN Put(f, u, c) = DOMAIN f \cup {u}
          /\ Put(f, u, c)[u] = c
          /\ \A v \in DOMAIN f : v # u => Put(f, u, c)[v] = f[v]
      BY DEF Put
    <3>6. ASSUME NEW v \in Live, v # u
          PROVE  g'.clients[v] = [ip |-> IPOf[slot'[v]], name |-> NameOf[slot'[v]],
                                  trusted |-> v \in joined']
      <4>1. (v \in joined') = (v \in joined)
        BY <1>2, <2>3, <3>6
      <4>2. g'.clients[v] = f[v]
        BY <2>1, <3>1, <3>5, <3>6
      <4>3. QED  BY <1>2, <2>1, <4>1, <4>2
    <3>7. g'.clients[u] = [ip |-> IPOf[slot'[u]], name |-> NameOf[slot'[u]],
                           trusted |-> u \in joined']
      BY <3>1, <3>4, <3>5
    <3>8. DOMAIN g'.clients = Live'
      BY <1>2, <1>6, <2>1, <3>1, <3>5
    <3>9. QED  BY <1>6, <3>6, <3>7, <3>8
  <2>4. QED  BY <2>2, <2>3
<1>9. \A v \in Live' : /\ NameOf[slot'[v]] \in DOMAIN g'.name2uid
                       /\ g'.name2uid[NameOf[slot'[v]]] = v
  <2> DEFINE f == G.name2uid
  <2>1. \A v \in Live : /\ NameOf[slot[v]] \in DOMAIN f
                        /\ f[NameOf[slot[v]]] = v
    BY <1>1 DEF Pictures
  <2>2. g'.name2uid = Put(f, name, u)
    BY <1>5
  <2> HIDE DEF name, f
  <2>3. /\ DOMAIN Put(f, name, u) = DOMAIN f \cup {name}
        /\ Put(f, name, u)[name] = u
        /\ \A x \in DOMAIN f : x # name => Put(f, name, u)[x] = f[x]
    BY DEF Put
  <2>4. QED  BY <1>2, <1>3, <1>6, <2>1, <2>2, <2>3
<1>10. ASSUME NEW v \in joined', IPOf[slot'[v]] \notin crowded'
       PROVE  /\ IPOf[slot'[v]] \in DOMAIN g'.connSince
                   => g'.connSince[IPOf[slot'[v]]] <= trustAge'[v]
              /\ trustAge'[v] <= StrangerTTL => IPOf[slot'[v]] \in g'.ipTrusted
  <2>1. CASE full /\ v = u
    <3>1. trustAge'[v] = IF ip \in DOMAIN G.connSince THEN G.connSince[ip] ELSE 0
      BY <1>1, <1>4, <2>1 DEF Seated
    <3>2. ip \in DOMAIN G.connSince => G.connSince[ip] \in Nat
      BY <1>1, GuardAssumption DEF Pictures, ConnAge
    <3>3. QED  BY <1>2, <1>5, <2>1, <3>1, <3>2
  <2>2. CASE ~full \/ v # u
    <3>1. v \in joined /\ trustAge'[v] = trustAge[v] /\ IPOf[slot[v]] \notin crowded
      <4>1. v \in joined /\ IPOf[slot[v]] \notin crowded
        BY <1>2, <1>10, <2>2
      <4>2. v \in Uids /\ trustAge \in [Uids -> ConnAge]
        BY <1>1, <4>1 DEF Seated, Live
      <4>3. CASE ~full
        BY <1>2, <4>1, <4>3
      <4>4. CASE full
        <5>1. v # u
          BY <2>2, <4>4
        <5> HIDE DEF ip
        <5>2. QED  BY <1>4, <4>1, <4>2, <4>4, <5>1
      <4>5. QED  BY <4>3, <4>4
    <3>2. /\ IPOf[slot[v]] \in DOMAIN G.connSince => G.connSince[IPOf[slot[v]]] <= trustAge[v]
          /\ trustAge[v] <= StrangerTTL => IPOf[slot[v]] \in G.ipTrusted
      BY <1>1, <3>1 DEF Pictures
    <3>3. QED  BY <1>2, <1>5, <3>1, <3>2
  <2>3. QED  BY <2>1, <2>2
<1>11. \A i \in g'.ipTrusted : On(i)' # {}
  <2>1. u \in On(ip)
    BY <1>2 DEF On
  <2>2. QED  BY <1>1, <1>5, <1>6, <2>1 DEF Pictures
<1>12. /\ \A i \in DOMAIN g'.ip2uid : g'.ip2uid[i] \in On(i)'
       /\ DOMAIN g'.ip2steamid \subseteq DOMAIN g'.connSince
       /\ \A i \in DOMAIN g'.connSince : g'.connSince[i] \in ConnAge
  BY <1>1, <1>5, <1>6 DEF Pictures
<1>13. Pictures(g)'
  BY <1>5, <1>8, <1>9, <1>10, <1>11, <1>12 DEF Pictures
<1>14. QED  BY <1>7, <1>13 DEF GuardInv

LEMMA droppedFields ==
    ASSUME GuardInv, NEW u \in Live, dropped(u)
    PROVE  /\ DOMAIN g' = Fields
           /\ g'.clients = Drop(G.clients, {u})
           /\ g'.name2uid = Drop(G.name2uid, {NameOf[slot[u]]})
           /\ g'.ip2uid = Drop(G.ip2uid, {IPOf[slot[u]]})
           /\ g'.ipTrusted = G.ipTrusted \ {IPOf[slot[u]]}
           /\ g'.connSince = Drop(G.connSince, {IPOf[slot[u]]})
           /\ g'.ip2steamid = Drop(G.ip2steamid, {IPOf[slot[u]]})
<1> DEFINE ip == IPOf[slot[u]]
<1> DEFINE name == NameOf[slot[u]]
<1> DEFINE s1 == [G EXCEPT !.ip2uid = Drop(@, {ip})]
<1> DEFINE s2 == [s1 EXCEPT !.ipTrusted = @ \ {ip}]
<1> DEFINE s3 == [s2 EXCEPT !.connSince = Drop(@, {ip})]
<1> DEFINE s4 == [s3 EXCEPT !.ip2steamid = Drop(@, {ip})]
<1> DEFINE s5 == [s4 EXCEPT !.clients = Drop(@, {u})]
<1> DEFINE s6 == [s5 EXCEPT !.name2uid = Drop(@, {name})]
<1>1. DOMAIN G = Fields /\ Named(name) = u /\ ipOf(G, u) = ip /\ ip # NoIP
  BY GShows, ClientFacts DEF Pictures
<1>2. forget(G, ip) = s4
  BY DEF forget
<1>3. g' = s6
  BY <1>1, <1>2 DEF dropped
<1> HIDE DEF ip, name
<1>4. /\ DOMAIN s1 = Fields
      /\ s1.clients = G.clients
      /\ s1.name2uid = G.name2uid
      /\ s1.ip2uid = Drop(G.ip2uid, {ip})
      /\ s1.ipTrusted = G.ipTrusted
      /\ s1.connSince = G.connSince
      /\ s1.ip2steamid = G.ip2steamid
  BY <1>1 DEF Fields
<1> HIDE DEF s1
<1>5. /\ DOMAIN s2 = Fields
      /\ s2.clients = G.clients
      /\ s2.name2uid = G.name2uid
      /\ s2.ip2uid = Drop(G.ip2uid, {ip})
      /\ s2.ipTrusted = G.ipTrusted \ {ip}
      /\ s2.connSince = G.connSince
      /\ s2.ip2steamid = G.ip2steamid
  BY <1>4 DEF Fields
<1> HIDE DEF s2
<1>6. /\ DOMAIN s3 = Fields
      /\ s3.clients = G.clients
      /\ s3.name2uid = G.name2uid
      /\ s3.ip2uid = Drop(G.ip2uid, {ip})
      /\ s3.ipTrusted = G.ipTrusted \ {ip}
      /\ s3.connSince = Drop(G.connSince, {ip})
      /\ s3.ip2steamid = G.ip2steamid
  BY <1>5 DEF Fields
<1> HIDE DEF s3
<1>7. /\ DOMAIN s4 = Fields
      /\ s4.clients = G.clients
      /\ s4.name2uid = G.name2uid
      /\ s4.ip2uid = Drop(G.ip2uid, {ip})
      /\ s4.ipTrusted = G.ipTrusted \ {ip}
      /\ s4.connSince = Drop(G.connSince, {ip})
      /\ s4.ip2steamid = Drop(G.ip2steamid, {ip})
  BY <1>6 DEF Fields
<1> HIDE DEF s4
<1>8. /\ DOMAIN s5 = Fields
      /\ s5.clients = Drop(G.clients, {u})
      /\ s5.name2uid = G.name2uid
      /\ s5.ip2uid = Drop(G.ip2uid, {ip})
      /\ s5.ipTrusted = G.ipTrusted \ {ip}
      /\ s5.connSince = Drop(G.connSince, {ip})
      /\ s5.ip2steamid = Drop(G.ip2steamid, {ip})
  BY <1>7 DEF Fields
<1> HIDE DEF s5
<1>9. /\ DOMAIN s6 = Fields
      /\ s6.clients = Drop(G.clients, {u})
      /\ s6.name2uid = Drop(G.name2uid, {name})
      /\ s6.ip2uid = Drop(G.ip2uid, {ip})
      /\ s6.ipTrusted = G.ipTrusted \ {ip}
      /\ s6.connSince = Drop(G.connSince, {ip})
      /\ s6.ip2steamid = Drop(G.ip2steamid, {ip})
  BY <1>8 DEF Fields
<1>10. QED  BY <1>3, <1>9 DEF ip, name

(* The leave of one client takes no other's trust: two on one address have *)
(* crowded it.                                                             *)
LEMMA DroppedHolds ==
    ASSUME GuardInv, NEW u \in Uids, dropped(u)
    PROVE  GuardInv'
<1> DEFINE ip == IPOf[slot[u]]
<1> DEFINE name == NameOf[slot[u]]
<1>1. Seated /\ Pictures(G)
  BY GShows DEF GuardInv
<1>2. /\ u \in Live
      /\ slot' = [slot EXCEPT ![u] = NoPlayer]
      /\ joined' = joined \ {u}
      /\ crowded' = IF On(ip) = {u} THEN crowded \ {ip} ELSE crowded
      /\ trustAge' = [trustAge EXCEPT ![u] = 0]
  BY DEF dropped
<1>3. \A v \in Live : NameOf[slot[v]] = name => v = u
  BY <1>2, ClientFacts
<1>4. /\ slot' \in [Uids -> Players \cup {NoPlayer}]
      /\ Live' = Live \ {u}
      /\ \A v \in Live' : v \in Live /\ v # u /\ slot'[v] = slot[v] /\ trustAge'[v] = trustAge[v]
      /\ joined' \subseteq Live'
  BY <1>1, <1>2 DEF Seated, Live
<1>5. \A i : On(i)' = On(i) \ {u}
  BY <1>4 DEF On
<1>6. /\ DOMAIN g' = Fields
      /\ g'.clients = Drop(G.clients, {u})
      /\ g'.name2uid = Drop(G.name2uid, {name})
      /\ g'.ip2uid = Drop(G.ip2uid, {ip})
      /\ g'.ipTrusted = G.ipTrusted \ {ip}
      /\ g'.connSince = Drop(G.connSince, {ip})
      /\ g'.ip2steamid = Drop(G.ip2steamid, {ip})
  BY <1>2, droppedFields
<1>7. ASSUME NEW v \in Live'
      PROVE  /\ IPOf[slot'[v]] \in crowded => IPOf[slot'[v]] \in crowded'
             /\ IPOf[slot'[v]] \notin crowded'
                  => IPOf[slot'[v]] \notin crowded /\ IPOf[slot'[v]] # ip
  <2>1. v \in Live /\ v # u /\ slot'[v] = slot[v]
    BY <1>4
  <2>2. On(ip) = {u} => IPOf[slot[v]] # ip
    BY <2>1 DEF On
  <2>3. IPOf[slot[v]] = ip => ip \in crowded
    BY <1>1, <1>2, <2>1 DEF Seated
  <2>4. QED  BY <1>2, <2>1, <2>2, <2>3
<1>8. Seated'
  <2>1. 0 \in ConnAge
    BY GuardAssumption DEF ConnAge
  <2>2. trustAge' \in [Uids -> ConnAge]
    BY <1>1, <1>2, <2>1 DEF Seated
  <2>3. ASSUME NEW v \in Live', NEW w \in Live', v # w, IPOf[slot'[v]] = IPOf[slot'[w]]
        PROVE  IPOf[slot'[v]] \in crowded'
    BY <1>1, <1>4, <1>7, <2>3 DEF Seated
  <2>4. QED  BY <1>4, <2>2, <2>3 DEF Seated
<1>9. /\ DOMAIN g'.clients = Live'
      /\ \A v \in Live' : g'.clients[v] = [ip |-> IPOf[slot'[v]], name |-> NameOf[slot'[v]],
                                           trusted |-> v \in joined']
  <2> DEFINE f == G.clients
  <2>1. /\ DOMAIN f = Live
        /\ \A v \in Live : f[v] = [ip |-> IPOf[slot[v]], name |-> NameOf[slot[v]],
                                   trusted |-> v \in joined]
    BY <1>1 DEF Pictures
  <2>2. g'.clients = Drop(f, {u})
    BY <1>6
  <2> HIDE DEF f
  <2>3. /\ DOMAIN Drop(f, {u}) = DOMAIN f \ {u}
        /\ \A v \in DOMAIN f \ {u} : Drop(f, {u})[v] = f[v]
    BY DropFacts
  <2>4. ASSUME NEW v \in Live'
        PROVE  g'.clients[v] = [ip |-> IPOf[slot'[v]], name |-> NameOf[slot'[v]],
                                trusted |-> v \in joined']
    <3>1. (v \in joined') = (v \in joined)
      BY <1>2, <1>4
    <3>2. g'.clients[v] = f[v]
      BY <1>4, <2>1, <2>2, <2>3
    <3>3. QED  BY <1>4, <2>1, <3>1, <3>2
  <2>5. QED  BY <1>4, <2>1, <2>2, <2>3, <2>4
<1>10. \A v \in Live' : /\ NameOf[slot'[v]] \in DOMAIN g'.name2uid
                        /\ g'.name2uid[NameOf[slot'[v]]] = v
  <2> DEFINE f == G.name2uid
  <2>1. \A v \in Live : /\ NameOf[slot[v]] \in DOMAIN f
                        /\ f[NameOf[slot[v]]] = v
    BY <1>1 DEF Pictures
  <2>2. g'.name2uid = Drop(f, {name})
    BY <1>6
  <2> HIDE DEF name, f
  <2>3. /\ DOMAIN Drop(f, {name}) = DOMAIN f \ {name}
        /\ \A v \in DOMAIN f \ {name} : Drop(f, {name})[v] = f[v]
    BY DropFacts
  <2>4. ASSUME NEW v \in Live'
        PROVE  /\ NameOf[slot'[v]] \in DOMAIN g'.name2uid
               /\ g'.name2uid[NameOf[slot'[v]]] = v
    <3>1. v \in Live /\ slot'[v] = slot[v] /\ NameOf[slot[v]] # name
      BY <1>3, <1>4
    <3>2. NameOf[slot[v]] \in DOMAIN f \ {name} /\ f[NameOf[slot[v]]] = v
      BY <2>1, <3>1
    <3>3. QED  BY <2>2, <2>3, <3>1, <3>2
  <2>5. QED  BY <2>4
<1>11. \A i \in DOMAIN g'.ip2uid : g'.ip2uid[i] \in On(i)'
  <2> DEFINE f == G.ip2uid
  <2>1. \A i \in DOMAIN f : f[i] \in On(i)
    BY <1>1 DEF Pictures
  <2>2. g'.ip2uid = Drop(f, {ip})
    BY <1>6
  <2>3. \A i : u \in On(i) => i = ip
    BY DEF On
  <2> HIDE DEF ip, f
  <2>4. /\ DOMAIN Drop(f, {ip}) = DOMAIN f \ {ip}
        /\ \A v \in DOMAIN f \ {ip} : Drop(f, {ip})[v] = f[v]
    BY DropFacts
  <2>5. QED  BY <1>5, <2>1, <2>2, <2>3, <2>4
<1>12. \A i \in g'.ipTrusted : On(i)' # {}
  <2>1. \A i : u \in On(i) => i = ip
    BY DEF On
  <2>2. \A i \in G.ipTrusted : On(i) # {}
    BY <1>1 DEF Pictures
  <2>3. QED  BY <1>5, <1>6, <2>1, <2>2
<1>13. /\ DOMAIN g'.connSince = DOMAIN G.connSince \ {ip}
       /\ \A i \in DOMAIN g'.connSince : g'.connSince[i] = G.connSince[i]
       /\ DOMAIN g'.ip2steamid = DOMAIN G.ip2steamid \ {ip}
  <2> DEFINE f == G.connSince
  <2> DEFINE h == G.ip2steamid
  <2>1. g'.connSince = Drop(f, {ip}) /\ g'.ip2steamid = Drop(h, {ip})
    BY <1>6
  <2> HIDE DEF ip, f, h
  <2>2. /\ DOMAIN Drop(f, {ip}) = DOMAIN f \ {ip}
        /\ \A v \in DOMAIN f \ {ip} : Drop(f, {ip})[v] = f[v]
    BY DropFacts
  <2>3. DOMAIN Drop(h, {ip}) = DOMAIN h \ {ip}
    BY DropFacts
  <2>4. /\ DOMAIN g'.connSince = DOMAIN f \ {ip}
        /\ \A i \in DOMAIN g'.connSince : g'.connSince[i] = f[i]
        /\ DOMAIN g'.ip2steamid = DOMAIN h \ {ip}
    BY <2>1, <2>2, <2>3
  <2>5. QED  BY <2>4 DEF f, h
<1>14. ASSUME NEW v \in joined', IPOf[slot'[v]] \notin crowded'
       PROVE  /\ IPOf[slot'[v]] \in DOMAIN g'.connSince
                   => g'.connSince[IPOf[slot'[v]]] <= trustAge'[v]
              /\ trustAge'[v] <= StrangerTTL => IPOf[slot'[v]] \in g'.ipTrusted
  <2>1. v \in joined /\ slot'[v] = slot[v] /\ trustAge'[v] = trustAge[v]
        /\ IPOf[slot[v]] \notin crowded /\ IPOf[slot[v]] # ip
    BY <1>2, <1>4, <1>7, <1>14
  <2>2. /\ IPOf[slot[v]] \in DOMAIN G.connSince => G.connSince[IPOf[slot[v]]] <= trustAge[v]
        /\ trustAge[v] <= StrangerTTL => IPOf[slot[v]] \in G.ipTrusted
    BY <1>1, <2>1 DEF Pictures
  <2>3. QED  BY <1>6, <1>13, <2>1, <2>2
<1>15. /\ DOMAIN g'.ip2steamid \subseteq DOMAIN g'.connSince
       /\ \A i \in DOMAIN g'.connSince : g'.connSince[i] \in ConnAge
  BY <1>1, <1>13 DEF Pictures
<1>16. Pictures(g)'
  BY <1>6, <1>9, <1>10, <1>11, <1>12, <1>14, <1>15 DEF Pictures
<1>17. QED  BY <1>8, <1>16 DEF GuardInv

-----------------------------------------------------------------------------
(* Time, and the theorems *)

LEMMA timeFields ==
    ASSUME DOMAIN g = Fields, timePasses
    PROVE  /\ DOMAIN g' = Fields
           /\ g'.clients = g.clients
           /\ g'.ip2uid = g.ip2uid
           /\ g'.name2uid = g.name2uid
           /\ g'.ipTrusted = g.ipTrusted
           /\ g'.ip2steamid = g.ip2steamid
           /\ g'.connSince = [ip \in DOMAIN g.connSince |-> Older(g.connSince[ip], StrangerTTL + 1)]
<1> DEFINE since == [ip \in DOMAIN g.connSince |-> Older(g.connSince[ip], StrangerTTL + 1)]
<1> DEFINE s1 == [g EXCEPT !.swept = Older(@, SweepEvery)]
<1> DEFINE s2 == [s1 EXCEPT !.connSince = [ip \in DOMAIN @ |-> Older(@[ip], StrangerTTL + 1)]]
<1> DEFINE s3 == [s2 EXCEPT !.counters =
                     [k \in DOMAIN @ |-> [age |-> Older(@[k].age, MaxRuleWindow + 1), n |-> @[k].n]]]
<1> DEFINE s4 == [s3 EXCEPT !.cooldown = [k \in DOMAIN @ |-> Older(@[k], Cooldown)]]
<1> DEFINE s5 == [s4 EXCEPT !.mute = [k \in {m \in DOMAIN @ : @[m] > 1} |-> @[k] - 1]]
<1>1. g' = s5
  BY DEF timePasses
<1>2. SamePicture(g, s1)
  BY DEF SamePicture, Fields
<1> HIDE DEF s1
<1>3. /\ DOMAIN s2 = Fields
      /\ s2.clients = g.clients
      /\ s2.ip2uid = g.ip2uid
      /\ s2.name2uid = g.name2uid
      /\ s2.ipTrusted = g.ipTrusted
      /\ s2.ip2steamid = g.ip2steamid
      /\ s2.connSince = since
  BY <1>2 DEF SamePicture, Fields
<1> HIDE DEF s2
<1>4. SamePicture(s2, s3)
  BY <1>3, CountersShow
<1> HIDE DEF s3
<1>5. DOMAIN s3 = Fields
  BY <1>3, <1>4 DEF SamePicture
<1>6. SamePicture(s3, s4)
  BY <1>5, CountersShow
<1> HIDE DEF s4
<1>7. DOMAIN s4 = Fields
  BY <1>5, <1>6 DEF SamePicture
<1>8. SamePicture(s4, s5)
  BY <1>7, CountersShow
<1> HIDE DEF s5
<1>9. SamePicture(s2, s5)
  BY <1>4, <1>6, <1>8, SameAgain
<1>10. QED  BY <1>1, <1>3, <1>9 DEF SamePicture

LEMMA OlderFacts ==
    \A a, b, end \in Nat : a <= end /\ b <= end /\ a <= b =>
        /\ Older(a, end) \in 0..end
        /\ Older(a, end) <= Older(b, end)
        /\ b <= Older(b, end)
  BY DEF Older

LEMMA TimeHolds ==
    ASSUME GuardInv, timePasses
    PROVE  GuardInv'
<1> DEFINE end == StrangerTTL + 1
<1>1. Seated /\ Pictures(g) /\ DOMAIN g = Fields
  BY DEF GuardInv, Pictures
<1>2. /\ UNCHANGED <<slot, joined, crowded>>
      /\ trustAge' = [u \in Uids |-> IF u \in joined THEN Older(trustAge[u], end) ELSE 0]
  BY DEF timePasses, engineVars
<1>3. Live' = Live /\ \A i : On(i)' = On(i)
  BY <1>2 DEF Live, On
<1>4. /\ DOMAIN g' = Fields
      /\ g'.clients = g.clients
      /\ g'.ip2uid = g.ip2uid
      /\ g'.name2uid = g.name2uid
      /\ g'.ipTrusted = g.ipTrusted
      /\ g'.ip2steamid = g.ip2steamid
      /\ g'.connSince = [ip \in DOMAIN g.connSince |-> Older(g.connSince[ip], end)]
  BY <1>1, timeFields
<1>5. end \in Nat /\ StrangerTTL < end /\ ConnAge = 0..end /\ StrangerTTL \in Nat
  BY GuardAssumption DEF ConnAge
<1> HIDE DEF end
<1>6. \A a \in ConnAge : Older(a, end) \in ConnAge
  BY <1>5, OlderFacts
<1>7. trustAge' \in [Uids -> ConnAge]
  BY <1>1, <1>2, <1>5, <1>6 DEF Seated
<1>8. Seated'
  BY <1>1, <1>2, <1>3, <1>7 DEF Seated
<1>9. /\ DOMAIN g'.connSince = DOMAIN g.connSince
      /\ \A i \in DOMAIN g.connSince : /\ g.connSince[i] \in ConnAge
                                       /\ g'.connSince[i] = Older(g.connSince[i], end)
  BY <1>1, <1>4 DEF Pictures
<1>10. ASSUME NEW v \in joined', IPOf[slot'[v]] \notin crowded'
       PROVE  /\ IPOf[slot'[v]] \in DOMAIN g'.connSince
                   => g'.connSince[IPOf[slot'[v]]] <= trustAge'[v]
              /\ trustAge'[v] <= StrangerTTL => IPOf[slot'[v]] \in g'.ipTrusted
  <2> DEFINE ip == IPOf[slot[v]]
  <2>1. v \in joined /\ ip \notin crowded /\ IPOf[slot'[v]] = ip
    BY <1>2, <1>10
  <2>2. /\ ip \in DOMAIN g.connSince => g.connSince[ip] <= trustAge[v]
        /\ trustAge[v] <= StrangerTTL => ip \in g.ipTrusted
    BY <1>1, <2>1 DEF Pictures
  <2>3. trustAge[v] \in ConnAge /\ trustAge'[v] = Older(trustAge[v], end)
    BY <1>1, <1>2, <2>1 DEF Seated, Live
  <2> HIDE DEF ip
  <2>4. trustAge[v] <= trustAge'[v]
    BY <1>5, <2>3, OlderFacts
  <2>5. trustAge[v] \in Nat /\ trustAge'[v] \in Nat
    BY <1>5, <1>6, <2>3
  <2>6. ip \in DOMAIN g.connSince => Older(g.connSince[ip], end) <= trustAge'[v]
    <3>1. ASSUME ip \in DOMAIN g.connSince
          PROVE  Older(g.connSince[ip], end) <= Older(trustAge[v], end)
      <4> DEFINE a == g.connSince[ip]
      <4> DEFINE b == trustAge[v]
      <4>1. a \in Nat /\ b \in Nat /\ a <= end /\ b <= end /\ a <= b
        BY <1>5, <1>9, <2>2, <2>3, <3>1
      <4> HIDE DEF a, b
      <4>2. Older(a, end) <= Older(b, end)
        BY <1>5, <4>1, OlderFacts
      <4>3. QED  BY <4>2 DEF a, b
    <3>2. QED  BY <2>3, <3>1
  <2>7. QED  BY <1>4, <1>5, <1>9, <2>1, <2>2, <2>4, <2>5, <2>6
<1>11. /\ DOMAIN g'.ip2steamid \subseteq DOMAIN g'.connSince
       /\ \A i \in DOMAIN g'.connSince : g'.connSince[i] \in ConnAge
  BY <1>1, <1>4, <1>6, <1>9 DEF Pictures
<1>12. Pictures(g)'
  BY <1>1, <1>2, <1>3, <1>4, <1>10, <1>11 DEF Pictures
<1>13. QED  BY <1>8, <1>12 DEF GuardInv

LEMMA GuardStepHolds == GuardInv /\ [EggGuardNext]_guardVars => GuardInv'
<1> SUFFICES ASSUME GuardInv, [EggGuardNext]_guardVars
             PROVE  GuardInv'
  OBVIOUS
<1>1. ASSUME inspect
      PROVE  GuardInv'
  <2>1. ASSUME NEW ip \in IPs, accept(ip)
        PROVE  GuardInv'
    BY <2>1, AcceptHolds
  <2>2. ASSUME NEW ip \in IPs,
               stray(ip) \/ malformed(ip) \/ connectFlood(ip) \/ rconBan(ip) \/ keepalive(ip)
        PROVE  GuardInv'
    BY <2>2, SuspectHolds
  <2>3. ASSUME NEW p \in Players, NEW u \in Uids, connect(p, u)
        PROVE  GuardInv'
    BY <2>3, ConnectHolds
  <2>4. ASSUME NEW u \in Uids, NEW full \in BOOLEAN, signon(u, full)
        PROVE  GuardInv'
    BY <2>4, SignonHolds
  <2>5. ASSUME NEW u \in Uids, chat(u)
        PROVE  GuardInv'
    BY <2>5, ChatHolds
  <2>6. ASSUME NEW u \in Uids, dropped(u)
        PROVE  GuardInv'
    BY <2>6, DroppedHolds
  <2>7. ASSUME NEW rule \in {"reconnect_stuck", "move_not_joined"}, NEW n \in Names,
               aboutClient(rule, n)
        PROVE  GuardInv'
    BY <2>7, SuspectHolds
  <2>8. QED  BY <1>1, <2>1, <2>2, <2>3, <2>4, <2>5, <2>6, <2>7 DEF inspect
<1>2. ASSUME NEW ip \in IPs, NEW uid \in Uids \cup {NoUid}, HostNotice(ip, uid)
      PROVE  GuardInv'
  BY <1>2, NoticeHolds
<1>3. ASSUME timePasses
      PROVE  GuardInv'
  BY <1>3, TimeHolds
<1>4. ASSUME UNCHANGED guardVars
      PROVE  GuardInv'
  BY <1>4 DEF guardVars, engineVars, GuardInv, Seated, Pictures, Live, On
<1>5. QED  BY <1>1, <1>2, <1>3, <1>4 DEF EggGuardNext

LEMMA GuardHolds == EggGuardSpec => []GuardInv
<1>1. QED  BY GuardInitHolds, GuardStepHolds, PTL DEF EggGuardSpec

(* The clients the guard knows are those that hold a userid, under their   *)
(* name and address, trusted when they finished signon: the leave line's   *)
(* name leads to the right one, however the lines are mixed.               *)
THEOREM PictureIsRight == EggGuardSpec => []ClientsMirrorSlots
<1>1. GuardInv => ClientsMirrorSlots
  BY DEF GuardInv, Pictures, ClientsMirrorSlots
<1>2. QED  BY <1>1, GuardHolds, PTL

(* Until an address is older than strangerTTL no sweep and no leave of     *)
(* another client takes the trust of a client that has it for itself.      *)
THEOREM YoungTrustStays == EggGuardSpec => []YoungTrustHolds
<1>1. GuardInv => YoungTrustHolds
  BY DEF GuardInv, Pictures, YoungTrustHolds
<1>2. QED  BY <1>1, GuardHolds, PTL

(* An address without a client has entries in the guard's maps only while  *)
(* the sweep can still find it by the time of its accept.                  *)
THEOREM TracesAreFound == EggGuardSpec => []TracesAreFindable
<1>1. GuardInv => TracesAreFindable
  BY DEF GuardInv, Pictures, TracesAreFindable
<1>2. QED  BY <1>1, GuardHolds, PTL

-----------------------------------------------------------------------------
(* EggGuard: the types of the maps *)

LEMMA MapFacts ==
    \A S, T, f : f \in Map(S, T) <=> /\ f \in [DOMAIN f -> T]
                                     /\ DOMAIN f \subseteq S
<1> SUFFICES ASSUME NEW S, NEW T, NEW f
             PROVE  f \in Map(S, T) <=> f \in [DOMAIN f -> T] /\ DOMAIN f \subseteq S
  OBVIOUS
<1>1. ASSUME f \in Map(S, T) PROVE f \in [DOMAIN f -> T] /\ DOMAIN f \subseteq S
  BY <1>1 DEF Map
<1>2. ASSUME f \in [DOMAIN f -> T], DOMAIN f \subseteq S PROVE f \in Map(S, T)
  BY <1>2 DEF Map
<1>3. QED  BY <1>1, <1>2

LEMMA EmptyMap == \A S, T : <<>> \in Map(S, T)
<1>1. DOMAIN <<>> = {}
  OBVIOUS
<1>2. \A T : <<>> \in [{} -> T]
  OBVIOUS
<1>3. QED  BY <1>1, <1>2 DEF Map

LEMMA PutTyped ==
    \A S, T : \A f \in Map(S, T), k \in S, v \in T : Put(f, k, v) \in Map(S, T)
<1> SUFFICES ASSUME NEW S, NEW T, NEW f \in Map(S, T), NEW k \in S, NEW v \in T
             PROVE  Put(f, k, v) \in Map(S, T)
  OBVIOUS
<1>1. f \in [DOMAIN f -> T] /\ DOMAIN f \subseteq S
  BY MapFacts
<1>2. Put(f, k, v) \in [DOMAIN f \cup {k} -> T]
  BY <1>1 DEF Put
<1>3. DOMAIN f \cup {k} \in SUBSET S
  BY <1>1
<1>4. QED  BY <1>2, <1>3 DEF Map

LEMMA DropTyped == \A S, T, X : \A f \in Map(S, T) : Drop(f, X) \in Map(S, T)
<1> SUFFICES ASSUME NEW S, NEW T, NEW X, NEW f \in Map(S, T)
             PROVE  Drop(f, X) \in Map(S, T)
  OBVIOUS
<1>1. f \in [DOMAIN f -> T] /\ DOMAIN f \subseteq S
  BY MapFacts
<1>2. Drop(f, X) \in [DOMAIN f \ X -> T]
  BY <1>1 DEF Drop, Restrict
<1>3. DOMAIN f \ X \in SUBSET S
  BY <1>1
<1>4. QED  BY <1>2, <1>3 DEF Map

LookUps == [ip : IPs \cup {NoIP}, name : Names, trusted : BOOLEAN]
Counts == Map(Enabled \X (IPs \cup Names), [age : 0..MaxRuleWindow + 1, n : Nat])
Count(f) == f \in Counts /\ \A k \in DOMAIN f : f[k].n \in 1..Threshold[k[1]]
Cooling == Map(IPs \cup Uids \cup {NoUid}, 0..Cooldown)

(* The limit is looked at before an address and its SteamID are muted.     *)
MuteLimit == MaxMute + (IF SteamIDs = {} THEN 0 ELSE 1)
Muted(f) ==
    /\ f \in Map(IPs \cup SteamIDs, 1..BanTime)
    /\ IsFiniteSet(DOMAIN f) /\ Cardinality(DOMAIN f) <= MuteLimit

(* A table with all its maps in their types. *)
MapsTyped(s) ==
    /\ DOMAIN s = Fields
    /\ s.clients \in Map(Uids, LookUps)
    /\ s.ip2uid \in Map(IPs, Uids) /\ s.name2uid \in Map(Names, Uids)
    /\ s.ipTrusted \subseteq IPs
    /\ s.connSince \in Map(IPs, ConnAge) /\ s.ip2steamid \in Map(IPs, SteamIDs)
    /\ Count(s.counters) /\ s.cooldown \in Cooling /\ Muted(s.mute)
    /\ s.swept \in 0..SweepEvery

GuardTypes ==
    /\ GuardInv /\ MapsTyped(g)
    /\ crowded \subseteq IPs /\ hitAge \in [IPs -> 0..Cooldown]

(* A map at a time may change. *)
LEMMA SetMaps ==
    ASSUME NEW s, MapsTyped(s)
    PROVE  /\ \A m \in Map(Uids, LookUps) : MapsTyped([s EXCEPT !.clients = m])
           /\ \A m \in Map(IPs, Uids) : MapsTyped([s EXCEPT !.ip2uid = m])
           /\ \A m \in Map(Names, Uids) : MapsTyped([s EXCEPT !.name2uid = m])
           /\ \A m \in SUBSET IPs : MapsTyped([s EXCEPT !.ipTrusted = m])
           /\ \A m \in Map(IPs, ConnAge) : MapsTyped([s EXCEPT !.connSince = m])
           /\ \A m \in Map(IPs, SteamIDs) : MapsTyped([s EXCEPT !.ip2steamid = m])
<1> USE DEF MapsTyped, Fields
<1>1. ASSUME NEW m \in Map(Uids, LookUps) PROVE MapsTyped([s EXCEPT !.clients = m])
  OBVIOUS
<1>2. ASSUME NEW m \in Map(IPs, Uids) PROVE MapsTyped([s EXCEPT !.ip2uid = m])
  OBVIOUS
<1>3. ASSUME NEW m \in Map(Names, Uids) PROVE MapsTyped([s EXCEPT !.name2uid = m])
  OBVIOUS
<1>4. ASSUME NEW m \in SUBSET IPs PROVE MapsTyped([s EXCEPT !.ipTrusted = m])
  OBVIOUS
<1>5. ASSUME NEW m \in Map(IPs, ConnAge) PROVE MapsTyped([s EXCEPT !.connSince = m])
  OBVIOUS
<1>6. ASSUME NEW m \in Map(IPs, SteamIDs) PROVE MapsTyped([s EXCEPT !.ip2steamid = m])
  OBVIOUS
<1>7. QED  BY <1>1, <1>2, <1>3, <1>4, <1>5, <1>6

LEMMA SetCounts ==
    ASSUME NEW s, MapsTyped(s)
    PROVE  /\ \A m : Count(m) => MapsTyped([s EXCEPT !.counters = m])
           /\ \A m \in Cooling : MapsTyped([s EXCEPT !.cooldown = m])
           /\ \A m : Muted(m) => MapsTyped([s EXCEPT !.mute = m])
           /\ \A m \in 0..SweepEvery : MapsTyped([s EXCEPT !.swept = m])
<1> USE DEF MapsTyped, Fields
<1>1. ASSUME NEW m, Count(m) PROVE MapsTyped([s EXCEPT !.counters = m])
  BY <1>1
<1>2. ASSUME NEW m \in Cooling PROVE MapsTyped([s EXCEPT !.cooldown = m])
  OBVIOUS
<1>3. ASSUME NEW m, Muted(m) PROVE MapsTyped([s EXCEPT !.mute = m])
  BY <1>3
<1>4. ASSUME NEW m \in 0..SweepEvery PROVE MapsTyped([s EXCEPT !.swept = m])
  OBVIOUS
<1>5. QED  BY <1>1, <1>2, <1>3, <1>4

LEMMA sweepTyped == \A s : MapsTyped(s) => MapsTyped(sweep(s))
<1> SUFFICES ASSUME NEW s, MapsTyped(s) PROVE MapsTyped(sweep(s))
  OBVIOUS
<1> DEFINE gone == Strangers(s)
           s1 == [s EXCEPT !.swept = 0]
           s2 == [s1 EXCEPT !.counters = Drop(@, {k \in DOMAIN @ : @[k].age > MaxRuleWindow})]
           s3 == [s2 EXCEPT !.cooldown = <<>>]
           s4 == [s3 EXCEPT !.connSince = Drop(@, gone)]
           s5 == [s4 EXCEPT !.ip2steamid = Drop(@, gone)]
           s6 == [s5 EXCEPT !.ipTrusted = @ \ gone]
           dead == {ip \in gone \cap DOMAIN s6.ip2uid : s6.ip2uid[ip] \notin DOMAIN s.clients}
           s7 == [s6 EXCEPT !.ip2uid = Drop(@, dead)]
<1>1. sweep(s) = s7
  BY DEF sweep
<1>2. MapsTyped(s1)
  <2>1. 0 \in 0..SweepEvery
    BY GuardAssumption
  <2>2. QED  BY <2>1, SetCounts
<1> HIDE DEF s1
<1>3. MapsTyped(s2)
  <2> DEFINE f == s1.counters
             old == {k \in DOMAIN f : f[k].age > MaxRuleWindow}
             m == Drop(f, old)
  <2>1. Count(f)
    BY <1>2 DEF MapsTyped
  <2>2. s2 = [s1 EXCEPT !.counters = m]
    OBVIOUS
  <2> HIDE DEF f, old
  <2>3. Count(m)
    <3>1. m \in Counts
      BY <2>1, DropTyped DEF Count, Counts
    <3>2. \A k \in DOMAIN m : k \in DOMAIN f /\ m[k] = f[k]
      <4>1. /\ DOMAIN Drop(f, old) = DOMAIN f \ old
            /\ \A x \in DOMAIN f \ old : Drop(f, old)[x] = f[x]
        BY DropFacts
      <4>2. QED  BY <4>1
    <3> HIDE DEF m
    <3>3. QED  BY <2>1, <3>1, <3>2 DEF Count
  <2> HIDE DEF m
  <2>4. QED  BY <1>2, <2>2, <2>3, SetCounts
<1> HIDE DEF s2
<1>4. MapsTyped(s3)
  BY <1>3, EmptyMap, SetCounts DEF Cooling
<1> HIDE DEF s3, gone
<1>5. MapsTyped(s4)
  <2>1. s3.connSince \in Map(IPs, ConnAge)
    BY <1>4 DEF MapsTyped
  <2>2. Drop(s3.connSince, gone) \in Map(IPs, ConnAge)
    BY <2>1, DropTyped
  <2>3. QED  BY <1>4, <2>2, SetMaps
<1> HIDE DEF s4
<1>6. MapsTyped(s5)
  <2>1. s4.ip2steamid \in Map(IPs, SteamIDs)
    BY <1>5 DEF MapsTyped
  <2>2. Drop(s4.ip2steamid, gone) \in Map(IPs, SteamIDs)
    BY <2>1, DropTyped
  <2>3. QED  BY <1>5, <2>2, SetMaps
<1> HIDE DEF s5
<1>7. MapsTyped(s6)
  <2>1. s5.ipTrusted \ gone \in SUBSET IPs
    BY <1>6 DEF MapsTyped
  <2>2. QED  BY <1>6, <2>1, SetMaps
<1> HIDE DEF s6, dead
<1>8. MapsTyped(s7)
  <2>1. s6.ip2uid \in Map(IPs, Uids)
    BY <1>7 DEF MapsTyped
  <2>2. Drop(s6.ip2uid, dead) \in Map(IPs, Uids)
    BY <2>1, DropTyped
  <2>3. QED  BY <1>7, <2>2, SetMaps
<1>9. QED  BY <1>1, <1>8

LEMMA GTyped == MapsTyped(g) => MapsTyped(G)
BY sweepTyped DEF G

LEMMA OlderTyped == \A end \in Nat : \A a \in 0..end : Older(a, end) \in 0..end
BY DEF Older

-----------------------------------------------------------------------------
(* What is counted *)

LEMMA countedFacts ==
    ASSUME NEW s, Count(s.counters), NEW rule \in Enabled, NEW key \in IPs \cup Names
    PROVE  Count(Put(s.counters, <<rule, key>>, counted(s, rule, key)))
<1> DEFINE f == s.counters
           k == <<rule, key>>
           c == counted(s, rule, key)
<1>1. /\ k \in Enabled \X (IPs \cup Names) /\ k[1] = rule
      /\ Threshold[rule] \in Nat \ {0} /\ 0 \in 0..MaxRuleWindow + 1
  BY GuardAssumption
<1>2. ASSUME k \in DOMAIN f
      PROVE  f[k] \in [age : 0..MaxRuleWindow + 1, n : Nat] /\ f[k].n \in 1..Threshold[rule]
  <2>1. f \in Counts /\ \A x \in DOMAIN f : f[x].n \in 1..Threshold[x[1]]
    BY DEF Count
  <2>2. f \in [DOMAIN f -> [age : 0..MaxRuleWindow + 1, n : Nat]]
    BY <2>1, MapFacts DEF Counts
  <2> HIDE DEF f, k
  <2>3. QED  BY <1>1, <1>2, <2>1, <2>2
<1>3. c \in [age : 0..MaxRuleWindow + 1, n : Nat] /\ c.n \in 1..Threshold[rule]
  <2>1. CASE k \notin DOMAIN f \/ f[k].age > Window[rule]
    <3>1. c = [age |-> 0, n |-> 1]
      BY <2>1 DEF counted
    <3>2. 1 \in 1..Threshold[rule]
      BY <1>1
    <3>3. QED  BY <1>1, <3>1, <3>2
  <2>2. CASE ~(k \notin DOMAIN f \/ f[k].age > Window[rule])
    <3> DEFINE x == f[k].n
               y == IF x < Threshold[rule] THEN x + 1 ELSE x
    <3>1. c = [f[k] EXCEPT !.n = y]
      BY <2>2 DEF counted
    <3>2. x \in 1..Threshold[rule]
      BY <1>2, <2>2
    <3> HIDE DEF x
    <3>3. y \in Nat /\ y \in 1..Threshold[rule]
      BY <1>1, <3>2
    <3> HIDE DEF y
    <3>4. QED  BY <1>2, <2>2, <3>1, <3>3
  <2>3. QED  BY <2>1, <2>2
<1> HIDE DEF c, f, k
<1>4. Put(f, k, c) \in Counts
  BY <1>1, <1>3, PutTyped DEF Count, Counts, f
<1>5. \A x \in DOMAIN Put(f, k, c) : (x = k /\ Put(f, k, c)[x] = c) \/ (x \in DOMAIN f /\ Put(f, k, c)[x] = f[x])
  BY DEF Put
<1>6. Count(f)
  BY DEF f
<1>7. Count(Put(f, k, c))
  BY <1>1, <1>3, <1>4, <1>5, <1>6 DEF Count
<1>8. QED  BY <1>7 DEF f, k, c

LEMMA bumpTyped ==
    ASSUME NEW s, MapsTyped(s), NEW rule, NEW key \in IPs \cup Names
    PROVE  MapsTyped(bump(s, rule, key))
<1>1. CASE rule \notin Enabled
  BY <1>1 DEF bump
<1>2. CASE rule \in Enabled
  <2> DEFINE m == Put(s.counters, <<rule, key>>, counted(s, rule, key))
  <2>1. bump(s, rule, key) = [s EXCEPT !.counters = m]
    BY <1>2 DEF bump
  <2>2. Count(s.counters)
    BY DEF MapsTyped
  <2>3. Count(m)
    BY <1>2, <2>2, countedFacts
  <2> HIDE DEF m
  <2>4. QED  BY <2>1, <2>3, SetCounts
<1>3. QED  BY <1>1, <1>2

(* At most an address and its SteamID go over the limit. *)
LEMMA muteAddTyped ==
    ASSUME NEW s, MapsTyped(s), NEW ip \in IPs
    PROVE  MapsTyped(muteAdd(s, ip))
<1> DEFINE keys == {ip} \cup {s.ip2steamid[i] : i \in {ip} \cap DOMAIN s.ip2steamid}
           f == s.mute
           m == [k \in keys \cup DOMAIN f |-> IF k \in keys THEN BanTime ELSE f[k]]
<1>1. CASE Cardinality(DOMAIN f) >= MaxMute \/ BanTime = 0
  BY <1>1 DEF muteAdd
<1>2. CASE ~(Cardinality(DOMAIN f) >= MaxMute \/ BanTime = 0)
  <2>1. muteAdd(s, ip) = [s EXCEPT !.mute = m]
    BY <1>2 DEF muteAdd
  <2>2. /\ f \in [DOMAIN f -> 1..BanTime] /\ DOMAIN f \subseteq IPs \cup SteamIDs
        /\ IsFiniteSet(DOMAIN f)
        /\ s.ip2steamid \in [DOMAIN s.ip2steamid -> SteamIDs]
    BY MapFacts DEF MapsTyped, Muted
  <2>3. keys = {ip} \/ (SteamIDs # {} /\ \E sid \in SteamIDs : keys = {ip, sid})
    BY <2>2
  <2> HIDE DEF f, keys
  <2>4. /\ Cardinality(DOMAIN f) \in Nat /\ BanTime \in 1..BanTime /\ MaxMute \in Nat
        /\ Cardinality(DOMAIN f) + 1 <= MaxMute
    <3>1. Cardinality(DOMAIN f) \in Nat
      BY <2>2, FS_CardinalityType
    <3>2. BanTime \in Nat /\ MaxMute \in Nat
      BY GuardAssumption
    <3>3. QED  BY <1>2, <3>1, <3>2
  <2>5. IsFiniteSet(keys \cup DOMAIN f) /\ Cardinality(keys \cup DOMAIN f) <= MuteLimit
    <3>1. IsFiniteSet(DOMAIN f \cup {ip}) /\ Cardinality(DOMAIN f \cup {ip}) <= MaxMute
          /\ Cardinality(DOMAIN f \cup {ip}) \in Nat
      <4>1. /\ IsFiniteSet(DOMAIN f \cup {ip})
            /\ Cardinality(DOMAIN f \cup {ip}) \in {Cardinality(DOMAIN f), Cardinality(DOMAIN f) + 1}
        BY <2>2, FS_AddElement
      <4>2. QED  BY <2>4, <4>1
    <3>2. CASE keys = {ip}
      <4>1. keys \cup DOMAIN f = DOMAIN f \cup {ip}
        BY <3>2
      <4> DEFINE size == Cardinality(DOMAIN f \cup {ip})
      <4>2. MaxMute <= MuteLimit /\ MuteLimit \in Nat
        BY <2>4 DEF MuteLimit
      <4>3. size \in Nat /\ size <= MaxMute /\ MaxMute \in Nat
        BY <2>4, <3>1
      <4> HIDE DEF size
      <4>4. size <= MuteLimit
        BY <4>2, <4>3
      <4>5. QED  BY <3>1, <4>1, <4>4 DEF size
    <3>3. ASSUME SteamIDs # {}, NEW sid \in SteamIDs, keys = {ip, sid}
          PROVE  IsFiniteSet(keys \cup DOMAIN f) /\ Cardinality(keys \cup DOMAIN f) <= MuteLimit
      <4> DEFINE d == DOMAIN f \cup {ip}
      <4>1. keys \cup DOMAIN f = d \cup {sid}
        BY <3>3
      <4>2. IsFiniteSet(d) /\ Cardinality(d) \in Nat /\ Cardinality(d) <= MaxMute
        BY <3>1
      <4> HIDE DEF d
      <4>3. /\ IsFiniteSet(d \cup {sid})
            /\ Cardinality(d \cup {sid}) \in {Cardinality(d), Cardinality(d) + 1}
        BY <4>2, FS_AddElement
      <4>4. MuteLimit = MaxMute + 1
        BY <3>3 DEF MuteLimit
      <4>5. Cardinality(d \cup {sid}) <= MuteLimit
        BY <2>4, <4>2, <4>3, <4>4
      <4>6. QED  BY <4>1, <4>3, <4>5
    <3>4. QED  BY <2>3, <3>2, <3>3
  <2>6. Muted(m)
    <3>1. keys \subseteq IPs \cup SteamIDs
      BY <2>3
    <3>2. m \in [keys \cup DOMAIN f -> 1..BanTime]
      BY <2>2, <2>4
    <3>3. DOMAIN m = keys \cup DOMAIN f
      OBVIOUS
    <3> HIDE DEF m
    <3>4. m \in Map(IPs \cup SteamIDs, 1..BanTime)
      BY <2>2, <3>1, <3>2, <3>3, MapFacts
    <3>5. QED  BY <2>5, <3>3, <3>4 DEF Muted
  <2> HIDE DEF m
  <2>7. QED  BY <2>1, <2>6, SetCounts
<1>3. QED  BY <1>1, <1>2

LEMMA reactedTyped ==
    ASSUME NEW s, MapsTyped(s), NEW uid \in Uids \cup {NoUid}, NEW ip \in IPs \cup {NoIP}
    PROVE  MapsTyped(reacted(s, uid, ip))
<1> DEFINE m == Put(s.cooldown, CooldownKey(uid, ip), 0)
           t == [s EXCEPT !.cooldown = m]
<1>1. reacted(s, uid, ip) = t \/ (ip \in PublicIPs /\ reacted(s, uid, ip) = muteAdd(t, ip))
  BY DEF reacted, Banned
<1>2. m \in Cooling
  <2>1. CooldownKey(uid, ip) \in IPs \cup Uids \cup {NoUid} /\ 0 \in 0..Cooldown
    BY GuardAssumption DEF CooldownKey
  <2>2. s.cooldown \in Cooling
    BY DEF MapsTyped
  <2>3. QED  BY <2>1, <2>2, PutTyped DEF Cooling
<1> HIDE DEF m
<1>3. MapsTyped(t)
  BY <1>2, SetCounts
<1> HIDE DEF t
<1>4. ip \in PublicIPs => ip \in IPs
  BY DEF IPs
<1>5. QED  BY <1>1, <1>3, <1>4, muteAddTyped

LEMMA countTyped ==
    ASSUME MapsTyped(g), hitAge \in [IPs -> 0..Cooldown],
           NEW rule, NEW key \in IPs \cup Names, NEW uid \in Uids \cup {NoUid},
           NEW ip \in IPs \cup {NoIP}, count(rule, key, uid, ip)
    PROVE  MapsTyped(g') /\ hitAge' \in [IPs -> 0..Cooldown]
<1> DEFINE s == bump(G, rule, key)
<1>1. MapsTyped(s)
  BY GTyped, bumpTyped
<1>2. g' = s \/ g' = reacted(s, uid, ip)
  BY DEF count
<1>3. hitAge' = hitAge \/ hitAge' = [i \in IPs |-> IF i = ip THEN 0 ELSE hitAge[i]]
  BY DEF count
<1> HIDE DEF s
<1>4. MapsTyped(g')
  BY <1>1, <1>2, reactedTyped
<1>5. hitAge' \in [IPs -> 0..Cooldown]
  BY <1>3, GuardAssumption
<1>6. QED  BY <1>4, <1>5

-----------------------------------------------------------------------------
(* What each line, each notice and the time leave in the maps *)

(* What a line about an address or a client counts. *)
LEMMA SuspectTyped ==
    ASSUME GuardTypes, NEW rule, NEW key \in IPs \cup Names, NEW uid \in Uids \cup {NoUid},
           NEW ip \in IPs \cup {NoIP}, suspect, ignore \/ count(rule, key, uid, ip)
    PROVE  MapsTyped(g') /\ crowded' \subseteq IPs /\ hitAge' \in [IPs -> 0..Cooldown]
<1>1. MapsTyped(G) /\ MapsTyped(g) /\ hitAge \in [IPs -> 0..Cooldown] /\ crowded \subseteq IPs
  BY GTyped DEF GuardTypes
<1>2. crowded' = crowded
  BY DEF suspect
<1>3. CASE ignore
  BY <1>1, <1>2, <1>3 DEF ignore
<1>4. CASE count(rule, key, uid, ip)
  BY <1>1, <1>2, <1>4, countTyped
<1>5. QED  BY <1>3, <1>4

LEMMA LooksUp ==
    ASSUME GuardTypes
    PROVE  /\ \A k : Lookup(G.ip2uid, k) \in Uids \cup {NoUid}
           /\ \A k : Lookup(G.name2uid, k) \in Uids \cup {NoUid}
           /\ \A u : ipOf(G, u) \in IPs \cup {NoIP}
<1>1. MapsTyped(G)
  BY GTyped DEF GuardTypes
<1>2. \A f, k : (f \in Map(IPs, Uids) \/ f \in Map(Names, Uids)) => Lookup(f, k) \in Uids \cup {NoUid}
  BY MapFacts DEF Lookup
<1>3. G.clients \in [DOMAIN G.clients -> LookUps]
  BY <1>1, MapFacts DEF MapsTyped
<1>4. \A u : ipOf(G, u) \in IPs \cup {NoIP}
  BY <1>3 DEF ipOf, Known, LookUps
<1>5. QED  BY <1>1, <1>2, <1>4 DEF MapsTyped

LEMMA TrafficTyped ==
    ASSUME GuardTypes, NEW ip \in IPs,
           stray(ip) \/ malformed(ip) \/ connectFlood(ip) \/ rconBan(ip) \/ keepalive(ip)
    PROVE  MapsTyped(g') /\ crowded' \subseteq IPs /\ hitAge' \in [IPs -> 0..Cooldown]
<1> DEFINE Typed == MapsTyped(g') /\ crowded' \subseteq IPs /\ hitAge' \in [IPs -> 0..Cooldown]
           u == Lookup(G.ip2uid, ip)
<1>1. u \in Uids \cup {NoUid} /\ NoUid \in Uids \cup {NoUid}
  BY LooksUp
<1>2. \A rule : \A uid \in Uids \cup {NoUid} :
         suspect /\ (ignore \/ count(rule, ip, uid, ip)) => Typed
  BY SuspectTyped
<1> HIDE DEF Typed
<1>3. CASE stray(ip)
  <2>1. suspect /\ (ignore \/ count("stray_no_connection", ip, NoUid, ip))
    BY <1>3 DEF stray
  <2>2. QED  BY <1>1, <1>2, <2>1 DEF Typed
<1>4. CASE malformed(ip)
  BY <1>1, <1>2, <1>4 DEF malformed, Typed
<1>5. CASE rconBan(ip)
  BY <1>1, <1>2, <1>5 DEF rconBan, Typed
<1>6. CASE connectFlood(ip)
  <2>1. suspect /\ (ignore \/ count("connect_flood", ip, u, ip))
    BY <1>6 DEF connectFlood
  <2> HIDE DEF u
  <2>2. QED  BY <1>1, <1>2, <2>1 DEF Typed
<1>7. CASE keepalive(ip)
  <2>1. suspect /\ (ignore \/ count("stuck_no_full", ip, u, ip))
    BY <1>7 DEF keepalive
  <2> HIDE DEF u
  <2>2. QED  BY <1>1, <1>2, <2>1 DEF Typed
<1>8. QED  BY <1>3, <1>4, <1>5, <1>6, <1>7 DEF Typed

LEMMA AboutTyped ==
    ASSUME GuardTypes, NEW rule, NEW name \in Names, aboutClient(rule, name)
    PROVE  MapsTyped(g') /\ crowded' \subseteq IPs /\ hitAge' \in [IPs -> 0..Cooldown]
<1> DEFINE u == Lookup(G.name2uid, name)
           ip == ipOf(G, u)
<1>1. u \in Uids \cup {NoUid} /\ ip \in IPs \cup {NoIP}
  BY LooksUp
<1>2. suspect /\ (ignore \/ count(rule, name, u, ip))
  BY DEF aboutClient
<1> HIDE DEF u, ip
<1>3. QED  BY <1>1, <1>2, SuspectTyped

LEMMA NowIsAnAge == 0 \in ConnAge
<1>1. StrangerTTL \in Nat
  BY GuardAssumption
<1>2. QED  BY <1>1 DEF ConnAge

LEMMA AcceptTyped ==
    ASSUME GuardTypes, NEW ip \in IPs, accept(ip)
    PROVE  MapsTyped(g') /\ crowded' \subseteq IPs /\ hitAge' \in [IPs -> 0..Cooldown]
<1>1. MapsTyped(G)
  BY GTyped DEF GuardTypes
<1>2. PICK sid \in SteamIDs \cup {"no steamid"} :
        g' = [G EXCEPT !.connSince = IF ip \in DOMAIN @ THEN @ ELSE Put(@, ip, 0),
                       !.ip2steamid = IF sid \in SteamIDs THEN Put(@, ip, sid) ELSE @]
  BY DEF accept
<1> DEFINE since == IF ip \in DOMAIN G.connSince THEN G.connSince ELSE Put(G.connSince, ip, 0)
           s == [G EXCEPT !.connSince = since]
           steam == IF sid \in SteamIDs THEN Put(s.ip2steamid, ip, sid) ELSE s.ip2steamid
<1>3. g' = [s EXCEPT !.ip2steamid = steam]
  BY <1>2
<1>4. since \in Map(IPs, ConnAge)
  <2>1. G.connSince \in Map(IPs, ConnAge)
    BY <1>1 DEF MapsTyped
  <2>2. 0 \in ConnAge
    BY NowIsAnAge
  <2>3. Put(G.connSince, ip, 0) \in Map(IPs, ConnAge)
    BY <2>1, <2>2, PutTyped
  <2>4. QED  BY <2>1, <2>3
<1> HIDE DEF since
<1>5. MapsTyped(s)
  BY <1>1, <1>4, SetMaps
<1> HIDE DEF s
<1>6. steam \in Map(IPs, SteamIDs)
  <2>1. s.ip2steamid \in Map(IPs, SteamIDs)
    BY <1>5 DEF MapsTyped
  <2>2. sid \in SteamIDs => Put(s.ip2steamid, ip, sid) \in Map(IPs, SteamIDs)
    BY <2>1, PutTyped
  <2>3. QED  BY <2>1, <2>2
<1> HIDE DEF steam
<1>7. MapsTyped(g')
  BY <1>3, <1>5, <1>6, SetMaps
<1>8. crowded' = crowded /\ hitAge' = hitAge
  BY DEF accept, quiet
<1>9. QED  BY <1>7, <1>8 DEF GuardTypes

LEMMA ConnectTyped ==
    ASSUME GuardTypes, NEW p \in Players, NEW u \in Uids, connect(p, u)
    PROVE  MapsTyped(g') /\ crowded' \subseteq IPs /\ hitAge' \in [IPs -> 0..Cooldown]
<1>1. MapsTyped(G)
  BY GTyped DEF GuardTypes
<1> DEFINE c == [ip |-> IPOf[p], name |-> NameOf[p], trusted |-> FALSE]
           s == [G EXCEPT !.clients = Put(@, u, c)]
           t == [s EXCEPT !.ip2uid = Put(@, IPOf[p], u)]
<1>2. g' = [t EXCEPT !.name2uid = Put(@, NameOf[p], u)]
  BY DEF connect, met
<1>3. IPOf[p] \in IPs /\ NameOf[p] \in Names /\ c \in LookUps
  BY DEF IPs, Names, LookUps
<1> HIDE DEF c
<1>4. MapsTyped(s)
  <2>1. G.clients \in Map(Uids, LookUps)
    BY <1>1 DEF MapsTyped
  <2>2. Put(G.clients, u, c) \in Map(Uids, LookUps)
    BY <1>3, <2>1, PutTyped
  <2>3. QED  BY <1>1, <2>2, SetMaps
<1> HIDE DEF s
<1>5. MapsTyped(t)
  <2>1. s.ip2uid \in Map(IPs, Uids)
    BY <1>4 DEF MapsTyped
  <2>2. Put(s.ip2uid, IPOf[p], u) \in Map(IPs, Uids)
    BY <1>3, <2>1, PutTyped
  <2>3. QED  BY <1>4, <2>2, SetMaps
<1> HIDE DEF t
<1>6. MapsTyped(g')
  <2>1. t.name2uid \in Map(Names, Uids)
    BY <1>5 DEF MapsTyped
  <2>2. Put(t.name2uid, NameOf[p], u) \in Map(Names, Uids)
    BY <1>3, <2>1, PutTyped
  <2>3. QED  BY <1>2, <1>5, <2>2, SetMaps
<1>7. crowded' \in {crowded, crowded \cup {IPOf[p]}} /\ hitAge' = hitAge
  BY DEF connect, quiet
<1>8. QED  BY <1>3, <1>6, <1>7 DEF GuardTypes

LEMMA SignonTyped ==
    ASSUME GuardTypes, NEW u \in Uids, NEW full \in BOOLEAN, signon(u, full)
    PROVE  MapsTyped(g') /\ crowded' \subseteq IPs /\ hitAge' \in [IPs -> 0..Cooldown]
<1>1. MapsTyped(G) /\ GuardInv
  BY GTyped DEF GuardTypes
<1>2. u \in Live
  BY DEF signon
<1> DEFINE c == G.clients[u]
           d == [c EXCEPT !.trusted = TRUE]
           s == [G EXCEPT !.name2uid = Put(@, NameOf[slot[u]], u)]
           t == [s EXCEPT !.clients = Put(@, u, d)]
<1>3. /\ Known(G, u) /\ NameOf[slot[u]] \in Names /\ IPOf[slot[u]] \in IPs
      /\ c.ip = IPOf[slot[u]] /\ c.ip # NoIP
  <2>1. /\ Known(G, u) /\ slot[u] \in Players /\ IPOf[slot[u]] # NoIP
        /\ c = [ip |-> IPOf[slot[u]], name |-> NameOf[slot[u]], trusted |-> u \in joined]
    BY <1>1, <1>2, ClientFacts
  <2>2. c.ip = IPOf[slot[u]]
    BY <2>1
  <2>3. QED  BY <2>1, <2>2 DEF Names, IPs
<1>4. c \in LookUps /\ d \in LookUps
  <2>1. G.clients \in [DOMAIN G.clients -> LookUps]
    BY <1>1, MapFacts DEF MapsTyped
  <2>2. c \in LookUps
    BY <1>3, <2>1 DEF Known
  <2> HIDE DEF c
  <2>3. d \in LookUps
    BY <2>2 DEF LookUps
  <2>4. QED  BY <2>2, <2>3
<1>5. \/ g' = s
      \/ g' = [t EXCEPT !.ipTrusted = IF c.ip # NoIP THEN @ \cup {c.ip} ELSE @]
  BY <1>3 DEF signon
<1> HIDE DEF c, d
<1>6. MapsTyped(s)
  <2>1. G.name2uid \in Map(Names, Uids)
    BY <1>1 DEF MapsTyped
  <2>2. Put(G.name2uid, NameOf[slot[u]], u) \in Map(Names, Uids)
    BY <1>3, <2>1, PutTyped
  <2>3. QED  BY <1>1, <2>2, SetMaps
<1> HIDE DEF s
<1>7. MapsTyped(t)
  <2>1. s.clients \in Map(Uids, LookUps)
    BY <1>6 DEF MapsTyped
  <2>2. Put(s.clients, u, d) \in Map(Uids, LookUps)
    BY <1>4, <2>1, PutTyped
  <2>3. QED  BY <1>6, <2>2, SetMaps
<1> HIDE DEF t
<1>8. MapsTyped([t EXCEPT !.ipTrusted = @ \cup {c.ip}])
  <2>1. t.ipTrusted \cup {c.ip} \in SUBSET IPs
    BY <1>3, <1>7 DEF MapsTyped
  <2>2. QED  BY <1>7, <2>1, SetMaps
<1>9. MapsTyped(g')
  BY <1>3, <1>5, <1>6, <1>8
<1>10. crowded' = crowded /\ hitAge' = hitAge
  BY DEF signon
<1>11. QED  BY <1>9, <1>10 DEF GuardTypes

LEMMA DroppedTyped ==
    ASSUME GuardTypes, NEW u \in Uids, dropped(u)
    PROVE  MapsTyped(g') /\ crowded' \subseteq IPs /\ hitAge' \in [IPs -> 0..Cooldown]
<1>1. MapsTyped(G)
  BY GTyped DEF GuardTypes
<1> DEFINE name == NameOf[slot[u]]
           ip == ipOf(G, Named(name))
           s1 == [G EXCEPT !.ip2uid = Drop(@, {ip})]
           s2 == [s1 EXCEPT !.ipTrusted = @ \ {ip}]
           s3 == [s2 EXCEPT !.connSince = Drop(@, {ip})]
           s4 == [s3 EXCEPT !.ip2steamid = Drop(@, {ip})]
           s == IF ip = NoIP THEN G ELSE s4
           t == [s EXCEPT !.clients = Drop(@, {Named(name)})]
<1>2. forget(G, ip) = s4
  BY DEF forget
<1>3. g' = [t EXCEPT !.name2uid = Drop(@, {name})]
  BY <1>2 DEF dropped
<1>4. MapsTyped(s1)
  BY <1>1, DropTyped, SetMaps DEF MapsTyped
<1> HIDE DEF s1
<1>5. MapsTyped(s2)
  <2>1. s1.ipTrusted \ {ip} \in SUBSET IPs
    BY <1>4 DEF MapsTyped
  <2>2. QED  BY <1>4, <2>1, SetMaps
<1> HIDE DEF s2
<1>6. MapsTyped(s3)
  BY <1>5, DropTyped, SetMaps DEF MapsTyped
<1> HIDE DEF s3
<1>7. MapsTyped(s4)
  BY <1>6, DropTyped, SetMaps DEF MapsTyped
<1> HIDE DEF s4
<1>8. MapsTyped(s)
  BY <1>1, <1>7
<1> HIDE DEF s
<1>9. MapsTyped(t)
  BY <1>8, DropTyped, SetMaps DEF MapsTyped
<1> HIDE DEF t
<1>10. MapsTyped(g')
  BY <1>3, <1>9, DropTyped, SetMaps DEF MapsTyped
<1>11. crowded' \subseteq crowded /\ hitAge' = hitAge
  BY DEF dropped
<1>12. QED  BY <1>10, <1>11 DEF GuardTypes

(* A mute whose time is over goes: fewer are left. *)
LEMMA MutesRunOut ==
    ASSUME NEW f, Muted(f)
    PROVE  Muted([k \in {m \in DOMAIN f : f[m] > 1} |-> f[k] - 1])
<1> DEFINE S == {m \in DOMAIN f : f[m] > 1}
           r == [k \in S |-> f[k] - 1]
<1>1. /\ f \in [DOMAIN f -> 1..BanTime] /\ DOMAIN f \subseteq IPs \cup SteamIDs
      /\ IsFiniteSet(DOMAIN f) /\ Cardinality(DOMAIN f) <= MuteLimit
  BY MapFacts DEF Muted
<1>2. S \subseteq DOMAIN f /\ \A k \in S : k \in DOMAIN f /\ f[k] > 1
  OBVIOUS
<1>3. BanTime \in Nat /\ MuteLimit \in Nat
  BY GuardAssumption DEF MuteLimit
<1>4. \A k \in S : f[k] - 1 \in 1..BanTime
  BY <1>1, <1>2, <1>3
<1> HIDE DEF S
<1>5. DOMAIN r = S /\ r \in [S -> 1..BanTime] /\ S \subseteq IPs \cup SteamIDs
  BY <1>1, <1>2, <1>4
<1> HIDE DEF r
<1>6. r \in Map(IPs \cup SteamIDs, 1..BanTime)
  BY <1>5, MapFacts
<1>7. IsFiniteSet(S) /\ Cardinality(S) <= Cardinality(DOMAIN f)
  BY <1>1, <1>2, FS_Subset
<1>8. Cardinality(S) \in Nat /\ Cardinality(DOMAIN f) \in Nat
  BY <1>1, <1>7, FS_CardinalityType
<1>9. Cardinality(S) <= MuteLimit
  BY <1>1, <1>3, <1>7, <1>8
<1>10. Muted(r)
  BY <1>5, <1>6, <1>7, <1>9 DEF Muted
<1>11. QED  BY <1>10 DEF r, S

LEMMA CountFacts ==
    ASSUME NEW f, Count(f)
    PROVE  /\ f \in [DOMAIN f -> [age : 0..MaxRuleWindow + 1, n : Nat]]
           /\ DOMAIN f \subseteq Enabled \X (IPs \cup Names)
           /\ \A k \in DOMAIN f : f[k].n \in 1..Threshold[k[1]]
<1> DEFINE C == [age : 0..MaxRuleWindow + 1, n : Nat]
           K == Enabled \X (IPs \cup Names)
<1>1. f \in Map(K, C) /\ \A k \in DOMAIN f : f[k].n \in 1..Threshold[k[1]]
  BY DEF Count, Counts
<1> HIDE DEF C, K
<1>2. f \in [DOMAIN f -> C] /\ DOMAIN f \subseteq K
  BY <1>1, MapFacts
<1>3. QED  BY <1>1, <1>2 DEF C, K

LEMMA CountsGrowOld ==
    ASSUME NEW f, Count(f)
    PROVE  Count([k \in DOMAIN f |-> [age |-> Older(f[k].age, MaxRuleWindow + 1), n |-> f[k].n]])
<1> DEFINE end == MaxRuleWindow + 1
           C == [age : 0..end, n : Nat]
           r == [k \in DOMAIN f |-> [age |-> Older(f[k].age, end), n |-> f[k].n]]
<1>1. /\ f \in [DOMAIN f -> C] /\ DOMAIN f \subseteq Enabled \X (IPs \cup Names)
      /\ \A k \in DOMAIN f : f[k].n \in 1..Threshold[k[1]]
  BY CountFacts
<1>2. end \in Nat
  BY GuardAssumption
<1> HIDE DEF end
<1>3. \A c \in C : [age |-> Older(c.age, end), n |-> c.n] \in C
  BY <1>2, OlderTyped
<1>4. /\ DOMAIN r = DOMAIN f
      /\ \A k \in DOMAIN f : r[k] \in C /\ r[k].n = f[k].n
  BY <1>1, <1>3
<1>5. r \in [DOMAIN f -> C]
  BY <1>4
<1> HIDE DEF r, C
<1>6. r \in Map(Enabled \X (IPs \cup Names), C)
  BY <1>1, <1>4, <1>5, MapFacts
<1>7. Count(r)
  BY <1>1, <1>4, <1>6 DEF Count, Counts, C, end
<1>8. QED  BY <1>7 DEF r, end

LEMMA TimeTyped ==
    ASSUME GuardTypes, timePasses
    PROVE  MapsTyped(g') /\ crowded' \subseteq IPs /\ hitAge' \in [IPs -> 0..Cooldown]
<1> DEFINE s1 == [g EXCEPT !.swept = Older(@, SweepEvery)]
           s2 == [s1 EXCEPT !.connSince = [ip \in DOMAIN @ |-> Older(@[ip], StrangerTTL + 1)]]
           r3 == [k \in DOMAIN s2.counters |->
                     [age |-> Older(s2.counters[k].age, MaxRuleWindow + 1), n |-> s2.counters[k].n]]
           s3 == [s2 EXCEPT !.counters = r3]
           s4 == [s3 EXCEPT !.cooldown = [k \in DOMAIN @ |-> Older(@[k], Cooldown)]]
           s5 == [s4 EXCEPT !.mute = [k \in {m \in DOMAIN @ : @[m] > 1} |-> @[k] - 1]]
<1>1. g' = s5
  BY DEF timePasses
<1>2. SweepEvery \in Nat /\ Cooldown \in Nat /\ StrangerTTL + 1 \in Nat
  BY GuardAssumption
<1>3. MapsTyped(g) /\ hitAge \in [IPs -> 0..Cooldown] /\ crowded \subseteq IPs
  BY DEF GuardTypes
<1>4. MapsTyped(s1)
  <2>1. Older(g.swept, SweepEvery) \in 0..SweepEvery
    BY <1>2, <1>3, OlderTyped DEF MapsTyped
  <2>2. QED  BY <1>3, <2>1, SetCounts
<1> HIDE DEF s1
<1>5. MapsTyped(s2)
  <2> DEFINE f == s1.connSince
             r == [ip \in DOMAIN f |-> Older(f[ip], StrangerTTL + 1)]
  <2>1. f \in [DOMAIN f -> ConnAge] /\ DOMAIN f \subseteq IPs
    BY <1>4, MapFacts DEF MapsTyped
  <2>2. \A a \in ConnAge : Older(a, StrangerTTL + 1) \in ConnAge
    BY <1>2, OlderTyped DEF ConnAge
  <2>3. r \in [DOMAIN f -> ConnAge] /\ DOMAIN r = DOMAIN f
    BY <2>1, <2>2
  <2>4. s2 = [s1 EXCEPT !.connSince = r]
    OBVIOUS
  <2> HIDE DEF f, r
  <2>5. r \in Map(IPs, ConnAge)
    BY <2>1, <2>3, MapFacts
  <2>6. QED  BY <1>4, <2>4, <2>5, SetMaps
<1> HIDE DEF s2
<1>6. MapsTyped(s3)
  <2>1. Count(r3)
    BY <1>5, CountsGrowOld DEF MapsTyped
  <2> HIDE DEF r3
  <2>2. QED  BY <1>5, <2>1, SetCounts
<1> HIDE DEF s3, r3
<1>7. MapsTyped(s4)
  <2> DEFINE f == s3.cooldown
             r == [k \in DOMAIN f |-> Older(f[k], Cooldown)]
  <2>1. f \in [DOMAIN f -> 0..Cooldown] /\ DOMAIN f \subseteq IPs \cup Uids \cup {NoUid}
    BY <1>6, MapFacts DEF MapsTyped, Cooling
  <2>2. \A a \in 0..Cooldown : Older(a, Cooldown) \in 0..Cooldown
    BY <1>2, OlderTyped
  <2>3. r \in [DOMAIN f -> 0..Cooldown] /\ DOMAIN r = DOMAIN f
    BY <2>1, <2>2
  <2>4. s4 = [s3 EXCEPT !.cooldown = r]
    OBVIOUS
  <2> HIDE DEF f, r
  <2>5. r \in Cooling
    BY <2>1, <2>3, MapFacts DEF Cooling
  <2>6. QED  BY <1>6, <2>4, <2>5, SetCounts
<1> HIDE DEF s4
<1>8. MapsTyped(s5)
  <2> DEFINE f == s4.mute
             r == [k \in {m \in DOMAIN f : f[m] > 1} |-> f[k] - 1]
  <2>1. s5 = [s4 EXCEPT !.mute = r]
    OBVIOUS
  <2>2. Muted(f)
    BY <1>7 DEF MapsTyped
  <2>3. Muted(r)
    <3> HIDE DEF f
    <3>1. QED  BY <2>2, MutesRunOut
  <2> HIDE DEF r
  <2>4. QED  BY <1>7, <2>1, <2>3, SetCounts
<1>9. crowded' = crowded /\ hitAge' = [ip \in IPs |-> Older(hitAge[ip], Cooldown)]
  BY DEF timePasses
<1>10. hitAge' \in [IPs -> 0..Cooldown]
  BY <1>2, <1>3, <1>9, OlderTyped
<1>11. QED  BY <1>1, <1>3, <1>8, <1>9, <1>10

LEMMA GuardTypesInit == GuardInit => GuardTypes
<1> SUFFICES ASSUME GuardInit PROVE GuardTypes
  OBVIOUS
<1>1. GuardInv
  BY GuardInitHolds
<1>2. crowded \subseteq IPs /\ hitAge \in [IPs -> 0..Cooldown]
  BY GuardAssumption DEF GuardInit
<1>3. /\ DOMAIN g = Fields
      /\ g.clients = <<>> /\ g.ip2uid = <<>> /\ g.name2uid = <<>> /\ g.ipTrusted = {}
      /\ g.connSince = <<>> /\ g.ip2steamid = <<>> /\ g.counters = <<>>
      /\ g.cooldown = <<>> /\ g.mute = <<>> /\ g.swept = SweepEvery
  BY DEF GuardInit, Fields
<1>4. DOMAIN <<>> = {} /\ SweepEvery \in 0..SweepEvery
  BY GuardAssumption
<1>5. Count(<<>>)
  BY <1>4, EmptyMap DEF Count, Counts
<1>6. Muted(<<>>)
  <2>1. IsFiniteSet({}) /\ Cardinality({}) = 0
    BY FS_EmptySet
  <2>2. 0 <= MuteLimit
    BY GuardAssumption DEF MuteLimit
  <2>3. QED  BY <1>4, <2>1, <2>2, EmptyMap DEF Muted
<1>7. MapsTyped(g)
  BY <1>3, <1>4, <1>5, <1>6, EmptyMap DEF MapsTyped, Cooling
<1>8. QED  BY <1>1, <1>2, <1>7 DEF GuardTypes

LEMMA GuardTypesStep == GuardTypes /\ [EggGuardNext]_guardVars => GuardTypes'
<1> DEFINE Typed == MapsTyped(g') /\ crowded' \subseteq IPs /\ hitAge' \in [IPs -> 0..Cooldown]
<1> SUFFICES ASSUME GuardTypes, [EggGuardNext]_guardVars
             PROVE  GuardTypes'
  OBVIOUS
<1>1. GuardInv'
  BY GuardStepHolds DEF GuardTypes
<1>2. ASSUME inspect PROVE Typed
  <2>1. ASSUME NEW ip \in IPs, accept(ip) PROVE Typed
    BY <2>1, AcceptTyped
  <2>2. ASSUME NEW ip \in IPs,
               stray(ip) \/ malformed(ip) \/ connectFlood(ip) \/ rconBan(ip) \/ keepalive(ip)
        PROVE  Typed
    BY <2>2, TrafficTyped
  <2>3. ASSUME NEW p \in Players, NEW u \in Uids, connect(p, u) PROVE Typed
    BY <2>3, ConnectTyped
  <2>4. ASSUME NEW u \in Uids, NEW full \in BOOLEAN, signon(u, full) PROVE Typed
    BY <2>4, SignonTyped
  <2>5. ASSUME NEW u \in Uids, chat(u) PROVE Typed
    BY <2>5, GTyped DEF chat, GuardTypes
  <2>6. ASSUME NEW u \in Uids, dropped(u) PROVE Typed
    BY <2>6, DroppedTyped
  <2>7. ASSUME NEW rule \in {"reconnect_stuck", "move_not_joined"}, NEW n \in Names,
               aboutClient(rule, n)
        PROVE  Typed
    BY <2>7, AboutTyped
  <2> HIDE DEF Typed
  <2>8. QED  BY <1>2, <2>1, <2>2, <2>3, <2>4, <2>5, <2>6, <2>7 DEF inspect
<1>3. ASSUME NEW ip \in IPs, NEW uid \in Uids \cup {NoUid}, HostNotice(ip, uid) PROVE Typed
  BY <1>3, muteAddTyped DEF HostNotice, GuardTypes
<1>4. ASSUME timePasses PROVE Typed
  BY <1>4, TimeTyped
<1>5. ASSUME UNCHANGED guardVars PROVE Typed
  BY <1>5 DEF guardVars, GuardTypes
<1>6. Typed
  BY <1>2, <1>3, <1>4, <1>5 DEF EggGuardNext
<1>7. MapsTyped(g)'
  BY <1>6 DEF MapsTyped
<1>8. QED  BY <1>1, <1>6, <1>7 DEF GuardTypes

LEMMA GuardTypesOK == GuardTypes => GuardTypeOK
<1> SUFFICES ASSUME GuardTypes PROVE GuardTypeOK
  OBVIOUS
<1>1. slot \in [Uids -> Players \cup {NoPlayer}] /\ joined \subseteq Live /\ trustAge \in [Uids -> ConnAge]
  BY DEF GuardTypes, GuardInv, Seated
<1>2. MapsTyped(g) /\ crowded \subseteq IPs /\ hitAge \in [IPs -> 0..Cooldown]
  BY DEF GuardTypes
<1>3. \A k \in DOMAIN g.counters : /\ k[1] \in Enabled /\ k[2] \in IPs \cup Names
                                   /\ g.counters[k].age \in 0..MaxRuleWindow + 1
                                   /\ g.counters[k].n \in 1..Threshold[k[1]]
  <2> DEFINE f == g.counters
  <2>1. /\ f \in [DOMAIN f -> [age : 0..MaxRuleWindow + 1, n : Nat]]
        /\ DOMAIN f \subseteq Enabled \X (IPs \cup Names)
        /\ \A k \in DOMAIN f : f[k].n \in 1..Threshold[k[1]]
    <3>1. Count(f)
      BY <1>2 DEF MapsTyped
    <3> HIDE DEF f
    <3>2. QED  BY <3>1, CountFacts
  <2> HIDE DEF f
  <2>2. \A k \in DOMAIN f : k[1] \in Enabled /\ k[2] \in IPs \cup Names /\ f[k].age \in 0..MaxRuleWindow + 1
    BY <2>1
  <2>3. QED  BY <2>1, <2>2 DEF f
<1>4. \A k \in DOMAIN g.cooldown : k \in IPs \cup Uids \cup {NoUid} /\ g.cooldown[k] \in 0..Cooldown
  <2> DEFINE f == g.cooldown
  <2>1. f \in [DOMAIN f -> 0..Cooldown] /\ DOMAIN f \subseteq IPs \cup Uids \cup {NoUid}
    BY <1>2, MapFacts DEF MapsTyped, Cooling
  <2>2. QED  BY <2>1
<1>5. QED  BY <1>1, <1>2, <1>3, <1>4 DEF GuardTypeOK, MapsTyped, Muted, MuteLimit, LookUps

-----------------------------------------------------------------------------
(* The four together *)

GuardsInv ==
    /\ component \in {"guard", "blocks", "addons", "bundles"}
    /\ GuardTypes /\ BlocksInv /\ AddonsInv /\ BundlesInv

(* A step of one component is a step of it and stutters the others.        *)
LEMMA EachSteps ==
    ASSUME [Next]_allVars
    PROVE  /\ component' = component
           /\ [EggGuardNext]_guardVars /\ [HostBlocksNext]_blocksVars
           /\ [AddonsNext]_addonVars /\ [BundlesNext]_bundleVars
BY DEF Next, allVars

LEMMA GuardsStepHolds == GuardsInv /\ [Next]_allVars => GuardsInv'
<1> SUFFICES ASSUME GuardsInv, [Next]_allVars PROVE GuardsInv'
  OBVIOUS
<1>1. /\ component' = component
      /\ [EggGuardNext]_guardVars /\ [HostBlocksNext]_blocksVars
      /\ [AddonsNext]_addonVars /\ [BundlesNext]_bundleVars
  BY EachSteps
<1>2. GuardTypes' /\ BlocksInv' /\ AddonsInv' /\ BundlesInv'
  BY <1>1, GuardTypesStep, BlocksStepHolds, AddonsStepHolds, BundlesStepHolds DEF GuardsInv
<1>3. QED  BY <1>1, <1>2 DEF GuardsInv

LEMMA GuardsInitHolds == Init => GuardsInv
  BY GuardTypesInit, BlocksInitHolds, AddonsInitHolds, BundlesInitHolds DEF Init, GuardsInv

(* Each component keeps its types.  For the egg's guard: its maps are      *)
(* about clients, names and addresses of the engine, no count passes its   *)
(* threshold, and the mutes stay within MaxMutedEntries but for the        *)
(* SteamID that comes with an address.                                     *)
THEOREM GuardsTyped == Spec => []GuardsTypeOK
<1>1. GuardsInv => GuardsTypeOK
  <2> SUFFICES ASSUME GuardsInv PROVE GuardsTypeOK
    OBVIOUS
  <2>1. GuardTypeOK /\ BlocksTypeOK /\ AddonsTypeOK /\ BundlesTypeOK
    BY GuardTypesOK DEF GuardsInv, BlocksInv, AddonsInv, AddonsTyped, BundlesInv
  <2>2. component \in {"guard", "blocks", "addons", "bundles"}
    BY DEF GuardsInv
  <2>3. QED  BY <2>1, <2>2, Zenon DEF GuardsTypeOK
<1>2. QED  BY <1>1, GuardsInitHolds, GuardsStepHolds, PTL DEF Spec

(* What the components promise one by one they promise where they are      *)
(* checked together.                                                       *)
THEOREM GuardsKeep ==
    Spec => /\ [](ClientsMirrorSlots /\ YoungTrustHolds /\ TracesAreFindable)
            /\ [](ReasonLasts /\ CachedIsWhole /\ NewestAreThere)
            /\ AnsweredPinHolds
<1>1. GuardsInv => ClientsMirrorSlots /\ YoungTrustHolds /\ TracesAreFindable
  BY DEF GuardsInv, GuardTypes, GuardInv, Pictures, ClientsMirrorSlots, YoungTrustHolds, TracesAreFindable
<1>2. GuardsInv => ReasonLasts /\ CachedIsWhole /\ NewestAreThere
  BY BundlesNewest DEF GuardsInv, BlocksInv, ReasonsKept, AddonsInv
<1>3. GuardsInv /\ [Next]_allVars =>
        \A s \in Servers : recorded'[s] # recorded[s] => recorded'[s] \in asked[s] \/ 0 \in asked[s]
  BY EachSteps, RecordsPinned DEF GuardsInv
<1>4. Spec => [](ClientsMirrorSlots /\ YoungTrustHolds /\ TracesAreFindable)
  BY <1>1, GuardsInitHolds, GuardsStepHolds, PTL DEF Spec
<1>5. Spec => [](ReasonLasts /\ CachedIsWhole /\ NewestAreThere)
  BY <1>2, GuardsInitHolds, GuardsStepHolds, PTL DEF Spec
<1>6. UNCHANGED allVars => UNCHANGED addonVars
  BY DEF allVars
<1>7. Spec => AnsweredPinHolds
  BY <1>3, <1>6, GuardsInitHolds, GuardsStepHolds, PTL DEF Spec, AnsweredPinHolds
<1>8. QED  BY <1>4, <1>5, <1>7

=============================================================================
