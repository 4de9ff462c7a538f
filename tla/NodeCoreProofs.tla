--------------------------- MODULE NodeCoreProofs ---------------------------
(***************************************************************************)
(* Proofs about NodeCore for any containers, channel capacity and number   *)
(* of restarts: type correctness, and what a claim on a stop is worth.     *)
(***************************************************************************)
EXTENDS NodeCore, SequenceTheorems, TLAPS

-----------------------------------------------------------------------------
(* Operators *)

(* What handle makes of the registry and of the event it will publish.     *)
LEMMA FreshType == FreshEntry \in Entries
BY DEF FreshEntry, Entries, Windows

LEMMA TailShorter ==
    ASSUME NEW S, NEW s \in Seq(S), s # <<>>
    PROVE  Tail(s) \in Seq(S) /\ Len(Tail(s)) = Len(s) - 1 /\ Len(s) \in Nat
OBVIOUS

LEMMA AppendLonger ==
    ASSUME NEW S, NEW s \in Seq(S), NEW e \in S
    PROVE  Append(s, e) \in Seq(S) /\ Len(Append(s, e)) = Len(s) + 1 /\ Len(s) \in Nat
OBVIOUS

LEMMA HeadType ==
    ASSUME NEW S, NEW s \in Seq(S), s # <<>>
    PROVE  Head(s) \in S
OBVIOUS

LEMMA ReasonType ==
    ASSUME NEW e, NEW exit
    PROVE  exit \in ExitCodes \cup {"clean"} => stopReason(e, exit) \in Reasons
<1> SUFFICES ASSUME exit \in ExitCodes \cup {"clean"} PROVE stopReason(e, exit) \in Reasons
  OBVIOUS
<1>1. exit \in {"clean", "sigkill", "unsaid", "other"}
  BY CoreAssumption
<1>2. StopReasonFor(exit) \in Reasons
  BY <1>1 DEF StopReasonFor, Reasons
<1>3. QED  BY <1>2 DEF stopReason, Reasons

LEMMA ApplyStartType ==
    ASSUME RegType, EggType, NEW c \in Containers, ApplyStart(c)
    PROVE  RegType' /\ EmitType' /\ UNCHANGED claimed
<1>1. reg' \subseteq Containers
  BY DEF ApplyStart, RegType
<1>2. entry' \in [Containers -> Entries]
  BY DEF ApplyStart, RegType, Entries
<1>3. EmitType'
  <2>1. [kind |-> "start", name |-> c, reason |-> "none"] \in Published
    BY DEF Published, Reasons
  <2>2. emitting' = <<[kind |-> "start", name |-> c, reason |-> "none"]>>
    BY DEF ApplyStart
  <2>3. emitting' \in Seq(Published) /\ Len(emitting') = 1
    BY <2>1, <2>2
  <2>4. QED  BY <2>3 DEF EmitType
<1>4. QED  BY <1>1, <1>2, <1>3 DEF RegType, ApplyStart

LEMMA ApplyDieType ==
    ASSUME RegType, EmitType, EggType,
           NEW c \in Containers, NEW exit \in ExitCodes \cup {"clean"}, ApplyDie(c, exit)
    PROVE  RegType' /\ EmitType' /\ claimed' \in [Containers -> BOOLEAN]
<1>1. CASE c \notin reg
  BY <1>1 DEF ApplyDie, RegType, EmitType, EggType, regVars
<1>2. CASE c \in reg
  <2>1. RegType'
    BY <1>2, FreshType DEF ApplyDie, RegType
  <2>2. EmitType'
    <3>1. [kind |-> "die", name |-> c, reason |-> stopReason(entry[c], exit)] \in Published
      BY ReasonType DEF Published
    <3>2. emitting' = <<[kind |-> "die", name |-> c, reason |-> stopReason(entry[c], exit)]>>
      BY <1>2 DEF ApplyDie
    <3>3. QED  BY <3>1, <3>2 DEF EmitType
  <2>3. claimed' \in [Containers -> BOOLEAN]
    BY <1>2 DEF ApplyDie, EggType
  <2>4. QED  BY <2>1, <2>2, <2>3
<1>3. QED  BY <1>1, <1>2

-----------------------------------------------------------------------------
(* Type correctness *)

LEMMA InitType == Init => TypeOK
<1> SUFFICES ASSUME Init PROVE TypeOK
  OBVIOUS
<1> USE CoreAssumption DEF Init
<1>1. DockerType /\ RunType
  <2>1. 0 \in 0..MaxLives
    OBVIOUS
  <2>2. life \in [Containers -> 0..MaxLives]
    BY <2>1
  <2>3. stream \in Seq(Told)
    BY EmptySeq
  <2>4. QED  BY <2>2, <2>3 DEF DockerType, RunType
<1>2. RegType /\ EmitType
  BY FreshType, EmptySeq DEF RegType, EmitType
<1>3. EggType /\ SubType
  <2>1. NoMessage \in Messages
    BY DEF NoMessage, Messages
  <2>2. queue \in Seq(ModuleEvent) /\ Len(queue) = 0
    BY EmptySeq
  <2>3. EggType
    BY <2>1 DEF EggType
  <2>4. Len(queue) <= Capacity
    BY <2>2
  <2>5. QED  BY <2>2, <2>3, <2>4 DEF SubType
<1>4. restarts \in 0..MaxRestarts
  OBVIOUS
<1>5. QED  BY <1>1, <1>2, <1>3, <1>4 DEF TypeOK

(* docker's own steps *)
LEMMA DockerStepType ==
    ASSUME TypeOK, NEW c \in Containers,
           DockerStart(c) \/ \E exit \in ExitCodes : DockerDie(c, exit)
    PROVE  TypeOK'
<1> USE DEF TypeOK, regVars, eggVars, subVars
<1>1. CASE DockerStart(c)
  <2>1. DockerType'
    BY <1>1, CoreAssumption DEF DockerStart, DockerType
  <2>2. RunType'
    <3>1. Event("start", c, "none") \in Told
      BY DEF Event, Told
    <3>2. stream' \in Seq(Told)
      BY <1>1, <3>1, AppendLonger DEF DockerStart, Tell, RunType
    <3>3. unseen' \subseteq Containers
      BY <1>1 DEF DockerStart, Tell, RunType, Event
    <3>4. QED  BY <1>1, <3>2, <3>3 DEF DockerStart, RunType
  <2>3. RegType' /\ EmitType' /\ EggType' /\ SubType' /\ restarts' \in 0..MaxRestarts
    BY <1>1 DEF DockerStart, RegType, EmitType, EggType, SubType
  <2>4. QED  BY <2>1, <2>2, <2>3
<1>2. ASSUME NEW exit \in ExitCodes, DockerDie(c, exit)
      PROVE  TypeOK'
  <2>1. DockerType'
    BY <1>2 DEF DockerDie, DockerType
  <2>2. RunType'
    <3>1. Event("die", c, exit) \in Told
      BY DEF Event, Told
    <3>2. stream' \in Seq(Told)
      BY <1>2, <3>1, AppendLonger DEF DockerDie, Tell, RunType
    <3>3. unseen' \subseteq Containers
      BY <1>2 DEF DockerDie, Tell, RunType, Event
    <3>4. QED  BY <1>2, <3>2, <3>3 DEF DockerDie, RunType
  <2>3. EggType'
    BY <1>2 DEF DockerDie, EggType
  <2>4. RegType' /\ EmitType' /\ SubType' /\ restarts' \in 0..MaxRestarts
    BY <1>2 DEF DockerDie, RegType, EmitType, SubType
  <2>5. QED  BY <2>1, <2>2, <2>3, <2>4
<1>3. QED  BY <1>1, <1>2

(* What handle does with an event of the stream *)
LEMMA HandleType ==
    ASSUME TypeOK, HandleEvent
    PROVE  TypeOK'
<1> USE DEF TypeOK, dockerVars, subVars
<1> DEFINE e == Head(stream)
<1>1. stream # <<>> /\ e \in Told
  BY HeadType DEF HandleEvent, RunType
<1>2. e.name \in Containers
  BY <1>1 DEF Told
<1>3. RunType'
  BY <1>1, TailShorter DEF HandleEvent, RunType
<1>4. DockerType' /\ SubType' /\ restarts' \in 0..MaxRestarts
  BY DEF HandleEvent, DockerType, SubType
<1>5. held' = held /\ greeted' = greeted
  BY DEF HandleEvent
<1>6. CASE e.kind = "start"
  <2>1. ApplyStart(e.name)
    BY <1>6 DEF HandleEvent
  <2>2. RegType' /\ EmitType' /\ UNCHANGED claimed
    BY <1>2, <2>1, ApplyStartType
  <2>3. QED  BY <1>3, <1>4, <1>5, <2>2 DEF EggType
<1>7. CASE e.kind # "start"
  <2>1. ApplyDie(e.name, e.exit) /\ e.exit \in ExitCodes \cup {"clean"}
    BY <1>1, <1>7 DEF HandleEvent, Told
  <2>2. RegType' /\ EmitType' /\ claimed' \in [Containers -> BOOLEAN]
    BY <1>2, <2>1, ApplyDieType
  <2>3. QED  BY <1>3, <1>4, <1>5, <2>2 DEF EggType
<1>8. QED  BY <1>6, <1>7

(* The other steps of Run, and what breaks or wakes it *)
LEMMA RunStepType ==
    ASSUME TypeOK,
           \/ ListFails \/ OpenStream \/ Wake \/ StreamBreaks \/ Emit
           \/ \E skipped \in SUBSET running : List(skipped)
           \/ \E c \in Containers : ReconcileStart(c) \/ ReconcileDie(c)
    PROVE  TypeOK'
<1> USE DEF TypeOK, dockerVars, runVars, regVars, eggVars, subVars
<1>1. CASE ListFails \/ Wake \/ \E skipped \in SUBSET running : List(skipped)
  BY <1>1 DEF List, ListFails, Wake, DockerType, RunType, RegType, EmitType, EggType, SubType
<1>2. CASE OpenStream \/ StreamBreaks
  <2>1. stream' \in Seq(Told) /\ subscribed' \in BOOLEAN
        /\ pc' \in {"list", "reconcile", "stream", "sleep"}
    BY <1>2, EmptySeq DEF OpenStream, StreamBreaks
  <2>2. unseen' \subseteq Containers
    <3>1. \A i \in DOMAIN stream : stream[i] \in Told
      BY DEF RunType
    <3>2. \A i \in DOMAIN stream : stream[i].name \in Containers
      BY <3>1 DEF Told
    <3>3. QED  BY <1>2, <3>2 DEF OpenStream, StreamBreaks, RunType
  <2>3. RunType'
    BY <1>2, <2>1, <2>2 DEF OpenStream, StreamBreaks, RunType
  <2>4. QED
    BY <1>2, <2>3
       DEF OpenStream, StreamBreaks, DockerType, RegType, EmitType, EggType, SubType
<1>3. CASE Emit
  <2>1. emitting # <<>> /\ emitting[1] \in Published /\ Head(emitting) = emitting[1]
    BY <1>3 DEF Emit, EmitType
  <2> DEFINE e == Head(emitting)
             told == [kind |-> e.kind, name |-> e.name]
  <2>2. told \in ModuleEvent /\ e.name \in Containers
    BY <2>1 DEF Published, ModuleEvent
  <2>3. missed' \subseteq Containers
    BY <1>3, <2>2 DEF Emit, SubType
  <2>4. queue' \in Seq(ModuleEvent) /\ Len(queue') <= Capacity
    <3>1. CASE Len(queue) < Capacity /\ queue' = Append(queue, told)
      BY <2>2, <3>1, AppendLonger, CoreAssumption DEF SubType
    <3>2. CASE queue' = queue
      BY <3>2 DEF SubType
    <3>3. QED  BY <1>3, <3>1, <3>2 DEF Emit
  <2>5. SubType'
    BY <1>3, <2>3, <2>4 DEF Emit, SubType
  <2>6. EmitType'
    BY <1>3, EmptySeq DEF Emit, EmitType
  <2>7. QED
    BY <1>3, <2>5, <2>6 DEF Emit, DockerType, RunType, RegType, EggType
<1>4. ASSUME NEW c \in Containers, ReconcileStart(c)
      PROVE  TypeOK'
  <2>1. RegType' /\ EmitType' /\ UNCHANGED claimed
    BY <1>4, ApplyStartType DEF ReconcileStart
  <2>2. RunType' /\ EggType'
    BY <1>4, <2>1 DEF ReconcileStart, RunType, EggType
  <2>3. QED  BY <1>4, <2>1, <2>2 DEF ReconcileStart, DockerType, SubType
<1>5. ASSUME NEW c \in Containers, ReconcileDie(c)
      PROVE  TypeOK'
  <2>1. RegType' /\ EmitType' /\ claimed' \in [Containers -> BOOLEAN]
    BY <1>5, ApplyDieType DEF ReconcileDie
  <2>2. RunType' /\ EggType'
    BY <1>5, <2>1 DEF ReconcileDie, RunType, EggType
  <2>3. QED  BY <1>5, <2>1, <2>2 DEF ReconcileDie, DockerType, SubType
<1>6. QED  BY <1>1, <1>2, <1>3, <1>4, <1>5

(* The eggs and the modules *)
LEMMA EggStepType ==
    ASSUME TypeOK, NEW c \in Containers,
           \/ \E m \in {"hello", "state", "crash"} : Read(c, m)
           \/ setEgg(c) \/ dispatchState(c) \/ dispatchCrash(c) \/ ConnectionLost(c)
           \/ ExpectStop(c) \/ Lapse(c)
    PROVE  TypeOK'
<1> USE DEF TypeOK, dockerVars, runVars, regVars, eggVars, subVars
<1>1. DockerType' /\ RunType' /\ EmitType' /\ SubType' /\ restarts' \in 0..MaxRestarts
  BY DEF Read, setEgg, dispatchState, dispatchCrash, ConnectionLost, ExpectStop, Lapse,
         DockerType, RunType, EmitType, SubType
<1>2. RegType'
  <2>1. reg' = reg
    BY DEF Read, setEgg, dispatchState, dispatchCrash, ConnectionLost, ExpectStop, Lapse
  <2>2. entry[c] \in Entries
    BY DEF RegType
  <2>3. CASE setEgg(c) \/ dispatchState(c) \/ dispatchCrash(c)
    <3>1. CASE setEgg(c)
      BY <2>1, <2>2, <3>1 DEF setEgg, RegType, Entries, Windows
    <3>2. CASE dispatchState(c)
      BY <2>1, <2>2, <3>2 DEF dispatchState, RegType, Entries, Windows
    <3>3. CASE dispatchCrash(c)
      BY <2>1, <2>2, <3>3 DEF dispatchCrash, RegType, Entries, Windows
    <3>4. QED  BY <2>3, <3>1, <3>2, <3>3
  <2>4. CASE ExpectStop(c) \/ Lapse(c)
    BY <2>1, <2>2, <2>4 DEF ExpectStop, Lapse, RegType, Entries, Windows
  <2>5. CASE ConnectionLost(c) \/ \E m \in {"hello", "state", "crash"} : Read(c, m)
    BY <2>5 DEF ConnectionLost, Read, RegType
  <2>6. QED  BY <2>3, <2>4, <2>5
<1>3. EggType'
  <2>1. NoMessage \in Messages
    BY CoreAssumption DEF NoMessage, Messages
  <2>2. \A m \in {"hello", "state", "crash"} : [msg |-> m, of |-> life[c]] \in Messages
    BY DEF DockerType, Messages
  <2>3. QED
    BY <2>1, <2>2
       DEF Read, setEgg, dispatchState, dispatchCrash, ConnectionLost, ExpectStop, Lapse, EggType
<1>4. QED  BY <1>1, <1>2, <1>3

LEMMA ModuleStepType ==
    ASSUME TypeOK, Subscribe \/ Follow \/ DaemonRestart
    PROVE  TypeOK'
<1> USE DEF TypeOK, dockerVars, runVars, regVars, eggVars, subVars
<1>1. CASE Subscribe
  BY <1>1 DEF Subscribe, DockerType, RunType, RegType, EmitType, EggType, SubType
<1>2. CASE Follow
  <2>1. queue # <<>> /\ Head(queue) \in ModuleEvent
    BY <1>2, HeadType DEF Follow, SubType
  <2>2. Head(queue).name \in Containers
    BY <2>1 DEF ModuleEvent
  <2>3. view' \subseteq Containers
    BY <1>2, <2>2 DEF Follow, SubType
  <2>4. queue' \in Seq(ModuleEvent) /\ Len(queue') <= Capacity
    BY <1>2, <2>1, TailShorter, CoreAssumption DEF Follow, SubType
  <2>5. SubType'
    BY <1>2, <2>3, <2>4 DEF Follow, SubType
  <2>6. QED  BY <1>2, <2>5 DEF Follow, DockerType, RunType, RegType, EmitType, EggType
<1>3. CASE DaemonRestart
  <2>1. DockerType' /\ restarts' \in 0..MaxRestarts
    BY <1>3, CoreAssumption DEF DaemonRestart, DockerType
  <2>2. RunType' /\ EmitType'
    <3>1. <<>> \in Seq(Told) /\ <<>> \in Seq(Published) /\ Len(<<>>) = 0
      BY EmptySeq
    <3>2. RunType'
      BY <1>3, <3>1 DEF DaemonRestart, RunType
    <3>3. EmitType'
      BY <1>3, <3>1 DEF DaemonRestart, EmitType
    <3>4. QED  BY <3>2, <3>3
  <2>3. RegType'
    BY <1>3, FreshType DEF DaemonRestart, RegType
  <2>4. EggType'
    <3>1. NoMessage \in Messages
      BY CoreAssumption DEF NoMessage, Messages
    <3>2. QED  BY <1>3, <3>1 DEF DaemonRestart, EggType
  <2>5. SubType'
    <3>1. <<>> \in Seq(ModuleEvent) /\ Len(<<>>) <= Capacity
      <4>1. Len(<<>>) = 0
        OBVIOUS
      <4>2. QED  BY <4>1, EmptySeq, CoreAssumption
    <3>2. QED  BY <1>3, <3>1 DEF DaemonRestart, SubType
  <2>6. QED  BY <2>1, <2>2, <2>3, <2>4, <2>5
<1>4. QED  BY <1>1, <1>2, <1>3

LEMMA NextType == TypeOK /\ [Next]_vars => TypeOK'
<1> SUFFICES ASSUME TypeOK, [Next]_vars PROVE TypeOK'
  OBVIOUS
<1>1. CASE UNCHANGED vars
  BY <1>1 DEF vars, dockerVars, runVars, regVars, eggVars, subVars, TypeOK,
              DockerType, RunType, RegType, EmitType, EggType, SubType
<1>2. CASE Next
  BY <1>2, DockerStepType, HandleType, RunStepType, EggStepType, ModuleStepType DEF Next, Run
<1>3. QED  BY <1>1, <1>2

(* Every variable keeps its type in every behaviour: the channel of a      *)
(* subscriber stays within its buffer, handle publishes one event at a     *)
(* time, and a stop is never without one of the named reasons (handle).    *)
THEOREM TypeCorrect == Spec => []TypeOK
BY InitType, NextType, PTL DEF Spec

-----------------------------------------------------------------------------
(* Claims *)

(* An open claim in the registry is one nobody has used up, and a name     *)
(* outside the registry has no claim left to find.                         *)
ClaimsAreMade ==
    \A c \in Containers :
        /\ entry[c].expect = "open" => claimed[c]
        /\ c \notin reg => entry[c].expect = "none"

LEMMA ReasonIsClaim ==
    ASSUME NEW e, NEW exit \in ExitCodes \cup {"clean"}, stopReason(e, exit) = "restart"
    PROVE  e.expect = "open"
<1>1. exit \in {"clean", "sigkill", "unsaid", "other"}
  BY CoreAssumption
<1>2. StopReasonFor(exit) # "restart"
  BY <1>1 DEF StopReasonFor
<1>3. QED  BY <1>2 DEF stopReason

LEMMA ApplyStartClaims ==
    ASSUME TypeOK, ClaimsAreMade, NEW c \in Containers, ApplyStart(c)
    PROVE  ClaimsAreMade' /\ emitting'[1].kind = "start"
<1>1. \A d \in Containers : entry'[d].expect = entry[d].expect
  BY DEF ApplyStart, TypeOK, RegType, Entries
<1>2. reg' = reg \cup {c} /\ claimed' = claimed
  BY DEF ApplyStart
<1>3. emitting' = <<[kind |-> "start", name |-> c, reason |-> "none"]>>
  BY DEF ApplyStart
<1>4. QED  BY <1>1, <1>2, <1>3 DEF ClaimsAreMade

LEMMA ApplyDieClaims ==
    ASSUME TypeOK, ClaimsAreMade, NEW c \in Containers,
           NEW exit \in ExitCodes \cup {"clean"}, ApplyDie(c, exit)
    PROVE  /\ ClaimsAreMade'
           /\ \A d \in Containers :
                 (d \in reg /\ d \notin reg' /\ emitting'[1].reason = "restart") => claimed[d]
<1>1. CASE c \notin reg
  BY <1>1 DEF ApplyDie, ClaimsAreMade, regVars
<1>2. CASE c \in reg
  <2>1. /\ reg' = reg \ {c} /\ entry' = [entry EXCEPT ![c] = FreshEntry]
        /\ claimed' = [claimed EXCEPT ![c] = FALSE]
    BY <1>2 DEF ApplyDie
  <2>2. emitting' = <<[kind |-> "die", name |-> c, reason |-> stopReason(entry[c], exit)]>>
    BY <1>2 DEF ApplyDie
  <2>3. FreshEntry.expect = "none"
    BY DEF FreshEntry
  <2>4. ClaimsAreMade'
    BY <2>1, <2>3 DEF ClaimsAreMade, TypeOK, RegType, EggType
  <2>5. stopReason(entry[c], exit) = "restart" => claimed[c]
    BY ReasonIsClaim DEF ClaimsAreMade
  <2>6. QED  BY <2>1, <2>2, <2>4, <2>5
<1>3. QED  BY <1>1, <1>2

LEMMA NextClaims ==
    ASSUME TypeOK, ClaimsAreMade, [Next]_vars
    PROVE  ClaimsAreMade' /\ StopsAsClaimed
<1> USE DEF dockerVars, runVars, regVars, eggVars, subVars
<1>1. CASE UNCHANGED vars
  BY <1>1 DEF vars, ClaimsAreMade, StopsAsClaimed
<1>2. CASE \/ ListFails \/ OpenStream \/ Wake \/ StreamBreaks \/ Emit \/ Subscribe \/ Follow
           \/ \E skipped \in SUBSET running : List(skipped)
  <2>1. UNCHANGED <<regVars, claimed>>
    BY <1>2 DEF List, ListFails, OpenStream, Wake, StreamBreaks, Emit, Subscribe, Follow
  <2>2. QED  BY <2>1 DEF ClaimsAreMade, StopsAsClaimed
<1>3. CASE DaemonRestart
  BY <1>3 DEF DaemonRestart, ClaimsAreMade, StopsAsClaimed, FreshEntry
<1>4. CASE HandleEvent
  <2> DEFINE e == Head(stream)
  <2>1. e \in Told
    BY <1>4, HeadType DEF HandleEvent, TypeOK, RunType
  <2>2. e.name \in Containers
    BY <2>1 DEF Told
  <2>3. CASE e.kind = "start"
    <3>1. ApplyStart(e.name) /\ reg' = reg \cup {e.name}
      BY <1>4, <2>3 DEF HandleEvent, ApplyStart
    <3>2. QED  BY <2>2, <3>1, ApplyStartClaims DEF StopsAsClaimed
  <2>4. CASE e.kind # "start"
    <3>1. ApplyDie(e.name, e.exit) /\ e.exit \in ExitCodes \cup {"clean"}
      BY <1>4, <2>1, <2>4 DEF HandleEvent, Told
    <3>2. QED  BY <2>2, <3>1, ApplyDieClaims DEF StopsAsClaimed
  <2>5. QED  BY <2>3, <2>4
<1>5. ASSUME NEW c \in Containers, ReconcileStart(c)
      PROVE  ClaimsAreMade' /\ StopsAsClaimed
  <2>1. ApplyStart(c) /\ reg' = reg \cup {c}
    BY <1>5 DEF ReconcileStart, ApplyStart
  <2>2. QED  BY <2>1, ApplyStartClaims DEF StopsAsClaimed
<1>6. ASSUME NEW c \in Containers, ReconcileDie(c)
      PROVE  ClaimsAreMade' /\ StopsAsClaimed
  <2>1. ApplyDie(c, "clean")
    BY <1>6 DEF ReconcileDie
  <2>2. QED  BY <2>1, ApplyDieClaims DEF StopsAsClaimed
<1>7. ASSUME NEW c \in Containers,
             \/ DockerStart(c) \/ \E exit \in ExitCodes : DockerDie(c, exit)
             \/ \E m \in {"hello", "state", "crash"} : Read(c, m)
             \/ ConnectionLost(c)
      PROVE  ClaimsAreMade' /\ StopsAsClaimed
  <2>1. UNCHANGED <<regVars, claimed>>
    BY <1>7 DEF DockerStart, DockerDie, Read, ConnectionLost
  <2>2. QED  BY <2>1 DEF ClaimsAreMade, StopsAsClaimed
<1>8. ASSUME NEW c \in Containers, setEgg(c) \/ dispatchState(c) \/ dispatchCrash(c)
      PROVE  ClaimsAreMade' /\ StopsAsClaimed
  <2>1. UNCHANGED <<reg, claimed>>
    BY <1>8 DEF setEgg, dispatchState, dispatchCrash
  <2>2. \A d \in Containers : entry'[d].expect = entry[d].expect
    BY <1>8 DEF setEgg, dispatchState, dispatchCrash, TypeOK, RegType, Entries
  <2>3. QED  BY <2>1, <2>2 DEF ClaimsAreMade, StopsAsClaimed
<1>9. ASSUME NEW c \in Containers, ExpectStop(c)
      PROVE  ClaimsAreMade' /\ StopsAsClaimed
  BY <1>9 DEF ExpectStop, ClaimsAreMade, StopsAsClaimed, TypeOK, RegType, EggType, Entries
<1>10. ASSUME NEW c \in Containers, Lapse(c)
       PROVE  ClaimsAreMade' /\ StopsAsClaimed
  <2>1. UNCHANGED <<reg, claimed>> /\ c \in reg
    BY <1>10 DEF Lapse
  <2>2. \A d \in Containers \ {c} : entry'[d] = entry[d]
    BY <1>10 DEF Lapse, TypeOK, RegType
  <2>3. entry'[c].expect = entry[c].expect \/ entry'[c].expect = "lapsed"
    BY <1>10 DEF Lapse, TypeOK, RegType, Entries
  <2>4. QED  BY <2>1, <2>2, <2>3 DEF ClaimsAreMade, StopsAsClaimed
<1>11. QED
  BY <1>1, <1>2, <1>3, <1>4, <1>5, <1>6, <1>7, <1>8, <1>9, <1>10 DEF Next, Run

(* In every behaviour a stop is called a restart only for a claim made     *)
(* since the container's last stop (ExpectStop, stopReason, handle).       *)
THEOREM StopsExplained == Spec => OneStopPerClaim
<1>1. Init => ClaimsAreMade
  BY DEF Init, ClaimsAreMade, FreshEntry
<1>2. QED  BY <1>1, NextClaims, TypeCorrect, PTL DEF Spec, OneStopPerClaim

-----------------------------------------------------------------------------
(* Events to come *)

LEMMA AfterNothing ==
    ASSUME NEW V, NEW c
    PROVE  After(c \in V, <<>>, c) <=> c \in V
BY DEF After

(* One more event decides for the server it names, and for nobody else.    *)
LEMMA AfterAppend ==
    ASSUME NEW S, NEW s \in Seq(S), NEW e, NEW V, NEW c
    PROVE  After(c \in V, Append(s, e), c)
             <=> IF e.name = c THEN e.kind = "start" ELSE After(c \in V, s, c)
<1> DEFINE t == Append(s, e)
<1>1. Len(s) \in Nat /\ DOMAIN s = 1..Len(s)
  BY LenProperties
<1>2. /\ DOMAIN t = 1..(Len(s) + 1)
      /\ \A i \in 1..Len(s) : t[i] = s[i]
      /\ t[Len(s) + 1] = e
  <2>1. s \in Seq(S \cup {e})
    BY SeqDef
  <2>2. QED  BY <1>1, <2>1, AppendProperties
<1> HIDE DEF t
<1>3. CASE e.name = c
  <2>1. Len(s) + 1 \in DOMAIN t /\ t[Len(s) + 1].name = c
    BY <1>1, <1>2, <1>3
  <2>2. After(c \in V, t, c) <=> \E i \in DOMAIN t : /\ t[i].name = c /\ t[i].kind = "start"
                                               /\ \A j \in DOMAIN t : j > i => t[j].name # c
    BY <2>1 DEF After
  <2>3. \A i \in DOMAIN t : (\A j \in DOMAIN t : j > i => t[j].name # c) => i = Len(s) + 1
    BY <1>1, <1>2, <2>1
  <2>4. \A j \in DOMAIN t : ~(j > Len(s) + 1)
    BY <1>1, <1>2
  <2>5. After(c \in V, t, c) <=> t[Len(s) + 1].kind = "start"
    BY <2>1, <2>2, <2>3, <2>4
  <2>6. QED  BY <1>2, <1>3, <2>5 DEF t
<1>4. CASE e.name # c
  <2>1. \A i \in DOMAIN t : t[i].name = c <=> i \in DOMAIN s /\ s[i].name = c
    BY <1>1, <1>2, <1>4
  <2>2. \A i \in DOMAIN s : i \in DOMAIN t /\ t[i] = s[i]
    BY <1>1, <1>2
  <2>3. (\E i \in DOMAIN t : t[i].name = c) <=> \E i \in DOMAIN s : s[i].name = c
    BY <2>1, <2>2
  <2>4. (\E i \in DOMAIN t : /\ t[i].name = c /\ t[i].kind = "start"
                             /\ \A j \in DOMAIN t : j > i => t[j].name # c)
          <=> \E i \in DOMAIN s : /\ s[i].name = c /\ s[i].kind = "start"
                                  /\ \A j \in DOMAIN s : j > i => s[j].name # c
    BY <2>1, <2>2
  <2>5. After(c \in V, t, c) <=> After(c \in V, s, c)
    BY <2>3, <2>4 DEF After
  <2>6. QED  BY <1>4, <2>5 DEF t
<1>5. QED  BY <1>3, <1>4

(* The first event, applied, leaves the rest to apply.                     *)
LEMMA AfterHead ==
    ASSUME NEW S, NEW s \in Seq(S), s # <<>>, NEW c, NEW V, NEW W,
           c \in W <=> IF Head(s).name = c THEN Head(s).kind = "start" ELSE c \in V
    PROVE  After(c \in V, s, c) <=> After(c \in W, Tail(s), c)
<1> DEFINE t == Tail(s)
<1>1. /\ Len(s) \in Nat \ {0} /\ DOMAIN s = 1..Len(s)
      /\ Head(s) = s[1]
      /\ DOMAIN t = 1..(Len(s) - 1)
      /\ \A i \in 1..(Len(s) - 1) : t[i] = s[i + 1]
  <2>1. Len(s) \in Nat /\ DOMAIN s = 1..Len(s) /\ Len(s) # 0
    BY LenProperties, EmptySeq
  <2>2. t \in Seq(S) /\ Len(t) = Len(s) - 1 /\ \A i \in 1..Len(t) : t[i] = s[i + 1]
    BY HeadTailProperties
  <2>3. DOMAIN t = 1..Len(t)
    BY <2>2, LenProperties
  <2>4. QED  BY <2>1, <2>2, <2>3
<1> HIDE DEF t
<1>2. \A i \in DOMAIN t : i + 1 \in DOMAIN s /\ t[i] = s[i + 1]
  BY <1>1
<1>3. \A i \in DOMAIN s \ {1} : i - 1 \in DOMAIN t /\ s[i] = t[i - 1]
  BY <1>1
<1>4. CASE \E i \in DOMAIN t : t[i].name = c
  <2>1. \E i \in DOMAIN s : s[i].name = c
    BY <1>2, <1>4
  <2>2. ASSUME \E i \in DOMAIN t : /\ t[i].name = c /\ t[i].kind = "start"
                                   /\ \A j \in DOMAIN t : j > i => t[j].name # c
        PROVE  \E i \in DOMAIN s : /\ s[i].name = c /\ s[i].kind = "start"
                                   /\ \A j \in DOMAIN s : j > i => s[j].name # c
    <3>1. PICK i \in DOMAIN t : /\ t[i].name = c /\ t[i].kind = "start"
                                /\ \A j \in DOMAIN t : j > i => t[j].name # c
      BY <2>2
    <3>2. i + 1 \in DOMAIN s /\ s[i + 1] = t[i]
      BY <1>2
    <3>3. ASSUME NEW j \in DOMAIN s, j > i + 1
          PROVE  s[j].name # c
      <4>1. j # 1 /\ j - 1 > i
        BY <1>1, <3>3
      <4>2. j - 1 \in DOMAIN t /\ s[j] = t[j - 1]
        BY <4>1, <1>3
      <4>3. QED  BY <3>1, <4>1, <4>2
    <3>4. QED  BY <3>1, <3>2, <3>3
  <2>3. ASSUME \E i \in DOMAIN s : /\ s[i].name = c /\ s[i].kind = "start"
                                   /\ \A j \in DOMAIN s : j > i => s[j].name # c
        PROVE  \E i \in DOMAIN t : /\ t[i].name = c /\ t[i].kind = "start"
                                   /\ \A j \in DOMAIN t : j > i => t[j].name # c
    <3>1. PICK i \in DOMAIN s : /\ s[i].name = c /\ s[i].kind = "start"
                                /\ \A j \in DOMAIN s : j > i => s[j].name # c
      BY <2>3
    <3>2. i # 1
      <4>1. PICK k \in DOMAIN t : t[k].name = c
        BY <1>4
      <4>2. k + 1 \in DOMAIN s /\ s[k + 1].name = c
        BY <1>2, <4>1
      <4>3. ~(k + 1 > i)
        BY <3>1, <4>2
      <4>4. k \in Nat \ {0}
        BY <1>1
      <4>5. QED  BY <4>3, <4>4
    <3>3. i - 1 \in DOMAIN t /\ s[i] = t[i - 1]
      BY <3>2, <1>3
    <3>4. ASSUME NEW j \in DOMAIN t, j > i - 1
          PROVE  t[j].name # c
      <4>1. j + 1 \in DOMAIN s /\ t[j] = s[j + 1]
        BY <1>2
      <4>2. j + 1 > i
        BY <1>1, <3>4
      <4>3. QED  BY <3>1, <4>1, <4>2
    <3>5. QED  BY <3>1, <3>3, <3>4
  <2>4. After(c \in V, s, c) <=> After(c \in W, t, c)
    BY <1>4, <2>1, <2>2, <2>3 DEF After
  <2>5. QED  BY <2>4 DEF t
<1>5. CASE ~ \E i \in DOMAIN t : t[i].name = c
  <2>1. \A j \in DOMAIN s : j > 1 => s[j].name # c
    BY <1>1, <1>3, <1>5
  <2>2. After(c \in W, t, c) <=> c \in W
    BY <1>5 DEF After
  <2>3. 1 \in DOMAIN s /\ \A i \in DOMAIN s : i = 1 \/ i > 1
    BY <1>1
  <2>4. CASE s[1].name = c
    <3>1. After(c \in V, s, c) <=> s[1].kind = "start"
      BY <2>1, <2>3, <2>4 DEF After
    <3>2. QED  BY <1>1, <2>2, <2>4, <3>1 DEF t
  <2>5. CASE s[1].name # c
    <3>1. ~ \E i \in DOMAIN s : s[i].name = c
      BY <2>1, <2>3, <2>5
    <3>2. After(c \in V, s, c) <=> c \in V
      BY <3>1 DEF After
    <3>3. QED  BY <1>1, <2>2, <2>5, <3>2 DEF t
  <2>6. QED  BY <2>4, <2>5
<1>6. QED  BY <1>4, <1>5

-----------------------------------------------------------------------------
(* What the subscriber will believe *)

(* The event handle has still to publish is about a server the registry    *)
(* has just been changed for, and says what the registry says.             *)
EmitAgrees ==
    emitting # <<>> =>
        \A c \in Containers :
            emitting[1].name = c => (emitting[1].kind = "start" <=> c \in reg)

ViewInv == EmitAgrees /\ ViewFollowsRegistry

(* Whether c is present to someone who believes in V, has the events q     *)
(* before him, and is to be given those of m, at most one.                 *)
Believed(V, q, m, c) ==
    IF m # <<>> /\ m[1].name = c THEN m[1].kind = "start" ELSE After(c \in V, q, c)

LEMMA AtMostOne ==
    ASSUME NEW S, NEW m \in Seq(S), Len(m) <= 1
    PROVE  m = <<>> \/ (m = <<m[1]>> /\ m[1] \in S /\ Head(m) = m[1])
<1>1. CASE Len(m) = 0
  BY <1>1
<1>2. CASE Len(m) = 1
  BY <1>2
<1>3. Len(m) = 0 \/ Len(m) = 1
  <2>1. Len(m) \in Nat
    BY LenProperties
  <2>2. \A n \in Nat : n <= 1 => n = 0 \/ n = 1
    OBVIOUS
  <2>3. QED  BY <2>1, <2>2, Zenon
<1>4. QED  BY <1>1, <1>2, <1>3

LEMMA BelievedInTheEnd ==
    ASSUME NEW V, NEW q \in Seq(ModuleEvent),
           NEW m \in Seq(Published), Len(m) <= 1, NEW c
    PROVE  After(c \in V, q \o m, c) <=> Believed(V, q, m, c)
<1> DEFINE S == ModuleEvent \cup Published
<1>1. q \in Seq(S)
  BY SeqMonotonic
<1>2. CASE m = <<>>
  <2>1. q \o m = q
    BY <1>2, ConcatEmptySeq
  <2>2. QED  BY <1>2, <2>1 DEF Believed
<1>3. CASE m # <<>>
  <2>1. m = <<m[1]>> /\ m[1] \in S
    BY <1>3, AtMostOne
  <2>2. q \o <<m[1]>> = Append(q, m[1])
    BY <1>1, <2>1, AppendIsConcat
  <2>3. q \o m = Append(q, m[1])
    BY <2>1, <2>2
  <2>4. QED  BY <1>3, <2>3, AfterAppend DEF Believed
<1>4. QED  BY <1>2, <1>3

LEMMA ViewAsBelieved ==
    ASSUME TypeOK
    PROVE  ViewFollowsRegistry
             <=> \A c \in Containers \ missed :
                    Believed(view, queue, emitting, c) <=> c \in reg
<1>1. /\ queue \in Seq(ModuleEvent)
      /\ emitting \in Seq(Published) /\ Len(emitting) <= 1
  BY DEF TypeOK, EmitType, SubType
<1>2. \A c \in Containers : After(c \in view, queue \o emitting, c)
                                <=> Believed(view, queue, emitting, c)
  BY <1>1, BelievedInTheEnd
<1>3. QED  BY <1>2 DEF ViewFollowsRegistry

(* The same of the next state. *)
LEMMA ViewAsBelievedNext ==
    ASSUME TypeOK',
           \A c \in Containers \ missed' :
              Believed(view', queue', emitting', c) <=> c \in reg'
    PROVE  ViewFollowsRegistry'
<1>1. /\ queue' \in Seq(ModuleEvent)
      /\ emitting' \in Seq(Published) /\ Len(emitting') <= 1
  BY DEF TypeOK, EmitType, SubType
<1>2. \A c \in Containers : After(c \in view', queue' \o emitting', c)
                                <=> Believed(view', queue', emitting', c)
  BY <1>1, BelievedInTheEnd
<1>3. QED  BY <1>2 DEF ViewFollowsRegistry

(* handle: the registry and the event change together.                     *)
LEMMA HandledView ==
    ASSUME TypeOK, TypeOK', ViewInv, emitting = <<>>, UNCHANGED subVars, NEW c \in Containers,
           ApplyStart(c) \/ \E exit : ApplyDie(c, exit)
    PROVE  ViewInv'
<1> USE DEF ViewInv, subVars
<1>1. \A d \in Containers \ missed : After(d \in view, queue, d) <=> d \in reg
  BY ViewAsBelieved DEF Believed
<1>2. CASE UNCHANGED <<reg, emitting>>
  BY <1>2 DEF EmitAgrees, ViewFollowsRegistry
<1>3. CASE /\ emitting' # <<>> /\ emitting'[1].name = c
           /\ emitting'[1].kind = "start" <=> c \in reg'
           /\ \A d \in Containers \ {c} : d \in reg' <=> d \in reg
  <2>1. EmitAgrees'
    BY <1>3 DEF EmitAgrees
  <2>2. \A d \in Containers \ missed' :
           Believed(view', queue', emitting', d) <=> d \in reg'
    BY <1>1, <1>3 DEF Believed
  <2>3. QED  BY <2>1, <2>2, ViewAsBelievedNext
<1>4. CASE ApplyStart(c)
  <2>1. /\ emitting' = <<[kind |-> "start", name |-> c, reason |-> "none"]>>
        /\ reg' = reg \cup {c}
    BY <1>4 DEF ApplyStart
  <2>2. QED  BY <1>3, <2>1
<1>5. ASSUME NEW exit, ApplyDie(c, exit), c \in reg
      PROVE  ViewInv'
  <2>1. /\ emitting' = <<[kind |-> "die", name |-> c, reason |-> stopReason(entry[c], exit)]>>
        /\ reg' = reg \ {c}
    BY <1>5 DEF ApplyDie
  <2>2. QED  BY <1>3, <2>1
<1>6. ASSUME NEW exit, ApplyDie(c, exit), c \notin reg
      PROVE  ViewInv'
  BY <1>2, <1>6 DEF ApplyDie, regVars
<1>7. QED  BY <1>4, <1>5, <1>6

(* publish: the event is on the channel, or the server counts as missed.   *)
LEMMA EmitView ==
    ASSUME TypeOK, TypeOK', ViewInv, Emit
    PROVE  ViewInv'
<1> USE DEF ViewInv
<1> DEFINE e == emitting[1]
           told == [kind |-> e.kind, name |-> e.name]
<1>1. emitting # <<>> /\ Head(emitting) = e /\ e \in Published
  BY AtMostOne DEF Emit, TypeOK, EmitType
<1>2. emitting' = <<>> /\ reg' = reg /\ view' = view
  BY DEF Emit, regVars
<1>3. \A d \in Containers \ missed : Believed(view, queue, emitting, d) <=> d \in reg
  BY ViewAsBelieved
<1>4. SUFFICES \A d \in Containers \ missed' :
                  Believed(view', queue', emitting', d) <=> d \in reg'
  BY <1>2, ViewAsBelievedNext DEF EmitAgrees
<1>5. SUFFICES ASSUME NEW d \in Containers \ missed'
               PROVE  After(d \in view, queue', d) <=> d \in reg
  BY <1>2 DEF Believed
<1>6. CASE subs /\ Len(queue) < Capacity
  <2>1. queue' = Append(queue, told) /\ missed' = missed \ {e.name}
    BY <1>1, <1>6 DEF Emit
  <2>2. queue \in Seq(ModuleEvent)
    BY DEF TypeOK, SubType
  <2>3. After(d \in view, queue', d)
          <=> IF e.name = d THEN e.kind = "start" ELSE After(d \in view, queue, d)
    BY <2>1, <2>2, AfterAppend
  <2>4. CASE e.name = d
    BY <1>1, <2>3, <2>4 DEF EmitAgrees
  <2>5. CASE e.name # d
    <3>1. d \notin missed
      BY <2>1, <2>5
    <3>2. QED  BY <1>3, <2>3, <2>5, <3>1 DEF Believed
  <2>6. QED  BY <2>4, <2>5
<1>7. CASE ~(subs /\ Len(queue) < Capacity)
  <2>1. queue' = queue /\ missed' = missed \cup {e.name}
    BY <1>1, <1>7 DEF Emit
  <2>2. QED  BY <1>3, <2>1 DEF Believed
<1>8. QED  BY <1>6, <1>7

(* The module takes an event: what it will believe in the end stays.       *)
LEMMA FollowView ==
    ASSUME TypeOK, TypeOK', ViewInv, Follow
    PROVE  ViewInv'
<1> USE DEF ViewInv
<1>1. /\ queue # <<>> /\ queue \in Seq(ModuleEvent) /\ Head(queue) \in ModuleEvent
      /\ queue' = Tail(queue)
      /\ UNCHANGED <<emitting, reg, missed>>
  BY HeadType DEF Follow, TypeOK, SubType, regVars
<1>2. Head(queue).kind \in {"start", "die"} /\ Head(queue).name \in Containers
  BY <1>1 DEF ModuleEvent
<1>3. \A d \in Containers :
         d \in view' <=> IF Head(queue).name = d THEN Head(queue).kind = "start" ELSE d \in view
  BY <1>2 DEF Follow
<1>4. \A d \in Containers : After(d \in view', queue', d) <=> After(d \in view, queue, d)
  <2>1. SUFFICES ASSUME NEW d \in Containers
                 PROVE  After(d \in view', queue', d) <=> After(d \in view, queue, d)
    OBVIOUS
  <2>2. d \in view' <=> IF Head(queue).name = d THEN Head(queue).kind = "start" ELSE d \in view
    BY <1>3
  <2>3. QED  BY <1>1, <2>2, AfterHead
<1>5. \A d \in Containers \ missed : Believed(view, queue, emitting, d) <=> d \in reg
  BY ViewAsBelieved
<1>6. \A d \in Containers \ missed' :
         Believed(view', queue', emitting', d) <=> d \in reg'
  BY <1>1, <1>4, <1>5 DEF Believed
<1>7. EmitAgrees'
  BY <1>1 DEF EmitAgrees
<1>8. QED  BY <1>6, <1>7, ViewAsBelievedNext

LEMMA NextView ==
    ASSUME TypeOK, TypeOK', ViewInv, [Next]_vars
    PROVE  ViewInv'
<1> USE DEF dockerVars, runVars, regVars, eggVars, subVars
<1>1. CASE UNCHANGED <<reg, emitting, queue, view, missed>>
  BY <1>1 DEF ViewInv, EmitAgrees, ViewFollowsRegistry
<1>2. CASE \/ ListFails \/ OpenStream \/ Wake \/ StreamBreaks \/ Subscribe \/ UNCHANGED vars
           \/ \E skipped \in SUBSET running : List(skipped)
  BY <1>1, <1>2 DEF List, ListFails, OpenStream, Wake, StreamBreaks, Subscribe, vars
<1>3. ASSUME NEW c \in Containers,
             \/ DockerStart(c) \/ \E exit \in ExitCodes : DockerDie(c, exit)
             \/ \E m \in {"hello", "state", "crash"} : Read(c, m)
             \/ setEgg(c) \/ dispatchState(c) \/ dispatchCrash(c) \/ ConnectionLost(c)
             \/ ExpectStop(c) \/ Lapse(c)
      PROVE  ViewInv'
  <2>1. UNCHANGED <<reg, emitting, queue, view, missed>>
    BY <1>3
       DEF DockerStart, DockerDie, Read, setEgg, dispatchState, dispatchCrash,
           ConnectionLost, ExpectStop, Lapse
  <2>2. QED  BY <1>1, <2>1
<1>4. CASE HandleEvent
  <2> DEFINE e == Head(stream)
  <2>1. e.name \in Containers
    BY <1>4, HeadType DEF HandleEvent, TypeOK, RunType, Told
  <2>2. ApplyStart(e.name) \/ ApplyDie(e.name, e.exit)
    BY <1>4 DEF HandleEvent
  <2>3. emitting = <<>> /\ UNCHANGED subVars
    BY <1>4 DEF HandleEvent
  <2>4. QED  BY <2>1, <2>2, <2>3, HandledView
<1>5. ASSUME NEW c \in Containers, ReconcileStart(c) \/ ReconcileDie(c)
      PROVE  ViewInv'
  BY <1>5, HandledView DEF ReconcileStart, ReconcileDie
<1>6. CASE Emit
  BY <1>6, EmitView
<1>7. CASE Follow
  BY <1>7, FollowView
<1>8. CASE DaemonRestart
  BY <1>8 DEF DaemonRestart, ViewInv, EmitAgrees, ViewFollowsRegistry
<1>9. QED  BY <1>2, <1>3, <1>4, <1>5, <1>6, <1>7, <1>8 DEF Next, Run

(* In every behaviour, whatever the capacity of the channel: a subscriber  *)
(* is wrong about a server only when the latest event about it was         *)
(* dropped, although handle publishes after it let the lock go.            *)
THEOREM SubscriberFollows == Spec => []ViewFollowsRegistry
<1>1. Init => ViewInv
  BY DEF Init, ViewInv, EmitAgrees, ViewFollowsRegistry
<1>2. TypeOK /\ TypeOK' /\ ViewInv /\ [Next]_vars => ViewInv'
  BY NextView
<1>3. ViewInv => ViewFollowsRegistry
  BY DEF ViewInv
<1>4. QED  BY <1>1, <1>2, <1>3, TypeCorrect, PTL DEF Spec

-----------------------------------------------------------------------------
(* What the registry will say *)

(* Where Run stands between docker and the registry.  Outside the stream   *)
(* there is no subscription and nothing on it.  While it reconciles, the   *)
(* list is right about every server that has not changed since, and every  *)
(* listed server that was handled is registered.                           *)
Listing ==
    /\ subscribed <=> pc = "stream"
    /\ pc # "stream" => stream = <<>>
    /\ pc = "reconcile" =>
          /\ \A c \in Containers \ unseen : c \in listed <=> c \in running
          /\ listed \ starts \subseteq reg

StreamInv == Listing /\ PendingEventsAccount

(* docker's own steps: the event is on the stream, or Run is not told.     *)
LEMMA DockerStream ==
    ASSUME TypeOK, StreamInv, NEW c \in Containers,
           DockerStart(c) \/ \E exit \in ExitCodes : DockerDie(c, exit)
    PROVE  StreamInv'
<1> USE DEF StreamInv, regVars
<1>1. PICK e : /\ Tell(e) /\ e.name = c
               /\ e.kind = "start" <=> c \in running'
               /\ \A d \in Containers \ {c} : d \in running' <=> d \in running
               /\ UNCHANGED <<subscribed, pc, listed, starts, reg>>
  <2>1. CASE DockerStart(c)
    BY <2>1 DEF DockerStart, Event
  <2>2. ASSUME NEW exit \in ExitCodes, DockerDie(c, exit)
        PROVE  /\ Tell(Event("die", c, exit)) /\ c \notin running'
               /\ \A d \in Containers \ {c} : d \in running' <=> d \in running
               /\ UNCHANGED <<subscribed, pc, listed, starts, reg>>
    BY <2>2 DEF DockerDie
  <2>3. QED  BY <2>1, <2>2 DEF Event
<1>2. CASE subscribed /\ stream' = Append(stream, e) /\ unseen' = unseen \ {c}
  <2>1. pc = "stream" /\ stream' = Append(stream, e) /\ unseen' = unseen \ {c}
    BY <1>2 DEF Listing
  <2>2. stream \in Seq(Told)
    BY DEF TypeOK, RunType
  <2>3. ASSUME NEW d \in Containers \ unseen'
        PROVE  After(d \in reg, stream', d) <=> d \in running'
    <3>1. After(d \in reg, stream', d)
            <=> IF e.name = d THEN e.kind = "start" ELSE After(d \in reg, stream, d)
      BY <2>1, <2>2, AfterAppend
    <3>2. CASE d = c
      BY <1>1, <3>1, <3>2
    <3>3. CASE d # c
      <4>1. After(d \in reg, stream, d) <=> d \in running
        BY <2>1, <2>3, <3>3 DEF PendingEventsAccount
      <4>2. QED  BY <1>1, <3>1, <3>3, <4>1
    <3>4. QED  BY <3>2, <3>3
  <2>4. QED  BY <1>1, <1>2, <2>1, <2>3 DEF Listing, PendingEventsAccount
<1>3. CASE stream' = stream /\ unseen' = unseen \cup {c}
  <2>1. ASSUME pc = "stream", NEW d \in Containers \ unseen'
        PROVE  After(d \in reg, stream', d) <=> d \in running'
    <3>1. d # c /\ (d \in running' <=> d \in running)
      BY <1>1, <1>3, <2>1
    <3>2. After(d \in reg, stream, d) <=> d \in running
      BY <1>3, <2>1 DEF PendingEventsAccount
    <3>3. QED  BY <1>3, <3>1, <3>2
  <2>2. QED  BY <1>1, <1>3, <2>1 DEF Listing, PendingEventsAccount
<1>4. QED  BY <1>1, <1>2, <1>3 DEF Tell

(* handle takes an event off the stream and into the registry.             *)
LEMMA HandleStream ==
    ASSUME TypeOK, StreamInv, HandleEvent
    PROVE  StreamInv'
<1> USE DEF StreamInv
<1> DEFINE e == Head(stream)
<1>1. /\ pc = "stream" /\ stream # <<>> /\ stream \in Seq(Told) /\ e \in Told
      /\ stream' = Tail(stream)
      /\ UNCHANGED <<running, subscribed, unseen, pc, listed, starts>>
  BY HeadType DEF HandleEvent, TypeOK, RunType, dockerVars
<1>2. \A d : d \in reg' <=> IF e.name = d THEN e.kind = "start" ELSE d \in reg
  <2>1. CASE e.kind = "start"
    <3>1. reg' = reg \cup {e.name}
      BY <2>1 DEF HandleEvent, ApplyStart
    <3>2. QED  BY <2>1, <3>1
  <2>2. CASE e.kind # "start"
    <3>1. reg' = reg \ {e.name}
      BY <2>2 DEF HandleEvent, ApplyDie, regVars
    <3>2. QED  BY <2>2, <3>1
  <2>3. QED  BY <2>1, <2>2
<1>3. \A d : After(d \in reg, stream, d) <=> After(d \in reg', stream', d)
  BY <1>1, <1>2, AfterHead
<1>4. QED  BY <1>1, <1>3 DEF Listing, PendingEventsAccount

(* The rest of Run: the list, what it makes of it, and the subscription.   *)
LEMMA RunStream ==
    ASSUME TypeOK, StreamInv,
           \/ ListFails \/ OpenStream \/ StreamBreaks \/ Wake
           \/ \E skipped \in SUBSET running : List(skipped)
           \/ \E c \in Containers : ReconcileStart(c) \/ ReconcileDie(c)
    PROVE  StreamInv'
<1> USE DEF StreamInv, dockerVars, runVars, regVars
<1>1. CASE \/ ListFails \/ StreamBreaks \/ Wake
           \/ \E skipped \in SUBSET running : List(skipped)
  BY <1>1 DEF List, ListFails, StreamBreaks, Wake, Listing, PendingEventsAccount
<1>2. CASE OpenStream
  <2>1. /\ pc' = "stream" /\ subscribed' = TRUE /\ stream' = <<>>
        /\ UNCHANGED <<running, unseen, listed, starts, reg>>
    BY <1>2 DEF OpenStream
  <2>2. reg = listed
    BY <1>2 DEF OpenStream, Listing, TypeOK, RunType
  <2>3. \A d \in Containers \ unseen : d \in listed <=> d \in running
    BY <1>2 DEF OpenStream, Listing
  <2>4. \A d \in Containers \ unseen' : After(d \in reg', stream', d) <=> d \in running'
    BY <2>1, <2>2, <2>3, AfterNothing
  <2>5. QED  BY <2>1, <2>4 DEF Listing, PendingEventsAccount
<1>3. ASSUME NEW c \in Containers, ReconcileStart(c)
      PROVE  StreamInv'
  <2>1. /\ pc = "reconcile" /\ reg' = reg \cup {c} /\ starts' = starts \ {c}
        /\ UNCHANGED <<running, stream, subscribed, unseen, pc, listed>>
    BY <1>3 DEF ReconcileStart, ApplyStart
  <2>2. QED  BY <2>1 DEF Listing, PendingEventsAccount
<1>4. ASSUME NEW c \in Containers, ReconcileDie(c)
      PROVE  StreamInv'
  <2>1. /\ pc = "reconcile" /\ c \notin listed /\ reg' = reg \ {c}
        /\ UNCHANGED <<running, stream, subscribed, unseen, pc, listed, starts>>
    BY <1>4 DEF ReconcileDie, ApplyDie
  <2>2. QED  BY <2>1 DEF Listing, PendingEventsAccount
<1>5. QED  BY <1>1, <1>2, <1>3, <1>4

LEMMA NextStream ==
    ASSUME TypeOK, StreamInv, [Next]_vars
    PROVE  StreamInv'
<1> USE DEF dockerVars, runVars, regVars, eggVars, subVars
<1>1. CASE UNCHANGED <<running, stream, subscribed, unseen, pc, listed, starts, reg>>
  BY <1>1 DEF StreamInv, Listing, PendingEventsAccount
<1>2. CASE Emit \/ Subscribe \/ Follow \/ UNCHANGED vars
  BY <1>1, <1>2 DEF Emit, Subscribe, Follow, vars
<1>3. ASSUME NEW c \in Containers,
             \/ \E m \in {"hello", "state", "crash"} : Read(c, m)
             \/ setEgg(c) \/ dispatchState(c) \/ dispatchCrash(c) \/ ConnectionLost(c)
             \/ ExpectStop(c) \/ Lapse(c)
      PROVE  StreamInv'
  <2>1. UNCHANGED <<running, stream, subscribed, unseen, pc, listed, starts, reg>>
    BY <1>3
       DEF Read, setEgg, dispatchState, dispatchCrash, ConnectionLost, ExpectStop, Lapse
  <2>2. QED  BY <1>1, <2>1
<1>4. CASE DaemonRestart
  BY <1>4 DEF DaemonRestart, StreamInv, Listing, PendingEventsAccount
<1>5. QED  BY <1>2, <1>3, <1>4, DockerStream, HandleStream, RunStream DEF Next, Run

(* In every behaviour, while Run follows the stream, the registry and      *)
(* docker differ by the events still on it, except about servers whose     *)
(* state neither the latest list nor the stream has told: changed between  *)
(* the two, left out by Running, or dropped by Events (Run, docker.go).    *)
THEOREM RegistryFollows == Spec => []PendingEventsAccount
<1>1. Init => StreamInv
  BY DEF Init, StreamInv, Listing, PendingEventsAccount
<1>2. TypeOK /\ StreamInv /\ [Next]_vars => StreamInv'
  BY NextStream
<1>3. StreamInv => PendingEventsAccount
  BY DEF StreamInv
<1>4. QED  BY <1>1, <1>2, <1>3, TypeCorrect, PTL DEF Spec

=============================================================================
