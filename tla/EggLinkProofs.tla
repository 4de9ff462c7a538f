---------------------------- MODULE EggLinkProofs ---------------------------
(***************************************************************************)
(* Proofs about EggLink for any number of connections and sockets, whether *)
(* or not the module subscribes in time: type correctness, and that a      *)
(* connection its socket does not call current any more is closed.         *)
(***************************************************************************)
EXTENDS EggLink, SequenceTheorems, TLAPS

-----------------------------------------------------------------------------
(* The invariant *)

(* A writer that stands before its write knows a connection to write to,   *)
(* and an egg that waits for the node holds one.                           *)
PeersKnown ==
    /\ egg \in {"hello", "rehello", "verdict"} => mine # NoConn
    /\ \A k \in Conns : serve[k] = "greeting" => greetTo[k] # NoConn
    /\ \A k \in Conns : job[k] \in {"status", "verdict"} => writeTo[k] # NoConn

(* Serve goroutines start with the dial, on a socket the node opened, and  *)
(* only a connection that serve took under the lock becomes current.       *)
CurrentIsAccepted ==
    /\ listening => opens \in Sockets
    /\ \A k \in Conns : k > dialled => serve[k] = "none"
    /\ \A k \in Conns : serve[k] # "none" => sockOf[k] \in Sockets
    /\ \A k \in Conns : Current(k) => serve[k] \notin {"none", "backlog", "taken"}

LinkInv == LinkTypeOK /\ PeersKnown /\ CurrentIsAccepted

-----------------------------------------------------------------------------
(* Operators *)

LEMMA ConnsType == NoConn \notin Conns /\ Conns \subseteq Nat
BY LinkAssumption DEF Conns, NoConn

(* A write appends to one connection's inbox. *)
LEMMA InboxAppend ==
    ASSUME inbox \in [Conns -> Seq(Messages)], NEW t \in Conns, NEW m \in Messages
    PROVE  [inbox EXCEPT ![t] = Append(@, m)] \in [Conns -> Seq(Messages)]
OBVIOUS

(* A read takes the first message of a connection's inbox. *)
LEMMA InboxTail ==
    ASSUME inbox \in [Conns -> Seq(Messages)], NEW t \in Conns, inbox[t] # <<>>
    PROVE  [inbox EXCEPT ![t] = Tail(@)] \in [Conns -> Seq(Messages)]
<1>1. Tail(inbox[t]) \in Seq(Messages)
  OBVIOUS
<1>2. QED  BY <1>1

(* Connections are only closed, and what is forgotten is closed. *)
Closes ==
    /\ shut' \in [Conns -> BOOLEAN]
    /\ conn' \in [Sockets -> Conns \cup {NoConn}]
    /\ \A k \in Conns : shut[k] => shut'[k]
    /\ \A o \in Sockets : conn'[o] = conn[o] \/ conn'[o] = NoConn
    /\ \A k \in Conns : Current(k) => shut'[k] \/ Current(k)'

(* drop closes what it is given. *)
LEMMA DropCloses ==
    ASSUME LinkTypeOK, NEW S, drop(S)
    PROVE  Closes /\ \A k \in Conns \cap S : shut'[k]
BY DEF LinkTypeOK, drop, Closes, Current

(* So does a step that leaves the connections alone. *)
LEMMA StayCloses ==
    ASSUME LinkTypeOK, UNCHANGED <<shut, conn>>
    PROVE  Closes
BY DEF LinkTypeOK, Closes, Current

(* A step that only closes leaves one connection open if the goroutines    *)
(* that were not past the lock stay there.                                 *)
LEMMA OnlyKeeps ==
    ASSUME LinkTypeOK, Closes, OnlyTheCurrentIsOpen,
           \A k \in Conns : serve[k] \in {"none", "backlog", "taken"} =>
               serve'[k] \in {"none", "backlog", "taken"} \/ shut'[k]
    PROVE  OnlyTheCurrentIsOpen'
<1> SUFFICES ASSUME NEW k \in Conns, serve'[k] \notin {"none", "backlog", "taken"}, ~Current(k)'
             PROVE  shut'[k]
  BY DEF OnlyTheCurrentIsOpen
<1>1. CASE Current(k)
  BY <1>1 DEF Closes
<1>2. CASE ~Current(k)
  BY <1>2 DEF Closes, OnlyTheCurrentIsOpen
<1>3. QED  BY <1>1, <1>2

(* Nothing that only closes makes another connection current. *)
LEMMA CurrentKeeps ==
    ASSUME LinkTypeOK, Closes, NEW k \in Conns, Current(k)'
    PROVE  Current(k)
BY ConnsType DEF Closes, Current, LinkTypeOK

LEMMA BesideType ==
    ASSUME LinkTypeOK, NEW k \in Conns
    PROVE  CurrentBeside(k) \in Conns \cup {NoConn}
BY DEF LinkTypeOK, CurrentBeside

-----------------------------------------------------------------------------
(* The invariant holds of every step *)

(* A step of a goroutine past the lock, which at most closes connections. *)
LEMMA GoesOn ==
    ASSUME LinkInv, Closes, NEW k \in Conns, NEW v,
           UNCHANGED <<dialled, opens, listening, sockOf>>,
           serve[k] \notin {"none", "backlog", "taken"},
           v \notin {"none", "backlog", "taken"},
           serve' = [serve EXCEPT ![k] = v]
    PROVE  CurrentIsAccepted' /\ (OnlyTheCurrentIsOpen => OnlyTheCurrentIsOpen')
<1> USE DEF LinkInv
<1>1. \A i \in Conns : serve'[i] = IF i = k THEN v ELSE serve[i]
  BY DEF LinkTypeOK
<1>2. CurrentIsAccepted'
  BY <1>1, CurrentKeeps DEF CurrentIsAccepted
<1>3. OnlyTheCurrentIsOpen => OnlyTheCurrentIsOpen'
  BY <1>1, OnlyKeeps
<1>4. QED  BY <1>2, <1>3

(* A step that is not a goroutine's, and at most closes connections. *)
LEMMA StandsStill ==
    ASSUME LinkInv, Closes, UNCHANGED <<dialled, opens, listening, sockOf, serve>>
    PROVE  CurrentIsAccepted' /\ (OnlyTheCurrentIsOpen => OnlyTheCurrentIsOpen')
<1> USE DEF LinkInv
<1>1. CurrentIsAccepted'
  BY CurrentKeeps DEF CurrentIsAccepted
<1>2. OnlyTheCurrentIsOpen => OnlyTheCurrentIsOpen'
  BY OnlyKeeps
<1>3. QED  BY <1>1, <1>2

LEMMA AcceptInv ==
    ASSUME LinkInv, NEW k \in Conns, accept(k)
    PROVE  LinkInv' /\ (OnlyTheCurrentIsOpen => OnlyTheCurrentIsOpen')
<1> USE ConnsType DEF LinkInv
<1>1. LinkTypeOK'
  BY DEF accept, LinkTypeOK, eggVars, wireVars, jobVars
<1>2. PeersKnown'
  BY DEF accept, LinkTypeOK, PeersKnown, eggVars, jobVars
<1>3. CurrentIsAccepted'
  BY DEF accept, LinkTypeOK, CurrentIsAccepted, Current, eggVars
<1>4. OnlyTheCurrentIsOpen => OnlyTheCurrentIsOpen'
  BY DEF accept, LinkTypeOK, OnlyTheCurrentIsOpen, Current, wireVars
<1>5. QED  BY <1>1, <1>2, <1>3, <1>4

LEMMA ReplaceInv ==
    ASSUME LinkInv, NEW k \in Conns, replace(k)
    PROVE  LinkInv' /\ (OnlyTheCurrentIsOpen => OnlyTheCurrentIsOpen')
<1> USE ConnsType DEF LinkInv
<1>1. /\ serve[k] = "taken" /\ serve' = [serve EXCEPT ![k] = "accepted"]
      /\ shut' = [j \in Conns |-> shut[j] \/ j = CurrentBeside(k)]
      /\ conn' = [conn EXCEPT ![sockOf[k]] = k]
      /\ UNCHANGED <<eggVars, inbox, opens, listening, sockOf, greetTo, jobVars>>
  BY DEF replace
<1>2. sockOf[k] \in Sockets
  BY <1>1 DEF CurrentIsAccepted
<1>3. CurrentBeside(k) = conn[sockOf[k]]
  BY <1>2 DEF CurrentBeside
<1>4. LinkTypeOK'
  BY <1>1 DEF LinkTypeOK, eggVars, jobVars
<1>5. PeersKnown'
  BY <1>1 DEF LinkTypeOK, PeersKnown, eggVars, jobVars
<1>6. \A j \in Conns : Current(j)' => j = k \/ Current(j)
  BY <1>1, <1>2 DEF LinkTypeOK, Current
<1>7. CurrentIsAccepted'
  BY <1>1, <1>6 DEF LinkTypeOK, CurrentIsAccepted, eggVars
<1>8. \A j \in Conns : Current(j) => shut'[j] \/ Current(j)'
  BY <1>1, <1>2, <1>3 DEF LinkTypeOK, Current
<1>9. Current(k)'
  BY <1>1, <1>2 DEF LinkTypeOK, Current
<1>10. OnlyTheCurrentIsOpen => OnlyTheCurrentIsOpen'
  BY <1>1, <1>8, <1>9 DEF LinkTypeOK, OnlyTheCurrentIsOpen
<1>11. QED  BY <1>4, <1>5, <1>7, <1>10

LEMMA ServeInv ==
    ASSUME LinkInv, NEW k \in Conns,
           hear(k) \/ greet(k) \/ greetWrite(k) \/ eggConnected(k) \/ readEnds(k)
    PROVE  LinkInv' /\ (OnlyTheCurrentIsOpen => OnlyTheCurrentIsOpen')
<1> USE ConnsType DEF LinkInv
<1>1. CASE hear(k)
  <2>1. /\ serve[k] = "accepted"
        /\ UNCHANGED <<eggVars, inbox, opens, listening, sockOf, greetTo, jobVars>>
    BY <1>1 DEF hear
  <2>2. Closes
    BY <1>1, StayCloses, DropCloses DEF hear
  <2>3. PICK v \in {"heard", "over"} : serve' = [serve EXCEPT ![k] = v]
    BY <1>1 DEF hear
  <2>4. LinkTypeOK'
    BY <2>1, <2>2, <2>3 DEF LinkTypeOK, Closes, eggVars, jobVars
  <2>5. PeersKnown'
    BY <2>1, <2>3 DEF LinkTypeOK, PeersKnown, eggVars, jobVars
  <2>6. CurrentIsAccepted' /\ (OnlyTheCurrentIsOpen => OnlyTheCurrentIsOpen')
    BY <2>1, <2>2, <2>3, GoesOn DEF eggVars
  <2>7. QED  BY <2>4, <2>5, <2>6
<1>2. CASE greet(k)
  <2>1. /\ serve[k] = "heard" /\ greetTo' = [greetTo EXCEPT ![k] = CurrentBeside(k)]
        /\ UNCHANGED <<eggVars, inbox, opens, listening, sockOf, jobVars>>
    BY <1>2 DEF greet
  <2>2. Closes
    BY <1>2, StayCloses, DropCloses DEF greet
  <2>3. PICK v \in {"greeting", "over"} :
            serve' = [serve EXCEPT ![k] = v] /\ (v = "greeting" => CurrentBeside(k) # NoConn)
    BY <1>2 DEF greet
  <2>4. CurrentBeside(k) \in Conns \cup {NoConn}
    BY BesideType
  <2>5. LinkTypeOK'
    BY <2>1, <2>2, <2>3, <2>4 DEF LinkTypeOK, Closes, eggVars, jobVars
  <2>6. PeersKnown'
    BY <2>1, <2>3 DEF LinkTypeOK, PeersKnown, eggVars, jobVars
  <2>7. CurrentIsAccepted' /\ (OnlyTheCurrentIsOpen => OnlyTheCurrentIsOpen')
    BY <2>1, <2>2, <2>3, GoesOn DEF eggVars
  <2>8. QED  BY <2>5, <2>6, <2>7
<1>3. CASE greetWrite(k)
  <2> DEFINE t == greetTo[k]
  <2>1. /\ serve[k] = "greeting" /\ t \in Conns
        /\ greetTo' = [greetTo EXCEPT ![k] = NoConn]
        /\ UNCHANGED <<eggVars, opens, listening, sockOf, jobVars>>
    BY <1>3 DEF greetWrite, LinkTypeOK, PeersKnown
  <2>2. Closes
    BY <1>3, StayCloses, DropCloses DEF greetWrite
  <2>3. PICK v \in {"greeted", "over"} : serve' = [serve EXCEPT ![k] = v]
    BY <1>3 DEF greetWrite
  <2>4. inbox' \in [Conns -> Seq(Messages)]
    <3>1. inbox' = inbox \/ inbox' = [inbox EXCEPT ![t] = Append(@, "hello")]
      BY <1>3 DEF greetWrite
    <3>2. inbox \in [Conns -> Seq(Messages)] /\ "hello" \in Messages
      BY <2>1 DEF LinkTypeOK, Messages
    <3>3. [inbox EXCEPT ![t] = Append(@, "hello")] \in [Conns -> Seq(Messages)]
      BY <2>1, <3>2, InboxAppend
    <3>4. QED  BY <3>1, <3>2, <3>3
  <2>5. LinkTypeOK'
    BY <2>1, <2>2, <2>3, <2>4 DEF LinkTypeOK, Closes, eggVars, jobVars
  <2>6. PeersKnown'
    BY <2>1, <2>3 DEF LinkTypeOK, PeersKnown, eggVars, jobVars
  <2>7. CurrentIsAccepted' /\ (OnlyTheCurrentIsOpen => OnlyTheCurrentIsOpen')
    BY <2>1, <2>2, <2>3, GoesOn DEF eggVars
  <2>8. QED  BY <2>5, <2>6, <2>7
<1>4. CASE eggConnected(k)
  <2>1. LinkTypeOK'
    BY <1>4 DEF eggConnected, LinkTypeOK, eggVars, wireVars
  <2>2. PeersKnown'
    BY <1>4 DEF eggConnected, LinkTypeOK, PeersKnown, eggVars
  <2>3. Closes
    BY <1>4, StayCloses DEF eggConnected, wireVars
  <2>4. CurrentIsAccepted' /\ (OnlyTheCurrentIsOpen => OnlyTheCurrentIsOpen')
    BY <1>4, <2>3, GoesOn DEF eggConnected, eggVars
  <2>5. QED  BY <2>1, <2>2, <2>4
<1>5. CASE readEnds(k)
  <2>1. /\ serve[k] = "live" /\ serve' = [serve EXCEPT ![k] = "over"]
        /\ UNCHANGED <<eggVars, inbox, opens, listening, sockOf, greetTo, jobVars>>
    BY <1>5 DEF readEnds
  <2>2. Closes
    BY <1>5, DropCloses DEF readEnds
  <2>3. LinkTypeOK'
    BY <2>1, <2>2 DEF LinkTypeOK, Closes, eggVars, jobVars
  <2>4. PeersKnown'
    BY <2>1 DEF LinkTypeOK, PeersKnown, eggVars, jobVars
  <2>5. CurrentIsAccepted' /\ (OnlyTheCurrentIsOpen => OnlyTheCurrentIsOpen')
    BY <2>1, <2>2, GoesOn DEF eggVars
  <2>6. QED  BY <2>3, <2>4, <2>5
<1>6. QED  BY <1>1, <1>2, <1>3, <1>4, <1>5

LEMMA JobInv ==
    ASSUME LinkInv, NEW k \in Conns,
           jobWrites(k) \/ \E m \in Messages : jobSends(k, m)
    PROVE  LinkInv' /\ (OnlyTheCurrentIsOpen => OnlyTheCurrentIsOpen')
<1> USE ConnsType DEF LinkInv
<1>1. CASE jobWrites(k)
  <2> DEFINE t == writeTo[k]
  <2>1. /\ job[k] \in {"status", "verdict"} /\ t \in Conns
        /\ job' = [job EXCEPT ![k] = IF @ = "status" THEN "late" ELSE "none"]
        /\ writeTo' = [writeTo EXCEPT ![k] = NoConn]
        /\ UNCHANGED <<eggVars, opens, listening, sockOf, serve, greetTo, subs>>
    BY <1>1 DEF jobWrites, LinkTypeOK, PeersKnown
  <2>2. Closes
    BY <1>1, StayCloses, DropCloses DEF jobWrites
  <2>3. inbox' \in [Conns -> Seq(Messages)]
    <3>1. inbox' = inbox \/ inbox' = [inbox EXCEPT ![t] = Append(@, job[k])]
      BY <1>1 DEF jobWrites
    <3>2. inbox \in [Conns -> Seq(Messages)] /\ job[k] \in Messages
      BY <2>1 DEF LinkTypeOK, Messages
    <3>3. [inbox EXCEPT ![t] = Append(@, job[k])] \in [Conns -> Seq(Messages)]
      BY <2>1, <3>2, InboxAppend
    <3>4. QED  BY <3>1, <3>2, <3>3
  <2>4. LinkTypeOK'
    BY <2>1, <2>2, <2>3 DEF LinkTypeOK, Closes, eggVars
  <2>5. PeersKnown'
    BY <2>1 DEF LinkTypeOK, PeersKnown, eggVars
  <2>6. CurrentIsAccepted' /\ (OnlyTheCurrentIsOpen => OnlyTheCurrentIsOpen')
    BY <2>1, <2>2, StandsStill DEF eggVars
  <2>7. QED  BY <2>4, <2>5, <2>6
<1>2. ASSUME NEW m \in Messages, jobSends(k, m)
      PROVE  LinkInv' /\ (OnlyTheCurrentIsOpen => OnlyTheCurrentIsOpen')
  <2> DEFINE t == IF listening THEN conn[opens] ELSE NoConn
  <2>1. t \in Conns \cup {NoConn}
    BY DEF CurrentIsAccepted, LinkTypeOK
  <2>2. /\ m \in {"status", "verdict"}
        /\ writeTo' = [writeTo EXCEPT ![k] = t]
        /\ job' = [job EXCEPT ![k] = CASE t # NoConn -> m
                                       [] t = NoConn /\ m = "status" -> "late"
                                       [] t = NoConn /\ m = "verdict" -> "none"]
        /\ UNCHANGED <<eggVars, wireVars, nodeVars, subs>>
    BY <1>2 DEF jobSends
  <2>3. UNCHANGED <<egg, mine, dialled, inbox, shut, opens, listening, sockOf, conn, serve, greetTo, subs>>
    BY <2>2 DEF eggVars, wireVars, nodeVars
  <2> HIDE DEF t
  <2>4. PICK v \in {"none", "late", "status", "verdict"} :
            job' = [job EXCEPT ![k] = v] /\ (v \in {"status", "verdict"} => t # NoConn)
    BY <2>2
  <2>5. LinkTypeOK'
    BY <2>1, <2>2, <2>3, <2>4 DEF LinkTypeOK
  <2>6. PeersKnown'
    BY <2>1, <2>2, <2>3, <2>4 DEF LinkTypeOK, PeersKnown
  <2>7. Closes
    BY <2>3, StayCloses
  <2>8. CurrentIsAccepted' /\ (OnlyTheCurrentIsOpen => OnlyTheCurrentIsOpen')
    BY <2>3, <2>7, StandsStill
  <2>9. QED  BY <2>5, <2>6, <2>8
<1>3. QED  BY <1>1, <1>2

LEMMA DialInv ==
    ASSUME LinkInv, dial
    PROVE  LinkInv' /\ (OnlyTheCurrentIsOpen => OnlyTheCurrentIsOpen')
<1> USE ConnsType DEF LinkInv
<1>1. dialled + 1 \in Conns /\ serve[dialled + 1] = "none" /\ opens \in Sockets
  BY LinkAssumption DEF dial, LinkTypeOK, CurrentIsAccepted, Conns
<1>2. LinkTypeOK'
  BY <1>1, LinkAssumption DEF dial, LinkTypeOK, wireVars, jobVars
<1>3. PeersKnown'
  BY <1>1 DEF dial, LinkTypeOK, PeersKnown, jobVars
<1>4. CurrentIsAccepted'
  BY <1>1 DEF dial, LinkTypeOK, CurrentIsAccepted, Current
<1>5. OnlyTheCurrentIsOpen => OnlyTheCurrentIsOpen'
  BY <1>1 DEF dial, LinkTypeOK, OnlyTheCurrentIsOpen, Current, wireVars
<1>6. QED  BY <1>2, <1>3, <1>4, <1>5

LEMMA EggInv ==
    ASSUME LinkInv, Boot \/ eggBoots \/ eggDies
    PROVE  LinkInv' /\ (OnlyTheCurrentIsOpen => OnlyTheCurrentIsOpen')
<1> USE ConnsType DEF LinkInv
<1>1. CASE abandon /\ UNCHANGED <<dialled, nodeVars, jobVars>> /\ egg' \in {"down", "run"}
  <2>1. shut' \in [Conns -> BOOLEAN] /\ inbox' \in [Conns -> Seq(Messages)]
    BY <1>1 DEF abandon, LinkTypeOK
  <2>2. LinkTypeOK'
    BY <1>1, <2>1 DEF abandon, LinkTypeOK, nodeVars, jobVars
  <2>3. PeersKnown'
    BY <1>1 DEF abandon, LinkTypeOK, PeersKnown, nodeVars, jobVars
  <2>4. Closes
    BY <1>1 DEF abandon, LinkTypeOK, Closes, Current, nodeVars
  <2>5. CurrentIsAccepted' /\ (OnlyTheCurrentIsOpen => OnlyTheCurrentIsOpen')
    BY <1>1, <2>4, StandsStill DEF nodeVars
  <2>6. QED  BY <2>2, <2>3, <2>5
<1>2. CASE /\ mine \in Conns /\ Heard /\ inbox' = [inbox EXCEPT ![mine] = Tail(@)]
           /\ egg' \in {"verdict", "run"} /\ UNCHANGED <<mine, dialled, shut, nodeVars, jobVars>>
  <2>1. inbox' \in [Conns -> Seq(Messages)]
    BY <1>2, InboxTail DEF Heard, LinkTypeOK
  <2>2. LinkTypeOK'
    BY <1>2, <2>1 DEF LinkTypeOK, nodeVars, jobVars
  <2>3. PeersKnown'
    BY <1>2 DEF LinkTypeOK, PeersKnown, nodeVars, jobVars
  <2>4. Closes
    BY <1>2, StayCloses DEF nodeVars
  <2>5. CurrentIsAccepted' /\ (OnlyTheCurrentIsOpen => OnlyTheCurrentIsOpen')
    BY <1>2, <2>4, StandsStill DEF nodeVars
  <2>6. QED  BY <2>2, <2>3, <2>5
<1>3. CASE /\ egg' \in {"dial", "run"} /\ mine' \in {mine, NoConn}
           /\ UNCHANGED <<dialled, wireVars, nodeVars, jobVars>>
  <2>1. LinkTypeOK'
    BY <1>3 DEF LinkTypeOK, wireVars, nodeVars, jobVars
  <2>2. PeersKnown'
    BY <1>3 DEF LinkTypeOK, PeersKnown, nodeVars, jobVars
  <2>3. Closes
    BY <1>3, StayCloses DEF wireVars, nodeVars
  <2>4. CurrentIsAccepted' /\ (OnlyTheCurrentIsOpen => OnlyTheCurrentIsOpen')
    BY <1>3, <2>3, StandsStill DEF nodeVars
  <2>5. QED  BY <2>1, <2>2, <2>4
<1>4. CASE helloAnswered \/ awaitVerdict \/ receive
  <2>1. mine \in Conns
    BY <1>4 DEF helloAnswered, awaitVerdict, receive, LinkTypeOK, PeersKnown
  <2>2. QED  BY <1>2, <1>4, <2>1 DEF helloAnswered, awaitVerdict, receive, eggVars
<1>5. CASE noHello \/ eggDies
  BY <1>1, <1>5 DEF noHello, eggDies
<1>6. CASE lost \/ noNode \/ eggBoots
  BY <1>3, <1>6 DEF lost, noNode, eggBoots
<1>7. QED  BY <1>4, <1>5, <1>6 DEF Boot

LEMMA SocketInv ==
    ASSUME LinkInv, openSocket \/ close \/ Subscribe
    PROVE  LinkInv' /\ (OnlyTheCurrentIsOpen => OnlyTheCurrentIsOpen')
<1> USE ConnsType DEF LinkInv
<1>1. CASE openSocket
  <2>1. opens + 1 \in Sockets /\ opens + 1 \in 0..MaxOpens
    BY <1>1, LinkAssumption DEF openSocket, LinkTypeOK, Sockets
  <2>2. LinkTypeOK'
    BY <1>1, <2>1 DEF openSocket, LinkTypeOK, eggVars, wireVars, jobVars
  <2>3. PeersKnown'
    BY <1>1 DEF openSocket, PeersKnown, eggVars, jobVars
  <2>4. CurrentIsAccepted'
    BY <1>1, <2>1 DEF openSocket, CurrentIsAccepted, Current, eggVars
  <2>5. OnlyTheCurrentIsOpen => OnlyTheCurrentIsOpen'
    BY <1>1 DEF openSocket, OnlyTheCurrentIsOpen, Current, wireVars
  <2>6. QED  BY <2>2, <2>3, <2>4, <2>5
<1>2. CASE close
  <2>1. opens \in Sockets
    BY <1>2 DEF close, CurrentIsAccepted
  <2>2. LinkTypeOK'
    BY <1>2 DEF close, LinkTypeOK, eggVars, jobVars
  <2>3. PeersKnown'
    BY <1>2 DEF close, LinkTypeOK, PeersKnown, eggVars, jobVars
  <2>4. Closes
    BY <1>2, <2>1 DEF close, LinkTypeOK, Closes, Current
  <2>5. CurrentIsAccepted'
    BY <1>2, <2>4, CurrentKeeps DEF close, LinkTypeOK, CurrentIsAccepted, eggVars
  <2>6. OnlyTheCurrentIsOpen => OnlyTheCurrentIsOpen'
    BY <1>2, <2>4, OnlyKeeps DEF close, LinkTypeOK
  <2>7. QED  BY <2>2, <2>3, <2>5, <2>6
<1>3. CASE Subscribe
  <2>1. LinkTypeOK' /\ PeersKnown'
    BY <1>3 DEF Subscribe, LinkTypeOK, PeersKnown, eggVars, wireVars, nodeVars
  <2>2. Closes
    BY <1>3, StayCloses DEF Subscribe, wireVars, nodeVars
  <2>3. CurrentIsAccepted' /\ (OnlyTheCurrentIsOpen => OnlyTheCurrentIsOpen')
    BY <1>3, <2>2, StandsStill DEF Subscribe, eggVars, nodeVars
  <2>4. QED  BY <2>1, <2>3
<1>4. QED  BY <1>1, <1>2, <1>3

LEMMA StepInv ==
    ASSUME LinkInv, [LinkNext]_linkVars
    PROVE  LinkInv' /\ (OnlyTheCurrentIsOpen => OnlyTheCurrentIsOpen')
<1>1. CASE \E k \in Conns : Serve(k)
  BY <1>1, AcceptInv, ReplaceInv, ServeInv DEF Serve
<1>2. CASE \E k \in Conns : Job(k)
  BY <1>2, JobInv DEF Job
<1>3. CASE Boot \/ dial \/ eggBoots \/ eggDies
  BY <1>3, DialInv, EggInv
<1>4. CASE openSocket \/ close \/ Subscribe
  BY <1>4, SocketInv
<1>5. CASE UNCHANGED linkVars
  BY <1>5 DEF linkVars, eggVars, wireVars, nodeVars, jobVars,
     LinkInv, LinkTypeOK, PeersKnown, CurrentIsAccepted, Current, OnlyTheCurrentIsOpen
<1>6. QED  BY <1>1, <1>2, <1>3, <1>4, <1>5 DEF LinkNext

LEMMA InitInv ==
    ASSUME LinkInit
    PROVE  LinkInv /\ OnlyTheCurrentIsOpen
<1>1. LinkTypeOK
  <2>1. 0 \in 0..MaxConns /\ 0 \in 0..MaxOpens
    BY LinkAssumption
  <2>2. inbox \in [Conns -> Seq(Messages)]
    BY DEF LinkInit
  <2>3. QED  BY <2>1, <2>2 DEF LinkInit, LinkTypeOK, NoConn
<1>2. PeersKnown /\ CurrentIsAccepted /\ OnlyTheCurrentIsOpen
  BY LinkAssumption, ConnsType
  DEF LinkInit, PeersKnown, CurrentIsAccepted, Current, OnlyTheCurrentIsOpen
<1>3. QED  BY <1>1, <1>2 DEF LinkInv

-----------------------------------------------------------------------------
(* Theorems *)

(* Writers and readers of the socket always know which connection they     *)
(* stand at: greet, send and the egg's receive never use one that is nil   *)
(* (the guards of sockServer.send and of link.receive).                    *)
THEOREM LinkCorrect == LinkSpec => []LinkInv
<1>1. LinkInit => LinkInv
  BY InitInv
<1>2. LinkInv /\ [LinkNext]_linkVars => LinkInv'
  BY StepInv
<1>3. QED  BY <1>1, <1>2, PTL DEF LinkSpec

(* Every variable of the link keeps its type. *)
THEOREM TypeCorrect == LinkSpec => []LinkTypeOK
<1>1. LinkInv => LinkTypeOK
  BY DEF LinkInv
<1>2. QED  BY <1>1, LinkCorrect, PTL

(* In every behaviour a connection that was current once and is so no more *)
(* is closed: serve closes the one it replaces, drop and close close what  *)
(* they forget, whichever writers hold it at that time, and whether close  *)
(* comes before or after serve's lock.                                     *)
THEOREM OneIsOpen == LinkSpec => []OnlyTheCurrentIsOpen
<1>1. LinkInit => OnlyTheCurrentIsOpen
  BY InitInv
<1>2. LinkInv /\ OnlyTheCurrentIsOpen /\ [LinkNext]_linkVars => OnlyTheCurrentIsOpen'
  BY StepInv
<1>3. QED  BY <1>1, <1>2, LinkCorrect, PTL DEF LinkSpec

=============================================================================
