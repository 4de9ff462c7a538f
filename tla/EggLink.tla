------------------------------- MODULE EggLink ------------------------------
(***************************************************************************)
(* The socket between one server's egg and the node daemon, and the boot   *)
(* that waits on it: internal/node/core/socket.go on the node,             *)
(* internal/egg/nodeclient and the link code of internal/egg/boot in the   *)
(* container.                                                              *)
(*                                                                         *)
(* Every connection has a serve goroutine on the node.  The node keeps one *)
(* current connection (s.conn), and every write goes to whatever was       *)
(* current when the writer looked, which is a step before the write.  A    *)
(* module answers EggConnected with a job that ends in a verdict; how the  *)
(* job works is the matter of VpkSync, here it only sends.                 *)
(*                                                                         *)
(* A connection the node or the egg closed still delivers what was written *)
(* to it before.  Each socket the node opened keeps its own s.conn, and    *)
(* its goroutines outlive it: a socket is closed when its container leaves *)
(* the registry, which a failed Inspect does to one that runs on.          *)
(***************************************************************************)
EXTENDS Naturals, Sequences, FiniteSets

CONSTANTS
    MaxConns,       \* bound: connections dialled
    MaxOpens,       \* bound: sockets the node opens in the volume
    Ready           \* the module subscribes before the first socket opens

ASSUME LinkAssumption == MaxConns \in Nat /\ MaxOpens \in Nat /\ Ready \in BOOLEAN

Conns == 1..MaxConns
Sockets == 1..MaxOpens
NoConn == 0

VARIABLES
    egg,       \* where the egg's boot, and later its receive loop, stands
    mine,      \* the connection the egg holds, or NoConn
    dialled,   \* connections dialled so far
    inbox,     \* per connection, what the node wrote and the egg has not read
    shut,      \* per connection, closed by either side
    opens,     \* sockets opened so far; a connection belongs to one of them
    listening, \* the present socket accepts connections
    sockOf,    \* per connection, the socket it was dialled on
    conn,      \* per socket, s.conn, or NoConn
    serve,     \* per connection, its serve goroutine's place
    greetTo,   \* per connection, the connection its hello is written to
    subs,      \* the module is subscribed
    job,       \* per connection, the job its EggConnected started
    writeTo    \* per job, the connection its message is written to

eggVars  == <<egg, mine, dialled>>
wireVars == <<inbox, shut>>
nodeVars == <<opens, listening, sockOf, conn, serve, greetTo>>
jobVars  == <<subs, job, writeTo>>
linkVars == <<eggVars, wireVars, nodeVars, jobVars>>

Messages == {"hello", "status", "verdict"}

LinkTypeOK ==
    /\ egg \in {"down", "dial", "hello", "verdict", "run", "rehello"}
    /\ mine \in Conns \cup {NoConn}
    /\ dialled \in 0..MaxConns
    /\ inbox \in [Conns -> Seq(Messages)]
    /\ shut \in [Conns -> BOOLEAN]
    /\ opens \in 0..MaxOpens
    /\ listening \in BOOLEAN
    /\ sockOf \in [Conns -> 0..MaxOpens]
    /\ conn \in [Sockets -> Conns \cup {NoConn}]
    /\ serve \in [Conns -> {"none", "backlog", "taken", "accepted", "heard", "greeting", "greeted", "live", "over"}]
    /\ greetTo \in [Conns -> Conns \cup {NoConn}]
    /\ subs \in BOOLEAN
    /\ job \in [Conns -> {"none", "work", "status", "late", "verdict"}]
    /\ writeTo \in [Conns -> Conns \cup {NoConn}]

LinkInit ==
    /\ egg = "down" /\ mine = NoConn /\ dialled = 0
    /\ inbox = [k \in Conns |-> <<>>]
    /\ shut = [k \in Conns |-> FALSE]
    /\ opens = 0 /\ listening = FALSE
    /\ sockOf = [k \in Conns |-> 0]
    /\ conn = [o \in Sockets |-> NoConn]
    /\ serve = [k \in Conns |-> "none"]
    /\ greetTo = [k \in Conns |-> NoConn]
    /\ subs = FALSE
    /\ job = [k \in Conns |-> "none"]
    /\ writeTo = [k \in Conns |-> NoConn]

-----------------------------------------------------------------------------
(* The node's socket *)

(* The connection a socket calls its own, and the one k's socket does. *)
Current(k) == \E o \in Sockets : conn[o] = k
CurrentBeside(k) == IF sockOf[k] \in Sockets THEN conn[sockOf[k]] ELSE NoConn

(* drop: the connection is closed, and forgotten if it is still current on *)
(* its socket.                                                             *)
drop(S) ==
    /\ shut' = [k \in Conns |-> shut[k] \/ k \in S]
    /\ conn' = [o \in Sockets |-> IF conn[o] \in S THEN NoConn ELSE conn[o]]

openSocket ==
    /\ ~listening /\ opens < MaxOpens
    /\ Ready => subs
    /\ opens' = opens + 1 /\ listening' = TRUE
    /\ UNCHANGED <<eggVars, wireVars, sockOf, conn, serve, greetTo, jobVars>>

(* close: the listener and the current connection go, and with them the    *)
(* connections still waiting to be accepted; not one that Accept returned  *)
(* and serve has not made current.                                         *)
close ==
    /\ listening
    /\ listening' = FALSE
    /\ conn' = [conn EXCEPT ![opens] = NoConn]
    /\ shut' = [k \in Conns |-> shut[k] \/ k = conn[opens] \/ serve[k] = "backlog"]
    /\ serve' = [k \in Conns |-> IF serve[k] = "backlog" THEN "over" ELSE serve[k]]
    /\ UNCHANGED <<eggVars, inbox, opens, sockOf, greetTo, jobVars>>

(* acceptLoop: Accept returns, and a goroutine is started for serve. *)
accept(k) ==
    /\ serve[k] = "backlog" /\ listening
    /\ serve' = [serve EXCEPT ![k] = "taken"]
    /\ UNCHANGED <<eggVars, wireVars, opens, listening, sockOf, conn, greetTo, jobVars>>

(* Mutant: the previous connection is only forgotten, not closed. *)
replaceForgets(k) ==
    /\ serve[k] = "taken"
    /\ serve' = [serve EXCEPT ![k] = "accepted"]
    /\ conn' = [conn EXCEPT ![sockOf[k]] = k]
    /\ UNCHANGED <<eggVars, wireVars, opens, listening, sockOf, greetTo, jobVars>>

(* serve under the lock: a new connection replaces the previous one before *)
(* anything was read from it, also on a socket that was closed since.      *)
replace(k) ==
    /\ serve[k] = "taken"
    /\ serve' = [serve EXCEPT ![k] = "accepted"]
    /\ shut' = [j \in Conns |-> shut[j] \/ j = CurrentBeside(k)]
    /\ conn' = [conn EXCEPT ![sockOf[k]] = k]
    /\ UNCHANGED <<eggVars, inbox, opens, listening, sockOf, greetTo, jobVars>>

(* The hello is on the wire since the dial, unless the egg died over it or *)
(* a newer connection closed this one: then the read fails.                *)
hear(k) ==
    /\ serve[k] = "accepted"
    /\ \/ /\ ~shut[k] \/ Current(k)
          /\ serve' = [serve EXCEPT ![k] = "heard"]
          /\ UNCHANGED <<shut, conn>>
       \/ /\ shut[k]
          /\ serve' = [serve EXCEPT ![k] = "over"]
          /\ drop({k})
    /\ UNCHANGED <<eggVars, inbox, opens, listening, sockOf, greetTo, jobVars>>

(* send looks up the current connection of the socket it belongs to... *)
greet(k) ==
    /\ serve[k] = "heard"
    /\ greetTo' = [greetTo EXCEPT ![k] = CurrentBeside(k)]
    /\ IF CurrentBeside(k) = NoConn
       THEN /\ serve' = [serve EXCEPT ![k] = "over"]
            /\ drop({k})
       ELSE /\ serve' = [serve EXCEPT ![k] = "greeting"]
            /\ UNCHANGED <<shut, conn>>
    /\ UNCHANGED <<eggVars, inbox, opens, listening, sockOf, jobVars>>

(* ...and writes to it.  A write fails on a closed connection, or when the *)
(* egg does not read for ten seconds.  It drops the connection written  *)
(* to, and serve then drops its own.                                       *)
greetWrite(k) ==
    /\ serve[k] = "greeting"
    /\ LET t == greetTo[k]
       IN  \/ /\ ~shut[t]
              /\ inbox' = [inbox EXCEPT ![t] = Append(@, "hello")]
              /\ serve' = [serve EXCEPT ![k] = "greeted"]
              /\ UNCHANGED <<shut, conn>>
           \/ /\ serve' = [serve EXCEPT ![k] = "over"]
              /\ drop({t, k})
              /\ UNCHANGED inbox
    /\ greetTo' = [greetTo EXCEPT ![k] = NoConn]
    /\ UNCHANGED <<eggVars, opens, listening, sockOf, jobVars>>

(* setEgg and the EggConnected event, which starts a job when the module   *)
(* listens; nobody repeats the event for a module that subscribes later.   *)
eggConnected(k) ==
    /\ serve[k] = "greeted"
    /\ serve' = [serve EXCEPT ![k] = "live"]
    /\ job' = IF subs THEN [job EXCEPT ![k] = "work"] ELSE job
    /\ UNCHANGED <<eggVars, wireVars, opens, listening, sockOf, conn, greetTo, subs, writeTo>>

(* Mutant: the loop ends without drop. *)
readEndsOnly(k) ==
    /\ serve[k] = "live" /\ shut[k]
    /\ serve' = [serve EXCEPT ![k] = "over"]
    /\ UNCHANGED <<eggVars, wireVars, opens, listening, sockOf, conn, greetTo, jobVars>>

(* The read loop ends when the connection is closed. *)
readEnds(k) ==
    /\ serve[k] = "live" /\ shut[k]
    /\ serve' = [serve EXCEPT ![k] = "over"]
    /\ drop({k})
    /\ UNCHANGED <<eggVars, inbox, opens, listening, sockOf, greetTo, jobVars>>

-----------------------------------------------------------------------------
(* The module's job: a status now and then, at last a verdict, each sent   *)
(* to the connection that is current when it is sent.                      *)

Subscribe ==
    /\ ~subs
    /\ subs' = TRUE
    /\ UNCHANGED <<eggVars, wireVars, nodeVars, job, writeTo>>

jobSends(k, m) ==
    /\ \/ m = "status" /\ job[k] = "work"
       \/ m = "verdict" /\ job[k] \in {"work", "late"}
    /\ LET t == IF listening THEN conn[opens] ELSE NoConn
       IN  /\ writeTo' = [writeTo EXCEPT ![k] = t]
           /\ job' = [job EXCEPT ![k] = CASE t # NoConn -> m
                                          [] t = NoConn /\ m = "status" -> "late"
                                          [] t = NoConn /\ m = "verdict" -> "none"]
    /\ UNCHANGED <<eggVars, wireVars, nodeVars, subs>>

(* Mutant: a failed write leaves the connection as it is. *)
jobWritesOn(k) ==
    /\ job[k] \in {"status", "verdict"}
    /\ LET t == writeTo[k]
       IN  \/ /\ ~shut[t]
              /\ inbox' = [inbox EXCEPT ![t] = Append(@, job[k])]
           \/ UNCHANGED inbox
    /\ job' = [job EXCEPT ![k] = IF @ = "status" THEN "late" ELSE "none"]
    /\ writeTo' = [writeTo EXCEPT ![k] = NoConn]
    /\ UNCHANGED <<eggVars, shut, nodeVars, subs>>

jobWrites(k) ==
    /\ job[k] \in {"status", "verdict"}
    /\ LET t == writeTo[k]
       IN  \/ /\ ~shut[t]
              /\ inbox' = [inbox EXCEPT ![t] = Append(@, job[k])]
              /\ UNCHANGED <<shut, conn>>
           \/ /\ drop({t})
              /\ UNCHANGED inbox
    /\ job' = [job EXCEPT ![k] = IF @ = "status" THEN "late" ELSE "none"]
    /\ writeTo' = [writeTo EXCEPT ![k] = NoConn]
    /\ UNCHANGED <<eggVars, opens, listening, sockOf, serve, greetTo, subs>>

-----------------------------------------------------------------------------
(* The egg *)

eggBoots ==
    /\ egg = "down"
    /\ egg' = "dial"
    /\ UNCHANGED <<mine, dialled, wireVars, nodeVars, jobVars>>

(* The egg lets its connection go, with what it had not read. *)
abandon ==
    /\ mine' = NoConn
    /\ shut' = [k \in Conns |-> shut[k] \/ k = mine]
    /\ inbox' = [k \in Conns |-> IF k = mine THEN <<>> ELSE inbox[k]]

(* The container goes down, whatever the egg was doing. *)
eggDies ==
    /\ egg # "down"
    /\ egg' = "down"
    /\ abandon
    /\ UNCHANGED <<dialled, nodeVars, jobVars>>

(* Connect reaches the socket and writes the egg's hello: at boot, and     *)
(* again from the receive loop whenever it holds no connection.            *)
dial ==
    /\ egg = "dial" \/ (egg = "run" /\ mine = NoConn)
    /\ listening /\ dialled < MaxConns
    /\ dialled' = dialled + 1
    /\ mine' = dialled + 1
    /\ serve' = [serve EXCEPT ![dialled + 1] = "backlog"]
    /\ sockOf' = [sockOf EXCEPT ![dialled + 1] = opens]
    /\ egg' = IF egg = "dial" THEN "hello" ELSE "rehello"
    /\ UNCHANGED <<wireVars, opens, listening, conn, greetTo, jobVars>>

(* No socket for 20 seconds: the server boots on its own. *)
noNode ==
    /\ egg = "dial"
    /\ egg' = "run"
    /\ UNCHANGED <<mine, dialled, wireVars, nodeVars, jobVars>>

Heard == inbox[mine] # <<>>

(* Mutant: a node that says hello is taken to manage the files. *)
helloManages ==
    /\ egg \in {"hello", "rehello"} /\ Heard
    /\ Head(inbox[mine]) = "hello"
    /\ inbox' = [inbox EXCEPT ![mine] = Tail(@)]
    /\ egg' = IF egg = "hello" THEN "managed" ELSE "run"
    /\ UNCHANGED <<mine, dialled, shut, nodeVars, jobVars>>

(* The first message must be the node's hello... *)
helloAnswered ==
    /\ egg \in {"hello", "rehello"} /\ Heard
    /\ Head(inbox[mine]) = "hello"
    /\ inbox' = [inbox EXCEPT ![mine] = Tail(@)]
    /\ egg' = IF egg = "hello" THEN "verdict" ELSE "run"
    /\ UNCHANGED <<mine, dialled, shut, nodeVars, jobVars>>

(* ...and anything else, silence for five seconds or the end of the stream *)
(* closes the connection; a boot goes on with SteamCMD.                    *)
noHello ==
    /\ egg \in {"hello", "rehello"}
    /\ egg' = "run"
    /\ abandon
    /\ UNCHANGED <<dialled, nodeVars, jobVars>>

(* AwaitVerdict skips everything but a terminal status. *)
awaitVerdict ==
    /\ egg = "verdict" /\ Heard
    /\ inbox' = [inbox EXCEPT ![mine] = Tail(@)]
    /\ egg' = IF Head(inbox[mine]) = "verdict" THEN "run" ELSE "verdict"
    /\ UNCHANGED <<mine, dialled, shut, nodeVars, jobVars>>

(* The connection ends before a verdict (the boot falls back to SteamCMD)  *)
(* or during the run (the receive loop dials again).                       *)
lost ==
    /\ egg \in {"verdict", "run"} /\ mine # NoConn
    /\ shut[mine] /\ inbox[mine] = <<>>
    /\ mine' = NoConn /\ egg' = "run"
    /\ UNCHANGED <<dialled, wireVars, nodeVars, jobVars>>

receive ==
    /\ egg = "run" /\ mine # NoConn /\ Heard
    /\ inbox' = [inbox EXCEPT ![mine] = Tail(@)]
    /\ UNCHANGED <<eggVars, shut, nodeVars, jobVars>>

-----------------------------------------------------------------------------
Serve(k) ==
    accept(k) \/ replace(k) \/ hear(k) \/ greet(k) \/ greetWrite(k) \/ eggConnected(k) \/ readEnds(k)
Job(k) == jobWrites(k) \/ \E m \in Messages : jobSends(k, m)
Boot == helloAnswered \/ noHello \/ awaitVerdict \/ lost \/ receive \/ noNode

LinkNext ==
    \/ \E k \in Conns : Serve(k) \/ Job(k)
    \/ Boot \/ dial \/ openSocket \/ close \/ Subscribe
    \/ eggBoots \/ eggDies

(* Every goroutine runs: each serve and each job is scheduled until it     *)
(* ends, and the egg reads what it was sent.  Nothing obliges docker, the  *)
(* egg's container or the daemon to start or stop.                         *)
LinkSpec ==
    /\ LinkInit /\ [][LinkNext]_linkVars
    /\ \A k \in Conns : WF_linkVars(Serve(k)) /\ WF_linkVars(Job(k))
    /\ WF_linkVars(Boot) /\ WF_linkVars(Subscribe)

-----------------------------------------------------------------------------
(* Properties *)

(* One egg connection at a time (sockServer): a connection that serve once *)
(* made current and its socket no longer calls its own is closed, so that  *)
(* an egg on a replaced or dropped connection notices and dials again.     *)
OnlyTheCurrentIsOpen ==
    \A k \in Conns :
        (serve[k] \notin {"none", "backlog", "taken"} /\ ~Current(k)) => shut[k]

(* "When the connection drops, the presence is gone with it": a connection *)
(* either side closed does not stay current on its socket, wherever its    *)
(* serve goroutine stands (Connected, drop).                               *)
PresenceEnds ==
    \A k \in Conns : (Current(k) /\ shut[k]) ~> ~Current(k)

(* The connection of the egg that close has missed between Accept and      *)
(* serve: it is open, on a socket that is closed.                          *)
Stranded ==
    mine # NoConn /\ ~shut[mine] /\ ~(listening /\ sockOf[mine] = opens)

(* A boot never waits on the node for good: it ends with a verdict or goes *)
(* on with SteamCMD, however the socket, the jobs and the reconnects       *)
(* interleave (handshake has no timeout once the hellos are exchanged),    *)
(* unless its connection is stranded.                                      *)
BootEnds ==
    egg \in {"dial", "hello", "verdict"} ~> egg \in {"run", "down"} \/ Stranded
=============================================================================
