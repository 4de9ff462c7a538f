------------------------------- MODULE EggState -------------------------------
(***************************************************************************)
(* What the egg tells the node about its server (internal/egg/boot and     *)
(* watch): the watch keeps the state, which the reader of the console      *)
(* changes; the reader, a heartbeat, every new connection and the end of   *)
(* the run each read the state and send it, in two steps and without a     *)
(* lock around them.  What is sent while no connection works is lost, and  *)
(* a node that restarts forgets what it was told.                          *)
(*                                                                         *)
(* The map, the name and the players of a state are one number here.       *)
(***************************************************************************)
EXTENDS Naturals

CONSTANTS
    Changes,     \* bound: lines that change the state
    NodeStarts   \* bound: restarts of the node

ASSUME StateAssumption == Changes \in Nat /\ NodeStarts \in Nat

VARIABLES
    state,       \* w.state: a number for what the watch saw, and Up
    run,         \* "on", "ending" once srv.Run returned, "closing" after the last sendState, "over"
    unsent,      \* when srv.Run returned, another goroutine held a reading it had not sent
    told,        \* ctx is done: the container was told to stop
    sending,     \* each goroutine's sendState: "no", "begins", or what it read
    client,      \* l.client: "none", "good", or "dead": the node went away
    known,       \* what the node holds, <<>> before it heard anything
    restarts

stateVars == <<state, run, unsent, told, sending, client, known, restarts>>

Senders == {"reader", "heartbeat", "connect", "main"}
States == (0..Changes) \X BOOLEAN
Idle(p) == sending[p] = <<"no">>
Calls(p) == sending' = [sending EXCEPT ![p] = <<"begins">>]

StateTypeOK ==
    /\ state \in States /\ run \in {"on", "ending", "closing", "over"} /\ unsent \in BOOLEAN /\ told \in BOOLEAN
    /\ sending \in [Senders -> {<<"no">>, <<"begins">>} \cup {<<"read", s>> : s \in States}]
    /\ client \in {"none", "good", "dead"} /\ known \in {<<>>} \cup {<<s>> : s \in States}
    /\ restarts \in 0..NodeStarts

(* sendState before the heartbeat starts: the connection of the handshake, *)
(* if there was a node.                                                    *)
StateInit ==
    /\ state = <<0, TRUE>> /\ run = "on" /\ unsent = FALSE /\ told = FALSE
    /\ sending = [p \in Senders |-> IF p = "main" THEN <<"begins">> ELSE <<"no">>]
    /\ client \in {"none", "good"} /\ known = <<>> /\ restarts = 0

(* Any goroutine's call of sendState. *)
reads(p) ==
    /\ run # "over" /\ sending[p] = <<"begins">>
    /\ sending' = [sending EXCEPT ![p] = <<"read", state>>]
    /\ UNCHANGED <<state, run, unsent, told, client, known, restarts>>

send(p) ==
    /\ run # "over" /\ \E s \in States : sending[p] = <<"read", s>>
    /\ known' = IF client = "good" THEN <<sending[p][2]>> ELSE known
    /\ sending' = [sending EXCEPT ![p] = <<"no">>]
    /\ run' = IF p = "main" /\ run = "ending" THEN "closing" ELSE run
    /\ UNCHANGED <<state, unsent, told, client, restarts>>

Feed ==
    /\ run = "on" /\ Idle("main") /\ Idle("reader") /\ state[1] < Changes
    /\ state' = <<state[1] + 1, TRUE>>
    /\ Calls("reader")
    /\ UNCHANGED <<run, unsent, told, client, known, restarts>>

(* Mutant: the heartbeat says nothing. *)
beatSilent == UNCHANGED sending

beat == Calls("heartbeat")

Heartbeat ==
    /\ run # "over" /\ ~told /\ Idle("heartbeat") /\ beat
    /\ UNCHANGED <<state, run, unsent, told, client, known, restarts>>

(* Run returned: the reader is through. *)
SetUp ==
    /\ run = "on" /\ Idle("main") /\ Idle("reader")
    /\ run' = "ending" /\ state' = <<state[1], FALSE>>
    /\ unsent' = \E p \in {"heartbeat", "connect"} : sending[p] \notin {<<"no">>, <<"begins">>}
    /\ Calls("main")
    /\ UNCHANGED <<told, client, known, restarts>>

(* The end of the connection shows in receive, which connects again. *)
LinkLost ==
    /\ run # "over" /\ ~told /\ client = "dead" /\ client' = "none"
    /\ UNCHANGED <<state, run, unsent, told, sending, known, restarts>>

Connect ==
    /\ run # "over" /\ ~told /\ client = "none" /\ Idle("connect")
    /\ client' = "good" /\ Calls("connect")
    /\ UNCHANGED <<state, run, unsent, told, known, restarts>>

(* From here on no heartbeat ticks and nothing connects. *)
Told ==
    /\ run = "on" /\ ~told /\ told' = TRUE
    /\ UNCHANGED <<state, run, unsent, sending, client, known, restarts>>

NodeRestarts ==
    /\ restarts < NodeStarts /\ restarts' = restarts + 1
    /\ client' = IF client = "good" THEN "dead" ELSE client
    /\ known' = <<>>
    /\ UNCHANGED <<state, run, unsent, told, sending>>

(* boot.Run returned and the process ends, in the midst of any other call. *)
ProcessEnds ==
    /\ run = "closing" /\ run' = "over"
    /\ UNCHANGED <<state, unsent, told, sending, client, known, restarts>>

StateNext ==
    \/ \E p \in Senders : reads(p) \/ send(p)
    \/ Feed \/ Heartbeat \/ SetUp \/ LinkLost \/ Connect \/ Told \/ ProcessEnds \/ NodeRestarts

(* Goroutines run on, the ticker ticks, and the node listens again. *)
StateFair ==
    /\ \A p \in Senders : WF_stateVars(reads(p)) /\ WF_stateVars(send(p))
    /\ WF_stateVars(Heartbeat) /\ WF_stateVars(LinkLost)
    /\ WF_stateVars(Connect)

StateSpec == StateInit /\ [][StateNext]_stateVars /\ StateFair

-----------------------------------------------------------------------------
(* When the server's state and the node settle, the node comes to know the *)
(* state and keeps knowing it, whichever goroutine sent last, as long as   *)
(* the process lasts and nobody stops it.                                  *)
NodeLearns == <>[](run = "over" \/ told \/ known = <<state>>)

(* A node that the egg is connected to when the process ends knows the     *)
(* server as down and as it was last.  Excused are a heartbeat or a        *)
(* connection that had read the state before the run ended and may write   *)
(* it after main's last word, and a connection so new that its own         *)
(* sendState is still under way.                                           *)
EndIsTold ==
    run = "over" /\ client = "good" /\ ~unsent /\ Idle("connect") =>
        ~state[2] /\ known = <<state>>
===============================================================================
