------------------------------ MODULE NodeCore ------------------------------
(***************************************************************************)
(* The container registry of the node daemon (internal/node/core/core.go). *)
(*                                                                         *)
(* One goroutine, Core.Run, follows docker: it lists the running           *)
(* containers, replays the list through handle, subscribes to the event    *)
(* stream and handles each event, and starts over five seconds after the   *)
(* stream broke.  Every socket goroutine (setEgg, dispatch) and every      *)
(* module (ExpectStop, Subscribe) works on the same registry, so handle is *)
(* split at its unlocks: the registry changes first (ApplyStart, ApplyDie) *)
(* and the event reaches the subscribers in a later step (Emit).           *)
(*                                                                         *)
(* Docker itself is not under src/: it is modelled from the client calls   *)
(* of core/docker.go, which leaves out what it cannot put an image name    *)
(* to: Running and Events, with Inspect, as far as they decide what the    *)
(* core is told.  Time appears only as the two windows a stop              *)
(* label depends on, restartGuess and crashGuess, which may lapse at any   *)
(* moment once opened.                                                     *)
(***************************************************************************)
EXTENDS Naturals, Sequences, FiniteSets

CONSTANTS
    Containers,   \* the server names docker may run
    Talkers,      \* those whose image has an egg that speaks to the node
    Capacity,     \* a subscriber's channel buffer (64 in the source)
    ExitCodes,    \* the exit codes docker may report, by class
    MaxLives,     \* bound: docker starts of one container
    MaxRestarts   \* bound: restarts of the daemon

ASSUME CoreAssumption ==
    /\ IsFiniteSet(Containers)
    /\ Talkers \subseteq Containers
    /\ Capacity \in Nat \ {0}
    /\ ExitCodes \subseteq {"clean", "sigkill", "unsaid", "other"}
    /\ MaxLives \in Nat
    /\ MaxRestarts \in Nat

VARIABLES
    running,    \* docker: the containers that run now
    life,       \* docker: how often each container was started (ghost)
    stream,     \* events of the open subscription, not yet handled
    subscribed, \* the daemon's event subscription is open
    unseen,     \* ghost: whose state neither the latest list nor the stream tells
    pc,         \* where Core.Run stands
    listed,     \* the answer of the latest docker.Running
    starts,     \* listed containers reconcile has still to handle
    reg,        \* DOMAIN of c.containers
    entry,      \* c.containers[name], meaningful for names in reg
    emitting,   \* what handle has still to publish, a sequence of at most 1
    held,       \* the message a serve goroutine read and has still to apply
    greeted,    \* the container's egg has said hello on its open connection
    claimed,    \* ghost: an ExpectStop no stop has used up yet
    subs,       \* a module has subscribed
    queue,      \* that module's channel
    view,       \* the containers that module believes are running
    missed,     \* ghost: the latest event about the container never reached it
    restarts    \* how often the daemon was restarted

dockerVars == <<running, life>>
runVars    == <<stream, subscribed, unseen, pc, listed, starts>>
regVars    == <<reg, entry>>
eggVars    == <<held, greeted, claimed>>
subVars    == <<subs, queue, view, missed>>
vars == <<dockerVars, runVars, regVars, emitting, eggVars, subVars, restarts>>

-----------------------------------------------------------------------------
(* Exit codes are the classes StopReasonFor tells apart: "clean" is 0, 143 *)
(* or 15, "sigkill" is 137, "unsaid" a negative code, "other" the rest.    *)
Reasons   == {"restart", "crash", "killed", "stopped", "unknown", "none"}
Windows   == {"none", "open", "lapsed"}
NoMessage == [msg |-> "none", of |-> 0]

(* A registry entry as handle creates it. *)
FreshEntry == [sock |-> FALSE, reported |-> FALSE, expect |-> "none", crashed |-> "none"]
Entries    == [sock : BOOLEAN, reported : BOOLEAN, expect : Windows, crashed : Windows]

Event(k, c, x) == [kind |-> k, name |-> c, exit |-> x]

(* Whether c is present once the events of s are applied to someone who    *)
(* believes `present`: the last event about c decides.                     *)
After(present, s, c) ==
    IF \E i \in DOMAIN s : s[i].name = c
    THEN \E i \in DOMAIN s :
            /\ s[i].name = c /\ s[i].kind = "start"
            /\ \A j \in DOMAIN s : j > i => s[j].name # c
    ELSE present

(* What docker says, what handle publishes, what reaches a module and what *)
(* an egg says.                                                            *)
Told        == [kind : {"start"}, name : Containers, exit : {"none"}]
                 \cup [kind : {"die"}, name : Containers, exit : ExitCodes]
Published   == [kind : {"start", "die"}, name : Containers, reason : Reasons]
ModuleEvent == [kind : {"start", "die"}, name : Containers]
Messages    == [msg : {"none", "hello", "state", "crash"}, of : 0..MaxLives]

DockerType == running \subseteq Containers /\ life \in [Containers -> 0..MaxLives]
RunType ==
    /\ stream \in Seq(Told)
    /\ subscribed \in BOOLEAN /\ unseen \subseteq Containers
    /\ pc \in {"list", "reconcile", "stream", "sleep"}
    /\ listed \subseteq Containers /\ starts \subseteq Containers
RegType  == reg \subseteq Containers /\ entry \in [Containers -> Entries]
EmitType == emitting \in Seq(Published) /\ Len(emitting) <= 1
EggType ==
    /\ held \in [Containers -> Messages]
    /\ greeted \in [Containers -> BOOLEAN]
    /\ claimed \in [Containers -> BOOLEAN]
SubType ==
    /\ subs \in BOOLEAN
    /\ queue \in Seq(ModuleEvent) /\ Len(queue) <= Capacity
    /\ view \subseteq Containers /\ missed \subseteq Containers

TypeOK ==
    /\ DockerType /\ RunType /\ RegType /\ EmitType /\ EggType /\ SubType
    /\ restarts \in 0..MaxRestarts

Init ==
    /\ running \in SUBSET Containers
    /\ life = [c \in Containers |-> 0]
    /\ stream = <<>> /\ subscribed = FALSE /\ unseen = Containers
    /\ pc = "list" /\ listed = {} /\ starts = {}
    /\ reg = {} /\ entry = [c \in Containers |-> FreshEntry]
    /\ emitting = <<>>
    /\ held = [c \in Containers |-> NoMessage]
    /\ greeted = [c \in Containers |-> FALSE]
    /\ claimed = [c \in Containers |-> FALSE]
    /\ subs = FALSE /\ queue = <<>> /\ view = {} /\ missed = Containers
    /\ restarts = 0

-----------------------------------------------------------------------------
(* Docker: a container starts, or dies and takes its egg's connection with *)
(* it.  Nobody is told without an open subscription.  With one, Events     *)
(* passes on what carries the name of an image; when docker shows an id    *)
(* (the tag was pulled again since) it asks Inspect, on a start only.      *)
Tell(e) ==
    \E shown \in {"tag", "id"}, inspected \in BOOLEAN :
        IF subscribed /\ (shown = "tag" \/ (e.kind = "start" /\ inspected))
        THEN stream' = Append(stream, e) /\ unseen' = unseen \ {e.name}
        ELSE stream' = stream /\ unseen' = unseen \cup {e.name}

DockerStart(c) ==
    /\ c \notin running /\ life[c] < MaxLives
    /\ running' = running \cup {c}
    /\ life' = [life EXCEPT ![c] = @ + 1]
    /\ Tell(Event("start", c, "none"))
    /\ UNCHANGED <<subscribed, pc, listed, starts, regVars, emitting, eggVars, subVars, restarts>>

DockerDie(c, exit) ==
    /\ c \in running
    /\ running' = running \ {c}
    /\ greeted' = [greeted EXCEPT ![c] = FALSE]
    /\ Tell(Event("die", c, exit))
    /\ UNCHANGED <<life, subscribed, pc, listed, starts, regVars, emitting, held, claimed, subVars, restarts>>

-----------------------------------------------------------------------------
(* handle, its first half: the registry changes under the lock.            *)

(* A new name gets a fresh entry (entry is fresh for every name outside    *)
(* reg); a missing socket is opened when the container has a volume and    *)
(* the listen succeeds.                                                    *)
ApplyStart(c) ==
    /\ reg' = reg \cup {c}
    /\ \E opened \in BOOLEAN : entry' = [entry EXCEPT ![c].sock = @ \/ opened]
    /\ emitting' = <<[kind |-> "start", name |-> c, reason |-> "none"]>>
    /\ UNCHANGED claimed

StopReasonFor(exit) ==
    CASE exit = "clean"   -> "stopped"
      [] exit = "sigkill" -> "killed"
      [] exit = "unsaid"  -> "unknown"
      [] exit = "other"   -> "crash"

stopReason(e, exit) ==
    CASE e.expect = "open"   -> "restart"
      [] e.expect # "open" /\ e.crashed = "open" -> "crash"
      [] e.expect # "open" /\ e.crashed # "open" /\ exit = "sigkill" -> "killed"
      [] e.expect # "open" /\ e.crashed # "open" /\ exit # "sigkill" /\ e.reported -> "stopped"
      [] OTHER -> StopReasonFor(exit)

(* Mutant: a server whose egg never reported leaves without an event. *)
ApplyDieQuietly(c, exit) ==
    IF c \in reg
    THEN /\ reg' = reg \ {c}
         /\ entry' = [entry EXCEPT ![c] = FreshEntry]
         /\ emitting' = IF entry[c].reported
                        THEN <<[kind |-> "die", name |-> c, reason |-> stopReason(entry[c], exit)]>>
                        ELSE <<>>
         /\ claimed' = [claimed EXCEPT ![c] = FALSE]
    ELSE UNCHANGED <<regVars, emitting, claimed>>

(* Mutant: a death without a socket to close is taken for noise. *)
ApplyDieOfSome(c, exit) ==
    IF c \in reg /\ (entry[c].sock)
    THEN /\ reg' = reg \ {c}
         /\ entry' = [entry EXCEPT ![c] = FreshEntry]
         /\ emitting' = <<[kind |-> "die", name |-> c, reason |-> stopReason(entry[c], exit)]>>
         /\ claimed' = [claimed EXCEPT ![c] = FALSE]
    ELSE UNCHANGED <<regVars, emitting, claimed>>

(* Mutant: the entry stays behind, to be found again by the next Start. *)
ApplyDieKeepsEntry(c, exit) ==
    IF c \in reg
    THEN /\ reg' = reg \ {c}
         /\ emitting' = <<[kind |-> "die", name |-> c, reason |-> stopReason(entry[c], exit)]>>
         /\ claimed' = [claimed EXCEPT ![c] = FALSE]
         /\ UNCHANGED entry
    ELSE UNCHANGED <<regVars, emitting, claimed>>

(* An unknown container's death is ignored; a known one leaves the         *)
(* registry, is named in a stop notice, and is emitted.                    *)
ApplyDie(c, exit) ==
    IF c \in reg
    THEN /\ reg' = reg \ {c}
         /\ entry' = [entry EXCEPT ![c] = FreshEntry]
         /\ emitting' = <<[kind |-> "die", name |-> c, reason |-> stopReason(entry[c], exit)]>>
         /\ claimed' = [claimed EXCEPT ![c] = FALSE]
    ELSE UNCHANGED <<regVars, emitting, claimed>>

(* Mutant: the channel is taken for unbounded. *)
EmitAlways ==
    /\ emitting # <<>>
    /\ queue' = Append(queue, [kind |-> emitting[1].kind, name |-> emitting[1].name])
    /\ missed' = missed \ {emitting[1].name}
    /\ emitting' = <<>>
    /\ UNCHANGED <<dockerVars, runVars, regVars, eggVars, subs, view, restarts>>

(* handle, its second half: the event goes to the subscriber, or is        *)
(* dropped when the subscriber's channel is full or nobody subscribed yet. *)
Emit ==
    /\ emitting # <<>>
    /\ LET e == Head(emitting)
       IN  IF subs /\ Len(queue) < Capacity
           THEN /\ queue' = Append(queue, [kind |-> e.kind, name |-> e.name])
                /\ missed' = missed \ {e.name}
           ELSE /\ missed' = missed \cup {e.name}
                /\ UNCHANGED queue
    /\ emitting' = <<>>
    /\ UNCHANGED <<dockerVars, runVars, regVars, eggVars, subs, view, restarts>>

-----------------------------------------------------------------------------
(* Core.Run *)

(* Mutant: reconcile only ever adds to what is known. *)
ListOnlyAdds(skipped) ==
    /\ pc = "list"
    /\ pc' = "reconcile"
    /\ listed' = (running \ skipped) \cup reg /\ starts' = running \ skipped
    /\ unseen' = skipped
    /\ UNCHANGED <<dockerVars, stream, subscribed, regVars, emitting, eggVars, subVars, restarts>>

(* reconcile asks docker what runs now; Running leaves out the containers  *)
(* whose Inspect fails.                                                    *)
List(skipped) ==
    /\ pc = "list"
    /\ pc' = "reconcile"
    /\ listed' = running \ skipped /\ starts' = running \ skipped
    /\ unseen' = skipped
    /\ UNCHANGED <<dockerVars, stream, subscribed, regVars, emitting, eggVars, subVars, restarts>>

(* Docker does not answer: Run tries again in five seconds. *)
ListFails ==
    /\ pc = "list"
    /\ pc' = "sleep"
    /\ UNCHANGED <<dockerVars, stream, subscribed, unseen, listed, starts, regVars, emitting, eggVars, subVars, restarts>>

(* reconcile gives every listed container a Start... *)
ReconcileStart(c) ==
    /\ pc = "reconcile" /\ emitting = <<>>
    /\ c \in starts
    /\ starts' = starts \ {c}
    /\ ApplyStart(c)
    /\ UNCHANGED <<dockerVars, stream, subscribed, unseen, pc, listed, held, greeted, subVars, restarts>>

(* ...and every known container that was not listed a Die (exit code 0). *)
ReconcileDie(c) ==
    /\ pc = "reconcile" /\ emitting = <<>> /\ starts = {}
    /\ c \in reg \ listed
    /\ ApplyDie(c, "clean")
    /\ UNCHANGED <<dockerVars, runVars, held, greeted, subVars, restarts>>

(* Only then does Run open the event stream. *)
OpenStream ==
    /\ pc = "reconcile" /\ emitting = <<>> /\ starts = {} /\ reg \subseteq listed
    /\ pc' = "stream"
    /\ subscribed' = TRUE /\ stream' = <<>>
    /\ UNCHANGED <<dockerVars, unseen, listed, starts, regVars, emitting, eggVars, subVars, restarts>>

HandleEvent ==
    /\ pc = "stream" /\ emitting = <<>> /\ stream # <<>>
    /\ stream' = Tail(stream)
    /\ LET e == Head(stream)
       IN  IF e.kind = "start" THEN ApplyStart(e.name) ELSE ApplyDie(e.name, e.exit)
    /\ UNCHANGED <<dockerVars, subscribed, unseen, pc, listed, starts, held, greeted, subVars, restarts>>

(* The stream ends; what it still held is lost. *)
StreamBreaks ==
    /\ pc = "stream" /\ emitting = <<>>
    /\ pc' = "sleep"
    /\ subscribed' = FALSE /\ stream' = <<>>
    /\ unseen' = unseen \cup {stream[i].name : i \in DOMAIN stream}
    /\ UNCHANGED <<dockerVars, listed, starts, regVars, emitting, eggVars, subVars, restarts>>

Wake ==
    /\ pc = "sleep"
    /\ pc' = "list"
    /\ UNCHANGED <<dockerVars, stream, subscribed, unseen, listed, starts, regVars, emitting, eggVars, subVars, restarts>>

-----------------------------------------------------------------------------
(* The socket goroutines.  A goroutine first reads a message (the egg must *)
(* be alive and the socket open) and applies it in a later step, to        *)
(* whatever entry the registry holds under the name by then.               *)

Read(c, m) ==
    /\ c \in Talkers /\ c \in running /\ c \in reg /\ entry[c].sock
    /\ held[c].msg = "none"
    /\ (m = "hello") # greeted[c]
    /\ held' = [held EXCEPT ![c] = [msg |-> m, of |-> life[c]]]
    /\ UNCHANGED <<dockerVars, runVars, regVars, emitting, greeted, claimed, subVars, restarts>>

setEgg(c) ==
    /\ held[c].msg = "hello"
    /\ held' = [held EXCEPT ![c] = NoMessage]
    /\ greeted' = [greeted EXCEPT ![c] = c \in running /\ held[c].of = life[c]]
    /\ entry' = IF c \in reg THEN [entry EXCEPT ![c].reported = FALSE] ELSE entry
    /\ UNCHANGED <<dockerVars, runVars, reg, emitting, claimed, subVars, restarts>>

(* dispatch of a server.state. *)
dispatchState(c) ==
    /\ held[c].msg = "state"
    /\ held' = [held EXCEPT ![c] = NoMessage]
    /\ entry' = IF c \in reg THEN [entry EXCEPT ![c].reported = TRUE] ELSE entry
    /\ UNCHANGED <<dockerVars, runVars, reg, emitting, greeted, claimed, subVars, restarts>>

(* dispatch of an egg.crash. *)
dispatchCrash(c) ==
    /\ held[c].msg = "crash"
    /\ held' = [held EXCEPT ![c] = NoMessage]
    /\ entry' = IF c \in reg THEN [entry EXCEPT ![c].crashed = "open"] ELSE entry
    /\ UNCHANGED <<dockerVars, runVars, reg, emitting, greeted, claimed, subVars, restarts>>

(* The connection drops while the container runs on: a daemon write failed.*)
ConnectionLost(c) ==
    /\ greeted[c] /\ held[c].msg = "none"
    /\ greeted' = [greeted EXCEPT ![c] = FALSE]
    /\ UNCHANGED <<dockerVars, runVars, regVars, emitting, held, claimed, subVars, restarts>>

-----------------------------------------------------------------------------
(* The modules: a restart is announced (ExpectStop), the windows lapse,    *)
(* and one subscriber follows the events.                                  *)

ExpectStop(c) ==
    /\ c \in reg
    /\ entry' = [entry EXCEPT ![c].expect = "open"]
    /\ claimed' = [claimed EXCEPT ![c] = TRUE]
    /\ UNCHANGED <<dockerVars, runVars, reg, emitting, held, greeted, subVars, restarts>>

Lapse(c) ==
    /\ c \in reg
    /\ \/ entry[c].expect = "open" /\ entry' = [entry EXCEPT ![c].expect = "lapsed"]
       \/ entry[c].crashed = "open" /\ entry' = [entry EXCEPT ![c].crashed = "lapsed"]
    /\ UNCHANGED <<dockerVars, runVars, reg, emitting, eggVars, subVars, restarts>>

Subscribe ==
    /\ ~subs
    /\ subs' = TRUE
    /\ UNCHANGED <<dockerVars, runVars, regVars, emitting, eggVars, queue, view, missed, restarts>>

(* The module takes one event off its channel. *)
Follow ==
    /\ queue # <<>>
    /\ LET e == Head(queue)
       IN  view' = IF e.kind = "start" THEN view \cup {e.name} ELSE view \ {e.name}
    /\ queue' = Tail(queue)
    /\ UNCHANGED <<dockerVars, runVars, regVars, emitting, eggVars, subs, missed, restarts>>

(* The daemon is restarted: nothing of the core is kept on disk. *)
DaemonRestart ==
    /\ restarts < MaxRestarts
    /\ restarts' = restarts + 1
    /\ stream' = <<>> /\ subscribed' = FALSE /\ unseen' = Containers
    /\ pc' = "list" /\ listed' = {} /\ starts' = {}
    /\ reg' = {} /\ entry' = [c \in Containers |-> FreshEntry]
    /\ emitting' = <<>>
    /\ held' = [c \in Containers |-> NoMessage]
    /\ greeted' = [c \in Containers |-> FALSE]
    /\ claimed' = [c \in Containers |-> FALSE]
    /\ subs' = FALSE /\ queue' = <<>> /\ view' = {} /\ missed' = Containers
    /\ UNCHANGED dockerVars

-----------------------------------------------------------------------------
Run == \/ ListFails \/ OpenStream \/ HandleEvent \/ Wake \/ Emit
       \/ \E skipped \in SUBSET running : List(skipped)
       \/ \E c \in Containers : ReconcileStart(c) \/ ReconcileDie(c)

Next ==
    \/ Run \/ StreamBreaks \/ Subscribe \/ Follow \/ DaemonRestart
    \/ \E c \in Containers :
          \/ DockerStart(c)
          \/ \E exit \in ExitCodes : DockerDie(c, exit)
          \/ \E m \in {"hello", "state", "crash"} : Read(c, m)
          \/ setEgg(c) \/ dispatchState(c) \/ dispatchCrash(c) \/ ConnectionLost(c)
          \/ ExpectStop(c) \/ Lapse(c)

(* Run is one goroutine that never blocks between its steps, so it is      *)
(* weakly fair; nothing obliges docker, the eggs or the stream to act.     *)
(* That a daemon which lists for ever gets a whole list again and again is *)
(* assumed of docker.                                                      *)
Spec == Init /\ [][Next]_vars /\ WF_vars(Run) /\ SF_vars(List({}))

-----------------------------------------------------------------------------
(* Properties *)

(* While Run follows the stream, the registry and docker differ by exactly *)
(* the events the stream still holds, except about a container whose state *)
(* neither the latest list nor the stream has told: it changed between the *)
(* two (Run, reconcile), its Inspect failed (Running), or its event showed *)
(* the image by an id (Events).                                            *)
PendingEventsAccount ==
    pc = "stream" =>
        \A c \in Containers \ unseen :
            After(c \in reg, stream, c) <=> c \in running

(* A subscriber that applies every event it was given believes what the    *)
(* registry says; it is wrong about a container only when the latest       *)
(* event about that container was dropped (handle emits outside the lock). *)
ViewFollowsRegistry ==
    \A c \in Containers \ missed :
        After(c \in view, queue \o emitting, c) <=> c \in reg

(* One ExpectStop explains one stop: a server that went away as announced  *)
(* and came back is not called restarted again when it crashes inside the  *)
(* five minutes of the claim (ExpectStop, stopReason).                     *)
StopsAsClaimed ==
    \A c \in Containers :
        (c \in reg /\ c \notin reg' /\ emitting' # <<>> /\ emitting'[1].reason = "restart")
           => claimed[c]
OneStopPerClaim == [][StopsAsClaimed]_vars

(* A stale registry heals: if the stream keeps breaking, docker and the    *)
(* registry agree again at some point (the reconnect loop of Run), whatever*)
(* the lists in between left out, as long as a whole one comes again.      *)
BreaksHeal == []<>(pc = "sleep") => []<>(reg = running)
=============================================================================
