----------------------------- MODULE VpkRestart -----------------------------
(***************************************************************************)
(* The restarts vpksync owes its servers after a central update            *)
(* (internal/node/vpksync/restart.go).  Two goroutines settle them: the    *)
(* one that finished a server's job (owe) and the loop that runs every     *)
(* 15 seconds.  They share the map of owed restarts under a mutex and its  *)
(* entries, which the map holds by pointer, without one.  The events of    *)
(* the core take entries away (forget).                                    *)
(*                                                                         *)
(* Time passes in units of 30 seconds, the margin settle allows itself; an *)
(* entry holds how long it is owed and how much of its countdown is left.  *)
(***************************************************************************)
EXTENDS Naturals, FiniteSets

CONSTANTS
    Containers,  \* the servers
    Policy,      \* restart_policy
    MaxDelay,    \* max_delay_hours in units, 0 is "never force"
    WarnTime,    \* warn_minutes in units, 0 is "no warning"
    WingsFails,  \* a call to Wings may fail
    Crashes,     \* the daemon may restart
    Entries,     \* bound: owed restarts in memory at once
    MaxDies,     \* bound: Die events of a server not read yet
    Loop, None

Settlers == Containers \cup {Loop}    \* a server names the goroutine of its job

ASSUME RestartAssumption ==
    /\ Policy \in {"immediate", "empty", "window"}
    /\ MaxDelay \in Nat /\ WarnTime \in Nat
    /\ WingsFails \in BOOLEAN /\ Crashes \in BOOLEAN
    /\ MaxDies \in Nat
    /\ Loop \notin Containers
    /\ None \notin Entries /\ None \notin Nat
    \* An allocation succeeds: there is room for an entry of every server in
    \* the map and one more in the hands of every settler but the one that owes.
    /\ IsFiniteSet(Containers) /\ IsFiniteSet(Entries)
    /\ Cardinality(Entries) >= 2 * Cardinality(Containers)

VARIABLES
    up,       \* the server runs
    players,  \* somebody is on
    known,    \* the egg has sent a state on its connection (reported)
    seen,     \* the state it sent last: somebody is on
    dies,     \* Die events Run has not read yet
    open,     \* the time of day is inside restart_window
    owed,     \* m.owed, an entry or None per server
    age,      \* per entry, the time since it is owed, as far as it matters
    left,     \* per entry, the countdown, None before it started
    pc,       \* where each settler stands
    on,       \* the server it is at
    entry,    \* the entry it fetched
    forced    \* it saw players on

serverVars == <<up, players, known, seen, dies, open>>
entryVars  == <<age, left>>
settleVars == <<pc, on, entry, forced>>
restartVars == <<serverVars, owed, entryVars, settleVars>>

Places == {"idle", "owe", "fetch", "look", "warn", "drop", "ask"}

RestartTypeOK ==
    /\ up \in [Containers -> BOOLEAN]
    /\ players \in [Containers -> BOOLEAN]
    /\ known \in [Containers -> BOOLEAN] /\ seen \in [Containers -> BOOLEAN]
    /\ dies \in [Containers -> 0..MaxDies]
    /\ open \in BOOLEAN
    /\ owed \in [Containers -> Entries \cup {None}]
    /\ age \in [Entries -> 0..MaxDelay]
    /\ left \in [Entries -> 0..WarnTime \cup {None}]
    /\ pc \in [Settlers -> Places]
    /\ on \in [Settlers -> Containers]
    /\ entry \in [Settlers -> Entries \cup {None}]
    /\ forced \in [Settlers -> BOOLEAN]

RestartInit ==
    /\ up = [c \in Containers |-> TRUE]
    /\ players \in [Containers -> BOOLEAN]
    /\ known = [c \in Containers |-> FALSE] /\ seen = [c \in Containers |-> FALSE]
    /\ dies = [c \in Containers |-> 0]
    /\ open \in BOOLEAN
    /\ owed = [c \in Containers |-> None]
    /\ age = [e \in Entries |-> 0] /\ left = [e \in Entries |-> None]
    /\ pc = [p \in Settlers |-> "idle"]
    /\ on \in {f \in [Settlers -> Containers] : \A c \in Containers : f[c] = c}
    /\ entry = [p \in Settlers |-> None]
    /\ forced = [p \in Settlers |-> FALSE]

At(p, from, to) == pc[p] = from /\ pc' = [pc EXCEPT ![p] = to]

(* An entry nobody points to any more is garbage. *)
InUse(e) == (\E c \in Containers : owed[c] = e) \/ (\E p \in Settlers : entry[p] = e)
collectWith(countdown) ==
    /\ age'  = [e \in Entries |-> IF InUse(e)' THEN age[e] ELSE 0]
    /\ left' = [e \in Entries |-> IF InUse(e)' THEN countdown[e] ELSE None]
collect == collectWith(left)

Fresh == CHOOSE e \in Entries : ~InUse(e)

-----------------------------------------------------------------------------
(* owe *)

(* updateLoop: the forced job of a running server succeeded. *)
pushed(c) ==
    /\ up[c] /\ At(c, "idle", "owe")
    /\ UNCHANGED <<serverVars, owed, entryVars, on, entry, forced>>

(* Mutant of owe: every update starts the delay anew. *)
oweAnew(c) ==
    /\ At(c, "owe", "fetch")
    /\ owed' = [owed EXCEPT ![c] = IF @ # None THEN @ ELSE Fresh]
    /\ age' = [e \in Entries |-> IF owed[c] = e THEN 0 ELSE age[e]]
    /\ UNCHANGED <<serverVars, left, on, entry, forced>>

(* A restart already owed keeps the time it is owed since. *)
owe(c) ==
    /\ At(c, "owe", "fetch")
    /\ owed' = [owed EXCEPT ![c] = IF @ # None THEN @ ELSE Fresh]
    /\ UNCHANGED <<serverVars, entryVars, on, entry, forced>>

-----------------------------------------------------------------------------
(* settle *)

tick(c) ==
    /\ owed[c] # None
    /\ At(Loop, "idle", "fetch")
    /\ on' = [on EXCEPT ![Loop] = c]
    /\ UNCHANGED <<serverVars, owed, entryVars, entry, forced>>

fetch(p) ==
    /\ At(p, "fetch", IF owed[on[p]] = None THEN "idle" ELSE "look")
    /\ entry' = [entry EXCEPT ![p] = owed[on[p]]]
    /\ UNCHANGED <<serverVars, owed, entryVars, on, forced>>

(* Decide; nobody known to be on is reason enough. *)
Occupied(c) == known[c] /\ seen[c]
Due(e)      == (MaxDelay > 0 /\ age[e] >= MaxDelay) \/ (Policy = "window" /\ open)
Decide(c, e) ==
    IF Policy = "immediate" \/ ~Occupied(c) THEN "Restart"
    ELSE IF Due(e) THEN "Countdown" ELSE "Wait"

(* What settle does next, with a countdown running or without. *)
Verdict(c, e) ==
    IF left[e] # None /\ Occupied(c)
    THEN IF left[e] <= 1 THEN "drop" ELSE "idle"
    ELSE CASE Decide(c, e) = "Restart"   -> "drop"
           [] Decide(c, e) = "Countdown" -> "warn"
           [] Decide(c, e) = "Wait"      -> "idle"

look(p) ==
    /\ pc[p] = "look"
    /\ LET next == Verdict(on[p], entry[p])
       IN  /\ pc' = [pc EXCEPT ![p] = next]
           /\ forced' = [forced EXCEPT ![p] = next # "idle" /\ Occupied(on[p])]
           /\ entry' = IF next = "idle" THEN [entry EXCEPT ![p] = None] ELSE entry
    /\ UNCHANGED <<serverVars, owed, on>>
    /\ collect

(* Mutant of warn: the first settle past the deadline restarts. *)
warnNot(p) ==
    /\ At(p, "warn", "drop")
    /\ UNCHANGED <<serverVars, owed, entryVars, on, entry, forced>>

(* Mutant of warn: the countdown is a unit too long. *)
warnLong(p) ==
    /\ pc[p] = "warn"
    /\ UNCHANGED <<serverVars, owed, on, age>>
    /\ At(p, "warn", "idle")
    /\ entry' = [entry EXCEPT ![p] = None]
    /\ forced' = [forced EXCEPT ![p] = FALSE]
    /\ left' = [left EXCEPT ![entry[p]] = WarnTime + 1]

(* The countdown starts, unless it has in the meantime. *)
warn(p) ==
    /\ pc[p] = "warn"
    /\ UNCHANGED <<serverVars, owed, on>>
    /\ IF WarnTime > 0 /\ left[entry[p]] = None
       THEN /\ At(p, "warn", "idle")
            /\ entry' = [entry EXCEPT ![p] = None]
            /\ forced' = [forced EXCEPT ![p] = FALSE]
            /\ collectWith([left EXCEPT ![entry[p]] = WarnTime])
       ELSE At(p, "warn", "drop") /\ UNCHANGED <<entryVars, entry, forced>>

(* delete by name, whatever entry the name has now. *)
delete(p) ==
    /\ At(p, "drop", "ask")
    /\ owed' = [owed EXCEPT ![on[p]] = None]
    /\ UNCHANGED <<serverVars, on, entry, forced>>
    /\ collect

(* A server that stops: the core forgets its egg and emits Die. *)
stop(c) ==
    /\ up' = [up EXCEPT ![c] = FALSE]
    /\ players' = [players EXCEPT ![c] = FALSE]
    /\ known' = [known EXCEPT ![c] = FALSE] /\ seen' = [seen EXCEPT ![c] = FALSE]
    /\ dies[c] < MaxDies /\ dies' = [dies EXCEPT ![c] = @ + 1]
    /\ UNCHANGED open

(* restart: Wings stops the server, or the call fails and that is that. *)
ask(p) ==
    /\ At(p, "ask", "idle")
    /\ \/ up[on[p]] /\ stop(on[p])
       \/ (~up[on[p]] \/ WingsFails) /\ UNCHANGED serverVars
    /\ entry' = [entry EXCEPT ![p] = None]
    /\ forced' = [forced EXCEPT ![p] = FALSE]
    /\ UNCHANGED <<owed, on>>
    /\ collect

forget(c) ==
    /\ dies[c] > 0 /\ dies' = [dies EXCEPT ![c] = @ - 1]
    /\ owed' = [owed EXCEPT ![c] = None]
    /\ UNCHANGED <<up, players, known, seen, open, settleVars>>
    /\ collect

-----------------------------------------------------------------------------
(* The servers, their eggs and the clock *)

serverStops(c) ==
    /\ up[c] /\ stop(c)
    /\ UNCHANGED <<owed, entryVars, settleVars>>

serverStarts(c) ==
    /\ ~up[c] /\ up' = [up EXCEPT ![c] = TRUE]
    /\ UNCHANGED <<players, known, seen, dies, open, owed, entryVars, settleVars>>

playersTurn(c) ==
    /\ up[c] /\ players' = [players EXCEPT ![c] = ~@]
    /\ UNCHANGED <<up, known, seen, dies, open, owed, entryVars, settleVars>>

(* setEgg: a connection starts without a state. *)
eggHello(c) ==
    /\ up[c] /\ known[c]
    /\ known' = [known EXCEPT ![c] = FALSE] /\ seen' = [seen EXCEPT ![c] = FALSE]
    /\ UNCHANGED <<up, players, dies, open, owed, entryVars, settleVars>>

eggReports(c) ==
    /\ up[c] /\ known' = [known EXCEPT ![c] = TRUE]
    /\ seen' = [seen EXCEPT ![c] = players[c]]
    /\ UNCHANGED <<up, players, dies, open, owed, entryVars, settleVars>>

windowTurns ==
    /\ Policy = "window" /\ open' = ~open
    /\ UNCHANGED <<up, players, known, seen, dies, owed, entryVars, settleVars>>

timePasses ==
    /\ age'  = [e \in Entries |-> IF InUse(e) /\ age[e] < MaxDelay THEN age[e] + 1 ELSE age[e]]
    /\ left' = [e \in Entries |-> IF left[e] # None /\ left[e] > 0 THEN left[e] - 1 ELSE left[e]]
    /\ UNCHANGED <<serverVars, owed, settleVars>>

(* The owed restarts live in memory only. *)
daemonRestarts ==
    /\ Crashes
    /\ known' = [c \in Containers |-> FALSE] /\ seen' = [c \in Containers |-> FALSE]
    /\ dies' = [c \in Containers |-> 0]
    /\ owed' = [c \in Containers |-> None]
    /\ pc' = [p \in Settlers |-> "idle"] /\ on' = on
    /\ entry' = [p \in Settlers |-> None] /\ forced' = [p \in Settlers |-> FALSE]
    /\ UNCHANGED <<up, players, open>>
    /\ collect

-----------------------------------------------------------------------------
settle(p) == fetch(p) \/ look(p) \/ warn(p) \/ delete(p) \/ ask(p)

RestartNext ==
    \/ \E c \in Containers :
          \/ pushed(c) \/ owe(c) \/ tick(c) \/ forget(c)
          \/ serverStops(c) \/ serverStarts(c) \/ playersTurn(c)
          \/ eggHello(c) \/ eggReports(c)
    \/ \E p \in Settlers : settle(p)
    \/ windowTurns \/ timePasses \/ daemonRestarts

(* Goroutines run, the ticker ticks, every name has its turn in the loop,  *)
(* the event loop reads, Wings starts what it stopped and time passes.     *)
RestartFairness ==
    /\ \A c \in Containers :
          /\ WF_restartVars(owe(c)) /\ SF_restartVars(tick(c))
          /\ WF_restartVars(forget(c)) /\ WF_restartVars(serverStarts(c))
    /\ \A p \in Settlers : WF_restartVars(settle(p))
    /\ WF_restartVars(timePasses)

RestartSpec == RestartInit /\ [][RestartNext]_restartVars /\ RestartFairness

-----------------------------------------------------------------------------
(* Properties *)

(* "A forced restart warns the players through the console first": under a *)
(* policy that waits, a settler that restarts a server it saw players on   *)
(* does so for an entry that is overdue or met an open window, and whose   *)
(* countdown was announced, though the other settler and the events change *)
(* the entry and the map under it.                                         *)
ForcedIsAnnounced ==
    \A p \in Settlers :
        (pc[p] \in {"drop", "ask"} /\ forced[p] /\ Policy # "immediate") =>
            /\ WarnTime > 0 => left[entry[p]] # None
            /\ Policy = "empty" => MaxDelay > 0 /\ age[entry[p]] = MaxDelay

(* With a longest delay set, no restart is held back for ever, whoever     *)
(* joins and leaves, however often the egg reconnects and however many     *)
(* updates follow (max_delay_hours).                                       *)
OwedIsSettled == MaxDelay > 0 => \A c \in Containers : owed[c] # None ~> owed[c] = None
=============================================================================
