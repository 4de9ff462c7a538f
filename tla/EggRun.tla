-------------------------------- MODULE EggRun --------------------------------
(***************************************************************************)
(* The server's run inside the egg (internal/egg/boot, supervisor,         *)
(* console): the egg boots, starts the engine under a pty, types commands  *)
(* into it for the node, the panel and itself, reads its output, stops it  *)
(* when the container is told to stop, and decides whether an exit was a   *)
(* crash that the node has to hear of.                                     *)
(*                                                                         *)
(* All who type share the supervisor's lock, held over the write of        *)
(* everyone but the panel.  The pty takes Room commands that the engine    *)
(* has not read, and OutRoom lines that the egg has not read.  The engine  *)
(* dies with an abort on a clean stop too, and prints so.                  *)
(***************************************************************************)
EXTENDS Naturals, Sequences

CONSTANTS
    Room, OutRoom,
    Commands,        \* bound: commands of the node and the panel
    Lines,           \* bound: lines of the engine that the egg answers
    StopsInBoot      \* whether the container can be told to stop while it boots

ASSUME RunAssumption ==
    /\ Room \in Nat \ {0} /\ OutRoom \in Nat \ {0}
    /\ Commands \in Nat /\ Lines \in Nat /\ StopsInBoot \in BOOLEAN

VARIABLES
    ctxDone,    \* the container was told to stop
    egg,        \* "boot", "run", then "report" once Run has returned, "exited"
    engine,     \* "none", "alive", "hung", "quits", "gone"
    died,       \* why it is gone: "none", "quit", "crash" or "killed"
    exitCode,   \* whether Run's error makes a code other than 0
    stopping,   \* s.stopping
    lock,       \* who holds s.mu
    typist,     \* what each typist does: [at, cmd]
    input, output,
    stopper,    \* the goroutine that waits for ctx
    crashes,    \* crash reports sent
    typed, printed

runVars == <<ctxDone, egg, engine, died, exitCode, stopping, lock, typist, input, output,
             stopper, crashes, typed, printed>>

(* The reader types for the guard and for nameQuery. *)
Typists == {"stopper", "node", "panel", "reader"}
Cmds == {"quit", "other"}
LineKinds == {"ask", "abort", "text"}

RunTypeOK ==
    /\ ctxDone \in BOOLEAN /\ egg \in {"boot", "run", "report", "exited"}
    /\ engine \in {"none", "alive", "hung", "quits", "gone"}
    /\ died \in {"none", "quit", "crash", "killed"}
    /\ exitCode \in BOOLEAN /\ stopping \in BOOLEAN /\ lock \in {"free"} \cup Typists
    /\ typist \in [Typists -> [at : {"idle", "wants", "writes"}, cmd : Cmds]]
    /\ input \in Seq(Cmds) /\ Len(input) <= Room
    /\ output \in Seq(LineKinds) /\ Len(output) <= OutRoom
    /\ stopper \in {"waits", "sends", "grace", "done"} /\ crashes \in 0..2
    /\ typed \in 0..Commands /\ printed \in 0..Lines

RunInit ==
    /\ ctxDone = FALSE /\ egg = "boot" /\ engine = "none" /\ died = "none"
    /\ exitCode = FALSE /\ stopping = FALSE /\ lock = "free"
    /\ typist = [p \in Typists |-> [at |-> "idle", cmd |-> "other"]]
    /\ input = <<>> /\ output = <<>> /\ stopper = "waits"
    /\ crashes = 0 /\ typed = 0 /\ printed = 0

bounds == <<typed, printed>>
engineVars == <<engine, died, input, output>>

reportCrash == crashes' = IF crashes = 0 THEN 1 ELSE crashes

-----------------------------------------------------------------------------
(* The container *)

StopContainer ==
    /\ ~ctxDone /\ ctxDone' = TRUE
    /\ egg = "run" \/ (egg = "boot" /\ StopsInBoot)
    /\ UNCHANGED <<egg, engineVars, exitCode, stopping, lock, typist, stopper, crashes, bounds>>

(* A command is not started under a context that is done already; its      *)
(* error is no exit error and makes the code 1.                            *)
Start ==
    /\ egg = "boot"
    /\ IF ctxDone THEN egg' = "report" /\ exitCode' = TRUE /\ UNCHANGED engine
                  ELSE egg' = "run" /\ engine' = "alive" /\ UNCHANGED exitCode
    /\ UNCHANGED <<ctxDone, died, input, output, stopping, lock, typist, stopper, crashes, bounds>>

-----------------------------------------------------------------------------
(* Those who type *)

Does(p, what) == typist' = [typist EXCEPT ![p].at = what]
Wants(p, cmd) == typist' = [typist EXCEPT ![p] = [at |-> "wants", cmd |-> cmd]]

(* A console command from the node, or a line typed in the panel. *)
Types(p, cmd) ==
    /\ egg = "run" /\ p \in {"node", "panel"} /\ typist[p].at = "idle"
    /\ typed < Commands /\ typed' = typed + 1
    /\ Wants(p, cmd)
    /\ UNCHANGED <<ctxDone, egg, engineVars, exitCode, stopping, lock, stopper, crashes, printed>>

(* Mutant: the typed line is looked at when it has been written. *)
noteInputLate(p) == UNCHANGED stopping

noteInput(p) == stopping' = (stopping \/ typist[p].cmd = "quit")

(* The panel's line is noted under the lock and written without it. *)
Takes(p) ==
    /\ egg = "run" /\ typist[p].at = "wants" /\ lock = "free"
    /\ noteInput(p) /\ Does(p, "writes")
    /\ lock' = IF p = "panel" THEN "free" ELSE p
    /\ UNCHANGED <<ctxDone, egg, engineVars, exitCode, stopper, crashes, bounds>>

(* A write to the pty of a process that is gone fails at once. *)
Writes(p) ==
    /\ egg = "run" /\ typist[p].at = "writes"
    /\ \/ engine = "gone" /\ UNCHANGED input
       \/ engine # "gone" /\ Len(input) < Room /\ input' = Append(input, typist[p].cmd)
    /\ Does(p, "idle") /\ lock' = IF lock = p THEN "free" ELSE lock
    /\ stopper' = IF p = "stopper" THEN "grace" ELSE stopper
    /\ UNCHANGED <<ctxDone, egg, engine, died, output, exitCode, stopping, crashes, bounds>>

(* Run's stopper: quit, a grace, then the kill. *)
StopAsked ==
    /\ egg = "run" /\ ctxDone /\ stopper = "waits" /\ stopper' = "sends"
    /\ stopping' = TRUE /\ Wants("stopper", "quit")
    /\ UNCHANGED <<ctxDone, egg, engineVars, exitCode, lock, crashes, bounds>>

(* Mutant: nothing follows the stop command. *)
graceOverIdle == UNCHANGED <<engine, died>>

graceOver ==
    IF engine = "gone" THEN UNCHANGED <<engine, died>> ELSE engine' = "gone" /\ died' = "killed"

Kill ==
    /\ egg = "run" /\ stopper = "grace" /\ stopper' = "done"
    /\ graceOver
    /\ UNCHANGED <<ctxDone, egg, input, output, exitCode, stopping, lock, typist, crashes, bounds>>

-----------------------------------------------------------------------------
(* The engine *)

HasRoom == Len(output) < OutRoom
Prints(line) == output' = Append(output, line)
Rest == <<ctxDone, egg, exitCode, stopping, lock, typist, stopper, crashes, typed>>

PrintsLine(line) ==
    /\ egg = "run" /\ engine = "alive" /\ HasRoom /\ printed < Lines
    /\ printed' = printed + 1 /\ line \in {"ask", "text"} /\ Prints(line)
    /\ UNCHANGED <<engine, died, input, Rest>>

(* Every command has an answer. *)
ReadsCommand ==
    /\ egg = "run" /\ engine = "alive" /\ input # <<>> /\ HasRoom
    /\ input' = Tail(input)
    /\ IF Head(input) = "quit" THEN engine' = "quits" ELSE UNCHANGED engine
    /\ Prints("text")
    /\ UNCHANGED <<died, printed, Rest>>

(* On a stop it asked for, or of its own accord; the abort need not show. *)
Dies ==
    /\ egg = "run" /\ engine \in {"alive", "quits"}
    /\ engine' = "gone" /\ died' = IF engine = "quits" THEN "quit" ELSE "crash"
    /\ \/ HasRoom /\ Prints("abort")
       \/ UNCHANGED output
    /\ UNCHANGED <<input, printed, Rest>>

Hangs ==
    /\ egg = "run" /\ engine = "alive" /\ engine' = "hung"
    /\ UNCHANGED <<died, input, output, printed, Rest>>

-----------------------------------------------------------------------------
(* The engine came up, or is on a new map: the egg types `hostname`.       *)
handle(line) == IF line = "ask" THEN Wants("reader", "other") ELSE UNCHANGED typist

(* srv.Line, on the goroutine that reads the pty: the watch feeds on the   *)
(* line, nameQuery and the guard may answer it, the pipeline prints it and *)
(* hears of crashes.                                                       *)
Line ==
    /\ egg = "run" /\ typist["reader"].at = "idle" /\ output # <<>>
    /\ output' = Tail(output)
    /\ handle(Head(output))
    /\ IF Head(output) = "abort" /\ ~stopping THEN reportCrash ELSE UNCHANGED crashes
    /\ UNCHANGED <<ctxDone, egg, engine, died, input, exitCode, stopping, lock, stopper, bounds>>

(* The end of the pty, then Wait.  An engine that dies has a code other    *)
(* than 0; a clean exit after ctx was done has one too (the context's      *)
(* error), one before it need not.                                         *)
RunReturns ==
    /\ egg = "run" /\ engine = "gone" /\ output = <<>> /\ typist["reader"].at = "idle"
    /\ egg' = "report"
    /\ exitCode' \in IF died = "quit" /\ ~ctxDone THEN BOOLEAN ELSE {TRUE}
    /\ UNCHANGED <<ctxDone, engineVars, stopping, lock, typist, stopper, crashes, bounds>>

Exits ==
    /\ egg = "report" /\ egg' = "exited"
    /\ IF exitCode /\ ~stopping THEN reportCrash ELSE UNCHANGED crashes
    /\ UNCHANGED <<ctxDone, engineVars, exitCode, stopping, lock, typist, stopper, bounds>>

-----------------------------------------------------------------------------
RunNext ==
    \/ StopContainer \/ Start \/ StopAsked \/ Kill
    \/ \E p \in Typists : Takes(p) \/ Writes(p) \/ \E c \in Cmds : Types(p, c)
    \/ \E l \in LineKinds : PrintsLine(l)
    \/ ReadsCommand \/ Dies \/ Hangs \/ Line \/ RunReturns \/ Exits

(* The egg's goroutines run on; nothing is asked of the engine. *)
RunFair ==
    /\ \A p \in Typists : WF_runVars(Takes(p)) /\ WF_runVars(Writes(p))
    /\ WF_runVars(Start) /\ WF_runVars(StopAsked) /\ WF_runVars(Kill)
    /\ WF_runVars(Line) /\ WF_runVars(RunReturns) /\ WF_runVars(Exits)

RunSpec == RunInit /\ [][RunNext]_runVars /\ RunFair

-----------------------------------------------------------------------------
(* core.go: "The egg can tell the two apart, because it knows whether it   *)
(* asked the server to quit, and it sends a crash report when it did not." *)
(* A report means that the engine died of its own accord.                  *)
ReportsAreCrashes == crashes > 0 => died = "crash"

(* And an engine that did, with nobody asking, is reported once.           *)
CrashReports ==
    /\ ReportsAreCrashes /\ crashes <= 1
    /\ egg = "exited" /\ died = "crash" /\ ~stopping => crashes = 1

(* Somebody holds the supervisor's lock and waits for room in the pty of   *)
(* an engine that reads no more.                                           *)
Jammed == lock # "free" /\ engine # "gone" /\ Len(input) = Room

(* supervisor.go: the stop command is written when ctx is cancelled and    *)
(* "the process gets Grace to exit before it is killed".  A container that *)
(* is told to stop does stop, also when the engine hangs, unless a write   *)
(* to the full pty holds the lock for good: the stopper's own write comes  *)
(* before the kill and waits too.                                          *)
StopEnds == <>ctxDone => <>(egg = "exited") \/ <>[]Jammed
===============================================================================
