--------------------------- MODULE ServicesProofs ---------------------------
(***************************************************************************)
(* Proofs about the nine components that stand alone, and that together    *)
(* they keep their types (Services): the self-update, the server's run     *)
(* inside the egg, the egg's boot, the console log, the protected ports,   *)
(* the idle watch, the alerts, what the egg tells the node, and the        *)
(* cleanup.                                                                *)
(***************************************************************************)
EXTENDS Services, Least, SequenceTheorems, FiniteSetTheorems, TLAPS

-----------------------------------------------------------------------------
(* The self-update *)

(* Any number of updaters, and restarts that fail, leave the types alone.  *)
LEMMA UpdateTypeHolds == UpdateTypeOK /\ [UpdateNext]_updateVars => UpdateTypeOK'
<1> SUFFICES ASSUME UpdateTypeOK, [UpdateNext]_updateVars PROVE UpdateTypeOK'
  OBVIOUS
<1> USE DEF UpdateTypeOK, Content
<1>1. Loop \in Updaters
  BY DEF Updaters
<1>2. \A from, to \in {"none", "tmp", "bin", "prev"} : Moves(from, to) =>
         fd' \in [Updaters -> {"none", "tmp", "bin", "prev"}]
  BY DEF Moves
<1>3. ASSUME NEW u \in Updaters, download(u) PROVE UpdateTypeOK'
  BY <1>3 DEF download
<1>4. ASSUME NEW u \in Updaters, downloaded(u) PROVE UpdateTypeOK'
  BY <1>4 DEF downloaded
<1>5. ASSUME NEW u \in Updaters, downloadFails(u) PROVE UpdateTypeOK'
  BY <1>2, <1>5 DEF downloadFails
<1>6. ASSUME NEW u \in Updaters, verify(u) PROVE UpdateTypeOK'
  BY <1>2, <1>6 DEF verify
<1>7. ASSUME NEW u \in Updaters, keepPrev(u) PROVE UpdateTypeOK'
  BY <1>2, <1>7 DEF keepPrev
<1>8. ASSUME NEW u \in Updaters, swap(u) PROVE UpdateTypeOK'
  BY <1>2, <1>8 DEF swap
<1>9. Ends \in [Updaters -> {"idle", "download", "verify", "keep", "swap", "restart"}]
      /\ Started \in {"old", "new", "down"}
  BY DEF Ends, Started
<1>10. ASSUME NEW u \in Updaters, Restart(u) PROVE UpdateTypeOK'
  BY <1>1, <1>9, <1>10 DEF Restart
<1>11. ASSUME NEW u \in Updaters, toolDies(u) PROVE UpdateTypeOK'
  BY <1>11 DEF toolDies
<1>12. CASE daemonRestarts
  BY <1>1, <1>9, <1>12 DEF daemonRestarts
<1>13. CASE UNCHANGED updateVars
  BY <1>13 DEF updateVars
<1>14. QED
  BY <1>3, <1>4, <1>5, <1>6, <1>7, <1>8, <1>10, <1>11, <1>12, <1>13 DEF UpdateNext

(* While no update began beside another one, one updater at most is at     *)
(* work, and where it is says which files there are.                       *)
OneUpdates ==
    /\ \A u, v \in Updaters : at[u] # "idle" /\ at[v] # "idle" => u = v
    /\ \A u \in Updaters :
         /\ fd[u] = IF at[u] = "download" THEN "tmp" ELSE "none"
         /\ at[u] \in {"keep", "swap"} => tmp = "new"
         /\ at[u] = "swap" => bin = "none"
    /\ bin # "part" /\ prev # "part" /\ (bin = "none" => prev # "none")

(* While none began again either, one that has not swapped yet does not    *)
(* find the new release in place.                                          *)
FirstUpdate ==
    /\ bin \in {"none", "new"} => prev = "old"
    /\ \A u \in Updaters : at[u] \in {"download", "verify", "keep"} => bin # "new"

UpdateInv ==
    /\ UpdateTypeOK
    /\ "beside" \notin twice => OneUpdates
    /\ twice = {} => FirstUpdate

(* An update that begins. *)
LEMMA DownloadKeeps ==
    ASSUME UpdateInv, NEW u \in Updaters, download(u)
    PROVE  /\ "beside" \notin twice' => OneUpdates'
           /\ twice' = {} => FirstUpdate'
<1> USE DEF UpdateInv, UpdateTypeOK, Content
<1>1. /\ at[u] = "idle" /\ tmp' = "part" /\ bin' = bin /\ prev' = prev
      /\ at' = [at EXCEPT ![u] = "download"] /\ fd' = [fd EXCEPT ![u] = "tmp"]
  BY DEF download
<1>2. "beside" \notin twice' =>
        "beside" \notin twice /\ \A v \in Updaters \ {u} : at[v] = "idle"
  BY DEF download
<1>3. twice' = {} => twice = {} /\ bin # "new" /\ "beside" \notin twice'
  BY DEF download
<1>4. "beside" \notin twice' => OneUpdates'
  BY <1>1, <1>2 DEF OneUpdates
<1>5. twice' = {} => FirstUpdate'
  BY <1>1, <1>2, <1>3 DEF FirstUpdate
<1>6. QED  BY <1>4, <1>5

(* The steps of an update that is under way, and its end. *)
LEMMA UpdaterKeeps ==
    ASSUME UpdateInv, NEW u \in Updaters,
           \/ downloaded(u) \/ downloadFails(u) \/ verify(u) \/ keepPrev(u) \/ swap(u)
           \/ Restart(u) \/ toolDies(u)
    PROVE  /\ "beside" \notin twice' => OneUpdates'
           /\ twice' = {} => FirstUpdate'
<1> USE DEF UpdateInv, UpdateTypeOK, Content
<1>1. twice' = twice /\ at[u] # "idle"
  BY DEF downloaded, downloadFails, verify, keepPrev, swap, Restart, toolDies
<1>2. Loop \in Updaters
  BY DEF Updaters
<1>3. ASSUME "beside" \notin twice PROVE OneUpdates' /\ (twice = {} => FirstUpdate')
  <2>1. OneUpdates /\ \A v \in Updaters \ {u} : at[v] = "idle" /\ fd[v] = "none"
    BY <1>1, <1>3 DEF OneUpdates
  <2>2. twice = {} => FirstUpdate
    OBVIOUS
  <2> USE <1>1, <2>1, <2>2 DEF OneUpdates, FirstUpdate
  <2>3. CASE downloaded(u)
    <3>1. at[u] = "download" /\ fd[u] = "tmp"
      BY <2>3 DEF downloaded
    <3>2. /\ bin' = bin /\ prev' = prev
          /\ at' = [at EXCEPT ![u] = "verify"] /\ fd' = [fd EXCEPT ![u] = "none"]
      BY <2>3, <3>1 DEF downloaded
    <3>3. \A v \in Updaters :
             /\ at'[v] = IF v = u THEN "verify" ELSE at[v]
             /\ fd'[v] = IF v = u THEN "none" ELSE fd[v]
      BY <3>2
    <3>4. OneUpdates'
      BY <3>1, <3>2, <3>3
    <3>5. twice = {} => FirstUpdate'
      BY <3>1, <3>2, <3>3
    <3>6. QED  BY <3>4, <3>5
  <2>4. CASE downloadFails(u)
    BY <2>4 DEF downloadFails, Moves
  <2>5. CASE verify(u)
    BY <2>5 DEF verify, Moves
  <2>6. CASE keepPrev(u)
    BY <2>6 DEF keepPrev, Moves
  <2>7. CASE swap(u)
    BY <2>7 DEF swap, Moves
  <2>8. CASE Restart(u)
    <3>1. at[u] = "restart" /\ bin' = bin /\ prev' = prev /\ tmp' = tmp
      BY <2>8 DEF Restart
    <3>2. \A v \in Updaters : (v # u => at[v] = "idle") /\ fd[v] = "none"
      BY <3>1
    <3>3. \/ /\ at' = [v \in Updaters |-> IF v = u THEN "idle" ELSE Ends[v]]
             /\ fd' = [fd EXCEPT ![Loop] = "none"]
          \/ at' = [at EXCEPT ![u] = "idle"] /\ fd' = fd
      BY <2>8 DEF Restart, Ends
    <3>4. \A v \in Updaters : v # u => Ends[v] = "idle"
      BY <3>2 DEF Ends
    <3>5. \A v \in Updaters : at'[v] = "idle" /\ fd'[v] = "none"
      BY <1>2, <3>2, <3>3, <3>4
    <3>6. QED  BY <3>1, <3>5
  <2>9. CASE toolDies(u)
    BY <2>9 DEF toolDies
  <2>10. QED  BY <2>3, <2>4, <2>5, <2>6, <2>7, <2>8, <2>9
<1>4. QED  BY <1>1, <1>3

LEMMA UpdateStepHolds == UpdateInv /\ [UpdateNext]_updateVars => UpdateInv'
<1> SUFFICES ASSUME UpdateInv, [UpdateNext]_updateVars PROVE UpdateInv'
  OBVIOUS
<1>1. UpdateTypeOK'
  BY UpdateTypeHolds DEF UpdateInv
<1>2. ASSUME NEW u \in Updaters, download(u) PROVE UpdateInv'
  BY <1>1, <1>2, DownloadKeeps DEF UpdateInv
<1>3. ASSUME NEW u \in Updaters,
             \/ downloaded(u) \/ downloadFails(u) \/ verify(u) \/ keepPrev(u) \/ swap(u)
             \/ Restart(u) \/ toolDies(u)
      PROVE  UpdateInv'
  BY <1>1, <1>3, UpdaterKeeps DEF UpdateInv
<1>4. CASE daemonRestarts
  <2>1. Loop \in Updaters /\ UpdateTypeOK
    BY DEF Updaters, UpdateInv
  <2>2. "beside" \notin twice' => OneUpdates'
    BY <1>4, <2>1 DEF daemonRestarts, Ends, OneUpdates, UpdateInv, UpdateTypeOK
  <2>3. twice' = {} => FirstUpdate'
    BY <1>4, <2>1 DEF daemonRestarts, Ends, FirstUpdate, UpdateInv, UpdateTypeOK
  <2>4. QED  BY <1>1, <2>2, <2>3 DEF UpdateInv
<1>5. CASE UNCHANGED updateVars
  BY <1>5 DEF updateVars, UpdateInv, UpdateTypeOK, OneUpdates, FirstUpdate
<1>6. QED
  BY <1>2, <1>3, <1>4, <1>5 DEF UpdateNext

(* update.go, Apply: whichever of the loop and any number of commands      *)
(* updates, whatever downloads and restarts fail and whoever is killed at  *)
(* any step, as long as no two work at once neither name holds half a      *)
(* binary and one of them holds a whole one; and .prev is the old one      *)
(* until somebody updates to what is in place already.                     *)
THEOREM UpdateSwapsWhole == UpdateSpec => []SwapIsWhole
<1>1. UpdateInit => UpdateInv
  BY DEF UpdateInit, UpdateInv, UpdateTypeOK, OneUpdates, FirstUpdate, Content
<1>2. UpdateInv => SwapIsWhole
  BY DEF UpdateInv, OneUpdates, FirstUpdate, SwapIsWhole
<1>3. QED  BY <1>1, <1>2, UpdateStepHolds, PTL DEF UpdateSpec

LEMMA UpdateInitTypes == UpdateInit => UpdateTypeOK
BY DEF UpdateInit, UpdateTypeOK, Content

-----------------------------------------------------------------------------
(* The server's run *)

(* A quit is known to be one before anybody can read it.                   *)
QuitIsNoted ==
    /\ \A p \in Typists : typist[p].at = "writes" /\ typist[p].cmd = "quit" => stopping
    /\ (\E i \in 1..Len(input) : input[i] = "quit") => stopping
    /\ typist["stopper"].at # "idle" => stopping
    /\ engine = "quits" \/ died \in {"quit", "killed"} \/ stopper # "waits" => stopping

(* An abort is the last line of an engine that is gone, by its own will    *)
(* or because it was asked.                                                *)
DeathIsKnown ==
    /\ engine = "gone" <=> died # "none"
    /\ (\E i \in 1..Len(output) : output[i] = "abort") => died # "none"
    /\ egg = "boot" => engine = "none"
    /\ egg \in {"report", "exited"} => engine = "gone"

(* What was reported so far, at each stage of the egg.                     *)
Reported ==
    /\ crashes \in {0, 1}
    /\ crashes = 1 => died = "crash"
    /\ egg = "boot" => ~ctxDone
    /\ egg = "report" /\ died = "crash" => exitCode
    /\ egg = "exited" /\ died = "crash" /\ ~stopping => crashes = 1

RunInv == RunTypeOK /\ QuitIsNoted /\ DeathIsKnown /\ Reported

LEMMA QueueFacts ==
    ASSUME NEW S, NEW q \in Seq(S), NEW x \in S
    PROVE  /\ Append(q, x) \in Seq(S) /\ Len(Append(q, x)) = Len(q) + 1
           /\ \A i \in 1..Len(Append(q, x)) :
                 Append(q, x)[i] = x \/ \E j \in 1..Len(q) : Append(q, x)[i] = q[j]
           /\ q # <<>> =>
                 /\ Head(q) \in S /\ Tail(q) \in Seq(S) /\ Len(Tail(q)) = Len(q) - 1
                 /\ \E j \in 1..Len(q) : Head(q) = q[j]
                 /\ \A i \in 1..Len(Tail(q)) : \E j \in 1..Len(q) : Tail(q)[i] = q[j]
<1>1. Len(q) \in Nat
  OBVIOUS
<1>2. Append(q, x) \in Seq(S) /\ Len(Append(q, x)) = Len(q) + 1
  OBVIOUS
<1>3. \A i \in 1..Len(Append(q, x)) :
         Append(q, x)[i] = x \/ \E j \in 1..Len(q) : Append(q, x)[i] = q[j]
  <2>1. \A i \in 1..Len(q) : Append(q, x)[i] = q[i]
    OBVIOUS
  <2>2. Append(q, x)[Len(q) + 1] = x
    OBVIOUS
  <2>3. \A i \in 1..(Len(q) + 1) : i \in 1..Len(q) \/ i = Len(q) + 1
    BY <1>1
  <2>4. QED  BY <1>2, <2>1, <2>2, <2>3
<1>4. ASSUME q # <<>>
      PROVE  /\ Head(q) \in S /\ Tail(q) \in Seq(S) /\ Len(Tail(q)) = Len(q) - 1
             /\ \E j \in 1..Len(q) : Head(q) = q[j]
             /\ \A i \in 1..Len(Tail(q)) : \E j \in 1..Len(q) : Tail(q)[i] = q[j]
  <2>1. Len(q) >= 1 /\ Tail(q) \in Seq(S) /\ Len(Tail(q)) = Len(q) - 1
    BY <1>4
  <2>2. 1 \in 1..Len(q) /\ Head(q) = q[1] /\ Head(q) \in S
    BY <1>1, <1>4, <2>1
  <2>3. \A i \in 1..Len(Tail(q)) : Tail(q)[i] = q[i + 1]
    BY <1>4
  <2>4. \A i \in 1..Len(Tail(q)) : i + 1 \in 1..Len(q)
    BY <1>1, <2>1
  <2>5. QED  BY <2>1, <2>2, <2>3, <2>4
<1>5. QED  BY <1>2, <1>3, <1>4

(* What the typists may do: none of them writes a quit before it is noted. *)
LEMMA TypistFacts ==
    ASSUME RunTypeOK, NEW p \in Typists
    PROVE  /\ \A what \in {"idle", "wants", "writes"} : Does(p, what) =>
                 /\ typist' \in [Typists -> [at : {"idle", "wants", "writes"}, cmd : Cmds]]
                 /\ typist'[p].at = what /\ typist'[p].cmd = typist[p].cmd
                 /\ \A q \in Typists \ {p} : typist'[q] = typist[q]
           /\ \A cmd \in Cmds : Wants(p, cmd) =>
                 /\ typist' \in [Typists -> [at : {"idle", "wants", "writes"}, cmd : Cmds]]
                 /\ typist'[p].at = "wants"
                 /\ \A q \in Typists \ {p} : typist'[q] = typist[q]
<1>1. /\ typist \in [Typists -> [at : {"idle", "wants", "writes"}, cmd : Cmds]]
      /\ typist[p] \in [at : {"idle", "wants", "writes"}, cmd : Cmds]
  BY DEF RunTypeOK
<1>2. ASSUME NEW what \in {"idle", "wants", "writes"}, Does(p, what)
      PROVE  /\ typist' \in [Typists -> [at : {"idle", "wants", "writes"}, cmd : Cmds]]
             /\ typist'[p].at = what /\ typist'[p].cmd = typist[p].cmd
             /\ \A q \in Typists \ {p} : typist'[q] = typist[q]
  <2>1. typist' = [typist EXCEPT ![p] = [typist[p] EXCEPT !.at = what]]
    BY <1>2 DEF Does
  <2>2. /\ [typist[p] EXCEPT !.at = what] \in [at : {"idle", "wants", "writes"}, cmd : Cmds]
        /\ [typist[p] EXCEPT !.at = what].at = what
        /\ [typist[p] EXCEPT !.at = what].cmd = typist[p].cmd
    BY <1>1
  <2>3. QED  BY <1>1, <2>1, <2>2
<1>3. ASSUME NEW cmd \in Cmds, Wants(p, cmd)
      PROVE  /\ typist' \in [Typists -> [at : {"idle", "wants", "writes"}, cmd : Cmds]]
             /\ typist'[p].at = "wants"
             /\ \A q \in Typists \ {p} : typist'[q] = typist[q]
  <2>1. typist' = [typist EXCEPT ![p] = [at |-> "wants", cmd |-> cmd]]
    BY <1>3 DEF Wants
  <2>2. QED  BY <1>1, <2>1
<1>4. QED  BY <1>2, <1>3

LEMMA RunInitHolds == RunInit => RunInv
<1> SUFFICES ASSUME RunInit PROVE RunInv
  OBVIOUS
<1>1. <<>> \in Seq(Cmds) /\ <<>> \in Seq(LineKinds) /\ Len(<<>>) = 0
  OBVIOUS
<1>2. RunTypeOK
  <2>1. typist \in [Typists -> [at : {"idle", "wants", "writes"}, cmd : Cmds]]
    BY DEF RunInit, Cmds
  <2>2. 0 \in 0..2 /\ 0 \in 0..Commands /\ 0 \in 0..Lines /\ 0 <= Room /\ 0 <= OutRoom
    BY RunAssumption
  <2>3. QED  BY <1>1, <2>1, <2>2 DEF RunInit, RunTypeOK
<1>3. QuitIsNoted /\ DeathIsKnown /\ Reported
  BY <1>1 DEF RunInit, Typists, QuitIsNoted, DeathIsKnown, Reported
<1>4. QED  BY <1>2, <1>3 DEF RunInv

LEMMA RunStepHolds == ASSUME ~StopsInBoot, RunInv, [RunNext]_runVars PROVE RunInv'
<1> USE DEF Reported, DeathIsKnown, QuitIsNoted
<1>1. /\ RunTypeOK /\ QuitIsNoted /\ DeathIsKnown /\ Reported
      /\ input \in Seq(Cmds) /\ output \in Seq(LineKinds)
      /\ Len(input) \in Nat /\ Len(output) \in Nat /\ Room \in Nat /\ OutRoom \in Nat
  BY RunAssumption DEF RunInv, RunTypeOK
<1>2. CASE StopContainer
  BY <1>1, <1>2 DEF StopContainer, RunInv, RunTypeOK, engineVars, bounds
<1>3. CASE Start
  BY <1>1, <1>3 DEF Start, RunInv, RunTypeOK, engineVars, bounds
<1>4. ASSUME NEW p \in Typists, NEW cmd \in Cmds, Types(p, cmd) PROVE RunInv'
  <2>1. /\ typist' \in [Typists -> [at : {"idle", "wants", "writes"}, cmd : Cmds]]
        /\ typist'[p].at = "wants"
        /\ \A q \in Typists \ {p} : typist'[q] = typist[q]
    BY <1>1, <1>4, TypistFacts DEF Types
  <2>2. typed' \in 0..Commands
    BY <1>1, <1>4, RunAssumption DEF Types, RunTypeOK
  <2>3. typist'["stopper"] = typist["stopper"]
    BY <1>4, <2>1 DEF Types, Typists
  <2>4. /\ typed \in Nat /\ typed' = typed + 1 /\ typed < Commands
        /\ UNCHANGED <<ctxDone, egg, engine, died, input, output, exitCode, stopping, lock,
                       stopper, crashes, printed>>
    BY <1>1, <1>4 DEF Types, RunTypeOK, engineVars
  <2>5. RunTypeOK'
    BY <1>1, <2>1, <2>2, <2>4 DEF RunTypeOK
  <2>6. QuitIsNoted'
    BY <1>1, <2>1, <2>3, <2>4
  <2>7. DeathIsKnown' /\ Reported'
    BY <1>1, <2>4
  <2>8. QED  BY <2>5, <2>6, <2>7 DEF RunInv
<1>5. ASSUME NEW p \in Typists, Takes(p) PROVE RunInv'
  <2>1. /\ typist' \in [Typists -> [at : {"idle", "wants", "writes"}, cmd : Cmds]]
        /\ typist'[p].at = "writes" /\ typist'[p].cmd = typist[p].cmd
        /\ \A q \in Typists \ {p} : typist'[q] = typist[q]
    BY <1>1, <1>5, TypistFacts DEF Takes
  <2>2. stopping' \in BOOLEAN /\ (stopping => stopping')
        /\ (typist[p].cmd = "quit" => stopping')
    BY <1>1, <1>5 DEF Takes, noteInput, RunTypeOK
  <2>3. lock' \in {"free"} \cup Typists
    BY <1>5 DEF Takes
  <2>4. typist["stopper"].at # "idle" \/ typist'["stopper"] = typist["stopper"]
    BY <1>5, <2>1 DEF Takes, Typists
  <2>5. typist'["stopper"].at # "idle" => stopping'
    BY <1>1, <2>2, <2>4
  <2>6. \A q \in Typists : typist'[q].at = "writes" /\ typist'[q].cmd = "quit" => stopping'
    BY <1>1, <2>1, <2>2
  <2>7. QED  BY <1>1, <1>5, <2>1, <2>2, <2>3, <2>5, <2>6 DEF Takes, RunInv, RunTypeOK, engineVars, bounds
<1>6. ASSUME NEW p \in Typists, Writes(p) PROVE RunInv'
  <2>1. /\ typist' \in [Typists -> [at : {"idle", "wants", "writes"}, cmd : Cmds]]
        /\ typist'[p].at = "idle"
        /\ \A q \in Typists \ {p} : typist'[q] = typist[q]
    BY <1>1, <1>6, TypistFacts DEF Writes
  <2>2. typist[p].cmd \in Cmds /\ (typist[p].cmd = "quit" => stopping)
    BY <1>1, <1>6 DEF Writes, RunTypeOK
  <2>3. /\ input' \in Seq(Cmds) /\ Len(input') <= Room
        /\ (\E i \in 1..Len(input') : input'[i] = "quit") => stopping
    <3>1. CASE input' = input
      BY <1>1, <3>1 DEF RunTypeOK
    <3>2. CASE Len(input) < Room /\ input' = Append(input, typist[p].cmd)
      BY <1>1, <2>2, <3>2, QueueFacts
    <3>3. QED  BY <1>6, <3>1, <3>2 DEF Writes
  <2>4. lock' \in {"free"} \cup Typists
        /\ stopper' \in {"waits", "sends", "grace", "done"}
    BY <1>1, <1>6 DEF Writes, RunTypeOK
  <2>5. stopper' # "waits" => stopping
    BY <1>1, <1>6 DEF Writes
  <2>6. typist'["stopper"].at = "idle" \/ typist'["stopper"] = typist["stopper"]
    BY <1>6, <2>1 DEF Typists
  <2>7. /\ typist'["stopper"].at # "idle" => stopping
        /\ \A q \in Typists : typist'[q].at = "writes" /\ typist'[q].cmd = "quit" => stopping
    BY <1>1, <2>1, <2>6
  <2>8. stopping' = stopping
    BY <1>6 DEF Writes
  <2>9. QED  BY <1>1, <1>6, <2>1, <2>3, <2>4, <2>5, <2>7, <2>8 DEF Writes, RunInv, RunTypeOK, bounds
<1>7. CASE StopAsked
  <2>1. /\ typist' \in [Typists -> [at : {"idle", "wants", "writes"}, cmd : Cmds]]
        /\ typist'["stopper"].at = "wants"
        /\ \A q \in Typists \ {"stopper"} : typist'[q] = typist[q]
    BY <1>1, <1>7, TypistFacts DEF StopAsked, Typists, Cmds
  <2>2. QED  BY <1>1, <1>7, <2>1 DEF StopAsked, RunInv, RunTypeOK, engineVars, bounds
<1>8. CASE Kill
  BY <1>1, <1>8 DEF Kill, graceOver, RunInv, RunTypeOK, bounds
<1>9. ASSUME NEW line \in LineKinds, PrintsLine(line) PROVE RunInv'
  <2>1. line # "abort" /\ Len(output) < OutRoom /\ output' = Append(output, line)
    BY <1>9 DEF PrintsLine, Prints, HasRoom
  <2>2. /\ output' \in Seq(LineKinds) /\ Len(output') <= OutRoom
        /\ (\E i \in 1..Len(output') : output'[i] = "abort") =>
              \E i \in 1..Len(output) : output[i] = "abort"
    BY <1>1, <2>1, QueueFacts
  <2>3. printed' \in 0..Lines
    BY <1>1, <1>9, RunAssumption DEF PrintsLine, RunTypeOK
  <2>4. QED  BY <1>1, <1>9, <2>2, <2>3 DEF PrintsLine, Rest, RunInv, RunTypeOK
<1>10. CASE ReadsCommand
  <2>1. /\ input' \in Seq(Cmds) /\ Len(input') <= Room
        /\ (\E i \in 1..Len(input') : input'[i] = "quit") => stopping
        /\ Head(input) = "quit" => stopping
    BY <1>1, <1>10, QueueFacts DEF ReadsCommand, RunTypeOK
  <2>2. "text" \in LineKinds /\ output' = Append(output, "text") /\ Len(output) < OutRoom
    BY <1>10 DEF ReadsCommand, Prints, HasRoom, LineKinds
  <2>3. /\ output' \in Seq(LineKinds) /\ Len(output') <= OutRoom
        /\ (\E i \in 1..Len(output') : output'[i] = "abort") =>
              \E i \in 1..Len(output) : output[i] = "abort"
    BY <1>1, <2>2, QueueFacts
  <2>4. engine' \in {"alive", "quits"} /\ (engine' = "quits" => stopping)
    BY <1>1, <1>10, <2>1 DEF ReadsCommand
  <2>5. QED  BY <1>1, <1>10, <2>1, <2>3, <2>4 DEF ReadsCommand, Rest, RunInv, RunTypeOK
<1>11. CASE Dies
  <2>1. output' = output \/ (Len(output) < OutRoom /\ output' = Append(output, "abort"))
    BY <1>11 DEF Dies, Prints, HasRoom
  <2>2. "abort" \in LineKinds
    BY DEF LineKinds
  <2>3. output' \in Seq(LineKinds) /\ Len(output') <= OutRoom
    <3>1. CASE output' = output
      BY <1>1, <3>1 DEF RunTypeOK
    <3>2. CASE Len(output) < OutRoom /\ output' = Append(output, "abort")
      BY <1>1, <2>2, <3>2, QueueFacts
    <3>3. QED  BY <2>1, <3>1, <3>2
  <2>4. /\ died' \in {"quit", "crash"} /\ died = "none" /\ engine' = "gone"
        /\ died' = "quit" => engine = "quits"
    BY <1>1, <1>11 DEF Dies, RunTypeOK
  <2>5. QED  BY <1>1, <1>11, <2>3, <2>4 DEF Dies, Rest, RunInv, RunTypeOK
<1>12. CASE Hangs
  BY <1>1, <1>12 DEF Hangs, Rest, RunInv, RunTypeOK
<1>13. CASE Line
  <2>1. /\ output' \in Seq(LineKinds) /\ Len(output') <= OutRoom
        /\ (\E i \in 1..Len(output') : output'[i] = "abort") =>
              \E i \in 1..Len(output) : output[i] = "abort"
        /\ Head(output) = "abort" => died # "none"
    BY <1>1, <1>13, QueueFacts DEF Line, RunTypeOK
  <2>2. /\ typist' \in [Typists -> [at : {"idle", "wants", "writes"}, cmd : Cmds]]
        /\ \A q \in Typists : typist'[q] = typist[q] \/ typist'[q].at = "wants"
        /\ typist'["stopper"] = typist["stopper"]
    <3>1. CASE typist' = typist
      BY <1>1, <3>1 DEF RunTypeOK
    <3>2. CASE Wants("reader", "other")
      BY <1>1, <3>2, TypistFacts DEF Typists, Cmds
    <3>3. QED  BY <1>13, <3>1, <3>2 DEF Line, handle
  <2>3. died = "quit" \/ died = "killed" => stopping
    BY <1>1
  <2>4. crashes' \in {0, 1} /\ (crashes' # crashes => died = "crash")
    BY <1>1, <1>13, <2>1, <2>3 DEF Line, reportCrash, RunTypeOK
  <2>5. /\ typist'["stopper"].at # "idle" => stopping
        /\ \A q \in Typists : typist'[q].at = "writes" /\ typist'[q].cmd = "quit" => stopping
    BY <1>1, <2>2
  <2>6. UNCHANGED <<ctxDone, egg, engine, died, input, exitCode, stopping, lock, stopper, bounds>>
        /\ egg = "run"
    BY <1>13 DEF Line
  <2>7. RunTypeOK'
    BY <1>1, <2>1, <2>2, <2>4, <2>6 DEF RunTypeOK, bounds
  <2>8. Reported'
    BY <1>1, <2>4, <2>6
  <2>9. QED  BY <1>1, <2>1, <2>5, <2>6, <2>7, <2>8 DEF RunInv
<1>14. CASE RunReturns
  BY <1>1, <1>14 DEF RunReturns, RunInv, RunTypeOK, engineVars, bounds
<1>15. CASE Exits
  <2>1. ~stopping => died = "crash"
    BY <1>1, <1>15 DEF Exits, RunTypeOK
  <2>2. crashes' \in {0, 1} /\ (crashes' = 1 => died = "crash")
        /\ (died = "crash" /\ ~stopping => crashes' = 1)
    BY <1>1, <1>15, <2>1 DEF Exits, reportCrash
  <2>3. QED  BY <1>1, <1>15, <2>2 DEF Exits, RunInv, RunTypeOK, engineVars, bounds
<1>16. CASE UNCHANGED runVars
  BY <1>1, <1>16 DEF runVars, RunInv, RunTypeOK
<1>17. QED
  BY <1>2, <1>3, <1>4, <1>5, <1>6, <1>7, <1>8, <1>9, <1>10, <1>11, <1>12, <1>13, <1>14,
     <1>15, <1>16 DEF RunNext

(* core.go's crash report: in an egg whose container is not stopped while  *)
(* it boots, a report means that the engine died with nobody asking, and   *)
(* an engine that did is reported exactly once, however the commands, the  *)
(* stop, the kill and the lines of the engine fall.                        *)
THEOREM CrashesAreReported == ASSUME ~StopsInBoot PROVE RunSpec => []CrashReports
<1>1. RunInit => RunInv
  BY RunInitHolds
<1>2. RunInv /\ [RunNext]_runVars => RunInv'
  BY RunStepHolds
<1>3. RunInv => CrashReports
  BY DEF RunInv, Reported, ReportsAreCrashes, CrashReports
<1>4. QED  BY <1>1, <1>2, <1>3, PTL DEF RunSpec

(* Whether or not the container can be told to stop while it boots, the    *)
(* run stays in its types.                                                 *)
LEMMA RunTypeHolds == RunTypeOK /\ [RunNext]_runVars => RunTypeOK'
<1> SUFFICES ASSUME RunTypeOK, [RunNext]_runVars PROVE RunTypeOK'
  OBVIOUS
<1>1. /\ input \in Seq(Cmds) /\ output \in Seq(LineKinds)
      /\ Len(input) \in Nat /\ Len(output) \in Nat /\ Room \in Nat /\ OutRoom \in Nat
      /\ typist \in [Typists -> [at : {"idle", "wants", "writes"}, cmd : Cmds]]
      /\ {"stopper", "reader"} \subseteq Typists
      /\ {"quit", "other"} \subseteq Cmds /\ {"abort", "text"} \subseteq LineKinds
  BY RunAssumption DEF RunTypeOK, Typists, Cmds, LineKinds
<1>2. CASE StopContainer
  BY <1>2 DEF StopContainer, RunTypeOK, engineVars, bounds
<1>3. CASE Start
  BY <1>3 DEF Start, RunTypeOK, engineVars, bounds
<1>4. ASSUME NEW p \in Typists, NEW cmd \in Cmds, Types(p, cmd) PROVE RunTypeOK'
  <2>1. typist' \in [Typists -> [at : {"idle", "wants", "writes"}, cmd : Cmds]]
    BY <1>4, TypistFacts DEF Types
  <2>2. typed' \in 0..Commands
    BY <1>4, RunAssumption DEF Types, RunTypeOK
  <2>3. QED  BY <1>4, <2>1, <2>2 DEF Types, RunTypeOK, engineVars
<1>5. ASSUME NEW p \in Typists, Takes(p) PROVE RunTypeOK'
  <2>1. typist' \in [Typists -> [at : {"idle", "wants", "writes"}, cmd : Cmds]]
    BY <1>5, TypistFacts DEF Takes
  <2>2. stopping' \in BOOLEAN /\ lock' \in {"free"} \cup Typists
    BY <1>5 DEF Takes, noteInput, RunTypeOK
  <2>3. QED  BY <1>5, <2>1, <2>2 DEF Takes, RunTypeOK, engineVars, bounds
<1>6. ASSUME NEW p \in Typists, Writes(p) PROVE RunTypeOK'
  <2>1. typist' \in [Typists -> [at : {"idle", "wants", "writes"}, cmd : Cmds]]
    BY <1>6, TypistFacts DEF Writes
  <2>2. input' \in Seq(Cmds) /\ Len(input') <= Room
    <3>1. typist[p].cmd \in Cmds
      BY <1>1
    <3>2. CASE input' = input
      BY <1>1, <3>2 DEF RunTypeOK
    <3>3. CASE Len(input) < Room /\ input' = Append(input, typist[p].cmd)
      BY <1>1, <3>1, <3>3, QueueFacts
    <3>4. QED  BY <1>6, <3>2, <3>3 DEF Writes
  <2>3. lock' \in {"free"} \cup Typists /\ stopper' \in {"waits", "sends", "grace", "done"}
    BY <1>6 DEF Writes, RunTypeOK
  <2>4. QED  BY <1>6, <2>1, <2>2, <2>3 DEF Writes, RunTypeOK, bounds
<1>7. CASE StopAsked
  <2>1. typist' \in [Typists -> [at : {"idle", "wants", "writes"}, cmd : Cmds]]
    BY <1>1, <1>7, TypistFacts DEF StopAsked
  <2>2. QED  BY <1>7, <2>1 DEF StopAsked, RunTypeOK, engineVars, bounds
<1>8. CASE Kill
  BY <1>8 DEF Kill, graceOver, RunTypeOK, bounds
<1>9. ASSUME NEW line \in LineKinds, PrintsLine(line) PROVE RunTypeOK'
  <2>1. Len(output) < OutRoom /\ output' = Append(output, line)
    BY <1>9 DEF PrintsLine, Prints, HasRoom
  <2>2. output' \in Seq(LineKinds) /\ Len(output') <= OutRoom
    BY <1>1, <2>1, QueueFacts
  <2>3. printed' \in 0..Lines
    BY <1>9, RunAssumption DEF PrintsLine, RunTypeOK
  <2>4. QED  BY <1>9, <2>2, <2>3 DEF PrintsLine, Rest, RunTypeOK
<1>10. CASE ReadsCommand
  <2>1. input' \in Seq(Cmds) /\ Len(input') <= Room
    BY <1>1, <1>10, QueueFacts DEF ReadsCommand, RunTypeOK
  <2>2. output' = Append(output, "text") /\ Len(output) < OutRoom
    BY <1>10 DEF ReadsCommand, Prints, HasRoom
  <2>3. output' \in Seq(LineKinds) /\ Len(output') <= OutRoom
    BY <1>1, <2>2, QueueFacts
  <2>4. engine' \in {"alive", "quits"}
    BY <1>10 DEF ReadsCommand
  <2>5. QED  BY <1>10, <2>1, <2>3, <2>4 DEF ReadsCommand, Rest, RunTypeOK
<1>11. CASE Dies
  <2>1. output' \in Seq(LineKinds) /\ Len(output') <= OutRoom
    <3>1. CASE output' = output
      BY <1>1, <3>1 DEF RunTypeOK
    <3>2. CASE Len(output) < OutRoom /\ output' = Append(output, "abort")
      BY <1>1, <3>2, QueueFacts
    <3>3. QED  BY <1>11, <3>1, <3>2 DEF Dies, Prints, HasRoom
  <2>2. QED  BY <1>11, <2>1 DEF Dies, Rest, RunTypeOK
<1>12. CASE Hangs
  BY <1>12 DEF Hangs, Rest, RunTypeOK
<1>13. CASE Line
  <2>1. output' \in Seq(LineKinds) /\ Len(output') <= OutRoom
    BY <1>1, <1>13, QueueFacts DEF Line, RunTypeOK
  <2>2. typist' \in [Typists -> [at : {"idle", "wants", "writes"}, cmd : Cmds]]
    <3>1. CASE typist' = typist
      BY <1>1, <3>1
    <3>2. CASE Wants("reader", "other")
      BY <1>1, <3>2, TypistFacts
    <3>3. QED  BY <1>13, <3>1, <3>2 DEF Line, handle
  <2>3. crashes' \in 0..2
    BY <1>13 DEF Line, reportCrash, RunTypeOK
  <2>4. QED  BY <1>13, <2>1, <2>2, <2>3 DEF Line, RunTypeOK, bounds
<1>14. CASE RunReturns
  BY <1>14 DEF RunReturns, RunTypeOK, engineVars, bounds
<1>15. CASE Exits
  <2>1. crashes' \in 0..2
    BY <1>15 DEF Exits, reportCrash, RunTypeOK
  <2>2. QED  BY <1>15, <2>1 DEF Exits, RunTypeOK, engineVars, bounds
<1>16. CASE UNCHANGED runVars
  BY <1>16 DEF runVars, RunTypeOK
<1>17. QED
  BY <1>2, <1>3, <1>4, <1>5, <1>6, <1>7, <1>8, <1>9, <1>10, <1>11, <1>12, <1>13, <1>14,
     <1>15, <1>16 DEF RunNext

-----------------------------------------------------------------------------
(* The egg's boot *)

(* Metamod is right behind backups, or first where that is not mounted.    *)
Ordered(paths) ==
    \A i \in DOMAIN paths : paths[i] = "metamod" =>
        IF "backups" \in ToSet(paths) THEN i > 1 /\ paths[i - 1] = "backups" ELSE i = 1
Distinct(paths) == \A i, j \in DOMAIN paths : paths[i] = paths[j] => i = j

(* The last edits come in this order, and once Metamod has its place no    *)
(* addon is mounted any more.                                              *)
Sorted(todo) ==
    /\ \A i, j \in DOMAIN todo : todo[i] = "first" /\ i < j => todo[j] \in {"backups", "token"}
    /\ "first" \notin ToSet(todo) => ToSet(todo) \subseteq {"backups", "token"}

(* What is switched on is mounted or about to be, unless an edit failed or *)
(* the file is not whole.                                                  *)
BootSoFar ==
    (/\ booting.at \in {"edits", "writes", "run"}
     /\ booting.at = "writes" \/ info = "whole"
     /\ ~booting.missed) =>
        /\ {"backups"} \cup (booting.sel \cap Mounts) \subseteq ToSet(mounted) \cup ToSet(booting.todo)
        /\ "first" \notin ToSet(booting.todo) => Ordered(mounted)

BootSeqs ==
    /\ mounted \in Seq(Mounts)
    /\ booting \in [at : {"off", "asks", "stale", "prune", "install", "update", "addons",
                          "edits", "writes", "run"},
                    sel : SUBSET Switches, todo : Seq(Edits), missed : BOOLEAN]

BootInv ==
    /\ BootSeqs /\ BootSoFar /\ Distinct(mounted)
    /\ booting.at \in {"edits", "writes"} => Sorted(booting.todo)
    /\ booting.at = "writes" => booting.todo # <<>>
    /\ booting.at = "run" => booting.todo = <<>>

LEMMA RemoveAtFacts ==
    ASSUME NEW S, NEW s \in Seq(S), NEW k \in 1..Len(s)
    PROVE  /\ RemoveAt(s, k) \in Seq(S) /\ Len(RemoveAt(s, k)) = Len(s) - 1
           /\ \A i \in 1..(Len(s) - 1) :
                 RemoveAt(s, k)[i] = IF i < k THEN s[i] ELSE s[i + 1]
<1> DEFINE l == SubSeq(s, 1, k - 1)
           r == SubSeq(s, k + 1, Len(s))
<1>1. Len(s) \in Nat /\ k \in Int
  OBVIOUS
<1>2. l \in Seq(S) /\ Len(l) = k - 1 /\ \A i \in 1..(k - 1) : l[i] = s[i]
  <2>1. \A i \in 1..(k - 1) : s[i] \in S
    OBVIOUS
  <2>2. /\ l \in Seq(S) /\ Len(l) = IF 1 <= k - 1 THEN k - 1 - 1 + 1 ELSE 0
        /\ \A i \in 1..(k - 1 - 1 + 1) : l[i] = s[1 + i - 1]
    BY <1>1, <2>1, SubSeqProperties
  <2>3. QED  BY <1>1, <2>2
<1>3. r \in Seq(S) /\ Len(r) = Len(s) - k /\ \A i \in 1..(Len(s) - k) : r[i] = s[k + i]
  <2>1. \A i \in (k + 1)..Len(s) : s[i] \in S
    BY <1>1
  <2>2. /\ r \in Seq(S) /\ Len(r) = IF k + 1 <= Len(s) THEN Len(s) - (k + 1) + 1 ELSE 0
        /\ \A i \in 1..(Len(s) - (k + 1) + 1) : r[i] = s[k + 1 + i - 1]
    BY <1>1, <2>1, SubSeqProperties
  <2>3. QED  BY <1>1, <2>2
<1> HIDE DEF l, r
<1>4. /\ l \o r \in Seq(S) /\ Len(l \o r) = Len(l) + Len(r)
      /\ \A i \in 1..(Len(l) + Len(r)) :
            (l \o r)[i] = IF i <= Len(l) THEN l[i] ELSE r[i - Len(l)]
  BY <1>2, <1>3, ConcatProperties
<1>5. Len(l) + Len(r) = Len(s) - 1
  BY <1>1, <1>2, <1>3
<1>6. ASSUME NEW i \in 1..(Len(s) - 1)
      PROVE  (l \o r)[i] = IF i < k THEN s[i] ELSE s[i + 1]
  <2>1. CASE i < k
    <3>1. i \in 1..(k - 1)
      BY <1>1, <2>1
    <3>2. i <= Len(l)
      BY <1>1, <1>2, <3>1
    <3>3. QED  BY <1>2, <1>4, <1>5, <2>1, <3>1, <3>2
  <2>2. CASE ~(i < k)
    <3>1. i - Len(l) \in 1..(Len(s) - k) /\ ~(i <= Len(l)) /\ k + (i - Len(l)) = i + 1
      BY <1>1, <1>2, <2>2
    <3>2. QED  BY <1>3, <1>4, <1>5, <2>2, <3>1
  <2>3. QED  BY <2>1, <2>2
<1>7. QED  BY <1>4, <1>5, <1>6 DEF RemoveAt, l, r

(* t is s with e after its first a elements. *)
Inserted(t, s, a, e) ==
    /\ Len(t) = Len(s) + 1
    /\ \A i \in 1..(Len(s) + 1) : t[i] = IF i <= a THEN s[i]
                                         ELSE IF i = a + 1 THEN e ELSE s[i - 1]

LEMMA InsertAtFacts ==
    ASSUME NEW S, NEW s \in Seq(S), NEW a \in 0..Len(s), NEW e \in S
    PROVE  InsertAt(s, a + 1, e) \in Seq(S) /\ Inserted(InsertAt(s, a + 1, e), s, a, e)
<1> DEFINE l == SubSeq(s, 1, a)
           m == <<e>>
           r == SubSeq(s, a + 1, Len(s))
<1>1. Len(s) \in Nat /\ a \in Int
  OBVIOUS
<1>2. l \in Seq(S) /\ Len(l) = a /\ \A i \in 1..a : l[i] = s[i]
  <2>1. \A i \in 1..a : s[i] \in S
    OBVIOUS
  <2>2. /\ l \in Seq(S) /\ Len(l) = IF 1 <= a THEN a - 1 + 1 ELSE 0
        /\ \A i \in 1..(a - 1 + 1) : l[i] = s[1 + i - 1]
    BY <1>1, <2>1, SubSeqProperties
  <2>3. QED  BY <1>1, <2>2
<1>3. r \in Seq(S) /\ Len(r) = Len(s) - a /\ \A i \in 1..(Len(s) - a) : r[i] = s[a + i]
  <2>1. \A i \in (a + 1)..Len(s) : s[i] \in S
    BY <1>1
  <2>2. /\ r \in Seq(S) /\ Len(r) = IF a + 1 <= Len(s) THEN Len(s) - (a + 1) + 1 ELSE 0
        /\ \A i \in 1..(Len(s) - (a + 1) + 1) : r[i] = s[a + 1 + i - 1]
    BY <1>1, <2>1, SubSeqProperties
  <2>3. QED  BY <1>1, <2>2
<1>4. m \in Seq(S) /\ Len(m) = 1 /\ m[1] = e
  OBVIOUS
<1> HIDE DEF l, m, r
<1>5. /\ l \o m \in Seq(S) /\ Len(l \o m) = a + 1
      /\ \A i \in 1..(a + 1) : (l \o m)[i] = IF i <= a THEN l[i] ELSE m[i - a]
  <2>1. /\ l \o m \in Seq(S) /\ Len(l \o m) = Len(l) + Len(m)
        /\ \A i \in 1..(Len(l) + Len(m)) :
              (l \o m)[i] = IF i <= Len(l) THEN l[i] ELSE m[i - Len(l)]
    BY <1>2, <1>4, ConcatProperties
  <2>2. QED  BY <1>2, <1>4, <2>1
<1>6. /\ (l \o m) \o r \in Seq(S) /\ Len((l \o m) \o r) = a + 1 + Len(r)
      /\ \A i \in 1..(a + 1 + Len(r)) :
            ((l \o m) \o r)[i] = IF i <= a + 1 THEN (l \o m)[i] ELSE r[i - (a + 1)]
  <2>1. /\ (l \o m) \o r \in Seq(S) /\ Len((l \o m) \o r) = Len(l \o m) + Len(r)
        /\ \A i \in 1..(Len(l \o m) + Len(r)) :
              ((l \o m) \o r)[i] =
                 IF i <= Len(l \o m) THEN (l \o m)[i] ELSE r[i - Len(l \o m)]
    BY <1>3, <1>5, ConcatProperties
  <2>2. QED  BY <1>5, <2>1
<1>7. a + 1 + Len(r) = Len(s) + 1
  BY <1>1, <1>3
<1>8. ASSUME NEW i \in 1..(Len(s) + 1)
      PROVE  ((l \o m) \o r)[i] = IF i <= a THEN s[i] ELSE IF i = a + 1 THEN e ELSE s[i - 1]
  <2>1. CASE i <= a
    <3>1. i \in 1..a /\ i \in 1..(a + 1) /\ i <= a + 1
      BY <1>1, <2>1
    <3>2. QED  BY <1>2, <1>5, <1>6, <1>7, <2>1, <3>1
  <2>2. CASE i = a + 1
    <3>1. i \in 1..(a + 1) /\ i <= a + 1 /\ ~(i <= a) /\ i - a = 1
      BY <1>1, <2>2
    <3>2. QED  BY <1>4, <1>5, <1>6, <1>7, <2>2, <3>1
  <2>3. CASE i > a + 1
    <3>1. i - (a + 1) \in 1..(Len(s) - a) /\ ~(i <= a + 1) /\ ~(i <= a) /\ i # a + 1
          /\ a + (i - (a + 1)) = i - 1
      BY <1>1, <2>3
    <3>2. QED  BY <1>3, <1>6, <1>7, <3>1
  <2>4. i <= a \/ i = a + 1 \/ i > a + 1
    BY <1>1
  <2>5. QED  BY <2>1, <2>2, <2>3, <2>4
<1>9. InsertAt(s, a + 1, e) = (l \o m) \o r
  <2>1. (a + 1) - 1 = a
    BY <1>1
  <2>2. SubSeq(s, 1, (a + 1) - 1) = l
    BY <2>1 DEF l
  <2>3. InsertAt(s, a + 1, e) = SubSeq(s, 1, (a + 1) - 1) \o <<e>> \o SubSeq(s, a + 1, Len(s))
    BY DEF InsertAt
  <2>4. QED  BY <2>2, <2>3 DEF m, r
<1>10. QED  BY <1>6, <1>7, <1>8, <1>9 DEF Inserted

LEMMA BeforeFacts ==
    ASSUME NEW S, NEW s \in Seq(S), NEW e
    PROVE  /\ Before(s, e) \in 0..Len(s)
           /\ e \in ToSet(s) => Before(s, e) \in 1..Len(s) /\ s[Before(s, e)] = e
           /\ e \notin ToSet(s) => Before(s, e) = 0
<1>1. DOMAIN s = 1..Len(s) /\ Len(s) \in Nat
  BY LenProperties
<1>2. CASE e \in ToSet(s)
  <2>1. \E i \in DOMAIN s : s[i] = e
    BY <1>2 DEF ToSet
  <2>2. Before(s, e) \in DOMAIN s /\ s[Before(s, e)] = e
    BY <1>2, <2>1 DEF Before
  <2>3. QED  BY <1>1, <1>2, <2>2
<1>3. CASE e \notin ToSet(s)
  BY <1>1, <1>3 DEF Before
<1>4. QED  BY <1>2, <1>3

(* MetamodFirst moves one path, to its place.                              *)
LEMMA MetamodFirstFacts ==
    ASSUME NEW paths \in Seq(Mounts), Distinct(paths)
    PROVE  /\ metamodFirst(paths) \in Seq(Mounts) /\ Distinct(metamodFirst(paths))
           /\ ToSet(metamodFirst(paths)) = ToSet(paths) /\ Ordered(metamodFirst(paths))
<1>1. DOMAIN paths = 1..Len(paths) /\ Len(paths) \in Nat
  BY LenProperties
<1>2. CASE "metamod" \notin ToSet(paths)
  <2>1. Ordered(paths)
    BY <1>2 DEF Ordered, ToSet
  <2>2. metamodFirst(paths) = paths
    BY <1>2 DEF metamodFirst
  <2>3. QED  BY <2>1, <2>2
<1>3. CASE "metamod" \in ToSet(paths)
  <2> DEFINE n == Len(paths)
             m == Before(paths, "metamod")
             rest == RemoveAt(paths, m)
             a == Before(rest, "backups")
             out == InsertAt(rest, a + 1, "metamod")
  <2>1. metamodFirst(paths) = out
    BY <1>3 DEF metamodFirst
  <2>2. m \in 1..n /\ paths[m] = "metamod"
    BY <1>3, BeforeFacts
  <2>3. \A i \in 1..n : paths[i] = "metamod" => i = m
    BY <1>1, <2>2 DEF Distinct
  <2> HIDE DEF m
  <2>4. /\ rest \in Seq(Mounts) /\ Len(rest) = n - 1
        /\ \A i \in 1..(n - 1) : rest[i] = IF i < m THEN paths[i] ELSE paths[i + 1]
    BY <2>2, RemoveAtFacts
  <2> HIDE DEF rest
  <2>5. DOMAIN rest = 1..(n - 1)
    BY <2>4, LenProperties
  <2>6. ASSUME NEW i \in 1..(n - 1) PROVE rest[i] # "metamod"
    <3>1. i \in 1..n /\ i + 1 \in 1..n
      BY <1>1
    <3>2. CASE i < m
      BY <1>1, <2>2, <2>3, <2>4, <3>1, <3>2
    <3>3. CASE ~(i < m)
      BY <1>1, <2>2, <2>3, <2>4, <3>1, <3>3
    <3>4. QED  BY <3>2, <3>3
  <2>7. ASSUME NEW i \in 1..(n - 1), NEW j \in 1..(n - 1), rest[i] = rest[j] PROVE i = j
    <3> DEFINE pos(k) == IF k < m THEN k ELSE k + 1
    <3>1. pos(i) \in 1..n /\ pos(j) \in 1..n
      BY <1>1
    <3>2. rest[i] = paths[pos(i)] /\ rest[j] = paths[pos(j)]
      BY <2>4
    <3>3. pos(i) = pos(j)
      BY <1>1, <2>7, <3>1, <3>2 DEF Distinct
    <3>4. QED  BY <1>1, <2>2, <3>3
  <2>8. /\ a \in 0..(n - 1) /\ (a = 0 <=> "backups" \notin ToSet(rest))
        /\ a # 0 => rest[a] = "backups"
    BY <1>1, <2>4, BeforeFacts
  <2> HIDE DEF a
  <2>9. "metamod" \in Mounts
    BY DEF Mounts
  <2>10. /\ out \in Seq(Mounts) /\ Len(out) = n
         /\ \A i \in 1..n : out[i] = IF i <= a THEN rest[i]
                                    ELSE IF i = a + 1 THEN "metamod" ELSE rest[i - 1]
    <3>1. /\ out \in Seq(Mounts) /\ Len(out) = (n - 1) + 1
          /\ \A i \in 1..((n - 1) + 1) : out[i] = IF i <= a THEN rest[i]
                                    ELSE IF i = a + 1 THEN "metamod" ELSE rest[i - 1]
      <4>1. a \in 0..Len(rest)
        BY <2>4, <2>8
      <4>2. /\ out \in Seq(Mounts) /\ Len(out) = Len(rest) + 1
            /\ \A i \in 1..(Len(rest) + 1) : out[i] = IF i <= a THEN rest[i]
                                    ELSE IF i = a + 1 THEN "metamod" ELSE rest[i - 1]
        <5>1. rest \in Seq(Mounts)
          BY <2>4
        <5>2. out \in Seq(Mounts) /\ Inserted(out, rest, a, "metamod")
          BY <2>9, <4>1, <5>1, InsertAtFacts
        <5> HIDE DEF out
        <5>3. QED  BY <5>2 DEF Inserted
      <4> HIDE DEF out
      <4>3. QED  BY <2>4, <4>2
    <3> HIDE DEF out
    <3>2. (n - 1) + 1 = n
      BY <1>1
    <3>3. QED  BY <3>1, <3>2
  <2> HIDE DEF out, n
  <2>11. DOMAIN out = 1..n /\ n \in Nat /\ n >= 1
    BY <1>1, <2>2, <2>10, LenProperties DEF n
  <2>12. \A i \in 1..n :
            \/ i \in 1..a /\ i \in 1..(n - 1) /\ out[i] = rest[i]
            \/ i = a + 1 /\ out[i] = "metamod"
            \/ i > a + 1 /\ i - 1 \in 1..(n - 1) /\ out[i] = rest[i - 1]
    <3>1. SUFFICES ASSUME NEW i \in 1..n
                   PROVE  \/ i \in 1..a /\ i \in 1..(n - 1) /\ out[i] = rest[i]
                          \/ i = a + 1 /\ out[i] = "metamod"
                          \/ i > a + 1 /\ i - 1 \in 1..(n - 1) /\ out[i] = rest[i - 1]
      OBVIOUS
    <3>2. a \in 0..(n - 1)
      BY <2>8
    <3>3. CASE i <= a
      BY <2>10, <2>11, <3>2, <3>3
    <3>4. CASE i = a + 1
      <4>1. ~(i <= a)
        BY <2>11, <3>2, <3>4
      <4>2. QED  BY <2>10, <3>4, <4>1
    <3>5. CASE i > a + 1
      <4>1. ~(i <= a) /\ i # a + 1 /\ i - 1 \in 1..(n - 1)
        BY <2>11, <3>2, <3>5
      <4>2. QED  BY <2>10, <3>5, <4>1
    <3>6. i <= a \/ i = a + 1 \/ i > a + 1
      BY <2>11, <3>2
    <3>7. QED  BY <3>3, <3>4, <3>5, <3>6
  <2>13. \A i \in 1..n : out[i] = "metamod" => i = a + 1
    BY <2>6, <2>12
  <2>14. Distinct(out)
    <3>1. SUFFICES ASSUME NEW i \in 1..n, NEW j \in 1..n, out[i] = out[j] PROVE i = j
      BY <2>11 DEF Distinct
    <3>2. CASE out[i] = "metamod"
      BY <2>13, <3>1, <3>2
    <3>3. CASE out[i] # "metamod"
      <4> DEFINE pos(k) == IF k \in 1..a THEN k ELSE k - 1
      <4>1. /\ pos(i) \in 1..(n - 1) /\ out[i] = rest[pos(i)] /\ i # a + 1
            /\ pos(j) \in 1..(n - 1) /\ out[j] = rest[pos(j)] /\ j # a + 1
        BY <2>8, <2>11, <2>12, <3>1, <3>3
      <4>2. pos(i) = pos(j)
        BY <2>7, <3>1, <4>1
      <4>3. QED  BY <2>8, <2>11, <4>1, <4>2
    <3>4. QED  BY <3>2, <3>3
  <2>15. ToSet(out) = {"metamod"} \cup ToSet(rest)
    <3>1. \A i \in 1..n : out[i] \in {"metamod"} \cup ToSet(rest)
      BY <2>5, <2>12 DEF ToSet
    <3>2. \A i \in 1..(n - 1) : rest[i] \in ToSet(out)
      <4>1. SUFFICES ASSUME NEW i \in 1..(n - 1) PROVE \E k \in 1..n : out[k] = rest[i]
        BY <2>11 DEF ToSet
      <4>2. CASE i <= a
        <5>1. i \in 1..n
          BY <2>11
        <5>2. QED  BY <2>10, <4>2, <5>1
      <4>3. CASE ~(i <= a)
        <5>1. i + 1 \in 1..n /\ ~(i + 1 <= a) /\ i + 1 # a + 1 /\ (i + 1) - 1 = i
          BY <2>8, <2>11, <4>3
        <5>2. out[i + 1] = rest[i]
          BY <2>10, <5>1
        <5>3. QED  BY <5>1, <5>2
      <4>4. QED  BY <4>2, <4>3
    <3>3. "metamod" \in ToSet(out)
      <4>1. a + 1 \in 1..n /\ ~(a + 1 <= a)
        BY <2>8, <2>11
      <4>2. out[a + 1] = "metamod"
        BY <2>10, <4>1
      <4>3. QED  BY <2>11, <4>1, <4>2 DEF ToSet
    <3>4. ToSet(out) \subseteq {"metamod"} \cup ToSet(rest)
      BY <2>11, <3>1 DEF ToSet
    <3>5. ToSet(rest) \subseteq ToSet(out)
      BY <2>5, <3>2 DEF ToSet
    <3>6. QED  BY <3>3, <3>4, <3>5
  <2>16. ToSet(paths) = {"metamod"} \cup ToSet(rest)
    <3>1. n = Len(paths)
      BY DEF n
    <3>2. \A i \in 1..(n - 1) : rest[i] \in ToSet(paths)
      <4>1. \A i \in 1..(n - 1) : i \in 1..n /\ i + 1 \in 1..n
        BY <2>11
      <4>2. QED  BY <1>1, <2>4, <3>1, <4>1 DEF ToSet
    <3>3. \A i \in 1..n : paths[i] \in {"metamod"} \cup ToSet(rest)
      <4>1. SUFFICES ASSUME NEW i \in 1..n, i # m PROVE \E k \in 1..(n - 1) : rest[k] = paths[i]
        BY <2>2, <2>5 DEF ToSet
      <4>2. CASE i < m
        <5>1. i \in 1..(n - 1)
          BY <2>2, <2>11, <4>2
        <5>2. QED  BY <2>4, <4>2, <5>1
      <4>3. CASE i > m
        <5>1. i - 1 \in 1..(n - 1) /\ ~(i - 1 < m) /\ (i - 1) + 1 = i
          BY <2>2, <2>11, <4>3
        <5>2. QED  BY <2>4, <5>1
      <4>4. QED  BY <2>2, <4>1, <4>2, <4>3
    <3>4. ToSet(paths) \subseteq {"metamod"} \cup ToSet(rest)
      BY <1>1, <3>1, <3>3 DEF ToSet
    <3>5. ToSet(rest) \subseteq ToSet(paths)
      BY <2>5, <3>2 DEF ToSet
    <3>6. QED  BY <1>3, <3>4, <3>5
  <2>17. Ordered(out)
    <3>1. SUFFICES ASSUME NEW i \in 1..n, out[i] = "metamod"
                   PROVE  IF "backups" \in ToSet(out) THEN i > 1 /\ out[i - 1] = "backups"
                                                     ELSE i = 1
      BY <2>11 DEF Ordered
    <3>2. i = a + 1 /\ ("backups" \in ToSet(out) <=> a # 0)
      BY <2>8, <2>13, <2>15, <3>1
    <3>3. CASE a = 0
      BY <3>2, <3>3
    <3>4. CASE a # 0
      <4>1. i > 1 /\ i - 1 = a /\ a \in 1..n /\ a <= a
        BY <2>8, <2>11, <3>2, <3>4
      <4>2. out[a] = rest[a]
        BY <2>10, <4>1
      <4>3. QED  BY <2>8, <3>2, <3>4, <4>1, <4>2
    <3>5. QED  BY <3>3, <3>4
  <2>18. QED  BY <2>1, <2>10, <2>14, <2>15, <2>16, <2>17
<1>4. QED  BY <1>2, <1>3

LEMMA ConcatSet ==
    ASSUME NEW S, NEW s \in Seq(S), NEW t \in Seq(S)
    PROVE  s \o t \in Seq(S) /\ ToSet(s \o t) = ToSet(s) \cup ToSet(t)
<1>1. /\ s \o t \in Seq(S) /\ Len(s \o t) = Len(s) + Len(t)
      /\ \A i \in 1..(Len(s) + Len(t)) :
            (s \o t)[i] = IF i <= Len(s) THEN s[i] ELSE t[i - Len(s)]
  BY ConcatProperties
<1>2. /\ Len(s) \in Nat /\ DOMAIN s = 1..Len(s) /\ Len(t) \in Nat /\ DOMAIN t = 1..Len(t)
      /\ DOMAIN (s \o t) = 1..(Len(s) + Len(t))
  BY <1>1, LenProperties
<1>3. ASSUME NEW i \in 1..(Len(s) + Len(t)) PROVE (s \o t)[i] \in ToSet(s) \cup ToSet(t)
  <2>1. CASE i <= Len(s)
    BY <1>1, <1>2, <2>1 DEF ToSet
  <2>2. CASE ~(i <= Len(s))
    <3>1. i - Len(s) \in 1..Len(t)
      BY <1>2, <2>2
    <3>2. QED  BY <1>1, <1>2, <2>2, <3>1 DEF ToSet
  <2>3. QED  BY <2>1, <2>2
<1>4. ASSUME NEW i \in 1..Len(s) PROVE s[i] \in ToSet(s \o t)
  <2>1. i \in 1..(Len(s) + Len(t)) /\ (s \o t)[i] = s[i]
    BY <1>1, <1>2
  <2>2. QED  BY <1>2, <2>1 DEF ToSet
<1>5. ASSUME NEW i \in 1..Len(t) PROVE t[i] \in ToSet(s \o t)
  <2>1. i + Len(s) \in 1..(Len(s) + Len(t)) /\ ~(i + Len(s) <= Len(s)) /\ (i + Len(s)) - Len(s) = i
    BY <1>2
  <2>2. (s \o t)[i + Len(s)] = t[i]
    BY <1>1, <2>1
  <2>3. QED  BY <1>2, <2>1, <2>2 DEF ToSet
<1>6. ToSet(s \o t) \subseteq ToSet(s) \cup ToSet(t)
  BY <1>2, <1>3 DEF ToSet
<1>7. ToSet(s) \subseteq ToSet(s \o t) /\ ToSet(t) \subseteq ToSet(s \o t)
  BY <1>2, <1>4, <1>5 DEF ToSet
<1>8. QED  BY <1>1, <1>6, <1>7

(* A path is added once, at the top; that is no harm to the order when it  *)
(* is backups.                                                             *)
LEMMA AddFacts ==
    ASSUME NEW paths \in Seq(Mounts), Distinct(paths), NEW addon \in Mounts
    PROVE  /\ addGamePath(paths, addon) \in Seq(Mounts) /\ Distinct(addGamePath(paths, addon))
           /\ ToSet(addGamePath(paths, addon)) = ToSet(paths) \cup {addon}
           /\ addon = "backups" /\ Ordered(paths) => Ordered(addGamePath(paths, addon))
<1>1. CASE addon \in ToSet(paths)
  BY <1>1 DEF addGamePath
<1>2. CASE addon \notin ToSet(paths)
  <2> DEFINE one == <<addon>>
             out == one \o paths
  <2>1. addGamePath(paths, addon) = out
    BY <1>2 DEF addGamePath
  <2>2. one \in Seq(Mounts) /\ Len(one) = 1 /\ one[1] = addon /\ ToSet(one) = {addon}
    BY DEF ToSet
  <2> HIDE DEF one
  <2>3. out \in Seq(Mounts) /\ ToSet(out) = {addon} \cup ToSet(paths)
    BY <2>2, ConcatSet
  <2>4. Len(paths) \in Nat /\ DOMAIN paths = 1..Len(paths)
    BY LenProperties
  <2>5. /\ DOMAIN out = 1..(1 + Len(paths)) /\ out[1] = addon
        /\ \A i \in 1..Len(paths) : out[i + 1] = paths[i]
    <3>1. /\ Len(out) = Len(one) + Len(paths)
          /\ \A i \in 1..(Len(one) + Len(paths)) :
                out[i] = IF i <= Len(one) THEN one[i] ELSE paths[i - Len(one)]
      BY <2>2, ConcatProperties
    <3>2. DOMAIN out = 1..Len(out)
      BY <2>3, LenProperties
    <3>3. \A i \in 1..Len(paths) : i + 1 \in 1..(1 + Len(paths)) /\ ~(i + 1 <= 1) /\ (i + 1) - 1 = i
      BY <2>4
    <3>4. 1 \in 1..(1 + Len(paths))
      BY <2>4
    <3>5. \A i \in 1..Len(paths) : out[i + 1] = paths[i]
      BY <2>2, <3>1, <3>3
    <3>6. QED  BY <2>2, <3>1, <3>2, <3>4, <3>5
  <2> HIDE DEF out
  <2>6. \A i \in 1..(1 + Len(paths)) : i = 1 \/ (i - 1 \in 1..Len(paths) /\ out[i] = paths[i - 1])
    <3>1. \A i \in 1..(1 + Len(paths)) : i = 1 \/ (i - 1 \in 1..Len(paths) /\ (i - 1) + 1 = i)
      BY <2>4
    <3>2. QED  BY <2>5, <3>1
  <2>7. \A i \in 1..Len(paths) : paths[i] # addon
    BY <1>2, <2>4 DEF ToSet
  <2>8. Distinct(out)
    <3>1. SUFFICES ASSUME NEW i \in 1..(1 + Len(paths)), NEW j \in 1..(1 + Len(paths)),
                          out[i] = out[j]
                   PROVE  i = j
      BY <2>5 DEF Distinct
    <3>2. i = 1 <=> j = 1
      BY <2>5, <2>6, <2>7, <3>1
    <3>3. CASE i # 1 /\ j # 1
      <4>1. /\ i - 1 \in 1..Len(paths) /\ j - 1 \in 1..Len(paths)
            /\ paths[i - 1] = paths[j - 1]
        BY <2>6, <3>1, <3>3
      <4>2. i - 1 = j - 1
        BY <2>4, <4>1 DEF Distinct
      <4>3. QED  BY <2>4, <4>2
    <3>4. QED  BY <3>2, <3>3
  <2>9. addon = "backups" /\ Ordered(paths) => Ordered(out)
    <3>1. SUFFICES ASSUME addon = "backups", Ordered(paths),
                          NEW i \in 1..(1 + Len(paths)), out[i] = "metamod"
                   PROVE  i > 1 /\ out[i - 1] = "backups"
      BY <2>3, <2>5 DEF Ordered
    <3>2. i # 1
      BY <2>5, <3>1
    <3>3. i - 1 \in 1..Len(paths) /\ paths[i - 1] = "metamod"
      BY <2>6, <3>1, <3>2
    <3>4. i - 1 = 1
      BY <1>2, <2>4, <3>1, <3>3 DEF Ordered
    <3>5. QED  BY <2>4, <2>5, <3>1, <3>4
  <2>10. QED  BY <2>1, <2>3, <2>8, <2>9
<1>3. QED  BY <1>1, <1>2

(* What is left of the edits when the next one is done.                    *)
LEMMA TailFacts ==
    ASSUME NEW todo \in Seq(Edits), todo # <<>>
    PROVE  /\ Tail(todo) \in Seq(Edits) /\ Head(todo) \in Edits
           /\ ToSet(todo) = {Head(todo)} \cup ToSet(Tail(todo))
           /\ Sorted(todo) =>
                 /\ Sorted(Tail(todo))
                 /\ Head(todo) = "first" => ToSet(Tail(todo)) \subseteq {"backups", "token"}
<1>1. /\ Head(todo) \in Edits /\ Tail(todo) \in Seq(Edits) /\ Len(Tail(todo)) = Len(todo) - 1
      /\ \A i \in 1..Len(Tail(todo)) : Tail(todo)[i] = todo[i + 1]
  BY HeadTailProperties
<1>2. Len(todo) \in Nat /\ Len(todo) >= 1 /\ DOMAIN todo = 1..Len(todo) /\ Head(todo) = todo[1]
  BY LenProperties, EmptySeq
<1>3. DOMAIN Tail(todo) = 1..(Len(todo) - 1)
  BY <1>1, LenProperties
<1>4. /\ \A i \in 1..(Len(todo) - 1) : i + 1 \in 1..Len(todo) /\ Tail(todo)[i] = todo[i + 1]
      /\ \A i \in 1..Len(todo) : i = 1 \/ (i - 1 \in 1..(Len(todo) - 1) /\ (i - 1) + 1 = i)
      /\ 1 \in 1..Len(todo)
  BY <1>1, <1>2
<1>5. ToSet(todo) = {Head(todo)} \cup ToSet(Tail(todo))
  <2>1. \A i \in 1..Len(todo) : todo[i] \in {Head(todo)} \cup ToSet(Tail(todo))
    <3>1. \A i \in 1..(Len(todo) - 1) : Tail(todo)[i] \in ToSet(Tail(todo))
      BY <1>3 DEF ToSet
    <3>2. QED  BY <1>2, <1>4, <3>1
  <2>2. Head(todo) \in ToSet(todo) /\ \A i \in 1..(Len(todo) - 1) : Tail(todo)[i] \in ToSet(todo)
    BY <1>2, <1>4 DEF ToSet
  <2>3. ToSet(todo) \subseteq {Head(todo)} \cup ToSet(Tail(todo))
    BY <1>2, <2>1 DEF ToSet
  <2>4. ToSet(Tail(todo)) \subseteq ToSet(todo)
    BY <1>3, <2>2 DEF ToSet
  <2>5. QED  BY <2>2, <2>3, <2>4
<1>6. ASSUME Sorted(todo), Head(todo) = "first"
      PROVE  ToSet(Tail(todo)) \subseteq {"backups", "token"}
  <2>1. \A i \in 1..(Len(todo) - 1) : 1 < i + 1
    BY <1>2
  <2>2. \A i \in 1..(Len(todo) - 1) : todo[i + 1] \in {"backups", "token"}
    BY <1>2, <1>4, <1>6, <2>1 DEF Sorted
  <2>3. QED  BY <1>3, <1>4, <2>2 DEF ToSet
<1>7. ASSUME Sorted(todo) PROVE Sorted(Tail(todo))
  <2>1. ASSUME NEW i \in DOMAIN Tail(todo), NEW j \in DOMAIN Tail(todo),
               Tail(todo)[i] = "first", i < j
        PROVE  Tail(todo)[j] \in {"backups", "token"}
    <3>1. i + 1 \in DOMAIN todo /\ j + 1 \in DOMAIN todo /\ i + 1 < j + 1
      BY <1>2, <1>3, <2>1
    <3>2. todo[i + 1] = "first" /\ Tail(todo)[j] = todo[j + 1]
      BY <1>3, <1>4, <2>1
    <3>3. QED  BY <1>7, <3>1, <3>2 DEF Sorted
  <2>2. "first" \notin ToSet(Tail(todo)) => ToSet(Tail(todo)) \subseteq {"backups", "token"}
    BY <1>5, <1>6, <1>7 DEF Sorted
  <2>3. QED  BY <2>1, <2>2 DEF Sorted
<1>8. QED  BY <1>1, <1>5, <1>6, <1>7

(* The edits of a boot.                                                    *)
LEMMA EditsFacts ==
    ASSUME NEW sel \in SUBSET Switches, NEW a \in {<<>>, <<"metamod">>},
           "metamod" \in sel => a = <<"metamod">>,
           NEW todo, todo = a \o If("swiftlys2" \in sel, "swiftlys2") \o If("sharp" \in sel, "sharp")
                              \o <<"first", "backups", "token">>
    PROVE  /\ todo \in Seq(Edits) /\ Sorted(todo)
           /\ {"backups", "first"} \cup (sel \cap Mounts) \subseteq ToSet(todo)
<1> DEFINE b == If("swiftlys2" \in sel, "swiftlys2")
           c == If("sharp" \in sel, "sharp")
           adds == (a \o b) \o c
           last == <<"first", "backups", "token">>
<1>1. /\ a \in Seq(Mounts) /\ ("metamod" \in sel => "metamod" \in ToSet(a))
      /\ b \in Seq(Mounts) /\ ("swiftlys2" \in sel => "swiftlys2" \in ToSet(b))
      /\ c \in Seq(Mounts) /\ ("sharp" \in sel => "sharp" \in ToSet(c))
  <2>1. \A x \in Mounts : /\ <<>> \in Seq(Mounts) /\ <<x>> \in Seq(Mounts)
                         /\ x \in ToSet(<<x>>)
    BY DEF ToSet
  <2>2. QED  BY <2>1 DEF If, Mounts
<1> HIDE DEF b, c
<1>2. a \o b \in Seq(Mounts) /\ ToSet(a \o b) = ToSet(a) \cup ToSet(b)
  BY <1>1, ConcatSet
<1>3. adds \in Seq(Mounts) /\ ToSet(adds) = (ToSet(a) \cup ToSet(b)) \cup ToSet(c)
  <2>1. \A s, t \in Seq(Mounts) : s \o t \in Seq(Mounts) /\ ToSet(s \o t) = ToSet(s) \cup ToSet(t)
    BY ConcatSet
  <2>2. adds \in Seq(Mounts) /\ ToSet(adds) = ToSet(a \o b) \cup ToSet(c)
    BY <1>1, <1>2, <2>1, Zenon
  <2>3. QED  BY <1>2, <2>2
<1> HIDE DEF adds
<1>4. todo = adds \o last
  BY DEF adds, b, c
<1>5. Mounts \subseteq Edits /\ {"first", "backups", "token"} \subseteq Edits
  BY DEF Mounts, Edits
<1>6. adds \in Seq(Edits) /\ \A i \in 1..Len(adds) : adds[i] \in Mounts
  BY <1>3, <1>5, SeqMonotonic, ElementOfSeq
<1>7. /\ last \in Seq(Edits) /\ Len(last) = 3
      /\ last[1] = "first" /\ last[2] = "backups" /\ last[3] = "token"
  BY <1>5
<1>8. ToSet(last) = {"first", "backups", "token"}
  BY DEF ToSet
<1> HIDE DEF last
<1>9. todo \in Seq(Edits) /\ ToSet(todo) = ToSet(adds) \cup ToSet(last)
  <2>1. \A s, t \in Seq(Edits) : s \o t \in Seq(Edits) /\ ToSet(s \o t) = ToSet(s) \cup ToSet(t)
    BY ConcatSet
  <2>2. adds \o last \in Seq(Edits) /\ ToSet(adds \o last) = ToSet(adds) \cup ToSet(last)
    BY <1>6, <1>7, <2>1
  <2>3. QED  BY <1>4, <2>2
<1>10. {"backups", "first"} \cup (sel \cap Mounts) \subseteq ToSet(todo)
  BY <1>1, <1>3, <1>8, <1>9 DEF Switches, Mounts
<1>11. Sorted(todo)
  <2>1. Len(adds) \in Nat
    BY <1>6, LenProperties
  <2>2. /\ Len(todo) = Len(adds) + 3
        /\ \A i \in 1..(Len(adds) + 3) :
              todo[i] = IF i <= Len(adds) THEN adds[i] ELSE last[i - Len(adds)]
    <3>1. /\ Len(adds \o last) = Len(adds) + Len(last)
          /\ \A i \in 1..(Len(adds) + Len(last)) :
                (adds \o last)[i] = IF i <= Len(adds) THEN adds[i] ELSE last[i - Len(adds)]
      BY <1>6, <1>7, ConcatProperties
    <3>2. QED  BY <1>4, <1>7, <3>1
  <2>3. DOMAIN todo = 1..(Len(adds) + 3)
    BY <1>9, <2>2, LenProperties
  <2>4. \A i \in 1..Len(adds) : adds[i] # "first"
    BY <1>6 DEF Mounts
  <2>5. ASSUME NEW i \in DOMAIN todo, NEW j \in DOMAIN todo, todo[i] = "first", i < j
        PROVE  todo[j] \in {"backups", "token"}
    <3>1. ~(i <= Len(adds))
      <4>1. SUFFICES ASSUME i <= Len(adds) PROVE FALSE
        OBVIOUS
      <4>2. i \in 1..Len(adds) /\ todo[i] = adds[i]
        <5>1. i \in 1..(Len(adds) + 3) /\ i \in Nat
          BY <2>1, <2>3
        <5>2. i \in 1..Len(adds)
          BY <2>1, <4>1, <5>1
        <5>3. QED  BY <2>2, <4>1, <5>1, <5>2
      <4>3. QED  BY <2>4, <2>5, <4>2
    <3>2. ~(j <= Len(adds)) /\ j - Len(adds) \in {2, 3}
      BY <2>1, <2>3, <2>5, <3>1
    <3>3. todo[j] = last[j - Len(adds)]
      BY <2>2, <2>3, <3>2
    <3>4. QED  BY <1>7, <3>2, <3>3
  <2>6. QED  BY <1>10, <2>5 DEF Sorted
<1>12. QED  BY <1>9, <1>10, <1>11

LEMMA EditedFacts ==
    ASSUME BootSeqs, Distinct(mounted), NEW what \in Edits
    PROVE  /\ Edited(what) \in Seq(Mounts) /\ Distinct(Edited(what))
           /\ ToSet(mounted) \subseteq ToSet(Edited(what))
           /\ what \in Mounts => what \in ToSet(Edited(what))
           /\ what = "first" => Ordered(Edited(what))
           /\ what \in {"backups", "token"} /\ Ordered(mounted) => Ordered(Edited(what))
<1>1. mounted \in Seq(Mounts)
  BY DEF BootSeqs
<1>2. CASE what = "first"
  <2>1. Edited(what) = metamodFirst(mounted) /\ what \notin Mounts /\ what \notin {"backups", "token"}
    BY <1>2 DEF Edited, Mounts
  <2>2. QED  BY <1>1, <2>1, MetamodFirstFacts
<1>3. CASE what = "token"
  <2>1. Edited(what) = mounted /\ what \notin Mounts /\ what # "first"
    BY <1>3 DEF Edited, Mounts
  <2>2. QED  BY <1>1, <2>1
<1>4. CASE what \in Mounts
  <2>1. Edited(what) = addGamePath(mounted, what) /\ what # "first" /\ what # "token"
    BY <1>4 DEF Edited, Mounts
  <2>2. QED  BY <1>1, <1>4, <2>1, AddFacts
<1>5. QED  BY <1>2, <1>3, <1>4 DEF Edits

(* One edit less to come: done, or with nothing to do, or failed.          *)
LEMMA DoneHolds ==
    ASSUME BootInv, booting.at \in {"edits", "writes"}, booting.todo # <<>>,
           NEW missed \in BOOLEAN, Done(missed),
           \/ missed /\ mounted' = mounted
           \/ booting.at = "edits" /\ info # "whole" /\ info' = info /\ mounted' = mounted
           \/ /\ booting.at = "writes" \/ info = "whole"
              /\ mounted' = Edited(Head(booting.todo))
    PROVE  BootInv'
<1> DEFINE coming == Head(booting.todo)
<1>1. BootSeqs /\ BootSoFar /\ Distinct(mounted) /\ Sorted(booting.todo) /\ mounted \in Seq(Mounts)
  BY DEF BootInv, BootSeqs
<1>2. /\ booting'.at = "edits" /\ booting'.sel = booting.sel /\ booting'.todo = Tail(booting.todo)
      /\ booting'.missed = (booting.missed \/ missed)
      /\ booting.todo \in Seq(Edits) /\ booting.missed \in BOOLEAN
  BY <1>1 DEF Done, BootSeqs
<1>3. /\ Tail(booting.todo) \in Seq(Edits) /\ coming \in Edits
      /\ ToSet(booting.todo) = {coming} \cup ToSet(Tail(booting.todo))
      /\ Sorted(Tail(booting.todo))
      /\ coming = "first" => ToSet(Tail(booting.todo)) \subseteq {"backups", "token"}
  BY <1>1, <1>2, TailFacts
<1>4. /\ Edited(coming) \in Seq(Mounts) /\ Distinct(Edited(coming))
      /\ ToSet(mounted) \subseteq ToSet(Edited(coming))
      /\ coming \in Mounts => coming \in ToSet(Edited(coming))
      /\ coming = "first" => Ordered(Edited(coming))
      /\ coming \in {"backups", "token"} /\ Ordered(mounted) => Ordered(Edited(coming))
  BY <1>1, <1>3, EditedFacts
<1>5. mounted' \in Seq(Mounts) /\ Distinct(mounted)'
  BY <1>1, <1>4 DEF Distinct
<1>6. BootSeqs'
  BY <1>1, <1>3, <1>5 DEF Done, BootSeqs
<1>7. BootSoFar'
  <2>1. CASE missed
    BY <1>2, <2>1 DEF BootSoFar
  <2>2. CASE booting.at = "edits" /\ info # "whole" /\ info' = info
    BY <1>2, <2>2 DEF BootSoFar
  <2>3. CASE ~missed /\ (booting.at = "writes" \/ info = "whole") /\ mounted' = Edited(coming)
    <3>1. SUFFICES ASSUME ~booting.missed
                   PROVE  /\ {"backups"} \cup (booting.sel \cap Mounts)
                                \subseteq ToSet(Edited(coming)) \cup ToSet(Tail(booting.todo))
                          /\ "first" \notin ToSet(Tail(booting.todo)) => Ordered(Edited(coming))
      BY <1>2, <2>3 DEF BootSoFar, Ordered
    <3>2. /\ {"backups"} \cup (booting.sel \cap Mounts) \subseteq ToSet(mounted) \cup ToSet(booting.todo)
          /\ "first" \notin ToSet(booting.todo) => Ordered(mounted)
      BY <1>1, <2>3, <3>1 DEF BootSoFar
    <3>3. "backups" \in Mounts
      BY DEF Mounts
    <3>4. {"backups"} \cup (booting.sel \cap Mounts)
             \subseteq ToSet(Edited(coming)) \cup ToSet(Tail(booting.todo))
      BY <1>3, <1>4, <3>2, <3>3
    <3>5. ASSUME "first" \notin ToSet(Tail(booting.todo)) PROVE Ordered(Edited(coming))
      <4>1. CASE coming = "first"
        BY <1>4, <4>1
      <4>2. CASE coming # "first"
        <5>1. "first" \notin ToSet(booting.todo)
          BY <1>3, <3>5, <4>2
        <5>2. coming \in {"backups", "token"}
          BY <1>1, <1>3, <5>1 DEF Sorted
        <5>3. QED  BY <1>4, <3>2, <5>1, <5>2
      <4>3. QED  BY <4>1, <4>2
    <3>6. QED  BY <3>4, <3>5
  <2>4. QED  BY <2>1, <2>2, <2>3
<1>8. Sorted(booting'.todo)
  BY <1>2, <1>3
<1>9. QED  BY <1>2, <1>5, <1>6, <1>7, <1>8 DEF BootInv, Sorted

(* A step before the edits, or one that only moves on.                     *)
LEMMA EarlyHolds ==
    ASSUME BootInv, BootSeqs',
           booting'.at \in {"off", "asks", "stale", "prune", "install", "update", "addons"},
           mounted' = mounted \/ mounted' = <<>>
    PROVE  BootInv'
<1>1. Distinct(mounted)'
  <2>1. Distinct(mounted) /\ Distinct(<<>>)
    BY DEF BootInv, Distinct
  <2>2. QED  BY <2>1 DEF Distinct
<1>2. BootSoFar'
  BY DEF BootSoFar
<1>3. QED  BY <1>1, <1>2 DEF BootInv

LEMMA BootStepHolds == BootInv /\ [EggBootNext]_bootVars => BootInv'
<1> SUFFICES ASSUME BootInv, [EggBootNext]_bootVars PROVE BootInv'
  OBVIOUS
<1>1. BootSeqs /\ mounted \in Seq(Mounts) /\ <<>> \in Seq(Mounts) /\ <<>> \in Seq(Edits)
  BY DEF BootInv, BootSeqs
<1>2. CASE boots
  <2>1. \A sel \in Selections : sel \in SUBSET Switches
    BY BootAssumption
  <2>2. BootSeqs' /\ booting'.at = "asks" /\ mounted' = mounted
    <3>1. PICK sel \in Selections : booting' = [Off EXCEPT !.at = "asks", !.sel = sel]
      BY <1>2 DEF boots
    <3>2. booting' = [at |-> "asks", sel |-> sel, todo |-> <<>>, missed |-> FALSE]
      BY <3>1 DEF Off
    <3>3. sel \in SUBSET Switches /\ mounted' = mounted
      BY <1>2, <2>1 DEF boots, gameinfo
    <3>4. QED  BY <1>1, <3>2, <3>3 DEF BootSeqs
  <2>3. QED  BY <2>2, EarlyHolds
<1>3. CASE handshake
  <2>1. BootSeqs' /\ booting'.at \in {"prune", "stale"} /\ (mounted' = mounted \/ mounted' = <<>>)
    BY <1>1, <1>3 DEF handshake, GoesTo, BootSeqs, gameinfo
  <2>2. QED  BY <2>1, EarlyHolds
<1>4. CASE removeStale
  <2>1. BootSeqs' /\ booting'.at = "addons" /\ mounted' = mounted
    BY <1>1, <1>4 DEF removeStale, GoesTo, BootSeqs, gameinfo
  <2>2. QED  BY <2>1, EarlyHolds
<1>5. CASE pruneBrokenVPKLinks
  <2>1. BootSeqs' /\ booting'.at \in {"install", "addons"} /\ mounted' = mounted
    BY <1>1, <1>5 DEF pruneBrokenVPKLinks, GoesTo, BootSeqs, gameinfo
  <2>2. QED  BY <2>1, EarlyHolds
<1>6. CASE Install
  <2>1. BootSeqs' /\ booting'.at = "update" /\ mounted' = mounted
    BY <1>1, <1>6 DEF Install, GoesTo, BootSeqs, gameinfo
  <2>2. QED  BY <2>1, EarlyHolds
<1>7. CASE Update
  <2>1. BootSeqs' /\ booting'.at = "addons" /\ (mounted' = mounted \/ mounted' = <<>>)
    BY <1>1, <1>7 DEF Update, GoesTo, BootSeqs, gameinfo
  <2>2. QED  BY <2>1, EarlyHolds
<1>8. CASE UpdateAll
  <2> DEFINE todo == If("metamod" \in booting.sel \/ ("css" \in booting.sel /\ metaDir), "metamod")
                       \o If("swiftlys2" \in booting.sel, "swiftlys2")
                       \o If("sharp" \in booting.sel, "sharp") \o <<"first", "backups", "token">>
  <2>1. booting.sel \in SUBSET Switches
    BY <1>1 DEF BootSeqs
  <2>2. /\ todo \in Seq(Edits) /\ Sorted(todo)
        /\ {"backups", "first"} \cup (booting.sel \cap Mounts) \subseteq ToSet(todo)
    <3> DEFINE first == If("metamod" \in booting.sel \/ ("css" \in booting.sel /\ metaDir), "metamod")
    <3>1. /\ first \in {<<>>, <<"metamod">>}
          /\ "metamod" \in booting.sel => first = <<"metamod">>
      BY DEF If
    <3> HIDE DEF first
    <3>2. todo = first \o If("swiftlys2" \in booting.sel, "swiftlys2")
                   \o If("sharp" \in booting.sel, "sharp") \o <<"first", "backups", "token">>
      BY DEF first
    <3> HIDE DEF todo
    <3>3. \A list : list = first \o If("swiftlys2" \in booting.sel, "swiftlys2")
                      \o If("sharp" \in booting.sel, "sharp") \o <<"first", "backups", "token">> =>
             /\ list \in Seq(Edits) /\ Sorted(list)
             /\ {"backups", "first"} \cup (booting.sel \cap Mounts) \subseteq ToSet(list)
      <4> DEFINE sel == booting.sel
      <4>1. sel \in SUBSET Switches /\ ("metamod" \in sel => first = <<"metamod">>)
        BY <2>1, <3>1
      <4> HIDE DEF sel
      <4>2. \A list : list = first \o If("swiftlys2" \in sel, "swiftlys2")
                        \o If("sharp" \in sel, "sharp") \o <<"first", "backups", "token">> =>
               /\ list \in Seq(Edits) /\ Sorted(list)
               /\ {"backups", "first"} \cup (sel \cap Mounts) \subseteq ToSet(list)
        BY <3>1, <4>1, EditsFacts
      <4>3. QED  BY <4>2 DEF sel
    <3>4. QED  BY <3>2, <3>3
  <2> HIDE DEF todo
  <2>3. booting' = [booting EXCEPT !.at = "edits", !.todo = todo] /\ UNCHANGED <<vpks, steam, gameinfo>>
    BY <1>8 DEF UpdateAll, todo
  <2>4. /\ booting'.at = "edits" /\ booting'.sel = booting.sel /\ booting'.todo = todo
        /\ mounted' = mounted /\ BootSeqs'
    BY <1>1, <2>2, <2>3 DEF BootSeqs, gameinfo
  <2>5. BootSoFar'
    BY <2>2, <2>4 DEF BootSoFar
  <2>6. QED  BY <2>2, <2>4, <2>5 DEF BootInv, Sorted, Distinct
<1>9. CASE editLeaves
  <2> DEFINE coming == Head(booting.todo)
  <2>1. booting.at = "edits" /\ booting.todo # <<>> /\ mounted' = mounted /\ info' = info
    BY <1>9 DEF editLeaves, gameinfo
  <2>2. CASE Done(TRUE)
    BY <2>1, <2>2, DoneHolds
  <2>3. CASE Done(FALSE) /\ info # "whole"
    BY <2>1, <2>3, DoneHolds
  <2>4. CASE Done(FALSE) /\ info = "whole" /\ Edited(coming) = mounted
    BY <2>1, <2>4, DoneHolds
  <2>5. QED  BY <1>9, <2>2, <2>3, <2>4 DEF editLeaves
<1>10. CASE edit
  <2>1. /\ booting'.at = "writes" /\ booting'.sel = booting.sel /\ booting'.todo = booting.todo
        /\ booting'.missed = booting.missed /\ mounted' = mounted /\ BootSeqs'
        /\ booting.at = "edits" /\ info = "whole" /\ booting.todo # <<>>
    BY <1>1, <1>10 DEF edit, GoesTo, BootSeqs
  <2>2. BootSoFar'
    BY <2>1 DEF BootInv, BootSoFar, Ordered
  <2>3. QED  BY <2>1, <2>2 DEF BootInv, Sorted, Distinct
<1>11. CASE edited
  <2>1. booting.at = "writes" /\ booting.todo # <<>>
    BY <1>11 DEF edited, BootInv
  <2>2. CASE mounted' = Edited(Head(booting.todo)) /\ Done(FALSE)
    BY <2>1, <2>2, DoneHolds
  <2>3. CASE mounted' = mounted /\ Done(TRUE)
    BY <2>1, <2>3, DoneHolds
  <2>4. QED  BY <1>11, <2>2, <2>3 DEF edited
<1>12. CASE starts
  <2>1. /\ booting'.at = "run" /\ booting'.sel = booting.sel /\ booting'.todo = booting.todo
        /\ booting'.missed = booting.missed /\ mounted' = mounted /\ info' = info /\ BootSeqs'
        /\ booting.at = "edits" /\ booting.todo = <<>>
    BY <1>1, <1>12 DEF starts, GoesTo, BootSeqs, gameinfo
  <2>2. BootSoFar'
    BY <2>1 DEF BootInv, BootSoFar, Ordered
  <2>3. QED  BY <2>1, <2>2 DEF BootInv, Distinct
<1>13. CASE killed
  <2>1. BootSeqs' /\ booting'.at = "off" /\ mounted' = mounted
    BY <1>1, <1>13 DEF killed, Off, BootSeqs, gameinfo, Switches
  <2>2. QED  BY <2>1, EarlyHolds
<1>14. CASE linksBreak \/ UNCHANGED bootVars
  <2>1. UNCHANGED <<info, mounted, booting>>
    BY <1>14 DEF linksBreak, gameinfo, bootVars
  <2>2. QED  BY <2>1 DEF BootInv, BootSeqs, BootSoFar, Distinct, Ordered, Sorted
<1>15. QED
  BY <1>2, <1>3, <1>4, <1>5, <1>6, <1>7, <1>8, <1>9, <1>10, <1>11, <1>12, <1>13, <1>14
     DEF EggBootNext

(* What lies around gameinfo.gi, and whose switches a boot has.            *)
BootFiles ==
    /\ vpks \in {"none", "files", "links", "dangling"}
    /\ steam \in BOOLEAN /\ metaDir \in BOOLEAN
    /\ info \in {"none", "whole", "torn"}
    /\ booting.sel \in Selections \cup {{}}

LEMMA BootFilesHold ==
    ASSUME BootFiles, BootSeqs, [EggBootNext]_bootVars
    PROVE  BootFiles'
<1>1. /\ booting \in [at : {"off", "asks", "stale", "prune", "install", "update", "addons",
                            "edits", "writes", "run"},
                      sel : SUBSET Switches, todo : Seq(Edits), missed : BOOLEAN]
      /\ \A place : GoesTo(place) => booting'.sel = booting.sel
      /\ \A missed : Done(missed) => booting'.sel = booting.sel
      /\ Off.sel = {}
  BY DEF BootSeqs, GoesTo, Done, Off
<1> USE DEF BootFiles, gameinfo
<1>2. CASE boots
  <2>1. booting'.sel \in Selections
    BY <1>2 DEF boots, Off
  <2>2. QED  BY <1>2, <2>1 DEF boots
<1>3. CASE handshake
  BY <1>1, <1>3 DEF handshake
<1>4. CASE removeStale
  BY <1>1, <1>4 DEF removeStale
<1>5. CASE pruneBrokenVPKLinks
  BY <1>1, <1>5 DEF pruneBrokenVPKLinks
<1>6. CASE Install
  BY <1>1, <1>6 DEF Install
<1>7. CASE Update
  BY <1>1, <1>7 DEF Update
<1>8. CASE UpdateAll
  <2>1. booting'.sel = booting.sel
    BY <1>1, <1>8 DEF UpdateAll
  <2>2. metaDir' \in BOOLEAN
    BY <1>8 DEF UpdateAll
  <2>3. QED  BY <1>8, <2>1, <2>2 DEF UpdateAll
<1>9. CASE editLeaves
  BY <1>1, <1>9 DEF editLeaves
<1>10. CASE edit
  BY <1>1, <1>10 DEF edit
<1>11. CASE edited
  BY <1>1, <1>11 DEF edited
<1>12. CASE starts
  BY <1>1, <1>12 DEF starts
<1>13. CASE killed
  BY <1>1, <1>13 DEF killed
<1>14. CASE linksBreak
  BY <1>14 DEF linksBreak
<1>15. CASE UNCHANGED bootVars
  BY <1>15 DEF bootVars
<1>16. QED
  BY <1>2, <1>3, <1>4, <1>5, <1>6, <1>7, <1>8, <1>9, <1>10, <1>11, <1>12, <1>13, <1>14, <1>15
     DEF EggBootNext

LEMMA BootTypes == BootFiles /\ BootSeqs => BootTypeOK
<1> SUFFICES ASSUME BootFiles, BootSeqs PROVE BootTypeOK
  OBVIOUS
<1>1. \A S : \A s \in Seq(S) : ToSet(s) \subseteq S
  <2>1. \A S : \A s \in Seq(S) : DOMAIN s = 1..Len(s) /\ \A i \in 1..Len(s) : s[i] \in S
    BY LenProperties, ElementOfSeq
  <2>2. QED  BY <2>1 DEF ToSet
<1>2. ToSet(mounted) \subseteq Mounts /\ ToSet(booting.todo) \subseteq Edits
  BY <1>1 DEF BootSeqs
<1>3. QED  BY <1>2 DEF BootFiles, BootSeqs, BootTypeOK

LEMMA BootInitHolds == BootInit => BootInv /\ BootFiles
<1> SUFFICES ASSUME BootInit PROVE BootInv /\ BootFiles
  OBVIOUS
<1>1. <<>> \in Seq(Mounts) /\ <<>> \in Seq(Edits)
  OBVIOUS
<1>2. BootInv
  BY <1>1 DEF BootInit, BootInv, BootSeqs, BootSoFar, Distinct, Off
<1>3. BootFiles
  BY DEF BootInit, BootFiles, Off
<1>4. QED  BY <1>2, <1>3

LEMMA BootOrder == BootInv => MountsRepaired
<1>1. SUFFICES ASSUME BootInv, booting.at = "run", info = "whole", ~booting.missed
               PROVE  /\ {"backups"} \cup (booting.sel \cap Mounts) \subseteq ToSet(mounted)
                      /\ Distinct(mounted)
                      /\ \A i \in DOMAIN mounted : mounted[i] = "metamod" =>
                            i > 1 /\ mounted[i - 1] = "backups"
  BY DEF MountsRepaired, Distinct
<1>2. booting.todo = <<>> /\ ToSet(booting.todo) = {}
  BY <1>1 DEF BootInv, ToSet
<1>3. /\ {"backups"} \cup (booting.sel \cap Mounts) \subseteq ToSet(mounted)
      /\ Ordered(mounted)
  BY <1>1, <1>2 DEF BootInv, BootSoFar
<1>4. QED  BY <1>1, <1>3 DEF BootInv, Ordered

(* CHANGELOG.md, "anchored ahead of MetaMod for good": for any switches in *)
(* any order of boots, kills between the edits, failed writes and runs of  *)
(* SteamCMD, a boot that misses no edit and finds no file cut off by an    *)
(* earlier kill starts the server with backups mounted right before        *)
(* Metamod, with what is switched on mounted, and with nothing twice.      *)
THEOREM BootRepairsMounts == EggBootSpec => []MountsRepaired
BY BootInitHolds, BootStepHolds, BootOrder, PTL DEF EggBootSpec

-----------------------------------------------------------------------------
(* The console log *)

(* A sweep works on files of earlier days that are there; between the end  *)
(* of an archive and the removal of its file the two are the same, unless  *)
(* a late line came in between.                                            *)
SweepGoesOn ==
    /\ sweep.today <= day /\ \A d \in sweep.rest : d < sweep.today /\ plain[d] # {}
    /\ sweep.at = "idle" => sweep.rest = {}
    /\ sweep.at \in {"zip", "zipped"} => sweep.rest # {}
    /\ sweep.at = "zipped" =>
          /\ NextFile \notin torn /\ archive[NextFile] # {}
          /\ late \/ plain[NextFile] = archive[NextFile]

(* While a day has a file, all its lines are in it; after that they are in *)
(* a whole archive.  That makes an archive safe to open anew, and a file   *)
(* of today the only one there is of its day.                              *)
LinesAreSomewhere ==
    /\ \A d \in LogDays : archive[d] # {} => d < day
    /\ \A l \in LogLines : kept[l] # 0 => kept[l] <= mtime[kept[l]] /\ kept[l] <= day
    /\ late \/ \A l \in LogLines : LET d == kept[l] IN
         (d # 0 /\ day < d + Ceiling) =>
            IF plain[d] # {} THEN l \in plain[d] ELSE l \in archive[d] /\ d \notin torn

NothingOlder ==
    (sweep.at = "idle" /\ sweep.today # 0) =>
        \A d \in LogDays : (plain[d] # {} \/ archive[d] # {}) => sweep.today <= mtime[d] + Ceiling

LogInv ==
    /\ LogTypeOK /\ SweepGoesOn /\ LinesAreSomewhere /\ NothingOlder
    /\ writing # <<>> => writing[2] <= day

LEMMA CeilingType == Ceiling \in Nat
BY ConsoleLogAssumption DEF Ceiling

LEMMA NextFileIsThere ==
    ASSUME LogTypeOK, sweep.rest # {}
    PROVE  NextFile \in sweep.rest /\ NextFile \in LogDays
<1>1. sweep.rest \subseteq LogDays /\ sweep.rest \subseteq Nat
  BY ConsoleLogAssumption DEF LogTypeOK, LogDays
<1>2. \E d \in sweep.rest : \A e \in sweep.rest : d <= e
  BY <1>1, LeastExists
<1>3. QED  BY <1>1, <1>2 DEF NextFile

(* The egg's steps and a lost line change nothing the node keeps.          *)
LEMMA OutsideLogHolds ==
    ASSUME LogInv, LogTypeOK', UNCHANGED <<day, fileVars, sweep, kept, late>>,
           writing' # <<>> => writing'[2] <= day
    PROVE  LogInv'
<1>1. SweepGoesOn'
  <2>1. NextFile' = NextFile
    BY DEF NextFile
  <2>2. QED  BY <2>1 DEF LogInv, SweepGoesOn, fileVars
<1>2. LinesAreSomewhere' /\ NothingOlder'
  BY DEF LogInv, LinesAreSomewhere, NothingOlder, Ceiling, fileVars
<1>3. QED  BY <1>1, <1>2 DEF LogInv

LEMMA WriteLineHolds == ASSUME LogInv, WriteLine PROVE LogInv'
<1> DEFINE l == writing[1]
           d == writing[2]
<1>1. /\ l \in LogLines /\ d \in LogDays /\ d <= day /\ day \in LogDays
      /\ LogTypeOK /\ SweepGoesOn /\ LinesAreSomewhere /\ NothingOlder
  BY DEF LogInv, LogTypeOK, WriteLine
<1>2. LogDays \subseteq Nat /\ 0 \notin LogDays /\ LogDays \subseteq 0..MaxDay
  BY ConsoleLogAssumption DEF LogDays
<1>3. /\ plain' = [plain EXCEPT ![d] = @ \cup {l}] /\ mtime' = [mtime EXCEPT ![d] = day]
      /\ kept' = [kept EXCEPT ![l] = d] /\ writing' = <<>>
      /\ late' = (late \/ (d < day /\ archive[d] # {} /\
                    (plain[d] = {} \/ (sweep.at = "zipped" /\ NextFile = d))))
      /\ UNCHANGED <<day, said, channel, drains, serving, archive, torn, sweep>>
  BY DEF WriteLine
<1> HIDE DEF l, d
<1>4. /\ \A x \in LogDays : plain'[x] = IF x = d THEN plain[d] \cup {l} ELSE plain[x]
      /\ \A x \in LogDays : mtime'[x] = IF x = d THEN day ELSE mtime[x]
      /\ \A x \in LogLines : kept'[x] = IF x = l THEN d ELSE kept[x]
  BY <1>1, <1>3 DEF LogTypeOK
<1>5. LogTypeOK'
  <2>1. plain' \in [LogDays -> SUBSET LogLines]
    BY <1>1, <1>3 DEF LogTypeOK
  <2>2. mtime' \in [LogDays -> 0..MaxDay] /\ kept' \in [LogLines -> 0..MaxDay]
    BY <1>1, <1>2, <1>3 DEF LogTypeOK
  <2>3. late' \in BOOLEAN
    BY <1>1, <1>3 DEF LogTypeOK
  <2>4. QED  BY <1>1, <1>3, <2>1, <2>2, <2>3 DEF LogTypeOK
<1>6. SweepGoesOn'
  <2>1. /\ sweep.today <= day /\ \A x \in sweep.rest : x < sweep.today /\ plain'[x] # {}
        /\ sweep.at = "idle" => sweep.rest = {}
        /\ sweep.at \in {"zip", "zipped"} => sweep.rest # {}
    BY <1>1, <1>4 DEF SweepGoesOn, LogTypeOK
  <2>2. ASSUME sweep.at = "zipped"
        PROVE  /\ NextFile \notin torn /\ archive[NextFile] # {}
               /\ late' \/ plain'[NextFile] = archive[NextFile]
    <3>1. NextFile \in sweep.rest /\ NextFile \in LogDays
      BY <1>1, <2>2, NextFileIsThere DEF SweepGoesOn
    <3>2. /\ NextFile \notin torn /\ archive[NextFile] # {}
          /\ late \/ plain[NextFile] = archive[NextFile]
      BY <1>1, <2>2 DEF SweepGoesOn
    <3>3. NextFile < day
      BY <1>1, <3>2, <3>1 DEF LinesAreSomewhere
    <3>4. CASE NextFile = d
      BY <1>3, <2>2, <3>2, <3>3, <3>4
    <3>5. CASE NextFile # d
      BY <1>3, <1>4, <3>1, <3>2, <3>5
    <3>6. QED  BY <3>2, <3>4, <3>5
  <2>3. NextFile' = NextFile
    BY <1>3 DEF NextFile
  <2>4. QED  BY <1>3, <2>1, <2>2, <2>3 DEF SweepGoesOn
<1>7. LinesAreSomewhere'
  <2>1. \A x \in LogDays : archive[x] # {} => x < day
    BY <1>1 DEF LinesAreSomewhere
  <2>2. ASSUME NEW x \in LogLines, kept'[x] # 0
        PROVE  kept'[x] <= mtime'[kept'[x]] /\ kept'[x] <= day
    <3>1. CASE x = l
      BY <1>1, <1>2, <1>4, <3>1
    <3>2. CASE x # l
      <4>1. kept'[x] = kept[x] /\ kept[x] \in LogDays
        BY <1>1, <1>2, <1>4, <2>2, <3>2 DEF LogTypeOK, LogDays
      <4>2. kept[x] <= mtime[kept[x]] /\ kept[x] <= day
        BY <1>1, <2>2, <4>1 DEF LinesAreSomewhere
      <4>3. QED  BY <1>4, <4>1, <4>2
    <3>3. QED  BY <3>1, <3>2
  <2>3. ASSUME ~late', NEW x \in LogLines, kept'[x] # 0, day < kept'[x] + Ceiling
        PROVE  IF plain'[kept'[x]] # {} THEN x \in plain'[kept'[x]]
               ELSE x \in archive[kept'[x]] /\ kept'[x] \notin torn
    <3>1. CASE x = l
      BY <1>1, <1>4, <3>1
    <3>2. CASE x # l
      <4>1. kept'[x] = kept[x] /\ kept[x] \in LogDays
        BY <1>1, <1>2, <1>4, <2>3, <3>2 DEF LogTypeOK, LogDays
      <4>2. IF plain[kept[x]] # {} THEN x \in plain[kept[x]]
            ELSE x \in archive[kept[x]] /\ kept[x] \notin torn
        BY <1>1, <1>3, <2>3, <4>1 DEF LinesAreSomewhere
      <4>3. CASE kept[x] # d
        BY <1>4, <4>1, <4>2, <4>3
      <4>4. CASE kept[x] = d
        <5>1. CASE plain[d] = {}
          <6>1. archive[d] # {}
            BY <4>2, <4>4, <5>1
          <6>2. d < day
            BY <1>1, <2>1, <6>1
          <6>3. QED  BY <1>3, <2>3, <5>1, <6>1, <6>2
        <5>2. CASE plain[d] # {}
          BY <1>1, <1>4, <4>1, <4>2, <4>4, <5>2
        <5>3. QED  BY <5>1, <5>2
      <4>5. QED  BY <4>3, <4>4
    <3>3. QED  BY <3>1, <3>2
  <2>4. UNCHANGED <<day, archive, torn>> /\ Ceiling' = Ceiling
    BY <1>3 DEF Ceiling
  <2>5. late' \in BOOLEAN
    BY <1>5 DEF LogTypeOK
  <2>6. QED  BY <2>1, <2>2, <2>3, <2>4, <2>5 DEF LinesAreSomewhere
<1>8. NothingOlder'
  <2>1. SUFFICES ASSUME sweep.at = "idle", sweep.today # 0, NEW x \in LogDays,
                        plain'[x] # {} \/ archive[x] # {}
                 PROVE  sweep.today <= mtime'[x] + Ceiling
    BY <1>3 DEF NothingOlder, Ceiling
  <2>2. CASE x = d
    <3>1. sweep.today \in Nat /\ sweep.today <= day /\ day \in Nat
      BY <1>1, <1>2, ConsoleLogAssumption DEF LogTypeOK, SweepGoesOn
    <3>2. mtime'[x] = day
      BY <1>4, <2>2
    <3>3. QED  BY <3>1, <3>2, CeilingType
  <2>3. CASE x # d
    BY <1>1, <1>4, <2>1, <2>3 DEF NothingOlder
  <2>4. QED  BY <2>2, <2>3
<1>9. QED  BY <1>3, <1>5, <1>6, <1>7, <1>8 DEF LogInv

LEMMA MaintainHolds ==
    ASSUME LogInv, Maintain, UNCHANGED <<day, said, channel, drains, writing, fileVars, kept, late>>,
           serving' \in BOOLEAN
    PROVE  LogInv'
<1>1. /\ LogTypeOK /\ SweepGoesOn /\ LinesAreSomewhere /\ day \in LogDays
      /\ LogDays \subseteq 0..MaxDay /\ LogDays \subseteq Nat
  BY ConsoleLogAssumption DEF LogInv, LogTypeOK, LogDays
<1>2. /\ sweep'.at = "compress" /\ sweep'.today = day /\ sweep'.rest = DueBefore(day)
      /\ sweep' \in [at : {"idle", "compress", "zip", "zipped"}, today : 0..MaxDay, rest : SUBSET LogDays]
  BY <1>1 DEF Maintain, DueBefore
<1>3. LogTypeOK'
  BY <1>1, <1>2 DEF LogTypeOK, fileVars
<1>4. SweepGoesOn'
  <2>1. day <= day
    BY <1>1
  <2>2. QED  BY <1>2, <2>1 DEF SweepGoesOn, DueBefore, fileVars
<1>5. LinesAreSomewhere'
  BY <1>1 DEF LinesAreSomewhere, Ceiling, fileVars
<1>6. NothingOlder'
  BY <1>2 DEF NothingOlder
<1>7. QED  BY <1>3, <1>4, <1>5, <1>6 DEF LogInv

LEMMA gzipOpensHolds == ASSUME LogInv, gzipOpens PROVE LogInv'
<1>1. /\ LogTypeOK /\ SweepGoesOn /\ LinesAreSomewhere
      /\ sweep.rest # {} /\ sweep.at = "compress"
      /\ NextFile \in sweep.rest /\ NextFile \in LogDays
  BY NextFileIsThere DEF LogInv, gzipOpens
<1>2. /\ archive' = [archive EXCEPT ![NextFile] = {}] /\ torn' = torn \cup {NextFile}
      /\ sweep' = [sweep EXCEPT !.at = "zip"]
      /\ UNCHANGED <<day, said, channel, drains, serving, writing, plain, mtime, kept, late>>
  BY DEF gzipOpens
<1>3. /\ sweep'.at = "zip" /\ sweep'.today = sweep.today /\ sweep'.rest = sweep.rest
      /\ sweep' \in [at : {"idle", "compress", "zip", "zipped"}, today : 0..MaxDay, rest : SUBSET LogDays]
      /\ \A x \in LogDays : archive'[x] = IF x = NextFile THEN {} ELSE archive[x]
  BY <1>1, <1>2 DEF LogTypeOK
<1>4. LogTypeOK'
  <2>1. archive' \in [LogDays -> SUBSET LogLines] /\ torn' \in SUBSET LogDays
    BY <1>1, <1>2 DEF LogTypeOK
  <2>2. QED  BY <1>1, <1>2, <1>3, <2>1 DEF LogTypeOK
<1>5. SweepGoesOn'
  BY <1>1, <1>2, <1>3 DEF SweepGoesOn
<1>6. LinesAreSomewhere'
  <2>1. plain[NextFile] # {}
    BY <1>1 DEF SweepGoesOn
  <2>2. \A x \in LogDays : archive'[x] # {} => x < day
    BY <1>1, <1>3 DEF LinesAreSomewhere
  <2>3. ASSUME ~late, NEW x \in LogLines, kept[x] # 0, day < kept[x] + Ceiling
        PROVE  IF plain[kept[x]] # {} THEN x \in plain[kept[x]]
               ELSE x \in archive'[kept[x]] /\ kept[x] \notin torn'
    <3>1. kept[x] \in LogDays
      BY <1>1, <2>3 DEF LogTypeOK, LogDays
    <3>2. IF plain[kept[x]] # {} THEN x \in plain[kept[x]]
          ELSE x \in archive[kept[x]] /\ kept[x] \notin torn
      BY <1>1, <2>3 DEF LinesAreSomewhere
    <3>3. CASE kept[x] = NextFile
      BY <2>1, <3>2, <3>3
    <3>4. CASE kept[x] # NextFile
      BY <1>2, <1>3, <3>1, <3>2, <3>4
    <3>5. QED  BY <3>3, <3>4
  <2>4. late \in BOOLEAN /\ Ceiling' = Ceiling
    BY <1>1 DEF LogTypeOK, Ceiling
  <2>5. QED  BY <1>1, <1>2, <2>2, <2>3, <2>4 DEF LinesAreSomewhere
<1>7. NothingOlder'
  BY <1>3 DEF NothingOlder
<1>8. QED  BY <1>2, <1>4, <1>5, <1>6, <1>7 DEF LogInv

LEMMA gzipClosesHolds == ASSUME LogInv, gzipCloses PROVE LogInv'
<1>1. /\ LogTypeOK /\ SweepGoesOn /\ LinesAreSomewhere
      /\ sweep.rest # {} /\ sweep.at = "zip"
      /\ NextFile \in sweep.rest /\ NextFile \in LogDays
  BY NextFileIsThere DEF LogInv, gzipCloses, SweepGoesOn
<1>2. /\ archive' = [archive EXCEPT ![NextFile] = plain[NextFile]] /\ torn' = torn \ {NextFile}
      /\ sweep' = [sweep EXCEPT !.at = "zipped"]
      /\ UNCHANGED <<day, said, channel, drains, serving, writing, plain, mtime, kept, late>>
  BY DEF gzipCloses
<1>3. /\ sweep'.at = "zipped" /\ sweep'.today = sweep.today /\ sweep'.rest = sweep.rest
      /\ sweep' \in [at : {"idle", "compress", "zip", "zipped"}, today : 0..MaxDay, rest : SUBSET LogDays]
      /\ \A x \in LogDays : archive'[x] = IF x = NextFile THEN plain[NextFile] ELSE archive[x]
  BY <1>1, <1>2 DEF LogTypeOK
<1>4. LogTypeOK'
  <2>1. archive' \in [LogDays -> SUBSET LogLines] /\ torn' \in SUBSET LogDays
    BY <1>1, <1>2 DEF LogTypeOK
  <2>2. QED  BY <1>1, <1>2, <1>3, <2>1 DEF LogTypeOK
<1>5. plain[NextFile] # {} /\ NextFile < sweep.today /\ sweep.today <= day
  BY <1>1 DEF SweepGoesOn
<1>6. SweepGoesOn'
  <2>1. NextFile' = NextFile
    BY <1>3 DEF NextFile
  <2>2. /\ NextFile \notin torn' /\ archive'[NextFile] # {}
        /\ plain[NextFile] = archive'[NextFile]
    BY <1>1, <1>2, <1>3, <1>5
  <2>3. QED  BY <1>1, <1>2, <1>3, <2>1, <2>2 DEF SweepGoesOn
<1>7. LinesAreSomewhere'
  <2>1. ASSUME NEW x \in LogDays, archive'[x] # {} PROVE x < day
    <3>1. CASE x = NextFile
      <4>1. x \in Nat /\ sweep.today \in Nat /\ day \in Nat
        BY <1>1, ConsoleLogAssumption DEF LogTypeOK, LogDays
      <4>2. QED  BY <1>5, <3>1, <4>1
    <3>2. CASE x # NextFile
      BY <1>1, <1>3, <2>1, <3>2 DEF LinesAreSomewhere
    <3>3. QED  BY <3>1, <3>2
  <2>2. ASSUME ~late, NEW x \in LogLines, kept[x] # 0, day < kept[x] + Ceiling
        PROVE  IF plain[kept[x]] # {} THEN x \in plain[kept[x]]
               ELSE x \in archive'[kept[x]] /\ kept[x] \notin torn'
    <3>1. kept[x] \in LogDays
      BY <1>1, <2>2 DEF LogTypeOK, LogDays
    <3>2. IF plain[kept[x]] # {} THEN x \in plain[kept[x]]
          ELSE x \in archive[kept[x]] /\ kept[x] \notin torn
      BY <1>1, <2>2 DEF LinesAreSomewhere
    <3>3. CASE kept[x] = NextFile
      BY <1>5, <3>2, <3>3
    <3>4. CASE kept[x] # NextFile
      BY <1>2, <1>3, <3>1, <3>2, <3>4
    <3>5. QED  BY <3>3, <3>4
  <2>3. late \in BOOLEAN /\ Ceiling' = Ceiling
    BY <1>1 DEF LogTypeOK, Ceiling
  <2>4. QED  BY <1>1, <1>2, <2>1, <2>2, <2>3 DEF LinesAreSomewhere
<1>8. NothingOlder'
  BY <1>3 DEF NothingOlder
<1>9. QED  BY <1>2, <1>4, <1>6, <1>7, <1>8 DEF LogInv

LEMMA gzipFailsHolds == ASSUME LogInv, gzipFails PROVE LogInv'
<1>1. /\ LogTypeOK /\ SweepGoesOn /\ LinesAreSomewhere
      /\ sweep.rest # {} /\ sweep.at = "zip"
      /\ NextFile \in sweep.rest /\ NextFile \in LogDays
  BY NextFileIsThere DEF LogInv, gzipFails, SweepGoesOn
<1>2. /\ torn' = torn \ {NextFile}
      /\ sweep' = [sweep EXCEPT !.at = "compress", !.rest = @ \ {NextFile}]
      /\ UNCHANGED <<day, said, channel, drains, serving, writing, plain, archive, mtime, kept, late>>
  BY DEF gzipFails
<1>3. /\ sweep'.at = "compress" /\ sweep'.today = sweep.today
      /\ sweep'.rest = sweep.rest \ {NextFile}
      /\ sweep' \in [at : {"idle", "compress", "zip", "zipped"}, today : 0..MaxDay, rest : SUBSET LogDays]
  BY <1>1, <1>2 DEF LogTypeOK
<1>4. LogTypeOK'
  BY <1>1, <1>2, <1>3 DEF LogTypeOK
<1>5. SweepGoesOn'
  BY <1>1, <1>2, <1>3 DEF SweepGoesOn
<1>6. LinesAreSomewhere'
  BY <1>1, <1>2 DEF LinesAreSomewhere, Ceiling
<1>7. NothingOlder'
  BY <1>3 DEF NothingOlder
<1>8. QED  BY <1>2, <1>4, <1>5, <1>6, <1>7 DEF LogInv

LEMMA RemovePlainHolds == ASSUME LogInv, RemovePlain PROVE LogInv'
<1>1. /\ LogTypeOK /\ SweepGoesOn /\ LinesAreSomewhere
      /\ sweep.rest # {} /\ sweep.at = "zipped"
      /\ NextFile \in sweep.rest /\ NextFile \in LogDays
  BY NextFileIsThere DEF LogInv, RemovePlain, SweepGoesOn
<1>2. /\ plain' = [plain EXCEPT ![NextFile] = {}]
      /\ sweep' = [sweep EXCEPT !.at = "compress", !.rest = @ \ {NextFile}]
      /\ UNCHANGED <<day, said, channel, drains, serving, writing, archive, torn, mtime, kept, late>>
  BY DEF RemovePlain
<1>3. /\ sweep'.at = "compress" /\ sweep'.today = sweep.today
      /\ sweep'.rest = sweep.rest \ {NextFile}
      /\ sweep' \in [at : {"idle", "compress", "zip", "zipped"}, today : 0..MaxDay, rest : SUBSET LogDays]
      /\ \A x \in LogDays : plain'[x] = IF x = NextFile THEN {} ELSE plain[x]
  BY <1>1, <1>2 DEF LogTypeOK
<1>4. LogTypeOK'
  <2>1. plain' \in [LogDays -> SUBSET LogLines]
    BY <1>1, <1>2 DEF LogTypeOK
  <2>2. QED  BY <1>1, <1>2, <1>3, <2>1 DEF LogTypeOK
<1>5. SweepGoesOn'
  <2>1. \A x \in sweep'.rest : x < sweep.today /\ plain'[x] # {}
    BY <1>1, <1>3 DEF SweepGoesOn, LogTypeOK
  <2>2. QED  BY <1>1, <1>2, <1>3, <2>1 DEF SweepGoesOn
<1>6. LinesAreSomewhere'
  <2>1. /\ NextFile \notin torn
        /\ late \/ plain[NextFile] = archive[NextFile]
        /\ plain[NextFile] # {}
    BY <1>1 DEF SweepGoesOn
  <2>2. ASSUME ~late, NEW x \in LogLines, kept[x] # 0, day < kept[x] + Ceiling
        PROVE  IF plain'[kept[x]] # {} THEN x \in plain'[kept[x]]
               ELSE x \in archive[kept[x]] /\ kept[x] \notin torn
    <3>1. kept[x] \in LogDays
      BY <1>1, <2>2 DEF LogTypeOK, LogDays
    <3>2. IF plain[kept[x]] # {} THEN x \in plain[kept[x]]
          ELSE x \in archive[kept[x]] /\ kept[x] \notin torn
      BY <1>1, <2>2 DEF LinesAreSomewhere
    <3>3. CASE kept[x] = NextFile
      BY <1>3, <2>1, <2>2, <3>1, <3>2, <3>3
    <3>4. CASE kept[x] # NextFile
      BY <1>3, <3>1, <3>2, <3>4
    <3>5. QED  BY <3>3, <3>4
  <2>3. late \in BOOLEAN /\ Ceiling' = Ceiling
    BY <1>1 DEF LogTypeOK, Ceiling
  <2>4. QED  BY <1>1, <1>2, <2>2, <2>3 DEF LinesAreSomewhere
<1>7. NothingOlder'
  BY <1>3 DEF NothingOlder
<1>8. QED  BY <1>2, <1>4, <1>5, <1>6, <1>7 DEF LogInv

(* A file with a line of its day is not older than the day.                *)
LEMMA RotateHolds == ASSUME LogInv, Rotate PROVE LogInv'
<1>1. /\ LogTypeOK /\ SweepGoesOn /\ LinesAreSomewhere
      /\ sweep.rest = {} /\ sweep.at = "compress"
  BY DEF LogInv, Rotate
<1>2. PICK some \in SUBSET MayExpire(sweep.today) :
         LET gone == Expired(sweep.today) \cup some IN
         /\ plain' = [d \in LogDays |-> IF d \in gone THEN {} ELSE plain[d]]
         /\ archive' = [d \in LogDays |-> IF d \in gone THEN {} ELSE archive[d]]
         /\ torn' = torn \ gone
  BY DEF Rotate
<1> DEFINE gone == Expired(sweep.today) \cup some
<1>3. /\ plain' = [d \in LogDays |-> IF d \in gone THEN {} ELSE plain[d]]
      /\ archive' = [d \in LogDays |-> IF d \in gone THEN {} ELSE archive[d]]
      /\ torn' = torn \ gone
      /\ sweep' = [sweep EXCEPT !.at = "idle"]
      /\ UNCHANGED <<day, said, channel, drains, serving, writing, mtime, kept, late>>
  BY <1>2 DEF Rotate
<1>4. \A d \in LogDays : (d \in gone => sweep.today >= mtime[d] + Ceiling)
                       /\ (d \notin gone => sweep.today <= mtime[d] + Ceiling)
  <2>1. \A d \in LogDays : mtime[d] \in Nat /\ sweep.today \in Nat
    BY <1>1, ConsoleLogAssumption DEF LogTypeOK
  <2>2. QED  BY <1>2, <2>1, CeilingType DEF Expired, MayExpire
<1> HIDE DEF gone
<1>5. /\ sweep'.at = "idle" /\ sweep'.today = sweep.today /\ sweep'.rest = {}
      /\ sweep' \in [at : {"idle", "compress", "zip", "zipped"}, today : 0..MaxDay, rest : SUBSET LogDays]
  BY <1>1, <1>3 DEF LogTypeOK
<1>6. LogTypeOK'
  <2>1. plain' \in [LogDays -> SUBSET LogLines] /\ archive' \in [LogDays -> SUBSET LogLines]
    BY <1>1, <1>3 DEF LogTypeOK
  <2>2. QED  BY <1>1, <1>3, <1>5, <2>1 DEF LogTypeOK
<1>7. SweepGoesOn'
  BY <1>1, <1>3, <1>5 DEF SweepGoesOn
<1>8. LinesAreSomewhere'
  <2>1. \A x \in LogDays : archive'[x] # {} => x < day
    BY <1>1, <1>3 DEF LinesAreSomewhere
  <2>2. ASSUME ~late, NEW x \in LogLines, kept[x] # 0, day < kept[x] + Ceiling
        PROVE  IF plain'[kept[x]] # {} THEN x \in plain'[kept[x]]
               ELSE x \in archive'[kept[x]] /\ kept[x] \notin torn'
    <3>1. kept[x] \in LogDays
      BY <1>1, <2>2 DEF LogTypeOK, LogDays
    <3>2. IF plain[kept[x]] # {} THEN x \in plain[kept[x]]
          ELSE x \in archive[kept[x]] /\ kept[x] \notin torn
      BY <1>1, <2>2 DEF LinesAreSomewhere
    <3>3. kept[x] \notin gone
      <4>1. /\ kept[x] \in Nat /\ mtime[kept[x]] \in Nat /\ sweep.today \in Nat /\ day \in Nat
            /\ kept[x] <= mtime[kept[x]] /\ sweep.today <= day
        BY <1>1, <2>2, <3>1, ConsoleLogAssumption
           DEF LogTypeOK, LogDays, LinesAreSomewhere, SweepGoesOn
      <4>2. ~(sweep.today >= mtime[kept[x]] + Ceiling)
        BY <2>2, <4>1, CeilingType
      <4>3. QED  BY <1>4, <3>1, <4>2
    <3>4. QED  BY <1>3, <3>1, <3>2, <3>3
  <2>3. late \in BOOLEAN /\ Ceiling' = Ceiling
    BY <1>1 DEF LogTypeOK, Ceiling
  <2>4. QED  BY <1>1, <1>3, <2>1, <2>2, <2>3 DEF LinesAreSomewhere
<1>9. NothingOlder'
  <2>1. \A d \in LogDays : (plain'[d] # {} \/ archive'[d] # {}) => d \notin gone
    BY <1>3
  <2>2. QED  BY <1>3, <1>4, <1>5, <2>1 DEF NothingOlder, Ceiling
<1>10. QED  BY <1>3, <1>6, <1>7, <1>8, <1>9 DEF LogInv

LEMMA DaemonDiesHolds == ASSUME LogInv, DaemonDies PROVE LogInv'
<1>1. LogTypeOK /\ SweepGoesOn /\ LinesAreSomewhere
  BY DEF LogInv
<1>2. /\ sweep' = [at |-> "idle", today |-> 0, rest |-> {}] /\ writing' = <<>> /\ serving' = FALSE
      /\ UNCHANGED <<day, said, channel, drains, fileVars, kept, late>>
  BY DEF DaemonDies
<1>3. 0 \in 0..MaxDay /\ 0 <= day
  BY <1>1, ConsoleLogAssumption DEF LogTypeOK, LogDays
<1>4. LogTypeOK'
  BY <1>1, <1>2, <1>3 DEF LogTypeOK, fileVars
<1>5. SweepGoesOn' /\ NothingOlder'
  BY <1>2, <1>3 DEF SweepGoesOn, NothingOlder
<1>6. LinesAreSomewhere'
  BY <1>1, <1>2 DEF LinesAreSomewhere, Ceiling, fileVars
<1>7. QED  BY <1>2, <1>4, <1>5, <1>6 DEF LogInv

LEMMA MidnightHolds == ASSUME LogInv, Midnight PROVE LogInv'
<1>1. LogTypeOK /\ SweepGoesOn /\ LinesAreSomewhere /\ NothingOlder
  BY DEF LogInv
<1>2. day < MaxDay /\ day' = day + 1 /\ UNCHANGED <<said, channel, drains, nodeVars>>
  BY DEF Midnight
<1>3. day \in Nat /\ day + 1 \in LogDays
  BY <1>1, <1>2, ConsoleLogAssumption DEF LogTypeOK, LogDays
<1>4. \A n \in Nat : n <= day => n <= day + 1 /\ n < day + 1
  BY <1>3
<1>5. LogTypeOK'
  BY <1>1, <1>2, <1>3 DEF LogTypeOK, nodeVars
<1>6. SweepGoesOn'
  <2>1. NextFile' = NextFile
    BY <1>2 DEF NextFile, nodeVars
  <2>2. sweep.today <= day + 1
    BY <1>1, <1>4, ConsoleLogAssumption DEF SweepGoesOn, LogTypeOK
  <2>3. QED  BY <1>1, <1>2, <2>1, <2>2 DEF SweepGoesOn, nodeVars
<1>7. LinesAreSomewhere'
  <2>1. \A x \in LogDays : archive[x] # {} => x < day + 1
    BY <1>1, <1>3, ConsoleLogAssumption DEF LinesAreSomewhere, LogDays
  <2>2. \A l \in LogLines : kept[l] # 0 => kept[l] <= mtime[kept[l]] /\ kept[l] <= day + 1
    BY <1>1, <1>4, ConsoleLogAssumption DEF LinesAreSomewhere, LogTypeOK
  <2>3. \A l \in LogLines : day + 1 < kept[l] + Ceiling => day < kept[l] + Ceiling
    BY <1>1, <1>3, CeilingType, ConsoleLogAssumption DEF LogTypeOK
  <2>4. QED  BY <1>1, <1>2, <2>1, <2>2, <2>3 DEF LinesAreSomewhere, nodeVars, Ceiling
<1>8. NothingOlder'
  BY <1>1, <1>2 DEF NothingOlder, nodeVars, Ceiling
<1>9. writing' # <<>> => writing'[2] <= day'
  BY <1>2, <1>4, ConsoleLogAssumption DEF LogInv, LogTypeOK, LogDays, nodeVars
<1>10. QED  BY <1>5, <1>6, <1>7, <1>8, <1>9 DEF LogInv

LEMMA LogStepHolds == LogInv /\ [LogNext]_logVars => LogInv'
<1> SUFFICES ASSUME LogInv, [LogNext]_logVars PROVE LogInv'
  OBVIOUS
<1>1. /\ LogTypeOK /\ channel \in Seq(LogLines) /\ Len(channel) \in Nat
      /\ NodeLogQueue \in Nat /\ MaxLines \in Nat
      /\ writing # <<>> => writing[2] <= day
  BY ConsoleLogAssumption DEF LogInv, LogTypeOK
<1>2. CASE Tee
  <2>1. said' \in 0..MaxLines /\ said + 1 \in LogLines
    BY <1>1, <1>2 DEF Tee, LogTypeOK, LogLines
  <2>2. channel' \in Seq(LogLines) /\ Len(channel') <= NodeLogQueue
    <3>1. CASE Len(channel) < NodeLogQueue
      <4>1. /\ Append(channel, said + 1) \in Seq(LogLines)
            /\ Len(Append(channel, said + 1)) = Len(channel) + 1
        BY <1>1, <2>1, AppendProperties
      <4>2. channel' = Append(channel, said + 1)
        BY <1>2, <3>1 DEF Tee
      <4>3. QED  BY <1>1, <3>1, <4>1, <4>2
    <3>2. CASE ~(Len(channel) < NodeLogQueue)
      BY <1>1, <1>2, <3>2 DEF Tee, LogTypeOK
    <3>3. QED  BY <3>1, <3>2
  <2>3. LogTypeOK'
    BY <1>1, <1>2, <2>1, <2>2 DEF Tee, LogTypeOK, nodeVars
  <2>4. QED  BY <1>1, <1>2, <2>3, OutsideLogHolds DEF Tee, nodeVars, fileVars
<1>3. CASE Drain
  <2>1. /\ Head(channel) \in LogLines /\ Tail(channel) \in Seq(LogLines)
        /\ Len(Tail(channel)) = Len(channel) - 1
    BY <1>1, <1>3, HeadTailProperties DEF Drain
  <2>2. Len(Tail(channel)) <= NodeLogQueue
    BY <1>1, <2>1 DEF LogTypeOK
  <2>3. day \in LogDays /\ day <= day
    BY <1>1, ConsoleLogAssumption DEF LogTypeOK, LogDays
  <2>4. writing' = <<>> \/ writing' = <<Head(channel), day>>
    BY <1>3 DEF Drain
  <2>5. LogTypeOK'
    BY <1>1, <1>3, <2>1, <2>2, <2>3, <2>4 DEF Drain, LogTypeOK, fileVars
  <2>6. writing' # <<>> => writing'[2] <= day
    BY <2>3, <2>4
  <2>7. QED  BY <1>3, <2>5, <2>6, OutsideLogHolds DEF Drain
<1>4. CASE DrainEnds
  <2>1. LogTypeOK'
    BY <1>1, <1>4 DEF DrainEnds, LogTypeOK, nodeVars
  <2>2. QED  BY <1>1, <1>4, <2>1, OutsideLogHolds DEF DrainEnds, nodeVars, fileVars
<1>5. CASE WriteFails
  <2>1. LogTypeOK'
    BY <1>1, <1>5 DEF WriteFails, LogTypeOK, fileVars
  <2>2. QED  BY <1>5, <2>1, OutsideLogHolds DEF WriteFails
<1>6. CASE Starts
  <2>1. serving' \in BOOLEAN
    BY <1>6 DEF Starts
  <2>2. QED  BY <1>6, <2>1, MaintainHolds DEF Starts
<1>7. CASE Ticks
  <2>1. serving' \in BOOLEAN
    BY <1>1, <1>7 DEF Ticks, LogTypeOK
  <2>2. QED  BY <1>7, <2>1, MaintainHolds DEF Ticks
<1>8. CASE UNCHANGED logVars
  <2>1. LogTypeOK'
    BY <1>1, <1>8 DEF logVars, LogTypeOK
  <2>2. QED  BY <1>1, <1>8, <2>1, OutsideLogHolds DEF logVars, fileVars
<1>9. QED
  BY <1>2, <1>3, <1>4, <1>5, <1>6, <1>7, <1>8, WriteLineHolds, gzipOpensHolds, gzipClosesHolds,
     gzipFailsHolds, RemovePlainHolds, RotateHolds, DaemonDiesHolds, MidnightHolds DEF LogNext

LEMMA LogInitHolds == LogInit => LogInv
<1>1. <<>> \in Seq(LogLines) /\ Len(<<>>) = 0
  OBVIOUS
<1>2. 0 \in 0..MaxDay /\ 0 \in 0..MaxLines /\ 1 \in LogDays /\ 0 <= NodeLogQueue /\ 0 <= 1
  BY ConsoleLogAssumption DEF LogDays
<1>3. ASSUME LogInit PROVE LogTypeOK
  <2>1. /\ day \in LogDays /\ said \in 0..MaxLines /\ drains \in BOOLEAN
        /\ serving \in BOOLEAN /\ writing \in {<<>>} \cup (LogLines \X LogDays) /\ late \in BOOLEAN
    BY <1>2, <1>3 DEF LogInit
  <2>2. channel \in Seq(LogLines) /\ Len(channel) <= NodeLogQueue
    BY <1>1, <1>2, <1>3 DEF LogInit
  <2>3. /\ plain \in [LogDays -> SUBSET LogLines] /\ archive \in [LogDays -> SUBSET LogLines]
        /\ torn \in SUBSET LogDays
    BY <1>3 DEF LogInit
  <2>4. /\ mtime \in [LogDays -> 0..MaxDay] /\ kept \in [LogLines -> 0..MaxDay]
    BY <1>2, <1>3 DEF LogInit
  <2>5. sweep \in [at : {"idle", "compress", "zip", "zipped"}, today : 0..MaxDay, rest : SUBSET LogDays]
    BY <1>2, <1>3 DEF LogInit
  <2>6. QED  BY <2>1, <2>2, <2>3, <2>4, <2>5 DEF LogTypeOK
<1>4. LogInit => SweepGoesOn /\ LinesAreSomewhere /\ NothingOlder /\ writing = <<>>
  BY <1>2 DEF LogInit, SweepGoesOn, LinesAreSomewhere, NothingOlder
<1>5. QED  BY <1>3, <1>4 DEF LogInv

LEMMA LogKept == LogInv => LinesKept
<1>1. ASSUME LogInv, ~late, NEW l \in LogLines, kept[l] # 0, day < kept[l] + Ceiling
      PROVE  l \in plain[kept[l]] \/ (l \in archive[kept[l]] /\ kept[l] \notin torn)
  BY <1>1 DEF LogInv, LinesAreSomewhere
<1>2. LogInv => NothingOlder
  BY DEF LogInv
<1>3. QED  BY <1>1, <1>2 DEF LinesKept, NothingOlder

(* consolelog's Maintain: whatever compressing fails, wherever the daemon  *)
(* dies and however long it was down, a line that was written is in its    *)
(* day's file or a whole archive until it has the age of the retention,    *)
(* and a finished sweep leaves nothing older, for every retention; a line  *)
(* written to a day that was swept ends the first of the two.              *)
THEOREM LogKeepsLines == LogSpec => []LinesKept
BY LogInitHolds, LogStepHolds, LogKept, PTL DEF LogSpec

-----------------------------------------------------------------------------
(* The protected ports *)

(* A daemon that begins remembers nothing.                                 *)
PortsInv ==
    /\ PortsTypeOK /\ RememberedIsThere
    /\ portsAt = "apply" => lastPorts = <<>>

(* What a refresh may do.                                                  *)
LEMMA RefreshFacts ==
    ASSUME PortsInv, refreshPorts
    PROVE  /\ kernel' \subseteq Ports /\ trouble' \in 0..MaxTrouble
           /\ lastPorts' \in {<<>>} \cup {<<P>> : P \in SUBSET Ports}
           /\ loaded /\ lastPorts' # <<>> => lastPorts' = <<kernel'>>
<1> USE DEF PortsInv, PortsTypeOK, RememberedIsThere
<1>1. Published \subseteq Ports
  BY DEF Published, Ports
<1>2. CASE UNCHANGED <<kernel, lastPorts, trouble>>
  BY <1>2
<1>3. CASE RefreshPorts /\ lastPorts' = <<Published>> /\ UNCHANGED trouble
  BY <1>1, <1>3 DEF RefreshPorts
<1>4. CASE Trouble /\ UNCHANGED <<kernel, lastPorts>>
  BY <1>4, PortsAssumption DEF Trouble
<1>5. QED  BY <1>2, <1>3, <1>4 DEF refreshPorts

LEMMA PortsStepHolds == PortsInv /\ [PortsNext]_portVars => PortsInv'
<1> SUFFICES ASSUME PortsInv, [PortsNext]_portVars PROVE PortsInv'
  OBVIOUS
<1> USE DEF PortsInv, PortsTypeOK, RememberedIsThere
<1>1. CASE UNCHANGED portVars
  BY <1>1 DEF portVars
<1>2. ASSUME NEW s \in Containers, serverTurns(s) PROVE PortsInv'
  <2>1. up' \subseteq Containers /\ pending' \in 0..MaxPending /\ changes' \in 0..MaxTurns
    BY <1>2, PortsAssumption DEF serverTurns
  <2>2. QED  BY <1>2, <2>1 DEF serverTurns
<1>3. CASE readEvent \/ tickRefreshes
  <2>1. refreshPorts /\ UNCHANGED <<up, portsAt, loaded, changes>> /\ portsAt = "serve"
    BY <1>3 DEF readEvent, tickRefreshes
  <2>2. pending' \in 0..MaxPending
    BY <1>3, PortsAssumption DEF readEvent, tickRefreshes
  <2>3. QED  BY <2>1, <2>2, RefreshFacts
<1>4. CASE tickReloads
  <2>1. UNCHANGED <<up, pending, portsAt, changes, kernel>> /\ portsAt = "serve"
    BY <1>4 DEF tickReloads, applyTable
  <2>2. trouble' \in 0..MaxTrouble
    <3>1. UNCHANGED trouble \/ Trouble
      BY <1>4 DEF tickReloads
    <3>2. QED  BY <3>1, PortsAssumption DEF Trouble
  <2>3. loaded' \in BOOLEAN
    BY <1>4 DEF tickReloads, applyTable
  <2>4. lastPorts' = <<>> \/ (lastPorts' = lastPorts /\ ~loaded')
    BY <1>4 DEF tickReloads, forgetList
  <2>5. QED  BY <2>1, <2>2, <2>3, <2>4
<1>5. CASE tableLost
  <2>1. UNCHANGED <<up, pending, portsAt, lastPorts, changes>> /\ kernel' = {} /\ ~loaded'
    BY <1>5 DEF tableLost
  <2>2. trouble' \in 0..MaxTrouble
    BY <1>5, PortsAssumption DEF tableLost, Trouble
  <2>3. loaded' \in BOOLEAN
    BY <1>5 DEF tableLost
  <2>4. QED  BY <2>1, <2>2, <2>3
<1>6. CASE guardRestarts
  BY <1>6, PortsAssumption DEF guardRestarts, Trouble
<1>7. CASE Run
  <2>1. CASE portsAt = "refresh"
    <3>1. refreshPorts /\ portsAt' = "subscribe" /\ UNCHANGED <<up, pending, loaded, changes>>
      BY <1>7, <2>1 DEF Run
    <3>2. QED  BY <3>1, RefreshFacts
  <2>2. CASE portsAt # "refresh"
    <3>1. UNCHANGED <<up, pending, kernel, lastPorts, changes, trouble>> /\ loaded' \in BOOLEAN
      BY <1>7, <2>2 DEF Run, applyTable
    <3>2. \/ portsAt' = "refresh" /\ portsAt = "apply"
          \/ portsAt' = "serve" /\ loaded' = loaded
      BY <1>7, <2>2 DEF Run
    <3>3. QED  BY <3>1, <3>2
  <2>3. QED  BY <2>1, <2>2
<1>8. QED  BY <1>1, <1>2, <1>3, <1>4, <1>5, <1>6, <1>7 DEF PortsNext

LEMMA PortsInitHolds == PortsInit => PortsInv
<1> SUFFICES ASSUME PortsInit PROVE PortsInv
  OBVIOUS
<1>1. loaded \in BOOLEAN /\ ~loaded /\ lastPorts = <<>>
  BY DEF PortsInit
<1>2. QED  BY <1>1, PortsAssumption DEF PortsInit, PortsInv, PortsTypeOK, RememberedIsThere

(* A refresh is skipped only for a list that the kernel has, whatever      *)
(* flushed and reloaded the table since the last one (refreshPorts,        *)
(* lastPorts).                                                             *)
THEOREM SkipIsRight == PortsSpec => []RememberedIsThere
<1>1. PortsInv => RememberedIsThere
  BY DEF PortsInv
<1>2. QED  BY <1>1, PortsInitHolds, PortsStepHolds, PTL DEF PortsSpec

-----------------------------------------------------------------------------
(* The idle watch *)

(* Strikes are counted for one client, however its entry changes hands.    *)
WatchInv == WatchTypeOK /\ \A c \in Clients : watched[c].strikes = idleRun[c]

LEMMA NoClientType ==
    NoClient \in Watch /\ NoClient.strikes = 0 /\ ~NoClient.fresh /\ ~NoClient.early
BY WatchAssumption DEF NoClient, Watch

LEMMA ClaimHolds == ASSUME WatchInv, NEW s \in Servers, NEW c \in Clients, claimSlot(s, c)
                    PROVE  WatchInv'
<1> USE DEF WatchInv, WatchTypeOK
<1>1. UNCHANGED <<sends, compared, sample, chats, idleRun, troubles>> /\ struck' = {}
      /\ joins' \in 0..MaxJoins
  BY WatchAssumption DEF claimSlot
<1>2. \E w \in Watch : w.strikes = watched[c].strikes /\ watched' = [watched EXCEPT ![c] = w]
  <2>1. CASE Watched(c)
    <3> DEFINE w == [watched[c] EXCEPT !.server = s, !.fresh = TRUE, !.early = TRUE]
    <3>1. watched[c] \in Watch
      OBVIOUS
    <3>2. \A x \in Watch : LET y == [x EXCEPT !.server = s, !.fresh = TRUE, !.early = TRUE]
                          IN  y \in Watch /\ y.strikes = x.strikes
      BY DEF Watch
    <3>3. w \in Watch /\ w.strikes = watched[c].strikes
      BY <3>1, <3>2
    <3>4. watched' = [watched EXCEPT ![c] = w]
      BY <2>1 DEF claimSlot
    <3>5. QED  BY <3>3, <3>4
  <2>2. CASE ~Watched(c)
    <3> DEFINE w == [server |-> s, fresh |-> TRUE, early |-> TRUE, strikes |-> 0]
    <3>1. w \in Watch /\ w.strikes = watched[c].strikes
      BY <2>2, NoClientType, WatchAssumption DEF Watch, Watched
    <3>2. watched' = [watched EXCEPT ![c] = w]
      BY <2>2 DEF claimSlot
    <3>3. QED  BY <3>1, <3>2
  <2>3. QED  BY <2>1, <2>2
<1>3. QED  BY <1>1, <1>2

(* A client that goes takes its strikes along.                             *)
LEMMA ForgottenHolds ==
    ASSUME WatchInv, NEW c \in Clients,
           watched' = [watched EXCEPT ![c] = NoClient], idleRun' = [idleRun EXCEPT ![c] = 0]
    PROVE  /\ watched' \in [Clients -> Watch] /\ idleRun' \in [Clients -> 0..IdleStrikes]
           /\ \A d \in Clients : watched'[d].strikes = idleRun'[d]
BY NoClientType, WatchAssumption DEF WatchInv, WatchTypeOK

LEMMA LeaveHolds == ASSUME WatchInv, NEW c \in Clients, leave(c) PROVE WatchInv'
<1>1. /\ watched' \in [Clients -> Watch] /\ idleRun' \in [Clients -> 0..IdleStrikes]
      /\ \A d \in Clients : watched'[d].strikes = idleRun'[d]
  BY ForgottenHolds DEF leave
<1>2. QED  BY <1>1 DEF WatchInv, WatchTypeOK, leave

LEMMA ChatHolds ==
    ASSUME WatchInv, NEW s \in Servers, NEW c \in Clients, chatCheck(s, c) PROVE WatchInv'
<1>1. sample' \in [Clients -> Traffic]
  BY DEF chatCheck, RateSample, WatchInv, WatchTypeOK
<1>2. chats' \in [Servers -> Clients \cup {"none"}]
  BY DEF chatCheck, WatchInv, WatchTypeOK
<1>3. QED  BY <1>1, <1>2 DEF WatchInv, WatchTypeOK, chatCheck

LEMMA ChatBlocksHolds == ASSUME WatchInv, NEW s \in Servers, chatBlocks(s) PROVE WatchInv'
<1> DEFINE c == chats[s]
<1>1. c \in Clients
  BY DEF chatBlocks, WatchInv, WatchTypeOK
<1>2. /\ UNCHANGED <<sends, compared, sample, joins>>
      /\ chats' \in [Servers -> Clients \cup {"none"}]
  BY DEF chatBlocks, WatchInv, WatchTypeOK
<1>3. CASE /\ struck' = {<<c, "chatbot">>} /\ watched' = [watched EXCEPT ![c] = NoClient]
           /\ idleRun' = [idleRun EXCEPT ![c] = 0] /\ UNCHANGED troubles
  <2>1. /\ watched' \in [Clients -> Watch] /\ idleRun' \in [Clients -> 0..IdleStrikes]
        /\ \A d \in Clients : watched'[d].strikes = idleRun'[d]
    BY <1>1, <1>3, ForgottenHolds
  <2>2. struck' \subseteq Clients \X {"idle", "chatbot"}
    BY <1>1, <1>3
  <2>3. QED  BY <1>2, <1>3, <2>1, <2>2 DEF WatchInv, WatchTypeOK
<1>4. CASE /\ troubles < MaxTroubles /\ troubles' = troubles + 1 /\ struck' = {}
           /\ UNCHANGED <<watched, idleRun>>
  <2>1. troubles' \in 0..MaxTroubles
    BY <1>4, WatchAssumption DEF WatchInv, WatchTypeOK
  <2>2. QED  BY <1>2, <1>4, <2>1 DEF WatchInv, WatchTypeOK
<1>5. QED  BY <1>3, <1>4 DEF chatBlocks

(* A judged sample counts the same in the entry and in the history.        *)
LEMMA JudgeHolds ==
    ASSUME WatchInv, judge
    PROVE  /\ watched' \in [Clients -> Watch] /\ idleRun' \in [Clients -> 0..IdleStrikes]
           /\ \A c \in Clients : watched'[c].strikes = idleRun'[c]
           /\ struck' \subseteq Clients \X {"idle", "chatbot"}
<1> DEFINE W(c) == IF c \in IdleHits THEN NoClient ELSE IF Judged(c) THEN after(c) ELSE watched[c]
           R(c) == IF ~Judged(c) THEN idleRun[c]
                   ELSE IF sends[c] = "little" /\ c \notin IdleHits THEN idleRun[c] + 1 ELSE 0
<1>1. watched' = [c \in Clients |-> W(c)] /\ idleRun' = [c \in Clients |-> R(c)]
  BY DEF judge
<1>2. ASSUME NEW c \in Clients
      PROVE  W(c) \in Watch /\ R(c) \in 0..IdleStrikes /\ W(c).strikes = R(c)
  <2>1. /\ watched[c] \in Watch /\ sends[c] \in Traffic /\ idleRun[c] = watched[c].strikes
        /\ watched[c].strikes \in 0..IdleStrikes - 1 /\ IdleStrikes \in Nat \ {0}
    BY WatchAssumption DEF WatchInv, WatchTypeOK, Watch
  <2>2. CASE c \in IdleHits
    BY <2>2, NoClientType, WatchAssumption DEF IdleHits
  <2>3. CASE c \notin IdleHits /\ ~Judged(c)
    BY <2>1, <2>3
  <2>4. CASE c \notin IdleHits /\ Judged(c) /\ sends[c] = "nothing"
    BY <2>1, <2>4, NoClientType DEF after
  <2>5. CASE c \notin IdleHits /\ Judged(c) /\ sends[c] = "gameplay"
    <3>1. /\ [watched[c] EXCEPT !.strikes = 0] \in Watch
          /\ [watched[c] EXCEPT !.strikes = 0].strikes = 0
      BY <2>1 DEF Watch
    <3>2. after(c) = [watched[c] EXCEPT !.strikes = 0]
      BY <2>5 DEF after
    <3>3. QED  BY <2>1, <2>5, <3>1, <3>2
  <2>6. CASE c \notin IdleHits /\ Judged(c) /\ sends[c] = "little"
    <3>1. watched[c].strikes + 1 \in 0..IdleStrikes - 1
      BY <2>1, <2>6 DEF IdleHits
    <3>2. /\ [watched[c] EXCEPT !.strikes = @ + 1] \in Watch
          /\ [watched[c] EXCEPT !.strikes = @ + 1].strikes = watched[c].strikes + 1
      BY <2>1, <3>1 DEF Watch
    <3>3. after(c) = [watched[c] EXCEPT !.strikes = @ + 1]
      BY <2>6 DEF after
    <3>4. W(c) = after(c) /\ R(c) = idleRun[c] + 1
      BY <2>6
    <3>5. QED  BY <2>1, <3>1, <3>2, <3>3, <3>4
  <2>7. QED  BY <2>1, <2>2, <2>3, <2>4, <2>5, <2>6 DEF Traffic
<1>3. struck' \subseteq Clients \X {"idle", "chatbot"}
  BY DEF judge, IdleHits
<1> HIDE DEF W, R
<1>4. QED  BY <1>1, <1>2, <1>3

LEMMA SamplerHolds == ASSUME WatchInv, idleLoop \/ dumpFails PROVE WatchInv'
<1>1. CASE idleLoop
  <2>1. judge /\ UNCHANGED <<sends, chats, joins, troubles>> /\ compared' = TRUE /\ sample' = sends
    BY <1>1 DEF idleLoop, RateSample
  <2>2. /\ watched' \in [Clients -> Watch] /\ idleRun' \in [Clients -> 0..IdleStrikes]
        /\ \A c \in Clients : watched'[c].strikes = idleRun'[c]
        /\ struck' \subseteq Clients \X {"idle", "chatbot"}
    BY <2>1, JudgeHolds
  <2>3. QED  BY <2>1, <2>2 DEF WatchInv, WatchTypeOK
<1>2. CASE dumpFails
  <2>1. sample' = NoSample /\ struck' = {} /\ UNCHANGED <<sends, watched, chats, idleRun, joins>>
    BY <1>2 DEF dumpFails
  <2>2. troubles' \in 0..MaxTroubles
    BY <1>2, WatchAssumption DEF dumpFails, WatchInv, WatchTypeOK
  <2>3. compared' \in BOOLEAN
    BY <1>2 DEF dumpFails
  <2>4. QED  BY <2>1, <2>2, <2>3 DEF WatchInv, WatchTypeOK
<1>3. QED  BY <1>1, <1>2

LEMMA ClockHolds ==
    ASSUME WatchInv, NEW c \in Clients,
           graceEnds(c) \/ chatWindowEnds(c) \/ \E t \in Traffic : clientSends(c, t)
    PROVE  WatchInv'
<1> USE DEF WatchInv, WatchTypeOK
<1>1. CASE graceEnds(c) \/ chatWindowEnds(c)
  <2>1. \E w \in Watch : w.strikes = watched[c].strikes /\ watched' = [watched EXCEPT ![c] = w]
    <3>1. /\ [watched[c] EXCEPT !.fresh = FALSE] \in Watch
          /\ [watched[c] EXCEPT !.fresh = FALSE].strikes = watched[c].strikes
          /\ [watched[c] EXCEPT !.early = FALSE] \in Watch
          /\ [watched[c] EXCEPT !.early = FALSE].strikes = watched[c].strikes
      BY DEF Watch
    <3>2. \/ watched' = [watched EXCEPT ![c] = [watched[c] EXCEPT !.fresh = FALSE]]
          \/ watched' = [watched EXCEPT ![c] = [watched[c] EXCEPT !.early = FALSE]]
      BY <1>1 DEF graceEnds, chatWindowEnds
    <3>3. QED  BY <3>1, <3>2
  <2>2. UNCHANGED <<sends, compared, sample, chats, idleRun, joins, troubles>> /\ struck' = {}
    BY <1>1 DEF graceEnds, chatWindowEnds
  <2>3. QED  BY <2>1, <2>2
<1>2. ASSUME NEW t \in Traffic, clientSends(c, t) PROVE WatchInv'
  BY <1>2 DEF clientSends
<1>3. QED  BY <1>1, <1>2

LEMMA WatchStepHolds == WatchInv /\ [WatchNext]_watchVars => WatchInv'
<1> SUFFICES ASSUME WatchInv, [WatchNext]_watchVars PROVE WatchInv'
  OBVIOUS
<1>1. CASE UNCHANGED watchVars
  BY <1>1 DEF watchVars, WatchInv, WatchTypeOK
<1>2. CASE WatchNext
  BY <1>2, ClaimHolds, LeaveHolds, ChatHolds, ChatBlocksHolds, SamplerHolds, ClockHolds
     DEF WatchNext, onEvent
<1>3. QED  BY <1>1, <1>2

LEMMA WatchInitHolds == WatchInit => WatchInv
<1> SUFFICES ASSUME WatchInit PROVE WatchInv
  OBVIOUS
<1>1. /\ watched \in [Clients -> Watch] /\ idleRun \in [Clients -> 0..IdleStrikes]
      /\ \A c \in Clients : watched[c].strikes = idleRun[c]
  BY NoClientType, WatchAssumption DEF WatchInit
<1>2. /\ sends \in [Clients -> Traffic] /\ chats \in [Servers -> Clients \cup {"none"}]
      /\ compared \in BOOLEAN /\ sample = NoSample /\ struck = {}
  BY DEF WatchInit, Traffic
<1>3. joins \in 0..MaxJoins /\ troubles \in 0..MaxTroubles
  BY WatchAssumption DEF WatchInit
<1>4. QED  BY <1>1, <1>2, <1>3 DEF WatchInv, WatchTypeOK

(* Nobody is blocked as idle by fewer judged samples than idle_strikes     *)
(* since its watch began or it last played, however its entry changed      *)
(* hands between servers, for any clients and threshold (idleLoop).        *)
THEOREM StrikesCount == WatchSpec => StrikesAreSamples
<1>1. ASSUME WatchInv, [WatchNext]_watchVars
      PROVE  [\A c \in Clients : <<c, "idle">> \in struck' => idleRun[c] + 1 >= IdleStrikes]_watchVars
  <2>1. CASE UNCHANGED watchVars
    BY <2>1
  <2>2. CASE idleLoop
    <3>1. SUFFICES ASSUME NEW c \in Clients, <<c, "idle">> \in struck'
                   PROVE  idleRun[c] + 1 >= IdleStrikes
      OBVIOUS
    <3>2. c \in IdleHits
      BY <2>2, <3>1 DEF idleLoop, judge
    <3>3. QED  BY <1>1, <3>2 DEF IdleHits, WatchInv
  <2>3. CASE WatchNext /\ ~idleLoop
    <3>1. struck' = {} \/ \E c : struck' = {<<c, "chatbot">>}
      BY <2>3 DEF WatchNext, chatBlocks, onEvent, claimSlot, leave, chatCheck, graceEnds,
                  chatWindowEnds, clientSends, dumpFails
    <3>2. QED  BY <3>1
  <2>4. QED  BY <1>1, <2>1, <2>2, <2>3
<1>2. QED  BY <1>1, WatchInitHolds, WatchStepHolds, PTL DEF WatchSpec, StrikesAreSamples

-----------------------------------------------------------------------------
(* The alerts *)

LEMMA AppendOne ==
    ASSUME NEW S, NEW q \in Seq(S), NEW x \in S
    PROVE  /\ Append(q, x) \in Seq(S) /\ Len(Append(q, x)) = Len(q) + 1
           /\ ToSet(Append(q, x)) = ToSet(q) \cup {x}
           /\ Distinct(q) /\ x \notin ToSet(q) => Distinct(Append(q, x))
<1> DEFINE l == Append(q, x)
<1>1. /\ l \in Seq(S) /\ Len(l) = Len(q) + 1 /\ l[Len(q) + 1] = x
      /\ \A i \in 1..Len(q) : l[i] = q[i]
  BY AppendProperties
<1>2. Len(q) \in Nat /\ DOMAIN q = 1..Len(q) /\ DOMAIN l = 1..(Len(q) + 1)
  BY <1>1, LenProperties
<1> HIDE DEF l
<1>3. \A i \in DOMAIN l : (i \in DOMAIN q /\ l[i] = q[i]) \/ (i = Len(q) + 1 /\ l[i] = x)
  BY <1>1, <1>2
<1>4. DOMAIN q \subseteq DOMAIN l /\ Len(q) + 1 \in DOMAIN l
  BY <1>2
<1>5. ToSet(l) = ToSet(q) \cup {x}
  <2>1. ToSet(l) \subseteq ToSet(q) \cup {x}
    BY <1>3 DEF ToSet
  <2>2. ToSet(q) \subseteq ToSet(l) /\ x \in ToSet(l)
    BY <1>1, <1>2, <1>4 DEF ToSet
  <2>3. QED  BY <2>1, <2>2
<1>6. ASSUME Distinct(q), x \notin ToSet(q) PROVE Distinct(l)
  <2>1. \A i \in DOMAIN q : q[i] # x
    BY <1>6 DEF ToSet
  <2>2. QED  BY <1>3, <1>6, <2>1 DEF Distinct
<1>7. QED  BY <1>1, <1>5, <1>6 DEF l

LEMMA TakeOne ==
    ASSUME NEW S, NEW q \in Seq(S), q # <<>>, Distinct(q)
    PROVE  /\ Tail(q) \in Seq(S) /\ Len(Tail(q)) < Len(q) /\ Head(q) \in S /\ Distinct(Tail(q))
           /\ ToSet(q) = {Head(q)} \cup ToSet(Tail(q)) /\ Head(q) \notin ToSet(Tail(q))
<1> DEFINE t == Tail(q)
<1>1. /\ Head(q) \in S /\ t \in Seq(S) /\ Len(t) = Len(q) - 1 /\ Head(q) = q[1]
      /\ \A i \in 1..Len(t) : t[i] = q[i + 1]
  BY HeadTailProperties
<1>2. Len(q) \in Nat /\ Len(q) >= 1 /\ DOMAIN q = 1..Len(q) /\ DOMAIN t = 1..(Len(q) - 1)
  BY <1>1, LenProperties, EmptySeq
<1> HIDE DEF t
<1>3. \A i \in DOMAIN t : i \in Nat /\ i + 1 \in DOMAIN q /\ i + 1 # 1 /\ t[i] = q[i + 1]
  BY <1>1, <1>2
<1>4. \A i \in DOMAIN q : i = 1 \/ (i - 1 \in DOMAIN t /\ (i - 1) + 1 = i)
  BY <1>2
<1>5. 1 \in DOMAIN q
  BY <1>2
<1>6. ToSet(q) = {q[1]} \cup ToSet(t)
  <2>1. \A i \in DOMAIN q : q[i] \in {q[1]} \cup ToSet(t)
    <3>1. \A i \in DOMAIN t : t[i] \in ToSet(t)
      BY DEF ToSet
    <3>2. QED  BY <1>3, <1>4, <3>1
  <2>2. ToSet(q) \subseteq {q[1]} \cup ToSet(t)
    BY <2>1 DEF ToSet
  <2>3. ToSet(t) \subseteq ToSet(q) /\ q[1] \in ToSet(q)
    BY <1>3, <1>5 DEF ToSet
  <2>4. QED  BY <2>2, <2>3
<1>7. q[1] \notin ToSet(t)
  BY <1>3, <1>5 DEF ToSet, Distinct
<1>8. Distinct(t)
  <2>1. ASSUME NEW i \in DOMAIN t, NEW j \in DOMAIN t, t[i] = t[j] PROVE i = j
    <3>1. i + 1 = j + 1
      BY <1>3, <2>1 DEF Distinct
    <3>2. QED  BY <1>3, <3>1
  <2>2. QED  BY <2>1 DEF Distinct
<1>9. Len(t) < Len(q)
  BY <1>1, <1>2
<1>10. QED  BY <1>1, <1>6, <1>7, <1>8, <1>9 DEF t

(* The first k of a batch and the rest of it.                              *)
LEMMA CutInTwo ==
    ASSUME NEW S, NEW q \in Seq(S), NEW k \in 0..Len(q), Distinct(q)
    PROVE  LET l == SubSeq(q, 1, k)
               r == SubSeq(q, k + 1, Len(q))
           IN  /\ r \in Seq(S) /\ Len(r) = Len(q) - k /\ Distinct(r)
               /\ ToSet(q) = ToSet(l) \cup ToSet(r) /\ ToSet(l) \cap ToSet(r) = {}
<1> DEFINE l == SubSeq(q, 1, k)
           r == SubSeq(q, k + 1, Len(q))
<1>1. Len(q) \in Nat /\ DOMAIN q = 1..Len(q) /\ k \in Int /\ k + 1 \in Int /\ k \in Nat /\ k <= Len(q)
  BY LenProperties
<1>2. l \in Seq(S) /\ Len(l) = k /\ \A i \in 1..k : l[i] = q[i]
  <2>1. \A i \in 1..k : q[i] \in S
    BY <1>1
  <2>2. /\ l \in Seq(S) /\ Len(l) = IF 1 <= k THEN k - 1 + 1 ELSE 0
        /\ \A i \in 1..(k - 1 + 1) : l[i] = q[1 + i - 1]
    BY <1>1, <2>1, SubSeqProperties
  <2>3. QED  BY <1>1, <2>2
<1>3. r \in Seq(S) /\ Len(r) = Len(q) - k /\ \A i \in 1..(Len(q) - k) : r[i] = q[k + i]
  <2>1. \A i \in (k + 1)..Len(q) : q[i] \in S
    BY <1>1
  <2>2. /\ r \in Seq(S) /\ Len(r) = IF k + 1 <= Len(q) THEN Len(q) - (k + 1) + 1 ELSE 0
        /\ \A i \in 1..(Len(q) - (k + 1) + 1) : r[i] = q[k + 1 + i - 1]
    BY <1>1, <2>1, SubSeqProperties
  <2> HIDE DEF r
  <2>3. Len(q) - (k + 1) + 1 = Len(q) - k /\ \A i \in 1..(Len(q) - k) : k + 1 + i - 1 = k + i
    BY <1>1
  <2>4. Len(r) = Len(q) - k
    <3>1. \A n \in Nat, m \in Nat : m <= n => (IF m + 1 <= n THEN n - (m + 1) + 1 ELSE 0) = n - m
      OBVIOUS
    <3>2. QED  BY <1>1, <2>2, <3>1, Zenon
  <2>5. QED  BY <2>2, <2>3, <2>4
<1>4. DOMAIN l = 1..k /\ DOMAIN r = 1..(Len(q) - k)
  BY <1>2, <1>3, LenProperties
<1> HIDE DEF l, r
<1>5. /\ \A i \in DOMAIN l : i \in DOMAIN q /\ i <= k /\ l[i] = q[i]
      /\ \A i \in DOMAIN r : i \in Nat /\ k + i \in DOMAIN q /\ k + i > k /\ r[i] = q[k + i]
      /\ \A i \in DOMAIN q : i \in DOMAIN l \/ (i - k \in DOMAIN r /\ k + (i - k) = i)
  BY <1>1, <1>2, <1>3, <1>4
<1>6. ToSet(q) = ToSet(l) \cup ToSet(r)
  <2>1. \A i \in DOMAIN q : q[i] \in ToSet(l) \cup ToSet(r)
    <3>1. (\A i \in DOMAIN l : l[i] \in ToSet(l)) /\ (\A i \in DOMAIN r : r[i] \in ToSet(r))
      BY DEF ToSet
    <3>2. QED  BY <1>5, <3>1
  <2>2. ToSet(q) \subseteq ToSet(l) \cup ToSet(r)
    BY <2>1 DEF ToSet
  <2>3. ToSet(l) \subseteq ToSet(q)
    BY <1>5 DEF ToSet
  <2>4. ToSet(r) \subseteq ToSet(q)
    BY <1>5 DEF ToSet
  <2>5. QED  BY <2>2, <2>3, <2>4
<1>7. ToSet(l) \cap ToSet(r) = {}
  <2>1. SUFFICES ASSUME NEW i \in DOMAIN l, NEW j \in DOMAIN r, l[i] = r[j] PROVE FALSE
    BY DEF ToSet
  <2>2. i = k + j
    BY <1>5, <2>1 DEF Distinct
  <2>3. QED  BY <1>1, <1>5, <2>2
<1>8. Distinct(r)
  <2>1. SUFFICES ASSUME NEW i \in DOMAIN r, NEW j \in DOMAIN r, r[i] = r[j] PROVE i = j
    BY DEF Distinct
  <2>2. k + i = k + j
    BY <1>5, <2>1 DEF Distinct
  <2>3. QED  BY <1>1, <1>5, <2>2
<1>9. QED  BY <1>3, <1>6, <1>7, <1>8 DEF l, r

(* The places of a notice after it is published. *)
Queued    == ToSet(backlog)
Collected == ToSet(pendingN)
Carried   == UNION {ToSet(f.batch) : f \in flushes}
Taken     == {n \in Notices : posts[n] # 0}

(* A notice is in one place at most, and there once.                       *)
OnePlace ==
    /\ unsaid \cap (Queued \cup Collected \cup Carried \cup Taken) = {}
    /\ Queued \cap (Collected \cup Carried \cup Taken) = {}
    /\ Collected \cap (Carried \cup Taken) = {} /\ Carried \cap Taken = {}
    /\ Distinct(backlog) /\ Distinct(pendingN)
    /\ \A f \in flushes : Distinct(f.batch)
    /\ \A f, h \in flushes : f = h \/ ToSet(f.batch) \cap ToSet(h.batch) = {}

(* A timer that is not m.timer any more was cleared by the last flush.     *)
TimersKnown ==
    armed <= (IF timer THEN 1 ELSE 0) + (IF node \in {"flushed", "gone"} THEN 1 ELSE 0)

AlertsInv == AlertsTypeOK /\ TimersKnown /\ OnePlace /\ PostedOnce

LEMMA AlertsInitHolds == AlertsInit => AlertsInv
<1> SUFFICES ASSUME AlertsInit PROVE AlertsInv
  OBVIOUS
<1>1. backlog = <<>> /\ pendingN = <<>> /\ flushes = {} /\ Taken = {}
  BY DEF AlertsInit, Taken
<1>2. ToSet(<<>>) = {} /\ Distinct(<<>>)
  BY DEF ToSet, Distinct
<1>3. Queued = {} /\ Collected = {} /\ Carried = {}
  BY <1>1, <1>2 DEF Queued, Collected, Carried
<1>4. OnePlace
  BY <1>1, <1>2, <1>3 DEF OnePlace
<1>5. AlertsTypeOK
  <2>1. <<>> \in Seq(Notices) /\ <<>> \in Seq(Wanted) /\ Len(<<>>) = 0
    OBVIOUS
  <2>2. posts \in [Notices -> Nat]
    BY DEF AlertsInit
  <2>3. 0 \in 0..RateLimits /\ 0 <= MaxBacklog
    BY AlertsAssumption
  <2>4. backlog \in Seq(Notices) /\ pendingN \in Seq(Wanted) /\ Len(backlog) = 0
    BY <1>1, <2>1
  <2>5. unsaid = Notices /\ failed = {} /\ timer = FALSE /\ armed = 0 /\ limited = 0 /\ node = "up"
    BY DEF AlertsInit
  <2>6. backlog \in Seq(Notices) /\ Len(backlog) <= MaxBacklog /\ pendingN \in Seq(Wanted)
    BY <2>3, <2>4
  <2>7. armed \in 0..2 /\ limited \in 0..RateLimits
    BY <2>3, <2>5
  <2>8. QED  BY <1>1, <2>2, <2>5, <2>6, <2>7 DEF AlertsTypeOK
<1>6. QED  BY <1>4, <1>5 DEF AlertsInit, AlertsInv, TimersKnown, PostedOnce

(* Only a publication moves a notice from nowhere.                         *)
LEMMA NotifyHolds == ASSUME AlertsInv, NEW n \in Notices, Notify(n) PROVE AlertsInv'
<1> USE DEF AlertsInv
<1>1. UNCHANGED <<pendingN, timer, armed, flushes, posts, failed, limited, node>> /\ n \in unsaid
  BY DEF Notify
<1>2. UNCHANGED <<Collected, Carried, Taken>> /\ unsaid' = unsaid \ {n}
  BY <1>1 DEF Collected, Carried, Taken, Notify
<1>3. CASE Len(backlog) < MaxBacklog
  <2>1. backlog' = Append(backlog, n)
    BY <1>3 DEF Notify
  <2>2. n \notin ToSet(backlog) /\ backlog \in Seq(Notices) /\ Distinct(backlog)
    BY <1>1 DEF OnePlace, Queued, AlertsTypeOK
  <2>3. /\ backlog' \in Seq(Notices) /\ Len(backlog') = Len(backlog) + 1
        /\ ToSet(backlog') = ToSet(backlog) \cup {n} /\ Distinct(backlog')
    BY <2>1, <2>2, AppendOne
  <2>4. Len(backlog) \in Nat
    BY <2>2, LenProperties
  <2>5. AlertsTypeOK'
    BY <1>1, <1>2, <1>3, <2>3, <2>4, AlertsAssumption DEF AlertsTypeOK
  <2>6. Queued' = Queued \cup {n}
    BY <2>3 DEF Queued
  <2>7. OnePlace'
    BY <1>1, <1>2, <2>3, <2>6 DEF OnePlace
  <2>8. QED  BY <1>1, <2>5, <2>7 DEF TimersKnown, PostedOnce
<1>4. CASE ~(Len(backlog) < MaxBacklog)
  <2>1. backlog' = backlog /\ Queued' = Queued
    BY <1>4 DEF Notify, Queued
  <2>2. AlertsTypeOK'
    BY <1>1, <1>2, <2>1 DEF AlertsTypeOK
  <2>3. OnePlace'
    BY <1>1, <1>2, <2>1 DEF OnePlace
  <2>4. QED  BY <1>1, <2>2, <2>3 DEF TimersKnown, PostedOnce
<1>5. QED  BY <1>3, <1>4

LEMMA OnNotifyHolds == ASSUME AlertsInv, OnNotify PROVE AlertsInv'
<1> USE DEF AlertsInv
<1> DEFINE h == Head(backlog)
<1>1. /\ UNCHANGED <<unsaid, flushes, posts, failed, limited, node>>
      /\ backlog # <<>> /\ backlog' = Tail(backlog)
  BY DEF OnNotify
<1>2. UNCHANGED <<Carried, Taken>>
  BY <1>1 DEF Carried, Taken
<1>3. backlog \in Seq(Notices) /\ Distinct(backlog) /\ pendingN \in Seq(Wanted) /\ Distinct(pendingN)
  BY DEF OnePlace, AlertsTypeOK
<1>4. /\ backlog' \in Seq(Notices) /\ Len(backlog') < Len(backlog) /\ Distinct(backlog')
      /\ Queued = {h} \cup Queued' /\ h \notin Queued'
  BY <1>1, <1>3, TakeOne DEF Queued
<1>5. Len(backlog) \in Nat /\ Len(backlog') \in Nat
  BY <1>3, <1>4, LenProperties
<1> HIDE DEF h
<1>6. CASE h \in Wanted
  <2>1. /\ pendingN' = Append(pendingN, h) /\ timer' = TRUE
        /\ armed' = IF timer THEN armed ELSE armed + 1
    BY <1>6 DEF OnNotify, h
  <2>2. h \notin ToSet(pendingN)
    BY <1>4 DEF OnePlace, Collected
  <2>3. /\ pendingN' \in Seq(Wanted) /\ Distinct(pendingN') /\ Collected' = Collected \cup {h}
    BY <1>3, <1>6, <2>1, <2>2, AppendOne DEF Collected
  <2>4. OnePlace'
    <3>1. OnePlace /\ unsaid' = unsaid /\ flushes' = flushes
          /\ Carried' = Carried /\ Taken' = Taken
      BY <1>1, <1>2
    <3>2. h \in Queued /\ Queued' \subseteq Queued /\ h \notin Queued'
      BY <1>4
    <3>3. /\ unsaid' \cap (Queued' \cup Collected' \cup Carried' \cup Taken') = {}
          /\ Queued' \cap (Collected' \cup Carried' \cup Taken') = {}
          /\ Collected' \cap (Carried' \cup Taken') = {} /\ Carried' \cap Taken' = {}
      BY <2>3, <3>1, <3>2 DEF OnePlace
    <3>4. QED  BY <1>4, <2>3, <3>1, <3>3 DEF OnePlace
  <2>5. TimersKnown' /\ armed' \in 0..2
    BY <1>1, <2>1 DEF TimersKnown, AlertsTypeOK
  <2>6. AlertsTypeOK'
    BY <1>1, <1>4, <1>5, <2>1, <2>3, <2>5, AlertsAssumption DEF AlertsTypeOK
  <2>7. QED  BY <1>1, <2>4, <2>5, <2>6 DEF PostedOnce
<1>7. CASE h \notin Wanted
  <2>1. UNCHANGED <<pendingN, timer, armed, Collected>>
    BY <1>7 DEF OnNotify, h, Collected
  <2>2. OnePlace'
    BY <1>1, <1>2, <1>4, <2>1 DEF OnePlace
  <2>3. AlertsTypeOK'
    BY <1>1, <1>4, <1>5, <2>1, AlertsAssumption DEF AlertsTypeOK
  <2>4. QED  BY <1>1, <2>1, <2>2, <2>3 DEF TimersKnown, PostedOnce
<1>8. QED  BY <1>6, <1>7

(* A flush takes what is pending, all of it.                               *)
LEMMA BeginsHolds ==
    ASSUME AlertsInv, NEW final \in BOOLEAN, takePending, Begins(final),
           UNCHANGED <<unsaid, backlog, posts>>
    PROVE  /\ OnePlace' /\ PostedOnce' /\ timer' = FALSE /\ pendingN' \in Seq(Wanted)
           /\ flushes' \subseteq Batches /\ \A f \in flushes' : f.batch # <<>>
<1> USE DEF AlertsInv
<1> DEFINE g == Flush(final)
<1>1. pendingN' = <<>> /\ timer' = FALSE /\ Distinct(pendingN') /\ pendingN' \in Seq(Wanted)
  BY DEF takePending, Distinct
<1>2. Collected' = {} /\ UNCHANGED <<Queued, Taken>>
  BY <1>1 DEF Collected, Queued, Taken, ToSet
<1>3. CASE pendingN = <<>>
  <2>1. UNCHANGED <<flushes, Carried>>
    BY <1>3 DEF Begins, Carried
  <2>2. OnePlace'
    BY <1>1, <1>2, <2>1 DEF OnePlace
  <2>3. QED  BY <1>1, <2>1, <2>2 DEF PostedOnce, AlertsTypeOK
<1>4. CASE pendingN # <<>>
  <2>1. g \in Batches /\ g.batch = pendingN /\ flushes' = flushes \cup {g}
    BY <1>4 DEF Flush, Begins, Batches, AlertsTypeOK
  <2> HIDE DEF g
  <2>2. Carried' = Carried \cup Collected
    BY <2>1 DEF Carried, Collected
  <2>3. \A f \in flushes : ToSet(f.batch) \cap ToSet(g.batch) = {}
    BY <2>1 DEF OnePlace, Carried, Collected
  <2>4. OnePlace'
    BY <1>1, <1>2, <2>1, <2>2, <2>3 DEF OnePlace
  <2>5. QED  BY <1>1, <1>4, <2>1, <2>4 DEF PostedOnce, AlertsTypeOK
<1>5. QED  BY <1>3, <1>4

LEMMA FlushesHold == ASSUME AlertsInv, TimerFires \/ FinalFlush PROVE AlertsInv'
<1> USE DEF AlertsInv
<1>1. CASE TimerFires
  <2>1. takePending /\ Begins(FALSE) /\ UNCHANGED <<unsaid, backlog, posts, failed, limited, node>>
    BY <1>1 DEF TimerFires
  <2>2. armed' = armed - 1 /\ armed > 0
    BY <1>1 DEF TimerFires
  <2>3. /\ OnePlace' /\ PostedOnce' /\ timer' = FALSE /\ pendingN' \in Seq(Wanted)
        /\ flushes' \subseteq Batches /\ \A f \in flushes' : f.batch # <<>>
    BY <2>1, BeginsHolds
  <2>4. TimersKnown' /\ armed' \in 0..2
    BY <2>1, <2>2, <2>3 DEF TimersKnown, AlertsTypeOK
  <2>5. AlertsTypeOK'
    BY <2>1, <2>3, <2>4 DEF AlertsTypeOK
  <2>6. QED  BY <2>3, <2>4, <2>5
<1>2. CASE FinalFlush
  <2>1. takePending /\ Begins(TRUE) /\ UNCHANGED <<unsaid, armed, backlog, posts, failed, limited>>
    BY <1>2 DEF FinalFlush
  <2>2. node = "stopping" /\ node' = "flushed"
    BY <1>2 DEF FinalFlush
  <2>3. /\ OnePlace' /\ PostedOnce' /\ timer' = FALSE /\ pendingN' \in Seq(Wanted)
        /\ flushes' \subseteq Batches /\ \A f \in flushes' : f.batch # <<>>
    BY <2>1, BeginsHolds
  <2>4. TimersKnown'
    BY <2>1, <2>2, <2>3 DEF TimersKnown, AlertsTypeOK
  <2>5. AlertsTypeOK'
    BY <2>1, <2>2, <2>3 DEF AlertsTypeOK
  <2>6. QED  BY <2>3, <2>4, <2>5
<1>3. QED  BY <1>1, <1>2

(* A flush goes on with what it has left, or with all of it.               *)
LEMMA GoesOnHolds ==
    ASSUME AlertsInv, NEW f \in flushes, NEW G \in SUBSET Batches,
           \A h \in G : /\ h.batch # <<>> /\ Distinct(h.batch)
                        /\ ToSet(h.batch) \subseteq ToSet(f.batch),
           \A h, k \in G : h = k,
           flushes' = (flushes \ {f}) \cup G,
           NEW S \in SUBSET ToSet(f.batch), \A h \in G : S \cap ToSet(h.batch) = {},
           Taken' \subseteq Taken \cup S,
           UNCHANGED <<unsaid, backlog, pendingN>>
    PROVE  OnePlace' /\ flushes' \subseteq Batches /\ \A h \in flushes' : h.batch # <<>>
<1> USE DEF AlertsInv
<1>1. flushes' \subseteq Batches /\ \A h \in flushes' : h.batch # <<>>
  BY DEF AlertsTypeOK
<1>2. UNCHANGED <<Queued, Collected>>
  BY DEF Queued, Collected
<1>3. Carried' \subseteq Carried
  BY DEF Carried
<1>4. S \subseteq Carried
  BY DEF Carried
<1>5. S \cap Carried' = {}
  <2>1. SUFFICES ASSUME NEW h \in flushes' PROVE S \cap ToSet(h.batch) = {}
    BY DEF Carried
  <2>2. CASE h \in G
    BY <2>2
  <2>3. CASE h \notin G
    <3>1. h \in flushes /\ h # f
      BY <2>3
    <3>2. ToSet(f.batch) \cap ToSet(h.batch) = {}
      BY <3>1 DEF OnePlace
    <3>3. QED  BY <3>2
  <2>4. QED  BY <2>2, <2>3
<1>6. \A h \in flushes' : Distinct(h.batch)
  BY DEF OnePlace
<1>7. \A h, k \in flushes' : h = k \/ ToSet(h.batch) \cap ToSet(k.batch) = {}
  <2>1. SUFFICES ASSUME NEW h \in flushes', NEW k \in flushes', h # k
                 PROVE  ToSet(h.batch) \cap ToSet(k.batch) = {}
    OBVIOUS
  <2>2. CASE h \in G
    <3>1. k \in flushes /\ k # f /\ ToSet(h.batch) \subseteq ToSet(f.batch)
      BY <2>1, <2>2
    <3>2. ToSet(f.batch) \cap ToSet(k.batch) = {}
      BY <3>1 DEF OnePlace
    <3>3. QED  BY <3>1, <3>2
  <2>3. CASE k \in G
    <3>1. h \in flushes /\ h # f /\ ToSet(k.batch) \subseteq ToSet(f.batch)
      BY <2>1, <2>3
    <3>2. ToSet(f.batch) \cap ToSet(h.batch) = {}
      BY <3>1 DEF OnePlace
    <3>3. QED  BY <3>1, <3>2
  <2>4. CASE h \notin G /\ k \notin G
    BY <2>1, <2>4 DEF OnePlace
  <2>5. QED  BY <2>2, <2>3, <2>4
<1>8. OnePlace'
  BY <1>2, <1>3, <1>4, <1>5, <1>6, <1>7 DEF OnePlace
<1>9. QED  BY <1>1, <1>8

(* What a post carries and what stays for the next.                        *)
LEMMA onwardFacts ==
    ASSUME AlertsInv, NEW f \in flushes, onward(f)
    PROVE  /\ Chunk(f) \subseteq ToSet(f.batch) /\ Chunk(f) \subseteq Wanted
           /\ \E G \in SUBSET Batches :
                 /\ flushes' = (flushes \ {f}) \cup G
                 /\ \A h, k \in G : h = k
                 /\ \A h \in G : /\ h.batch # <<>> /\ Distinct(h.batch)
                                 /\ ToSet(h.batch) \subseteq ToSet(f.batch)
                                 /\ Chunk(f) \cap ToSet(h.batch) = {}
<1> DEFINE q == f.batch
           k == IF Len(q) < MaxEmbeds THEN Len(q) ELSE MaxEmbeds
           r == SubSeq(q, k + 1, Len(q))
<1>1. q \in Seq(Wanted) /\ Distinct(q) /\ f \in Batches
  BY DEF AlertsInv, AlertsTypeOK, Batches, OnePlace
<1>2. Len(q) \in Nat /\ DOMAIN q = 1..Len(q)
  BY <1>1, LenProperties
<1>3. k \in 0..Len(q) /\ (Len(q) <= MaxEmbeds \/ (k = MaxEmbeds /\ Len(q) - k # 0))
  <2>1. \A n \in Nat : LET m == IF n < MaxEmbeds THEN n ELSE MaxEmbeds
                        IN  m \in 0..n /\ (n <= MaxEmbeds \/ (m = MaxEmbeds /\ n - m # 0))
    BY AlertsAssumption
  <2>2. QED  BY <1>2, <2>1, Zenon
<1>4. Chunk(f) = ToSet(SubSeq(q, 1, k))
  BY DEF Chunk
<1>5. ToSet(q) \subseteq Wanted
  BY <1>1, <1>2 DEF ToSet
<1> HIDE DEF q, k
<1>6. /\ r \in Seq(Wanted) /\ Len(r) = Len(q) - k /\ Distinct(r)
      /\ ToSet(q) = ToSet(SubSeq(q, 1, k)) \cup ToSet(r) /\ ToSet(SubSeq(q, 1, k)) \cap ToSet(r) = {}
  BY <1>1, <1>3, CutInTwo
<1>7. CASE Len(q) <= MaxEmbeds
  <2>1. flushes' = (flushes \ {f}) \cup {}
    BY <1>7 DEF onward, q
  <2>2. QED  BY <1>4, <1>5, <1>6, <2>1 DEF q
<1>8. CASE ~(Len(q) <= MaxEmbeds)
  <2> DEFINE h == [f EXCEPT !.batch = r, !.attempt = 1, !.waits = FALSE]
  <2>1. k = MaxEmbeds /\ Len(q) - k # 0
    BY <1>3, <1>8
  <2>2. flushes' = (flushes \ {f}) \cup {h}
    BY <1>8, <2>1 DEF onward, q
  <2>3. h \in Batches /\ h.batch = r
    BY <1>1, <1>6 DEF Batches
  <2>4. r # <<>>
    <3>1. Len(r) # 0
      BY <1>6, <2>1
    <3>2. QED  BY <1>6, <3>1, EmptySeq, Zenon
  <2> HIDE DEF h, r
  <2>5. /\ {h} \in SUBSET Batches
        /\ \A x \in {h} : /\ x.batch # <<>> /\ Distinct(x.batch)
                          /\ ToSet(x.batch) \subseteq ToSet(f.batch)
                          /\ Chunk(f) \cap ToSet(x.batch) = {}
    BY <1>4, <1>6, <2>3, <2>4 DEF q
  <2>6. QED  BY <1>4, <1>5, <1>6, <2>2, <2>5 DEF q
<1>9. QED  BY <1>7, <1>8

(* Discord took the post, or did not.                                      *)
LEMMA PostHolds ==
    ASSUME AlertsInv, NEW f \in flushes, Posted(f) \/ PostFails(f)
    PROVE  AlertsInv'
<1> USE DEF AlertsInv
<1>1. onward(f) /\ UNCHANGED <<unsaid, backlog, pendingN, timer, armed, limited, node>>
  BY DEF Posted, PostFails
<1>2. posts' = posts \/ posts' = Counted(f)
  BY DEF Posted, PostFails
<1>3. failed' \subseteq failed \cup Chunk(f)
  BY DEF Posted, PostFails
<1>4. Chunk(f) \subseteq ToSet(f.batch) /\ Chunk(f) \subseteq Wanted
  BY <1>1, onwardFacts
<1>5. PICK G \in SUBSET Batches :
         /\ flushes' = (flushes \ {f}) \cup G
         /\ \A h, k \in G : h = k
         /\ \A h \in G : /\ h.batch # <<>> /\ Distinct(h.batch)
                         /\ ToSet(h.batch) \subseteq ToSet(f.batch)
                         /\ Chunk(f) \cap ToSet(h.batch) = {}
  BY <1>1, onwardFacts
<1>6. \A n \in Chunk(f) : n \in Carried /\ n \notin Taken
  BY <1>4 DEF Carried, OnePlace
<1>7. posts \in [Notices -> Nat]
  BY DEF AlertsTypeOK
<1>8. /\ posts' \in [Notices -> Nat]
      /\ \A n \in Notices : posts'[n] = posts[n] \/ (n \in Chunk(f) /\ posts'[n] = posts[n] + 1)
  BY <1>2, <1>7 DEF Counted
<1>9. Taken' \subseteq Taken \cup Chunk(f)
  BY <1>8 DEF Taken
<1>10. PostedOnce'
  <2>1. SUFFICES ASSUME NEW n \in Notices PROVE posts'[n] <= 1
    BY DEF PostedOnce
  <2>2. CASE posts'[n] = posts[n]
    BY <2>2 DEF PostedOnce
  <2>3. CASE n \in Chunk(f) /\ posts'[n] = posts[n] + 1
    BY <1>6, <2>3 DEF Taken
  <2>4. QED  BY <1>8, <2>2, <2>3
<1>11. OnePlace' /\ flushes' \subseteq Batches /\ \A h \in flushes' : h.batch # <<>>
  <2>1. Chunk(f) \in SUBSET ToSet(f.batch)
    BY <1>4
  <2>2. QED  BY <1>1, <1>5, <1>9, <2>1, GoesOnHolds
<1>12. AlertsTypeOK'
  BY <1>1, <1>3, <1>4, <1>8, <1>11 DEF AlertsTypeOK
<1>13. QED  BY <1>1, <1>10, <1>11, <1>12 DEF TimersKnown

LEMMA RetryHolds ==
    ASSUME AlertsInv, NEW f \in flushes, RateLimited(f) \/ RetryAfter(f)
    PROVE  AlertsInv'
<1> USE DEF AlertsInv
<1>1. UNCHANGED <<unsaid, backlog, pendingN, timer, armed, posts, failed, node, Taken>>
  BY DEF RateLimited, RetryAfter, Taken
<1>2. f \in Batches /\ f.batch # <<>> /\ Distinct(f.batch)
  BY DEF AlertsTypeOK, OnePlace
<1>3. \E h \in Batches : h.batch = f.batch /\ flushes' = (flushes \ {f}) \cup {h}
  <2>1. [f EXCEPT !.waits = TRUE] \in Batches /\ [f EXCEPT !.waits = TRUE].batch = f.batch
    BY <1>2 DEF Batches
  <2>2. /\ [f EXCEPT !.waits = FALSE, !.attempt = 2] \in Batches
        /\ [f EXCEPT !.waits = FALSE, !.attempt = 2].batch = f.batch
    BY <1>2 DEF Batches
  <2>3. QED  BY <2>1, <2>2 DEF RateLimited, RetryAfter
<1>4. PICK h \in Batches : h.batch = f.batch /\ flushes' = (flushes \ {f}) \cup {h}
  BY <1>3
<1>5. limited' \in 0..RateLimits
  BY AlertsAssumption DEF RateLimited, RetryAfter, AlertsTypeOK
<1>6. OnePlace' /\ flushes' \subseteq Batches /\ \A x \in flushes' : x.batch # <<>>
  <2>1. /\ {h} \in SUBSET Batches /\ {} \in SUBSET ToSet(f.batch)
        /\ \A x \in {h} : /\ x.batch # <<>> /\ Distinct(x.batch)
                          /\ ToSet(x.batch) \subseteq ToSet(f.batch)
        /\ \A x, y \in {h} : x = y /\ \A x1 \in {h} : {} \cap ToSet(x1.batch) = {}
        /\ Taken' \subseteq Taken \cup {}
    BY <1>1, <1>2, <1>4
  <2>2. QED  BY <1>1, <1>4, <2>1, GoesOnHolds
<1>7. AlertsTypeOK'
  BY <1>1, <1>5, <1>6 DEF AlertsTypeOK
<1>8. QED  BY <1>1, <1>6, <1>7 DEF TimersKnown, PostedOnce

LEMMA AlertsStepHolds == AlertsInv /\ [AlertsNext]_alertVars => AlertsInv'
<1> SUFFICES ASSUME AlertsInv, [AlertsNext]_alertVars PROVE AlertsInv'
  OBVIOUS
<1>1. CASE \/ UNCHANGED alertVars \/ Stop \/ Exit
  <2>1. /\ UNCHANGED <<unsaid, backlog, pendingN, timer, armed, flushes, posts, failed, limited>>
        /\ node' = node \/ (node = "up" /\ node' = "stopping") \/ node' = "gone"
    BY <1>1 DEF alertVars, Stop, Exit
  <2>2. UNCHANGED <<Queued, Collected, Carried, Taken>>
    BY <2>1 DEF Queued, Collected, Carried, Taken
  <2>3. OnePlace'
    BY <2>1, <2>2 DEF AlertsInv, OnePlace
  <2>4. AlertsTypeOK' /\ TimersKnown'
    BY <2>1 DEF AlertsInv, AlertsTypeOK, TimersKnown
  <2>5. QED  BY <2>1, <2>3, <2>4 DEF AlertsInv, PostedOnce
<1>2. CASE AlertsNext /\ ~Stop /\ ~Exit
  BY <1>2, NotifyHolds, OnNotifyHolds, FlushesHold, PostHolds, RetryHolds DEF AlertsNext
<1>3. QED  BY <1>1, <1>2

(* No notice is posted twice, whatever flushes overlap, are rate-limited   *)
(* and retried, and whatever the last flush of a daemon that stops takes   *)
(* (flush, Post): a notice is in one place at most.                        *)
THEOREM NoticesOnce == AlertsSpec => []PostedOnce
<1>1. AlertsInv => PostedOnce
  BY DEF AlertsInv
<1>2. QED  BY <1>1, AlertsInitHolds, AlertsStepHolds, PTL DEF AlertsSpec

-----------------------------------------------------------------------------
(* What the egg tells the node *)

Calling == {<<"no">>, <<"begins">>} \cup {<<"read", s>> : s \in States}

(* Once the run is over the state stays as it is, and so is what the       *)
(* goroutines read if none of them held an older reading then.             *)
ReadsAreFinal == unsent \/ \A p \in Senders, s \in States : sending[p] = <<"read", s>> => s = state

StateInv ==
    /\ StateTypeOK
    /\ run # "on" => ~state[2] /\ ReadsAreFinal
    /\ run \in {"closing", "over"} /\ client = "good" =>
           unsent \/ ~Idle("connect") \/ known = <<state>>

LEMMA CallingType ==
    /\ <<"no">> \in Calling /\ <<"begins">> \in Calling /\ <<"no">> # <<"begins">>
    /\ \A s \in States : /\ <<"read", s>> \in Calling
                         /\ <<"read", s>> # <<"no">> /\ <<"read", s>> # <<"begins">>
    /\ \A s, u \in States : <<"read", s>> = <<"read", u>> => s = u
BY DEF Calling

(* A goroutine's own step in a call of sendState.                          *)
LEMMA SenderHolds ==
    ASSUME StateInv, NEW p \in Senders, reads(p) \/ send(p)
    PROVE  StateInv'
<1>1. /\ StateTypeOK /\ state \in States /\ sending \in [Senders -> Calling]
      /\ "main" \in Senders /\ "connect" \in Senders
  BY DEF StateInv, StateTypeOK, Calling, Senders
<1>2. CASE reads(p)
  <2>1. /\ sending[p] = <<"begins">> /\ sending' = [sending EXCEPT ![p] = <<"read", state>>]
        /\ run # "over" /\ UNCHANGED <<state, run, unsent, told, client, known, restarts>>
    BY <1>2 DEF reads
  <2>2. sending' \in [Senders -> Calling]
    BY <1>1, <2>1, CallingType
  <2>3. run # "on" => ~state[2] /\ ReadsAreFinal'
    BY <1>1, <2>1, CallingType DEF StateInv, ReadsAreFinal
  <2>4. StateTypeOK'
    BY <1>1, <2>1, <2>2 DEF StateTypeOK, Calling
  <2>5. ~Idle("connect") => ~Idle("connect")'
    BY <1>1, <2>1, CallingType DEF Idle
  <2>6. QED  BY <2>1, <2>3, <2>4, <2>5 DEF StateInv
<1>3. CASE send(p)
  <2>1. PICK s \in States : sending[p] = <<"read", s>>
    BY <1>3 DEF send
  <2>2. /\ sending' = [sending EXCEPT ![p] = <<"no">>] /\ run # "over"
        /\ run' = IF p = "main" /\ run = "ending" THEN "closing" ELSE run
        /\ UNCHANGED <<state, unsent, told, client, restarts>>
    BY <1>3 DEF send
  <2>3. known' = IF client = "good" THEN <<s>> ELSE known
    <3>1. sending[p][2] = s
      BY <2>1
    <3>2. QED  BY <1>3, <3>1 DEF send
  <2>4. sending' \in [Senders -> Calling]
    BY <1>1, <2>2, CallingType
  <2>5. StateTypeOK'
    <3>1. known' \in {<<>>} \cup {<<x>> : x \in States} /\ run' \in {"on", "ending", "closing", "over"}
      BY <1>1, <2>2, <2>3 DEF StateTypeOK
    <3>2. QED  BY <1>1, <2>2, <2>4, <3>1 DEF StateTypeOK, Calling
  <2>6. run # "on" => run' # "on" /\ ~state[2] /\ ReadsAreFinal
    BY <2>2 DEF StateInv
  <2>7. run' # "on" => run # "on"
    BY <2>2
  <2>8. run # "on" => ReadsAreFinal'
    BY <1>1, <2>2, <2>6, CallingType DEF ReadsAreFinal
  <2>9. run # "on" => unsent \/ s = state
    BY <2>1, <2>6 DEF ReadsAreFinal
  <2>10. run' \in {"closing", "over"} /\ client = "good" => unsent \/ known' = <<state>>
    BY <2>3, <2>7, <2>9
  <2>11. QED  BY <2>2, <2>5, <2>6, <2>7, <2>8, <2>10 DEF StateInv
<1>4. QED  BY <1>2, <1>3

(* A goroutine that calls sendState while the state stays as it is.        *)
LEMMA CallHolds ==
    ASSUME StateInv, NEW p \in Senders, Calls(p), run # "over",
           p = "connect" \/ client' = client,
           client' \in {"none", "good", "dead"},
           UNCHANGED <<state, run, unsent, told, known, restarts>>
    PROVE  StateInv'
<1>1. /\ StateTypeOK /\ sending \in [Senders -> Calling] /\ "connect" \in Senders
      /\ sending' = [sending EXCEPT ![p] = <<"begins">>]
  BY DEF StateInv, StateTypeOK, Calling, Senders, Calls
<1>2. sending' \in [Senders -> Calling] /\ sending'[p] = <<"begins">>
  BY <1>1, CallingType
<1>3. StateTypeOK'
  BY <1>1, <1>2 DEF StateTypeOK, Calling, States
<1>4. run # "on" => ~state[2] /\ ReadsAreFinal'
  BY <1>1, <1>2, CallingType DEF StateInv, ReadsAreFinal
<1>5. p = "connect" => ~Idle("connect")'
  BY <1>1, <1>2, CallingType DEF Idle
<1>6. ~Idle("connect") => ~Idle("connect")'
  BY <1>1, <1>2, CallingType DEF Idle
<1>7. QED  BY <1>3, <1>4, <1>5, <1>6 DEF StateInv

LEMMA StateStepHolds == StateInv /\ [StateNext]_stateVars => StateInv'
<1> SUFFICES ASSUME StateInv, [StateNext]_stateVars PROVE StateInv'
  OBVIOUS
<1>1. /\ StateTypeOK /\ {"main", "reader", "heartbeat", "connect"} \subseteq Senders
  BY DEF StateInv, Senders
<1>2. state \in States /\ state[1] \in Nat /\ state[1] \in 0..Changes
  BY <1>1, StateAssumption DEF StateTypeOK, States
<1>3. sending \in [Senders -> Calling]
  BY <1>1 DEF StateTypeOK, Calling
<1>4. CASE Feed
  <2>1. state' \in States
    <3>1. state[1] + 1 \in 0..Changes
      BY <1>2, <1>4, StateAssumption DEF Feed
    <3>2. QED  BY <1>4, <3>1 DEF Feed, States
  <2>2. sending' \in [Senders -> Calling]
    BY <1>1, <1>3, <1>4, CallingType DEF Feed, Calls
  <2>3. UNCHANGED <<run, unsent, told, client, known, restarts>> /\ run = "on"
    BY <1>4 DEF Feed
  <2>4. StateTypeOK'
    BY <1>1, <2>1, <2>2, <2>3 DEF StateTypeOK, Calling, States
  <2>5. QED  BY <2>3, <2>4 DEF StateInv
<1>5. CASE Heartbeat
  BY <1>1, <1>5, CallHolds DEF Heartbeat, beat, StateTypeOK
<1>6. CASE SetUp
  <2>1. state' \in States /\ ~state'[2]
    BY <1>2, <1>6 DEF SetUp, States
  <2>2. /\ Idle("main") /\ Idle("reader") /\ sending' = [sending EXCEPT !["main"] = <<"begins">>]
        /\ run' = "ending" /\ UNCHANGED <<told, client, known, restarts>>
        /\ unsent' = \E p \in {"heartbeat", "connect"} : sending[p] \notin {<<"no">>, <<"begins">>}
    BY <1>6 DEF SetUp, Calls
  <2>3. sending' \in [Senders -> Calling]
    BY <1>1, <1>3, <2>2, CallingType
  <2>4. unsent' \in BOOLEAN
    BY <2>2
  <2>5. StateTypeOK'
    BY <1>1, <2>1, <2>2, <2>3, <2>4 DEF StateTypeOK, Calling, States
  <2>6. ASSUME ~unsent', NEW p \in Senders PROVE sending'[p] \in {<<"no">>, <<"begins">>}
    <3>1. p \in {"main", "reader", "heartbeat", "connect"}
      BY DEF Senders
    <3>2. CASE p \in {"heartbeat", "connect"}
      BY <1>3, <2>2, <2>6, <3>2
    <3>3. CASE p \in {"main", "reader"}
      BY <1>3, <2>2, <3>3 DEF Idle
    <3>4. QED  BY <3>1, <3>2, <3>3
  <2>7. ReadsAreFinal'
    BY <2>6, CallingType DEF ReadsAreFinal, States
  <2>8. QED  BY <2>1, <2>2, <2>5, <2>7 DEF StateInv
<1>7. CASE Connect
  BY <1>1, <1>7, CallHolds DEF Connect, StateTypeOK
<1>8. CASE LinkLost \/ Told \/ NodeRestarts
  <2>1. UNCHANGED <<state, run, unsent, sending>>
    BY <1>8 DEF LinkLost, Told, NodeRestarts
  <2>2. client' # "good" \/ UNCHANGED <<client, known>>
    BY <1>8 DEF LinkLost, Told, NodeRestarts
  <2>3. client' \in {"none", "good", "dead"} /\ told' \in BOOLEAN
    BY <1>1, <1>8 DEF LinkLost, Told, NodeRestarts, StateTypeOK
  <2>4. restarts' \in 0..NodeStarts
    BY <1>1, <1>8, StateAssumption DEF LinkLost, Told, NodeRestarts, StateTypeOK
  <2>5. known' \in {<<>>} \cup {<<s>> : s \in States}
    BY <1>1, <1>8 DEF LinkLost, Told, NodeRestarts, StateTypeOK
  <2>6. StateTypeOK'
    BY <1>1, <2>1, <2>3, <2>4, <2>5 DEF StateTypeOK, States
  <2>7. QED  BY <2>1, <2>2, <2>6 DEF StateInv, ReadsAreFinal, Idle
<1>9. CASE ProcessEnds
  <2>1. run = "closing" /\ run' = "over" /\ UNCHANGED <<state, unsent, told, sending, client, known, restarts>>
    BY <1>9 DEF ProcessEnds
  <2>2. StateTypeOK'
    BY <1>1, <2>1 DEF StateTypeOK, States
  <2>3. QED  BY <2>1, <2>2 DEF StateInv, ReadsAreFinal, Idle
<1>10. CASE UNCHANGED stateVars
  BY <1>10 DEF stateVars, StateInv, StateTypeOK, ReadsAreFinal, Idle, States
<1>11. QED
  BY <1>4, <1>5, <1>6, <1>7, <1>8, <1>9, <1>10, SenderHolds DEF StateNext

LEMMA StateInitHolds == StateInit => StateInv
<1> SUFFICES ASSUME StateInit PROVE StateInv
  OBVIOUS
<1>1. 0 \in 0..Changes /\ 0 \in 0..NodeStarts
  BY StateAssumption
<1>2. state \in States
  BY <1>1 DEF StateInit, States
<1>3. sending \in [Senders -> Calling]
  BY CallingType DEF StateInit
<1>4. StateTypeOK
  BY <1>1, <1>2, <1>3 DEF StateInit, StateTypeOK, Calling
<1>5. QED  BY <1>4 DEF StateInit, StateInv

LEMMA StateInvTold == StateInv => EndIsTold
BY DEF StateInv, EndIsTold

(* boot.go, Run's end, and main.go: unless a goroutine held a reading from *)
(* before the end of the run, whatever is sent between SetUp and the end   *)
(* of the process, and in whatever order, leaves a node that is connected  *)
(* then, and was told something since it is, knowing the server as down.   *)
THEOREM EndTold == StateSpec => []EndIsTold
<1>1. QED  BY StateInvTold, StateInitHolds, StateStepHolds, PTL DEF StateSpec

-----------------------------------------------------------------------------
(* The cleanup *)

(* Every path that the pass is through with gave at most a volume to the   *)
(* count.  Without delete_parent_dir what is skipped is not removed.       *)
Through == Cardinality(Paths \ pass.rest) * Cardinality(Paths)

CleanupInv ==
    /\ CleanupTypeOK
    /\ pass.at = "walk" => counted = 0 /\ removed = {}
    /\ pass.at = "delete" => counted <= Through
    /\ ~DeleteParentDir => OpenFilesStay

Passes == [at : {"idle", "walk", "delete"}, skip : SUBSET Paths, rest : SUBSET Paths]

(* The count of a pass, path by path. *)
LEMMA CountFacts ==
    /\ Cardinality(Paths) \in Nat
    /\ \A R \in SUBSET Paths : /\ Cardinality(R) \in 0..Cardinality(Paths)
                               /\ Cardinality(Paths \ R) * Cardinality(Paths) \in Nat
    /\ \A R \in SUBSET Paths, p \in Paths : p \in R =>
          Cardinality(Paths \ (R \ {p})) * Cardinality(Paths)
             = Cardinality(Paths \ R) * Cardinality(Paths) + Cardinality(Paths)
    /\ \A R \in SUBSET Paths :
          Cardinality(Paths \ R) * Cardinality(Paths) <= Cardinality(Paths) * Cardinality(Paths)
<1> DEFINE n == Cardinality(Paths)
<1>1. IsFiniteSet(Paths)
  BY CleanupAssumption
<1>2. n \in Nat
  BY <1>1, FS_CardinalityType
<1>3. ASSUME NEW R \in SUBSET Paths
      PROVE  /\ IsFiniteSet(R) /\ Cardinality(R) \in Nat /\ Cardinality(R) <= n
             /\ Cardinality(R) \in 0..n
  <2>1. IsFiniteSet(R) /\ Cardinality(R) <= n
    BY <1>1, FS_Subset
  <2>2. Cardinality(R) \in Nat
    BY <2>1, FS_CardinalityType
  <2> HIDE DEF n
  <2>3. QED  BY <1>2, <2>1, <2>2
<1>4. /\ \A a \in Nat : a * n \in Nat /\ (a + 1) * n = a * n + n
      /\ \A a \in Nat : a <= n => a * n <= n * n
  <2>1. \A m \in Nat : \A a \in Nat : /\ a * m \in Nat /\ (a + 1) * m = a * m + m
                                      /\ a <= m => a * m <= m * m
    OBVIOUS
  <2> HIDE DEF n
  <2>2. QED  BY <1>2, <2>1
<1>5. ASSUME NEW R \in SUBSET Paths, NEW p \in Paths, p \in R
      PROVE  Cardinality(Paths \ (R \ {p})) = Cardinality(Paths \ R) + 1
  <2>1. Paths \ (R \ {p}) = (Paths \ R) \cup {p} /\ p \notin Paths \ R
    BY <1>5
  <2>2. IsFiniteSet(Paths \ R)
    BY <1>3
  <2>3. QED  BY <2>1, <2>2, FS_AddElement
<1> HIDE DEF n
<1>6. \A R \in SUBSET Paths : Paths \ R \in SUBSET Paths
  OBVIOUS
<1>7. \A R \in SUBSET Paths : /\ Cardinality(Paths \ R) * n \in Nat
                              /\ Cardinality(Paths \ R) * n <= n * n
  BY <1>3, <1>4, <1>6
<1>8. \A R \in SUBSET Paths, p \in Paths : p \in R =>
          Cardinality(Paths \ (R \ {p})) * n = Cardinality(Paths \ R) * n + n
  BY <1>3, <1>4, <1>5, <1>6
<1>9. QED  BY <1>2, <1>3, <1>7, <1>8 DEF n

(* The pass goes on to its next path, having counted at most a volume.     *)
LEMMA NextHolds ==
    ASSUME CleanupInv, pass.at = "delete", NEW p \in pass.rest, next(p),
           NEW more \in 0..Cardinality(Paths), counted' = counted + more,
           files' \subseteq Paths, fresh' \subseteq files', open' \subseteq files',
           running' = running, removed' \subseteq Paths,
           ~DeleteParentDir => pass.skip \cap (removed' \ removed) = {}
    PROVE  CleanupInv'
<1> DEFINE n == Cardinality(Paths)
           rest == pass.rest \ {p}
<1>1. /\ CleanupTypeOK /\ pass \in Passes /\ counted \in Nat /\ counted <= Through
      /\ pass.rest \in SUBSET Paths /\ p \in Paths /\ rest \in SUBSET Paths
  <2>1. counted \in 0..n * n /\ n * n \in Nat
    BY CountFacts DEF CleanupInv, CleanupTypeOK
  <2>2. QED  BY <2>1 DEF CleanupInv, CleanupTypeOK, Passes
<1>2. /\ n \in Nat /\ Cardinality(Paths \ rest) * n = Through + n
      /\ Cardinality(Paths \ rest) * n <= n * n
      /\ Through \in Nat /\ Cardinality(Paths \ rest) * n \in Nat
  BY <1>1, CountFacts DEF Through
<1>3. n * n \in Nat
  BY <1>2
<1> HIDE DEF n
<1>4. counted' <= Cardinality(Paths \ rest) * n /\ counted' \in 0..n * n
  <2>1. more \in Nat /\ more <= n
    BY <1>2 DEF n
  <2>2. \A a, b, c, d \in Nat : c <= a /\ more <= n /\ b = a + n /\ b <= d
                                    => c + more <= b /\ c + more \in 0..d
    BY <1>2, <2>1
  <2>3. QED  BY <1>1, <1>2, <1>3, <2>1, <2>2
<1>5. pass' = NoPass \/ pass' = [pass EXCEPT !.rest = rest]
  BY DEF next
<1>6. /\ pass' \in Passes
      /\ pass'.at = "idle" \/ (pass'.at = "delete" /\ pass'.rest = rest)
      /\ pass'.skip \subseteq pass.skip
  <2>1. CASE pass' = NoPass
    BY <2>1 DEF NoPass, Passes
  <2>2. CASE pass' = [pass EXCEPT !.rest = rest]
    BY <1>1, <2>2 DEF Passes
  <2>3. QED  BY <1>5, <2>1, <2>2
<1>7. CleanupTypeOK'
  <2>1. running' \in BOOLEAN
    BY <1>1 DEF CleanupTypeOK
  <2>2. counted' \in 0..Cardinality(Paths) * Cardinality(Paths)
    BY <1>4 DEF n
  <2>3. QED  BY <1>6, <2>1, <2>2 DEF CleanupTypeOK, Passes
<1>8. pass'.at = "delete" => counted' <= Through'
  BY <1>4, <1>6 DEF Through, n
<1>9. ~DeleteParentDir => OpenFilesStay'
  BY <1>6 DEF CleanupInv, OpenFilesStay
<1>10. QED  BY <1>6, <1>7, <1>8, <1>9 DEF CleanupInv

LEMMA CleanupStepHolds == CleanupInv /\ [CleanupNext]_cleanupVars => CleanupInv'
<1> SUFFICES ASSUME CleanupInv, [CleanupNext]_cleanupVars PROVE CleanupInv'
  OBVIOUS
<1>1. /\ CleanupTypeOK /\ pass \in Passes
      /\ files \subseteq Paths /\ fresh \subseteq files /\ open \subseteq files
      /\ ~DeleteParentDir => OpenFilesStay
  BY DEF CleanupInv, CleanupTypeOK, Passes
<1>2. 0 \in 0..Cardinality(Paths) * Cardinality(Paths) /\ 0 \in 0..Cardinality(Paths)
  <2>1. \A n \in Nat : 0 \in 0..n * n /\ 0 \in 0..n
    OBVIOUS
  <2>2. QED  BY <2>1, CountFacts
<1>3. CASE openFiles
  <2>1. /\ pass' \in Passes /\ pass'.at = "walk" /\ counted' = 0 /\ removed' = {}
        /\ UNCHANGED <<files, fresh, open, running>>
    BY <1>1, <1>3 DEF openFiles, Passes, server
  <2>2. CleanupTypeOK'
    BY <1>1, <1>2, <2>1 DEF CleanupTypeOK, Passes
  <2>3. QED  BY <2>1, <2>2 DEF CleanupInv, OpenFilesStay
<1>4. CASE walk
  <2>1. /\ pass.at = "walk" /\ pass' = [pass EXCEPT !.at = "delete", !.rest = matched]
        /\ UNCHANGED <<files, fresh, open, running, counted, removed>>
    BY <1>4 DEF walk, server, tally
  <2>2. pass' \in Passes /\ pass'.at = "delete" /\ pass'.skip = pass.skip
    BY <1>1, <2>1 DEF Passes, matched
  <2>3. CleanupTypeOK'
    BY <1>1, <2>1, <2>2 DEF CleanupTypeOK, Passes
  <2>4. counted' = 0 /\ Through' \in Nat
    BY <2>1, <2>2, CountFacts DEF CleanupInv, Through, Passes
  <2>5. QED  BY <1>1, <2>1, <2>2, <2>3, <2>4 DEF CleanupInv, OpenFilesStay
<1>5. CASE NothingMatches
  <2>1. /\ pass' = NoPass /\ UNCHANGED <<files, fresh, open, running, counted, removed>>
    BY <1>5 DEF NothingMatches, server, tally
  <2>2. CleanupTypeOK'
    BY <1>1, <2>1 DEF CleanupTypeOK, NoPass
  <2>3. QED  BY <2>1, <2>2 DEF CleanupInv, NoPass, OpenFilesStay
<1>6. ASSUME NEW p \in Paths, Skip(p) PROVE CleanupInv'
  <2>1. pass.at = "delete" /\ p \in pass.rest /\ next(p)
        /\ UNCHANGED <<files, fresh, open, running, counted, removed>>
    BY <1>6 DEF Skip, server, tally
  <2>2. counted \in 0..Cardinality(Paths) * Cardinality(Paths)
    BY <1>1 DEF CleanupTypeOK
  <2>3. counted' = counted + 0
    <3>1. \A n \in Nat : \A c \in 0..n * n : c = c + 0
      OBVIOUS
    <3>2. QED  BY <2>1, <2>2, <3>1, CountFacts
  <2>4. removed \subseteq Paths
    BY <1>1 DEF CleanupTypeOK
  <2>5. QED  BY <1>1, <1>2, <2>1, <2>3, <2>4, NextHolds
<1>7. ASSUME NEW p \in Paths, Delete(p) PROVE CleanupInv'
  <2>1. PICK S \in SUBSET Victims(p) :
           /\ files' = files \ S /\ removed' = removed \cup S
           /\ fresh' = fresh \ S /\ open' = open \ S
           /\ counted' = IF S = Victims(p) THEN counted + Cardinality(S) ELSE counted
    BY <1>7 DEF Delete
  <2>2. pass.at = "delete" /\ p \in pass.rest /\ p \notin pass.skip /\ next(p) /\ running' = running
    BY <1>7 DEF Delete
  <2>3. Victims(p) \subseteq files /\ (~DeleteParentDir => Victims(p) \subseteq {p})
    BY DEF Victims, Bundle, Folder
  <2>4. S \in SUBSET Paths /\ Cardinality(S) \in 0..Cardinality(Paths)
    BY <1>1, <2>3, CountFacts
  <2>5. removed \subseteq Paths /\ counted \in 0..Cardinality(Paths) * Cardinality(Paths)
    BY <1>1 DEF CleanupTypeOK
  <2>6. counted = counted + 0
    <3>1. \A n \in Nat : \A c \in 0..n * n : c = c + 0
      OBVIOUS
    <3>2. QED  BY <2>5, <3>1, CountFacts
  <2>7. \E more \in 0..Cardinality(Paths) : counted' = counted + more
    BY <1>2, <2>1, <2>4, <2>6
  <2>8. ~DeleteParentDir => pass.skip \cap (removed' \ removed) = {}
    BY <2>1, <2>2, <2>3
  <2>9. files' \subseteq Paths /\ fresh' \subseteq files' /\ open' \subseteq files' /\ removed' \subseteq Paths
    BY <1>1, <2>1, <2>4, <2>5
  <2>10. QED  BY <2>2, <2>7, <2>8, <2>9, NextHolds
<1>8. ASSUME NEW p \in Paths, writes(p) \/ closes(p) \/ grows(p) PROVE CleanupInv'
  <2>1. /\ files' \subseteq Paths /\ fresh' \subseteq files' /\ open' \subseteq files'
        /\ UNCHANGED <<running, pass, counted, removed>>
    BY <1>1, <1>8 DEF writes, closes, grows, tally
  <2>2. CleanupTypeOK'
    BY <1>1, <2>1 DEF CleanupTypeOK
  <2>3. QED  BY <2>1, <2>2 DEF CleanupInv, Through, OpenFilesStay
<1>9. CASE turns
  <2>1. open' = {} /\ running' \in BOOLEAN /\ UNCHANGED <<files, fresh, pass, counted, removed>>
    BY <1>1, <1>9 DEF turns, tally, CleanupTypeOK
  <2>2. CleanupTypeOK'
    BY <1>1, <2>1 DEF CleanupTypeOK
  <2>3. QED  BY <2>1, <2>2 DEF CleanupInv, Through, OpenFilesStay
<1>10. CASE UNCHANGED cleanupVars
  BY <1>10 DEF cleanupVars, CleanupInv, CleanupTypeOK, Through, OpenFilesStay
<1>11. QED
  BY <1>3, <1>4, <1>5, <1>6, <1>7, <1>8, <1>9, <1>10 DEF CleanupNext

LEMMA CleanupInitHolds == CleanupInit => CleanupInv
<1> SUFFICES ASSUME CleanupInit PROVE CleanupInv
  OBVIOUS
<1>1. 0 \in 0..Cardinality(Paths) * Cardinality(Paths)
  <2>1. \A n \in Nat : 0 \in 0..n * n
    OBVIOUS
  <2>2. QED  BY <2>1, CountFacts
<1>2. QED  BY <1>1 DEF CleanupInit, CleanupInv, CleanupTypeOK, NoPass, OpenFilesStay

(* docs/modules/cleanup.md, "leaves those paths alone": true of a rule     *)
(* that deletes file by file, whatever the server opens, writes and closes *)
(* meanwhile; what the rule with delete_parent_dir does, the run shows.    *)
THEOREM OpenFilesAreSpared == ASSUME ~DeleteParentDir PROVE CleanupSpec => []OpenFilesStay
<1>1. CleanupInv => OpenFilesStay
  BY DEF CleanupInv
<1>2. QED  BY <1>1, CleanupInitHolds, CleanupStepHolds, PTL DEF CleanupSpec

-----------------------------------------------------------------------------
(* The nine together *)

ServicesInv ==
    /\ component \in Components
    /\ PortsInv /\ WatchInv /\ AlertsInv /\ RunTypeOK /\ StateInv /\ CleanupInv
    /\ UpdateTypeOK /\ BootInv /\ BootFiles /\ LogInv

(* A step of one component is a step of it and stutters the others.        *)
LEMMA EachSteps ==
    ASSUME [Next]_allVars
    PROVE  /\ component' = component
           /\ [PortsNext]_portVars /\ [WatchNext]_watchVars /\ [AlertsNext]_alertVars
           /\ [RunNext]_runVars /\ [StateNext]_stateVars /\ [CleanupNext]_cleanupVars
           /\ [UpdateNext]_updateVars /\ [EggBootNext]_bootVars /\ [LogNext]_logVars
BY DEF Next, allVars

LEMMA ServicesStepHolds == ServicesInv /\ [Next]_allVars => ServicesInv'
<1> SUFFICES ASSUME ServicesInv, [Next]_allVars PROVE ServicesInv'
  OBVIOUS
<1>1. /\ component' = component
      /\ [PortsNext]_portVars /\ [WatchNext]_watchVars /\ [AlertsNext]_alertVars
      /\ [RunNext]_runVars /\ [StateNext]_stateVars /\ [CleanupNext]_cleanupVars
      /\ [UpdateNext]_updateVars /\ [EggBootNext]_bootVars /\ [LogNext]_logVars
  BY EachSteps
<1>2. PortsInv' /\ WatchInv' /\ AlertsInv' /\ StateInv' /\ CleanupInv' /\ LogInv'
  BY <1>1, PortsStepHolds, WatchStepHolds, AlertsStepHolds, StateStepHolds, CleanupStepHolds,
     LogStepHolds DEF ServicesInv
<1>3. RunTypeOK' /\ UpdateTypeOK'
  BY <1>1, RunTypeHolds, UpdateTypeHolds DEF ServicesInv
<1>4. BootInv' /\ BootFiles'
  <2>1. BootInv /\ BootFiles /\ BootSeqs
    BY DEF ServicesInv, BootInv
  <2>2. QED  BY <1>1, <2>1, BootStepHolds, BootFilesHold
<1>5. QED  BY <1>1, <1>2, <1>3, <1>4 DEF ServicesInv

LEMMA ServicesInitHolds == Init => ServicesInv
<1> SUFFICES ASSUME Init PROVE ServicesInv
  OBVIOUS
<1>1. PortsInv /\ WatchInv /\ AlertsInv /\ StateInv /\ CleanupInv
  BY PortsInitHolds, WatchInitHolds, AlertsInitHolds, StateInitHolds, CleanupInitHolds DEF Init
<1>2. RunTypeOK /\ UpdateTypeOK /\ LogInv
  BY RunInitHolds, UpdateInitTypes, LogInitHolds DEF Init, RunInv
<1>3. BootInv /\ BootFiles
  BY BootInitHolds DEF Init
<1>4. QED  BY <1>1, <1>2, <1>3 DEF Init, ServicesInv

(* Each component keeps its types: the queues and channels their bounds,   *)
(* the counters their ranges, the maps their domains, whatever the numbers *)
(* of ports, clients, notices, commands, files, updaters and days.         *)
THEOREM ServicesTyped == Spec => []ServicesTypeOK
<1>1. ServicesInv => ServicesTypeOK
  <2> SUFFICES ASSUME ServicesInv PROVE ServicesTypeOK
    OBVIOUS
  <2>1. /\ PortsTypeOK /\ WatchTypeOK /\ AlertsTypeOK /\ StateTypeOK /\ CleanupTypeOK /\ LogTypeOK
        /\ RunTypeOK /\ UpdateTypeOK
    BY DEF ServicesInv, PortsInv, WatchInv, AlertsInv, StateInv, CleanupInv, LogInv
  <2>2. BootTypeOK
    BY BootTypes DEF ServicesInv, BootInv
  <2>3. component \in Components
    BY DEF ServicesInv
  <2>4. QED  BY <2>1, <2>2, <2>3, Zenon DEF ServicesTypeOK, Components
<1>2. QED  BY <1>1, ServicesInitHolds, ServicesStepHolds, PTL DEF Spec

(* What the components promise one by one they promise where they are      *)
(* checked together: the safety halves of PortsSettle, NoticesLeave and    *)
(* NodeSettles, the order of the mounts, and the kept lines.               *)
THEOREM ServicesKeep ==
    Spec => [](RememberedIsThere /\ PostedOnce /\ EndIsTold /\ MountsRepaired /\ LinesKept)
<1>1. ServicesInv => RememberedIsThere /\ PostedOnce /\ EndIsTold /\ MountsRepaired /\ LinesKept
  BY BootOrder, LogKept, StateInvTold DEF ServicesInv, PortsInv, AlertsInv
<1>2. QED  BY <1>1, ServicesInitHolds, ServicesStepHolds, PTL DEF Spec

=============================================================================
