------------------------------ MODULE SelfUpdate ------------------------------
(***************************************************************************)
(* The node's self-update (internal/node/update): the daemon's loop and    *)
(* the `cs2node update` command look for a newer release, download it      *)
(* beside the binary, verify its checksum, and swap it in with two renames *)
(* before systemd restarts the daemon.  Both work on the same file names.  *)
(*                                                                         *)
(* There is one newer release.  A file is its content: a whole version, or *)
(* part of the new one while somebody writes it or after a writer died.    *)
(***************************************************************************)
EXTENDS Naturals

CONSTANTS
    Loop,          \* the daemon's goroutine
    Tools          \* `cs2node update` processes

Updaters == {Loop} \cup Tools

ASSUME UpdateAssumption == Loop \notin Tools

VARIABLES
    bin, prev, tmp,    \* cs2node, cs2node.prev, .cs2node.new
    daemon,            \* the version the daemon runs, or "down"
    at,                \* where each updater is
    fd,                \* the name that the file an updater writes has now
    twice              \* history: an update began beside another one, or began
                       \* again when the new release was in place

updateVars == <<bin, prev, tmp, daemon, at, fd, twice>>

Content == {"none", "old", "part", "new"}

UpdateTypeOK ==
    /\ {bin, prev, tmp} \subseteq Content /\ tmp # "old" /\ daemon \in {"old", "new", "down"}
    /\ at \in [Updaters -> {"idle", "download", "verify", "keep", "swap", "restart"}]
    /\ fd \in [Updaters -> {"none", "tmp", "bin", "prev"}]
    /\ twice \subseteq {"beside", "again"}

UpdateInit ==
    /\ bin = "old" /\ prev = "none" /\ tmp = "none" /\ daemon = "old"
    /\ at = [u \in Updaters |-> "idle"] /\ fd = [u \in Updaters |-> "none"]
    /\ twice = {}

(* The version an updater was built as: the daemon's, or for a command the *)
(* one of the binary it is started from.                                   *)
Version(u) == IF u = Loop THEN daemon ELSE bin

Check(u) == Version(u) = "old"

Moves(from, to) == fd' = [u \in Updaters |-> IF fd[u] = from THEN to ELSE fd[u]]

(* os.Create empties a file that is there already. *)
download(u) ==
    /\ at[u] = "idle" /\ Check(u)
    /\ tmp' = "part"
    /\ at' = [at EXCEPT ![u] = "download"] /\ fd' = [fd EXCEPT ![u] = "tmp"]
    /\ twice' = twice \cup (IF \E v \in Updaters \ {u} : at[v] # "idle" THEN {"beside"} ELSE {})
                     \cup (IF bin = "new" THEN {"again"} ELSE {})
    /\ UNCHANGED <<bin, prev, daemon>>

(* All who write a file write the same bytes at the same places; they need *)
(* not be the bytes that the release's checksum is of.                     *)
downloaded(u) ==
    LET whole == \A v \in Updaters \ {u} : fd[v] # fd[u]
        now(name, was) == IF fd[u] = name /\ whole THEN "new" ELSE was
    IN
    /\ at[u] = "download"
    /\ \/ tmp' = now("tmp", tmp) /\ bin' = now("bin", bin) /\ prev' = now("prev", prev)
       \/ UNCHANGED <<tmp, bin, prev>>
    /\ at' = [at EXCEPT ![u] = "verify"] /\ fd' = [fd EXCEPT ![u] = "none"]
    /\ UNCHANGED <<daemon, twice>>

downloadFails(u) ==
    /\ at[u] = "download"
    /\ tmp' = "none" /\ Moves("tmp", "none")
    /\ at' = [at EXCEPT ![u] = "idle"]
    /\ UNCHANGED <<bin, prev, daemon, twice>>

(* Mutant: the checksum is not compared. *)
verifyNothing(u) ==
    /\ at[u] = "verify" /\ at' = [at EXCEPT ![u] = "keep"]
    /\ UNCHANGED <<tmp, fd, bin, prev, daemon, twice>>

verify(u) ==
    /\ at[u] = "verify"
    /\ IF tmp = "new"
       THEN at' = [at EXCEPT ![u] = "keep"] /\ UNCHANGED <<tmp, fd>>
       ELSE at' = [at EXCEPT ![u] = "idle"] /\ tmp' = "none" /\ Moves("tmp", "none")
    /\ UNCHANGED <<bin, prev, daemon, twice>>

(* A binary that is not there needs no keeping. *)
keepPrev(u) ==
    /\ at[u] = "keep" /\ at' = [at EXCEPT ![u] = "swap"]
    /\ IF bin = "none" THEN UNCHANGED <<bin, prev, fd>>
       ELSE prev' = bin /\ bin' = "none" /\ Moves("bin", "prev")
    /\ UNCHANGED <<tmp, daemon, twice>>

swap(u) ==
    /\ at[u] = "swap"
    /\ IF tmp = "none"
       THEN at' = [at EXCEPT ![u] = "idle"] /\ UNCHANGED <<bin, tmp, fd>>
       ELSE /\ bin' = tmp /\ tmp' = "none" /\ Moves("tmp", "bin")
            /\ at' = [at EXCEPT ![u] = "restart"]
    /\ UNCHANGED <<prev, daemon, twice>>

(* systemd ends the daemon, and with it the loop, and starts what is      *)
(* there; or systemctl fails, and the old version runs on.                *)
Ends == [u \in Updaters |-> IF u = Loop THEN "idle" ELSE at[u]]
Started == IF bin \in {"old", "new"} THEN bin ELSE "down"

Restart(u) ==
    /\ at[u] = "restart"
    /\ \/ /\ daemon' = Started /\ at' = [Ends EXCEPT ![u] = "idle"]
          /\ fd' = [fd EXCEPT ![Loop] = "none"]
       \/ at' = [at EXCEPT ![u] = "idle"] /\ UNCHANGED <<daemon, fd>>
    /\ UNCHANGED <<bin, prev, tmp, twice>>

(* The command is killed. *)
toolDies(u) ==
    /\ u \in Tools /\ at[u] # "idle"
    /\ at' = [at EXCEPT ![u] = "idle"] /\ fd' = [fd EXCEPT ![u] = "none"]
    /\ UNCHANGED <<bin, prev, tmp, daemon, twice>>

daemonRestarts ==
    /\ daemon' = Started /\ at' = Ends /\ fd' = [fd EXCEPT ![Loop] = "none"]
    /\ UNCHANGED <<bin, prev, tmp, twice>>

UpdateNext ==
    \/ \E u \in Updaters : \/ download(u) \/ downloaded(u) \/ downloadFails(u)
                           \/ verify(u) \/ keepPrev(u) \/ swap(u) \/ Restart(u)
                           \/ toolDies(u)
    \/ daemonRestarts

UpdateSpec == UpdateInit /\ [][UpdateNext]_updateVars

-----------------------------------------------------------------------------
(* Whatever download fails, whoever is killed wherever, and whichever of   *)
(* the loop and the command updates: unless two of them worked at once,    *)
(* neither name ever holds a cut file, and where a kill between the two    *)
(* renames left no binary, .prev is the way back.  Until one updates to    *)
(* what is in place already, .prev of a new binary is the old one.         *)
(* update.go and docs/upgrading.md say more: the swap is "atomic", and     *)
(* "the previous binary is kept".  The code does not do that.              *)
SwapIsWhole ==
    /\ "beside" \notin twice =>
         bin # "part" /\ prev # "part" /\ (bin = "none" => prev # "none")
    /\ twice = {} => (bin = "new" => prev = "old")
=============================================================================
