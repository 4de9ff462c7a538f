------------------------------- MODULE EggBoot -------------------------------
(***************************************************************************)
(* What the egg does to its volume before it starts the server             *)
(* (internal/egg/boot/boot.go, steamcmd, addons/gameinfo.go and            *)
(* UpdateAll): it asks the node for the game files or has SteamCMD fetch   *)
(* them, and mounts the addons of the panel's switches in gameinfo.gi.     *)
(*                                                                         *)
(* A volume lives through many boots, each with switches of its own, and   *)
(* the container may be killed anywhere in one.  The conversation with the *)
(* node is EggLink's, the addon files Addons', the workshop and the        *)
(* cleanup have modules too; here they pass in silence.                    *)
(***************************************************************************)
EXTENDS Sequences, SequencesExt

CONSTANT Selections    \* switches the panel may have on, sets of Switches

Switches == {"metamod", "css", "swiftlys2", "sharp"}
Mounts == {"metamod", "swiftlys2", "sharp", "backups"}
Edits == Mounts \cup {"first", "token"}

ASSUME BootAssumption == Selections \subseteq SUBSET Switches

VARIABLES
    vpks,      \* the VPKs: none, of the volume, links, links to nothing
    steam,     \* the volume has a SteamCMD of its own
    info,      \* gameinfo.gi: "none", "whole", or "torn" by a kill while it is written
    mounted,   \* the search paths under its Game_LowViolence line
    metaDir,   \* Metamod's directory is there
    booting    \* the boot: where it is, its switches, the edits to come,
               \* and whether one of them failed

bootVars == <<vpks, steam, info, mounted, metaDir, booting>>

Off == [at |-> "off", sel |-> {}, todo |-> <<>>, missed |-> FALSE]

BootTypeOK ==
    /\ vpks \in {"none", "files", "links", "dangling"}
    /\ steam \in BOOLEAN /\ metaDir \in BOOLEAN
    /\ info \in {"none", "whole", "torn"}
    /\ ToSet(mounted) \subseteq Mounts
    /\ booting.at \in {"off", "asks", "stale", "prune", "install", "update", "addons",
                       "edits", "writes", "run"}
    /\ booting.sel \in Selections \cup {{}} /\ ToSet(booting.todo) \subseteq Edits
    /\ booting.missed \in BOOLEAN

BootInit ==
    /\ vpks = "none" /\ steam = FALSE /\ info = "none" /\ mounted = <<>>
    /\ metaDir = FALSE /\ booting = Off

GoesTo(place) == booting' = [booting EXCEPT !.at = place]
gameinfo == <<info, mounted>>

-----------------------------------------------------------------------------
(* The game files *)

boots ==
    /\ booting.at = "off"
    /\ \E sel \in Selections : booting' = [Off EXCEPT !.at = "asks", !.sel = sel]
    /\ UNCHANGED <<vpks, steam, gameinfo, metaDir>>

hasResolvableVPK(kind) == kind \in {"files", "links"}

(* A push may end early, and it leaves files, or links that this container *)
(* may not resolve; gameinfo.gi comes with it where there is none.  Only a *)
(* verdict that the files are managed, and one that resolves, keep         *)
(* SteamCMD out.                                                           *)
handshake ==
    /\ booting.at = "asks"
    /\ vpks' \in {vpks, "files", "links", "dangling"}
    /\ UNCHANGED gameinfo \/ (info = "none" /\ info' = "whole" /\ mounted' = <<>>)
    /\ GoesTo("prune") \/ (hasResolvableVPK(vpks') /\ GoesTo("stale"))
    /\ UNCHANGED <<steam, metaDir>>

removeStale ==
    /\ booting.at = "stale" /\ GoesTo("addons") /\ steam' = FALSE
    /\ UNCHANGED <<vpks, gameinfo, metaDir>>

(* With SRCDS_STOP_UPDATE on, SteamCMD does not run. *)
pruneBrokenVPKLinks ==
    /\ booting.at = "prune" /\ \E place \in {"install", "addons"} : GoesTo(place)
    /\ vpks' = IF vpks = "dangling" THEN "none" ELSE vpks
    /\ UNCHANGED <<steam, gameinfo, metaDir>>

(* An error does not keep Update from being tried. *)
Install ==
    /\ booting.at = "install" /\ GoesTo("update")
    /\ steam' \in {steam, TRUE}
    /\ UNCHANGED <<vpks, gameinfo, metaDir>>

(* SteamCMD writes a file that changed upstream, or any file when it       *)
(* validates, and a gameinfo.gi it writes is Valve's.                      *)
Update ==
    /\ booting.at = "update" /\ GoesTo("addons")
    /\ \/ steam /\ vpks' = "files" /\ info' = "whole" /\ mounted' = <<>>
       \/ steam /\ info # "none" /\ vpks' = "files" /\ UNCHANGED gameinfo
       \/ UNCHANGED <<vpks, gameinfo>>
    /\ UNCHANGED <<steam, metaDir>>

-----------------------------------------------------------------------------
(* gameinfo.gi *)

(* Every new path comes right under Game_LowViolence. *)
addGamePath(paths, addon) == IF addon \in ToSet(paths) THEN paths ELSE <<addon>> \o paths

Before(paths, entry) ==
    IF entry \in ToSet(paths) THEN CHOOSE i \in DOMAIN paths : paths[i] = entry ELSE 0

(* Mutant: backups counts as one more addon that Metamod goes before. *)
metamodFirstOfAll(paths) ==
    IF "metamod" \in ToSet(paths)
    THEN <<"metamod">> \o RemoveAt(paths, Before(paths, "metamod")) ELSE paths

(* Metamod goes right after backups, or to the top when that is not there. *)
metamodFirst(paths) ==
    LET rest == RemoveAt(paths, Before(paths, "metamod")) IN
    IF "metamod" \notin ToSet(paths) THEN paths
    ELSE InsertAt(rest, Before(rest, "backups") + 1, "metamod")

(* The switch for tokenless servers rewrites the file and moves no path. *)
Edited(what) ==
    CASE what = "first"  -> metamodFirst(mounted)
      [] what = "token"  -> mounted
      [] what \in Mounts -> addGamePath(mounted, what)

If(condition, what) == IF condition THEN <<what>> ELSE <<>>

(* The paths of the addons that are on (whether or not their update goes   *)
(* well), then the order, then backups and the tokenless switch.           *)
UpdateAll ==
    LET sel == booting.sel IN
    /\ booting.at = "addons"
    /\ metaDir' \in {metaDir, metaDir \/ "metamod" \in sel}
    /\ booting' = [booting EXCEPT !.at = "edits", !.todo =
           If("metamod" \in sel \/ ("css" \in sel /\ metaDir), "metamod")
             \o If("swiftlys2" \in sel, "swiftlys2") \o If("sharp" \in sel, "sharp")
             \o <<"first", "backups", "token">>]
    /\ UNCHANGED <<vpks, steam, gameinfo>>

Done(missed) ==
    booting' = [booting EXCEPT !.at = "edits", !.todo = Tail(@), !.missed = @ \/ missed]

(* Nothing to change, no file, or one that was cut off and has no place    *)
(* for the path; or the copy to .bak fails.                                *)
editLeaves ==
    /\ booting.at = "edits" /\ booting.todo # <<>>
    /\ LET next == Head(booting.todo) same == Edited(next) = mounted IN
       \/ (info # "whole" \/ same) /\ Done(FALSE)
       \/ info = "whole" /\ (~same \/ next = "token") /\ Done(TRUE)
    /\ UNCHANGED <<vpks, steam, gameinfo, metaDir>>

(* Written in place: until it is done the file is cut off. *)
edit ==
    /\ booting.at = "edits" /\ booting.todo # <<>> /\ info = "whole"
    /\ Head(booting.todo) = "token" \/ Edited(Head(booting.todo)) # mounted
    /\ info' = "torn" /\ GoesTo("writes")
    /\ UNCHANGED <<vpks, steam, mounted, metaDir>>

(* A write that fails brings .bak back. *)
edited ==
    /\ booting.at = "writes" /\ info' = "whole"
    /\ \/ mounted' = Edited(Head(booting.todo)) /\ Done(FALSE)
       \/ UNCHANGED mounted /\ Done(TRUE)
    /\ UNCHANGED <<vpks, steam, metaDir>>

starts ==
    /\ booting.at = "edits" /\ booting.todo = <<>> /\ GoesTo("run")
    /\ UNCHANGED <<vpks, steam, gameinfo, metaDir>>

-----------------------------------------------------------------------------
(* The container stops or is killed; nobody looks at a .bak afterwards. *)
killed ==
    /\ booting.at # "off" /\ booting' = Off
    /\ UNCHANGED <<vpks, steam, gameinfo, metaDir>>

(* The node's files go: a daemon that was removed, an install that moved. *)
linksBreak ==
    /\ vpks = "links" /\ vpks' = "dangling"
    /\ UNCHANGED <<steam, gameinfo, metaDir, booting>>

EggBootNext ==
    \/ boots \/ handshake \/ removeStale \/ pruneBrokenVPKLinks \/ Install \/ Update
    \/ UpdateAll \/ editLeaves \/ edit \/ edited \/ starts
    \/ killed \/ linksBreak

EggBootSpec == BootInit /\ [][EggBootNext]_bootVars

-----------------------------------------------------------------------------
(* CHANGELOG.md: csgo/backups "now stays anchored ahead of MetaMod for     *)
(* good".  A boot whose own edits go well repairs what earlier boots       *)
(* mounted or failed to write, were killed between, or SteamCMD put back:  *)
(* backups is there, right before Metamod where that is mounted, what is   *)
(* switched on is mounted, and nothing is mounted twice.  It does not      *)
(* repair a file that an earlier boot was killed in the middle of ("torn", *)
(* although a .bak is there), and it is no more than that: docs/addons.md  *)
(* wants "Metamod first in the search paths", and an addon switched on     *)
(* after it stays above backups and Metamod.                               *)
MountsRepaired ==
    booting.at = "run" /\ info = "whole" /\ ~booting.missed =>
        /\ {"backups"} \cup (booting.sel \cap Mounts) \subseteq ToSet(mounted)
        /\ \A i, j \in DOMAIN mounted : mounted[i] = mounted[j] => i = j
        /\ \A i \in DOMAIN mounted : mounted[i] = "metamod" => i > 1 /\ mounted[i - 1] = "backups"
=============================================================================
