------------------------------- MODULE Bundles -------------------------------
(***************************************************************************)
(* The archives of one server outside its volume, daily backups and crash  *)
(* bundles alike (internal/node/backup, crashes and bundles): a tar.gz is  *)
(* written beside its final name and renamed, its sidecar is written after *)
(* it, and every run ends by pruning what the sidecars list.  The daemon,  *)
(* the goroutine of a crash report and the commands run at the same time   *)
(* and share nothing but the directory.  A restore reads an archive into   *)
(* the volume.  The stamp of an archive is the second its run began.       *)
(***************************************************************************)
EXTENDS Naturals, FiniteSets, FiniteSetsExt

CONSTANTS
    Writers,       \* processes and goroutines that archive and prune
    KeepCount,     \* keep_count, 0 is unlimited
    KeepDays,      \* keep_days as a number of stamps, 0 is unlimited
    MaxTime        \* bound: the last stamp

ASSUME BundlesAssumption == {KeepCount, KeepDays} \subseteq Nat /\ MaxTime \in Nat \ {0}

Stamps == 1..MaxTime
NoStamp == 0

VARIABLES
    now,       \* the clock, in stamps
    partial,   \* the .tmp files
    archives,  \* the tar.gz files, each whole once renamed
    sidecars,  \* the .json files
    writer,    \* where each writer is: its stamp, what its prune still removes
    server,    \* the server runs
    restore,   \* the restore command: where it is, and its archive
    volume     \* what a restore has done to the volume

bundleVars == <<now, partial, archives, sidecars, writer, server, restore, volume>>

NoRun == [at |-> "idle", stamp |-> NoStamp, rest |-> {}]
NoRestore == [at |-> "none", stamp |-> NoStamp]

BundlesTypeOK ==
    /\ now \in Stamps
    /\ partial \subseteq Stamps /\ archives \subseteq Stamps /\ sidecars \subseteq Stamps
    /\ writer \in [Writers -> [at : {"idle", "write", "meta", "prune", "remove", "unlink"},
                               stamp : Stamps \cup {NoStamp}, rest : SUBSET Stamps]]
    /\ server \in BOOLEAN /\ volume \in {"own", "mixed", "restored"}
    /\ restore \in [at : {"none", "prompt", "unpack"}, stamp : Stamps \cup {NoStamp}]

BundlesInit ==
    /\ now = 1 /\ partial = {} /\ archives = {} /\ sidecars = {}
    /\ writer = [w \in Writers |-> NoRun]
    /\ server = TRUE /\ restore = NoRestore /\ volume = "own"

Files == <<partial, archives, sidecars>>
Volume == <<server, restore, volume>>

-----------------------------------------------------------------------------
(* A run: archive, sidecar, prune *)

(* No two runs begin in the same second. *)
Archive(w) ==
    /\ writer[w] = NoRun /\ \A v \in Writers : writer[v].stamp # now
    /\ now \notin archives \cup partial
    /\ partial' = partial \cup {now}
    /\ writer' = [writer EXCEPT ![w] = [@ EXCEPT !.at = "write", !.stamp = now]]
    /\ UNCHANGED <<now, archives, sidecars, Volume>>

Rename(w) ==
    LET t == writer[w].stamp IN
    /\ writer[w].at = "write"
    /\ partial' = partial \ {t} /\ archives' = archives \cup {t}
    /\ writer' = [writer EXCEPT ![w].at = "meta"]
    /\ UNCHANGED <<now, sidecars, Volume>>

(* A failed write leaves an archive that no list shows. *)
WriteMeta(w) ==
    /\ writer[w].at = "meta"
    /\ sidecars' \in {sidecars, sidecars \cup {writer[w].stamp}}
    /\ writer' = [writer EXCEPT ![w].at = "prune"]
    /\ UNCHANGED <<now, partial, archives, Volume>>

(* An error removes the partial file.  A run of the backup module goes on, *)
(* and prunes after all.                                                   *)
backupFails(w) ==
    /\ writer[w].at = "write" /\ partial' = partial \ {writer[w].stamp}
    /\ writer' = [writer EXCEPT ![w].at = "prune"]
    /\ UNCHANGED <<now, archives, sidecars, Volume>>

(* A crash report's ends. *)
bundleFails(w) ==
    /\ writer[w].at = "write" /\ partial' = partial \ {writer[w].stamp}
    /\ writer' = [writer EXCEPT ![w] = NoRun]
    /\ UNCHANGED <<now, archives, sidecars, Volume>>

Newer(S, t) == {u \in S : u > t}

(* Mutant: the count starts at one. *)
VictimsOneMore(S) ==
    {t \in S : \/ KeepCount > 0 /\ Cardinality(Newer(S, t)) + 1 >= KeepCount
               \/ KeepDays > 0 /\ now - t > KeepDays}

Victims(S) ==
    {t \in S : \/ KeepCount > 0 /\ Cardinality(Newer(S, t)) >= KeepCount
               \/ KeepDays > 0 /\ now - t > KeepDays}

(* Prune works on the list it read, newest first. *)
PruneList(w) ==
    /\ writer[w].at = "prune"
    /\ writer' = [writer EXCEPT ![w] =
          IF Victims(sidecars) = {} THEN NoRun
          ELSE [at |-> "remove", stamp |-> Max(Victims(sidecars)), rest |-> Victims(sidecars)]]
    /\ UNCHANGED <<now, Files, Volume>>

RemoveArchive(w) ==
    /\ writer[w].at = "remove" /\ archives' = archives \ {writer[w].stamp}
    /\ writer' = [writer EXCEPT ![w].at = "unlink"]
    /\ UNCHANGED <<now, partial, sidecars, Volume>>

RemoveMeta(w) ==
    LET left == writer[w].rest \ {writer[w].stamp} IN
    /\ writer[w].at = "unlink" /\ sidecars' = sidecars \ {writer[w].stamp}
    /\ writer' = [writer EXCEPT ![w] =
          IF left = {} THEN NoRun ELSE [at |-> "remove", stamp |-> Max(left), rest |-> left]]
    /\ UNCHANGED <<now, partial, archives, Volume>>

(* A whole run, of the backup module and of a crash report alike. *)
RunAll(w) ==
    \/ Archive(w) \/ Rename(w) \/ WriteMeta(w) \/ backupFails(w) \/ bundleFails(w)
    \/ PruneList(w) \/ RemoveArchive(w) \/ RemoveMeta(w)

(* The process of a run may end anywhere; nothing cleans up after it. *)
dies(w) ==
    /\ writer[w] # NoRun /\ writer' = [writer EXCEPT ![w] = NoRun]
    /\ UNCHANGED <<now, Files, Volume>>

-----------------------------------------------------------------------------
(* Restore *)

(* The checks come before the question, and are not made again. *)
RestoreCmd ==
    /\ restore = NoRestore /\ ~server
    /\ \E t \in sidecars : restore' = [at |-> "prompt", stamp |-> t]
    /\ UNCHANGED <<now, Files, writer, server, volume>>

Confirm ==
    /\ restore.at = "prompt"
    /\ restore' = IF restore.stamp \in archives THEN [restore EXCEPT !.at = "unpack"] ELSE NoRestore
    /\ UNCHANGED <<now, Files, writer, server, volume>>

Abort ==
    /\ restore.at = "prompt" /\ restore' = NoRestore
    /\ UNCHANGED <<now, Files, writer, server, volume>>

(* An error leaves the files that were written before it. *)
Restore ==
    /\ restore.at = "unpack"
    /\ \/ volume' = "mixed" /\ UNCHANGED restore
       \/ volume' = "restored" /\ restore' = NoRestore
       \/ volume' = "mixed" /\ restore' = NoRestore
    /\ UNCHANGED <<now, Files, writer, server>>

serverTurns ==
    /\ server' = ~server
    /\ UNCHANGED <<now, Files, writer, restore, volume>>

clock ==
    /\ now < MaxTime /\ now' = now + 1
    /\ UNCHANGED <<Files, writer, Volume>>

BundlesNext ==
    \/ \E w \in Writers : RunAll(w) \/ dies(w)
    \/ RestoreCmd \/ Confirm \/ Abort \/ Restore
    \/ serverTurns \/ clock

BundlesSpec == BundlesInit /\ [][BundlesNext]_bundleVars

-----------------------------------------------------------------------------
(* bundles.go: "Prune keeps the newest keepCount bundles per server".  The     *)
(* newest listed bundles are there whatever other run prunes, lists or     *)
(* dies at the same time: pruning by count takes nothing that is among     *)
(* them, and no sidecar shows an archive that is not whole.                *)
NewestAreThere ==
    \A t \in sidecars :
        /\ KeepCount = 0 \/ Cardinality(Newer(sidecars, t)) < KeepCount
        /\ KeepDays = 0 \/ now - t <= KeepDays
        => t \in archives
=============================================================================
