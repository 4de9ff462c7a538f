------------------------------- MODULE Cleanup -------------------------------
(***************************************************************************)
(* A cleanup pass over the volume of a running server                      *)
(* (internal/node/cleanup and internal/cleanup): the pass asks the kernel  *)
(* what the server holds open, lists what a rule matches, and deletes it   *)
(* file by file or, for a rule on per-crash folders, folder by folder,     *)
(* while the server opens, writes and closes files.                        *)
(*                                                                         *)
(* One rule, one volume.  A file's age is only whether it is older than    *)
(* the rule's hours; patterns, the order of the walk and byte counts are   *)
(* abstracted.                                                             *)
(***************************************************************************)
EXTENDS Naturals, FiniteSets

CONSTANTS
    Paths,             \* the files that may exist
    FolderOf,          \* a path's folder
    RuleRoot,          \* the folder the rule names
    Nested,            \* folders that hold folders
    Matches,           \* the paths that the rule's patterns match
    Hours,             \* whether the rule has an age
    DeleteParentDir,   \* delete_parent_dir
    KeepOpen           \* keep_open

ASSUME CleanupAssumption ==
    /\ IsFiniteSet(Paths) /\ Matches \subseteq Paths /\ {Hours, DeleteParentDir, KeepOpen} \subseteq BOOLEAN

VARIABLES
    files,     \* the files of the volume
    fresh,     \* those younger than the rule's hours
    open,      \* those the server holds open
    running,   \* the server's process: without it /proc tells nothing
    pass,      \* the pass: where it is, what it skips, what is left to delete
    counted,   \* res.Files: what the pass says it removed
    removed    \* history: what the pass removed

cleanupVars == <<files, fresh, open, running, pass, counted, removed>>

NoPass == [at |-> "idle", skip |-> {}, rest |-> {}]

CleanupTypeOK ==
    /\ files \subseteq Paths /\ fresh \subseteq files /\ open \subseteq files
    /\ running \in BOOLEAN
    /\ pass \in [at : {"idle", "walk", "delete"}, skip : SUBSET Paths, rest : SUBSET Paths]
    /\ counted \in 0..Cardinality(Paths) * Cardinality(Paths) /\ removed \subseteq Paths

CleanupInit ==
    /\ files = {} /\ fresh = {} /\ open = {} /\ running = TRUE
    /\ pass = NoPass /\ counted = 0 /\ removed = {}

server == <<fresh, open, running>>
tally == <<counted, removed>>

-----------------------------------------------------------------------------
(* The pass *)

(* Without /proc of the server nothing is skipped. *)
openFiles ==
    /\ pass.at = "idle"
    /\ pass' = [at |-> "walk", rest |-> {},
                skip |-> IF KeepOpen /\ running THEN open ELSE {}]
    /\ counted' = 0 /\ removed' = {}
    /\ UNCHANGED <<files, server>>

matched == {p \in files \cap Matches : Hours => p \notin fresh}
walk ==
    /\ pass.at = "walk"
    /\ pass' = [pass EXCEPT !.at = "delete", !.rest = matched]
    /\ UNCHANGED <<files, server, tally>>

Folder(p) == {q \in files : FolderOf[q] = FolderOf[p]}
Bundle(p) ==
    /\ DeleteParentDir /\ FolderOf[p] # RuleRoot
    /\ FolderOf[p] \notin Nested /\ Folder(p) # {}

(* What deleting for p removes; a removal that fails half way has removed   *)
(* some of a folder, and counts nothing.                                    *)
Victims(p) == IF Bundle(p) THEN Folder(p) ELSE {p} \cap files

next(p) == pass' = IF pass.rest = {p} THEN NoPass ELSE [pass EXCEPT !.rest = @ \ {p}]

Skip(p) ==
    /\ pass.at = "delete" /\ p \in pass.rest \cap pass.skip
    /\ next(p) /\ UNCHANGED <<files, server, tally>>

Delete(p) ==
    /\ pass.at = "delete" /\ p \in pass.rest \ pass.skip
    /\ \E S \in SUBSET Victims(p) :
          /\ files' = files \ S /\ removed' = removed \cup S
          /\ fresh' = fresh \ S /\ open' = open \ S
          /\ counted' = IF S = Victims(p) THEN counted + Cardinality(S) ELSE counted
    /\ next(p) /\ UNCHANGED running

NothingMatches ==
    /\ pass.at = "delete" /\ pass.rest = {} /\ pass' = NoPass
    /\ UNCHANGED <<files, server, tally>>

-----------------------------------------------------------------------------
(* The server *)

writes(p) ==
    /\ running /\ files' = files \cup {p}
    /\ fresh' = fresh \cup {p} /\ open' = open \cup {p}
    /\ UNCHANGED <<running, pass, tally>>

closes(p) ==
    /\ p \in open /\ open' = open \ {p}
    /\ UNCHANGED <<files, fresh, running, pass, tally>>

grows(p) ==
    /\ p \in fresh /\ fresh' = fresh \ {p}
    /\ UNCHANGED <<files, open, running, pass, tally>>

turns ==
    /\ running' = ~running /\ open' = {}
    /\ UNCHANGED <<files, fresh, pass, tally>>

CleanupNext ==
    \/ openFiles \/ walk \/ NothingMatches \/ turns
    \/ \E p \in Paths : Skip(p) \/ Delete(p) \/ writes(p) \/ closes(p) \/ grows(p)

CleanupSpec == CleanupInit /\ [][CleanupNext]_cleanupVars

-----------------------------------------------------------------------------
(* docs/modules/cleanup.md, "Why keep_open matters": the module reads      *)
(* /proc/<pid>/fd for the container "and leaves those paths alone".        *)
OpenFilesStay == pass.skip \cap removed = {}
=============================================================================
