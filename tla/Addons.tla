-------------------------------- MODULE Addons --------------------------------
(***************************************************************************)
(* Addon updates (internal/egg/addons and internal/node/addoncache): at    *)
(* every boot an egg asks the node which release of an addon to install    *)
(* and then for its file; the node answers from its cache, holds servers   *)
(* at pinned versions, and fetches each file from GitHub once.  An egg     *)
(* that gets no answer asks GitHub itself.                                 *)
(*                                                                         *)
(* One addon, whose releases are numbered.  A query outlives the boot that *)
(* sent it; its answer goes to whatever boot of the server is connected,   *)
(* which takes it when it waits for the same thing.                        *)
(***************************************************************************)
EXTENDS Naturals, FiniteSets

CONSTANTS
    Servers, Newest,
    MaxInFlight,   \* queries that one server may have at the node
    Busy,          \* answers that the node works on at a time
    Boots,         \* bound: boots of each server
    MaxTurns       \* bound: releases, changes of pins, prunes, restarts of the node

Releases == 1..Newest
Unset == Newest + 1
Torn == Newest + 1

ASSUME AddonsAssumption ==
    /\ Newest \in Nat \ {0} /\ MaxInFlight \in Nat \ {0} /\ Busy \in Nat \ {0}
    /\ Boots \in Nat /\ MaxTurns \in Nat

VARIABLES
    latest,      \* GitHub's newest release
    every, own,  \* the config's pins: for every server, and a server's own
    answered,    \* the newest release as the cache holds it, 0 for none
    files,       \* the cache's files: "none", "part" or "whole"
    writers,     \* who writes each file's .part
    holder,      \* who holds each url's lock
    pruning,     \* the file that Prune has found unused, 0 for none
    queries,     \* the queries at the node
    boot,        \* what each server's egg does: its number, where it is, its release
    delivered,   \* the file in each volume's egg/cache
    copier,      \* the query whose copy is under the .part name there
    installed,   \* each server's addon files: a release, 0 for none, or Torn
    recorded,    \* its versions.txt
    asked,       \* history: the pins in force while the boot's answers were made
    turns

nodeStore == <<answered, files, writers, holder, pruning>>
volumes == <<delivered, copier>>
addonVars == <<latest, every, own, nodeStore, queries, boot, volumes, installed, recorded,
               asked, turns>>

NoQuery == <<>>
(* want is 0 for the release, or the release whose file is wanted. *)
Query == [s : Servers, no : 1..Boots, want : 0..Newest]
Places == {"off", "asks", "waits", "needs", "awaits", "github", "fetches",
           "local", "unpacks", "copies", "records", "runs"}

AddonsTypeOK ==
    /\ latest \in Releases /\ every \in 0..Newest /\ own \in [Servers -> 0..Unset]
    /\ answered \in 0..Newest
    /\ files \in [Releases -> {"none", "part", "whole"}]
    /\ writers \in [Releases -> SUBSET Query] /\ holder \in [Releases -> Query \cup {NoQuery}]
    /\ pruning \in 0..Newest
    /\ queries \subseteq [q : Query, at : {"queued", "looks", "locks", "loads", "opens", "copies"},
                          pin : 0..Newest]
    /\ boot \in [Servers -> [no : 0..Boots, at : Places, tag : 0..Newest]]
    /\ delivered \in [Servers -> {"none", "part", "whole"}]
    /\ copier \in [Servers -> Query \cup {NoQuery}]
    /\ installed \in [Servers -> 0..Torn] /\ recorded \in [Servers -> 0..Newest]
    /\ asked \in [Servers -> SUBSET (0..Newest)] /\ turns \in 0..MaxTurns

AddonsInit ==
    /\ latest = 1 /\ every = 0 /\ own = [s \in Servers |-> Unset]
    /\ answered = 0 /\ files = [v \in Releases |-> "none"] /\ writers = [v \in Releases |-> {}]
    /\ holder = [v \in Releases |-> NoQuery] /\ pruning = 0 /\ queries = {}
    /\ boot = [s \in Servers |-> [no |-> 0, at |-> "off", tag |-> 0]]
    /\ delivered = [s \in Servers |-> "none"] /\ copier = [s \in Servers |-> NoQuery]
    /\ installed = [s \in Servers |-> 0] /\ recorded = [s \in Servers |-> 0]
    /\ asked = [s \in Servers |-> {}] /\ turns = 0

Turn == turns < MaxTurns /\ turns' = turns + 1

-----------------------------------------------------------------------------
(* Pins and releases *)

(* A server's own entry overrides the one for every server; an empty one   *)
(* lets it follow the newest release.                                      *)
Pin(s) == IF own[s] # Unset THEN own[s] ELSE every

(* While a release query of the server is out, its answer may still come   *)
(* from an earlier pin.                                                    *)
Outstanding(s) == \E x \in queries : x.q.s = s /\ x.q.want = 0

(* SetPin refuses a version that GitHub does not have; an edited config    *)
(* may hold any.                                                           *)
SetPin(v) == v \in Releases /\ every' = v /\ UNCHANGED own
SetOwnPin(s, v) == own' = [own EXCEPT ![s] = v] /\ UNCHANGED every
ClearPin == every' = 0 /\ UNCHANGED own
ClearOwnPin(s) == own[s] # Unset /\ own' = [own EXCEPT ![s] = Unset] /\ UNCHANGED every

ChangePins ==
    /\ Turn
    /\ \/ ClearPin \/ \E v \in Releases : SetPin(v)
       \/ \E s \in Servers : ClearOwnPin(s) \/ \E v \in 0..Newest : SetOwnPin(s, v)
    /\ asked' = [s \in Servers |-> asked[s] \cup {Pin(s)'}]
    /\ UNCHANGED <<latest, nodeStore, queries, boot, volumes, installed, recorded>>

Released ==
    /\ Turn /\ latest < Newest /\ latest' = latest + 1
    /\ UNCHANGED <<every, own, nodeStore, queries, boot, volumes, installed, recorded, asked>>

-----------------------------------------------------------------------------
(* The egg *)

Over == {"off", "runs"}
Goes(s, at) == boot' = [boot EXCEPT ![s].at = at, ![s].tag = IF at \in Over THEN 0 ELSE @]
eggOnly == <<latest, every, own, nodeStore, turns>>

Boot(s) ==
    /\ boot[s].at = "off" /\ boot[s].no < Boots
    /\ boot' = [boot EXCEPT ![s] = [no |-> @.no + 1, at |-> "asks", tag |-> 0]]
    /\ asked' = [asked EXCEPT ![s] = (IF Outstanding(s) THEN @ ELSE {}) \cup {Pin(s)}]
    /\ UNCHANGED <<eggOnly, queries, volumes, installed, recorded>>

(* The container is killed or crashes, or the server stops. *)
Stops(s) ==
    /\ boot[s].at # "off" /\ Goes(s, "off")
    /\ UNCHANGED <<eggOnly, queries, volumes, installed, recorded, asked>>

(* A server with too many queries at the node is not heard. *)
Claim(q) ==
    queries' = IF Cardinality({x \in queries : x.q.s = q.s}) < MaxInFlight
               THEN queries \cup {[q |-> q, at |-> "queued", pin |-> 0]} ELSE queries

Asks(s, want) ==
    /\ \/ boot[s].at = "asks" /\ want = 0 /\ Goes(s, "waits")
       \/ boot[s].at = "needs" /\ want = boot[s].tag /\ Goes(s, "awaits")
    /\ Claim([s |-> s, no |-> boot[s].no, want |-> want])
    /\ UNCHANGED <<eggOnly, volumes, installed, recorded, asked>>

(* The request times out, or the connection is gone. *)
NoAnswer(s) ==
    /\ \/ boot[s].at = "waits" /\ Goes(s, "github")
       \/ boot[s].at = "awaits" /\ Goes(s, "fetches")
    /\ asked' = [asked EXCEPT ![s] = @ \cup {0}]
    /\ UNCHANGED <<eggOnly, queries, volumes, installed, recorded>>

GitHub(s) ==
    /\ boot[s].at = "github"
    /\ \/ latest > recorded[s] /\ boot' = [boot EXCEPT ![s].at = "needs", ![s].tag = latest]
       \/ Goes(s, "runs")
    /\ UNCHANGED <<eggOnly, queries, volumes, installed, recorded, asked>>

(* Straight from GitHub or a mirror, or the file that the node delivered:  *)
(* a part of an archive does not unpack.                                   *)
Fetches(s) ==
    /\ boot[s].at = "fetches" /\ \E at \in {"unpacks", "runs"} : Goes(s, at)
    /\ UNCHANGED <<eggOnly, queries, volumes, installed, recorded, asked>>

TakesLocal(s) ==
    /\ boot[s].at = "local"
    /\ Goes(s, IF delivered[s] = "whole" THEN "unpacks" ELSE "runs")
    /\ delivered' = [delivered EXCEPT ![s] = "none"]
    /\ UNCHANGED <<eggOnly, queries, copier, installed, recorded, asked>>

(* Into a folder of its own. *)
Unpacks(s) ==
    /\ boot[s].at = "unpacks" /\ \E at \in {"copies", "runs"} : Goes(s, at)
    /\ UNCHANGED <<eggOnly, queries, volumes, installed, recorded, asked>>

(* File by file over the old ones; it may fail half way. *)
Copies(s) ==
    /\ boot[s].at = "copies"
    /\ \/ installed' = [installed EXCEPT ![s] = Torn] /\ \E at \in {"copies", "runs"} : Goes(s, at)
       \/ installed' = [installed EXCEPT ![s] = boot[s].tag] /\ Goes(s, "records")
    /\ UNCHANGED <<eggOnly, queries, volumes, recorded, asked>>

Records(s) ==
    /\ boot[s].at = "records" /\ Goes(s, "runs")
    /\ recorded' = [recorded EXCEPT ![s] = boot[s].tag]
    /\ UNCHANGED <<eggOnly, queries, volumes, installed, asked>>

(* What every updater does, in this order. *)
Update(s) ==
    \/ \E want \in 0..Newest : Asks(s, want)
    \/ NoAnswer(s) \/ GitHub(s) \/ Fetches(s) \/ TakesLocal(s)
    \/ Unpacks(s) \/ Copies(s) \/ Records(s)

-----------------------------------------------------------------------------
(* The node's answers *)

nodeOnly == <<latest, every, own, installed, recorded, asked, turns>>
To(x, at) == queries' = (queries \ {x}) \cup {[x EXCEPT !.at = at]}

(* The pins are read from disk when the answer is begun. *)
Answer(x) ==
    /\ x.at = "queued" /\ Cardinality({y \in queries : y.at # "queued"}) < Busy
    /\ queries' = (queries \ {x}) \cup
         {IF x.q.want = 0 THEN [x EXCEPT !.at = "looks", !.pin = Pin(x.q.s)]
                          ELSE [x EXCEPT !.at = "locks"]}
    /\ UNCHANGED <<nodeOnly, nodeStore, boot, volumes>>

(* The reply reaches a boot that waits for a release. *)
Replies(x, at, tag) ==
    /\ queries' = queries \ {x}
    /\ boot' = IF boot[x.q.s].at = "waits"
               THEN [boot EXCEPT ![x.q.s].at = at, ![x.q.s].tag = IF at \in Over THEN 0 ELSE tag]
               ELSE boot

(* A pinned release is installed when it is not the recorded one, a newest *)
(* one when it is newer.                                                   *)
Wanted(s, tag, isPinned) ==
    IF recorded[s] = 0 \/ (isPinned /\ tag # recorded[s]) \/ tag > recorded[s] THEN "needs" ELSE "runs"

(* Mutant: without the pinned version, the newest is offered. *)
notFoundNewest(x) == Replies(x, Wanted(x.q.s, latest, FALSE), latest)

notFound(x) == Replies(x, "runs", 0)

(* Found once, it is on disk for good. *)
ReleaseByVersion(x) ==
    /\ x.at = "looks" /\ x.pin # 0
    /\ \/ x.pin <= latest /\ Replies(x, Wanted(x.q.s, x.pin, TRUE), x.pin)
       \/ notFound(x)
    /\ UNCHANGED <<nodeOnly, nodeStore, volumes>>

(* Fetched, or from the cache: while fresh, or when GitHub does not answer. *)
Release(x) ==
    /\ x.at = "looks" /\ x.pin = 0
    /\ \/ answered' = latest /\ Replies(x, Wanted(x.q.s, latest, FALSE), latest)
       \/ /\ answered # 0 /\ UNCHANGED answered
          /\ Replies(x, Wanted(x.q.s, answered, FALSE), answered)
       \/ answered = 0 /\ Replies(x, "github", 0) /\ UNCHANGED answered
    /\ UNCHANGED <<nodeOnly, files, writers, holder, pruning, volumes>>

(* Mutant: nobody waits for a download of the same url. *)
takeLockFree(v, q) == UNCHANGED holder

takeLock(v, q) == holder[v] = NoQuery /\ holder' = [holder EXCEPT ![v] = q]

unlock(v, q) == holder' = [holder EXCEPT ![v] = IF @ = q THEN NoQuery ELSE @]

(* A .part that is there already is emptied and written from its start. *)
fetch(v, q) == writers' = [writers EXCEPT ![v] = @ \cup {q}]

(* A file that is there has its directory touched: Prune finds it in use   *)
(* if it has not looked yet.                                               *)
File(x) ==
    LET v == x.q.want IN
    /\ x.at = "locks"
    /\ IF files[v] # "none"
       THEN To(x, "opens") /\ UNCHANGED <<writers, holder>>
       ELSE /\ takeLock(v, x.q) /\ To(x, "loads")
            /\ fetch(v, x.q)
    /\ UNCHANGED <<nodeOnly, answered, files, pruning, boot, volumes>>

(* The file's answer, for a boot that waits for it. *)
Delivers(x, at) ==
    LET s == x.q.s IN
    /\ queries' = queries \ {x}
    /\ boot' = IF boot[s].at = "awaits" /\ boot[s].tag = x.q.want
               THEN [boot EXCEPT ![s].at = at] ELSE boot

(* The .part gets the file's name when it is still there: others who write *)
(* it then write a file in use.                                            *)
Downloaded(x) ==
    LET v == x.q.want IN
    /\ x.at = "loads" /\ x.q \in writers[v]
    /\ files' = [files EXCEPT ![v] = IF writers[v] = {x.q} THEN "whole" ELSE "part"]
    /\ writers' = [writers EXCEPT ![v] = {}] /\ unlock(v, x.q) /\ To(x, "opens")
    /\ UNCHANGED <<nodeOnly, answered, pruning, boot, volumes>>

DownloadFails(x) ==
    LET v == x.q.want IN
    /\ x.at = "loads"
    /\ writers' = [writers EXCEPT ![v] = {}] /\ unlock(v, x.q)
    /\ Delivers(x, "fetches")
    /\ UNCHANGED <<nodeOnly, answered, files, pruning, volumes>>

(* Deliver removes a .part that is there and starts its own. *)
Opens(x) ==
    /\ x.at = "opens"
    /\ IF files[x.q.want] = "none" THEN Delivers(x, "fetches") /\ UNCHANGED copier
       ELSE To(x, "copies") /\ UNCHANGED boot /\ copier' = [copier EXCEPT ![x.q.s] = x.q]
    /\ UNCHANGED <<nodeOnly, nodeStore, delivered>>

(* It renames whatever is under that name by then. *)
Deliver(x) ==
    LET s == x.q.s IN
    /\ x.at = "copies"
    /\ IF copier[s] = NoQuery THEN Delivers(x, "fetches") /\ UNCHANGED delivered
       ELSE /\ Delivers(x, "local")
            /\ delivered' = [delivered EXCEPT ![s] =
                 IF copier[s] = x.q /\ files[x.q.want] # "part" THEN "whole" ELSE "part"]
    /\ copier' = [copier EXCEPT ![s] = NoQuery]
    /\ UNCHANGED <<nodeOnly, nodeStore>>

(* Prune looks at a directory's age, and later removes it with all in it. *)
Prune(v) ==
    /\ \/ Turn /\ pruning = 0 /\ pruning' = v /\ UNCHANGED <<files, writers>>
       \/ /\ pruning = v /\ pruning' = 0 /\ UNCHANGED turns
          /\ files' = [files EXCEPT ![v] = "none"] /\ writers' = [writers EXCEPT ![v] = {}]
    /\ UNCHANGED <<latest, every, own, installed, recorded, asked, answered, holder, queries, boot,
                   volumes>>

(* What is answered is lost; a .part may stay and is emptied later. *)
NodeRestarts ==
    /\ Turn
    /\ queries' = {} /\ pruning' = 0
    /\ writers' = [v \in Releases |-> {}] /\ holder' = [v \in Releases |-> NoQuery]
    /\ copier' = [s \in Servers |-> NoQuery]
    /\ UNCHANGED <<latest, every, own, answered, files, boot, delivered, installed,
                   recorded, asked>>

-----------------------------------------------------------------------------
AddonsNext ==
    \/ ChangePins \/ Released \/ NodeRestarts
    \/ \E s \in Servers :
         Boot(s) \/ Stops(s) \/ Update(s)
    \/ \E x \in queries :
         \/ Answer(x) \/ ReleaseByVersion(x) \/ Release(x) \/ File(x) \/ Downloaded(x)
         \/ DownloadFails(x) \/ Opens(x) \/ Deliver(x)
    \/ \E v \in Releases : Prune(v)

AddonsSpec == AddonsInit /\ [][AddonsNext]_addonVars

-----------------------------------------------------------------------------
(* A file under its name in the cache is whole, whatever boots ask for it  *)
(* at once, whatever downloads fail, and whatever is pruned or restarted.  *)
CachedIsWhole == \A v \in Releases : files[v] # "part"

(* An egg that gets its answers ends a boot with the release it had, or    *)
(* with one it was pinned to while it asked: a pin that changes, or that   *)
(* the node cannot find, does not let it take the newest.                  *)
(* docs/modules/addon-cache.md says more, "A pin never falls back to       *)
(* 'install the newest'": a query that nobody answers (0 in asked) does.   *)
AnsweredPinHolds ==
    [][\A s \in Servers : recorded'[s] # recorded[s]
                            => recorded'[s] \in asked[s] \/ 0 \in asked[s]]_addonVars
===============================================================================
