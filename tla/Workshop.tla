------------------------------- MODULE Workshop -------------------------------
(***************************************************************************)
(* The workshop cache of the node (internal/node/workshop): one copy of an *)
(* addon per node, and links to it in every server's volume.  A pass over  *)
(* a volume (Store.Sync) runs when a booting egg asks for it.  It takes    *)
(* what the server downloaded into the store, links what the store holds   *)
(* and hands real files back when the addon was updated.  Passes over      *)
(* different volumes share the store without a lock; `prune' removes       *)
(* versions from another process; the game's own Steam client changes the  *)
(* volume of a server that runs.                                           *)
(*                                                                         *)
(* The module follows one addon through its versions.  Addons meet in a    *)
(* pass only through an error that ends it and through the acf, which is   *)
(* written once at its end; the descriptor file is left out.  What a file  *)
(* holds is the version its bytes are of.                                  *)
(*                                                                         *)
(* `harmed' remembers that one of five things happened which the code does *)
(* nothing against: a take or a release cut short between two files, a     *)
(* server that starts while its pass works, a prune beside a pass, a prune *)
(* of a version that only the later links of a volume point to, and a      *)
(* release of files the acf calls by another version.                      *)
(***************************************************************************)
EXTENDS Naturals, FiniteSets

CONSTANTS
    Servers,
    Parts,       \* the files an addon may have, in the order ReadDir sorts them
    PartsOf,     \* the files of each version, in publishing order
    Seed,        \* cfg.Seed
    Fails,       \* a copy, a link or a write may fail
    Crashes      \* the daemon may restart

Versions == DOMAIN PartsOf
Newer    == Cardinality(Versions)     \* the last version Steam publishes
Cut      == Newer + 1                 \* the bytes of a copy not finished

ASSUME WorkshopAssumption ==
    /\ Parts \subseteq Nat /\ IsFiniteSet(Parts)
    /\ Newer \in Nat \ {0} /\ Versions = 1..Newer
    /\ PartsOf \in [Versions -> SUBSET Parts \ {{}}]
    /\ Seed \in BOOLEAN /\ Fails \in BOOLEAN /\ Crashes \in BOOLEAN

VARIABLES
    steam,       \* the version Steam publishes
    upstream,    \* m.upstream: the version Steam reported last, or 0
    stored,      \* per version and part, what the file in the store holds, or 0
    meta,        \* per version, the files its meta.json records, none without one
    volume,      \* per server and part, a real file, a link into the store or nothing
    dirs,        \* the servers with a directory for the addon
    acf,         \* per server, the installed manifest and latest_manifest, or 0
    phase,       \* where a server's container stands
    ready,       \* servers with a WorkshopReady to read on their connection
    pass,        \* per server, the pass over its volume
    harmed       \* history: see above

storeVars  == <<stored, meta>>
volumeVars == <<volume, dirs, acf>>
nodeVars   == <<upstream, pass>>
eggVars    == <<phase, ready>>
vars == <<steam, nodeVars, storeVars, volumeVars, eggVars, harmed>>

Nothing == [is |-> "nothing", of |-> 0]
Real(c) == [is |-> "real", of |-> c]
Link(v) == [is |-> "link", of |-> v]
Files   == {Nothing} \cup {Real(c) : c \in 1..Cut} \cup {Link(v) : v \in Versions}

Places == {"idle", "survey", "release", "take", "copy", "meta", "link",
           "seed", "acf", "reply", "free"}

Idle == [at |-> "idle", stale |-> FALSE, acf |-> [have |-> 0, latest |-> 0], it |-> 0,
         src |-> 0, files |-> {}, todo |-> {}, plan |-> "none", ok |-> TRUE]

Bookkeeping == [have : {0} \cup Versions, latest : {0} \cup Versions]

Plans  == {"none", "release", "take", "swap", "link", "seed"}

Passes == [at : Places, stale : BOOLEAN, acf : Bookkeeping, it : {0} \cup Versions,
           src : 0..Cut, files : SUBSET Parts, todo : SUBSET Parts, plan : Plans, ok : BOOLEAN]

TypeOK ==
    /\ steam \in Versions /\ upstream \in {0} \cup Versions
    /\ stored \in [Versions -> [Parts -> 0..Cut]]
    /\ meta \in [Versions -> SUBSET Parts]
    /\ volume \in [Servers -> [Parts -> Files]]
    /\ dirs \subseteq Servers
    /\ acf \in [Servers -> Bookkeeping]
    /\ phase \in [Servers -> {"booting", "asking", "up"}]
    /\ ready \subseteq Servers
    /\ pass \in [Servers -> Passes]
    /\ harmed \in BOOLEAN

Init ==
    /\ steam = 1 /\ upstream = 0
    /\ stored = [v \in Versions |-> [p \in Parts |-> 0]]
    /\ meta = [v \in Versions |-> {}]
    /\ volume = [s \in Servers |-> [p \in Parts |-> Nothing]]
    /\ dirs = {}
    /\ acf = [s \in Servers |-> [have |-> 0, latest |-> 0]]
    /\ phase = [s \in Servers |-> "booting"]
    /\ ready = {}
    /\ pass = [s \in Servers |-> Idle]
    /\ harmed = FALSE

First(ps) == CHOOSE p \in ps : \A q \in ps : p <= q

-----------------------------------------------------------------------------
(* The store *)

(* read: meta.json and every file it records are there, whatever they hold. *)
Has(v) == meta[v] # {} /\ \A p \in meta[v] : stored[v][p] # 0

Newest == LET held == {v \in Versions : Has(v)}
          IN  IF held = {} THEN 0 ELSE CHOOSE v \in held : \A w \in held : w <= v

(* staleNow compares for equality, in whatever direction the two differ. *)
StaleNow == upstream # 0 /\ Newest # 0 /\ Newest # upstream

RealParts(s) == {p \in Parts : volume[s][p].is = "real"}
LinkParts(s) == {p \in Parts : volume[s][p].is = "link"}

Pending(books) == books.latest # 0 /\ books.latest # books.have

-----------------------------------------------------------------------------
(* A pass over the volume of s *)

Step(s, from, changes) ==
    /\ pass[s].at = from
    /\ pass' = [pass EXCEPT ![s] = changes]

Goto(s, place) == [pass[s] EXCEPT !.at = place]

(* The files are done; the acf will say v, or with 0 what it said. *)
Settled(s, v) == [Idle EXCEPT !.at = "acf", !.acf = pass[s].acf, !.it = v, !.ok = pass[s].ok]

(* An error of the addon, passed over, and one that ends the pass. *)
Skipped(s) == [Settled(s, 0) EXCEPT !.ok = FALSE]
Failed     == [Idle EXCEPT !.at = "reply", !.ok = FALSE]

(* Only a volume without a directory for the addon is offered it. *)
Offered(s, newest) == Seed /\ s \notin dirs /\ ~pass[s].stale /\ newest # 0

(* Mutant of Plan: an update on its way is taken over with the rest. *)
PlanGreedy(s, newest) ==
    LET real  == RealParts(s)
        have  == acf[s].have
    IN  CASE real = {} /\ LinkParts(s) = {} -> IF Offered(s, newest) THEN "seed" ELSE "acf"
          [] real = {} /\ LinkParts(s) # {} ->
                 IF newest = 0 THEN "acf" ELSE IF pass[s].stale THEN "release" ELSE "link"
          [] real # {} -> IF have = 0 THEN "acf" ELSE IF Has(have) THEN "swap" ELSE "take"

(* What a pass does with the addon, from what it reads when it starts. *)
Plan(s, newest) ==
    LET real  == RealParts(s)
        books == acf[s]
        away  == pass[s].stale \/ Pending(books)
    IN  CASE real = {} /\ LinkParts(s) = {} -> IF Offered(s, newest) THEN "seed" ELSE "acf"
          [] real = {} /\ LinkParts(s) # {} ->
                 IF newest = 0 THEN "acf" ELSE IF away THEN "release" ELSE "link"
          [] real # {} ->
                 IF books.have = 0 \/ Pending(books) THEN "acf"
                 ELSE IF Has(books.have) THEN "swap" ELSE "take"

(* Mutant of unreadable: the pass ends where nothing answers for it. *)
unreadableStays(s) ==
    /\ Fails /\ Step(s, "survey", [Idle EXCEPT !.at = "failed"])
    /\ UNCHANGED <<steam, upstream, storeVars, volumeVars, eggVars, harmed>>

(* The volume or its acf cannot be read. *)
unreadable(s) ==
    /\ Fails /\ Step(s, "survey", Failed)
    /\ UNCHANGED <<steam, upstream, storeVars, volumeVars, eggVars, harmed>>

survey(s) ==
    LET newest == Newest
        plan   == Plan(s, newest)
        have   == acf[s].have
        start(v, files) == [Idle EXCEPT !.at = plan, !.plan = plan, !.acf = acf[s],
                                        !.it = v, !.files = files, !.todo = files]
    IN  /\ Step(s, "survey",
              CASE plan = "acf" -> [Idle EXCEPT !.at = "acf", !.acf = acf[s]]
                [] plan = "seed" -> start(newest, {})
                [] plan \in {"release", "link"} -> start(newest, meta[newest])
                [] plan = "take" -> start(have, RealParts(s))
                [] plan = "swap" -> [start(have, meta[have]) EXCEPT !.at = "link"])
        /\ IF plan = "swap"
           THEN volume' = [volume EXCEPT ![s] =
                    [p \in Parts |-> IF p \in RealParts(s) THEN Nothing ELSE @[p]]]
           ELSE UNCHANGED volume
        /\ UNCHANGED <<steam, upstream, storeVars, dirs, acf, eggVars, harmed>>

(* A step of one file, after it the next file or the end. *)
OneDone(s, v) ==
    IF Cardinality(pass[s].todo) = 1 THEN Settled(s, v)
    ELSE [pass[s] EXCEPT !.todo = @ \ {First(@)}]

(* release: real files of the newest version, the acf left as it is.  A    *)
(* pass that stops in between leaves a part of the addon.                  *)
releaseFile(s) ==
    LET v == pass[s].it
        p == First(pass[s].todo)
    IN  /\ pass[s].at = "release"
        /\ \/ /\ stored[v][p] # 0
              /\ Step(s, "release", OneDone(s, 0))
              /\ volume' = [volume EXCEPT ![s][p] = Real(stored[v][p])]
              /\ harmed' = (harmed \/ stored[v][p] # acf[s].have)
           \/ /\ Fails \/ stored[v][p] = 0
              /\ Step(s, "release", Skipped(s))
              /\ volume' = IF stored[v][p] = 0 THEN volume ELSE [volume EXCEPT ![s][p] = Nothing]
              /\ harmed' = TRUE
        /\ UNCHANGED <<steam, upstream, storeVars, dirs, acf, eggVars>>

(* take, file by file: os.Create empties the file in the store... *)
takeFile(s) ==
    LET v == pass[s].it
        p == First(pass[s].todo)
    IN  /\ pass[s].at = "take" /\ pass[s].todo # {}
        /\ \/ /\ volume[s][p].is = "real"
              /\ Step(s, "take", [Goto(s, "copy") EXCEPT !.src = volume[s][p].of])
              /\ stored' = [stored EXCEPT ![v][p] = Cut]
              /\ UNCHANGED harmed
           \/ /\ Fails \/ volume[s][p].is # "real"
              /\ Step(s, "take", Failed)
              /\ harmed' = TRUE
              /\ UNCHANGED stored
        /\ UNCHANGED <<steam, upstream, meta, volumeVars, eggVars>>

(* ...io.Copy fills it, and the volume's file goes. *)
copyFile(s) ==
    LET v == pass[s].it
        p == First(pass[s].todo)
    IN  /\ Step(s, "copy", [Goto(s, "take") EXCEPT !.src = 0, !.todo = @ \ {p}])
        /\ stored' = [stored EXCEPT ![v][p] = pass[s].src]
        /\ volume' = [volume EXCEPT ![s][p] = Nothing]
        /\ UNCHANGED <<steam, upstream, meta, dirs, acf, eggVars, harmed>>

(* A copy that fails removes its destination, whoever links to it by then. *)
copyFails(s) ==
    LET v == pass[s].it
    IN  /\ Step(s, "copy", Failed) /\ Fails
        /\ stored' = [stored EXCEPT ![v][First(pass[s].todo)] = 0]
        /\ harmed' = TRUE
        /\ UNCHANGED <<steam, upstream, meta, volumeVars, eggVars>>

taken(s) ==
    LET v == pass[s].it
    IN  /\ pass[s].todo = {}
        /\ \/ /\ Step(s, "take", [Goto(s, "link") EXCEPT !.todo = pass[s].files])
              /\ meta' = [meta EXCEPT ![v] = pass[s].files]
              /\ UNCHANGED harmed
           \/ /\ Fails
              /\ Step(s, "take", Failed)
              /\ harmed' = TRUE
              /\ UNCHANGED meta
        /\ UNCHANGED <<steam, upstream, stored, volumeVars, eggVars>>

(* Mutant of Told: a volume that follows keeps its bookkeeping. *)
ToldUnlessLinked(s) == pass[s].plan # "link"

(* Absorbed, Linked or Seeded: the acf has to say so. *)
Told(s) == pass[s].plan # "link" \/ pass[s].it # pass[s].acf.have

(* link; an error ends the pass when the server's own files just moved and *)
(* is passed over otherwise.  Links of an older version with more files go *)
(* with the last step.                                                     *)
linkFile(s) ==
    LET p     == First(pass[s].todo)
        extra == IF pass[s].todo = {p} THEN LinkParts(s) \ pass[s].files ELSE {}
    IN  /\ pass[s].at = "link"
        /\ dirs' = dirs \cup {s}
        /\ \/ /\ Step(s, "link", OneDone(s, IF Told(s) THEN pass[s].it ELSE 0))
              /\ volume' = [volume EXCEPT ![s] =
                    [q \in Parts |-> IF q = p THEN Link(pass[s].it)
                                     ELSE IF q \in extra THEN Nothing ELSE @[q]]]
           \/ /\ Fails /\ volume[s][p] # Link(pass[s].it)
              /\ Step(s, "link", IF pass[s].plan \in {"take", "swap"} THEN Failed ELSE Skipped(s))
              /\ volume' = [volume EXCEPT ![s][p] = Nothing]
        /\ UNCHANGED <<steam, upstream, storeVars, acf, eggVars, harmed>>

(* The store is walked again: what it offers now has to be what was the *)
(* newest when the pass began.                                           *)
seed(s) ==
    LET v == pass[s].it
    IN  /\ Step(s, "seed", IF Has(v)
              THEN [Goto(s, "link") EXCEPT !.files = meta[v], !.todo = meta[v]]
              ELSE Settled(s, 0))
        /\ UNCHANGED <<steam, upstream, storeVars, volumeVars, eggVars, harmed>>

(* The acf read at the start goes back, with what the pass did to it. *)
Books(s) == IF pass[s].it # 0 THEN [have |-> pass[s].it, latest |-> pass[s].it] ELSE pass[s].acf

writeACF(s) ==
    /\ \/ /\ Step(s, "acf", [Idle EXCEPT !.at = "reply", !.ok = pass[s].ok])
          /\ acf' = [acf EXCEPT ![s] = Books(s)]
       \/ /\ Fails
          /\ Step(s, "acf", Failed)
          /\ UNCHANGED acf
    /\ UNCHANGED <<steam, upstream, storeVars, volume, dirs, eggVars, harmed>>

(* The answer goes to whatever connection the server has by now, if any. *)
reply(s) ==
    /\ Step(s, "reply", [Idle EXCEPT !.at = "free"])
    /\ \/ ready' = ready \cup {s}
       \/ phase[s] = "booting" /\ UNCHANGED ready
    /\ UNCHANGED <<steam, upstream, storeVars, volumeVars, phase, harmed>>

free(s) ==
    /\ Step(s, "free", Idle)
    /\ UNCHANGED <<steam, upstream, storeVars, volumeVars, eggVars, harmed>>

Working(s) == pass[s].at \notin {"idle", "free"}

-----------------------------------------------------------------------------
(* The node's update check, its command and its end *)

checkUpdates ==
    /\ Newest # 0 /\ upstream' = steam
    /\ UNCHANGED <<steam, pass, storeVars, volumeVars, eggVars, harmed>>

(* Mutant of Used: a server that is down is not asked. *)
UsedNow == {volume[s][First(LinkParts(s))].of :
               s \in {t \in Servers : LinkParts(t) # {} /\ phase[t] = "up"}}

(* Used: the first link of a volume decides for all of them. *)
Used == {volume[s][First(LinkParts(s))].of : s \in {t \in Servers : LinkParts(t) # {}}}

(* A volume with links to v of which the first is to another version: a    *)
(* relink stopped in between.                                              *)
LinksLater(s, v) ==
    /\ \E p \in LinkParts(s) : volume[s][p].of = v
    /\ volume[s][First(LinkParts(s))].of # v

(* Any version without a link may have been so for keep_days. *)
prune(v) ==
    /\ Has(v) /\ v \notin Used
    /\ stored' = [stored EXCEPT ![v] = [p \in Parts |-> 0]]
    /\ meta' = [meta EXCEPT ![v] = {}]
    /\ harmed' = (harmed \/ \E s \in Servers : Working(s) \/ LinksLater(s, v))
    /\ UNCHANGED <<steam, nodeVars, volumeVars, eggVars>>

daemonRestarts ==
    /\ Crashes
    /\ upstream' = 0
    /\ pass' = [s \in Servers |-> Idle]
    /\ ready' = {}
    /\ harmed' = (harmed \/ \E s \in Servers : pass[s].at \in {"take", "copy", "release"})
    /\ UNCHANGED <<steam, storeVars, volumeVars, phase>>

-----------------------------------------------------------------------------
(* The egg and the game's Steam client *)

(* One pass per server: a request while it runs is dropped. *)
claim(s) ==
    pass' = IF pass[s].at # "idle" THEN pass
            ELSE [pass EXCEPT ![s].at = "survey", ![s].stale = StaleNow]

ask(s) ==
    /\ phase[s] = "booting" /\ phase' = [phase EXCEPT ![s] = "asking"]
    /\ claim(s)
    /\ UNCHANGED <<steam, upstream, storeVars, volumeVars, ready, harmed>>

starts(s) ==
    /\ phase[s] = "asking" /\ phase' = [phase EXCEPT ![s] = "up"]
    /\ ready' = ready \ {s}
    /\ harmed' = (harmed \/ Working(s))
    /\ UNCHANGED <<steam, nodeVars, storeVars, volumeVars>>

answered(s) == s \in ready /\ starts(s)

(* WorkshopTimeout, or the connection broke. *)
givesUp(s) == starts(s)

restarts(s) ==
    /\ phase[s] # "booting" /\ phase' = [phase EXCEPT ![s] = "booting"]
    /\ ready' = ready \ {s}
    /\ UNCHANGED <<steam, nodeVars, storeVars, volumeVars, harmed>>

(* The client records a newer version, writes its files and then the acf; *)
(* it cannot write through a link into the read-only mount.               *)
notice(s) ==
    /\ phase[s] = "up" /\ acf[s].have # steam /\ acf[s].latest # steam
    /\ acf' = [acf EXCEPT ![s].latest = steam]
    /\ UNCHANGED <<steam, nodeVars, storeVars, volume, dirs, eggVars, harmed>>

Missing(s) == {p \in PartsOf[acf[s].latest] : volume[s][p] # Real(acf[s].latest)}

download(s) ==
    /\ phase[s] = "up" /\ Pending(acf[s]) /\ Missing(s) # {}
    /\ LET p == First(Missing(s))
       IN  /\ volume[s][p].is # "link"
           /\ volume' = [volume EXCEPT ![s][p] = Real(acf[s].latest)]
    /\ dirs' = dirs \cup {s}
    /\ UNCHANGED <<steam, nodeVars, storeVars, acf, eggVars, harmed>>

install(s) ==
    LET v == acf[s].latest
    IN  /\ phase[s] = "up" /\ Pending(acf[s]) /\ Missing(s) = {}
        /\ acf' = [acf EXCEPT ![s].have = v]
        /\ volume' = [volume EXCEPT ![s] = [p \in Parts |-> IF p \in PartsOf[v] THEN @[p] ELSE Nothing]]
        /\ UNCHANGED <<steam, nodeVars, storeVars, dirs, eggVars, harmed>>

publishes ==
    /\ steam < Newer /\ steam' = steam + 1
    /\ UNCHANGED <<nodeVars, storeVars, volumeVars, eggVars, harmed>>

-----------------------------------------------------------------------------
sync(s) ==
    \/ unreadable(s) \/ survey(s) \/ releaseFile(s)
    \/ takeFile(s) \/ copyFile(s) \/ copyFails(s) \/ taken(s)
    \/ linkFile(s) \/ seed(s) \/ writeACF(s) \/ reply(s) \/ free(s)

Next ==
    \/ \E s \in Servers :
          \/ sync(s) \/ ask(s) \/ answered(s) \/ givesUp(s) \/ restarts(s)
          \/ notice(s) \/ download(s) \/ install(s)
    \/ \E v \in Versions : prune(v)
    \/ checkUpdates \/ publishes \/ daemonRestarts

Spec == Init /\ [][Next]_vars

-----------------------------------------------------------------------------
(* Properties *)

Copying(v, p) == \E s \in Servers :
    pass[s].at = "copy" /\ pass[s].it = v /\ First(pass[s].todo) = p

(* "The module treats an item's whole directory as the unit": a version    *)
(* the store offers is recorded with every file it was published with, and *)
(* holds its own bytes in them, however passes over other volumes take,    *)
(* link and release beside each other and downloads stop half way; only a  *)
(* copy in progress may have emptied a file again.                         *)
OfferedIsWhole ==
    ~harmed => \A v \in Versions : Has(v) =>
        /\ meta[v] = PartsOf[v]
        /\ \A p \in PartsOf[v] : stored[v][p] = v \/ Copying(v, p)

(* The links of a volume resolve: no link points at a file the store lost, *)
(* whichever of the passes, the command and the servers came first, down   *)
(* servers included (link, Prune, Used).                                   *)
LinksResolve ==
    ~harmed => \A s \in Servers, p \in Parts :
        volume[s][p].is = "link" => stored[volume[s][p].of][p] # 0

(* The cache keeps the promise of SharedStore: whatever a pass does file   *)
(* by file, and whoever else is at work, a version appears as a whole, is  *)
(* linked to while it is offered, and goes when no link is left            *)
(* (WorkshopProofs, StoreKept).                                            *)
Links(s) == {<<volume[s][p].of, p>> : p \in LinkParts(s)}
Store == INSTANCE SharedStore WITH Volumes <- Servers, offered <- {v \in Versions : Has(v)},
                                   linked <- [s \in Servers |-> Links(s)], broken <- harmed
KeepsStore == Store!Spec

(* "The old version stays until no server links to it": while no pass is   *)
(* at work, prune removes no version that a link in a volume points to.    *)
PruneSparesLinked ==
    [][\A v \in Versions : (prune(v) /\ \A s \in Servers : ~Working(s)) =>
          \A s \in Servers, p \in Parts : volume[s][p] # Link(v)]_vars

(* "the acf must describe exactly what the volume now has": when a pass    *)
(* without an error has left links only, they are all of the version the   *)
(* acf calls installed, after whatever earlier passes left half done.      *)
AcfDescribes ==
    ~harmed => \A s \in Servers : (pass[s].at = "reply" /\ pass[s].ok /\ RealParts(s) = {}) =>
        \A p \in LinkParts(s) : volume[s][p].of = acf[s].have

(* "Every other server stops being out of date the moment the store has    *)
(* the new version. They are relinked to it on their next boot ... and     *)
(* download nothing": no server is handed real files while the store holds *)
(* the version Steam publishes.                                            *)
OneServerDownloads ==
    \A s \in Servers : pass[s].at = "release" => pass[s].it # steam
=============================================================================
