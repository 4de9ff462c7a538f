# Verification of the CS2 egg and node

This directory holds TLA+ models of the node daemon (`cs2node`) and of the parts
of the egg (`cs2egg`) that talk to it, TLC instances that check them, and proofs
that TLAPS checks. Paths below are relative to `src/`.

## 1. The system

One **egg** runs in every server container: it prepares the volume, starts CS2 on
a pty, watches its output and reports state and crashes. One **node** daemon runs
as root on the host: it follows docker, opens a unix socket in every server's
volume, and runs modules (shared game files, firewall, backups ...). The two
exchange JSON lines (`internal/proto`); either works without the other.

| Component | State it keeps | Operations | Interacts through | Hard behaviour |
|---|---|---|---|---|
| core (`node/core/core.go`, `docker.go`) | registry `containers` (entry: socket, last state, stop label), subscribers' channels | `Run` = `reconcile`, `Events`, `handle`; `setEgg`, `dispatch`, `ExpectStop`, `Subscribe` | docker list and event stream; channels of 64 to modules; one mutex | events lost between listing and subscribing; emitting outside the lock; full channels; stop labels that outlive their stop |
| socket (`node/core/socket.go`) | listener, current connection | `openSocket`, `serve`, `send`, `drop`, `close` | one goroutine per connection; writes from every module | a new connection replaces the old one while others write or drop it |
| node client (`egg/nodeclient`, `handshake` and `nodeLink` in `egg/boot/boot.go`) | the egg's connection | `Connect`, `AwaitVerdict`, `receive`, `Request` | socket | boot waits for a verdict with no deadline; reconnects |
| vpksync jobs (`node/vpksync/module.go`, `push.go`, `steam.go`) | queue, worker slots, volume locks, lock of the central install, last status; on disk the install and the volumes | `job`, `updateLoop`, `centralUpdate`, `Push`, `Verify` | core events, `Send`; one goroutine per job | three locks in order; SteamCMD against pushes; partial pushes, failing SteamCMD, daemon restarts |
| vpksync restarts (`node/vpksync/restart.go`) | `owed` map, entries held by pointer | `owe`, `settle`, `restartLoop`, `forget`, `Decide` | Wings, the egg's reported players, `Die` events | two settlers on one entry; announced countdowns; failing Wings |
| workshop (`node/workshop`) | store of shared maps, `meta.json`, the engine's acf file | `Sync` (absorb, link, seed, release), `Prune` | egg's `Request` before the start; CLI as a second process | multi-file moves that fail half-way; egg timeout against a running pass |
| addoncache and pins (`node/addoncache`, `egg/addons`) | releases and files with an age, pins in the node config; in the volume the addon and `versions.txt` | `answer`, `File`, `Release`, `Deliver`, `Prune`, `SetPin`; `UpdateAll` | query and answer over the socket, GitHub | a pin must survive an unreachable node or GitHub; concurrent downloads; late answers |
| host guard (`node/guard`) | offenders and their file, firewall sets, protected ports, joined clients, rate sample | `block`, `onKmsg`, `idleLoop`, `chatCheck`, `Escalate`, `Record`, `refreshPorts`; the commands | kernel log, nftables, egg events, core events | escalate, block and record are not one step; commands are another process; other tools flush nftables; clients known by address |
| egg guard (`egg/guard`) | maps of clients, names, addresses, trust, counters, cooldowns, mutes | `Inspect` (sweep, then the line), `react`, `forget`, `HostNotice` | lines of the console, reports to the node | names and userids are used again; leave lines carry a name only |
| egg boot (`egg/boot`, `egg/steamcmd`, `egg/addons/gameinfo.go`) | the volume: VPKs, SteamCMD, `gameinfo.gi` | `handshake`, `removeStale`, `Install`, `Update`, `UpdateAll` | node, SteamCMD | many boots with other switches; kills inside an edit |
| egg run (`egg/boot`, `supervisor`, `watch`, `console`) | pty, input line, players, stop flag | `Send`, `Run`, `sendState`, `reportCrash` | panel stdin, pty, node | lock held over a pty write; four senders of one state; crash or stop |
| backup and crashes (`node/backup`, `node/crashes`, `node/bundles`) | archives and sidecars | `RunAll`, `Archive`, `Bundle`, `Prune`, `Restore` | timer, crash reports, commands | several writers of one directory, deaths in between |
| alerts (`node/alerts`) | pending notices, a timer | `OnNotify`, `flush`, `Post`, `FinalFlush` | core notices, Discord | rate limits, overlapping flushes, the daemon's exit |
| cleanup (`node/cleanup`, `internal/cleanup`) | none | a pass over a volume | `/proc`, the server's files | files opened during a pass; folders removed whole |
| update (`node/update`) | binary, `.prev`, temporary file | `Check`, `Apply`, restart | GitHub, systemd | two renames, torn downloads |
| console log (`egg/boot/logsink.go`, `node/consolelog`, `logx`) | queue of lines; per server and day a file or an archive | `Write`, `WriteLine`, `Compress`, `Rotate` | socket, the disk | a day's file is compressed and removed beside its writer; daemon deaths in between |
| the rest (configs, startup, metrics, control, doctor, ui, install, nodeconfig, proto ...) | none or a file | sequential I/O, formatting, read-only status | | |

What makes each of them correct:

- core: registry and docker differ only by events still to come; a module that
  applies its events believes what the registry says; a stop is labelled by its
  own cause; a wrong registry heals.
- socket and client: one connection at a time, no dead connection stays current,
  a boot does not hang, the first message on a connection is a hello.
- vpksync: the install is never written while it is read, a finished push is one
  build, every job ends, the queue and the statuses are truthful; a server gets
  the build it was promised, at the time the policy says, and is warned.
- workshop: the store never offers a partial item; a server's links resolve; the acf describes the volume.
- addoncache: a cached file is whole; a pin is never overridden by "newest".
- host guard: what the kernel blocks has its reason on record; the kernel protects
  the ports that are published; nobody is called idle by too few samples, and who left is forgotten.
- egg guard: its picture of the clients is the engine's; trust lasts; nothing is left behind.
- egg boot: whatever earlier boots did, `gameinfo.gi` is in order when the server starts.
- egg run: no deadlock at the pty, the last report is the latest state, one crash
  report per crash and none on a stop.
- console log: no written line is lost before its age, none stays past it.
- backup, alerts, update: the newest archives are there; no notice stays or is
  posted twice; no unverified binary gets the name.

## 2. Modules

| Module | Models | State ↔ code | Actions ↔ code |
|---|---|---|---|
| `NodeCore` | registry | `reg`, `entry` = `c.containers`; `queue` = one subscriber's channel; `stream`, `running` = docker; `pc` = where `Run` stands; `unseen` is a history | `ApplyStart`/`ApplyDie` = `handle` up to its unlock, `Emit` = `emit`; `Tell` = what `Events` passes on, `List` = what `Running` returns (either may leave a server out), `ListFails`; `ReconcileStart`, `ReconcileDie`, `OpenStream`, `HandleEvent`, `StreamBreaks`, `Wake` = `Run`; `setEgg`, `dispatchState`, `dispatchCrash`, `ExpectStop`, `Subscribe` by name |
| `EggLink` | socket and client | `conn` = `s.conn` of each socket, `sockOf` = a connection's socket; `serve` = place of each serve goroutine; `egg`, `mine` = handshake and `nodeLink`; `inbox`, `shut` = the wire | `accept` = `acceptLoop`, `replace`..`readEnds` = `serve` cut at its unlocks and writes; `close` may come between `accept` and `replace`; `jobSends`/`jobWrites` = `Core.Send` and `sockServer.send`; `dial`, `helloAnswered`, `awaitVerdict`, `receive` = the egg |
| `SharedTree` | abstract: what vpksync promises about the install | `busy`, `updating` | `Begin`, `End`, `BeginUpdate`, `EndUpdate`, `Crash` |
| `VpkSync` | jobs and update loop | `queue`, `slots` (= `sem`), `lock` (= `volumes`), `tree` and `readers` (= `central`), `last`; `vpks` and `rest` = the files of a volume | one action per step of `job` between two synchronisations, `wantTree`..`pushRound` = `updateLoop` and `centralUpdate` |
| `VpkRestart` | owed restarts | `owed`, `age` (`since`), `left` (`restartAt`); `known`, `seen` = `State` | `owe`, `fetch`, `look`, `warn`, `delete`, `ask` = `settle` cut where the lock is free or the entry is read; `tick`, `forget` |
| `Workshop` | workshop cache | `stored`, `meta` = the version directories of the store and their `meta.json`; `volume`, `dirs`, `acf` = a server's item directory and the engine's bookkeeping; `upstream` = `m.upstream`; `pass` = a running `Store.Sync` and the busy mark of `claim`; `ready` = the answer on the egg's connection | `ask` = the handler and `claim`; `survey`..`writeACF` = `Store.Sync` cut between files; `reply`, `free` = `Module.sync` and `release`; `checkUpdates`, `prune`, `daemonRestarts`; `starts` = `syncWorkshop` in the egg; `notice`, `download`, `install` = the game's Steam client (external, as the comments at `store.go:249` and `module.go:194` describe it) |
| `SharedStore` | abstract: what the workshop cache promises about an addon | `offered`, `linked` (per volume), `broken` (an accident) | `Offer`, `Withdraw`, `Relink` |
| `EggGuard` | the egg's bot guard | `slot`, `joined` = the engine; `g` = the maps of `Guard`; `said` = what a line, or a notice of the node, made it report and type | one action per kind of line (`connect`, `signon`, `dropped`, `accept`, `stray`, ...), each a sweep and the handler as `Inspect` composes them; `HostNotice`, `timePasses` |
| `HostBlocks` | blocks and offenders | `blocked`, `table` = nftables; `seen`, `dirty`, `file` = `Offenders`; `decider` = a goroutine inside `block`; `tool` = a `cs2node block` | `onHit`, `onKmsg` (= `Escalate`), `applyBlock`, `Record`: the three steps; `Flush`, `toolBlocks`/`toolRecords`, `Unblock`, `stops`, `crashes` |
| `HostPorts` | protected ports | `up` = the registry; `kernel`, `loaded` = the set and table; `lastPorts` | `Run`, `readEvent`, `tickReloads`, `tickRefreshes`, `tableLost`, `guardRestarts` |
| `HostWatch` | idle and chat checks | `watched` = `m.clients`; `compared`, `sample` = the sampler; `chats` = a `chatCheck` after its unlock | `onEvent`, `chatBlocks`, `idleLoop` (with `judge`), `dumpFails` |
| `Addons` | addon cache, pins and updaters | `every`, `own` = pins; `files`, `writers`, `holder` = the cache and its locks; `queries` = answers at work; `boot`, `installed`, `recorded` = the egg and the volume | node: `Claim`, `takeLock`, `Opens`, `Deliver`, `Prune`, `SetPin` ...; egg: `Asks`, `NoAnswer`, `GitHub`, `Unpacks`, `Copies`, `Records` |
| `EggBoot` | the boot over the volume | `vpks`, `steam`, `info`, `mounted` = the volume; `booting` = where `boot.Run` stands | `handshake`, `removeStale`, `pruneBrokenVPKLinks`, `Install`, `Update`, `UpdateAll`; `edit`, `edited`, `editLeaves` = `Gameinfo.edit`; `killed` |
| `ConsoleLog` | console log of a server | `channel` = `NodeLogSink.ch`; `plain`, `archive`, `torn`, `mtime` = the files per day; `sweep` = where `maintain` stands; `kept`, `late` are histories | `Tee`, `Drain` = the sink; `WriteLine`; `Starts`, `Ticks` = `Run`; `gzipOpens`..`RemovePlain` = `Compress` cut at its file operations; `Rotate` |
| `EggRun` | supervisor and crash reports | `typist`, `lock`, `input`, `output` = the pty and `s.mu`; `stopping`, `stopper`, `exitCode`, `crashes` | `Takes`/`Writes` = `Send` and the stdin copy; `StopAsked`, `Kill`, `Line`, `RunReturns`, `Exits` |
| `EggState` | the state the node is told | `state` = the watch; `sending` = each goroutine inside `sendState`; `client`, `known`; `run` = how far the end has come; `unsent` is a history | `reads`/`send`, `Feed`, `Heartbeat`, `SetUp`, `LinkLost`, `Connect`, `ProcessEnds` (`os.Exit` in `main`), `NodeRestarts` |
| `Bundles` | archives of one server | `partial`, `archives`, `sidecars` = the directory; `writer` = a backup or a crash bundle at work; `restore`, `volume` | `Archive`, `Rename`, `WriteMeta`, `PruneList`, `RemoveArchive`, `RemoveMeta`, `RestoreCmd`, `Confirm`, `Restore` |
| `Alerts` | delivery of notices | `backlog`, `pendingN`, `timer`, `flushes` = `Module`; `posts` = Discord | `OnNotify`, `TimerFires`, `Posted`, `PostFails`, `RateLimited`, `RetryAfter`, `FinalFlush` |
| `Cleanup` | one rule's pass | `files`, `fresh`, `open` = the volume; `pass` = the pass | `openFiles`, `walk`, `Skip`, `Delete`; the server's `writes`, `closes`, `grows`, `turns` |
| `SelfUpdate` | the swap of the binary | `bin`, `prev`, `tmp` = files by content; `at`, `fd` = the updaters, the daemon's loop and `cs2node update`; `twice` is a history | `download`, `downloaded`, `downloadFails`, `verify`, `keepPrev`, `swap`, `Restart` (which may fail), `toolDies`, `daemonRestarts` |
| `NodeCoreProofs`, `EggLinkProofs`, `VpkSyncProofs`, `VpkRestartProofs`, `WorkshopProofs` | theorems about the module of that name (section 5) | | |
| `Guards`, `Services` | collections of components that share nothing (section 3) | `component` = whose behaviour it is | the `Next` of that component, the others unchanged |
| `GuardsProofs` | theorems about `HostBlocks`, `Bundles`, `Addons`, `EggGuard` and about `Guards` | | |
| `ServicesProofs` | theorems about `HostPorts`, `HostWatch`, `Alerts`, `EggRun`, `EggState`, `Cleanup`, `SelfUpdate`, `EggBoot`, `ConsoleLog` and about `Services` | | |
| `Least` | a lemma: a set of numbers that is not empty has a least element | | |
| `MC*` | values for TLC | | |

How they meet: `EggLink` refines what `NodeCore` says about a hello and a lost
connection in one step; its job is `VpkSync`'s job seen from the wire (statuses,
then a verdict). `VpkSync`'s forced jobs end in `VpkRestart`'s `pushed`. The
seams are events and one verdict, so the modules are checked apart: one product
of all of them says no more and is out of TLC's reach. A workshop pass comes
before the server's start and touches no file of the install, so `Workshop`
meets the others only in the egg's boot. `EggState` and `EggRun` are two views of one run;
`EggRun` abstracts lines and `EggState` the pty. `EggGuard`'s reports are `HostBlocks`' requests and `HostWatch`'s
joins and chats, which the node takes for arbitrary: it does not trust a container. `VpkSync` implements
`SharedTree` by a refinement mapping (`Promise`), checked and proved, and `Workshop`
implements `SharedStore` (`Store`), proved.

Ghost variables (`life`, `unseen`, `claimed`, `missed` in `NodeCore`) are read by
properties only; `life` also tells a message of an earlier run of the container.
`harmed` in `Workshop` is read by properties and by the constraint of its runs (section 4).
`told` in `HostBlocks`, `idleRun` in `HostWatch`, `trustAge`, `crowded` and `hitAge` in `EggGuard`,
`asked` in `Addons`, `removed` in `Cleanup`, `unsent` in `EggState` and `twice` in `SelfUpdate` are histories for properties, too.

## 3. Runs

Every constant that bounds the model is named in its module; the instances:

| Run | Instance | Shows |
|---|---|---|
| `node_core` | 1 server, 2 starts, channel of 1, exit code `sigkill`, lists and streams that leave the server out, 1 daemon restart | the invariants of the registry, the one-stop claim, and that breaking streams heal |
| `link_restart` | `EggLink`: 2 connections, 2 sockets, module subscribed first; `VpkRestart`: 1 server, `window`, delay 1, countdown 2 (units of 30 s), 2 entries, Wings fails, daemon restarts | no replaced or dropped connection stays open, presence ends, boots end; a forced restart is announced, nothing stays owed |
| `vpk_sync` | 1 server, 2 boot jobs and the update job, 2 workers, 1 new build, links, 1 daemon restart | refinement of `SharedTree`, whole pushes, exact queue, every job ends |
| `vpk_sync_done` | 1 server, 1 boot job, 2 builds, links, SteamCMD never fails, no restarts | **violation**: "done" on older files (finding 1) |
| `workshop` | 2 servers (symmetric), 1 addon in 2 versions of two files, one in common; failures, seeding, daemon restarts | a version the store offers is whole, links resolve, the acf describes the volume |
| `workshop_prune` | two files in each version, daemon restarts, no failures | **violation**: a version that is still linked is pruned (finding 2) |
| `workshop_relink` | two files in each version, neither failures nor restarts | **violation**: an addon is released again although the store is current (finding 3) |
| `guards` | `EggGuard`: 3 players (two share an address, two a name), 2 userids, ages to 1; `HostBlocks`: 1 address, 1 egg, the kernel log, 1 command, failures, restarts, `max_ban_minutes` 2; `Addons`: 1 server, 2 releases, 2 boots, 2 queries at a time, 2 turns of GitHub, pins, pruning or the node; `Bundles`: 2 writers, keep 2, 4 stamps, a restore | the egg's clients are the engine's, young trust lasts and nothing is left behind; reasons last; cached files are whole and answered pins hold; the newest archives are there |
| `services` | `HostPorts`: 2 servers that share a port, 3 turns, 2 troubles; `HostWatch`: 2 servers, 1 client, 2 strikes; `Alerts`: 3 notices, 1 per post, 2 rate limits; `EggRun`: 2 commands, 1 query, a pty with room for 1 command; `EggState`: 2 changes, 1 node restart; `Cleanup`: 3 files in 2 folders; `SelfUpdate`: the loop and one command; `EggBoot`: 2 selections; `ConsoleLog`: 2 lines, queue of 1, 4 days, ceiling 2, failing disk | ports settle, idle accounts balance, notices leave once, a stop ends, crashes are reported once, the node learns the state, the swap is whole, mounts are repaired, written lines are kept |
| `guard_cooldown` | 1 player, 1 address, cooldown 3 ticks, sweep every tick | **violation**: a sweep ends every cooldown (finding 4) |
| `egg_stop_boot` | as in `services`, and the container may stop while the egg boots | **violation**: a crash is reported of a server that never ran (finding 5) |
| `guard_trust` | 1 player, 1 address, `strangerTTL` 1 tick, sweep every tick | **violation**: stray packets of a player in the game are held against the player (finding 6) |

`link_restart`, `guards` and `services` hold several components each: a variable `component`, chosen in
`Init`, says whose behaviour it is, and the others stay as they began. The components
share nothing, so the state space is the sum of theirs and not the product, and a
property of one is checked in the behaviours of all. The type invariant of `guards` and of
`services` is the acting component's; the wrappers `PortsSettle` and `NodeSettles` state a
property of one component for its own behaviours, because it asks for something to
happen that never does in the others'.

Why the bounds are enough. In the registry an entry is private to its server and
servers meet only in a channel, whose limit one server reaches with two events; two starts
and a daemon restart give every order of old and new entry, message and event; the label of a stop depends on its exit code
only without a claim, and `StopsExplained` proves the claim's part for every code.
In the link two connections are the least that replace each other, and a third
meets the same two roles. In the jobs, two boot jobs and the update's job give
every contention on a volume, a slot and the install (three jobs, two
slots); jobs of different servers meet at the slots and the install as jobs of
one do, and the theorems of section 5 hold for any number of them. Only the statuses are different:
one server's job announces the others that wait, so that a server keeps a final status
(`IdleMeansSettled`) is proved for any servers (`StatusSettles`) and is no property of the run. In the
restarts the two settlers of a server and two entries (an old one still held and
a new one owed) are all there can be; servers share nothing there.
In the workshop two servers are the least of which one fetches and the other
follows, or that take one version together; two versions are the least with a
newer one; with a file in common and one of its own in each a part of the old one left behind shows,
and a relink can stop between two files; addons meet only where an error ends a pass for all of them, and that end
is an action of the model (`Failed`, `unreadable`).
In the guard three players on two userids are the least with which a userid, a name and an
address are each used again; ages count to one tick past the windows. In the blocks
addresses meet only in the cap on records, which one address reaches with a cap of 1; one egg's goroutine and the
kernel log's are two deciders, and the command is the second process. For the ports,
two servers that publish one port in common show that a leave does not take it from the
other. In the addon cache one server's two boots are two clients of one file, and the
late answer of the first meets the second. Two writers and four stamps let one prune list, while
the other adds. Two selections of switches that have no addon in common bring every path, and
every order of them, into the file. For the console log two lines are one that waits or is in the day's file and
one that comes beside it; with four days and a ceiling of two (365 in the code) a file is fresh, swept, of an age that
depends on the hour, and too old. For the run of the engine, room for one
command is the least with which the pty fills up. The loop and one command are two updaters of one file.
`CHECK_DEADLOCK FALSE` is set for the three collected runs and for violations: a
link whose connections are used up and whose daemon is gone stops, as do an egg that
exited, a daemon that is gone and components whose bounded turns are over.

Each property has a mutant in `PROJECT.json`: a plausible bug in one mapped
definition, written before it in the same module, that the same run refutes.

### Findings

1. `push.go:227` `Verify` looks at VPK files only and, for links, at names
   only, and an update's round (`module.go:161`) pushes to the servers that run when it begins: one
   that is down then and back afterwards, with a boot's job at `Verify` then or later, is told "done" and runs old binaries, against
   `docs/modules/vpk-sync.md:42` ("pushes the new files into every volume").
2. `store.go:498` of the workshop: `Used` stops at an item's first link and takes its
   version for the whole volume's. `link` replaces links file by file
   (`store.go:399`), so a relink cut short by a failed call or a daemon restart leaves
   links of two versions, and `prune` removes the one only the later links point
   to: they dangle until the next pass, against `docs/modules/workshop.md:52` ("The old
   version stays until no server links to it").
3. `module.go:255` of the workshop compares the newest stored version with the
   one Steam reported last for inequality. A server that fetched an update before the
   next check (360 minutes by default) puts the store ahead of `m.upstream`: the
   item counts as stale, and linked servers are handed real files of the newest version
   on their next boot, against `docs/modules/workshop.md:50`.
4. `egg/guard/guard.go:477` sweeps the table of cooldowns as if it held the end of each;
   `react` stores the time of the reaction. Every sweep (30 s) forgets every cooldown, and
   `cooldown_secs` means less than `egg/configs/templates.go:202` says.
5. `egg/boot/boot.go:350` reports a crash when the container is stopped before the server
   was started: the command does not start under a context that is done, its error makes
   the code 1, and nobody has set the stop flag.
6. `egg/guard/guard.go:484` sweeps addresses by the time of their first connect, meant for
   "what never joined" (`guard.go:483`), and takes the trust with it: a player who has been on for longer than
   `strangerTTL` is a stranger again, whom stray packets, reconnects and idle keepalives count against, while
   `docs/modules/guard.md:39` says "A client that finished signon is trusted and exempt from the
   traffic-shaped rules".

More facts of the code that the models show, with no run of their own:
`docker.go:246` asks for the name behind an image id on a start only, so the death of a container
whose tag was pulled again is never told, and `docker.go:128` leaves out of a list what it cannot inspect;
`socket.go:178` (`close`) can run between `Accept` and the lock of `serve`, and the connection that it misses is then
made current on a socket nobody uses, greeted, and never closed by the node (`Stranded`);
`cleanup/cleanup.go:190` removes the folder of a match with all it holds, although `keep_open`
was asked for the match only (`docs/modules/cleanup.md:44`; `OpenFilesAreSpared` proves the rules that leave folders alone);
`core.go:337` lists and `core.go:344` subscribes, and an event in between is lost until
the stream breaks (`PendingEventsAccount` holds for all other servers, `BreaksHeal` says
that a break repairs it); `socket.go:92` makes a connection current before its hello is
written, and an egg that gets something else first goes on without the node;
`restart.go:142` deletes the owed restart before Wings is asked, and a failed call is
never repeated.

### Fairness

`NodeCore`: weak fairness of `Run`, one goroutine that never waits between its steps, and strong fairness of a list that
leaves nothing out: a daemon that lists for ever gets a whole list again and again. That is assumed of docker, as without it a
server whose `Inspect` always fails is never known. Nothing else obliges docker, eggs or streams. `EggLink`: each serve goroutine and each job
runs, the egg reads; no fairness for starts, stops or reconnects. `Ready` assumes
that vpksync subscribes before the first socket opens. Modules start beside the
core (`cmd/cs2node/main.go:250`), so the daemon does not enforce it: with
`Ready = FALSE` an egg that connects first waits for a verdict nobody sends until its
connection ends, and `BootEnds` fails. `VpkSync`: strong fairness of each job,
because the three locks serve their waiters in order (channel sends and
`sync.Mutex` are FIFO, `RWMutex.Unlock` admits waiting readers before the next
writer), weak fairness of taking the install and of the end of SteamCMD (assumed; the code
sets no timeout). `VpkRestart`: goroutines run, the 15 s ticker reaches each owed
server infinitely often, `Die` events are read, Wings starts what it stopped, time passes.

The collected runs `link_restart` and `services` give each component its own fairness, in its own
behaviours. `HostPorts`: `Run` goes on and its one-minute ticker ticks; events need not be
read. `HostWatch`: the sampler's ticker, and the grace of a join ends. `Alerts`: the
listener is read, an armed timer fires, a post comes to an end (its client has a timeout).
`EggRun`: everybody who waits for the lock or the pty goes on when he can, the reader reads, the
kill after the grace comes, `Run` returns when the engine is gone; nothing obliges the engine to read,
quit or die. `EggState`: each sender finishes, the heartbeat beats, a lost link is
noticed and dialled again. `guards` has safety properties only.

## 4. What the properties do not say

- `ForcedIsAnnounced` says that a countdown was announced, not that it ran out:
  two settlers that decide at the same moment let the second restart at once.
- `OwedIsSettled` is about the map only; a server whose call failed keeps its old build.
- `PushedIsWhole` excepts an install a failed SteamCMD left in pieces (`torn`):
  the code copies it, and announces no change if its build id had already moved.

- The properties of `Workshop` hold until one of five accidents that the code
  does nothing against, remembered in `harmed`; TLC stops there. Without any one of
  these exceptions the `workshop` run fails, so each is a limit of the code:
  - a take or a release is cut short between two files, by an error or a daemon
    restart: the next pass takes the files that are left for the whole item
    (`store.go:189`, `store.go:258`);
  - a server starts while its pass works, because the egg waited five minutes
    or read the answer to an earlier boot (`boot.go:369`);
  - `prune` removes a version beside a pass that has chosen it (`store.go:462`);
  - `prune` removes a version that only the later links of a half-relinked volume
    point to (finding 2);
  - a release hands back files of another version than the acf names: when
    that version is gone from the store, the next pass files them under the wrong name.
- `OfferedIsWhole` grants a copy in progress and `LinksResolve` asks that the file
  is there, not what it holds: a second server that takes the same version
  truncates a file the first already links (`store.go:593`). "No running server
  sees a truncated file" is false of the code, and no document claims it.
- `PendingEventsAccount` excuses a server whose change fell between list and subscription, whose `Inspect` failed, or whose event
  `Events` left out (`unseen`): registry and docker differ there with nothing pending, until a later list. `BreaksHeal` says that
  they agree again if the stream keeps breaking.
- `BootEnds` assumes `Ready` and excuses the connection that `close` has missed (`Stranded`): its egg waits for a verdict without a
  deadline until the container goes down.
- `StopEnds` excuses an egg that stays `Jammed`: somebody writes to a full pty that the engine reads no more, under the supervisor's lock,
  and the stopper's own `Send` waits for that lock or for room before its kill. "The process gets Grace to exit before it is
  killed" (`supervisor.go:32`) is false of the code then; with a pty of room for one command TLC shows it of the property without the excuse.
- `SwapIsWhole` excuses two updates that worked at once, which share one temporary file. A kill between
  the two renames leaves no binary under its name, only `.prev`, so the swap is not "atomic" (`update.go:3-5`, `docs/upgrading.md:38`);
  after an update that begins again over a new binary in place (the restart failed, or a command beside the running daemon) `.prev` is the
  new version too, and the previous one is not kept.
- `ReasonLasts` excuses decisions on one address that overlap, a crash or a failed write before
  the flush, and a command that writes back an older copy of the file.
- `AnsweredPinHolds` is about queries that were answered. When nobody answers one within its timeout, the egg asks GitHub for the
  newest release although the server is pinned (`updaters.go:53`), and `docs/modules/addon-cache.md:25` says that a pin never does that.
  A copy that fails leaves torn addon files that `versions.txt` still calls by the old name.
- `MountsRepaired` states the order of the changelog, backups right before Metamod, for boots whose own edits go well on a file
  that is whole. "Metamod first" (`docs/addons.md:31`) does not hold: an addon switched on
  later is mounted at the top, and `metamodFirst` leaves Metamod where it follows backups. A kill inside the
  in-place write leaves a cut file, which only SteamCMD or a person repairs.
- `LinesKept` speaks of lines the node has written; a full queue, a lost connection, a restart or the egg's end loses
  lines before that, as documented. It excuses a line that took its time before midnight and reaches the disk after its day was
  swept: it starts the day's file anew, and `gzipFile` truncates the archive with it (`logx/compress.go:48`).
  `os.Remove` is taken to work.
- `YoungTrustHolds` excuses addresses that two clients held at once, and ends with `strangerTTL`, when a sweep takes the trust
  of a player who is still on (finding 6).
- `IdleAccounts` counts the strikes of the entries there are: clients are known by address, and one of two players of an
  address who leaves takes the other's entry with him (`guard/module.go:332`).
- `NodeSettles` is about runs that nobody stops. At the end of the process the node knows the last state, except after a
  sender that had read the state before the run ended and wrote it after `main`'s last word (`unsent`), or a connection just made:
  nothing orders the senders (`nodeclient.go:81`), and `boot.Run` returns before the process exits.
- `AcfDescribes` is about passes that end without an error and leave links only;
  after an error the next pass has to repair the volume.

## 5. Proofs

Every safety property the runs check, invariant or action property, type invariants included, is a
theorem for all values of the constants. The assumptions are the named `ASSUME`s of the modules, which TLC evaluates in the
runs: the types of constants, finiteness of the servers and jobs that are counted, and
special values that are no member of a set. Four say more:

- `RestartAssumption`: there are two entries for each server. An entry is a heap
  object of the code, and an allocation succeeds: it needs room for the entries in the map and for one
  in the hands of every settler but the one that owes.
- `WorkshopAssumption`: each version of an addon has a file, and versions are numbered.
- `GuardAssumption`: a rule's window is at most `maxRuleWindow` (the comment at `guard.go:79`; the code does not hold the configuration to it),
  its threshold at least 1 (`guard.go:111` raises a smaller one), and the
  grace of a stuck join does not outlast the memory of strangers.
- `BlocksAssumption`: the source of a block is among `Sources`, so there is one.

Two theorems have a hypothesis, because the property is false without it: `CrashesAreReported` is about containers that are not
stopped in their boot (`~StopsInBoot`, the value the run gives; finding 5 is the rest), and `OpenFilesAreSpared` about rules that
leave folders alone (`~DeleteParentDir`); it is no property of a run.

Each proof has the same shape: an invariant that is inductive, a lemma that it holds of
`Init`, one that every action keeps it, and a last step for the temporal logic. What the
invariants add to the properties is the part of the argument a reader of the code needs.

`VpkSyncProofs`
- `TypeCorrect`: `TypeOK`, with the bound on slots; needs finiteness of jobs for
  the cardinality of `slots`, and that the queue holds an entry of every waiting
  server for `dequeue` not to leave `Seq`.
- `LocksHold`: the invariant `Locks` ties each lock to the places of its jobs:
  `readers` are exactly the jobs in a reading place, a volume's lock is held by
  the one job in a holding place, and `tree = "writing"` means no readers.
- `WritesAlone`, `PromiseKept`: with `Locks`, every step of `VpkSync` is a step
  of `SharedTree` or a stutter. The invariant is needed because `End` and `Begin`
  concern a *server*: a second job of the same server in a reading place would
  make them stutters or illegal.
- `PushesAreWhole`: while a job is in `pushed` no other job of its server can
  write the volume and SteamCMD cannot move `central`.
- `QueueIsRight`: the positions of a server in the queue are as many as its waiting
  jobs. `dequeue` removes the first of them, which exists (`Least`); the lemmas say
  what an append and a removal do to the number of positions.
- `StatusSettles`: a status that is not final belongs to a server with a job at work
  (`WillSettle`), and the places of the jobs say which of them still writes it,
  whichever server's job announced it.

`NodeCoreProofs`
- `TypeCorrect`: conjunct by conjunct, in the named parts of `TypeOK`.
- `StopsExplained`: `OneStopPerClaim`, from the invariant `ClaimsAreMade`
  (an open claim of an entry was made and not used up); it is needed because the
  action property relates the label of a stop to a claim made any number of steps before.
- `SubscriberFollows`: `ViewFollowsRegistry`, with `EmitAgrees`: an event between the
  unlock of `handle` and its `emit` says what the registry already says. The lemmas
  are about what a sequence of events leaves of a server (`After`) when one is
  appended or taken.
- `RegistryFollows`: `PendingEventsAccount`, with `Listing`: what `reconcile` still has to
  correct while it works through docker's list.

`EggLinkProofs`
- `TypeCorrect` and `OneIsOpen` from one invariant: whoever stands before a write has a connection
  to write to (`PeersKnown`), and only a connection that `serve` took under the lock is current
  (`CurrentIsAccepted`), so that the one a `replace` closes is the one it replaces. All other steps only close
  (`Closes`, `OnlyKeeps`), whatever socket the connection is of and whether it is closed by then.

`VpkRestartProofs`
- `TypeCorrect`: that a fresh entry exists is a counting argument over
  the map and the settlers' hands; all other steps are plain.
- `ForcedIsWarned`: a settler holds an entry in four places only (`Fetched`), a
  countdown runs on an entry that is due (`CountdownsAreDue`), and a settler about to
  ask Wings has announced or found nobody there (`Announced`). It is true however two
  settlers share one entry, because entries are not used again while one is held.

`WorkshopProofs`
- `TypeCorrect`: the type with what a pass knows at each place (`Informed`); it holds
  with accidents or without.
- `OffersAreWhole`, `LinksStay`, `BooksAreRight`: all three from `CacheInv`, which says,
  until an accident, for each version that it is recorded with all its files or not at all, and that a
  file in the store has its own bytes or is being copied (`VersionWhole`); for each server that links are to
  files of recorded versions (`LinksHeld`), that real files are those of the version the acf calls
  installed (`RealsOwn`), that nobody else changes the volume under a pass (`Alone`); and for each
  place of a pass what is done of its files and what is left (`Releasing`, `Taking`, `Linking`, `Seeding`,
  `Writing`), up to the acf that matches the links when the pass answers (`Replying`). `LinksResolve` is not
  inductive without the rest, and not at all with a `prune` that looks at one link per volume: the
  first attempt failed there, which is finding 2 and the fifth accident of section 4.
- `StoreKept`, `NoneLeadsAstray`: the refinement of `SharedStore` by `KeepsStore`. With `CacheInv` a version is offered
  exactly if it is on record, so that only the end of a take and `prune` change what is offered; the end of a take is an
  `Offer` or a stutter, `prune` is a `Withdraw` because links are held, and whatever else touches a volume touches one and
  leaves links to offered versions there: a `Relink`. An accident may do anything to the store, as `Next` of `SharedStore`
  grants. No run has this property: it doubles the time of the largest instance. TLC has checked it
  there once (`PROPERTY KeepsStore` beside the constraint of `MCWorkshop.cfg`, under four minutes), before it was proved.

`GuardsProofs`
- `ReasonsLast` (`HostBlocks`): without a change that is still to flush, the file has the reason of every
  block that was told, and such an address has a block, so that nothing forgets its record (`ReasonsKept`).
- `NewestStay` (`Bundles`): what a writer is about to remove (`Doomed`) has as many newer
  archives beside it as are kept, and stays so although other writers come between its list and its
  removal (`PruneInv`); the lemmas count the newer stamps of a set that grows or shrinks at its old end.
- `CacheStaysWhole` (`Addons`): who writes a `.part` file holds the lock of its url (`WritersHold`).
- `AnsweredPinsHold` (`Addons`): the action property `AnsweredPinHolds`; an update acts on an answer that the
  node gave from the pins of that moment (`PinsAsked`), or on none.
- `PictureIsRight`, `YoungTrustStays`, `TracesAreFound` (`EggGuard`): one invariant over the guard's maps
  (`GuardInv`): a userid's seat and its entry say the same, a name leads to a client that has it, and each remembered
  address has a client or a time by which the sweep finds it. A line is a sweep and a handler; each is
  proved to keep the picture on its own.
- `GuardsTyped`, `GuardsKeep` (`Guards`): the acting component's step keeps its invariant, and the others' hold because
  nothing of theirs changes. For the type of `EggGuard` the maps are followed through each handler (`MapsTyped`):
  counts stay below their thresholds, and the mutes within `MaxMutedEntries` but for the one that comes with an address.

`ServicesProofs`
- `UpdateSwapsWhole` (`SelfUpdate`): for any number of updaters, with restarts that fail and kills anywhere. While none began beside
  another, one is at work at most, and where it is says which files there are (`OneUpdates`); while none began again either, one that
  has not swapped does not find the new release in place (`FirstUpdate`).
- `CrashesAreReported` (`EggRun`): a quit is noted before the engine can read it (`QuitIsNoted`), an abort
  is the last line of an engine that is gone (`DeathIsKnown`), and at most one crash was reported, of an engine that crashed (`Reported`).
- `BootRepairsMounts` (`EggBoot`): no mount occurs twice and the edits still to come are sorted (`BootSeqs`), and
  what the edits so far have placed is in order (`BootSoFar`); it holds from whatever file an earlier boot left. The lemmas follow every
  position of `gameinfo.gi` through an insertion and a removal.
- `LogKeepsLines` (`ConsoleLog`): a line on disk is in the plain file or in an archive that is whole (`LinesAreSomewhere`), and
  the sweep has left nothing older behind it (`NothingOlder`, `SweepGoesOn`).
- `SkipIsRight` (`HostPorts`): while the table is there, the list `lastPorts` remembers is the kernel's; it is the reason why
  a refresh may be skipped, and the safety half of `PortsSettle`.
- `StrikesCount` (`HostWatch`): nobody is blocked as idle by fewer judged samples than `idle_strikes`; the strikes of an
  entry are exactly the idle samples in a row of its client (`WatchInv`).
- `NoticesOnce` (`Alerts`): a notice is in one place at most, the backlog, the pending list, one batch of one flush, or
  posted or failed, so that overlapping flushes and retries cannot post it twice.
- `EndTold` (`EggState`): if no sender holds a reading when the run ends, all that is read afterwards is the final state
  (`ReadsAreFinal`), so that it does not matter in which order the senders and the end of the process come.
- `OpenFilesAreSpared` (`Cleanup`): what the pass skips it never removes, whatever the server does meanwhile.
- `ServicesTyped`, `ServicesKeep` (`Services`): as for `Guards`.

`NewestAreThere` left out `KeepCount = 0`, which the code reads as no limit, and covers it since its proof.

Model-checked only: everything temporal under fairness (`BreaksHeal`,
`PresenceEnds`, `BootEnds`, `EveryJobEnds`, `OwedIsSettled`, `PortsSettle`,
`NodeSettles`, `IdleAccounts`, `NoticesLeave`, `StopEnds`), which is outside the prover's reach. The
safety halves of `PortsSettle`, `NodeSettles`, `IdleAccounts` and `NoticesLeave` are proved (above), so what TLC alone
shows is that something happens at last.

## 6. Not modelled

Notices and remembered names, status providers and the handler table of the core;
bind mounts, ownership, permissions and file formats; the contents of messages
beyond what decides a branch; the components `PROJECT.json` lists as
`not_modelled`, each with its reason. Data races on `e.sock` (`core.go:268`, `core.go:412`)
are left out: both values the reader can see lead to `ErrNotConnected` or a send.

Of the guards: the channel self test and the patterns of lines (a line is its kind);
the count of an offender past the repeat window, which `Escalate` no longer reads and the model forgets;
a change of name in the game (`guard.go:217`): a player keeps one name while on, and `signon` registers it again;
the exempt set of joined players, `RatesReport`, the
statistics and the rate log; a first `Apply` that fails ends the module, and is not an action.
Of the addons: ModSharp's second package and .NET, which are two more of the same steps; archive formats and
mirrors. Of the egg: its own log files (`Compress` and `Rotate` run there at boot only), the console filter, configuration files and the expansion
of the startup line. Of the node: metrics, control socket, doctor, the
installer, and the loading of its configuration (`docs/reference/node-config.md:57`
differs from the code's default there, which a test shows as well). What is in
an archive, in a Discord message or a crash bundle is abstracted.

The stamps of bundles are of one second (`bundles.go:27`), and no two runs of `Bundles` begin in the same one: two that do write one
archive over each other, in the code.

In the core, `ApplyStart` takes the critical sections of `handle` as one, and
the channel carries starts and stops only (connections share it in the code). In
the workshop: `cs2node workshop sync`, a second process without the busy mark; the
parser of the acf and the size it adds up; the descriptor file
(`publish_data`, never shared); the doctor; `prune` takes the links it collected
and the removal as one step, and any version without a link may be old enough for it
(with `keep_days` 0 the code prunes at once, `store.go:466`, while
`docs/reference/node-config.md:75` says that `0` keeps everything).

## 7. Plan

The components that keep state are modelled, what they promise in every step is proved, and what they owe at last is
model-checked. What is left:

1. The time of day: `open` of `VpkRestart` turns at any moment, so `Window.Open` and its window across midnight are
   abstracted; a clock in minutes would let a lemma say when it is open.
2. Two addons in one pass of `Workshop`, which meet in the error that ends it and in the acf.
3. `KeepsStore` as a property of a run, with an instance small enough for it.
