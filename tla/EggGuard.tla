------------------------------ MODULE EggGuard ------------------------------
(***************************************************************************)
(* The bot guard inside the container (internal/egg/guard/guard.go).  It   *)
(* reads the server's console line by line, keeps a picture of the clients *)
(* in maps keyed by userid, name and address, counts suspicious lines per  *)
(* rule, and reacts: a report to the node, a kick, an addip.               *)
(*                                                                         *)
(* Every action of the engine is one line and the guard's whole handling   *)
(* of it (Inspect, under g.mu).  The maps are one record, g, so that the   *)
(* handlers compose as they do in the code: the sweep, then the line.      *)
(* The channel self-test, which touches nothing else, is left out, and a   *)
(* mute goes when it expires instead of when the next line meets it.       *)
(* Times are kept as ages, up to the age from which nothing can tell them  *)
(* apart; a mute holds what is left of it.                                 *)
(***************************************************************************)
EXTENDS Naturals, FiniteSets, Functions

CONSTANTS
    Uids,          \* userids of the engine (the guard's 0 is NoUid)
    Players,       \* who may connect
    NameOf, IPOf,  \* a player's name and address
    SteamIDs, WhiteSteam,      \* SteamIDs, and those of whitelist_steamids
    PublicIPs, WhiteIPs,       \* public addresses, and whitelist_ips
    Enabled,       \* the rules switched on
    Threshold,     \* a rule's threshold
    Window,        \* a rule's window
    Action,        \* log, kick or block
    Cooldown, StuckGrace, BanTime, MaxMute,
    SweepEvery, StrangerTTL, MaxRuleWindow

Names == {NameOf[p] : p \in Players}
IPs   == {IPOf[p] : p \in Players} \cup PublicIPs
NoUid == "no uid"
NoIP  == "no ip"
NoPlayer == "nobody"

ASSUME GuardAssumption ==
    /\ NoUid \notin Uids /\ NoPlayer \notin Players /\ NoIP \notin IPs
    /\ WhiteSteam \subseteq SteamIDs /\ WhiteIPs \subseteq IPs
    /\ Action \in {"log", "kick", "block"}
    /\ \A r \in Enabled : Threshold[r] \in Nat \ {0} /\ Window[r] \in 0..MaxRuleWindow
    /\ {Cooldown, BanTime, MaxMute, SweepEvery, MaxRuleWindow} \subseteq Nat
    /\ StrangerTTL \in Nat /\ StuckGrace \in 0..StrangerTTL + 1

VARIABLES
    slot,     \* the engine: who holds a userid
    joined,   \* the engine: the userids that reached SIGNONSTATE_FULL
    g,        \* the guard's maps
    said,     \* what the last line made the guard report and send
    trustAge, \* history: for a joined client, the age its trust is counted from
    crowded,  \* history: addresses two clients held at once since they were free
    hitAge    \* history: the age of the last reaction to an address

engineVars == <<slot, joined>>
guardVars  == <<engineVars, g, said, trustAge, crowded, hitAge>>

Live == {u \in Uids : slot[u] # NoPlayer}
On(ip) == {u \in Live : IPOf[slot[u]] = ip}

Map(S, T) == UNION {[D -> T] : D \in SUBSET S}
ConnAge == 0..StrangerTTL + 1

GuardTypeOK ==
    /\ slot \in [Uids -> Players \cup {NoPlayer}] /\ joined \subseteq Live
    /\ g.clients \in Map(Uids, [ip : IPs \cup {NoIP}, name : Names, trusted : BOOLEAN])
    /\ g.ip2uid \in Map(IPs, Uids) /\ g.name2uid \in Map(Names, Uids)
    /\ g.ipTrusted \subseteq IPs
    /\ g.connSince \in Map(IPs, ConnAge) /\ g.ip2steamid \in Map(IPs, SteamIDs)
    /\ \A k \in DOMAIN g.counters : /\ k[1] \in Enabled /\ k[2] \in IPs \cup Names
                                    /\ g.counters[k].age \in 0..MaxRuleWindow + 1
                                    /\ g.counters[k].n \in 1..Threshold[k[1]]
    /\ \A k \in DOMAIN g.cooldown : k \in IPs \cup Uids \cup {NoUid} /\ g.cooldown[k] \in 0..Cooldown
    /\ g.mute \in Map(IPs \cup SteamIDs, 1..BanTime)
    /\ Cardinality(DOMAIN g.mute) <= MaxMute + (IF SteamIDs = {} THEN 0 ELSE 1)
    /\ g.swept \in 0..SweepEvery
    /\ trustAge \in [Uids -> ConnAge] /\ crowded \subseteq IPs
    /\ hitAge \in [IPs -> 0..Cooldown]

GuardInit ==
    /\ slot = [u \in Uids |-> NoPlayer] /\ joined = {}
    /\ g = [clients |-> <<>>, ip2uid |-> <<>>, name2uid |-> <<>>, ipTrusted |-> {},
            connSince |-> <<>>, ip2steamid |-> <<>>, counters |-> <<>>,
            cooldown |-> <<>>, mute |-> <<>>, swept |-> SweepEvery]
    /\ said = {} /\ crowded = {}
    /\ trustAge = [u \in Uids |-> 0] /\ hitAge = [ip \in IPs |-> Cooldown]

-----------------------------------------------------------------------------
(* The sweep every line begins with *)

Put(f, k, v) == [x \in DOMAIN f \cup {k} |-> IF x = k THEN v ELSE f[x]]
Drop(f, S) == Restrict(f, DOMAIN f \ S)
Lookup(f, k) == IF k \in DOMAIN f THEN f[k] ELSE NoUid

(* Mutant: a stranger is forgotten a sweep too early. *)
StrangersEarly(s) == {ip \in DOMAIN s.connSince : s.connSince[ip] >= StrangerTTL}

(* The table of cooldowns holds the time of the last reaction; sweep takes *)
(* it for the time the cooldown ends, and that is always past.             *)
Strangers(s) == {ip \in DOMAIN s.connSince : s.connSince[ip] > StrangerTTL}
sweep(s) ==
    LET gone == Strangers(s)
    IN  [s EXCEPT !.swept = 0,
           !.counters = Drop(@, {k \in DOMAIN @ : @[k].age > MaxRuleWindow}),
           !.cooldown = <<>>,
           !.connSince = Drop(@, gone), !.ip2steamid = Drop(@, gone),
           !.ipTrusted = @ \ gone,
           !.ip2uid = Drop(@, {ip \in gone \cap DOMAIN @ : @[ip] \notin DOMAIN s.clients})]

(* The maps as the line finds them. *)
G == IF g.swept >= SweepEvery THEN sweep(g) ELSE g

Known(s, u)   == u \in DOMAIN s.clients
trusted(s, u) == Known(s, u) /\ s.clients[u].trusted
ipOf(s, u)    == IF Known(s, u) THEN s.clients[u].ip ELSE NoIP

-----------------------------------------------------------------------------
(* Rules and reactions *)

counted(s, rule, key) ==
    LET k == <<rule, key>> IN
    IF k \notin DOMAIN s.counters \/ s.counters[k].age > Window[rule]
    THEN [age |-> 0, n |-> 1]
    ELSE [s.counters[k] EXCEPT !.n = IF @ < Threshold[rule] THEN @ + 1 ELSE @]

bump(s, rule, key) ==
    IF rule \notin Enabled THEN s
    ELSE [s EXCEPT !.counters = Put(@, <<rule, key>>, counted(s, rule, key))]

Trips(s, rule, key) == rule \in Enabled /\ counted(s, rule, key).n >= Threshold[rule]

whitelisted(s, ip) ==
    \/ ip \in WhiteIPs
    \/ ip \in DOMAIN s.ip2steamid /\ s.ip2steamid[ip] \in WhiteSteam

CooldownKey(uid, ip) == IF ip = NoIP THEN uid ELSE ip
Reacts(s, uid, ip) ==
    LET k == CooldownKey(uid, ip) IN
    /\ ~whitelisted(s, ip)
    /\ ~trusted(s, uid)
    /\ k \in DOMAIN s.cooldown => s.cooldown[k] >= Cooldown

muteAdd(s, ip) ==
    LET keys == {ip} \cup {s.ip2steamid[i] : i \in {ip} \cap DOMAIN s.ip2steamid}
    IN  IF Cardinality(DOMAIN s.mute) >= MaxMute \/ BanTime = 0 THEN s
        ELSE [s EXCEPT !.mute = [k \in keys \cup DOMAIN @ |-> IF k \in keys THEN BanTime ELSE @[k]]]

Banned(ip) == Action = "block" /\ ip \in PublicIPs
reacted(s, uid, ip) ==
    LET t == [s EXCEPT !.cooldown = Put(@, CooldownKey(uid, ip), 0)]
    IN  IF Banned(ip) THEN muteAdd(t, ip) ELSE t

Event(kind, uid, ip) == [kind |-> kind, rule |-> "none", uid |-> uid, ip |-> ip]
Kick(uid) == IF uid # NoUid /\ Action # "log" THEN {Event("kick", uid, NoIP)} ELSE {}
Reaction(rule, uid, ip) ==
    Kick(uid)
      \cup (IF ip # NoIP THEN {[kind |-> "hit", rule |-> rule, uid |-> uid, ip |-> ip]} ELSE {})
      \cup (IF Banned(ip) THEN {Event("addip", uid, ip)} ELSE {})

(* bump, and react when the threshold is reached. *)
count(rule, key, uid, ip) ==
    LET s == bump(G, rule, key) IN
    IF Trips(G, rule, key) /\ Reacts(s, uid, ip)
    THEN /\ g' = reacted(s, uid, ip) /\ said' = Reaction(rule, uid, ip)
         /\ hitAge' = [i \in IPs |-> IF i = ip THEN 0 ELSE hitAge[i]]
    ELSE g' = s /\ said' = {} /\ UNCHANGED hitAge

ignore == g' = G /\ said' = {} /\ UNCHANGED hitAge

suspect == UNCHANGED <<engineVars, trustAge, crowded>>

(* A stray packet: a reconnecting player looks like this for a moment. *)
stray(ip) ==
    /\ IF ip \in G.ipTrusted THEN ignore ELSE count("stray_no_connection", ip, NoUid, ip)
    /\ suspect

malformed(ip) == count("malformed_packet", ip, NoUid, ip) /\ suspect
rconBan(ip)   == count("rcon_bruteforce", ip, NoUid, ip) /\ suspect

connectFlood(ip) ==
    /\ IF ip \in G.ipTrusted THEN ignore
       ELSE count("connect_flood", ip, Lookup(G.ip2uid, ip), ip)
    /\ suspect

(* "Forcing client reconnect" and undecodable moves name the client. *)
aboutClient(rule, name) ==
    LET u == Lookup(G.name2uid, name) IN
    /\ IF trusted(G, u) THEN ignore ELSE count(rule, name, u, ipOf(G, u))
    /\ suspect

keepalive(ip) ==
    LET u == Lookup(G.ip2uid, ip) IN
    /\ IF \/ trusted(G, u) \/ ip \in G.ipTrusted
          \/ ip \in DOMAIN G.connSince /\ G.connSince[ip] < StuckGrace
       THEN ignore ELSE count("stuck_no_full", ip, u, ip)
    /\ suspect

-----------------------------------------------------------------------------
(* Clients come and go *)

quiet == said' = {} /\ UNCHANGED hitAge

accept(ip) ==
    /\ \E sid \in SteamIDs \cup {"no steamid"} :
          g' = [G EXCEPT !.connSince = IF ip \in DOMAIN @ THEN @ ELSE Put(@, ip, 0),
                         !.ip2steamid = IF sid \in SteamIDs THEN Put(@, ip, sid) ELSE @]
    /\ quiet /\ UNCHANGED <<engineVars, trustAge, crowded>>

(* Mutant: the name is known from the first signon line on only. *)
metNameless(s, p, u) ==
    [s EXCEPT !.clients = Put(@, u, [ip |-> IPOf[p], name |-> NameOf[p], trusted |-> FALSE]),
              !.ip2uid = Put(@, IPOf[p], u)]

met(s, p, u) ==
    [s EXCEPT !.clients = Put(@, u, [ip |-> IPOf[p], name |-> NameOf[p], trusted |-> FALSE]),
              !.ip2uid = Put(@, IPOf[p], u), !.name2uid = Put(@, NameOf[p], u)]

(* The engine gives two live clients different names. *)
connect(p, u) ==
    LET ip == IPOf[p] IN
    /\ slot[u] = NoPlayer
    /\ \A v \in Live : NameOf[slot[v]] # NameOf[p]
    /\ slot' = [slot EXCEPT ![u] = p]
    /\ crowded' = IF On(ip) = {} THEN crowded ELSE crowded \cup {ip}
    /\ g' = met(G, p, u)
    /\ quiet /\ UNCHANGED <<joined, trustAge>>

(* FULL comes again after every change of the map. *)
signon(u, full) ==
    LET name == NameOf[slot[u]]
        c == IF Known(G, u) THEN G.clients[u]
             ELSE [ip |-> NoIP, name |-> name, trusted |-> FALSE]
        s == [G EXCEPT !.name2uid = Put(@, name, u)]
    IN
    /\ u \in Live
    /\ IF full
       THEN /\ joined' = joined \cup {u}
            /\ trustAge' = [trustAge EXCEPT ![u] =
                   IF c.ip \in DOMAIN G.connSince THEN G.connSince[c.ip] ELSE 0]
            /\ g' = [s EXCEPT !.clients = Put(@, u, [c EXCEPT !.trusted = TRUE]),
                              !.ipTrusted = IF c.ip # NoIP THEN @ \cup {c.ip} ELSE @]
            /\ said' = IF c.ip # NoIP THEN {Event("join", u, c.ip)} ELSE {}
       ELSE g' = s /\ said' = {} /\ UNCHANGED <<joined, trustAge>>
    /\ UNCHANGED <<slot, crowded, hitAge>>

(* Mutant: a leave clears the accept time only. *)
forgetAccept(s, ip) == [s EXCEPT !.connSince = Drop(@, {ip})]

forget(s, ip) ==
    [s EXCEPT !.ip2uid = Drop(@, {ip}), !.ipTrusted = @ \ {ip},
              !.connSince = Drop(@, {ip}), !.ip2steamid = Drop(@, {ip})]

(* Who the guard takes a name for: the chat and the leave line have no userid. *)
Named(name) == Lookup(G.name2uid, name)
About(kind, name) ==
    LET ip == ipOf(G, Named(name)) IN IF ip = NoIP THEN {} ELSE {Event(kind, Named(name), ip)}

chat(u) ==
    /\ u \in joined
    /\ g' = G /\ said' = About("chat", NameOf[slot[u]])
    /\ UNCHANGED <<engineVars, trustAge, crowded, hitAge>>

dropped(u) ==
    LET name == NameOf[slot[u]]
        left == ipOf(G, Named(name))
        s == IF left = NoIP THEN G ELSE forget(G, left)
    IN
    /\ u \in Live
    /\ slot' = [slot EXCEPT ![u] = NoPlayer] /\ joined' = joined \ {u}
    /\ crowded' = IF On(IPOf[slot[u]]) = {u} THEN crowded \ {IPOf[slot[u]]} ELSE crowded
    /\ g' = [s EXCEPT !.clients = Drop(@, {Named(name)}), !.name2uid = Drop(@, {name})]
    /\ said' = About("leave", name)
    /\ trustAge' = [trustAge EXCEPT ![u] = 0]
    /\ UNCHANGED hitAge

(* The node blocked an address for this server, by its own count or on a   *)
(* report, and names the client it caught if it knows one.  When it only   *)
(* logs its blocks, or the rule is one that this server keeps silent,      *)
(* nothing follows.                                                        *)
HostNotice(ip, uid) ==
    /\ \/ g' = muteAdd(g, ip) /\ said' = Kick(uid)
       \/ g' = g /\ said' = {}
    /\ UNCHANGED <<engineVars, trustAge, crowded, hitAge>>

Older(age, end) == IF age < end THEN age + 1 ELSE age
timePasses ==
    /\ g' = [g EXCEPT
           !.swept = Older(@, SweepEvery),
           !.connSince = [ip \in DOMAIN @ |-> Older(@[ip], StrangerTTL + 1)],
           !.counters = [k \in DOMAIN @ |-> [age |-> Older(@[k].age, MaxRuleWindow + 1), n |-> @[k].n]],
           !.cooldown = [k \in DOMAIN @ |-> Older(@[k], Cooldown)],
           !.mute = [k \in {m \in DOMAIN @ : @[m] > 1} |-> @[k] - 1]]
    /\ trustAge' = [u \in Uids |-> IF u \in joined THEN Older(trustAge[u], StrangerTTL + 1) ELSE 0]
    /\ hitAge' = [ip \in IPs |-> Older(hitAge[ip], Cooldown)]
    /\ said' = {} /\ UNCHANGED <<engineVars, crowded>>

inspect ==
    \/ \E ip \in IPs : \/ accept(ip) \/ stray(ip) \/ malformed(ip) \/ connectFlood(ip)
                       \/ rconBan(ip) \/ keepalive(ip)
    \/ \E p \in Players, u \in Uids : connect(p, u)
    \/ \E u \in Uids : \/ \E full \in BOOLEAN : signon(u, full)
                       \/ chat(u) \/ dropped(u)
    \/ \E rule \in {"reconnect_stuck", "move_not_joined"}, n \in Names : aboutClient(rule, n)

EggGuardNext ==
    \/ inspect
    \/ \E ip \in IPs, uid \in Uids \cup {NoUid} : HostNotice(ip, uid)
    \/ timePasses

EggGuardSpec == GuardInit /\ [][EggGuardNext]_guardVars

-----------------------------------------------------------------------------
(* The guard's picture is the engine's: it knows exactly the clients that  *)
(* hold a userid, under their name and address, and trusts those that      *)
(* finished signon.  Leave lines carry a name only, so every map between   *)
(* names, userids and clients has to stay in step for this.                *)
ClientsMirrorSlots ==
    /\ DOMAIN g.clients = Live
    /\ \A u \in Live : g.clients[u] = [ip |-> IPOf[slot[u]], name |-> NameOf[slot[u]],
                                       trusted |-> u \in joined]

(* A joined client whose address nobody shares keeps the address's trust   *)
(* until the address is older than strangerTTL: no sweep before that and   *)
(* no leave of somebody else takes it.  It is no more than that: the sweep *)
(* does take it afterwards, TrustedAreExempt below.                        *)
YoungTrustHolds ==
    \A u \in joined :
        LET ip == IPOf[slot[u]] IN
        ip \notin crowded /\ trustAge[u] <= StrangerTTL => ip \in g.ipTrusted

(* What no leave line will clear any more, the sweep will find: an address *)
(* nobody plays from has entries only while connSince still has it.        *)
TracesAreFindable ==
    \A ip \in IPs : On(ip) = {} =>
        (ip \in DOMAIN g.ip2uid \cup g.ipTrusted \cup DOMAIN g.ip2steamid
            => ip \in DOMAIN g.connSince)

(* egg/configs/templates.go: "cooldown_secs: minimum seconds between two   *)
(* reactions on the same ip".                                              *)
CooldownHolds ==
    [][\A m \in said' : m.kind = "hit" => hitAge[m.ip] >= Cooldown]_guardVars

(* docs/modules/guard.md: "A client that finished signon is trusted and    *)
(* exempt from the traffic-shaped rules. It is never exempt from           *)
(* rcon_bruteforce or malformed_packet."  Of clients alone at an address.  *)
TrustedAreExempt ==
    [][\A m \in said' :
         m.kind = "hit" /\ m.rule \notin {"rcon_bruteforce", "malformed_packet"}
         => \A u \in joined : IPOf[slot[u]] = m.ip => m.ip \in crowded]_guardVars
=============================================================================
