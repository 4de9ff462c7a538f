------------------------------ MODULE HostWatch ------------------------------
(***************************************************************************)
(* The host guard's watch over joined clients (internal/node/guard): eggs  *)
(* report joins, leaves and chats over their sockets, a sampler reads the  *)
(* kernel's rate sets on a ticker, and a client that talks but carries no  *)
(* gameplay is blocked, after some strikes or for a chat right after its   *)
(* join.  The kernel's part of a block is HostBlocks.                      *)
(***************************************************************************)
EXTENDS Naturals, FiniteSets

CONSTANTS
    Servers, Clients,      \* containers, and client addresses
    IdleStrikes,           \* idle_strikes
    MaxExemptPerServer,
    MaxJoins, MaxTroubles  \* bounds: joins; dumps and blocks that fail

NoClient == [server |-> "none", fresh |-> FALSE, early |-> FALSE, strikes |-> 0]
NoSample == <<>>
Traffic == {"nothing", "little", "gameplay"}

ASSUME WatchAssumption ==
    /\ IdleStrikes \in Nat \ {0} /\ MaxExemptPerServer \in Nat \ {0}
    /\ MaxJoins \in Nat /\ MaxTroubles \in Nat /\ "none" \notin Servers

VARIABLES
    sends,     \* the network: what each address sends
    watched,   \* m.clients
    compared,  \* idleLoop has a dump to compare with
    sample,    \* m.sample: the last dump, for chatCheck
    chats,     \* a server's socket goroutine in chatCheck: the address it will block
    struck,    \* what the last step blocked
    idleRun,   \* history: judged samples in a row that found the client idle
    joins, troubles

watchVars == <<sends, watched, compared, sample, chats, struck, idleRun, joins, troubles>>

Watch == [server : Servers \cup {"none"}, fresh : BOOLEAN, early : BOOLEAN,
          strikes : 0..IdleStrikes - 1]

WatchTypeOK ==
    /\ sends \in [Clients -> Traffic] /\ watched \in [Clients -> Watch]
    /\ compared \in BOOLEAN /\ sample \in [Clients -> Traffic] \cup {NoSample}
    /\ chats \in [Servers -> Clients \cup {"none"}]
    /\ struck \subseteq Clients \X {"idle", "chatbot"} /\ idleRun \in [Clients -> 0..IdleStrikes]
    /\ joins \in 0..MaxJoins /\ troubles \in 0..MaxTroubles

WatchInit ==
    /\ sends = [c \in Clients |-> "nothing"] /\ watched = [c \in Clients |-> NoClient]
    /\ compared = FALSE /\ sample = NoSample /\ chats = [s \in Servers |-> "none"]
    /\ struck = {} /\ idleRun = [c \in Clients |-> 0]
    /\ joins = 0 /\ troubles = 0

Watched(c) == watched[c] # NoClient
OfServer(s) == {c \in Clients : watched[c].server = s}

(* What the kernel counted for each address since the dump before; an      *)
(* address that sent nothing is not in the set, or did not move.           *)
RateSample == sends

-----------------------------------------------------------------------------
(* What the eggs report *)

(* An entry that is there changes hands, with the strikes it has. *)
claimSlot(s, c) ==
    /\ joins < MaxJoins /\ joins' = joins + 1
    /\ \/ /\ Watched(c)
          /\ watched' = [watched EXCEPT ![c] = [@ EXCEPT !.server = s, !.fresh = TRUE, !.early = TRUE]]
       \/ /\ ~Watched(c) /\ Cardinality(OfServer(s)) < MaxExemptPerServer
          /\ watched' = [watched EXCEPT ![c] =
                            [server |-> s, fresh |-> TRUE, early |-> TRUE, strikes |-> 0]]
    /\ struck' = {}
    /\ UNCHANGED <<sends, compared, sample, chats, idleRun, troubles>>

(* A leave names the address only: whichever server's client it was. *)
leave(c) ==
    /\ Watched(c) /\ watched' = [watched EXCEPT ![c] = NoClient]
    /\ idleRun' = [idleRun EXCEPT ![c] = 0] /\ struck' = {}
    /\ UNCHANGED <<sends, compared, sample, chats, joins, troubles>>

(* A chat.  The entry is read and the lock released before the block. *)
chatCheck(s, c) ==
    LET dump == IF sample = NoSample THEN RateSample ELSE sample IN
    /\ chats[s] = "none"
    /\ Watched(c) /\ watched[c].early
    /\ chats' = IF dump[c] = "little" THEN [chats EXCEPT ![s] = c] ELSE chats
    /\ sample' = dump /\ struck' = {}
    /\ UNCHANGED <<sends, watched, compared, idleRun, joins, troubles>>

(* The node takes the egg's word for all three, on the goroutine of the    *)
(* egg's connection; the exempt set of the kernel is left out.             *)
onEvent(s, c) == claimSlot(s, c) \/ leave(c) \/ chatCheck(s, c)

chatBlocks(s) ==
    LET c == chats[s] IN
    /\ c # "none" /\ chats' = [chats EXCEPT ![s] = "none"]
    /\ \/ /\ struck' = {<<c, "chatbot">>} /\ watched' = [watched EXCEPT ![c] = NoClient]
          /\ idleRun' = [idleRun EXCEPT ![c] = 0] /\ UNCHANGED troubles
       \/ /\ troubles < MaxTroubles /\ troubles' = troubles + 1 /\ struck' = {}
          /\ UNCHANGED <<watched, idleRun>>
    /\ UNCHANGED <<sends, compared, sample, joins>>

-----------------------------------------------------------------------------
(* The sampler *)

Judged(c) == compared /\ Watched(c) /\ ~watched[c].fresh
(* Mutant: one strike more than idle_strikes. *)
IdleHitsLate == {c \in Clients : Judged(c) /\ sends[c] = "little"
                                 /\ watched[c].strikes >= IdleStrikes}

IdleHits == {c \in Clients : Judged(c) /\ sends[c] = "little"
                             /\ watched[c].strikes + 1 >= IdleStrikes}

(* Mutant: a silent client keeps its entry. *)
afterKeepsSilent(c) ==
    IF sends[c] = "little" THEN [watched[c] EXCEPT !.strikes = @ + 1] ELSE watched[c]

after(c) ==
    CASE sends[c] = "nothing"  -> NoClient
      [] sends[c] = "gameplay" -> [watched[c] EXCEPT !.strikes = 0]
      [] sends[c] = "little"   -> [watched[c] EXCEPT !.strikes = @ + 1]

judge ==
    /\ watched' = [c \in Clients |->
           IF c \in IdleHits THEN NoClient ELSE IF Judged(c) THEN after(c) ELSE watched[c]]
    /\ struck' = IdleHits \X {"idle"}
    /\ idleRun' = [c \in Clients |->
           IF ~Judged(c) THEN idleRun[c]
           ELSE IF sends[c] = "little" /\ c \notin IdleHits THEN idleRun[c] + 1 ELSE 0]

(* The first dump, and the first after one that failed, is not judged. *)
idleLoop ==
    /\ compared' = TRUE /\ sample' = RateSample /\ judge
    /\ UNCHANGED <<sends, chats, joins, troubles>>

dumpFails ==
    /\ troubles < MaxTroubles /\ troubles' = troubles + 1
    /\ compared' = FALSE /\ sample' = NoSample /\ struck' = {}
    /\ UNCHANGED <<sends, watched, chats, idleRun, joins>>

graceEnds(c) ==
    /\ watched[c].fresh /\ watched' = [watched EXCEPT ![c].fresh = FALSE] /\ struck' = {}
    /\ UNCHANGED <<sends, compared, sample, chats, idleRun, joins, troubles>>

chatWindowEnds(c) ==
    /\ watched[c].early /\ watched' = [watched EXCEPT ![c].early = FALSE] /\ struck' = {}
    /\ UNCHANGED <<sends, compared, sample, chats, idleRun, joins, troubles>>

clientSends(c, t) ==
    /\ sends' = [sends EXCEPT ![c] = t] /\ struck' = {}
    /\ UNCHANGED <<watched, compared, sample, chats, idleRun, joins, troubles>>

WatchNext ==
    \/ \E s \in Servers : chatBlocks(s) \/ \E c \in Clients : onEvent(s, c)
    \/ \E c \in Clients : \/ graceEnds(c) \/ chatWindowEnds(c)
                          \/ \E t \in Traffic : clientSends(c, t)
    \/ idleLoop \/ dumpFails

(* The sampler's ticker and the clock go on. *)
WatchFair ==
    WF_watchVars(idleLoop) /\ \A c \in Clients : WF_watchVars(graceEnds(c))

WatchSpec == WatchInit /\ [][WatchNext]_watchVars /\ WatchFair

-----------------------------------------------------------------------------
(* A client that fell silent is forgotten, with no leave from its egg: a   *)
(* leave that was lost with a connection does not hold a place of its      *)
(* server for ever.  And nobody is blocked as idle by fewer idle samples   *)
(* than idle_strikes since the watch began or the client last played,      *)
(* however the entry changed hands in between.                             *)
LeaversForgotten ==
    \A c \in Clients : <>[](sends[c] = "nothing") => <>[](~Watched(c))
StrikesAreSamples ==
    [][\A c \in Clients : <<c, "idle">> \in struck' => idleRun[c] + 1 >= IdleStrikes]_watchVars
IdleAccounts == LeaversForgotten /\ StrikesAreSamples
=============================================================================
