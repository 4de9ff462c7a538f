-------------------------------- MODULE Alerts --------------------------------
(***************************************************************************)
(* The alerts of the node (internal/node/alerts): notices reach the module *)
(* through a listener queue of the core, wait a moment in m.pending so     *)
(* that one post can carry several, and leave in posts to Discord.  Every  *)
(* flush runs on a goroutine of its own: a flush that waits out a rate     *)
(* limit does not hold up the next.                                        *)
(*                                                                         *)
(* The daemon can be told to stop at any time; main does not wait for its  *)
(* modules.                                                                *)
(***************************************************************************)
EXTENDS Naturals, Sequences, SequencesExt

CONSTANTS
    Notices,      \* the notices of a behaviour, each published once
    Wanted,       \* those whose kind the configuration asks for
    MaxEmbeds,    \* how many one post carries
    MaxBacklog,   \* a listener's queue
    RateLimits    \* bound: answers 429 in a behaviour

ASSUME AlertsAssumption ==
    /\ Wanted \subseteq Notices /\ MaxEmbeds \in Nat \ {0} /\ MaxBacklog \in Nat \ {0}
    /\ RateLimits \in Nat

VARIABLES
    unsaid,      \* notices that nobody has published yet
    backlog,     \* the listener's channel
    pendingN,    \* m.pending
    timer,       \* m.timer # nil
    armed,       \* timers that have yet to fire
    flushes,     \* flushes that still have something to post
    posts,       \* how often Discord took each notice
    failed,      \* notices of posts that failed
    limited,     \* 429s so far
    node         \* the daemon: "up", then its context is done ("stopping"),
                 \* Run has begun its last flush ("flushed"), and it is "gone"

alertVars == <<unsaid, backlog, pendingN, timer, armed, flushes, posts, failed, limited, node>>

Batches == [batch : Seq(Wanted), attempt : {1, 2}, waits : BOOLEAN, final : BOOLEAN]

AlertsTypeOK ==
    /\ unsaid \subseteq Notices /\ failed \subseteq Wanted
    /\ backlog \in Seq(Notices) /\ Len(backlog) <= MaxBacklog
    /\ pendingN \in Seq(Wanted) /\ timer \in BOOLEAN /\ armed \in 0..2
    /\ flushes \subseteq Batches /\ \A f \in flushes : f.batch # <<>>
    /\ posts \in [Notices -> Nat] /\ limited \in 0..RateLimits
    /\ node \in {"up", "stopping", "flushed", "gone"}

AlertsInit ==
    /\ unsaid = Notices /\ backlog = <<>> /\ pendingN = <<>> /\ timer = FALSE /\ armed = 0
    /\ flushes = {} /\ posts = [n \in Notices |-> 0] /\ failed = {}
    /\ limited = 0 /\ node = "up"

-----------------------------------------------------------------------------
(* A listener that is behind loses the notice. *)
Notify(n) ==
    /\ node # "gone" /\ n \in unsaid
    /\ unsaid' = unsaid \ {n}
    /\ backlog' = IF Len(backlog) < MaxBacklog THEN Append(backlog, n) ELSE backlog
    /\ UNCHANGED <<pendingN, timer, armed, flushes, posts, failed, limited, node>>

OnNotify ==
    /\ node # "gone" /\ backlog # <<>>
    /\ backlog' = Tail(backlog)
    /\ IF Head(backlog) \in Wanted
       THEN /\ pendingN' = Append(pendingN, Head(backlog)) /\ timer' = TRUE
            /\ armed' = IF timer THEN armed ELSE armed + 1
       ELSE UNCHANGED <<pendingN, timer, armed>>
    /\ UNCHANGED <<unsaid, flushes, posts, failed, limited, node>>

Flush(final) == [batch |-> pendingN, attempt |-> 1, waits |-> FALSE, final |-> final]
Begins(final) == flushes' = IF pendingN = <<>> THEN flushes ELSE flushes \cup {Flush(final)}

(* Mutant: the timer that has fired stays set. *)
takePendingKeepsTimer == pendingN' = <<>> /\ UNCHANGED timer

takePending == pendingN' = <<>> /\ timer' = FALSE

(* The timer's flush posts under the daemon's context. *)
TimerFires ==
    /\ node # "gone" /\ armed > 0 /\ armed' = armed - 1
    /\ takePending /\ Begins(FALSE)
    /\ UNCHANGED <<unsaid, backlog, posts, failed, limited, node>>

(* The flush that Run ends with posts under a context of its own. *)
FinalFlush ==
    /\ node = "stopping" /\ node' = "flushed"
    /\ takePending /\ Begins(TRUE)
    /\ UNCHANGED <<unsaid, armed, backlog, posts, failed, limited>>

Chunk(f) == ToSet(SubSeq(f.batch, 1, IF Len(f.batch) < MaxEmbeds THEN Len(f.batch) ELSE MaxEmbeds))

(* The post is over: on with the rest of the batch. *)
onward(f) ==
    flushes' = (flushes \ {f}) \cup
        IF Len(f.batch) <= MaxEmbeds THEN {}
        ELSE {[f EXCEPT !.batch = SubSeq(@, MaxEmbeds + 1, Len(@)), !.attempt = 1, !.waits = FALSE]}

Cancelled(f) == node # "up" /\ ~f.final

Counted(f) == [n \in Notices |-> posts[n] + IF n \in Chunk(f) THEN 1 ELSE 0]

Posted(f) ==
    /\ node # "gone" /\ ~f.waits /\ ~Cancelled(f)
    /\ posts' = Counted(f)
    /\ onward(f)
    /\ UNCHANGED <<unsaid, backlog, pendingN, timer, armed, failed, limited, node>>

(* Discord refuses, cannot be reached, limits the rate twice, or the       *)
(* context is done, in the middle of a wait too.  An answer that is lost   *)
(* fails a post that Discord took.                                         *)
PostFails(f) ==
    /\ node # "gone" /\ (f.waits => Cancelled(f))
    /\ failed' = failed \cup Chunk(f)
    /\ UNCHANGED posts \/ (~f.waits /\ posts' = Counted(f))
    /\ onward(f)
    /\ UNCHANGED <<unsaid, backlog, pendingN, timer, armed, limited, node>>

RateLimited(f) ==
    /\ node # "gone" /\ ~f.waits /\ ~Cancelled(f) /\ f.attempt = 1 /\ limited < RateLimits
    /\ limited' = limited + 1
    /\ flushes' = (flushes \ {f}) \cup {[f EXCEPT !.waits = TRUE]}
    /\ UNCHANGED <<unsaid, backlog, pendingN, timer, armed, posts, failed, node>>

RetryAfter(f) ==
    /\ node # "gone" /\ f.waits
    /\ flushes' = (flushes \ {f}) \cup {[f EXCEPT !.waits = FALSE, !.attempt = 2]}
    /\ UNCHANGED <<unsaid, backlog, pendingN, timer, armed, posts, failed, limited, node>>

Stop ==
    /\ node = "up" /\ node' = "stopping"
    /\ UNCHANGED <<unsaid, backlog, pendingN, timer, armed, flushes, posts, failed, limited>>

(* runDaemon returns as soon as the context is done. *)
Exit ==
    /\ node \in {"stopping", "flushed"} /\ node' = "gone"
    /\ UNCHANGED <<unsaid, backlog, pendingN, timer, armed, flushes, posts, failed, limited>>

AlertsNext ==
    \/ \E n \in Notices : Notify(n)
    \/ OnNotify \/ TimerFires \/ FinalFlush
    \/ \E f \in flushes : Posted(f) \/ PostFails(f) \/ RateLimited(f) \/ RetryAfter(f)
    \/ Stop \/ Exit

(* The listener's goroutine, the timer and the posting goroutines run on;  *)
(* a post has a time limit.                                                *)
PostEnds == \E f \in flushes : Posted(f) \/ PostFails(f) \/ RateLimited(f) \/ RetryAfter(f)
AlertsFair ==
    /\ WF_alertVars(OnNotify) /\ WF_alertVars(TimerFires)
    /\ WF_alertVars(PostEnds)

AlertsSpec == AlertsInit /\ [][AlertsNext]_alertVars /\ AlertsFair

-----------------------------------------------------------------------------
(* What a notice can be waiting for. *)
Waiting(n) ==
    \/ n \in ToSet(backlog) \cup ToSet(pendingN)
    \/ \E f \in flushes : n \in ToSet(f.batch)

(* No retry and no second flush posts a notice twice.                      *)
PostedOnce == \A n \in Notices : posts[n] <= 1

(* Nothing stays: every notice that reached the listener is posted, or its *)
(* post has failed, or the daemon stops first; and none is posted twice.   *)
NoticesLeave ==
    /\ \A n \in Wanted : Waiting(n) ~> (posts[n] > 0 \/ n \in failed \/ node = "gone")
    /\ []PostedOnce
===============================================================================
