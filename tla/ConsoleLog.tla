----------------------------- MODULE ConsoleLog -----------------------------
(***************************************************************************)
(* The console log of one server (internal/egg/boot/logsink.go, the node's *)
(* module consolelog and internal/logx): the egg queues every line of the  *)
(* console for the node and drops what does not fit; the node appends it   *)
(* to a file of the day.  Once a day, and when the daemon starts, another  *)
(* goroutine compresses the files of earlier days and removes those older  *)
(* than the retention, without a lock between it and the writer.           *)
(*                                                                         *)
(* A line is a number, a file the set of its lines; an empty set is no     *)
(* file, because a file is made by its first line.                         *)
(***************************************************************************)
EXTENDS Naturals, Sequences

CONSTANTS
    NodeLogQueue,  \* lines that can wait for the node
    KeepDays,      \* keep_days
    HardCapDays,   \* the ceiling that always applies
    DiskFails,     \* appending and compressing may fail (os.Remove does not)
    MaxLines,      \* bound: lines of the console
    MaxDay         \* bound: days

ASSUME ConsoleLogAssumption ==
    /\ NodeLogQueue \in Nat \ {0} /\ KeepDays \in Nat /\ HardCapDays \in Nat \ {0}
    /\ DiskFails \in BOOLEAN /\ MaxLines \in Nat /\ MaxDay \in Nat \ {0}

VARIABLES
    day,       \* the date
    said,      \* lines the console printed so far
    channel,   \* s.ch
    drains,    \* the goroutine of the sink runs
    serving,   \* the daemon runs and consolelog handles lines
    writing,   \* the line WriteLine is at with the time it took, <<>> if none
    plain,     \* per day, YYYY-MM-DD.log
    archive,   \* per day, YYYY-MM-DD.log.gz
    torn,      \* the days whose archive is not all written
    mtime,     \* per day, the modification time its files carry
    sweep,     \* maintain: where it is, the date it took, the files it still has
    kept,      \* history: the day of the file each line went to, 0 before
    late       \* history: a line went to the file of a day that was swept

logVars == <<day, said, channel, drains, serving, writing, plain, archive, torn, mtime, sweep, kept, late>>
nodeVars == <<serving, writing, plain, archive, torn, mtime, sweep, kept, late>>
fileVars == <<plain, archive, torn, mtime>>

LogDays == 1..MaxDay
LogLines == 1..MaxLines

LogTypeOK ==
    /\ day \in LogDays /\ said \in 0..MaxLines /\ drains \in BOOLEAN
    /\ channel \in Seq(LogLines) /\ Len(channel) <= NodeLogQueue
    /\ serving \in BOOLEAN /\ writing \in {<<>>} \cup (LogLines \X LogDays)
    /\ plain \in [LogDays -> SUBSET LogLines] /\ archive \in [LogDays -> SUBSET LogLines]
    /\ torn \in SUBSET LogDays /\ mtime \in [LogDays -> 0..MaxDay]
    /\ sweep \in [at : {"idle", "compress", "zip", "zipped"}, today : 0..MaxDay, rest : SUBSET LogDays]
    /\ kept \in [LogLines -> 0..MaxDay] /\ late \in BOOLEAN

LogInit ==
    /\ day = 1 /\ said = 0 /\ channel = <<>> /\ drains = TRUE
    /\ serving = FALSE /\ writing = <<>>
    /\ plain = [d \in LogDays |-> {}] /\ archive = [d \in LogDays |-> {}]
    /\ torn = {} /\ mtime = [d \in LogDays |-> 0]
    /\ sweep = [at |-> "idle", today |-> 0, rest |-> {}]
    /\ kept = [l \in LogLines |-> 0] /\ late = FALSE

-----------------------------------------------------------------------------
(* The egg *)

(* Write: a line that finds the queue full is dropped, the console never   *)
(* waits.                                                                  *)
Tee ==
    /\ said < MaxLines
    /\ said' = said + 1
    /\ channel' = IF Len(channel) < NodeLogQueue THEN Append(channel, said + 1) ELSE channel
    /\ UNCHANGED <<day, drains, nodeVars>>

(* The goroutine sends a line; the handler of the node gets it and takes   *)
(* the time, or it is lost when no node handles lines.                     *)
Drain ==
    /\ drains /\ channel # <<>> /\ writing = <<>>
    /\ channel' = Tail(channel)
    /\ writing' = IF serving THEN <<Head(channel), day>> ELSE <<>>
    /\ UNCHANGED <<day, said, drains, serving, fileVars, sweep, kept, late>>

(* ctx is done: the container stops, and what waits is not sent.           *)
DrainEnds ==
    /\ drains /\ drains' = FALSE
    /\ UNCHANGED <<day, said, channel, nodeVars>>

-----------------------------------------------------------------------------
(* The node *)

(* The next file of the list, by name.                                     *)
NextFile == CHOOSE d \in sweep.rest : \A e \in sweep.rest : d <= e

(* Write appends to the file of the day it was called on.  That file is    *)
(* gone or about to be removed if its day is over and swept: it is late.   *)
WriteLine ==
    /\ writing # <<>>
    /\ LET l == writing[1]  d == writing[2] IN
       /\ plain' = [plain EXCEPT ![d] = @ \cup {l}]
       /\ mtime' = [mtime EXCEPT ![d] = day]
       /\ kept' = [kept EXCEPT ![l] = d]
       /\ late' = (late \/ (d < day /\ archive[d] # {} /\ (plain[d] = {} \/ (sweep.at = "zipped" /\ NextFile = d))))
    /\ writing' = <<>>
    /\ UNCHANGED <<day, said, channel, drains, serving, archive, torn, sweep>>

(* MkdirAll or OpenFile fails: Write returns, and the line is lost.        *)
WriteFails ==
    /\ DiskFails /\ writing # <<>> /\ writing' = <<>>
    /\ UNCHANGED <<day, said, channel, drains, serving, fileVars, sweep, kept, late>>

(* Mutant: today's file too, while lines are appended to it. *)
DueBeforeOrOn(today) == {d \in LogDays : plain[d] # {} /\ d <= today}

(* Compress's list: every .log whose date is before today.                 *)
DueBefore(today) == {d \in LogDays : plain[d] # {} /\ d < today}

(* Maintain, when Run starts and every 24 hours.                           *)
Maintain == sweep' = [at |-> "compress", today |-> day, rest |-> DueBefore(day)]

Starts ==
    /\ ~serving /\ serving' = TRUE
    /\ Maintain
    /\ UNCHANGED <<day, said, channel, drains, writing, fileVars, kept, late>>

Ticks ==
    /\ serving /\ sweep.at = "idle" /\ day > sweep.today
    /\ Maintain
    /\ UNCHANGED <<day, said, channel, drains, serving, writing, fileVars, kept, late>>

(* gzipFile opens dst, which empties an archive that is there already.     *)
gzipOpens ==
    /\ sweep.at = "compress" /\ sweep.rest # {}
    /\ archive' = [archive EXCEPT ![NextFile] = {}]
    /\ torn' = torn \cup {NextFile}
    /\ sweep' = [sweep EXCEPT !.at = "zip"]
    /\ UNCHANGED <<day, said, channel, drains, serving, writing, plain, mtime, kept, late>>

(* It has copied the file to its end and closed dst.                       *)
gzipCloses ==
    /\ sweep.at = "zip"
    /\ archive' = [archive EXCEPT ![NextFile] = plain[NextFile]]
    /\ torn' = torn \ {NextFile}
    /\ sweep' = [sweep EXCEPT !.at = "zipped"]
    /\ UNCHANGED <<day, said, channel, drains, serving, writing, plain, mtime, kept, late>>

(* It failed: dst is removed, src stays.                                   *)
gzipFails ==
    /\ DiskFails /\ sweep.at = "zip"
    /\ torn' = torn \ {NextFile}
    /\ sweep' = [sweep EXCEPT !.at = "compress", !.rest = @ \ {NextFile}]
    /\ UNCHANGED <<day, said, channel, drains, serving, writing, plain, archive, mtime, kept, late>>

(* os.Remove(p) after a gzipFile that worked.                              *)
RemovePlain ==
    /\ sweep.at = "zipped"
    /\ plain' = [plain EXCEPT ![NextFile] = {}]
    /\ sweep' = [sweep EXCEPT !.at = "compress", !.rest = @ \ {NextFile}]
    /\ UNCHANGED <<day, said, channel, drains, serving, writing, archive, torn, mtime, kept, late>>

Ceiling == IF KeepDays = 0 \/ KeepDays > HardCapDays THEN HardCapDays ELSE KeepDays

(* Rotate removes what is older than Ceiling times 24 hours.  That is sure *)
(* of a file written more than Ceiling dates ago, and depends on the hour  *)
(* of one written Ceiling dates ago.                                       *)
Expired(today) == {d \in LogDays : today > mtime[d] + Ceiling}
MayExpire(today) == {d \in LogDays : today = mtime[d] + Ceiling}

Rotate ==
    /\ sweep.at = "compress" /\ sweep.rest = {}
    /\ \E some \in SUBSET MayExpire(sweep.today) :
         LET gone == Expired(sweep.today) \cup some IN
         /\ plain' = [d \in LogDays |-> IF d \in gone THEN {} ELSE plain[d]]
         /\ archive' = [d \in LogDays |-> IF d \in gone THEN {} ELSE archive[d]]
         /\ torn' = torn \ gone
    /\ sweep' = [sweep EXCEPT !.at = "idle"]
    /\ UNCHANGED <<day, said, channel, drains, serving, writing, mtime, kept, late>>

(* The daemon stops or dies, in the middle of a line or a compression.     *)
DaemonDies ==
    /\ serving /\ serving' = FALSE
    /\ writing' = <<>>
    /\ sweep' = [at |-> "idle", today |-> 0, rest |-> {}]
    /\ UNCHANGED <<day, said, channel, drains, fileVars, kept, late>>

Midnight ==
    /\ day < MaxDay /\ day' = day + 1
    /\ UNCHANGED <<said, channel, drains, nodeVars>>

LogNext ==
    \/ Tee \/ Drain \/ DrainEnds
    \/ WriteLine \/ WriteFails
    \/ Starts \/ Ticks \/ gzipOpens \/ gzipCloses \/ gzipFails \/ RemovePlain \/ Rotate
    \/ DaemonDies \/ Midnight

LogSpec == LogInit /\ [][LogNext]_logVars

-----------------------------------------------------------------------------
(* Properties *)

(* "A hard 365-day ceiling always applies": a line the node has written is *)
(* in the day's file, or in an archive that is whole, until it has the age *)
(* of the retention, whatever compressing fails or dies half-way; and a    *)
(* finished sweep leaves no older file, whatever keep_days says.  A line   *)
(* that took its time before midnight and is written once its day was      *)
(* swept starts the day's file anew, and the next sweep writes that over   *)
(* the archive: after one, nothing is stated about the lines.              *)
LinesKept ==
    /\ late \/ \A l \in LogLines : LET d == kept[l] IN
         (d # 0 /\ day < d + Ceiling) => l \in plain[d] \/ (l \in archive[d] /\ d \notin torn)
    /\ (sweep.at = "idle" /\ sweep.today # 0) =>
         \A d \in LogDays : (plain[d] # {} \/ archive[d] # {}) => sweep.today <= mtime[d] + Ceiling
=============================================================================
