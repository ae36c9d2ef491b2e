------------------------------ MODULE SessionLog ------------------------------
(***************************************************************************)
(* The session log of an instance: crate plasmosome-core, session_log.rs.   *)
(* Threads append numbered events through a shared SessionLog value whose   *)
(* mutex admits one at a time; an exclusive flock keeps every other open    *)
(* value out.  A write or sync that fails poisons the value and gives up    *)
(* the lock, and a recovering owner opens the file again.                   *)
(*                                                                          *)
(* The file is a sequence of lines.  A line is whole, or torn by a write    *)
(* that failed or a power loss.  The first `durable` lines are on disk,     *)
(* but for the ones in `dropped`: a failed sync may drop pages that a later *)
(* sync then does not write.                                                *)
(***************************************************************************)
EXTENDS Naturals, Sequences, FiniteSets

CONSTANTS
    Logs,       \* SessionLog values on one path, of any process
    Threads,
    None,
    MaxSeq,     \* u64::MAX
    MaxEvents   \* bound: appends that reach the file

ASSUME SessionLogAssumption ==
    /\ MaxSeq \in Nat \ {0}
    /\ MaxEvents \in Nat
    /\ None \notin Logs
    /\ None \notin Threads

VARIABLES
    lines,      \* [seq, event, whole] as the processes see them
    durable,    \* how many lines the last successful sync covered
    dropped,    \* lines whose pages a failed sync dropped
    flock,      \* the log that holds the file's lock
    log,        \* the state of each SessionLog: LogState
    mutex,      \* the thread that holds each log's mutex
    pc,         \* where each thread is in append
    using,      \* the log each thread appends to
    events,     \* how many events have been written
    acked       \* ghost: the events whose append returned, in order

vars == <<lines, durable, dropped, flock, log, mutex, pc, using, events, acked>>
file == <<lines, durable, dropped>>

Lines == [seq : 1..MaxSeq, event : 1..MaxEvents, whole : BOOLEAN]

(* LogState: file is None when it is closed or poisoned.                    *)
Closed == [state |-> "closed", next_seq |-> 0]

Init ==
    /\ lines = <<>>
    /\ durable = 0
    /\ dropped = {}
    /\ flock = None
    /\ log = [l \in Logs |-> Closed]
    /\ mutex = [l \in Logs |-> None]
    /\ pc = [t \in Threads |-> "idle"]
    /\ using = [t \in Threads |-> None]
    /\ events = 0
    /\ acked = <<>>

(* Dropping the open file unlocks it.                                       *)
Unlocked(l) == IF flock = l THEN None ELSE flock

Undurable == (durable + 1)..Len(lines)

----------------------------------------------------------------------------
(* open_with                                                                *)

(* scan_lines refuses a torn line, a line without envelope and a sequence   *)
(* that does not increase, naming the first fault.                          *)
scan_lines ==
    /\ \A i \in DOMAIN lines : lines[i].whole
    /\ \A i, j \in DOMAIN lines : i < j => lines[i].seq < lines[j].seq

LastSeq == IF lines = <<>> THEN 0 ELSE lines[Len(lines)].seq

(* The lock is taken and the file checked; Locked, Malformed and            *)
(* SequenceExhausted leave everything as it was.                            *)
open_with(l) ==
    /\ log[l].state = "closed"
    /\ flock = None
    /\ scan_lines
    /\ LastSeq < MaxSeq
    /\ flock' = l
    /\ log' = [log EXCEPT ![l] = [state |-> "opening", next_seq |-> LastSeq + 1]]
    /\ UNCHANGED <<file, mutex, pc, using, events, acked>>

(* Every open syncs the file and its directories, or fails and unlocks.     *)
sync_open(l) ==
    /\ log[l].state = "opening"
    /\ UNCHANGED <<lines, mutex, pc, using, events, acked>>
    /\ \/ /\ durable' = Len(lines)
          /\ log' = [log EXCEPT ![l].state = "open"]
          /\ UNCHANGED <<dropped, flock>>
       \/ /\ dropped' \in {dropped, dropped \cup Undurable}
          /\ log' = [log EXCEPT ![l] = Closed]
          /\ flock' = Unlocked(l)
          /\ UNCHANGED durable

----------------------------------------------------------------------------
(* append                                                                   *)

append(t, l) ==
    /\ pc[t] = "idle"
    /\ log[l].state \in {"open", "poisoned"}
    /\ pc' = [pc EXCEPT ![t] = "lock"]
    /\ using' = [using EXCEPT ![t] = l]
    /\ UNCHANGED <<file, flock, log, mutex, events, acked>>

(* The append of t ends, with whatever result: it leaves the mutex.         *)
Return(t) ==
    /\ pc' = [pc EXCEPT ![t] = "idle"]
    /\ using' = [using EXCEPT ![t] = None]
    /\ mutex' = [l \in Logs |-> IF mutex[l] = t THEN None ELSE mutex[l]]

(* A poisoned log refuses every thread that waited for its mutex.           *)
lock_state(t) ==
    /\ pc[t] = "lock"
    /\ mutex[using[t]] = None
    /\ UNCHANGED <<file, flock, log, events, acked>>
    /\ \/ /\ log[using[t]].state = "open"
          /\ mutex' = [mutex EXCEPT ![using[t]] = t]
          /\ pc' = [pc EXCEPT ![t] = "write"]
          /\ UNCHANGED using
       \/ /\ log[using[t]].state = "poisoned"
          /\ Return(t)

(* Mutant: an error is returned and the log goes on.                        *)
poison_Ignored(l) == UNCHANGED <<log, flock>>

(* Mutant: the lock is released but the file stays in the state.            *)
poison_KeepsFile(l) ==
    /\ flock' = Unlocked(l)
    /\ UNCHANGED log

(* A failed write, flush or sync, a panic in one of them, or the last       *)
(* sequence number: the file is dropped, which releases its lock.           *)
poison(l) ==
    /\ log' = [log EXCEPT ![l].state = "poisoned"]
    /\ flock' = Unlocked(l)

Written(l, whole) ==
    /\ events < MaxEvents
    /\ events' = events + 1
    /\ lines' = Append(lines, [seq |-> log[l].next_seq, event |-> events + 1, whole |-> whole])

(* write_all, which fails having written any prefix: nothing, a torn line   *)
(* or the whole line.  The flush of an unbuffered file does nothing more.   *)
write_all(t) ==
    /\ pc[t] = "write"
    /\ UNCHANGED <<durable, dropped, acked>>
    /\ \/ /\ Written(using[t], TRUE)
          /\ pc' = [pc EXCEPT ![t] = "sync"]
          /\ UNCHANGED <<flock, log, using, mutex>>
       \/ /\ \/ Written(using[t], FALSE)
             \/ Written(using[t], TRUE)
             \/ UNCHANGED <<lines, events>>
          /\ poison(using[t])
          /\ Return(t)

(* Mutant: the sequence number is acknowledged before the sync.             *)
sync_all_AcksFirst(t) ==
    /\ pc[t] = "sync"
    /\ acked' = Append(acked, lines[Len(lines)])
    /\ log' = [log EXCEPT ![using[t]].next_seq = log[using[t]].next_seq + 1]
    /\ Return(t)
    /\ UNCHANGED <<lines, durable, dropped, flock, events>>

(* Mutant: the next sequence number is not kept.                            *)
sync_all_Forgets(t) ==
    /\ pc[t] = "sync"
    /\ durable' = Len(lines)
    /\ acked' = Append(acked, lines[Len(lines)])
    /\ Return(t)
    /\ UNCHANGED <<lines, dropped, flock, log, events>>

(* The number is returned only after the sync.  After MaxSeq no event can   *)
(* be numbered, and the log is poisoned.                                    *)
sync_all(t) ==
    LET l == using[t] IN
    /\ pc[t] = "sync"
    /\ UNCHANGED <<lines, events>>
    /\ \/ /\ durable' = Len(lines)
          /\ acked' = Append(acked, lines[Len(lines)])
          /\ Return(t)
          /\ UNCHANGED dropped
          /\ \/ /\ log[l].next_seq < MaxSeq
                /\ log' = [log EXCEPT ![l].next_seq = log[l].next_seq + 1]
                /\ UNCHANGED flock
             \/ /\ log[l].next_seq = MaxSeq
                /\ poison(l)
       \/ /\ dropped' \in {dropped, dropped \cup Undurable}
          /\ poison(l)
          /\ Return(t)
          /\ UNCHANGED <<durable, acked>>

----------------------------------------------------------------------------
(* The value is dropped between appends; processes die; power is lost.      *)

drop(l) ==
    /\ log[l].state \in {"open", "poisoned"}
    /\ \A t \in Threads : using[t] # l
    /\ log' = [log EXCEPT ![l] = Closed]
    /\ flock' = Unlocked(l)
    /\ UNCHANGED <<file, mutex, pc, using, events, acked>>

(* The process of a log dies at any point: what it wrote stays visible.     *)
Die(l) ==
    /\ log[l].state # "closed"
    /\ log' = [log EXCEPT ![l] = Closed]
    /\ flock' = Unlocked(l)
    /\ mutex' = [mutex EXCEPT ![l] = None]
    /\ pc' = [t \in Threads |-> IF using[t] = l THEN "idle" ELSE pc[t]]
    /\ using' = [t \in Threads |-> IF using[t] = l THEN None ELSE using[t]]
    /\ UNCHANGED <<file, events, acked>>

(* Lines that no sync covered survive up to some point, the last of them    *)
(* perhaps torn; dropped pages are holes.                                   *)
PowerLoss ==
    /\ \E keep \in durable..Len(lines), torn \in BOOLEAN :
        /\ lines' = [i \in 1..keep |->
                        [lines[i] EXCEPT !.whole =
                            /\ lines[i].whole
                            /\ i \notin dropped
                            /\ ~(torn /\ i = keep /\ keep > durable)]]
        /\ durable' = keep
    /\ dropped' = {}
    /\ flock' = None
    /\ log' = [l \in Logs |-> Closed]
    /\ mutex' = [l \in Logs |-> None]
    /\ pc' = [t \in Threads |-> "idle"]
    /\ using' = [t \in Threads |-> None]
    /\ UNCHANGED <<events, acked>>

Next ==
    \/ \E l \in Logs : open_with(l) \/ sync_open(l) \/ drop(l) \/ Die(l)
    \/ \E t \in Threads :
        \/ \E l \in Logs : append(t, l)
        \/ lock_state(t)
        \/ write_all(t)
        \/ sync_all(t)
    \/ PowerLoss

Spec == Init /\ [][Next]_vars

----------------------------------------------------------------------------
(* Properties                                                               *)

(* Every variable has its type; a sequence number is a u64 from 1 up.       *)
TypeOK ==
    /\ lines \in Seq(Lines)
    /\ durable \in 0..Len(lines)
    /\ dropped \subseteq DOMAIN lines
    /\ flock \in Logs \cup {None}
    /\ log \in [Logs -> [state : {"closed", "opening", "open", "poisoned"},
                         next_seq : 0..MaxSeq]]
    /\ mutex \in [Logs -> Threads \cup {None}]
    /\ pc \in [Threads -> {"idle", "lock", "write", "sync"}]
    /\ using \in [Threads -> Logs \cup {None}]
    /\ events \in 0..MaxEvents
    /\ acked \in Seq(Lines)

(* "Returns the event's sequence number only after the whole LF-terminated  *)
(* line was written, flushed and synced": an event whose append returned is *)
(* whole in the file, under its number, and stays there through poisoning,  *)
(* reopening, dying processes and power losses.                             *)
AckedIsKept ==
    \A a \in DOMAIN acked : \E i \in 1..durable :
        lines[i] = acked[a] /\ i \notin dropped

(* Numbers are handed out in order and never twice, across every open of    *)
(* the log by whatever process.                                             *)
AckedInOrder ==
    \A a, b \in DOMAIN acked : a < b => acked[a].seq < acked[b].seq

(* Only the log that holds the file's lock writes: threads that waited on   *)
(* the mutex of a log that was poisoned under them never write beside the   *)
(* recovering owner.                                                        *)
WriterHoldsLock ==
    \A t \in Threads : pc[t] \in {"write", "sync"} => flock = using[t]

(* A log that accepts appends is over a file that read_events accepts: a    *)
(* write that tore a line poisons the log, and no later open gets past it,  *)
(* so nothing is ever written behind a torn line.                           *)
OpenIsReadable ==
    flock # None /\ log[flock].state = "open" /\ mutex[flock] = None =>
        scan_lines

(* What append acknowledged stays in the file, under numbers that only      *)
(* grow.                                                                    *)
AckedIsDurable == AckedIsKept /\ AckedInOrder

(* Whoever writes owns the file, and finds it whole.                        *)
WritesAreSound == WriterHoldsLock /\ OpenIsReadable
=============================================================================
