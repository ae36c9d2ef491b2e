-------------------------- MODULE DiagnosticTranscript --------------------------
(* The thread that reads the helper's diagnostic pipe, and finish, which    *)
(* ends it: DiagnosticTranscript of                                          *)
(* plasmosome-membrane/src/runtime/endpoints.rs.  Bytes are counted, since   *)
(* a pipe keeps their order.  End of file is what the descriptor tables of   *)
(* HelperLaunch say: nobody has the write end.  A read of a pipe does not    *)
(* fail, and a poll that finds bytes is not interrupted.                     *)
EXTENDS HelperLaunch

CONSTANTS
    Diagnosed,      \* the launch whose diagnostics are read
    TranscriptCap,
    Chunk,          \* what one read takes
    MaxWritten      \* bound: bytes written

ASSUME TranscriptAssumption ==
    /\ Diagnosed \in Launches
    /\ TranscriptCap \in Nat /\ MaxWritten \in Nat
    /\ Chunk \in Nat \ {0}

VARIABLES
    written,    \* bytes written to the pipe so far
    taken,      \* bytes read from it so far
    bytes,      \* bytes the transcript kept
    dropped,    \* bytes it read and did not keep
    eof,
    drain,      \* the thread's next step
    rest,       \* bytes the thread may still take once it was told to stop
    stop,
    finish,     \* the caller of finish
    heir,       \* whether a process the helper started has descriptor 2 as well
    atStop      \* ghost: what was written, and whether all was closed, at the stop

transcriptVars == <<written, taken, bytes, dropped, eof, drain, rest, stop, finish, heir, atStop>>

TranscriptInit ==
    /\ written = 0 /\ taken = 0 /\ bytes = 0 /\ dropped = 0
    /\ eof = FALSE
    /\ drain \in {"off", "none"}
    /\ rest = 0
    /\ stop = FALSE
    /\ finish = "none"
    /\ heir = FALSE
    /\ atStop = [written |-> 0, closed |-> FALSE]

Open == heir \/ HeldAnywhere("diag_write", Diagnosed)
Held == written - taken
Readable == Held > 0 \/ ~Open

----------------------------------------------------------------------------
(* start, which the caller is told to call before the spawn.                *)
start ==
    /\ drain = "off" /\ pc[Diagnosed] \in {"prepared", "spawned", "launched"}
    /\ drain' = "loop"
    /\ UNCHANGED <<written, taken, bytes, dropped, eof, rest, stop, finish, heir, atStop>>

(* Mutant: bytes past the cap are not counted.                              *)
keep_Uncounted(count) ==
    /\ taken' = taken + count
    /\ bytes' = Min({bytes + count, TranscriptCap})
    /\ UNCHANGED dropped

keep(count) ==
    LET kept == Min({count, TranscriptCap - bytes}) IN
    /\ taken' = taken + count
    /\ bytes' = bytes + kept
    /\ dropped' = dropped + count - kept

(* take: what is there, up to a chunk.                                      *)
take == keep(Min({Held, Chunk}))

(* The loop of drain: the flag, the poll, the read.                         *)
loop ==
    /\ drain = "loop"
    /\ drain' = IF stop THEN "held" ELSE "poll"
    /\ UNCHANGED <<taken, bytes, dropped, eof, rest>>

poll ==
    /\ drain = "poll"
    /\ \/ /\ ~Readable
          /\ drain' = "loop"
          /\ UNCHANGED <<taken, bytes, dropped, eof>>
       \/ /\ Held > 0
          /\ take
          /\ drain' = "loop"
          /\ UNCHANGED eof
       \/ /\ Held = 0 /\ ~Open
          /\ eof' = TRUE
          /\ drain' = "end"
          /\ UNCHANGED <<taken, bytes, dropped>>
    /\ UNCHANGED rest

(* bytes_held, once it is told to stop.                                     *)
bytes_held ==
    /\ drain = "held"
    /\ rest' = Held
    /\ drain' = "rest"
    /\ UNCHANGED <<taken, bytes, dropped, eof>>

(* Mutant: the thread stops as soon as it has read what was held.           *)
More_Strict == rest > 0

(* It reads until it has more than was held: taken <= held.                 *)
More == rest >= 0

drain_rest ==
    /\ drain = "rest"
    /\ \/ /\ More /\ Held > 0
          /\ take
          /\ rest' = rest - Min({Held, Chunk})
          /\ UNCHANGED <<drain, eof>>
       \/ /\ More /\ Held = 0 /\ ~Open
          /\ eof' = TRUE
          /\ drain' = "end"
          /\ UNCHANGED <<taken, bytes, dropped, rest>>
       \/ /\ ~More \/ ~Readable
          /\ drain' = "end"
          /\ UNCHANGED <<taken, bytes, dropped, eof, rest>>

Drain ==
    /\ loop \/ poll \/ bytes_held \/ drain_rest
    /\ UNCHANGED <<written, stop, finish, heir, atStop>>

(* The thread returns, and the read end is closed with it.                  *)
drop_pipe ==
    /\ drain = "end"
    /\ drain' = "done"
    /\ table' = [table EXCEPT ![owned[Diagnosed]["diag_read"]] = Closed]
    /\ UNCHANGED <<written, taken, bytes, dropped, eof, rest, stop, finish, heir, atStop>>
    /\ UNCHANGED <<platform, pc, line, owned, creating, child, childTable>>

(* finish: the time it waits for the end passes, or the end comes; then it  *)
(* stops the thread and joins it.                                           *)
finish_stop ==
    /\ finish = "none" /\ drain \notin {"off", "none"}
    /\ stop' = TRUE
    /\ finish' = "join"
    /\ atStop' = [written |-> written, closed |-> ~Open]
    /\ UNCHANGED <<written, taken, bytes, dropped, eof, drain, rest, heir>>

finish_join ==
    /\ finish = "join" /\ drain = "done"
    /\ finish' = "returned"
    /\ UNCHANGED <<written, taken, bytes, dropped, eof, drain, rest, stop, heir, atStop>>

(* The helper, or what it started, writes; the pipe has room.               *)
Write ==
    /\ drain # "none"
    /\ heir \/ child[Diagnosed] \in Executed
    /\ written < MaxWritten
    /\ written' = written + 1
    /\ UNCHANGED <<taken, bytes, dropped, eof, drain, rest, stop, finish, heir, atStop>>

(* The helper starts a process that keeps descriptor 2, or that one exits.  *)
Heir ==
    /\ drain # "none"
    /\ heir \/ child[Diagnosed] \in Executed
    /\ heir' = ~heir
    /\ UNCHANGED <<written, taken, bytes, dropped, eof, drain, rest, stop, finish, atStop>>

TranscriptNext == start \/ Drain \/ finish_stop \/ finish_join \/ Write \/ Heir

----------------------------------------------------------------------------
(* Properties                                                               *)

(* What finish returns: every byte written before it stopped the thread was *)
(* read, the first TranscriptCap of those read are kept and the others      *)
(* counted, and end of file is told exactly when the write end was closed   *)
(* everywhere, at the latest by the stop.                                   *)
TranscriptIsComplete ==
    finish = "returned" =>
        /\ taken >= atStop.written
        /\ bytes = Min({taken, TranscriptCap})
        /\ dropped = taken - bytes
        /\ atStop.closed => eof
        /\ eof => ~Open /\ taken = written
=============================================================================
