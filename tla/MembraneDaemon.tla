---------------------------- MODULE MembraneDaemon ----------------------------
(***************************************************************************)
(* membraned as it serves: crate plasmosome-membrane, daemon.rs, control.rs,*)
(* brokers.rs, readiness.rs and exec.rs.  One thread binds the control      *)
(* socket, forks the brokers, takes connections one at a time and answers   *)
(* each request in turn; a status asks every broker's socket within one     *)
(* allowance of time.  Clients, brokers, the clock, the shutdown flag and   *)
(* whoever else writes in the socket's directory act between any two of its *)
(* steps.                                                                   *)
(*                                                                          *)
(* A request line comes in two pieces, the second with the newline.  The    *)
(* drop of a broker is VmmChild's and one step here.                        *)
(*                                                                          *)
(* "Ownership-correct cleanup under a coordinated namespace": nobody        *)
(* replaces the socket between bind and capture, or between the check and   *)
(* the unlink.  At any other time another program may, and the inode number *)
(* of a socket that is gone may be given to the next one.                   *)
(***************************************************************************)
EXTENDS Naturals, Sequences

CONSTANTS
    Configs,        \* [valid, brokers]: brokers a sequence of [socket, runnable]
    None,
    MaxInodes,      \* bound: inode numbers of the socket's file system
    MaxRequests,    \* bound: requests of one connection
    MaxConnections  \* bound: connections

Kinds == {"status", "broken", "long"}
Verdicts == {"failure", "too_long", "empty", "deadline_spent", "not_serving", "serving"}
Pieces == [request : Nat, kind : Kinds, last : BOOLEAN]

(* A connection: what its client sent, what of it is in the stream and in   *)
(* the line being read, and the replies.                                    *)
Conns == [sent : Seq([kind : Kinds, whole : BOOLEAN]), inbox : Seq(Pieces), line : Seq(Pieces),
          replies : Seq(Verdicts), eof : BOOLEAN]

ASSUME MembraneAssumption ==
    /\ MaxInodes \in Nat \ {0}
    /\ MaxRequests \in Nat
    /\ MaxConnections \in Nat
    /\ None \notin Conns
    /\ \A c \in Configs : /\ c.valid \in BOOLEAN /\ Len(c.brokers) \in Nat
                           /\ DOMAIN c.brokers = 1..Len(c.brokers)

VARIABLES
    config,     \* what membraned was started with
    pc,         \* where the thread is
    shutdown,   \* the flag
    entry,      \* what the control socket's pathname names: [ino, socket, ours]
    listening,  \* the inode of the open listener, or None
    bound,      \* BoundSocket: the inode number recorded
    broker,     \* each broker's process
    conn,       \* the connection, as client and daemon see it
    connected,  \* how many there were
    ask,        \* status: the broker being asked
    late,       \* status: the allowance is spent
    stream,     \* probe: what the broker has sent
    answer,     \* probe: its result
    verdict,    \* the reply to be written
    said,       \* ghost: brokers that said in time, in this status, that they serve
    struck      \* ghost: what was unlinked that is not the daemon's own, or None:
                \* [ino, socket, open], open if the listener still was

path == <<entry, listening, bound, struck>>
status == <<ask, late, stream, answer, verdict, said>>
client == <<conn, connected>>
vars == <<config, pc, shutdown, path, broker, client, status>>

Inodes == 1..MaxInodes
Brokers == DOMAIN config.brokers

Init ==
    /\ config \in Configs
    /\ pc = "parse_config"
    /\ shutdown = FALSE
    /\ entry \in {None, [ino |-> 1, socket |-> TRUE, ours |-> FALSE]}
    /\ listening = None
    /\ bound = None
    /\ broker = [b \in DOMAIN config.brokers |-> "none"]
    /\ conn = None
    /\ connected = 0
    /\ ask = 0
    /\ late = FALSE
    /\ stream = None
    /\ answer = None
    /\ verdict = None
    /\ said = {}
    /\ struck = None

Goto(step) == pc' = step

----------------------------------------------------------------------------
(* The start                                                                *)

(* An inode number for a new entry.  A bound socket keeps its number while  *)
(* it is open, whether or not it still has a name; the number of one that   *)
(* has gone is given out again.                                             *)
FreeInodes ==
    {i \in Inodes : i # listening /\ (entry # None => i # entry.ino)}

parse_config ==
    /\ pc = "parse_config"
    /\ Goto(IF config.valid THEN "bind" ELSE "down")
    /\ UNCHANGED <<config, shutdown, path, broker, client, status>>

(* An address in use is refused, whoever's it is, and a bind may fail for   *)
(* another reason; it leaves nothing then.                                  *)
bind ==
    /\ pc = "bind"
    /\ \/ /\ entry = None
          /\ \E i \in FreeInodes :
                /\ entry' = [ino |-> i, socket |-> TRUE, ours |-> TRUE]
                /\ listening' = i
          /\ Goto("capture")
       \/ Goto("down") /\ UNCHANGED <<entry, listening>>
    /\ UNCHANGED <<config, shutdown, bound, struck, broker, client, status>>

(* A start that cannot look at its socket leaves it.                        *)
capture ==
    /\ pc = "capture"
    /\ \/ bound' = entry.ino /\ Goto("commands") /\ UNCHANGED listening
       \/ listening' = None /\ Goto("down") /\ UNCHANGED bound
    /\ UNCHANGED <<config, shutdown, entry, struck, broker, client, status>>

(* ExecCommand::new finds the program, and no argument it could not pass.   *)
Resolves(b) == config.brokers[b].runnable

(* Every command is resolved before the first fork.                         *)
commands ==
    /\ pc = "commands"
    /\ Goto(IF \A b \in Brokers : Resolves(b) THEN "spawn" ELSE "check_path")
    /\ UNCHANGED <<config, shutdown, path, broker, client, status>>

Spawned == {b \in Brokers : broker[b] # "none"}

(* Mutant: two brokers may have one socket.                                 *)
DuplicateControlSocket_Never(b) == FALSE

DuplicateControlSocket(b) ==
    \E other \in Spawned : config.brokers[other].socket = config.brokers[b].socket

(* BrokerSet::spawn, one broker at a time.  A fork may fail.                *)
spawn ==
    /\ pc = "spawn"
    /\ IF Spawned = Brokers
       THEN Goto("serve") /\ UNCHANGED broker
       ELSE \E b \in Brokers \ Spawned :
              /\ \A other \in Brokers \ Spawned : b <= other
              /\ \/ /\ ~DuplicateControlSocket(b)
                    /\ broker' = [broker EXCEPT ![b] = "starting"]
                    /\ UNCHANGED pc
                 \/ Goto("drop_set") /\ UNCHANGED broker
    /\ UNCHANGED <<config, shutdown, path, client, status>>

----------------------------------------------------------------------------
(* The teardown                                                             *)

Undropped == {b \in Spawned : broker[b] # "dropped"}

(* Mutant: the brokers that were spawned before one failed are forgotten.   *)
drop_set_AfterServe ==
    /\ pc = "drop_set"
    /\ \/ /\ listening = None
          /\ \E b \in Undropped : broker' = [broker EXCEPT ![b] = "dropped"]
          /\ UNCHANGED pc
       \/ /\ listening = None => Undropped = {}
          /\ Goto("check_path") /\ UNCHANGED broker
    /\ UNCHANGED <<config, shutdown, path, client, status>>

(* Dropping the set, or what BrokerSet::spawn had of it.                    *)
drop_set ==
    /\ pc = "drop_set"
    /\ \/ /\ \E b \in Undropped : broker' = [broker EXCEPT ![b] = "dropped"]
          /\ UNCHANGED pc
       \/ /\ Undropped = {}
          /\ Goto("check_path") /\ UNCHANGED broker
    /\ UNCHANGED <<config, shutdown, path, client, status>>

(* Mutant: whatever socket has the name is taken for the daemon's.          *)
IsBound_AnySocket == entry # None /\ entry.socket

IsBound == entry # None /\ entry.socket /\ entry.ino = bound

(* BoundSocket::drop looks, and then unlinks the name.  After serve the     *)
(* listener is closed by now, and the number recorded may be another's.     *)
check_path ==
    /\ pc = "check_path"
    /\ Goto(IF IsBound THEN "unlink" ELSE "close_listener")
    /\ UNCHANGED <<config, shutdown, path, broker, client, status>>

unlink ==
    /\ pc = "unlink"
    /\ struck' = IF entry.ours THEN struck
                 ELSE [ino |-> entry.ino, socket |-> entry.socket, open |-> listening # None]
    /\ entry' = None
    /\ Goto("close_listener")
    /\ UNCHANGED <<config, shutdown, listening, bound, broker, client, status>>

(* A start that failed still has its listener; serve closed it otherwise.   *)
close_listener ==
    /\ pc = "close_listener"
    /\ listening' = None
    /\ Goto("down")
    /\ UNCHANGED <<config, shutdown, entry, bound, struck, broker, client, status>>

----------------------------------------------------------------------------
(* serve and converse                                                       *)

(* serve owns the listener: it is closed, and with it the connection that   *)
(* waits there, as serve returns.                                           *)
Return == listening' = None /\ conn' = None /\ Goto("drop_set")

(* The flag, and then a connection or a poll, until the listener fails.     *)
serve ==
    /\ pc = "serve"
    /\ \/ shutdown /\ Return
       \/ ~shutdown /\ Goto("accept") /\ UNCHANGED <<listening, conn>>
    /\ UNCHANGED <<config, shutdown, entry, bound, struck, broker, connected, status>>

(* converse returns: the connection is closed and serve goes round.         *)
Close == Goto("serve") /\ conn' = None

accept ==
    /\ pc = "accept"
    /\ \/ conn = None /\ Goto("serve") /\ UNCHANGED <<listening, conn>>
       \/ conn # None /\ Goto("watch") /\ UNCHANGED <<listening, conn>>
       \/ conn # None /\ Close /\ UNCHANGED listening
       \/ Return
    /\ UNCHANGED <<config, shutdown, entry, bound, struck, broker, connected, status>>

Reply(v) == verdict' = v /\ Goto("reply")

Whole(line) == Len(line) = 2 /\ line[1].request = line[2].request

(* Mutant: the flag is looked at before the first request only.             *)
watch_Once ==
    /\ pc = "watch"
    /\ \/ shutdown /\ conn.sent = << >> /\ Close
       \/ ~(shutdown /\ conn.sent = << >>) /\ Goto("fill_buf") /\ UNCHANGED conn
    /\ UNCHANGED <<config, shutdown, path, broker, connected, status>>

(* read_request goes round: the flag, then what the connection holds.       *)
watch ==
    /\ pc = "watch"
    /\ \/ shutdown /\ Close
       \/ ~shutdown /\ Goto("fill_buf") /\ UNCHANGED conn
    /\ UNCHANGED <<config, shutdown, path, broker, connected, status>>

(* Mutant: what was read before a time-out is forgotten.                    *)
fill_buf_Restarts ==
    /\ pc = "fill_buf"
    /\ \/ /\ conn.inbox = << >> /\ ~conn.eof
          /\ conn' = [conn EXCEPT !.line = << >>]
          /\ Goto("watch") /\ UNCHANGED verdict
       \/ conn.eof /\ Close /\ UNCHANGED verdict
       \/ /\ conn.inbox # << >>
          /\ LET piece == Head(conn.inbox)
             IN  /\ conn' = [conn EXCEPT !.inbox = Tail(@), !.line = Append(@, piece)]
                 /\ \/ piece.kind = "long" /\ Reply("too_long")
                    \/ /\ piece.kind # "long"
                       /\ Goto(IF piece.last THEN "respond" ELSE "watch")
                       /\ UNCHANGED verdict
    /\ UNCHANGED <<config, shutdown, path, broker, connected, ask, late, stream, answer, said>>

(* A read that times out keeps what it has.  The client's end, or a read    *)
(* that fails because of it, ends the conversation.                         *)
fill_buf ==
    /\ pc = "fill_buf"
    /\ \/ conn.inbox = << >> /\ ~conn.eof /\ Goto("watch") /\ UNCHANGED <<conn, verdict>>
       \/ conn.eof /\ Close /\ UNCHANGED verdict
       \/ /\ conn.inbox # << >>
          /\ LET piece == Head(conn.inbox)
             IN  /\ conn' = [conn EXCEPT !.inbox = Tail(@), !.line = Append(@, piece)]
                 /\ \/ piece.kind = "long" /\ Reply("too_long")
                    \/ /\ piece.kind # "long"
                       /\ Goto(IF piece.last THEN "respond" ELSE "watch")
                       /\ UNCHANGED verdict
    /\ UNCHANGED <<config, shutdown, path, broker, connected, ask, late, stream, answer, said>>

(* A line that is a whole status request starts a status; any other, part   *)
(* of one included, is answered with a failure.                             *)
respond ==
    /\ pc = "respond"
    /\ conn' = [conn EXCEPT !.line = << >>]
    /\ IF Whole(conn.line) /\ conn.line[1].kind = "status"
       THEN /\ ask' = 1
            /\ late' = FALSE
            /\ said' = {}
            /\ Goto("next_broker")
            /\ UNCHANGED verdict
       ELSE Reply("failure") /\ UNCHANGED <<ask, late, said>>
    /\ UNCHANGED <<config, shutdown, path, broker, connected, stream, answer>>

(* What a status kept goes with it.                                         *)
Forget ==
    /\ ask' = 0
    /\ late' = FALSE
    /\ stream' = None
    /\ answer' = None
    /\ verdict' = None
    /\ said' = {}

(* A reply that is not taken in time ends the conversation, and so does a   *)
(* line that is too long.                                                   *)
reply ==
    /\ pc = "reply"
    /\ \/ /\ ~shutdown \/ verdict = "too_long"
          /\ conn' = [conn EXCEPT !.replies = Append(@, verdict)]
          /\ Goto(IF verdict = "too_long" THEN "hang_up" ELSE "watch")
       \/ Close
    /\ Forget
    /\ UNCHANGED <<config, shutdown, path, broker, connected>>

hang_up ==
    /\ pc = "hang_up"
    /\ Close
    /\ Forget
    /\ UNCHANGED <<config, shutdown, path, broker, connected>>

----------------------------------------------------------------------------
(* A status: status_with over probe_with                                    *)

(* ProbeBudget::remaining_at: cancellation wins.                            *)
remaining ==
    CASE shutdown -> "Cancelled"
      [] ~shutdown /\ late -> "TimedOut"
      [] OTHER -> "Ok"

next_broker ==
    /\ pc = "next_broker"
    /\ \/ remaining = "Cancelled" /\ Goto("hang_up") /\ UNCHANGED verdict
       \/ remaining # "Cancelled" /\ Brokers = {} /\ Reply("empty")
       \/ remaining = "TimedOut" /\ Brokers # {} /\ Reply("deadline_spent")
       \/ remaining = "Ok" /\ Brokers # {} /\ Goto("connect") /\ UNCHANGED verdict
    /\ UNCHANGED <<config, shutdown, path, broker, client, ask, late, stream, answer, said>>

Answered(a) == answer' = a /\ stream' = None /\ Goto("judge")

(* Whose process answers on the socket of the broker being asked.           *)
Behind == {b \in Spawned : /\ config.brokers[b].socket = config.brokers[ask].socket
                           /\ broker[b] \in {"serving", "failing"}}

(* probe_with up to its connection.  connect_budgeted connects, or cannot,  *)
(* or finds the backlog full; why a broker is not ready is left out.        *)
connect ==
    /\ pc = "connect"
    /\ \/ /\ remaining = "Ok" /\ Behind # {}
          /\ stream' = "open" /\ Goto("exchange") /\ UNCHANGED answer
       \/ Answered("NotReady")
    /\ UNCHANGED <<config, shutdown, path, broker, client, ask, late, verdict, said>>

(* exchange and classify: the first line the broker sends, within the       *)
(* allowance.  A stream that ends or fails counts as timed out.             *)
exchange ==
    /\ pc = "exchange"
    /\ \/ remaining # "Ok" /\ Answered("NotReady")
       \/ remaining = "Ok" /\ stream # "open" /\ Answered(stream)
    /\ UNCHANGED <<config, shutdown, path, broker, client, ask, late, verdict, said>>

(* The checks at the end of probe_with and after it in status_with, then    *)
(* the answer.                                                              *)
judge ==
    /\ pc = "judge"
    /\ \/ remaining = "Cancelled" /\ Goto("hang_up") /\ UNCHANGED <<verdict, ask>>
       \/ /\ remaining = "TimedOut" \/ (remaining = "Ok" /\ answer # "Ready")
          /\ Reply("not_serving") /\ UNCHANGED ask
       \/ /\ remaining = "Ok" /\ answer = "Ready"
          /\ IF ask = Len(config.brokers)
             THEN Reply("serving") /\ UNCHANGED ask
             ELSE ask' = ask + 1 /\ Goto("next_broker") /\ UNCHANGED verdict
    /\ answer' = None
    /\ UNCHANGED <<config, shutdown, path, broker, client, late, stream, said>>

Daemon ==
    \/ parse_config \/ bind \/ capture \/ commands \/ spawn
    \/ drop_set \/ check_path \/ unlink \/ close_listener
    \/ serve \/ accept \/ watch \/ fill_buf \/ respond \/ reply \/ hang_up
    \/ next_broker \/ connect \/ exchange \/ judge

----------------------------------------------------------------------------
(* Everybody else                                                           *)

(* A client connects while the socket is at its name, sends requests a      *)
(* piece at a time without waiting for replies, and hangs up when it likes. *)
Connect ==
    /\ conn = None
    /\ connected < MaxConnections
    /\ listening # None
    /\ entry # None /\ entry.ours
    /\ conn' = [sent |-> << >>, inbox |-> << >>, line |-> << >>,
                replies |-> << >>, eof |-> FALSE]
    /\ connected' = connected + 1
    /\ UNCHANGED <<config, pc, shutdown, path, broker, status>>

(* The first piece of a request; its kind is then known.                    *)
Begin(kind) ==
    /\ conn # None
    /\ ~conn.eof
    /\ Len(conn.sent) < MaxRequests
    /\ conn.sent # << >> => conn.sent[Len(conn.sent)].whole
    /\ conn' = [conn EXCEPT
          !.sent = Append(@, [kind |-> kind, whole |-> FALSE]),
          !.inbox = Append(@, [request |-> Len(conn.sent) + 1, kind |-> kind, last |-> FALSE])]
    /\ UNCHANGED <<config, pc, shutdown, path, broker, connected, status>>

(* The rest of it.                                                          *)
Finish ==
    /\ conn # None
    /\ ~conn.eof
    /\ conn.sent # << >>
    /\ LET n == Len(conn.sent)
       IN  /\ ~conn.sent[n].whole
           /\ conn' = [conn EXCEPT
                 !.sent[n].whole = TRUE,
                 !.inbox = Append(@, [request |-> n, kind |-> conn.sent[n].kind, last |-> TRUE])]
    /\ UNCHANGED <<config, pc, shutdown, path, broker, connected, status>>

Hangup ==
    /\ conn # None
    /\ ~conn.eof
    /\ conn' = [conn EXCEPT !.eof = TRUE]
    /\ UNCHANGED <<config, pc, shutdown, path, broker, connected, status>>

(* A broker comes up, may stop being able to serve, and may die.            *)
BrokerMoves(b) ==
    /\ \/ broker[b] = "starting" /\ broker' = [broker EXCEPT ![b] = "serving"]
       \/ broker[b] = "serving" /\ broker' = [broker EXCEPT ![b] = "failing"]
       \/ broker[b] \in {"starting", "serving", "failing"}
            /\ broker' = [broker EXCEPT ![b] = "stopped"]
    /\ UNCHANGED <<config, pc, shutdown, path, client, status>>

(* A broker answers on the open connection, truly and in its own time.      *)
BrokerAnswers(b) ==
    /\ pc = "exchange"
    /\ stream = "open"
    /\ b \in Behind
    /\ \/ /\ broker[b] = "serving"
          /\ stream' = "Ready"
          /\ said' = IF late THEN said ELSE said \cup {b}
       \/ /\ broker[b] = "failing"
          /\ stream' = "NotReady"
          /\ UNCHANGED said
    /\ UNCHANGED <<config, pc, shutdown, path, broker, client, ask, late, answer, verdict>>

(* The connection to a broker ends without a line.                          *)
StreamEnds ==
    /\ pc = "exchange"
    /\ stream = "open"
    /\ stream' = "NotReady"
    /\ UNCHANGED <<config, pc, shutdown, path, broker, client, ask, late, answer, verdict, said>>

(* The allowance of the status under way runs out.                          *)
Tick ==
    /\ pc \in {"next_broker", "connect", "exchange", "judge"}
    /\ ~late
    /\ late' = TRUE
    /\ UNCHANGED <<config, pc, shutdown, path, broker, client, ask, stream, answer, verdict, said>>

(* SIGTERM or SIGINT.                                                       *)
note_shutdown ==
    /\ ~shutdown
    /\ pc # "parse_config"
    /\ shutdown' = TRUE
    /\ UNCHANGED <<config, pc, path, broker, client, status>>

(* Another program takes the name away, or puts a socket or a file there;   *)
(* what it did before the daemon bound is in Init.  No step of a            *)
(* conversation looks at the name, so doing it during one is doing it after.*)
Elsewhere ==
    /\ pc \notin {"parse_config", "bind", "capture", "unlink", "down"}
    /\ conn = None
    /\ \/ entry # None /\ entry' = None
       \/ /\ entry = None
          /\ \E i \in FreeInodes, socket \in BOOLEAN :
                entry' = [ino |-> i, socket |-> socket, ours |-> FALSE]
    /\ UNCHANGED <<config, pc, shutdown, listening, bound, struck, broker, client, status>>

Next ==
    \/ Daemon
    \/ Connect \/ (\E kind \in Kinds : Begin(kind)) \/ Finish \/ Hangup
    \/ \E b \in Brokers : BrokerMoves(b) \/ BrokerAnswers(b)
    \/ StreamEnds \/ Tick \/ note_shutdown \/ Elsewhere

Spec == Init /\ [][Next]_vars

(* The daemon's thread runs, and time passes.                               *)
FairSpec == Spec /\ WF_vars(Daemon) /\ WF_vars(Tick)

----------------------------------------------------------------------------
(* Properties                                                               *)

(* A status is answered "serving" only if every broker, and there is one,   *)
(* said on its own socket, since the status was asked for and within its    *)
(* allowance, that it serves: a dead broker, an answer that came late and   *)
(* one kept from an earlier status have no vote (status_with, probe_with).  *)
ReadyIsTrue == pc = "reply" /\ verdict = "serving" => Brokers # {} /\ said = Brokers

(* The n-th reply of a connection answers its n-th request, in whichever    *)
(* pieces and however far ahead of the replies the requests arrived: a      *)
(* status gets a state, a broken line a failure, a line too long its        *)
(* refusal and nothing after it (converse, read_request).                   *)
AnswersInOrder ==
    conn # None =>
        \A n \in DOMAIN conn.replies :
            /\ n \in DOMAIN conn.sent
            /\ conn.sent[n].kind = "broken" <=> conn.replies[n] = "failure"
            /\ conn.sent[n].kind = "long" <=> conn.replies[n] = "too_long"
            /\ conn.replies[n] = "too_long" => n = Len(conn.replies)

(* What the daemon says is so, and is the answer to what was asked.         *)
AnswersAreTrue == ReadyIsTrue /\ AnswersInOrder

(* When run has returned, however it returned, every broker it had spawned  *)
(* was dropped, the listener is closed and the socket it bound is no longer *)
(* at its name, except after a start that could not look at it.  What       *)
(* somebody else put at the name is left alone, whatever it is, while the   *)
(* listener is open, as it is when a start fails; once serve has closed it, *)
(* all is left alone but a socket that was given the number of the daemon's *)
(* own (run_with, BoundSocket's drop).  Specification 001 of docs/specs     *)
(* gives the exception; RemovesItsOwn is the claim without it.              *)
TeardownIsExact ==
    /\ pc = "down" =>
        /\ Undropped = {}
        /\ listening = None
        /\ bound # None /\ entry # None => ~entry.ours
    /\ struck # None => ~struck.open /\ struck.socket /\ struck.ino = bound

(* What the doc of run says: it "removes the socket path only when the      *)
(* entry still at that name is the socket this daemon bound" (daemon.rs).   *)
(* It does not hold: the device and inode that BoundSocket's drop compares  *)
(* tell the daemon's socket only as long as the listener is open, and serve *)
(* has closed it by then.                                                   *)
RemovesItsOwn == struck = None

(* A shutdown ends the daemon, whatever idle clients, silent brokers or     *)
(* half-sent requests it is waiting for.                                    *)
ShutdownEnds == shutdown ~> pc = "down"

=============================================================================
