------------------------ MODULE MembraneDaemon_proofs ------------------------
(***************************************************************************)
(* membraned's run, for any number of brokers, clients, requests and        *)
(* entries of the socket's directory.                                       *)
(*                                                                          *)
(* Owned says, at each place of run_with, whose the entry at the socket's   *)
(* name is: while the listener is open the number recorded by capture tells *)
(* it, and afterwards it still tells the daemon's own.  Fleet says which    *)
(* brokers are there.  Heard follows one status through its brokers:  *)
(* the ones before the one being asked have said Ready, or the allowance    *)
(* ran out.  Spoken splits the pieces a client has sent into those of the   *)
(* requests answered, the line being read and the stream, each with its     *)
(* place among them, so that the next line read is the next request.        *)
(***************************************************************************)
EXTENDS MembraneDaemon, TLAPS

Starting == {"parse_config", "bind", "capture", "commands"}
Closing == {"check_path", "unlink", "close_listener", "down"}
Asking == {"next_broker", "connect", "exchange", "judge"}
Talking == Asking \cup {"watch", "fill_buf", "respond", "reply", "hang_up"}
Alone == {"accept", "serve", "spawn", "drop_set"}
Steps == Starting \cup Closing \cup Talking \cup Alone
Entries == [ino : Inodes, socket : BOOLEAN, ours : BOOLEAN]

PathTyped ==
    /\ config \in Configs
    /\ pc \in Steps
    /\ entry \in Entries \cup {None}
    /\ broker \in [Brokers -> {"none", "starting", "serving", "failing", "stopped", "dropped"}]

(* The number recorded is that of the listener while it is open and of the  *)
(* daemon's own entry while there is one; of another's entry only once the  *)
(* listener is closed.                                                      *)
Recorded ==
    /\ listening # None => listening = bound
    /\ entry # None /\ entry.ours => entry.socket /\ entry.ino = bound
    /\ entry # None /\ listening # None /\ entry.ino = bound => entry.ours

(* Whose the entry is, and what the number recorded tells of it.            *)
Owned ==
    /\ pc \in {"parse_config", "bind"} => listening = None /\ bound = None /\ (entry # None => ~entry.ours)
    /\ pc = "capture" => entry.ours /\ entry.socket /\ entry.ino = listening /\ bound = None
    /\ pc \in {"parse_config", "bind", "capture"} => struck = None
    /\ pc \notin {"parse_config", "bind", "capture", "down"} => Recorded
    /\ pc = "unlink" => entry # None /\ entry.socket /\ entry.ino = bound
    /\ pc \in {"close_listener", "down"} /\ bound # None => (entry # None => ~entry.ours)
    /\ pc = "down" => listening = None
    /\ struck # None => ~struck.open /\ struck.socket /\ struck.ino = bound

Fleet ==
    /\ pc \in Starting => \A b \in Brokers : broker[b] = "none"
    /\ pc \in Closing => \A b \in Brokers : broker[b] \in {"none", "dropped"}
    /\ pc \in Talking \cup {"serve", "accept"} => Spawned = Brokers
    /\ \A a, b \in Spawned : config.brokers[a].socket = config.brokers[b].socket => a = b

PathInv == PathTyped /\ Owned

(* The places between capture and the unlink.                               *)
Middle == Steps \ {"parse_config", "bind", "capture", "unlink", "close_listener", "down"}

(* What has been heard in the status under way.                             *)
Heard ==
    /\ pc \in Asking => ask \in Nat \ {0} /\ (Brokers # {} => ask \in Brokers)
    /\ pc \in {"connect", "exchange", "judge"} => Brokers # {}
    /\ pc \in Asking => said \subseteq Brokers /\ (late \/ \A b \in 1..(ask - 1) : b \in said)
    /\ pc = "exchange" /\ stream = "Ready" => late \/ ask \in said
    /\ pc = "judge" /\ answer = "Ready" => late \/ ask \in said
    /\ ReadyIsTrue

Requests == [kind : Kinds, whole : BOOLEAN]

(* piece is the m-th that the client of c has sent.                         *)
Nth(c, piece, m) ==
    /\ piece.request \in 1..Len(c.sent) /\ piece.kind = c.sent[piece.request].kind
    /\ m = IF piece.last THEN 2 * piece.request ELSE 2 * piece.request - 1

(* How many of its requests have been taken, and its pieces sent.           *)
Turn(c, at) == Len(c.replies) + (IF at \in Asking \cup {"reply"} THEN 1 ELSE 0)

Total(c) ==
    IF c.sent # <<>> /\ ~c.sent[Len(c.sent)].whole THEN 2 * Len(c.sent) - 1 ELSE 2 * Len(c.sent)

(* The pieces taken, those of the line and those of the stream are the ones *)
(* sent, and the line starts where a request does.                          *)
Lined(c, turn) ==
    /\ 2 * turn + Len(c.line) + Len(c.inbox) = Total(c)
    /\ \A i \in 1..Len(c.inbox) : Nth(c, c.inbox[i], 2 * turn + Len(c.line) + i)
    /\ \A i \in 1..Len(c.line) : Nth(c, c.line[i], 2 * turn + i) /\ c.line[i].kind # "long"

LineOf(c, at) ==
    CASE at = "respond" -> Len(c.line) = 2
      [] at \in {"watch", "fill_buf"} -> Len(c.line) < 2
      [] OTHER -> Len(c.line) = 0

Matches(kind, v) == (kind = "broken" <=> v = "failure") /\ (kind = "long" <=> v = "too_long")

(* The replies of c are those of its first requests.                        *)
Replied(c, at) ==
    \A n \in 1..Len(c.replies) :
        /\ n \in 1..Len(c.sent) /\ Matches(c.sent[n].kind, c.replies[n])
        /\ c.replies[n] = "too_long" => n = Len(c.replies) /\ at = "hang_up"

(* The request whose turn it is, and the verdict on it.                     *)
Current(c, at, v) ==
    /\ at \in Asking \cup {"reply"} => Len(c.replies) + 1 \in 1..Len(c.sent)
    /\ at \in Asking => c.sent[Len(c.replies) + 1].kind = "status"
    /\ at = "reply" => v \in Verdicts /\ Matches(c.sent[Len(c.replies) + 1].kind, v)

Over(at, v) == at = "hang_up" \/ (at = "reply" /\ v = "too_long")

Fits(c, at, v) ==
    /\ c \in Conns /\ Replied(c, at) /\ Current(c, at, v)
    /\ \A n \in 1..Len(c.sent) : n < Len(c.sent) => c.sent[n].whole
    /\ at \notin Talking => c.replies = <<>>
    /\ ~Over(at, v) => Lined(c, Turn(c, at)) /\ LineOf(c, at)

Spoken == conn # None \/ pc \in Talking => Fits(conn, pc, verdict)

-----------------------------------------------------------------------------
(* The control socket.                                                      *)

LEMMA ConfigShape ==
    ASSUME config \in Configs
    PROVE  config.valid \in BOOLEAN /\ Len(config.brokers) \in Nat /\ Brokers = 1..Len(config.brokers)
  BY MembraneAssumption DEF Brokers

LEMMA SameConfig == [Next]_vars => config' = config
  BY DEF Next, vars, Daemon, parse_config, bind, capture, commands, spawn, drop_set, check_path, unlink,
         close_listener, serve, accept, watch, fill_buf, respond, reply, hang_up, next_broker, connect,
         exchange, judge, Connect, Begin, Finish, Hangup, BrokerMoves, BrokerAnswers, StreamEnds, Tick,
         note_shutdown, Elsewhere

LEMMA PathStart == Init => PathInv
  <1> SUFFICES ASSUME Init PROVE PathInv
    OBVIOUS
  <1>1. entry = None \/ entry = [ino |-> 1, socket |-> TRUE, ours |-> FALSE]
    BY DEF Init
  <1>2. 1 \in Inodes
    BY MembraneAssumption DEF Inodes
  <1>3. PathTyped
    <2>1. broker \in [Brokers -> {"none", "starting", "serving", "failing", "stopped", "dropped"}]
      BY DEF Init, Brokers
    <2>2. entry \in Entries \cup {None}
      <3>1. [ino |-> 1, socket |-> TRUE, ours |-> FALSE] \in Entries
        BY <1>2 DEF Entries
      <3> QED  BY <1>1, <3>1
    <2> QED  BY <2>1, <2>2 DEF Init, PathTyped, Steps, Starting
  <1> QED  BY <1>1, <1>3 DEF Init, PathInv, Owned

(* The steps that leave the socket's name as it is.                         *)
LEMMA PathKept ==
    ASSUME PathInv, config' = config, UNCHANGED <<entry, bound, struck>>,
           broker' \in [Brokers -> {"none", "starting", "serving", "failing", "stopped", "dropped"}],
           \/ pc \in Middle /\ pc' \in Middle /\ listening' \in {listening, None}
           \/ pc' = pc /\ listening' = listening
    PROVE  PathInv'
  <1>1. Brokers' = Brokers
    BY DEF Brokers
  <1>2. PathTyped'
    BY <1>1 DEF PathInv, PathTyped, Middle
  <1>3. CASE pc \in Middle /\ pc' \in Middle /\ listening' \in {listening, None}
    <2>1. Recorded'
      BY <1>3 DEF PathInv, Owned, Recorded, Middle
    <2> QED  BY <1>2, <1>3, <2>1 DEF PathInv, Owned, Middle
  <1>4. CASE pc' = pc /\ listening' = listening
    BY <1>2, <1>4 DEF PathInv, Owned, Recorded
  <1> QED  BY <1>3, <1>4

LEMMA PathStep == ASSUME PathInv, [Next]_vars PROVE PathInv'
  <1> DEFINE Fates == {"none", "starting", "serving", "failing", "stopped", "dropped"}
  <1>1. /\ config' = config /\ Brokers' = Brokers /\ broker \in [Brokers -> Fates]
        /\ config.valid \in BOOLEAN
    BY SameConfig, ConfigShape DEF Brokers, PathInv, PathTyped
  <1>2. \/ parse_config \/ bind \/ capture \/ commands \/ check_path \/ unlink \/ close_listener \/ Elsewhere
        \/ serve \/ accept
        \/ spawn \/ drop_set \/ \E b \in Brokers : BrokerMoves(b)
        \/ watch \/ fill_buf \/ respond \/ reply \/ hang_up
        \/ next_broker \/ connect \/ exchange \/ judge
        \/ Connect \/ (\E kind \in Kinds : Begin(kind)) \/ Finish \/ Hangup
        \/ (\E b \in Brokers : BrokerAnswers(b)) \/ StreamEnds \/ Tick \/ note_shutdown \/ UNCHANGED vars
    BY DEF Next, Daemon
  <1>3. CASE parse_config
    <2>1. /\ pc = "parse_config" /\ pc' \in {"bind", "down"}
          /\ UNCHANGED <<entry, listening, bound, struck, broker>>
      BY <1>3 DEF parse_config, Goto, path
    <2>2. PathTyped'
      BY <1>1, <2>1 DEF PathInv, PathTyped, Steps, Starting, Closing
    <2> QED  BY <2>1, <2>2 DEF PathInv, Owned
  <1>4. CASE bind
    <2>1. /\ pc = "bind" /\ UNCHANGED <<bound, struck, broker>>
          /\ \/ \E i \in FreeInodes :
                   /\ entry' = [ino |-> i, socket |-> TRUE, ours |-> TRUE] /\ listening' = i
                   /\ pc' = "capture" /\ entry = None
             \/ pc' = "down" /\ UNCHANGED <<entry, listening>>
      BY <1>4 DEF bind, Goto
    <2>2. CASE pc' = "down" /\ UNCHANGED <<entry, listening>>
      <3>1. PathTyped'
        BY <1>1, <2>1, <2>2 DEF PathInv, PathTyped, Steps, Closing
      <3> QED  BY <2>1, <2>2, <3>1 DEF PathInv, Owned
    <2>3. ASSUME NEW i \in FreeInodes, entry' = [ino |-> i, socket |-> TRUE, ours |-> TRUE],
                 listening' = i, pc' = "capture", entry = None
          PROVE  PathInv'
      <3>1. i \in Inodes
        BY DEF FreeInodes
      <3>2. entry' \in Entries
        BY <2>3, <3>1 DEF Entries
      <3>3. PathTyped'
        BY <1>1, <2>1, <2>3, <3>1, <3>2 DEF PathInv, PathTyped, Steps, Starting
      <3>4. entry'.ino = i /\ entry'.ours /\ entry'.socket
        BY <2>3
      <3> QED  BY <2>1, <2>3, <3>3, <3>4 DEF PathInv, Owned
    <2> QED  BY <2>1, <2>2, <2>3
  <1>5. CASE capture
    <2>1. /\ pc = "capture" /\ UNCHANGED <<entry, struck, broker>>
          /\ \/ bound' = entry.ino /\ pc' = "commands" /\ UNCHANGED listening
             \/ listening' = None /\ pc' = "down" /\ UNCHANGED bound
      BY <1>5 DEF capture, Goto
    <2>2. PathTyped'
      BY <1>1, <2>1 DEF PathInv, PathTyped, Steps, Starting, Closing
    <2> QED  BY <2>1, <2>2 DEF PathInv, Owned, Recorded
  <1>6. CASE commands \/ spawn \/ drop_set \/ serve \/ accept
    <2>1. pc \in Middle /\ pc' \in Middle /\ listening' \in {listening, None} /\ UNCHANGED <<entry, bound, struck>>
      BY <1>6 DEF commands, spawn, drop_set, serve, accept, Return, Close, Goto, path, Middle, Steps, Starting,
                  Alone, Closing, Talking
    <2>2. broker' \in [Brokers -> Fates]
      BY <1>1, <1>6 DEF commands, spawn, drop_set, serve, accept
    <2> QED  BY <1>1, <2>1, <2>2, PathKept
  <1>7. CASE check_path
    <2>1. /\ pc = "check_path" /\ pc' = (IF IsBound THEN "unlink" ELSE "close_listener")
          /\ UNCHANGED <<entry, listening, bound, struck, broker>>
      BY <1>7 DEF check_path, Goto, path
    <2>2. PathTyped'
      BY <1>1, <2>1 DEF PathInv, PathTyped, Steps, Closing
    <2> QED  BY <2>1, <2>2 DEF PathInv, Owned, Recorded, IsBound
  <1>8. CASE unlink
    <2>1. /\ pc = "unlink" /\ pc' = "close_listener" /\ entry' = None
          /\ struck' = IF entry.ours THEN struck
                       ELSE [ino |-> entry.ino, socket |-> entry.socket, open |-> listening # None]
          /\ UNCHANGED <<listening, bound, broker>>
      BY <1>8 DEF unlink, Goto
    <2>2. PathTyped'
      BY <1>1, <2>1 DEF PathInv, PathTyped, Steps, Closing
    <2>3. ~entry.ours => listening = None /\ entry.socket /\ entry.ino = bound
      BY <2>1 DEF PathInv, Owned, Recorded
    <2>4. struck' # None => ~struck'.open /\ struck'.socket /\ struck'.ino = bound
      BY <2>1, <2>3 DEF PathInv, Owned
    <2>5. Recorded'
      BY <2>1 DEF PathInv, Owned, Recorded
    <2> QED  BY <2>1, <2>2, <2>4, <2>5 DEF PathInv, Owned
  <1>9. CASE close_listener
    <2>1. /\ pc = "close_listener" /\ pc' = "down" /\ listening' = None
          /\ UNCHANGED <<entry, bound, struck, broker>>
      BY <1>9 DEF close_listener, Goto
    <2>2. PathTyped'
      BY <1>1, <2>1 DEF PathInv, PathTyped, Steps, Closing
    <2> QED  BY <2>1, <2>2 DEF PathInv, Owned
  <1>10. CASE Elsewhere
    <2>1. /\ pc \notin {"parse_config", "bind", "capture", "unlink", "down"} /\ pc' = pc
          /\ UNCHANGED <<listening, bound, struck, broker>>
          /\ \/ entry' = None
             \/ \E i \in FreeInodes, socket \in BOOLEAN :
                   entry' = [ino |-> i, socket |-> socket, ours |-> FALSE]
      BY <1>10 DEF Elsewhere
    <2>2. CASE entry' = None
      <3>1. PathTyped'
        BY <1>1, <2>1, <2>2 DEF PathInv, PathTyped
      <3>2. Recorded \/ pc = "down" => Recorded' \/ pc = "down"
        BY <2>1, <2>2 DEF Recorded
      <3> QED  BY <2>1, <2>2, <3>1, <3>2 DEF PathInv, Owned
    <2>3. ASSUME NEW i \in FreeInodes, NEW socket \in BOOLEAN,
                 entry' = [ino |-> i, socket |-> socket, ours |-> FALSE]
          PROVE  PathInv'
      <3>1. i \in Inodes /\ i # listening
        BY DEF FreeInodes
      <3>2. entry' \in Entries /\ entry'.ino = i /\ ~entry'.ours
        BY <2>3, <3>1 DEF Entries
      <3>3. PathTyped'
        BY <1>1, <2>1, <2>3, <3>1, <3>2 DEF PathInv, PathTyped
      <3>4. Recorded'
        BY <2>1, <3>1, <3>2 DEF PathInv, Owned, Recorded
      <3> QED  BY <2>1, <3>2, <3>3, <3>4 DEF PathInv, Owned
    <2> QED  BY <2>1, <2>2, <2>3
  <1>11. CASE watch \/ fill_buf \/ respond \/ reply \/ hang_up \/ next_broker \/ connect \/ exchange \/ judge
    <2>1. pc \in Middle /\ pc' \in Middle /\ listening' \in {listening, None} /\ UNCHANGED <<entry, bound, struck>>
      BY <1>11 DEF watch, fill_buf, respond, reply, hang_up, next_broker, connect, exchange, judge, Close, Reply,
                   Answered, Goto, path, Middle, Steps, Talking, Asking, Alone
    <2>2. broker' = broker
      BY <1>11 DEF watch, fill_buf, respond, reply, hang_up, next_broker, connect, exchange, judge
    <2> QED  BY <1>1, <2>1, <2>2, PathKept
  <1>12. CASE \E b \in Brokers : BrokerMoves(b)
    <2>1. broker' \in [Brokers -> Fates] /\ pc' = pc /\ UNCHANGED <<entry, listening, bound, struck>>
      BY <1>1, <1>12 DEF BrokerMoves, path
    <2> QED  BY <1>1, <2>1, PathKept
  <1>13. CASE \/ Connect \/ (\E kind \in Kinds : Begin(kind)) \/ Finish \/ Hangup
              \/ (\E b \in Brokers : BrokerAnswers(b)) \/ StreamEnds \/ Tick \/ note_shutdown \/ UNCHANGED vars
    <2>1. pc' = pc /\ UNCHANGED <<entry, listening, bound, struck, broker>>
      BY <1>13 DEF Connect, Begin, Finish, Hangup, BrokerAnswers, StreamEnds, Tick, note_shutdown, vars, path
    <2> QED  BY <1>1, <2>1, PathKept
  <1> QED  BY <1>2, <1>3, <1>4, <1>5, <1>6, <1>7, <1>8, <1>9, <1>10, <1>11, <1>12, <1>13

-----------------------------------------------------------------------------
(* The brokers.                                                             *)

LEMMA FleetStart == Init => Fleet
  BY DEF Init, Fleet, Starting, Closing, Talking, Asking, Spawned, Brokers

(* Nobody is spawned or dropped, and the daemon goes on among the places    *)
(* that say the same of its brokers.                                        *)
LEMMA FleetKept ==
    ASSUME Fleet, config' = config, broker' = broker,
           \/ pc' = pc
           \/ pc \in Starting /\ pc' \in Starting \cup {"spawn", "down", "check_path"}
           \/ pc \in Closing /\ pc' \in Closing
           \/ pc \in Talking \cup {"serve", "accept"} /\ pc' \in Talking \cup {"serve", "accept", "drop_set"}
    PROVE  Fleet'
  <1>1. Brokers' = Brokers /\ Spawned' = Spawned
    BY DEF Brokers, Spawned
  <1>2. /\ Starting \cap Closing = {} /\ Starting \cap (Talking \cup {"serve", "accept"}) = {}
        /\ Closing \cap (Talking \cup {"serve", "accept"}) = {}
        /\ "spawn" \notin Starting \cup Closing \cup Talking /\ "drop_set" \notin Starting \cup Closing \cup Talking
        /\ "check_path" \in Closing /\ "down" \in Closing
    BY DEF Starting, Closing, Talking, Asking
  <1>3. (pc' \in Starting => \A b \in Brokers : broker[b] = "none")
    BY <1>2 DEF Fleet
  <1>4. (pc' \in Closing => \A b \in Brokers : broker[b] \in {"none", "dropped"})
    BY <1>2 DEF Fleet
  <1>5. (pc' \in Talking \cup {"serve", "accept"} => Spawned = Brokers)
    BY <1>2 DEF Fleet
  <1> QED  BY <1>1, <1>3, <1>4, <1>5 DEF Fleet

LEMMA FleetStep == ASSUME PathTyped, Fleet, [Next]_vars PROVE Fleet'
  <1> DEFINE Fates == {"none", "starting", "serving", "failing", "stopped", "dropped"}
  <1>1. config' = config /\ Brokers' = Brokers /\ broker \in [Brokers -> Fates]
    BY SameConfig DEF Brokers, PathTyped
  <1>2. CASE parse_config \/ bind \/ capture \/ commands
    <2>1. pc \in Starting /\ pc' \in Starting \cup {"spawn", "down", "check_path"} /\ broker' = broker
      BY <1>2 DEF parse_config, bind, capture, commands, Goto, Starting
    <2> QED  BY <1>1, <2>1, FleetKept
  <1>3. CASE check_path \/ unlink \/ close_listener
    <2>1. pc \in Closing /\ pc' \in Closing /\ broker' = broker
      BY <1>3 DEF check_path, unlink, close_listener, Goto, Closing
    <2> QED  BY <1>1, <2>1, FleetKept
  <1>4. CASE serve \/ accept \/ watch \/ fill_buf \/ respond \/ reply \/ hang_up \/ next_broker \/ connect \/ exchange \/ judge
    <2>1. /\ pc \in Talking \cup {"serve", "accept"} /\ pc' \in Talking \cup {"serve", "accept", "drop_set"}
          /\ broker' = broker
      BY <1>4 DEF serve, accept, watch, fill_buf, respond, reply, hang_up, next_broker, connect, exchange, judge,
                  Close, Return, Reply, Answered, Goto, Talking, Asking
    <2> QED  BY <1>1, <2>1, FleetKept
  <1>5. CASE \/ Connect \/ (\E kind \in Kinds : Begin(kind)) \/ Finish \/ Hangup
             \/ (\E b \in Brokers : BrokerAnswers(b)) \/ StreamEnds \/ Tick \/ note_shutdown \/ Elsewhere
             \/ UNCHANGED vars
    <2>1. pc' = pc /\ broker' = broker
      BY <1>5 DEF Connect, Begin, Finish, Hangup, BrokerAnswers, StreamEnds, Tick, note_shutdown, Elsewhere, vars
    <2> QED  BY <1>1, <2>1, FleetKept
  <1>6. CASE spawn
    <2>1. pc = "spawn"
      BY <1>6 DEF spawn
    <2>2. CASE Spawned = Brokers
      <3>1. pc' = "serve" /\ broker' = broker /\ Spawned' = Brokers'
        BY <1>1, <1>6, <2>2 DEF spawn, Goto, Spawned
      <3>2. \A a, b \in Spawned' : config'.brokers[a].socket = config'.brokers[b].socket => a = b
        BY <1>1, <3>1 DEF Fleet, Spawned
      <3> QED  BY <3>1, <3>2 DEF Fleet, Starting, Closing
    <2>3. CASE Spawned # Brokers
      <3>1. PICK b \in Brokers \ Spawned :
               \/ ~DuplicateControlSocket(b) /\ broker' = [broker EXCEPT ![b] = "starting"] /\ pc' = pc
               \/ pc' = "drop_set" /\ broker' = broker
        BY <1>6, <2>3 DEF spawn, Goto
      <3>2. CASE ~DuplicateControlSocket(b) /\ broker' = [broker EXCEPT ![b] = "starting"] /\ pc' = pc
        <4>1. Spawned' = Spawned \cup {b}
          BY <1>1, <3>1, <3>2 DEF Spawned
        <4>2. \A other \in Spawned : config.brokers[other].socket # config.brokers[b].socket
          BY <3>2 DEF DuplicateControlSocket
        <4>3. \A a, d \in Spawned' : config'.brokers[a].socket = config'.brokers[d].socket => a = d
          BY <1>1, <4>1, <4>2 DEF Fleet
        <4> QED  BY <2>1, <3>2, <4>3 DEF Fleet, Starting, Closing, Talking, Asking
      <3>3. CASE pc' = "drop_set" /\ broker' = broker
        <4>1. Spawned' = Spawned
          BY <1>1, <3>3 DEF Spawned
        <4> QED  BY <1>1, <3>3, <4>1 DEF Fleet, Starting, Closing, Talking, Asking
      <3> QED  BY <3>1, <3>2, <3>3
    <2> QED  BY <2>2, <2>3
  <1>7. CASE drop_set
    <2>1. /\ pc = "drop_set"
          /\ \/ \E b \in Undropped : broker' = [broker EXCEPT ![b] = "dropped"] /\ pc' = pc
             \/ Undropped = {} /\ pc' = "check_path" /\ broker' = broker
      BY <1>7 DEF drop_set, Goto
    <2>2. ASSUME NEW b \in Undropped, broker' = [broker EXCEPT ![b] = "dropped"], pc' = pc PROVE Fleet'
      <3>1. b \in Spawned /\ b \in Brokers
        BY DEF Undropped, Spawned
      <3>2. Spawned' = Spawned
        BY <1>1, <2>2, <3>1 DEF Spawned
      <3> QED  BY <1>1, <2>1, <2>2, <3>2 DEF Fleet, Starting, Closing, Talking, Asking
    <2>3. CASE Undropped = {} /\ pc' = "check_path" /\ broker' = broker
      <3>1. Spawned' = Spawned /\ \A b \in Brokers : broker[b] \in {"none", "dropped"}
        BY <1>1, <2>3 DEF Spawned, Undropped
      <3> QED  BY <1>1, <2>3, <3>1 DEF Fleet, Starting, Closing, Talking, Asking
    <2> QED  BY <2>1, <2>2, <2>3
  <1>8. CASE \E b \in Brokers : BrokerMoves(b)
    <2>1. PICK b \in Brokers, f \in {"serving", "failing", "stopped"} :
             broker[b] \in {"starting", "serving", "failing"} /\ broker' = [broker EXCEPT ![b] = f] /\ pc' = pc
      BY <1>8 DEF BrokerMoves
    <2>2. Spawned' = Spawned
      BY <1>1, <2>1 DEF Spawned
    <2>3. pc \notin Starting \cup Closing
      BY <2>1 DEF Fleet
    <2> QED  BY <1>1, <2>1, <2>2, <2>3 DEF Fleet
  <1> QED  BY <1>2, <1>3, <1>4, <1>5, <1>6, <1>7, <1>8 DEF Next, Daemon

(* The inductive invariant of the teardown (run_with and BoundSocket's drop *)
(* of daemon.rs): the number recorded tells the daemon's own entry, and any *)
(* other from it while the listener is open; a place of the shutdown says   *)
(* who is still there.                                                      *)
THEOREM TeardownInvariant == Spec => [](PathInv /\ Fleet)
  <1>1. Init => PathInv /\ Fleet
    BY PathStart, FleetStart
  <1>2. PathInv /\ Fleet /\ [Next]_vars => (PathInv /\ Fleet)'
    BY PathStep, FleetStep DEF PathInv
  <1> QED  BY <1>1, <1>2, PTL DEF Spec

(* When run has returned, every broker it had spawned was dropped, the      *)
(* listener is closed and the daemon's socket is not at its name any more,  *)
(* unless the start could not look at it; what somebody else put there is   *)
(* left alone while the listener is open, and afterwards unless it is a     *)
(* socket with the number of the daemon's own (run_with, BoundSocket's      *)
(* drop), for any number of brokers and whichever way numbers are given out.*)
THEOREM ExactTeardown == Spec => []TeardownIsExact
  <1>1. PathInv /\ Fleet => TeardownIsExact
    BY DEF PathInv, Owned, Fleet, TeardownIsExact, Undropped, Spawned, Closing
  <1> QED  BY <1>1, TeardownInvariant, PTL

-----------------------------------------------------------------------------
(* A status.                                                                *)

HeardInv == PathTyped /\ Fleet /\ Heard

LEMMA TypedStep == ASSUME PathTyped, [Next]_vars PROVE PathTyped'
  <1> DEFINE Fates == {"none", "starting", "serving", "failing", "stopped", "dropped"}
  <1>1. /\ config' = config /\ Brokers' = Brokers /\ broker \in [Brokers -> Fates]
        /\ config.valid \in BOOLEAN
    BY SameConfig, ConfigShape DEF Brokers, PathTyped
  <1>2. pc' \in Steps
    <2>1. CASE parse_config \/ bind \/ capture \/ commands \/ spawn \/ drop_set \/ check_path \/ unlink \/ close_listener
      BY <1>1, <2>1 DEF parse_config, bind, capture, commands, spawn, drop_set, check_path, unlink, close_listener, Goto,
                        PathTyped, Steps, Starting, Closing, Alone
    <2>2. CASE serve \/ accept \/ watch \/ fill_buf \/ respond \/ reply \/ hang_up \/ next_broker \/ connect \/ exchange \/ judge
      BY <2>2 DEF serve, accept, watch, fill_buf, respond, reply, hang_up, next_broker, connect, exchange, judge,
                  Close, Return, Reply, Answered, Goto, Steps, Talking, Asking, Alone
    <2>3. CASE \/ Connect \/ (\E kind \in Kinds : Begin(kind)) \/ Finish \/ Hangup
               \/ (\E b \in Brokers : BrokerAnswers(b) \/ BrokerMoves(b)) \/ StreamEnds \/ Tick \/ note_shutdown
               \/ Elsewhere \/ UNCHANGED vars
      BY <2>3 DEF Connect, Begin, Finish, Hangup, BrokerAnswers, BrokerMoves, StreamEnds, Tick, note_shutdown,
                  Elsewhere, vars, PathTyped
    <2> QED  BY <2>1, <2>2, <2>3 DEF Next, Daemon
  <1>3. entry' \in Entries \cup {None}
    <2>1. CASE bind
      <3>1. CASE entry' = entry
        BY <3>1 DEF PathTyped
      <3>2. CASE entry' # entry
        <4>1. PICK i \in FreeInodes : entry' = [ino |-> i, socket |-> TRUE, ours |-> TRUE]
          BY <2>1, <3>2 DEF bind
        <4>2. i \in Inodes
          BY DEF FreeInodes
        <4> QED  BY <4>1, <4>2 DEF PathTyped, Entries
      <3> QED  BY <3>1, <3>2
    <2>2. CASE Elsewhere
      <3>1. CASE entry' = None
        BY <3>1 DEF PathTyped
      <3>2. CASE entry' # None
        <4>1. PICK i \in FreeInodes, socket \in BOOLEAN :
                 entry' = [ino |-> i, socket |-> socket, ours |-> FALSE]
          BY <2>2, <3>2 DEF Elsewhere
        <4>2. i \in Inodes
          BY DEF FreeInodes
        <4> QED  BY <4>1, <4>2 DEF PathTyped, Entries
      <3> QED  BY <3>1, <3>2
    <2>3. CASE unlink
      BY <2>3 DEF unlink, PathTyped
    <2>4. CASE ~bind /\ ~Elsewhere /\ ~unlink
      <3>1. entry' = entry
        BY <2>4 DEF Next, Daemon, parse_config, capture, commands, spawn, drop_set, check_path, close_listener, serve,
                    accept, watch, fill_buf, respond, reply, hang_up, next_broker, connect, exchange, judge, Connect,
                    Begin, Finish, Hangup, BrokerAnswers, BrokerMoves, StreamEnds, Tick, note_shutdown, vars, path
      <3> QED  BY <3>1 DEF PathTyped
    <2> QED  BY <2>1, <2>2, <2>3, <2>4
  <1>4. broker' \in [Brokers -> Fates]
    <2>1. CASE spawn
      BY <1>1, <2>1 DEF spawn
    <2>2. CASE drop_set
      BY <1>1, <2>2 DEF drop_set
    <2>3. CASE \E b \in Brokers : BrokerMoves(b)
      BY <1>1, <2>3 DEF BrokerMoves
    <2>4. CASE ~spawn /\ ~drop_set /\ ~\E b \in Brokers : BrokerMoves(b)
      <3>1. broker' = broker
        BY <2>4 DEF Next, Daemon, parse_config, bind, capture, commands, check_path, unlink, close_listener, serve,
                    accept, watch, fill_buf, respond, reply, hang_up, next_broker, connect, exchange, judge, Connect,
                    Begin, Finish, Hangup, BrokerAnswers, StreamEnds, Tick, note_shutdown, Elsewhere, vars
      <3> QED  BY <1>1, <3>1
    <2> QED  BY <2>1, <2>2, <2>3, <2>4
  <1> QED  BY <1>1, <1>2, <1>3, <1>4 DEF PathTyped

LEMMA HeardStart == Init => Heard
  BY DEF Init, Heard, Asking, ReadyIsTrue

(* Nothing of the status moves.                                             *)
LEMMA HeardKept ==
    ASSUME Heard, config' = config, pc' = pc, UNCHANGED status
    PROVE  Heard'
  BY DEF Heard, ReadyIsTrue, Brokers, status

(* No status is under way when the step is done, nor a verdict on one.      *)
LEMMA HeardOver ==
    ASSUME pc' \notin Asking, pc' = "reply" => verdict' # "serving"
    PROVE  Heard'
  BY DEF Heard, ReadyIsTrue, Asking

(* Who answers on a broker's own socket is that broker.                     *)
LEMMA OwnAnswer ==
    ASSUME Fleet, pc = "exchange", Heard, NEW b \in Behind
    PROVE  b = ask /\ b \in Brokers
  <1>1. ask \in Brokers /\ Spawned = Brokers
    BY DEF Heard, Fleet, Asking, Talking
  <1> QED  BY <1>1 DEF Fleet, Behind, Spawned

LEMMA HeardStep == ASSUME HeardInv, [Next]_vars PROVE Heard'
  <1>1. /\ config' = config /\ Brokers' = Brokers /\ PathTyped /\ Fleet /\ Heard
        /\ Len(config.brokers) \in Nat /\ Brokers = 1..Len(config.brokers)
    BY SameConfig, ConfigShape DEF Brokers, HeardInv, PathTyped
  <1>2. CASE parse_config \/ bind \/ capture \/ commands \/ spawn \/ drop_set \/ check_path \/ unlink \/ close_listener
             \/ serve \/ accept \/ watch \/ hang_up
    <2>1. pc' \notin Asking /\ pc' # "reply"
      BY <1>2 DEF parse_config, bind, capture, commands, spawn, drop_set, check_path, unlink, close_listener, serve,
                  accept, watch, hang_up, Close, Return, Goto, Asking
    <2> QED  BY <2>1, HeardOver
  <1>3. CASE fill_buf
    <2>1. pc' \notin Asking /\ (pc' = "reply" => verdict' = "too_long")
      BY <1>3 DEF fill_buf, Close, Reply, Goto, Asking
    <2> QED  BY <2>1, HeardOver
  <1>4. CASE respond
    <2>1. CASE pc' = "reply"
      BY <1>4, <2>1, HeardOver DEF respond, Reply, Goto, Asking
    <2>2. CASE pc' # "reply"
      <3>1. ask' = 1 /\ said' = {} /\ pc' = "next_broker"
        BY <1>4, <2>2 DEF respond, Reply, Goto
      <3>2. 1..(1 - 1) = {} /\ (Brokers # {} => 1 \in Brokers)
        BY <1>1
      <3> QED  BY <1>1, <3>1, <3>2 DEF Heard, Asking, ReadyIsTrue
    <2> QED  BY <2>1, <2>2
  <1>5. CASE reply
    <2>1. pc' \notin Asking /\ pc' # "reply"
      BY <1>5 DEF reply, Close, Goto, Asking
    <2> QED  BY <2>1, HeardOver
  <1>6. CASE next_broker
    <2>1. /\ pc = "next_broker" /\ UNCHANGED <<ask, late, said>>
          /\ \/ pc' = "hang_up" \/ (pc' = "reply" /\ verdict' \in {"empty", "deadline_spent"})
             \/ pc' = "connect" /\ Brokers # {}
      BY <1>6 DEF next_broker, Reply, Goto
    <2>2. CASE pc' = "connect" /\ Brokers # {}
      BY <1>1, <2>1, <2>2 DEF Heard, Asking, ReadyIsTrue
    <2> QED  BY <2>1, <2>2, HeardOver DEF Asking
  <1>7. CASE connect
    <2>1. /\ pc = "connect" /\ UNCHANGED <<ask, late, said>>
          /\ \/ pc' = "exchange" /\ stream' = "open"
             \/ pc' = "judge" /\ answer' = "NotReady"
      BY <1>7 DEF connect, Answered, Goto
    <2> QED  BY <1>1, <2>1 DEF Heard, Asking, ReadyIsTrue
  <1>8. CASE exchange
    <2>1. /\ pc = "exchange" /\ UNCHANGED <<ask, late, said>> /\ pc' = "judge"
          /\ answer' = "NotReady" \/ answer' = stream
      BY <1>8 DEF exchange, Answered, Goto
    <2> QED  BY <1>1, <2>1 DEF Heard, Asking, ReadyIsTrue
  <1>9. CASE judge
    <2>1. /\ pc = "judge" /\ UNCHANGED <<late, said>>
          /\ \/ pc' = "hang_up" \/ (pc' = "reply" /\ verdict' = "not_serving")
             \/ /\ ~late /\ answer = "Ready" /\ ask = Len(config.brokers) /\ pc' = "reply"
             \/ /\ ~late /\ answer = "Ready" /\ ask # Len(config.brokers) /\ ask' = ask + 1 /\ pc' = "next_broker"
      BY <1>9 DEF judge, remaining, Reply, Goto
    <2>2. /\ ask \in 1..Len(config.brokers) /\ said \subseteq Brokers /\ Brokers # {}
          /\ ~late /\ answer = "Ready" => ask \in said /\ \A b \in 1..(ask - 1) : b \in said
      BY <1>1, <2>1 DEF Heard, Asking
    <2>3. \A b \in 1..ask : b \in 1..(ask - 1) \/ b = ask
      BY <1>1, <2>2
    <2>4. CASE ~late /\ answer = "Ready" /\ ask = Len(config.brokers) /\ pc' = "reply"
      <3>1. said' = Brokers'
        BY <1>1, <2>1, <2>2, <2>3, <2>4
      <3> QED  BY <1>1, <2>2, <2>4, <3>1 DEF Heard, Asking, ReadyIsTrue
    <2>5. CASE ~late /\ answer = "Ready" /\ ask # Len(config.brokers) /\ ask' = ask + 1 /\ pc' = "next_broker"
      <3>1. ask + 1 \in 1..Len(config.brokers) /\ (ask + 1) - 1 = ask
        BY <1>1, <2>2, <2>5
      <3>2. \A b \in 1..(ask' - 1) : b \in said'
        BY <2>1, <2>2, <2>3, <2>5, <3>1
      <3>3. ask' \in Nat \ {0} /\ ask' \in Brokers' /\ said' \subseteq Brokers'
        BY <1>1, <2>1, <2>2, <2>5, <3>1
      <3> QED  BY <2>5, <3>2, <3>3 DEF Heard, Asking, ReadyIsTrue
    <2> QED  BY <2>1, <2>4, <2>5, HeardOver DEF Asking
  <1>10. CASE \/ Connect \/ (\E kind \in Kinds : Begin(kind)) \/ Finish \/ Hangup
              \/ (\E b \in Brokers : BrokerMoves(b)) \/ note_shutdown \/ Elsewhere \/ UNCHANGED vars
    <2>1. pc' = pc /\ UNCHANGED status
      BY <1>10 DEF Connect, Begin, Finish, Hangup, BrokerMoves, note_shutdown, Elsewhere, vars
    <2> QED  BY <1>1, <2>1, HeardKept
  <1>11. ASSUME NEW b \in Brokers, BrokerAnswers(b) PROVE Heard'
    <2>1. /\ pc = "exchange" /\ pc' = pc /\ UNCHANGED <<ask, late>>
          /\ \/ said' = (IF late THEN said ELSE said \cup {b})
             \/ stream' = "NotReady" /\ said' = said
      BY <1>11 DEF BrokerAnswers
    <2>2. b = ask
      BY <1>1, <1>11, <2>1, OwnAnswer DEF BrokerAnswers
    <2> QED  BY <1>1, <2>1, <2>2 DEF Heard, Asking, ReadyIsTrue
  <1>12. CASE StreamEnds
    BY <1>1, <1>12 DEF StreamEnds, Heard, Asking, ReadyIsTrue
  <1>13. CASE Tick
    BY <1>1, <1>13 DEF Tick, Heard, Asking, ReadyIsTrue
  <1> QED  BY <1>2, <1>3, <1>4, <1>5, <1>6, <1>7, <1>8, <1>9, <1>10, <1>11, <1>12, <1>13 DEF Next, Daemon

-----------------------------------------------------------------------------
(* A conversation.                                                          *)

LEMMA Rest ==
    ASSUME NEW S, NEW s \in Seq(S), s # <<>>
    PROVE  /\ Head(s) = s[1] /\ Head(s) \in S /\ Tail(s) \in Seq(S) /\ Len(Tail(s)) = Len(s) - 1 /\ Len(s) \in Nat \ {0}
           /\ \A i \in 1..(Len(s) - 1) : Tail(s)[i] = s[i + 1]
  OBVIOUS

LEMMA More ==
    ASSUME NEW S, NEW s \in Seq(S), NEW x \in S
    PROVE  /\ Append(s, x) \in Seq(S) /\ Len(Append(s, x)) = Len(s) + 1 /\ Append(s, x)[Len(s) + 1] = x
           /\ \A i \in 1..Len(s) : Append(s, x)[i] = s[i]
  OBVIOUS

LEMMA ConnTyped ==
    ASSUME NEW c \in Conns
    PROVE  /\ c.sent \in Seq(Requests) /\ c.inbox \in Seq(Pieces) /\ c.line \in Seq(Pieces)
           /\ c.replies \in Seq(Verdicts) /\ c.eof \in BOOLEAN
           /\ Len(c.sent) \in Nat /\ Len(c.inbox) \in Nat /\ Len(c.line) \in Nat /\ Len(c.replies) \in Nat
  BY DEF Conns, Requests

LEMMA Places ==
    /\ Asking \subseteq Talking /\ {"watch", "fill_buf", "respond", "reply", "hang_up"} \subseteq Talking
    /\ \A at \in Asking : at \notin {"watch", "fill_buf", "respond", "reply", "hang_up"}
    /\ \A at : at \notin Talking => at \notin Asking \cup {"watch", "fill_buf", "respond", "reply", "hang_up"}
  BY DEF Asking, Talking

(* The daemon goes on without touching the connection.                      *)
LEMMA FitsOn ==
    ASSUME NEW c, NEW at, NEW to, NEW v, NEW w, Fits(c, at, v),
           \/ at \notin Talking /\ to \notin Talking
           \/ at \notin Talking /\ to = "watch"
           \/ at \in {"watch", "fill_buf"} /\ to \in {"watch", "fill_buf"}
           \/ at \in Asking /\ to \in Asking
           \/ at \in Asking /\ to = "reply" /\ w \in Verdicts \ {"failure", "too_long"}
           \/ at \in Asking /\ to = "hang_up"
    PROVE  Fits(c, to, w)
  <1>1. /\ at \in Asking \/ at \notin Talking \/ at \in {"watch", "fill_buf"}
        /\ at # "hang_up" /\ at # "reply" /\ at # "respond" /\ ~Over(at, v)
    BY Places DEF Over
  <1>2. to \notin Talking => at \notin Talking
    BY Places
  <1>3. Replied(c, to)
    BY <1>1 DEF Fits, Replied
  <1>4. Current(c, to, w)
    <2>1. CASE to \in Asking
      BY <2>1, Places DEF Fits, Current
    <2>2. CASE to = "reply"
      BY <2>2, Places DEF Fits, Current, Matches
    <2>3. CASE to \notin Asking \cup {"reply"}
      BY <2>3 DEF Current
    <2> QED  BY <2>1, <2>2, <2>3
  <1>5. to # "hang_up" => Turn(c, to) = Turn(c, at)
    BY Places DEF Turn
  <1>6. to # "hang_up" => LineOf(c, to)
    <2>1. LineOf(c, at)
      BY <1>1 DEF Fits
    <2>2. at \in Asking \/ at \notin Talking => Len(c.line) = 0
      BY <2>1, Places DEF LineOf
    <2>3. at \in {"watch", "fill_buf"} => Len(c.line) < 2
      BY <2>1 DEF LineOf
    <2> QED  BY <2>2, <2>3, Places DEF LineOf
  <1> QED  BY <1>1, <1>2, <1>3, <1>4, <1>5, <1>6 DEF Fits, Over

(* A piece is taken from the stream.                                        *)
LEMMA FitsTaken ==
    ASSUME NEW c, NEW d, NEW v, Fits(c, "fill_buf", v), c.inbox # <<>>,
           d = [c EXCEPT !.inbox = Tail(c.inbox), !.line = Append(c.line, Head(c.inbox))]
    PROVE  /\ Head(c.inbox).kind = "long" => Fits(d, "reply", "too_long")
           /\ Head(c.inbox).kind # "long" /\ Head(c.inbox).last => Fits(d, "respond", v)
           /\ Head(c.inbox).kind # "long" /\ ~Head(c.inbox).last => Fits(d, "watch", v)
  <1> DEFINE p == Head(c.inbox)
             t == Len(c.replies)
             h == Len(c.line)
             n == Len(c.inbox)
  <1>1. c \in Conns
    BY DEF Fits
  <1>2. /\ c.sent \in Seq(Requests) /\ c.inbox \in Seq(Pieces) /\ c.line \in Seq(Pieces)
        /\ c.replies \in Seq(Verdicts) /\ t \in Nat /\ h \in Nat /\ n \in Nat /\ Len(c.sent) \in Nat
    BY <1>1, ConnTyped
  <1>3. /\ p = c.inbox[1] /\ p \in Pieces /\ Tail(c.inbox) \in Seq(Pieces) /\ Len(Tail(c.inbox)) = n - 1
        /\ n \in Nat \ {0} /\ \A i \in 1..(n - 1) : Tail(c.inbox)[i] = c.inbox[i + 1]
    BY <1>2, Rest
  <1>4. /\ Append(c.line, p) \in Seq(Pieces) /\ Len(Append(c.line, p)) = h + 1 /\ Append(c.line, p)[h + 1] = p
        /\ \A i \in 1..h : Append(c.line, p)[i] = c.line[i]
    BY <1>2, <1>3, More
  <1>5. /\ d \in Conns /\ d.sent = c.sent /\ d.replies = c.replies
        /\ d.inbox = Tail(c.inbox) /\ d.line = Append(c.line, p)
    BY <1>1, <1>3, <1>4 DEF Conns
  <1>6. Turn(c, "fill_buf") = t /\ Turn(d, "respond") = t /\ Turn(d, "watch") = t
    <2>1. \A x \in Nat : x + 0 = x
      OBVIOUS
    <2>2. {"fill_buf", "respond", "watch"} \cap (Asking \cup {"reply"}) = {}
      BY DEF Asking
    <2> HIDE DEF t
    <2>3. Turn(c, "fill_buf") = t + 0 /\ Turn(d, "respond") = t + 0 /\ Turn(d, "watch") = t + 0
      BY <1>5, <2>2 DEF Turn, t
    <2> QED  BY <1>2, <2>1, <2>3
  <1>7. Lined(c, t) /\ h < 2
    BY <1>6 DEF Fits, Over, LineOf
  <1>8. Nth(c, p, 2 * t + h + 1)
    <2>1. 1 \in 1..n
      BY <1>3
    <2> QED  BY <1>3, <1>7, <2>1 DEF Lined
  <1>9. /\ p.request = t + 1 /\ p.request \in 1..Len(c.sent) /\ p.kind = c.sent[t + 1].kind
        /\ p.last <=> h = 1
        /\ h \in {0, 1}
    <2>1. p.request \in Nat /\ p.last \in BOOLEAN
      BY <1>3 DEF Pieces
    <2>2. /\ p.request \in 1..Len(c.sent) /\ p.kind = c.sent[p.request].kind
          /\ p.last => 2 * t + h + 1 = 2 * p.request
          /\ ~p.last => 2 * t + h + 1 = 2 * p.request - 1
      BY <1>8 DEF Nth
    <2>3. h \in {0, 1}
      <3>1. \A x \in Nat : x < 2 => x \in {0, 1}
        OBVIOUS
      <3> QED  BY <1>2, <1>7, <3>1
    <2>4. \A r, x \in Nat : /\ 2 * x + 0 + 1 # 2 * r /\ (2 * x + 1 + 1 = 2 * r => r = x + 1)
                            /\ 2 * x + 1 + 1 # 2 * r - 1 /\ (2 * x + 0 + 1 = 2 * r - 1 => r = x + 1)
      OBVIOUS
    <2> HIDE DEF p, t, h, n
    <2>5. (p.last <=> h = 1) /\ p.request = t + 1
      <3>1. CASE h = 0
        BY <1>2, <2>1, <2>2, <2>4, <3>1
      <3>2. CASE h = 1
        BY <1>2, <2>1, <2>2, <2>4, <3>2
      <3> QED  BY <2>3, <3>1, <3>2
    <2> QED  BY <2>2, <2>3, <2>5
  <1> HIDE DEF p, t, h, n
  <1>10. \A n1 \in 1..Len(d.sent) : n1 < Len(d.sent) => d.sent[n1].whole
    BY <1>5 DEF Fits
  <1>11. \A at : Replied(d, at)
    <2>1. Replied(c, "fill_buf")
      BY DEF Fits
    <2> QED  BY <1>5, <2>1 DEF Replied
  <1>12. CASE p.kind = "long"
    <2>1. Current(d, "reply", "too_long")
      BY <1>5, <1>9, <1>12 DEF Current, Asking, Verdicts, Matches, t
    <2>2. "reply" \in Talking /\ Over("reply", "too_long")
      BY DEF Talking, Over
    <2>3. Fits(d, "reply", "too_long")
      BY <1>5, <1>10, <1>11, <2>1, <2>2 DEF Fits
    <2> QED  BY <1>12, <2>3 DEF p
  <1>13. CASE p.kind # "long"
    <2>1. Lined(d, t)
      <3>1. 2 * t + Len(d.line) + Len(d.inbox) = Total(d)
        <4>1. Total(d) = Total(c) /\ 2 * t + h + n = Total(c)
          BY <1>5, <1>7 DEF Total, Lined, h, n
        <4>2. \A a, b, e \in Nat : 2 * a + (b + 1) + (e - 1) = 2 * a + b + e
          OBVIOUS
        <4> QED  BY <1>2, <1>3, <1>4, <1>5, <4>1, <4>2
      <3>2. ASSUME NEW i \in 1..Len(d.inbox) PROVE Nth(d, d.inbox[i], 2 * t + Len(d.line) + i)
        <4>1. i \in 1..(n - 1) /\ d.inbox[i] = c.inbox[i + 1]
          BY <1>3, <1>5
        <4>2. \A a, b \in Nat, e \in Nat \ {0} : i \in 1..(e - 1) => i + 1 \in 1..e /\ 2 * a + b + (i + 1) = 2 * a + (b + 1) + i
          OBVIOUS
        <4>3. i + 1 \in 1..n /\ 2 * t + h + (i + 1) = 2 * t + (h + 1) + i
          BY <1>2, <1>3, <4>1, <4>2
        <4>4. Nth(c, c.inbox[i + 1], 2 * t + h + (i + 1))
          BY <1>7, <4>3 DEF Lined, h, n
        <4> QED  BY <1>4, <1>5, <4>1, <4>3, <4>4 DEF Nth
      <3>3. ASSUME NEW i \in 1..Len(d.line) PROVE Nth(d, d.line[i], 2 * t + i) /\ d.line[i].kind # "long"
        <4>1. i \in 1..h \/ i = h + 1
          BY <1>2, <1>4, <1>5
        <4>2. CASE i \in 1..h
          <5>1. Nth(c, c.line[i], 2 * t + i) /\ c.line[i].kind # "long"
            BY <1>7, <4>2 DEF Lined, h
          <5>2. d.line[i] = c.line[i]
            BY <1>4, <1>5, <4>2
          <5> QED  BY <1>5, <5>1, <5>2 DEF Nth
        <4>3. CASE i = h + 1
          <5>1. \A a, b \in Nat : 2 * a + (b + 1) = 2 * a + b + 1
            OBVIOUS
          <5>2. 2 * t + (h + 1) = 2 * t + h + 1 /\ d.line[i] = p
            BY <1>2, <1>4, <1>5, <4>3, <5>1
          <5> QED  BY <1>5, <1>8, <1>13, <4>3, <5>2 DEF Nth
        <4> QED  BY <4>1, <4>2, <4>3
      <3> QED  BY <3>1, <3>2, <3>3 DEF Lined
    <2>2. p.last => LineOf(d, "respond")
      BY <1>4, <1>5, <1>9 DEF LineOf
    <2>3. ~p.last => LineOf(d, "watch")
      BY <1>4, <1>5, <1>9 DEF LineOf
    <2>4. Current(d, "respond", v) /\ Current(d, "watch", v)
      BY DEF Current, Asking
    <2>5. "respond" \in Talking /\ "watch" \in Talking
      BY DEF Talking
    <2>6. p.last => Fits(d, "respond", v)
      BY <1>5, <1>6, <1>10, <1>11, <2>1, <2>2, <2>4, <2>5 DEF Fits
    <2>7. ~p.last => Fits(d, "watch", v)
      BY <1>5, <1>6, <1>10, <1>11, <2>1, <2>3, <2>4, <2>5 DEF Fits
    <2> QED  BY <1>13, <2>6, <2>7 DEF p
  <1> QED  BY <1>12, <1>13 DEF p

(* A whole line is one request, and is judged as what it is.                *)
LEMMA FitsJudged ==
    ASSUME NEW c, NEW d, NEW v, Fits(c, "respond", v), d = [c EXCEPT !.line = <<>>]
    PROVE  /\ Whole(c.line)
           /\ c.line[1].kind = "status" => Fits(d, "next_broker", v)
           /\ c.line[1].kind # "status" => Fits(d, "reply", "failure")
  <1> DEFINE t == Len(c.replies)
             n == Len(c.inbox)
  <1>1. c \in Conns
    BY DEF Fits
  <1>2. /\ c.line \in Seq(Pieces) /\ t \in Nat /\ n \in Nat /\ Len(c.sent) \in Nat
        /\ c.sent \in Seq(Requests) /\ c.inbox \in Seq(Pieces)
    BY <1>1, ConnTyped
  <1>3. /\ d \in Conns /\ d.sent = c.sent /\ d.replies = c.replies /\ d.inbox = c.inbox /\ d.line = <<>>
        /\ Len(d.line) = 0
    <2>1. <<>> \in Seq(Pieces) /\ Len(<<>>) = 0
      OBVIOUS
    <2>2. d \in Conns /\ d.sent = c.sent /\ d.replies = c.replies /\ d.inbox = c.inbox /\ d.line = <<>>
      BY <1>1, <2>1 DEF Conns
    <2> QED  BY <2>1, <2>2
  <1>4. Turn(c, "respond") = t /\ Turn(d, "next_broker") = t + 1 /\ Turn(d, "reply") = t + 1
    <2>1. \A x \in Nat : x + 0 = x
      OBVIOUS
    <2>2. "respond" \notin Asking \cup {"reply"} /\ "next_broker" \in Asking
      BY DEF Asking
    <2> HIDE DEF t
    <2>3. Turn(c, "respond") = t + 0 /\ Turn(d, "next_broker") = t + 1 /\ Turn(d, "reply") = t + 1
      BY <1>3, <2>2 DEF Turn, t
    <2> QED  BY <1>2, <2>1, <2>3
  <1>5. Lined(c, t) /\ Len(c.line) = 2
    BY <1>4 DEF Fits, Over, LineOf
  <1>6. ASSUME NEW i \in {1, 2}
        PROVE  /\ c.line[i].request = t + 1 /\ t + 1 \in 1..Len(c.sent)
               /\ c.line[i].kind = c.sent[t + 1].kind /\ c.line[i].kind \in Kinds \ {"long"}
    <2>1. i \in 1..Len(c.line)
      BY <1>5
    <2>2. Nth(c, c.line[i], 2 * t + i) /\ c.line[i].kind # "long" /\ c.line[i] \in Pieces
      BY <1>2, <1>5, <2>1 DEF Lined
    <2> DEFINE r == c.line[i].request
    <2>3. r \in Nat /\ c.line[i].kind \in Kinds
      BY <2>2 DEF Pieces
    <2>4. r \in 1..Len(c.sent) /\ c.line[i].kind = c.sent[r].kind /\ (2 * t + i = 2 * r \/ 2 * t + i = 2 * r - 1)
      BY <2>2 DEF Nth
    <2>5. \A x, y \in Nat : 2 * x + i = 2 * y \/ 2 * x + i = 2 * y - 1 => y = x + 1
      BY <1>6
    <2> HIDE DEF r, t
    <2>6. r = t + 1
      BY <1>2, <2>3, <2>4, <2>5
    <2> QED  BY <2>2, <2>3, <2>4, <2>6 DEF r
  <1> HIDE DEF t, n
  <1>7. Whole(c.line)
    BY <1>5, <1>6 DEF Whole
  <1>8. Lined(d, t + 1)
    <2>1. Total(d) = Total(c) /\ 2 * t + 2 + n = Total(c)
      BY <1>3, <1>5 DEF Total, Lined, n
    <2>2. \A a, b \in Nat : 2 * (a + 1) + 0 + b = 2 * a + 2 + b
      OBVIOUS
    <2>3. 2 * (t + 1) + Len(d.line) + Len(d.inbox) = Total(d)
      BY <1>2, <1>3, <2>1, <2>2 DEF n
    <2>4. ASSUME NEW i \in 1..Len(d.inbox) PROVE Nth(d, d.inbox[i], 2 * (t + 1) + Len(d.line) + i)
      <3>1. 2 * (t + 1) + 0 + i = 2 * t + 2 + i
        BY <1>2
      <3>2. Nth(c, c.inbox[i], 2 * t + 2 + i)
        BY <1>3, <1>5 DEF Lined
      <3> QED  BY <1>3, <3>1, <3>2 DEF Nth
    <2>5. 1..0 = {}
      OBVIOUS
    <2> QED  BY <1>3, <2>3, <2>4, <2>5 DEF Lined
  <1>9. \A i \in 1..Len(d.sent) : i < Len(d.sent) => d.sent[i].whole
    BY <1>3 DEF Fits
  <1>10. \A at : Replied(d, at)
    <2>1. Replied(c, "respond")
      BY DEF Fits
    <2> QED  BY <1>3, <2>1 DEF Replied
  <1>11. ASSUME c.line[1].kind = "status" PROVE Fits(d, "next_broker", v)
    <2>1. Current(d, "next_broker", v)
      BY <1>3, <1>6, <1>11 DEF Current, t
    <2>2. "next_broker" \in Talking /\ LineOf(d, "next_broker")
      BY <1>3 DEF Talking, Asking, LineOf
    <2> QED  BY <1>3, <1>4, <1>8, <1>9, <1>10, <2>1, <2>2 DEF Fits
  <1>12. ASSUME c.line[1].kind # "status" PROVE Fits(d, "reply", "failure")
    <2>1. c.sent[t + 1].kind = "broken" /\ t + 1 \in 1..Len(d.sent)
      BY <1>3, <1>6, <1>12 DEF Kinds
    <2>2. Current(d, "reply", "failure")
      BY <1>3, <2>1 DEF Current, Matches, Verdicts, Asking, t
    <2>3. "reply" \in Talking /\ LineOf(d, "reply")
      BY <1>3 DEF Talking, Asking, LineOf
    <2> QED  BY <1>3, <1>4, <1>8, <1>9, <1>10, <2>2, <2>3 DEF Fits
  <1> QED  BY <1>7, <1>11, <1>12

(* The reply is written.                                                    *)
LEMMA FitsReplied ==
    ASSUME NEW c, NEW d, NEW v, NEW w, Fits(c, "reply", v), d = [c EXCEPT !.replies = Append(c.replies, v)]
    PROVE  Fits(d, IF v = "too_long" THEN "hang_up" ELSE "watch", w)
  <1> DEFINE t == Len(c.replies)
             to == IF v = "too_long" THEN "hang_up" ELSE "watch"
  <1>1. c \in Conns /\ v \in Verdicts /\ t + 1 \in 1..Len(c.sent) /\ Matches(c.sent[t + 1].kind, v)
    BY DEF Fits, Current
  <1>2. c.replies \in Seq(Verdicts) /\ t \in Nat /\ Len(c.sent) \in Nat
    BY <1>1, ConnTyped
  <1>3. /\ Append(c.replies, v) \in Seq(Verdicts) /\ Len(Append(c.replies, v)) = t + 1
        /\ Append(c.replies, v)[t + 1] = v /\ \A i \in 1..t : Append(c.replies, v)[i] = c.replies[i]
    BY <1>1, <1>2, More
  <1>4. /\ d \in Conns /\ d.sent = c.sent /\ d.inbox = c.inbox /\ d.line = c.line
        /\ d.replies = Append(c.replies, v)
    BY <1>1, <1>3 DEF Conns
  <1>5. Replied(d, to)
    <2> SUFFICES ASSUME NEW i \in 1..Len(d.replies)
                 PROVE  /\ i \in 1..Len(d.sent) /\ Matches(d.sent[i].kind, d.replies[i])
                        /\ d.replies[i] = "too_long" => i = Len(d.replies) /\ to = "hang_up"
      BY DEF Replied
    <2>1. i \in 1..t \/ i = t + 1
      BY <1>2, <1>3, <1>4
    <2>2. CASE i \in 1..t
      BY <1>3, <1>4, <2>2 DEF Fits, Replied
    <2>3. CASE i = t + 1
      BY <1>1, <1>3, <1>4, <2>3
    <2> QED  BY <2>1, <2>2, <2>3
  <1>6. Current(d, to, w) /\ to \in Talking
    BY DEF Current, Asking, Talking
  <1>7. \A i \in 1..Len(d.sent) : i < Len(d.sent) => d.sent[i].whole
    BY <1>4 DEF Fits
  <1>8. ASSUME ~Over(to, w) PROVE Lined(d, Turn(d, to)) /\ LineOf(d, to)
    <2>1. v # "too_long" /\ to = "watch"
      BY <1>8 DEF Over
    <2>2. Lined(c, Turn(c, "reply")) /\ LineOf(c, "reply")
      BY <2>1 DEF Fits, Over
    <2>3. \A x \in Nat : (x + 1) + 0 = x + 1
      OBVIOUS
    <2>4. "watch" \notin Asking \cup {"reply"}
      BY DEF Asking
    <2> HIDE DEF t
    <2>5. Turn(c, "reply") = t + 1 /\ Turn(d, "watch") = (t + 1) + 0
      BY <1>3, <1>4, <2>4 DEF Turn, t
    <2>6. Turn(d, "watch") = t + 1
      BY <1>2, <2>3, <2>5
    <2>7. Lined(d, t + 1)
      BY <1>4, <2>2, <2>5, ZenonT(40) DEF Lined, Nth, Total
    <2>8. Len(d.line) = 0
      BY <1>4, <2>2 DEF LineOf
    <2> QED  BY <2>1, <2>6, <2>7, <2>8 DEF LineOf
  <1> QED  BY <1>4, <1>5, <1>6, <1>7, <1>8 DEF Fits

(* A piece is sent: the rest of c is as it was.                             *)
LEMMA FitsSent ==
    ASSUME NEW c, NEW d \in Conns, NEW at, NEW v, NEW piece \in Pieces, Fits(c, at, v),
           d.replies = c.replies, d.line = c.line, d.inbox = Append(c.inbox, piece),
           Len(c.sent) <= Len(d.sent),
           \A i \in 1..Len(c.sent) : d.sent[i].kind = c.sent[i].kind,
           \A i \in 1..Len(d.sent) : i < Len(d.sent) => d.sent[i].whole,
           Total(c) \in Nat, Total(d) = Total(c) + 1, Nth(d, piece, Total(c) + 1)
    PROVE  Fits(d, at, v)
  <1>1. c \in Conns
    BY DEF Fits
  <1>2. /\ c.inbox \in Seq(Pieces) /\ Len(c.inbox) \in Nat /\ Len(c.sent) \in Nat /\ Len(d.sent) \in Nat
        /\ Len(c.line) \in Nat /\ Len(c.replies) \in Nat
    BY <1>1, ConnTyped
  <1>3. /\ Len(d.inbox) = Len(c.inbox) + 1 /\ d.inbox[Len(c.inbox) + 1] = piece
        /\ \A i \in 1..Len(c.inbox) : d.inbox[i] = c.inbox[i]
    BY <1>2, More
  <1>4. \A i : i \in 1..Len(c.sent) => i \in 1..Len(d.sent)
    BY <1>2
  <1>5. \A p, m : Nth(c, p, m) => Nth(d, p, m)
    BY <1>4 DEF Nth
  <1>6. Replied(d, at)
    BY <1>4 DEF Fits, Replied
  <1>7. Current(d, at, v)
    BY <1>4 DEF Fits, Current
  <1>8. ASSUME ~Over(at, v) PROVE Lined(d, Turn(d, at)) /\ LineOf(d, at)
    <2> DEFINE t == Turn(c, at)
    <2>1. Lined(c, t) /\ LineOf(c, at)
      BY <1>8 DEF Fits
    <2>2. t \in Nat /\ Turn(d, at) = t
      <3>1. \A x \in Nat : x + 0 \in Nat /\ x + 1 \in Nat
        OBVIOUS
      <3>2. Turn(d, at) = Turn(c, at) /\ Turn(c, at) \in {Len(c.replies) + 0, Len(c.replies) + 1}
        BY DEF Turn
      <3> QED  BY <1>2, <3>1, <3>2
    <2> HIDE DEF t
    <2>3. 2 * t + Len(c.line) + Len(c.inbox) = Total(c)
      BY <2>1 DEF Lined
    <2>4. \A a, b, e \in Nat : 2 * a + b + (e + 1) = (2 * a + b + e) + 1
      OBVIOUS
    <2>5. 2 * t + Len(c.line) + (Len(c.inbox) + 1) = Total(c) + 1
      <3> DEFINE l == Len(c.line)
                 m == Len(c.inbox)
      <3>1. t \in Nat /\ l \in Nat /\ m \in Nat /\ 2 * t + l + m = Total(c)
        BY <1>2, <2>2, <2>3
      <3> HIDE DEF l, m
      <3>2. 2 * t + l + (m + 1) = Total(c) + 1
        BY <2>4, <3>1
      <3> QED  BY <3>2 DEF l, m
    <2>6. ASSUME NEW i \in 1..Len(d.inbox) PROVE Nth(d, d.inbox[i], 2 * t + Len(d.line) + i)
      <3>1. i \in 1..Len(c.inbox) \/ i = Len(c.inbox) + 1
        BY <1>2, <1>3
      <3>2. CASE i \in 1..Len(c.inbox)
        BY <1>3, <1>5, <2>1, <3>2 DEF Lined
      <3>3. CASE i = Len(c.inbox) + 1
        BY <1>3, <2>5, <3>3
      <3> QED  BY <3>1, <3>2, <3>3
    <2>7. \A i \in 1..Len(d.line) : Nth(d, d.line[i], 2 * t + i) /\ d.line[i].kind # "long"
      BY <1>5, <2>1 DEF Lined
    <2>8. Lined(d, t)
      BY <1>3, <2>5, <2>6, <2>7 DEF Lined
    <2> QED  BY <2>1, <2>2, <2>8 DEF LineOf
  <1> QED  BY <1>6, <1>7, <1>8 DEF Fits

(* The first piece of a request, and the rest of it.                        *)
LEMMA FitsBegun ==
    ASSUME NEW c, NEW d, NEW at, NEW v, NEW kind \in Kinds, Fits(c, at, v),
           c.sent # <<>> => c.sent[Len(c.sent)].whole,
           d = [c EXCEPT !.sent = Append(c.sent, [kind |-> kind, whole |-> FALSE]),
                         !.inbox = Append(c.inbox, [request |-> Len(c.sent) + 1, kind |-> kind, last |-> FALSE])]
    PROVE  Fits(d, at, v)
  <1> DEFINE n == Len(c.sent)
             new == [kind |-> kind, whole |-> FALSE]
             piece == [request |-> n + 1, kind |-> kind, last |-> FALSE]
  <1>1. c \in Conns
    BY DEF Fits
  <1>2. c.sent \in Seq(Requests) /\ c.inbox \in Seq(Pieces) /\ n \in Nat
    BY <1>1, ConnTyped
  <1>3. new \in Requests
    BY DEF Requests
  <1>4. piece \in Pieces
    BY <1>2 DEF Pieces
  <1>5. /\ Append(c.sent, new) \in Seq(Requests) /\ Len(Append(c.sent, new)) = n + 1
        /\ Append(c.sent, new)[n + 1] = new /\ \A i \in 1..n : Append(c.sent, new)[i] = c.sent[i]
    BY <1>2, <1>3, More
  <1>6. Append(c.inbox, piece) \in Seq(Pieces)
    BY <1>2, <1>4, More
  <1>7. /\ d \in Conns /\ d.sent = Append(c.sent, new) /\ d.inbox = Append(c.inbox, piece)
        /\ d.replies = c.replies /\ d.line = c.line
    BY <1>1, <1>5, <1>6 DEF Conns, Requests
  <1> HIDE DEF n, new, piece
  <1>8. Len(d.sent) = n + 1 /\ n <= n + 1 /\ Len(d.sent) # 0 /\ d.sent # <<>> /\ ~d.sent[n + 1].whole
    <2>1. Len(d.sent) = n + 1 /\ d.sent[n + 1] = new /\ ~new.whole
      BY <1>5, <1>7 DEF new
    <2>2. n <= n + 1 /\ n + 1 # 0
      BY <1>2
    <2> QED  BY <2>1, <2>2
  <1>9. Total(c) = 2 * n /\ Total(d) = 2 * (n + 1) - 1
    BY <1>8 DEF Total, n
  <1>10. Total(c) \in Nat /\ Total(d) = Total(c) + 1 /\ 2 * (n + 1) - 1 = Total(c) + 1
    BY <1>2, <1>9
  <1>11. \A i \in 1..n : d.sent[i].kind = c.sent[i].kind
    BY <1>5, <1>7
  <1>12. ASSUME NEW i \in 1..Len(d.sent), i < Len(d.sent) PROVE d.sent[i].whole
    <2>1. i \in 1..n /\ (i < n \/ i = n)
      BY <1>2, <1>8, <1>12
    <2>2. n # 0 => c.sent # <<>>
      BY DEF n
    <2>3. c.sent[i].whole
      BY <2>1, <2>2 DEF Fits, n
    <2> QED  BY <1>5, <1>7, <2>1, <2>3
  <1>13. Nth(d, piece, Total(c) + 1)
    <2>1. piece.request = n + 1 /\ piece.kind = kind /\ piece.last = FALSE
      BY DEF piece
    <2>2. d.sent[n + 1].kind = kind /\ n + 1 \in 1..Len(d.sent)
      BY <1>2, <1>5, <1>7, <1>8 DEF new
    <2> QED  BY <1>10, <2>1, <2>2 DEF Nth
  <1> QED  BY <1>4, <1>7, <1>8, <1>10, <1>11, <1>12, <1>13, FitsSent DEF n

LEMMA FitsFinished ==
    ASSUME NEW c, NEW d, NEW at, NEW v, Fits(c, at, v), c.sent # <<>>, ~c.sent[Len(c.sent)].whole,
           d = [c EXCEPT !.sent[Len(c.sent)].whole = TRUE,
                         !.inbox = Append(c.inbox, [request |-> Len(c.sent), kind |-> c.sent[Len(c.sent)].kind,
                                                    last |-> TRUE])]
    PROVE  Fits(d, at, v)
  <1> DEFINE n == Len(c.sent)
             done == [c.sent EXCEPT ![n].whole = TRUE]
             piece == [request |-> n, kind |-> c.sent[n].kind, last |-> TRUE]
  <1>1. c \in Conns
    BY DEF Fits
  <1>2. c.sent \in Seq(Requests) /\ c.inbox \in Seq(Pieces) /\ n \in Nat \ {0} /\ n \in 1..n
    <2>1. c.sent \in Seq(Requests) /\ c.inbox \in Seq(Pieces)
      BY <1>1, ConnTyped
    <2> QED  BY <2>1, Rest
  <1>3. c.sent[n] \in Requests /\ c.sent[n].kind \in Kinds
    <2>1. c.sent[n] \in Requests
      BY <1>2
    <2> QED  BY <2>1 DEF Requests
  <1>4. piece \in Pieces
    BY <1>2, <1>3 DEF Pieces
  <1>5. /\ done \in Seq(Requests) /\ Len(done) = n
        /\ \A i \in 1..n : done[i].kind = c.sent[i].kind /\ (done[i].whole = IF i = n THEN TRUE ELSE c.sent[i].whole)
    <2>1. [c.sent[n] EXCEPT !.whole = TRUE] \in Requests
      BY <1>3 DEF Requests
    <2>2. done \in Seq(Requests) /\ Len(done) = n
      BY <1>2, <2>1
    <2>3. \A i \in 1..n : c.sent[i] \in Requests
      BY <1>2
    <2>4. done[n] = [c.sent[n] EXCEPT !.whole = TRUE] /\ \A i \in 1..n : i # n => done[i] = c.sent[i]
      BY <1>2
    <2>5. done[n].kind = c.sent[n].kind /\ done[n].whole = TRUE
      BY <1>3, <2>4 DEF Requests
    <2> HIDE DEF done, n
    <2> QED  BY <2>2, <2>4, <2>5
  <1>6. Append(c.inbox, piece) \in Seq(Pieces)
    BY <1>2, <1>4, More
  <1>7. /\ d \in Conns /\ d.sent = done /\ d.inbox = Append(c.inbox, piece)
        /\ d.replies = c.replies /\ d.line = c.line
    BY <1>1, <1>5, <1>6 DEF Conns, Requests
  <1> HIDE DEF n, done, piece
  <1>8. /\ Len(d.sent) = n /\ d.sent[n].whole
        /\ \A i \in 1..n : d.sent[i].kind = c.sent[i].kind
    BY <1>2, <1>5, <1>7
  <1>9. Total(c) = 2 * n - 1 /\ Total(d) = 2 * n
    BY <1>8 DEF Total, n
  <1>10. Total(c) \in Nat /\ Total(d) = Total(c) + 1 /\ 2 * n = Total(c) + 1 /\ n <= n
    BY <1>2, <1>9
  <1>11. \A i \in 1..Len(d.sent) : i < Len(d.sent) => d.sent[i].whole
    BY <1>5, <1>7, <1>8 DEF Fits, n
  <1>12. Nth(d, piece, Total(c) + 1)
    <2>1. piece.request = n /\ piece.kind = c.sent[n].kind /\ piece.last = TRUE
      BY DEF piece
    <2> QED  BY <1>2, <1>8, <1>10, <2>1 DEF Nth
  <1> QED  BY <1>4, <1>7, <1>8, <1>10, <1>11, <1>12, FitsSent DEF n

LEMMA FitsHungUp ==
    ASSUME NEW c, NEW d, NEW at, NEW v, Fits(c, at, v), d = [c EXCEPT !.eof = TRUE]
    PROVE  Fits(d, at, v)
  <1>1. c \in Conns
    BY DEF Fits
  <1>2. d \in Conns /\ d.sent = c.sent /\ d.replies = c.replies /\ d.line = c.line /\ d.inbox = c.inbox
    BY <1>1 DEF Conns
  <1>3. Replied(d, at) /\ Current(d, at, v)
    BY <1>2 DEF Fits, Replied, Current
  <1>4. /\ Turn(d, at) = Turn(c, at) /\ Total(d) = Total(c) /\ LineOf(d, at) = LineOf(c, at)
        /\ \A piece, m : Nth(c, piece, m) => Nth(d, piece, m)
    BY <1>2 DEF Turn, Total, LineOf, Nth
  <1>5. Lined(c, Turn(c, at)) => Lined(d, Turn(d, at))
    BY <1>2, <1>4 DEF Lined
  <1> QED  BY <1>2, <1>3, <1>4, <1>5 DEF Fits

LEMMA FitsNew ==
    ASSUME NEW at, NEW v, at \notin Talking
    PROVE  Fits([sent |-> << >>, inbox |-> << >>, line |-> << >>, replies |-> << >>, eof |-> FALSE], at, v)
  <1> DEFINE c == [sent |-> << >>, inbox |-> << >>, line |-> << >>, replies |-> << >>, eof |-> FALSE]
  <1>1. c \in Conns /\ Len(c.sent) = 0 /\ Len(c.inbox) = 0 /\ Len(c.line) = 0 /\ Len(c.replies) = 0 /\ c.sent = <<>>
        /\ c.replies = <<>>
    BY DEF Conns
  <1> HIDE DEF c
  <1>2. at \notin Asking \cup {"watch", "fill_buf", "respond", "reply", "hang_up"}
    BY Places
  <1>3. Turn(c, at) = 0 /\ Total(c) = 0 /\ LineOf(c, at)
    BY <1>1, <1>2 DEF Turn, Total, LineOf
  <1>4. 1..0 = {}
    OBVIOUS
  <1>5. Replied(c, at) /\ Current(c, at, v)
    BY <1>1, <1>2, <1>4 DEF Replied, Current
  <1>6. Lined(c, Turn(c, at))
    BY <1>1, <1>3, <1>4 DEF Lined
  <1>7. Fits(c, at, v)
    BY <1>1, <1>3, <1>4, <1>5, <1>6 DEF Fits
  <1> QED  BY <1>7 DEF c

LEMMA SpokenStart == Init => Spoken
  BY DEF Init, Spoken, Talking, Asking

LEMMA Answering == Spoken /\ pc \in Talking => conn # None /\ Fits(conn, pc, verdict)
  <1>1. Spoken /\ pc \in Talking => conn \in Conns /\ Fits(conn, pc, verdict)
    BY DEF Spoken, Fits
  <1> QED  BY <1>1, MembraneAssumption

LEMMA SpokenStep == ASSUME Spoken, [Next]_vars PROVE Spoken'
  <1>1. CASE parse_config \/ bind \/ capture \/ commands \/ spawn \/ drop_set \/ check_path \/ unlink \/ close_listener
    <2>1. pc \notin Talking /\ pc' \notin Talking /\ conn' = conn
      BY <1>1 DEF parse_config, bind, capture, commands, spawn, drop_set, check_path, unlink, close_listener, Goto,
                  Talking, Asking, client
    <2>2. conn # None => Fits(conn, pc', verdict')
      BY <2>1, FitsOn DEF Spoken
    <2> QED  BY <2>1, <2>2 DEF Spoken
  <1>2. CASE serve \/ accept
    <2>1. /\ pc \notin Talking
          /\ \/ conn' = None /\ pc' \notin Talking
             \/ conn' = conn /\ pc' \notin Talking
             \/ conn' = conn /\ pc' = "watch" /\ conn # None
      BY <1>2 DEF serve, accept, Return, Close, Goto, Talking, Asking
    <2>2. conn # None /\ (pc' \notin Talking \/ pc' = "watch") => Fits(conn, pc', verdict')
      BY <2>1, FitsOn DEF Spoken
    <2> QED  BY <2>1, <2>2 DEF Spoken
  <1>3. ASSUME pc' = "serve", conn' = None PROVE Spoken'
    BY <1>3 DEF Spoken, Talking, Asking
  <1>4. CASE watch
    <2>1. /\ pc = "watch" /\ Fits(conn, pc, verdict)
          /\ \/ pc' = "serve" /\ conn' = None
             \/ pc' = "fill_buf" /\ conn' = conn
      BY <1>4, Answering DEF watch, Close, Goto, Talking
    <2>2. CASE pc' = "fill_buf" /\ conn' = conn
      <3>1. Fits(conn, "fill_buf", verdict')
        BY <2>1, FitsOn
      <3> QED  BY <2>2, <3>1 DEF Spoken
    <2> QED  BY <1>3, <2>1, <2>2
  <1>5. CASE fill_buf
    <2>1. pc = "fill_buf" /\ Fits(conn, "fill_buf", verdict)
      BY <1>5, Answering DEF fill_buf, Talking
    <2>2. \/ pc' = "watch" /\ conn' = conn
          \/ pc' = "serve" /\ conn' = None
          \/ /\ conn.inbox # <<>>
             /\ conn' = [conn EXCEPT !.inbox = Tail(conn.inbox), !.line = Append(conn.line, Head(conn.inbox))]
             /\ \/ Head(conn.inbox).kind = "long" /\ verdict' = "too_long" /\ pc' = "reply"
                \/ /\ Head(conn.inbox).kind # "long" /\ verdict' = verdict
                   /\ pc' = (IF Head(conn.inbox).last THEN "respond" ELSE "watch")
      BY <1>5 DEF fill_buf, Close, Reply, Goto
    <2>3. CASE pc' = "watch" /\ conn' = conn
      <3>1. Fits(conn, "watch", verdict')
        BY <2>1, FitsOn
      <3> QED  BY <2>3, <3>1 DEF Spoken
    <2>4. CASE pc' = "serve" /\ conn' = None
      BY <1>3, <2>4
    <2>5. ASSUME conn.inbox # <<>>,
                 conn' = [conn EXCEPT !.inbox = Tail(conn.inbox), !.line = Append(conn.line, Head(conn.inbox))],
                 \/ Head(conn.inbox).kind = "long" /\ verdict' = "too_long" /\ pc' = "reply"
                 \/ /\ Head(conn.inbox).kind # "long" /\ verdict' = verdict
                    /\ pc' = (IF Head(conn.inbox).last THEN "respond" ELSE "watch")
          PROVE  Spoken'
      <3>1. /\ Head(conn.inbox).kind = "long" => Fits(conn', "reply", "too_long")
            /\ Head(conn.inbox).kind # "long" /\ Head(conn.inbox).last => Fits(conn', "respond", verdict)
            /\ Head(conn.inbox).kind # "long" /\ ~Head(conn.inbox).last => Fits(conn', "watch", verdict)
        BY <2>1, <2>5, FitsTaken
      <3>2. Fits(conn', pc', verdict')
        BY <2>5, <3>1
      <3> QED  BY <3>2 DEF Spoken
    <2> QED  BY <2>2, <2>3, <2>4, <2>5
  <1>6. CASE respond
    <2>1. pc = "respond" /\ Fits(conn, "respond", verdict) /\ conn' = [conn EXCEPT !.line = << >>]
      BY <1>6, Answering DEF respond, Talking
    <2>2. /\ Whole(conn.line)
          /\ conn.line[1].kind = "status" => Fits(conn', "next_broker", verdict)
          /\ conn.line[1].kind # "status" => Fits(conn', "reply", "failure")
      BY <2>1, FitsJudged
    <2>3. \/ conn.line[1].kind = "status" /\ pc' = "next_broker" /\ verdict' = verdict
          \/ conn.line[1].kind # "status" /\ pc' = "reply" /\ verdict' = "failure"
      BY <1>6, <2>2 DEF respond, Reply, Goto
    <2>4. Fits(conn', pc', verdict')
      BY <2>2, <2>3
    <2> QED  BY <2>4 DEF Spoken
  <1>7. CASE reply
    <2>1. pc = "reply" /\ Fits(conn, "reply", verdict)
      BY <1>7, Answering DEF reply, Talking
    <2>2. \/ pc' = "serve" /\ conn' = None
          \/ /\ conn' = [conn EXCEPT !.replies = Append(conn.replies, verdict)]
             /\ pc' = (IF verdict = "too_long" THEN "hang_up" ELSE "watch")
      BY <1>7 DEF reply, Close, Goto
    <2>3. ASSUME conn' = [conn EXCEPT !.replies = Append(conn.replies, verdict)],
                 pc' = (IF verdict = "too_long" THEN "hang_up" ELSE "watch")
          PROVE  Spoken'
      <3>1. Fits(conn', pc', verdict')
        BY <2>1, <2>3, FitsReplied
      <3> QED  BY <3>1 DEF Spoken
    <2> QED  BY <1>3, <2>2, <2>3
  <1>8. CASE hang_up
    BY <1>3, <1>8 DEF hang_up, Close, Goto
  <1>9. CASE next_broker \/ connect \/ exchange \/ judge
    <2>1. /\ pc \in Asking /\ conn' = conn
          /\ \/ pc' \in Asking \/ pc' = "hang_up"
             \/ pc' = "reply" /\ verdict' \in {"empty", "deadline_spent", "not_serving", "serving"}
      BY <1>9 DEF next_broker, connect, exchange, judge, Reply, Answered, Goto, Asking, client
    <2>2. Fits(conn, pc, verdict)
      BY <2>1, Answering DEF Talking
    <2>3. {"empty", "deadline_spent", "not_serving", "serving"} \subseteq Verdicts \ {"failure", "too_long"}
      BY DEF Verdicts
    <2>4. Fits(conn, pc', verdict')
      BY <2>1, <2>2, <2>3, FitsOn
    <2> QED  BY <2>1, <2>4 DEF Spoken
  <1>10. CASE Connect
    <2>1. /\ pc' = pc /\ conn = None
          /\ conn' = [sent |-> << >>, inbox |-> << >>, line |-> << >>, replies |-> << >>, eof |-> FALSE]
      BY <1>10 DEF Connect
    <2>2. pc \notin Talking
      BY <2>1, Answering
    <2>3. Fits(conn', pc', verdict')
      BY <2>1, <2>2, FitsNew
    <2> QED  BY <2>3 DEF Spoken
  <1>11. ASSUME NEW kind \in Kinds, Begin(kind) PROVE Spoken'
    <2>1. /\ conn # None /\ pc' = pc /\ verdict' = verdict /\ (conn.sent # << >> => conn.sent[Len(conn.sent)].whole)
          /\ conn' = [conn EXCEPT !.sent = Append(conn.sent, [kind |-> kind, whole |-> FALSE]),
                        !.inbox = Append(conn.inbox, [request |-> Len(conn.sent) + 1, kind |-> kind, last |-> FALSE])]
      BY <1>11 DEF Begin, status
    <2>2. Fits(conn', pc, verdict)
      BY <2>1, FitsBegun DEF Spoken
    <2> QED  BY <2>1, <2>2 DEF Spoken
  <1>12. CASE Finish
    <2>1. /\ conn # None /\ pc' = pc /\ verdict' = verdict /\ conn.sent # << >> /\ ~conn.sent[Len(conn.sent)].whole
          /\ conn' = [conn EXCEPT !.sent[Len(conn.sent)].whole = TRUE,
                        !.inbox = Append(conn.inbox, [request |-> Len(conn.sent),
                                                      kind |-> conn.sent[Len(conn.sent)].kind, last |-> TRUE])]
      BY <1>12 DEF Finish, status
    <2>2. Fits(conn', pc, verdict)
      BY <2>1, FitsFinished DEF Spoken
    <2> QED  BY <2>1, <2>2 DEF Spoken
  <1>13. CASE Hangup
    <2>1. conn # None /\ pc' = pc /\ verdict' = verdict /\ conn' = [conn EXCEPT !.eof = TRUE]
      BY <1>13 DEF Hangup, status
    <2>2. Fits(conn', pc, verdict)
      BY <2>1, FitsHungUp DEF Spoken
    <2> QED  BY <2>1, <2>2 DEF Spoken
  <1>14. CASE \/ (\E b \in Brokers : BrokerMoves(b) \/ BrokerAnswers(b)) \/ StreamEnds \/ Tick \/ note_shutdown
              \/ Elsewhere \/ UNCHANGED vars
    <2>1. UNCHANGED <<pc, conn, verdict>>
      BY <1>14 DEF BrokerMoves, BrokerAnswers, StreamEnds, Tick, note_shutdown, Elsewhere, vars, client, status
    <2> QED  BY <2>1 DEF Spoken
  <1> QED  BY <1>1, <1>2, <1>4, <1>5, <1>6, <1>7, <1>8, <1>9, <1>10, <1>11, <1>12, <1>13, <1>14 DEF Next, Daemon

(* The inductive invariant of a conversation (converse, status_with): what  *)
(* has been heard of each broker in the status under way, and how the       *)
(* pieces a client sent are spread over replies, line and stream.           *)
THEOREM AnswersInvariant == Spec => [](HeardInv /\ Spoken)
  <1>1. Init => HeardInv /\ Spoken
    BY PathStart, FleetStart, HeardStart, SpokenStart DEF HeardInv, PathInv
  <1>2. HeardInv /\ Spoken /\ [Next]_vars => (HeardInv /\ Spoken)'
    BY TypedStep, FleetStep, HeardStep, SpokenStep DEF HeardInv
  <1> QED  BY <1>1, <1>2, PTL DEF Spec

(* A status says "serving" only when every broker said so on its own        *)
(* socket, since it was asked and in time, and the n-th reply of a          *)
(* connection is to its n-th request (converse, read_request, status_with), *)
(* for any number of brokers, requests and connections.                     *)
THEOREM TrueAnswers == Spec => []AnswersAreTrue
  <1>1. HeardInv /\ Spoken => AnswersAreTrue
    <2> SUFFICES ASSUME HeardInv, Spoken PROVE AnswersInOrder
      BY DEF AnswersAreTrue, HeardInv, Heard
    <2> SUFFICES ASSUME conn # None, NEW n \in DOMAIN conn.replies
                 PROVE  /\ n \in DOMAIN conn.sent
                        /\ conn.sent[n].kind = "broken" <=> conn.replies[n] = "failure"
                        /\ conn.sent[n].kind = "long" <=> conn.replies[n] = "too_long"
                        /\ conn.replies[n] = "too_long" => n = Len(conn.replies)
      BY DEF AnswersInOrder
    <2>1. conn \in Conns /\ Replied(conn, pc)
      BY DEF Spoken, Fits
    <2>2. DOMAIN conn.replies = 1..Len(conn.replies) /\ DOMAIN conn.sent = 1..Len(conn.sent)
      BY <2>1, ConnTyped
    <2> QED  BY <2>1, <2>2 DEF Replied, Matches
  <1> QED  BY <1>1, AnswersInvariant, PTL
=============================================================================
