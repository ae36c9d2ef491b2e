--------------------------- MODULE ControllerDaemon ---------------------------
(* The controller daemon: run, serve and converse of                        *)
(* plasmosome-core/src/daemon.rs and serve_connection of control.rs, on the  *)
(* private socket of PrivateSocket.  One connection is served at a time; a   *)
(* request line is known by its kind, a reply by the line it answers and the *)
(* code it carries.                                                          *)
EXTENDS PrivateSocket, Integers, Sequences

CONSTANTS
    Clients,    \* programs that connect once
    Foreign,    \* those whose UID is not the daemon's
    Lines,      \* the kinds of line they send
    MaxLines    \* bound: lines each client sends

LineKinds == {"too_long", "not_utf8", "not_json", "not_object", "bad_request",
              "unknown_method", "bad_params", "other_instance", "status", "loop_owned", "panics"}

ASSUME ControllerAssumption ==
    /\ Foreign \subseteq Clients /\ None \notin Clients
    /\ Lines \subseteq LineKinds
    /\ MaxLines \in [Clients -> Nat]

VARIABLES
    stop,       \* the shutdown flag of each daemon
    phase,      \* each client's connection: "none", "queued", "served", "closed"
    server,     \* the socket it connected to
    sent,       \* the lines it has sent
    inbox,      \* those in the stream, unread
    ended,      \* whether it has ended its stream
    got,        \* the replies it was sent
    talking,    \* the client each daemon converses with
    buffer      \* its reader's buffer

clientVars == <<phase, server, sent, inbox, ended, got>>
talkVars == <<talking, buffer>>
vars == <<socketVars, stop, clientVars, talkVars>>

Init ==
    /\ SocketInit
    /\ stop = [p \in Processes |-> FALSE]
    /\ phase \in [Clients -> {"none", "closed"}]
    /\ server = [c \in Clients |-> None]
    /\ sent = [c \in Clients |-> <<>>]
    /\ inbox = [c \in Clients |-> <<>>]
    /\ ended = [c \in Clients |-> FALSE]
    /\ got = [c \in Clients |-> <<>>]
    /\ talking = [p \in Processes |-> None]
    /\ buffer = [p \in Processes |-> <<>>]

Keep == UNCHANGED <<path, entries, restricted, started, held, bound, draws, rechecked, moves>>

(* The connections of a socket that is closed, or of a process that died.   *)
HangUp(p) ==
    /\ phase' = [c \in Clients |->
                    IF server[c] = Socket(p) /\ phase[c] # "none" THEN "closed" ELSE phase[c]]
    /\ talking' = [talking EXCEPT ![p] = None]
    /\ buffer' = [buffer EXCEPT ![p] = <<>>]
    /\ UNCHANGED <<server, sent, inbox, ended, got>>

(* The conversation ends; both copies of the stream are closed.             *)
End(p) ==
    /\ phase' = [phase EXCEPT ![talking[p]] = "closed"]
    /\ talking' = [talking EXCEPT ![p] = None]
    /\ buffer' = [buffer EXCEPT ![p] = <<>>]

----------------------------------------------------------------------------
(* run: the socket is published first, and whatever ends the daemon closes  *)
(* it.                                                                      *)

Start(p) ==
    /\ PrivateDir_open(p)
    /\ stop' = [stop EXCEPT ![p] = FALSE]
    /\ UNCHANGED <<clientVars, talkVars>>

Bind(p) == Publish(p) /\ UNCHANGED <<stop, clientVars, talkVars>>

Close(p) ==
    \/ close(p) /\ HangUp(p) /\ UNCHANGED stop
    \/ (remove_look(p) \/ remove_unlink(p)) /\ UNCHANGED <<stop, clientVars, talkVars>>

Serving(p) == At(p, "serve") /\ talking[p] = None

(* Mutant: the peer's UID is not asked for.                                 *)
check_peer_uid_Any(c) == TRUE

check_peer_uid(c) == c \notin Foreign

(* accept; a refused peer's stream is closed unread.  converse returns at   *)
(* once when the stream cannot be set up.                                   *)
accept(p) ==
    /\ Serving(p) /\ ~stop[p]
    /\ \E c \in Clients :
        /\ phase[c] = "queued" /\ server[c] = Socket(p)
        /\ \/ /\ check_peer_uid(c)
              /\ phase' = [phase EXCEPT ![c] = "served"]
              /\ talking' = [talking EXCEPT ![p] = c]
           \/ /\ phase' = [phase EXCEPT ![c] = "closed"]
              /\ UNCHANGED talking
    /\ UNCHANGED <<pc, listening, stop, server, sent, inbox, ended, got, buffer>>
    /\ Keep

(* The flag is set, or the listener fails.                                  *)
serve_returns(p) ==
    /\ Serving(p)
    /\ Go(p, "close")
    /\ UNCHANGED <<listening, stop, clientVars, talkVars>>
    /\ Keep

serve_stops(p) == stop[p] /\ serve_returns(p)

----------------------------------------------------------------------------
(* serve_connection                                                         *)

(* Mutant: the flag is read only between conversations.                     *)
FlaggedReads_Deaf(p) == FALSE

(* The flag as each read of the stream sees it.                             *)
FlaggedReads(p) == stop[p]

(* The stream is read only when the buffer is empty, and the flag only      *)
(* there: lines already read are answered first.  A time-out reads again.   *)
read(p) ==
    /\ At(p, "serve") /\ talking[p] # None /\ buffer[p] = <<>>
    /\ LET c == talking[p] IN
        \/ /\ ~FlaggedReads(p) /\ inbox[c] # <<>>
           /\ \E k \in 1..Len(inbox[c]) :
                /\ buffer' = [buffer EXCEPT ![p] = SubSeq(inbox[c], 1, k)]
                /\ inbox' = [inbox EXCEPT ![c] = SubSeq(@, k + 1, Len(@))]
           /\ UNCHANGED <<phase, talking>>
        \/ /\ FlaggedReads(p) \/ (inbox[c] = <<>> /\ ended[c])
           /\ End(p)
           /\ UNCHANGED inbox
    /\ UNCHANGED <<pc, listening, stop, server, sent, ended, got>>
    /\ Keep

(* The code that answers a line; the loop alone may say -32700 and -32600.  *)
Code ==
    [k \in LineKinds |->
        CASE k \in {"not_utf8", "not_json"} -> -32700
          [] k \in {"too_long", "not_object", "bad_request"} -> -32600
          [] k = "unknown_method" -> -32601
          [] k = "bad_params" -> -32602
          [] k \in {"loop_owned", "panics"} -> -32603
          [] k = "other_instance" -> 1
          [] OTHER -> 0]

(* A line whose id cannot be read is answered under null.                   *)
WithoutId == {"too_long", "not_utf8", "not_json", "not_object"}

(* answer: the reply to the i-th line of a connection.                      *)
Reply(i, k) == [id |-> IF k \in WithoutId THEN None ELSE i, code |-> Code[k]]

(* The line of a connection that its daemon answers next.                   *)
Answered(p) ==
    LET c == talking[p] IN Len(sent[c]) - Len(inbox[c]) - Len(buffer[p]) + 1

(* The reply is written or the write fails or times out.  A handler's panic *)
(* unwinds out of run either way; a line too long ends the conversation.    *)
answer(p) ==
    /\ At(p, "serve") /\ talking[p] # None /\ buffer[p] # <<>>
    /\ LET c == talking[p]
           k == Head(buffer[p])
       IN \E written \in BOOLEAN :
            /\ got' = IF written THEN [got EXCEPT ![c] = Append(@, Reply(Answered(p), k))] ELSE got
            /\ \/ /\ k = "panics"
                  /\ End(p) /\ Go(p, "close")
               \/ /\ k # "panics" /\ (k = "too_long" \/ ~written)
                  /\ End(p) /\ UNCHANGED pc
               \/ /\ k \notin {"panics", "too_long"} /\ written
                  /\ buffer' = [buffer EXCEPT ![p] = Tail(@)]
                  /\ UNCHANGED <<pc, phase, talking>>
    /\ UNCHANGED <<listening, stop, server, sent, inbox, ended>>
    /\ Keep

----------------------------------------------------------------------------
(* Clients, and whoever stops or kills a daemon.                            *)

Connect(c) ==
    /\ phase[c] = "none" /\ path # None
    /\ entries[path]["name"] \in listening
    /\ phase' = [phase EXCEPT ![c] = "queued"]
    /\ server' = [server EXCEPT ![c] = entries[path]["name"]]
    /\ UNCHANGED <<socketVars, stop, sent, inbox, ended, got, talkVars>>

Send(c) ==
    /\ phase[c] \in {"queued", "served"} /\ ~ended[c] /\ Len(sent[c]) < MaxLines[c]
    /\ \E k \in Lines :
        /\ sent' = [sent EXCEPT ![c] = Append(@, k)]
        /\ inbox' = [inbox EXCEPT ![c] = Append(@, k)]
    /\ UNCHANGED <<socketVars, stop, phase, server, ended, got, talkVars>>

EndInput(c) ==
    /\ phase[c] \in {"queued", "served"} /\ ~ended[c]
    /\ ended' = [ended EXCEPT ![c] = TRUE]
    /\ UNCHANGED <<socketVars, stop, phase, server, sent, inbox, got, talkVars>>

(* The flag is read only while the daemon serves, so it is set there.       *)
Shutdown(p) ==
    /\ At(p, "serve") /\ ~stop[p]
    /\ stop' = [stop EXCEPT ![p] = TRUE]
    /\ UNCHANGED <<socketVars, clientVars, talkVars>>

Killed(p) == Kill(p) /\ HangUp(p) /\ UNCHANGED stop

Serve(p) == accept(p) \/ serve_stops(p) \/ read(p) \/ answer(p)

Next ==
    \/ \E p \in Processes :
        \/ Start(p)
        \/ Bind(p)
        \/ Serve(p)
        \/ serve_returns(p)
        \/ Close(p)
        \/ Shutdown(p)
        \/ Killed(p)
    \/ \E c \in Clients : Connect(c) \/ Send(c) \/ EndInput(c)
    \/ Others /\ UNCHANGED <<stop, clientVars, talkVars>>

Spec == Init /\ [][Next]_vars

(* A daemon's thread is scheduled; a write ends, if only by its time-out.   *)
(* Nothing is assumed of clients or of other programs.                      *)
Fairness ==
    \A p \in Processes : WF_vars(Bind(p)) /\ WF_vars(Serve(p)) /\ WF_vars(Close(p))

FairSpec == Spec /\ Fairness

----------------------------------------------------------------------------
(* Properties                                                               *)

(* "Requests on a connection are answered in order", each under its own id  *)
(* and with no line skipped, and a peer of another UID is closed before a   *)
(* byte is read or written.                                                 *)
RepliesInOrder ==
    \A c \in Clients :
        /\ Len(got[c]) <= Len(sent[c]) - Len(inbox[c])
        /\ \A i \in DOMAIN got[c] : got[c][i] = Reply(i, sent[c][i])
        /\ \A i \in DOMAIN got[c] : sent[c][i] \in {"too_long", "panics"} => i = Len(got[c])
        /\ c \in Foreign => got[c] = <<>> /\ inbox[c] = sent[c]

(* "shutdown is honored against a client that stops reading its replies" or *)
(* that never sends: a daemon that is asked to stop ends and, unless it is  *)
(* killed, removes its socket on the way.                                   *)
ShutdownHonored ==
    \A p \in Processes : stop[p] /\ Alive(p) ~> ~Alive(p)
================================================================================
