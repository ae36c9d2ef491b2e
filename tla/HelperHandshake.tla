---------------------------- MODULE HelperHandshake ----------------------------
(***************************************************************************)
(* The host's side of the handshake with a running VMM helper: handshake.rs,*)
(* hello.rs and the listeners of endpoints.rs in                            *)
(* plasmosome-membrane/src/runtime, on the budgeted reads and writes of     *)
(* readiness.rs.  One action per system call of the host, so that           *)
(* connections, replies, hang-ups, the helper's end, shutdown and the spent *)
(* allowance may fall between any two.                                      *)
(*                                                                          *)
(* A reply arrives in pieces; the piece that ends a line carries what the   *)
(* line says.  A guest that is not honest says anything at any time.  On    *)
(* Linux the peer's pid is the connector's; on Darwin it is the last user's *)
(* and cannot be read once the peer closed.  Nobody is given a copy of the  *)
(* helper's sockets, so both name the connector.  Errors of accept, read    *)
(* and poll other than the ones below are left out.                         *)
(***************************************************************************)
EXTENDS HelperLaunch, SequencesExt

CONSTANTS
    Connections,    \* that someone may make: numbers
    By,             \* the process that makes each
    At,             \* the listener it is made to
    Helper,         \* the launch whose helper is meant
    Foreign,        \* processes whose UID is not the supervisor's
    Policy,         \* the guest policy expected
    Policies,
    Boots,
    Said,           \* the lines that a guest may say
    Boot,           \* the token of an honest guest's boot
    MaxPieces,      \* bound: pieces sent on a connection
    MaxResponse     \* the pieces an unfinished line may have

ASSUME HandshakeAssumption ==
    /\ Connections \subseteq Nat
    /\ At \in [Connections -> {"control", "data"}]
    /\ Policy \in Policies /\ Boot \in Boots
    /\ Helper \in Launches \ Foreign
    /\ MaxPieces \in Nat /\ MaxResponse \in Nat

VARIABLES
    honest,     \* whether the guest follows the protocol
    shutdown,   \* the flag the budget watches
    spent,      \* whether the allowance is spent
    conn,       \* each connection
    queue,      \* those that wait at each listener
    stage,      \* where the handshake is, "" before and after it
    step,       \* its next system call
    frame,      \* pieces of the line being read
    reply,      \* the line that was read
    trailing,   \* whether more came with it
    streams,    \* the connections accepted so far, in the order of the stages
    heard,      \* ghost: the lines that were judged good
    boot,       \* the boot token of the normal lane
    result      \* why the handshake ended

hostVars == <<stage, step, frame, reply, trailing, streams, heard, boot, result>>
peerVars == <<conn, queue>>
shakeVars == <<honest, shutdown, spent, peerVars, hostVars>>

Stages == <<"NormalAccept", "NormalReply", "WithdrawalAccept", "WithdrawalReply", "DataAccept">>
Lane(s) == IF s = "NormalReply" THEN 1 ELSE 2

Line(kind, id, b, p) == [kind |-> kind, id |-> id, boot |-> b, policy |-> p]
NoLine == Line("none", 0, Boot, Policy)

(* What a line may be: not a JSON object or with other fields, an   *)
(* error, or a result.                                                      *)
Lines == {Line(k, 0, Boot, Policy) : k \in {"fields", "error"}}
             \cup {Line("result", id, b, p) : id \in {1, 2}, b \in Boots, p \in Policies}

ASSUME SaidAssumption ==
    /\ Said \subseteq Lines
    /\ \A id \in {1, 2} : Line("result", id, Boot, Policy) \in Said

Piece == [kind |-> "part"]

(* Not everybody connects.                                                  *)
ShakeInit ==
    /\ honest \in BOOLEAN
    /\ shutdown = FALSE
    /\ spent = FALSE
    /\ \E never \in SUBSET Connections :
          conn = [c \in Connections |->
                     [phase |-> IF c \in never THEN "never" ELSE "new",
                      gone |-> FALSE, asked |-> 0, sent |-> 0, inbox |-> <<>>]]
    /\ queue = [l \in {"control", "data"} |-> <<>>]
    /\ stage = "NormalAccept"
    /\ step \in {"begin", "none"}
    /\ frame = 0
    /\ reply = NoLine
    /\ trailing = FALSE
    /\ streams = <<>>
    /\ heard = <<>>
    /\ boot = NoLine.boot
    /\ result = "none"

----------------------------------------------------------------------------
(* What VmmChild::state says of the helper.                                 *)
Running == child[Helper] \notin {"none", "refused", "exited"}

(* The budget                                                               *)

(* Mutant: the allowance is not looked at.                                  *)
remaining_at_Endless == IF shutdown THEN "Cancelled" ELSE "left"

(* ProbeBudget::remaining_at: shutdown comes first.                         *)
remaining_at ==
    IF shutdown THEN "Cancelled" ELSE IF spent THEN "TimedOut" ELSE "left"

(* Every stream that was accepted is dropped with the failure.              *)
Fail(cause) ==
    /\ result' = cause
    /\ step' = "ended"
    /\ conn' = [c \in Connections |->
                   IF c \in Range(streams) THEN [conn[c] EXCEPT !.phase = "closed"] ELSE conn[c]]
    /\ streams' = <<>>
    /\ UNCHANGED <<queue, stage, frame, reply, trailing, heard, boot>>

(* A step that begins with the gate.                                        *)
Gated(Then) == IF remaining_at = "left" THEN Then ELSE Fail(remaining_at)

Proceed(next) ==
    /\ step' = next
    /\ UNCHANGED <<stage, frame, reply, trailing, streams, heard, boot, result>>

----------------------------------------------------------------------------
(* Steps::accept                                                            *)

begin ==
    /\ step = "begin"
    /\ pc[Helper] = "launched"
    /\ Gated(Proceed("accept") /\ UNCHANGED peerVars)

Listener == IF stage = "DataAccept" THEN "data" ELSE "control"

(* Whether peer_pid can be read.                                            *)
Identified(c) == platform = "linux" \/ ~conn[c].gone

(* Mutant: any process of the user will do.                                 *)
authentic_Any(pid) == TRUE

authentic(pid) == pid = Helper

(* accept_ready and authenticate.                                           *)
accept ==
    /\ step = "accept"
    /\ IF queue[Listener] = <<>>
       THEN Proceed("wait") /\ UNCHANGED peerVars
       ELSE LET c == Head(queue[Listener])
                cause == IF By[c] \in Foreign \/ ~Identified(c) THEN "PeerRefused"
                         ELSE IF ~authentic(By[c]) THEN "ForeignPeer" ELSE "none"
            IN /\ queue' = [queue EXCEPT ![Listener] = Tail(@)]
               /\ IF cause = "none"
                  THEN /\ conn' = [conn EXCEPT ![c].phase = "accepted"]
                       /\ streams' = Append(streams, c)
                       /\ step' = "accepted"
                       /\ UNCHANGED result
                  ELSE /\ conn' = [d \in Connections |->
                              IF d = c \/ d \in Range(streams)
                              THEN [conn[d] EXCEPT !.phase = "closed"] ELSE conn[d]]
                       /\ streams' = <<>>
                       /\ step' = "ended"
                       /\ result' = cause
               /\ UNCHANGED <<stage, frame, reply, trailing, heard, boot>>

(* The gate after an accept; the last one completes the handshake.          *)
accepted ==
    /\ step = "accepted"
    /\ Gated(/\ IF stage = "DataAccept"
                THEN step' = "ended" /\ result' = "ok" /\ UNCHANGED stage
                ELSE /\ stage' = IF stage = "NormalAccept" THEN "NormalReply" ELSE "WithdrawalReply"
                     /\ step' = "send"
                     /\ UNCHANGED result
             /\ UNCHANGED <<peerVars, frame, reply, trailing, streams, heard, boot>>)

(* The gate before a wait, of accept or of wait_ready.                      *)
wait ==
    /\ step \in {"wait", "wait_read"}
    /\ Gated(Proceed(IF step = "wait" THEN "alive" ELSE "alive_read") /\ UNCHANGED peerVars)

(* The guarded wait: the liveness of the helper, which may not be readable, *)
(* and a poll of at most MAX_WAIT, which ends however it ends.              *)
alive ==
    /\ step \in {"alive", "alive_read"}
    /\ \/ Running /\ Proceed(IF step = "alive" THEN "accept" ELSE "read") /\ UNCHANGED peerVars
       \/ ~Running /\ Fail("HelperEnded")
       \/ Fail("LivenessUnknown")

----------------------------------------------------------------------------
(* Steps::hello                                                             *)

Stream == Last(streams)

(* send_within: one write takes the request whole.                          *)
send ==
    /\ step = "send"
    /\ Gated(IF conn[Stream].gone
             THEN Fail("Closed")
             ELSE /\ conn' = [conn EXCEPT ![Stream].asked = Lane(stage)]
                  /\ step' = "read"
                  /\ frame' = 0
                  /\ UNCHANGED <<queue, stage, reply, trailing, streams, heard, boot, result>>)

EndsLine(inbox) == {i \in 1..Len(inbox) : inbox[i].kind # "part"}

(* One read of read_frame_within: the first n pieces that are there.        *)
Take(n) ==
    LET inbox == conn[Stream].inbox
        ends == {i \in EndsLine(inbox) : i <= n}
        first == CHOOSE i \in ends : \A j \in ends : i <= j
    IN /\ conn' = [conn EXCEPT ![Stream].inbox = SubSeq(inbox, n + 1, Len(inbox))]
       /\ IF ends = {}
          THEN /\ frame' = frame + n
               /\ UNCHANGED <<reply, trailing>>
          ELSE /\ frame' = frame + first - 1
               /\ reply' = inbox[first]
               /\ trailing' = (first < n)
       /\ step' = "took"
       /\ UNCHANGED <<queue, stage, streams, heard, boot, result>>

read ==
    /\ step = "read"
    /\ LET inbox == conn[Stream].inbox IN
       Gated(IF inbox # <<>>
             THEN \E n \in 1..Len(inbox) : frame + n <= MaxResponse + 1 /\ Take(n)
             ELSE IF conn[Stream].gone THEN Fail("Closed")
             ELSE Proceed("wait_read") /\ UNCHANGED peerVars)

(* The gate after a read that took something.                               *)
took ==
    /\ step = "took"
    /\ Gated(IF reply # NoLine THEN Proceed("judge") /\ UNCHANGED peerVars
             ELSE IF frame > MaxResponse THEN Fail("FrameTooLarge")
             ELSE Proceed("read") /\ UNCHANGED peerVars)

(* Mutant: the lanes' answers may be swapped.                               *)
judge_AnyId ==
    IF reply.kind # "result" THEN "refused"
    ELSE IF reply.policy # Policy THEN "refused"
    ELSE IF stage = "WithdrawalReply" /\ reply.boot # boot THEN "refused"
    ELSE "accepted"

(* Mutant: the withdrawal lane may answer for another boot.                 *)
judge_AnyBoot ==
    IF reply.kind # "result" THEN "refused"
    ELSE IF reply.id # Lane(stage) THEN "refused"
    ELSE IF reply.policy # Policy THEN "refused"
    ELSE "accepted"

(* Mutant: both lanes are asked for id 1.                                   *)
judge_OneId ==
    IF reply.kind # "result" THEN "refused"
    ELSE IF reply.id # 1 THEN "refused"
    ELSE IF reply.policy # Policy THEN "refused"
    ELSE IF stage = "WithdrawalReply" /\ reply.boot # boot THEN "refused"
    ELSE "accepted"

(* judge_normal and judge_withdrawal.                                       *)
judge ==
    IF reply.kind # "result" THEN "refused"
    ELSE IF reply.id # Lane(stage) THEN "refused"
    ELSE IF reply.policy # Policy THEN "refused"
    ELSE IF stage = "WithdrawalReply" /\ reply.boot # boot THEN "refused"
    ELSE "accepted"

(* The peer is read again, then the line is judged.                         *)
hello ==
    /\ step = "judge"
    /\ IF ~Identified(Stream) THEN Fail("PeerRefused")
       ELSE IF ~authentic(By[Stream]) THEN Fail("ForeignPeer")
       ELSE IF trailing THEN Fail("UnexpectedBytes")
       ELSE IF judge = "refused" THEN Fail("Refused")
       ELSE Proceed("judged") /\ UNCHANGED peerVars

(* The gate after a hello; its stream is not read again.                    *)
judged ==
    /\ step = "judged"
    /\ Gated(/\ boot' = IF stage = "NormalReply" THEN reply.boot ELSE boot
             /\ stage' = IF stage = "NormalReply" THEN "WithdrawalAccept" ELSE "DataAccept"
             /\ step' = "accept"
             /\ heard' = Append(heard, reply)
             /\ reply' = NoLine
             /\ frame' = 0
             /\ conn' = [conn EXCEPT ![Stream].inbox = <<>>, ![Stream].sent = 0]
             /\ UNCHANGED <<queue, trailing, streams, result>>)

Handshake ==
    /\ \/ begin \/ accept \/ accepted \/ wait \/ alive
       \/ send \/ read \/ took \/ hello \/ judged
    /\ UNCHANGED <<honest, shutdown, spent>>

----------------------------------------------------------------------------
(* The others                                                               *)

(* What they do is of interest while there is a handshake.                  *)
Shaking == step # "none" /\ result = "none"

(* The helper speaks once it has its recipe.                                *)
Speaks(p) == p # Helper \/ child[Helper] = "configured"

(* The connections of one process to one listener are alike.                *)
Connect(c) ==
    /\ conn[c].phase = "new"
    /\ \A e \in Connections : e < c /\ By[e] = By[c] /\ At[e] = At[c] => conn[e].phase # "new"
    /\ Speaks(By[c])
    /\ conn' = [conn EXCEPT ![c].phase = "queued"]
    /\ queue' = [queue EXCEPT ![At[c]] = Append(@, c)]

Replying == stage \in {"NormalReply", "WithdrawalReply"}

(* A guest that is honest answers what it is asked once, in a line that     *)
(* fits, and keeps its streams.  Only the stream that is being read         *)
(* matters: what is sent on another is there when that one is read, or      *)
(* never looked at.                                                         *)
Answer(piece) ==
    /\ Replying
    /\ LET c == Stream IN
       /\ ~conn[c].gone /\ Speaks(Helper)
       /\ conn[c].sent < MaxPieces
       /\ honest => /\ conn[c].asked # 0
                    /\ IF piece.kind = "part" THEN conn[c].sent < MaxResponse
                       ELSE piece = Line("result", conn[c].asked, Boot, Policy)
       /\ conn' = [conn EXCEPT ![c].inbox = Append(@, piece),
                               ![c].sent = IF honest /\ piece.kind # "part" THEN MaxPieces ELSE @ + 1]
    /\ UNCHANGED queue

(* A guest that is not honest closes a stream that is still of use.         *)
Hangup(c) ==
    /\ ~honest /\ By[c] = Helper
    /\ conn[c].phase = "queued" \/ (Replying /\ c = Stream)
    /\ ~conn[c].gone
    /\ conn' = [conn EXCEPT ![c].gone = TRUE]
    /\ UNCHANGED queue

(* Its streams end with the helper.                                         *)
HangupAll ==
    conn' = [c \in Connections |->
                IF By[c] = Helper /\ conn[c].phase \notin {"never", "new"} THEN [conn[c] EXCEPT !.gone = TRUE]
                ELSE conn[c]]

Peers ==
    /\ Shaking
    /\ \/ \E c \in Connections : Connect(c) \/ Hangup(c)
       \/ \E piece \in {Piece} \cup Said : Answer(piece)
    /\ UNCHANGED <<honest, shutdown, spent, hostVars>>

Cancel ==
    /\ Shaking /\ ~shutdown
    /\ shutdown' = TRUE
    /\ UNCHANGED <<honest, spent, peerVars, hostVars>>

Spend ==
    /\ Shaking /\ ~spent
    /\ spent' = TRUE
    /\ UNCHANGED <<honest, shutdown, peerVars, hostVars>>

ShakeNext == Handshake \/ Peers \/ Cancel \/ Spend

----------------------------------------------------------------------------
(* Properties                                                               *)

(* What the Association says is so: three streams, all made by the helper,  *)
(* the last of them at the data listener, whose hellos were asked and       *)
(* answered on the lane they are for, for one boot and the policy expected. *)
(* A failed handshake keeps none.                                           *)
AssociationIsSound ==
    /\ result = "ok" =>
          /\ Len(streams) = 3
          /\ \A i \in 1..3 : By[streams[i]] = Helper /\ conn[streams[i]].phase = "accepted"
          /\ \A i \in 1..2 : At[streams[i]] = "control" /\ conn[streams[i]].asked = i
          /\ At[streams[3]] = "data" /\ conn[streams[3]].asked = 0
          /\ \A i \in 1..2 : heard[i] = Line("result", i, boot, Policy)
    /\ result \notin {"none", "ok"} => \A c \in Connections : conn[c].phase # "accepted"

(* A handshake fails for a reason that is so: an honest guest of a helper   *)
(* that runs, that nobody precedes, is refused nothing.                     *)
FailureIsTrue ==
    LET Came(p) == \E c \in Connections : By[c] = p /\ conn[c].phase \notin {"never", "new"} IN
    CASE result = "Cancelled" -> shutdown
      [] result = "TimedOut" -> spent
      [] result = "HelperEnded" -> ~Running
      [] result = "ForeignPeer" -> \E c \in Connections : By[c] # Helper /\ Came(By[c])
      [] result = "PeerRefused" ->
            \/ \E p \in Foreign : Came(p)
            \/ platform = "darwin" /\ \E c \in Connections : conn[c].gone
      [] result = "Closed" -> \E c \in Connections : conn[c].gone
      [] result \in {"Refused", "FrameTooLarge", "UnexpectedBytes"} -> ~honest
      [] OTHER -> TRUE

(* A handshake that has begun ends, whatever the peers do.                  *)
HandshakeEnds == step = "accept" ~> result # "none"

(* What handshake returns is so, an Association and a failure alike.        *)
OutcomeIsTrue == AssociationIsSound /\ FailureIsTrue
=============================================================================
