------------------------ MODULE ControllerDaemon_proofs ------------------------
(***************************************************************************)
(* The private socket and the daemon that serves on it, for any number of   *)
(* processes, directories, clients and lines.                               *)
(*                                                                          *)
(* SocketInv follows a process through bind, publish and close and says at  *)
(* each place what it has bound, made private and shown, and where its      *)
(* socket can be: with it a name that is removed is the process's own       *)
(* whatever other programs did in between.  TalkInv splits the lines of a   *)
(* connection into those answered, those read and those still in the        *)
(* stream, and says which daemon holds which.                               *)
(***************************************************************************)
EXTENDS ControllerDaemon, TLAPS

Places == {"out", "opened", "look", "draw", "bound", "find", "restrict", "chmod", "judge", "rename",
           "serve", "close", "remove", "unlink"}
Before == {"opened", "look", "draw"}
Unproven == {"bound", "find"}
Proven == {"restrict", "chmod", "judge", "rename"}
Ending == {"remove", "unlink"}

SocketTyped ==
    /\ path \in Dirs \cup {None}
    /\ entries \in [Dirs -> [Names -> Sockets \cup {File, None}]]
    /\ pc \in [Processes -> Places]
    /\ started \subseteq Processes
    /\ held \in [Processes -> Private \cup {None}]
    /\ bound \in [Processes -> [name : Processes \cup {"name", None}, socket : Sockets \cup {None}]]
    /\ draws \in [Processes -> Nat] /\ moves \in Nat

(* What a name may name: a stray what it was left, and a temporary drawn    *)
(* by one process that process's socket, if anything.                       *)
NamesKept ==
    /\ \A d \in Dirs, t \in Strays : entries[d][t] = Left
    /\ \A d \in Dirs, p \in Processes : entries[d][p] \in {None, Socket(p)}
    /\ \A d \in Dirs : entries[d]["name"] # Left

(* How far a process is, and what it has bound, made and shown by then.     *)
Progress(p) ==
    /\ pc[p] # "out" => p \in started /\ held[p] \in Private
    /\ p \notin started \/ pc[p] \in Before => bound[p] = NoEntry /\ Socket(p) \notin listening
    /\ pc[p] \in Unproven => bound[p] = [name |-> p, socket |-> None]
    /\ pc[p] \in Proven =>
          bound[p] = [name |-> p, socket |-> Socket(p)] /\ entries[held[p]][p] = Socket(p)
    /\ pc[p] \in {"judge", "rename"} => Socket(p) \in restricted
    /\ pc[p] \in {"serve"} =>
          bound[p] = [name |-> "name", socket |-> Socket(p)] /\ Socket(p) \in restricted
    /\ pc[p] \in {"rename", "serve"} => Socket(p) \in listening
    /\ pc[p] = "close" => \/ bound[p].socket = Socket(p)
                          \/ /\ bound[p].socket = None
                             /\ \A n \in Names : entries[held[p]][n] # Socket(p)
    /\ pc[p] \in Ending => bound[p].socket = Socket(p)
    /\ pc[p] = "unlink" => entries[held[p]][bound[p].name] = Socket(p)
    /\ bound[p].socket = Socket(p) => bound[p].name \in {p, "name"}

(* A socket is at one place, and which is known from its process.           *)
Placed(p) ==
    /\ \A d \in Dirs, n \in Names : entries[d][n] = Socket(p) =>
          /\ n = bound[p].name
          /\ n = "name" => d = held[p] /\ Socket(p) \in restricted
    /\ \A d, e \in Dirs : entries[d][p] = Socket(p) /\ entries[e][p] = Socket(p) => d = e
    /\ Socket(p) \in listening =>
          /\ pc[p] \in {"rename", "serve", "close"} /\ Socket(p) \in restricted
          /\ \A d \in Dirs \ {held[p]}, n \in Names : entries[d][n] # Socket(p)

SocketInv == SocketTyped /\ NamesKept /\ \A p \in Processes : Progress(p) /\ Placed(p)

Last == {"too_long", "panics"}
Replies == [id : Nat \cup {None}, code : Int]

TalkTyped ==
    /\ stop \in [Processes -> BOOLEAN]
    /\ phase \in [Clients -> {"none", "queued", "served", "closed"}]
    /\ server \in [Clients -> Sockets \cup {File, None}]
    /\ sent \in [Clients -> Seq(Lines)] /\ inbox \in [Clients -> Seq(Lines)]
    /\ got \in [Clients -> Seq(Replies)]
    /\ talking \in [Processes -> Clients \cup {None}]
    /\ buffer \in [Processes -> Seq(Lines)]

(* The line of c that a daemon has read last.                               *)
Taken(c) == Len(sent[c]) - Len(inbox[c])

Stream(c) ==
    /\ Len(got[c]) <= Taken(c)
    /\ \A i \in 1..Len(inbox[c]) : inbox[c][i] = sent[c][Taken(c) + i]
    /\ \A i \in 1..Len(got[c]) : got[c][i] = Reply(i, sent[c][i])
    /\ \A i \in 1..Len(got[c]) : sent[c][i] \in Last => i = Len(got[c])
    /\ phase[c] \in {"none", "queued"} \/ c \in Foreign => got[c] = <<>> /\ inbox[c] = sent[c]
    /\ phase[c] = "served" => c \notin Foreign

Talk(p) ==
    /\ talking[p] = None => buffer[p] = <<>>
    /\ talking[p] # None =>
         LET c == talking[p] IN
         /\ pc[p] = "serve" /\ phase[c] = "served" /\ server[c] = Socket(p)
         /\ Len(buffer[p]) + Len(got[c]) = Taken(c)
         /\ \A i \in 1..Len(buffer[p]) : buffer[p][i] = sent[c][Len(got[c]) + i]
         /\ \A i \in 1..Len(got[c]) : sent[c][i] \notin Last

TalkInv == TalkTyped /\ (\A c \in Clients : Stream(c)) /\ \A p \in Processes : Talk(p)

(* The sockets, the file and None are told apart.                           *)
LEMMA SocketsDiffer ==
    /\ \A p, q \in Processes : Socket(p) = Socket(q) => p = q
    /\ \A p \in Processes : Socket(p) \in Sockets /\ Socket(p) # Left /\ Socket(p) # File /\ Socket(p) # None
    /\ None \notin Sockets \cup {File} /\ Left \in Sockets /\ File \notin Sockets
    /\ "name" \in Names /\ Processes \subseteq Names /\ Strays \subseteq Names /\ None \notin Names
    /\ "name" \notin Processes /\ "name" \notin Strays /\ Strays \cap Processes = {} /\ None \notin Processes
    /\ None # "name" /\ None \notin Dirs /\ Private \subseteq Dirs /\ Home \in Private
    /\ Draws \in Nat /\ MaxMoves \in Nat
  <1>1. \A a, b : <<a>> = <<b>> => a = b
    OBVIOUS
  <1>2. "left" \notin Processes /\ "file" \notin Processes /\ "left" # "file"
    BY PrivateSocketAssumption
  <1>3. \A p \in Processes \cup {"left", "file"} : None # <<p>>
    BY PrivateSocketAssumption
  <1>4. \A p, q \in Processes : Socket(p) = Socket(q) => p = q
    BY <1>1 DEF Socket
  <1>5. \A p \in Processes : Socket(p) \in Sockets /\ Socket(p) # Left /\ Socket(p) # File /\ Socket(p) # None
    BY <1>1, <1>2, <1>3 DEF Socket, Left, File, Sockets
  <1>6. Left # File /\ None # Left /\ None # File
    BY <1>1, <1>2, <1>3 DEF Left, File
  <1>7. None \notin Sockets \cup {File} /\ Left \in Sockets /\ File \notin Sockets
    BY <1>5, <1>6 DEF Sockets
  <1> QED  BY <1>4, <1>5, <1>7, PrivateSocketAssumption DEF Names

(* The steps that change no entry and nobody's directory or bound name: p   *)
(* goes on, and the others stay as they are.                                *)
LEMMA GoesOn ==
    ASSUME NEW p \in Processes, NEW place \in Places, SocketInv, Go(p, place),
           path' = path, entries' = entries, started' = started, held' = held, moves' = moves,
           draws' = draws, bound' = bound, restricted \subseteq restricted',
           \A q \in Processes \ {p} : Socket(q) \in listening' <=> Socket(q) \in listening,
           Progress(p)', Placed(p)'
    PROVE  SocketInv'
  <1>1. SocketTyped' /\ NamesKept'
    BY DEF SocketInv, SocketTyped, NamesKept, Go
  <1>2. ASSUME NEW q \in Processes, q # p PROVE Progress(q)' /\ Placed(q)'
    <2>1. pc'[q] = pc[q]
      BY <1>2 DEF Go, SocketInv, SocketTyped
    <2> QED  BY <1>2, <2>1 DEF SocketInv, Progress, Placed
  <1> QED  BY <1>1, <1>2 DEF SocketInv

LEMMA OpenInv == ASSUME NEW p \in Processes, SocketInv, PrivateDir_open(p) PROVE SocketInv'
  <1>1. /\ p \notin started /\ started' = started \cup {p} /\ path' = path /\ entries' = entries
        /\ restricted' = restricted /\ listening' = listening /\ bound' = bound /\ draws' = draws
        /\ moves' = moves
    BY DEF PrivateDir_open
  <1>2. pc[p] = "out" /\ bound[p] = NoEntry /\ Socket(p) \notin listening
    BY <1>1 DEF SocketInv, Progress
  <1>3. \/ /\ path \in Private /\ held' = [held EXCEPT ![p] = path] /\ pc' = [pc EXCEPT ![p] = "opened"]
        \/ held' = held /\ pc' = pc
    BY DEF PrivateDir_open, open_private, Go
  <1>4. SocketTyped' /\ NamesKept'
    BY <1>1, <1>3 DEF SocketInv, SocketTyped, NamesKept, Places
  <1>5. /\ \A q \in Processes : q # p => held'[q] = held[q] /\ pc'[q] = pc[q]
        /\ pc'[p] = "out" \/ (pc'[p] = "opened" /\ held'[p] \in Private)
    BY <1>2, <1>3 DEF SocketInv, SocketTyped
  <1>6. ASSUME NEW q \in Processes, q # p PROVE Progress(q)' /\ Placed(q)'
    BY <1>1, <1>5, <1>6 DEF SocketInv, Progress, Placed
  <1>7. Progress(p)'
    BY <1>1, <1>2, <1>5, SocketsDiffer DEF Progress, NoEntry, Before, Unproven, Proven, Ending
  <1>8. Placed(p)'
    BY <1>1, <1>2, SocketsDiffer DEF SocketInv, Placed, NoEntry
  <1> QED  BY <1>4, <1>6, <1>7, <1>8 DEF SocketInv

(* Who has bound nothing has put nothing anywhere.                          *)
LEMMA Nowhere ==
    ASSUME SocketInv, NEW p \in Processes, bound[p] = NoEntry
    PROVE  \A d \in Dirs, n \in Names : entries[d][n] # Socket(p)
  BY SocketsDiffer DEF SocketInv, Placed, NoEntry

LEMMA EarlyInv ==
    ASSUME NEW p \in Processes, SocketInv, publish_reconfirm(p) \/ publish_look(p) PROVE SocketInv'
  <1>1. PICK place \in {"look", "draw", "close"} : Go(p, place)
    BY DEF publish_reconfirm, publish_look, Fail
  <1>2. UNCHANGED <<path, entries, restricted, listening, started, held, bound, draws, rechecked, moves>>
    BY DEF publish_reconfirm, publish_look
  <1>3. pc[p] \in Before
    BY DEF publish_reconfirm, publish_look, At, Before
  <1>4. pc'[p] = place
    BY <1>1 DEF Go, SocketInv, SocketTyped
  <1>5. bound[p] = NoEntry /\ Socket(p) \notin listening /\ p \in started /\ held[p] \in Private
    BY <1>3 DEF SocketInv, Progress, Before
  <1>6. \A d \in Dirs, n \in Names : entries[d][n] # Socket(p)
    BY <1>5, Nowhere
  <1>7. Progress(p)'
    BY <1>2, <1>4, <1>5, <1>6, SocketsDiffer DEF Progress, NoEntry, Before, Unproven, Proven, Ending
  <1>8. Placed(p)'
    BY <1>2, <1>5, <1>6, SocketsDiffer DEF Placed
  <1> QED  BY <1>1, <1>2, <1>7, <1>8, GoesOn DEF Places

LEMMA TemporaryInv == ASSUME NEW p \in Processes, SocketInv, choose_temporary(p) PROVE SocketInv'
  <1>1. pc[p] = "draw" /\ UNCHANGED <<path, restricted, listening, started, held, rechecked, moves>>
    BY DEF choose_temporary, At
  <1>2. bound[p] = NoEntry /\ Socket(p) \notin listening /\ p \in started /\ held[p] \in Private
    BY <1>1 DEF SocketInv, Progress, Before
  <1>3. \A d \in Dirs, n \in Names : entries[d][n] # Socket(p)
    BY <1>2, Nowhere
  <1>4. draws' \in [Processes -> Nat]
    BY DEF choose_temporary, SocketInv, SocketTyped
  <1>5. CASE entries' = entries /\ bound' = bound /\ (pc' = pc \/ Go(p, "close"))
    <2>1. pc' \in [Processes -> Places] /\ pc'[p] \in {"draw", "close"}
          /\ \A q \in Processes : q # p => pc'[q] = pc[q]
      BY <1>1, <1>5 DEF SocketInv, SocketTyped, Go, Places
    <2>2. SocketTyped' /\ NamesKept'
      BY <1>1, <1>4, <1>5, <2>1 DEF SocketInv, SocketTyped, NamesKept
    <2>3. ASSUME NEW q \in Processes, q # p PROVE Progress(q)' /\ Placed(q)'
      BY <1>1, <1>5, <2>1, <2>3 DEF SocketInv, Progress, Placed
    <2>4. Progress(p)'
      BY <1>1, <1>2, <1>3, <1>5, <2>1, SocketsDiffer DEF Progress, NoEntry, Before, Unproven, Proven, Ending
    <2>5. Placed(p)'
      BY <1>1, <1>2, <1>3, <1>5, SocketsDiffer DEF Placed
    <2> QED  BY <2>2, <2>3, <2>4, <2>5 DEF SocketInv
  <1>6. CASE /\ path # None /\ entries[path][p] = None
             /\ entries' = [entries EXCEPT ![path][p] = Socket(p)]
             /\ bound' = [bound EXCEPT ![p].name = p] /\ Go(p, "bound")
    <2>1. path \in Dirs /\ p \in Names /\ p \notin Strays /\ p # "name"
      BY <1>6, SocketsDiffer DEF SocketInv, SocketTyped
    <2>2. /\ bound'[p] = [name |-> p, socket |-> None]
          /\ \A q \in Processes : q # p => bound'[q] = bound[q] /\ pc'[q] = pc[q]
          /\ pc'[p] = "bound"
      BY <1>2, <1>6 DEF SocketInv, SocketTyped, Go, NoEntry
    <2>3. \A d \in Dirs, n \in Names : entries'[d][n] = IF d = path /\ n = p THEN Socket(p) ELSE entries[d][n]
      BY <1>6, <2>1 DEF SocketInv, SocketTyped
    <2>4. SocketTyped'
      <3>1. entries' \in [Dirs -> [Names -> Sockets \cup {File, None}]]
        BY <1>6, <2>1, SocketsDiffer DEF SocketInv, SocketTyped
      <3>2. bound' \in [Processes -> [name : Processes \cup {"name", None}, socket : Sockets \cup {None}]]
        BY <1>6 DEF SocketInv, SocketTyped
      <3>3. pc' \in [Processes -> Places]
        BY <1>6 DEF SocketInv, SocketTyped, Go, Places
      <3> QED  BY <1>1, <1>4, <3>1, <3>2, <3>3 DEF SocketInv, SocketTyped
    <2>5. NamesKept'
      BY <2>1, <2>3, SocketsDiffer DEF SocketInv, NamesKept
    <2>6. ASSUME NEW q \in Processes, q # p PROVE Progress(q)' /\ Placed(q)'
      <3>1. \A d \in Dirs, n \in Names : (entries'[d][n] = Socket(q)) <=> (entries[d][n] = Socket(q))
        BY <1>6, <2>3, <2>6, SocketsDiffer
      <3>2. held[q] \in Dirs \cup {None} /\ q \in Names
        BY SocketsDiffer DEF SocketInv, SocketTyped
      <3>3. Progress(q)'
        BY <1>1, <2>2, <2>6, <3>1, <3>2, SocketsDiffer
           DEF SocketInv, Progress, Before, Unproven, Proven, Ending
      <3>4. Placed(q)'
        BY <1>1, <2>2, <2>6, <3>1, <3>2 DEF SocketInv, Placed
      <3> QED  BY <3>3, <3>4
    <2>7. Progress(p)'
      BY <1>1, <1>2, <2>2, SocketsDiffer DEF Progress, Before, Unproven, Proven, Ending
    <2>8. Placed(p)'
      BY <1>1, <1>2, <1>3, <2>1, <2>2, <2>3, SocketsDiffer DEF Placed
    <2> QED  BY <2>4, <2>5, <2>6, <2>7, <2>8 DEF SocketInv
  <1>7. \A t \in Strays : path # None => entries[path][t] # None
    BY SocketsDiffer DEF SocketInv, SocketTyped, NamesKept
  <1> QED  BY <1>5, <1>6, <1>7 DEF choose_temporary, Candidates, Fail

LEMMA RecheckInv == ASSUME NEW p \in Processes, SocketInv, publish_recheck(p) PROVE SocketInv'
  <1>1. pc[p] = "bound" /\ Go(p, "find") /\
        UNCHANGED <<path, entries, restricted, listening, started, held, bound, draws, moves>>
    BY DEF publish_recheck, At
  <1>2. pc'[p] = "find"
    BY <1>1 DEF Go, SocketInv, SocketTyped
  <1>3. Progress(p)'
    BY <1>1, <1>2, SocketsDiffer DEF SocketInv, Progress, Before, Unproven, Proven, Ending
  <1>4. Placed(p)'
    BY <1>1, <1>2 DEF SocketInv, Placed
  <1> QED  BY <1>1, <1>3, <1>4, GoesOn DEF Places

LEMMA FindInv == ASSUME NEW p \in Processes, SocketInv, publish_find(p) PROVE SocketInv'
  <1>1. pc[p] = "find" /\
        UNCHANGED <<path, entries, restricted, listening, started, held, draws, rechecked, moves>>
    BY DEF publish_find, At
  <1>2. bound[p] = [name |-> p, socket |-> None] /\ p \in started /\ held[p] \in Private
    BY <1>1 DEF SocketInv, Progress, Unproven
  <1>3. Found(p) = entries[held[p]][p] /\ Found(p) \in {None, Socket(p)}
    BY <1>2, SocketsDiffer DEF Found, SocketInv, NamesKept
  <1>4. \/ /\ Found(p) = Socket(p) /\ bound' = [bound EXCEPT ![p].socket = Socket(p)]
           /\ Go(p, "restrict") \/ Go(p, "close")
        \/ Found(p) = None /\ bound' = bound /\ Go(p, "close")
    BY <1>3, SocketsDiffer DEF publish_find, Fail
  <1>5. /\ pc' \in [Processes -> Places] /\ pc'[p] \in {"restrict", "close"}
        /\ \A q \in Processes : q # p => pc'[q] = pc[q] /\ bound'[q] = bound[q]
        /\ bound' \in [Processes -> [name : Processes \cup {"name", None}, socket : Sockets \cup {None}]]
    BY <1>4, SocketsDiffer DEF Go, SocketInv, SocketTyped, Places
  <1>6. \/ Found(p) = Socket(p) /\ bound'[p] = [name |-> p, socket |-> Socket(p)]
        \/ Found(p) = None /\ bound'[p] = [name |-> p, socket |-> None] /\ pc'[p] = "close"
    BY <1>2, <1>4 DEF Go, SocketInv, SocketTyped
  <1>7. SocketTyped' /\ NamesKept'
    BY <1>1, <1>5 DEF SocketInv, SocketTyped, NamesKept
  <1>8. ASSUME NEW q \in Processes, q # p PROVE Progress(q)' /\ Placed(q)'
    <2>1. pc'[q] = pc[q] /\ bound'[q] = bound[q] /\ Progress(q) /\ Placed(q)
      BY <1>5, <1>8 DEF SocketInv
    <2>2. Progress(q)'
      BY <1>1, <2>1 DEF Progress
    <2>3. Placed(q)'
      BY <1>1, <2>1 DEF Placed
    <2> QED  BY <2>2, <2>3
  <1>9. bound'[p].name = p
    BY <1>6
  <1>10. Placed(p)'
    BY <1>1, <1>2, <1>9 DEF SocketInv, Placed
  <1>11. \A n \in Names : Found(p) = None => entries[held[p]][n] # Socket(p)
    <2>1. held[p] \in Dirs /\ bound[p].name = p
      BY <1>2, SocketsDiffer
    <2>2. \A n \in Names : entries[held[p]][n] = Socket(p) => n = p
      BY <2>1 DEF SocketInv, Placed
    <2> QED  BY <1>3, <2>2, SocketsDiffer
  <1>12. Progress(p)'
    BY <1>1, <1>2, <1>3, <1>5, <1>6, <1>11, SocketsDiffer DEF Progress, Before, Unproven, Proven, Ending
  <1> QED  BY <1>7, <1>8, <1>10, <1>12 DEF SocketInv

LEMMA RestrictInv == ASSUME NEW p \in Processes, SocketInv, restrict_to_owner(p) PROVE SocketInv'
  <1>1. pc[p] \in {"restrict", "chmod"} /\
        UNCHANGED <<path, entries, listening, started, held, bound, draws, rechecked, moves>>
    BY DEF restrict_to_owner, At
  <1>2. bound[p] = [name |-> p, socket |-> Socket(p)] /\ entries[held[p]][p] = Socket(p)
    BY <1>1 DEF SocketInv, Progress, Proven
  <1>3. Found(p) = Socket(p)
    BY <1>2 DEF Found
  <1>4. \/ restricted' = restricted \cup {Socket(p)} /\ Go(p, "judge")
        \/ restricted' = restricted /\ Go(p, "chmod")
    BY <1>2, <1>3, SocketsDiffer DEF restrict_to_owner
  <1>5. pc'[p] \in {"judge", "chmod"} /\ (pc'[p] = "judge" => Socket(p) \in restricted')
        /\ restricted \subseteq restricted'
    BY <1>4 DEF Go, SocketInv, SocketTyped
  <1>6. Progress(p)'
    BY <1>1, <1>2, <1>5, SocketsDiffer DEF SocketInv, Progress, Before, Unproven, Proven, Ending
  <1>7. Placed(p)'
    BY <1>1, <1>5 DEF SocketInv, Placed
  <1> QED  BY <1>1, <1>4, <1>5, <1>6, <1>7, GoesOn DEF Places

LEMMA JudgeInv == ASSUME NEW p \in Processes, SocketInv, publish_judge(p) PROVE SocketInv'
  <1>1. pc[p] = "judge" /\
        UNCHANGED <<path, entries, restricted, started, held, bound, draws, rechecked, moves>>
    BY DEF publish_judge, At
  <1>2. bound[p] = [name |-> p, socket |-> Socket(p)] /\ entries[held[p]][p] = Socket(p)
        /\ Socket(p) \in restricted /\ held[p] \in Private
    BY <1>1 DEF SocketInv, Progress, Proven
  <1>3. judge_socket(p)
    BY <1>2 DEF judge_socket, Found
  <1>4. listening' = listening \cup {Socket(p)} /\ Go(p, "rename")
    BY <1>3 DEF publish_judge
  <1>5. pc'[p] = "rename"
    BY <1>4 DEF Go, SocketInv, SocketTyped
  <1>6. Progress(p)'
    BY <1>1, <1>2, <1>4, <1>5, SocketsDiffer DEF SocketInv, Progress, Before, Unproven, Proven, Ending
  <1>7. \A d \in Dirs, n \in Names : entries[d][n] = Socket(p) => d = held[p]
    BY <1>2, SocketsDiffer DEF SocketInv, Placed
  <1>8. Placed(p)'
    BY <1>1, <1>2, <1>4, <1>5, <1>7 DEF SocketInv, Placed
  <1> QED  BY <1>1, <1>4, <1>6, <1>8, GoesOn, SocketsDiffer DEF Places

LEMMA RenameInv == ASSUME NEW p \in Processes, SocketInv, rename_no_replace(p) PROVE SocketInv'
  <1>1. pc[p] = "rename" /\
        UNCHANGED <<path, restricted, listening, started, held, draws, rechecked, moves>>
    BY DEF rename_no_replace, At
  <1>2. bound[p] = [name |-> p, socket |-> Socket(p)] /\ entries[held[p]][p] = Socket(p)
        /\ Socket(p) \in restricted /\ Socket(p) \in listening /\ held[p] \in Private /\ p \in started
    BY <1>1 DEF SocketInv, Progress, Proven
  <1>3. Found(p) = Socket(p)
    BY <1>2 DEF Found
  <1>4. CASE Go(p, "close") /\ entries' = entries /\ bound' = bound
    <2>1. pc'[p] = "close"
      BY <1>4 DEF Go, SocketInv, SocketTyped
    <2>2. Progress(p)'
      BY <1>1, <1>2, <1>4, <2>1, SocketsDiffer DEF SocketInv, Progress, Before, Unproven, Proven, Ending
    <2>3. Placed(p)'
      BY <1>1, <1>2, <1>4, <2>1 DEF SocketInv, Placed
    <2> QED  BY <1>1, <1>4, <2>2, <2>3, GoesOn DEF Places
  <1>5. CASE /\ entries[held[p]]["name"] = None
             /\ entries' = [entries EXCEPT ![held[p]]["name"] = Socket(p), ![held[p]][p] = None]
             /\ bound' = [bound EXCEPT ![p].name = "name"] /\ Go(p, "serve")
    <2> DEFINE h == held[p]
    <2>1. h \in Dirs /\ p \in Names /\ "name" \in Names /\ p # "name" /\ p \notin Strays
      BY <1>2, SocketsDiffer
    <2>2. \A d \in Dirs, n \in Names :
             entries'[d][n] = IF d = h /\ n = p THEN None
                              ELSE IF d = h /\ n = "name" THEN Socket(p) ELSE entries[d][n]
      BY <1>5, <2>1 DEF SocketInv, SocketTyped
    <2>3. /\ bound'[p] = [name |-> "name", socket |-> Socket(p)] /\ pc'[p] = "serve"
          /\ \A q \in Processes : q # p => bound'[q] = bound[q] /\ pc'[q] = pc[q]
      BY <1>2, <1>5 DEF SocketInv, SocketTyped, Go
    <2>4. SocketTyped'
      <3>1. entries' \in [Dirs -> [Names -> Sockets \cup {File, None}]]
        BY <1>5, <2>1, SocketsDiffer DEF SocketInv, SocketTyped
      <3>2. bound' \in [Processes -> [name : Processes \cup {"name", None}, socket : Sockets \cup {None}]]
        BY <1>5 DEF SocketInv, SocketTyped
      <3>3. pc' \in [Processes -> Places]
        BY <1>5 DEF SocketInv, SocketTyped, Go, Places
      <3> QED  BY <1>1, <3>1, <3>2, <3>3 DEF SocketInv, SocketTyped
    <2> HIDE DEF h
    <2>5. NamesKept'
      BY <2>1, <2>2, SocketsDiffer DEF SocketInv, NamesKept
    <2>6. ASSUME NEW q \in Processes, q # p PROVE Progress(q)' /\ Placed(q)'
      <3>1. \A d \in Dirs, n \in Names : (entries'[d][n] = Socket(q)) <=> (entries[d][n] = Socket(q))
        <4>1. Socket(q) # Socket(p) /\ Socket(q) # None
          BY <2>6, SocketsDiffer
        <4>2. entries[h][p] = Socket(p) /\ entries[h]["name"] = None
          BY <1>2, <1>5 DEF h
        <4> QED  BY <2>1, <2>2, <4>1, <4>2
      <3>2. held[q] \in Dirs \cup {None} /\ q \in Names
        BY SocketsDiffer DEF SocketInv, SocketTyped
      <3>3. Progress(q)'
        BY <1>1, <2>3, <2>6, <3>1, <3>2, SocketsDiffer
           DEF SocketInv, Progress, Before, Unproven, Proven, Ending
      <3>4. Placed(q)'
        BY <1>1, <2>3, <2>6, <3>1, <3>2 DEF SocketInv, Placed
      <3> QED  BY <3>3, <3>4
    <2>7. \A d \in Dirs, n \in Names : entries'[d][n] = Socket(p) => d = h /\ n = "name"
      <3>1. \A d \in Dirs, n \in Names : entries[d][n] = Socket(p) => d = h /\ n = p
        BY <1>2, <2>1, SocketsDiffer DEF SocketInv, Placed, h
      <3> QED  BY <2>1, <2>2, <3>1, SocketsDiffer
    <2>8. Progress(p)'
      BY <1>1, <1>2, <2>3, SocketsDiffer DEF Progress, Before, Unproven, Proven, Ending
    <2>9. Placed(p)'
      BY <1>1, <1>2, <2>1, <2>3, <2>7, SocketsDiffer DEF Placed, h
    <2> QED  BY <2>4, <2>5, <2>6, <2>8, <2>9 DEF SocketInv
  <1> QED  BY <1>2, <1>3, <1>4, <1>5 DEF rename_no_replace, Fail

(* Whatever closes the socket: an error return, serve's return, a panic.    *)
LEMMA CloseInv == ASSUME NEW p \in Processes, SocketInv, close(p) PROVE SocketInv'
  <1>1. pc[p] = "close" /\ listening' = listening \ {Socket(p)} /\
        UNCHANGED <<path, entries, restricted, started, held, bound, draws, rechecked, moves>>
    BY DEF close, At
  <1>2. PICK place \in {"out", "remove"} :
           Go(p, place) /\ (place = "remove" <=> bound[p].socket # None)
    BY DEF close
  <1>3. pc'[p] = place
    BY <1>2 DEF Go, SocketInv, SocketTyped
  <1>4. p \in started /\ held[p] \in Private
    BY <1>1 DEF SocketInv, Progress
  <1>5. Progress(p)'
    BY <1>1, <1>2, <1>3, <1>4, SocketsDiffer DEF SocketInv, Progress, Before, Unproven, Proven, Ending
  <1>6. Placed(p)'
    BY <1>1 DEF SocketInv, Placed
  <1> QED  BY <1>1, <1>2, <1>5, <1>6, GoesOn, SocketsDiffer DEF Places

LEMMA KillInv == ASSUME NEW p \in Processes, SocketInv, Kill(p) PROVE SocketInv'
  <1>1. pc[p] # "out" /\ Go(p, "out") /\ listening' = listening \ {Socket(p)} /\
        UNCHANGED <<path, entries, restricted, started, held, bound, draws, rechecked, moves>>
    BY DEF Kill, Alive, At
  <1>2. pc'[p] = "out" /\ p \in started
    BY <1>1 DEF Go, SocketInv, SocketTyped, Progress
  <1>3. Progress(p)'
    BY <1>1, <1>2, SocketsDiffer DEF SocketInv, Progress, Before, Unproven, Proven, Ending
  <1>4. Placed(p)'
    BY <1>1 DEF SocketInv, Placed
  <1> QED  BY <1>1, <1>3, <1>4, GoesOn, SocketsDiffer DEF Places

LEMMA LookInv == ASSUME NEW p \in Processes, SocketInv, remove_look(p) PROVE SocketInv'
  <1>1. pc[p] = "remove" /\
        UNCHANGED <<path, entries, restricted, listening, started, held, bound, draws, rechecked, moves>>
    BY DEF remove_look, At
  <1>2. PICK place \in {"out", "unlink"} : Go(p, place) /\ (place = "unlink" => Same(p))
    BY DEF remove_look
  <1>3. pc'[p] = place
    BY <1>2 DEF Go, SocketInv, SocketTyped
  <1>4. bound[p].socket = Socket(p) /\ p \in started /\ held[p] \in Private
    BY <1>1 DEF SocketInv, Progress, Ending
  <1>5. place = "unlink" => entries[held[p]][bound[p].name] = Socket(p)
    BY <1>2, <1>4 DEF Same, Found
  <1>6. Progress(p)'
    BY <1>1, <1>3, <1>4, <1>5, SocketsDiffer DEF SocketInv, Progress, Before, Unproven, Proven, Ending
  <1>7. Placed(p)'
    BY <1>1 DEF SocketInv, Placed
  <1> QED  BY <1>1, <1>2, <1>6, <1>7, GoesOn DEF Places

(* A step by which one name of one directory loses its entry, or, at the    *)
(* published name, gains a file, while no process moves that needs it.      *)
Loses(h, m, e) ==
    /\ entries' = [entries EXCEPT ![h][m] = e]
    /\ e = File => m = "name"
    /\ UNCHANGED <<path, restricted, listening, started, held, bound, draws>> /\ moves' \in Nat
    /\ pc' \in [Processes -> Places]
    /\ \A q \in Processes : pc'[q] = pc[q] \/ (pc[q] = "unlink" /\ pc'[q] = "out")
    /\ \A q \in Processes : entries[h][m] = Socket(q) =>
          pc'[q] \notin Proven /\ (pc'[q] = "unlink" => m # bound[q].name \/ h # held[q])

LEMMA LosesEntry ==
    ASSUME SocketInv, NEW h \in Dirs, NEW m \in Names \ Strays, NEW e \in {None, File}, Loses(h, m, e)
    PROVE  SocketInv'
  <1> USE DEF Loses
  <1>1. \A d \in Dirs, n \in Names : entries'[d][n] = IF d = h /\ n = m THEN e ELSE entries[d][n]
    BY DEF SocketInv, SocketTyped
  <1>2. SocketTyped'
    <2>1. entries' \in [Dirs -> [Names -> Sockets \cup {File, None}]]
      BY DEF SocketInv, SocketTyped
    <2> QED  BY <2>1 DEF SocketInv, SocketTyped
  <1>3. NamesKept'
    BY <1>1, SocketsDiffer DEF SocketInv, NamesKept
  <1>4. ASSUME NEW q \in Processes PROVE Progress(q)' /\ Placed(q)'
    <2>1. \A d \in Dirs, n \in Names : entries'[d][n] = Socket(q) => entries[d][n] = Socket(q)
      BY <1>1, SocketsDiffer
    <2>2. (held[q] = None \/ held[q] \in Dirs) /\ q \in Names /\ "name" \in Names
      BY SocketsDiffer DEF SocketInv, SocketTyped
    <2>3. pc'[q] # "out" => pc'[q] = pc[q] /\ held[q] \in Dirs
      BY SocketsDiffer DEF SocketInv, Progress
    <2>4. pc'[q] \in Proven => entries'[held[q]][q] = Socket(q)
      <3>1. SUFFICES ASSUME pc'[q] \in Proven PROVE entries'[held[q]][q] = Socket(q)
        OBVIOUS
      <3>2. entries[held[q]][q] = Socket(q) /\ held[q] \in Dirs
        BY <2>3, <3>1 DEF SocketInv, Progress, Proven
      <3> QED  BY <1>1, <2>2, <3>1, <3>2
    <2>5. pc'[q] = "unlink" => entries'[held[q]][bound[q].name] = Socket(q)
      <3>1. SUFFICES ASSUME pc'[q] = "unlink" PROVE entries'[held[q]][bound[q].name] = Socket(q)
        OBVIOUS
      <3>2. entries[held[q]][bound[q].name] = Socket(q) /\ held[q] \in Dirs /\ bound[q].name \in {q, "name"}
        BY <2>3, <3>1 DEF SocketInv, Progress, Ending
      <3> QED  BY <1>1, <2>2, <3>1, <3>2
    <2>6. Progress(q)'
      BY <2>1, <2>2, <2>3, <2>4, <2>5, SocketsDiffer
         DEF SocketInv, Progress, Before, Unproven, Proven, Ending
    <2>7. Placed(q)'
      <3>1. Socket(q) \in listening => pc[q] # "unlink"
        BY DEF SocketInv, Placed
      <3> QED  BY <2>1, <2>2, <3>1 DEF SocketInv, Placed
    <2> QED  BY <2>6, <2>7
  <1> QED  BY <1>2, <1>3, <1>4 DEF SocketInv

LEMMA UnlinkInv == ASSUME NEW p \in Processes, SocketInv, remove_unlink(p) PROVE SocketInv'
  <1>1. /\ pc[p] = "unlink" /\ entries' = [entries EXCEPT ![held[p]][bound[p].name] = None] /\ Go(p, "out")
        /\ UNCHANGED <<path, restricted, listening, started, held, bound, draws, rechecked, moves>>
    BY DEF remove_unlink, At
  <1>2. /\ entries[held[p]][bound[p].name] = Socket(p) /\ held[p] \in Dirs
        /\ bound[p].name \in {p, "name"}
    BY <1>1, SocketsDiffer DEF SocketInv, Progress, Ending
  <1>3. /\ pc' \in [Processes -> Places] /\ pc'[p] = "out" /\ moves' \in Nat
        /\ \A q \in Processes : q # p => pc'[q] = pc[q]
    BY <1>1 DEF Go, SocketInv, SocketTyped, Places
  <1>4. \A q \in Processes : entries[held[p]][bound[p].name] = Socket(q) => q = p
    BY <1>2, SocketsDiffer
  <1>5. bound[p].name \in Names \ Strays
    BY <1>2, SocketsDiffer
  <1>6. \A q \in Processes : entries[held[p]][bound[p].name] = Socket(q) =>
           pc'[q] \notin Proven /\ pc'[q] # "unlink"
    BY <1>3, <1>4 DEF Proven
  <1>7. \A q \in Processes : pc'[q] = pc[q] \/ (pc[q] = "unlink" /\ pc'[q] = "out")
    BY <1>1, <1>3
  <1> DEFINE h == held[p]
             m == bound[p].name
  <1>8. h \in Dirs /\ m \in Names \ Strays /\ None \in {None, File} /\ (None = File => m = "name")
    BY <1>2, <1>5, SocketsDiffer
  <1>9. /\ entries' = [entries EXCEPT ![h][m] = None]
        /\ UNCHANGED <<path, restricted, listening, started, held, bound, draws>>
    BY <1>1
  <1>10. \A q \in Processes : entries[h][m] = Socket(q) =>
            pc'[q] \notin Proven /\ (pc'[q] = "unlink" => m # bound[q].name \/ h # held[q])
    BY <1>6
  <1> HIDE DEF h, m
  <1>11. Loses(h, m, None)
    BY <1>3, <1>7, <1>8, <1>9, <1>10 DEF Loses
  <1> QED  BY <1>8, <1>11, LosesEntry

LEMMA OthersInv == ASSUME SocketInv, Others PROVE SocketInv'
  <1>1. moves' \in Nat /\ pc \in [Processes -> Places]
    BY DEF Others, MoveDirectory, ClearStale, PutFile, Moved, SocketInv, SocketTyped
  <1>2. CASE MoveDirectory
    <2>1. path' \in Dirs \cup {None} /\
          UNCHANGED <<entries, restricted, listening, pc, started, held, bound, draws, rechecked>>
      BY <1>2 DEF MoveDirectory
    <2>2. SocketTyped' /\ NamesKept'
      BY <1>1, <2>1 DEF SocketInv, SocketTyped, NamesKept
    <2>3. \A p \in Processes : Progress(p)' /\ Placed(p)'
      BY <2>1 DEF SocketInv, Progress, Placed
    <2> QED  BY <2>2, <2>3 DEF SocketInv
  <1>3. \A q \in Processes, d \in Dirs : entries[d]["name"] = Socket(q) => pc[q] \notin Proven
    <2> SUFFICES ASSUME NEW q \in Processes, NEW d \in Dirs, entries[d]["name"] = Socket(q), pc[q] \in Proven
                 PROVE FALSE
      OBVIOUS
    <2>1. Placed(q) /\ Progress(q) /\ "name" \in Names
      BY SocketsDiffer DEF SocketInv
    <2>2. "name" = bound[q].name
      BY <2>1 DEF Placed
    <2>3. bound[q].name = q
      BY <2>1 DEF Progress
    <2> QED  BY <2>2, <2>3, SocketsDiffer
  <1>4. CASE ClearStale
    <2>1. UNCHANGED <<path, restricted, listening, pc, started, held, bound, draws, rechecked>>
      BY <1>4 DEF ClearStale
    <2>2. PICK d \in Dirs : /\ \A p \in Processes : Alive(p) => entries[d]["name"] # Socket(p)
                            /\ entries' = [entries EXCEPT ![d]["name"] = None]
      BY <1>4 DEF ClearStale
    <2>3. \A q \in Processes : entries[d]["name"] = Socket(q) => pc'[q] \notin Proven /\ pc'[q] # "unlink"
      BY <2>1, <2>2 DEF Alive, At, Proven
    <2>4. "name" \in Names \ Strays /\ None \in {None, File} /\ (None = File => "name" = "name")
      BY SocketsDiffer
    <2>5. UNCHANGED <<path, restricted, listening, started, held, bound, draws>> /\ pc' \in [Processes -> Places]
          /\ \A q \in Processes : pc'[q] = pc[q] \/ (pc[q] = "unlink" /\ pc'[q] = "out")
      BY <1>1, <2>1
    <2>6. \A q \in Processes : entries[d]["name"] = Socket(q) =>
             pc'[q] \notin Proven /\ (pc'[q] = "unlink" => "name" # bound[q].name \/ d # held[q])
      BY <2>3
    <2>7. Loses(d, "name", None)
      BY <1>1, <2>2, <2>4, <2>5, <2>6 DEF Loses
    <2> QED  BY <2>4, <2>7, LosesEntry
  <1>5. CASE PutFile
    <2>1. UNCHANGED <<path, restricted, listening, pc, started, held, bound, draws, rechecked>>
      BY <1>5 DEF PutFile
    <2>2. PICK d \in Dirs : /\ \A p \in Processes : At(p, "unlink") => held[p] # d \/ bound[p].name # "name"
                            /\ entries' = [entries EXCEPT ![d]["name"] = File]
      BY <1>5 DEF PutFile
    <2>3. \A q \in Processes : entries[d]["name"] = Socket(q) =>
             pc'[q] \notin Proven /\ (pc'[q] = "unlink" => "name" # bound[q].name \/ d # held[q])
      BY <1>3, <2>1, <2>2 DEF At
    <2>4. "name" \in Names \ Strays /\ File \in {None, File} /\ (File = File => "name" = "name")
      BY SocketsDiffer
    <2>5. UNCHANGED <<path, restricted, listening, started, held, bound, draws>> /\ pc' \in [Processes -> Places]
          /\ \A q \in Processes : pc'[q] = pc[q] \/ (pc[q] = "unlink" /\ pc'[q] = "out")
      BY <1>1, <2>1
    <2>6. Loses(d, "name", File)
      BY <1>1, <2>2, <2>3, <2>4, <2>5 DEF Loses
    <2> QED  BY <2>4, <2>6, LosesEntry
  <1> QED  BY <1>2, <1>4, <1>5 DEF Others

(* serve returns, or a panic unwinds out of it.                             *)
LEMMA ServeEnds ==
    ASSUME SocketInv, NEW p \in Processes, pc[p] = "serve", Go(p, "close"),
           UNCHANGED <<path, entries, restricted, listening, started, held, bound, draws, moves>>
    PROVE  SocketInv'
  <1>1. pc'[p] = "close"
    BY DEF Go, SocketInv, SocketTyped
  <1>2. bound[p] = [name |-> "name", socket |-> Socket(p)] /\ p \in started /\ held[p] \in Private
    BY DEF SocketInv, Progress
  <1>3. Progress(p)'
    BY <1>1, <1>2, SocketsDiffer DEF Progress, Before, Unproven, Proven, Ending
  <1>4. Placed(p)'
    BY <1>1, <1>2 DEF SocketInv, Placed
  <1> QED  BY <1>3, <1>4, GoesOn DEF Places

(* What a step of the daemon is to its socket.                              *)
LEMMA SocketSteps ==
    ASSUME SocketInv, [Next]_vars
    PROVE  \/ UNCHANGED socketVars
           \/ Others
           \/ \E p \in Processes : \/ PrivateDir_open(p) \/ Publish(p) \/ Remove(p) \/ Kill(p)
                                   \/ /\ pc[p] = "serve" /\ Go(p, "close")
                                      /\ UNCHANGED listening /\ Keep
  <1>1. CASE UNCHANGED vars
    BY <1>1 DEF vars
  <1>2. ASSUME NEW p \in Processes, Start(p) \/ Bind(p) \/ Close(p) \/ Killed(p)
        PROVE  PrivateDir_open(p) \/ Publish(p) \/ Remove(p) \/ Kill(p)
    BY <1>2 DEF Start, Bind, Close, Killed, Remove
  <1>3. ASSUME NEW p \in Processes, serve_returns(p) \/ Shutdown(p) \/ accept(p) \/ serve_stops(p) \/ read(p) \/ answer(p)
        PROVE  \/ UNCHANGED socketVars
               \/ pc[p] = "serve" /\ Go(p, "close") /\ UNCHANGED listening /\ Keep
    <2>1. CASE serve_returns(p) \/ serve_stops(p)
      BY <2>1 DEF serve_returns, serve_stops, Serving, At
    <2>2. CASE Shutdown(p) \/ accept(p) \/ read(p)
      BY <2>2 DEF Shutdown, accept, read, Keep, socketVars
    <2>3. CASE answer(p)
      BY <2>3 DEF answer, At, Keep, socketVars
    <2> QED  BY <1>3, <2>1, <2>2, <2>3
  <1>4. ASSUME NEW c \in Clients, Connect(c) \/ Send(c) \/ EndInput(c) PROVE UNCHANGED socketVars
    BY <1>4 DEF Connect, Send, EndInput
  <1> QED  BY <1>1, <1>2, <1>3, <1>4 DEF Next, Serve

LEMMA SocketStep == SocketInv /\ [Next]_vars => SocketInv'
  <1> SUFFICES ASSUME SocketInv, [Next]_vars PROVE SocketInv'
    OBVIOUS
  <1>1. CASE UNCHANGED socketVars
    <2>1. SocketTyped' /\ NamesKept'
      BY <1>1 DEF SocketInv, SocketTyped, NamesKept, socketVars
    <2>2. \A p \in Processes : Progress(p)' /\ Placed(p)'
      BY <1>1 DEF SocketInv, Progress, Placed, socketVars
    <2> QED  BY <2>1, <2>2 DEF SocketInv
  <1>2. ASSUME NEW p \in Processes, Publish(p) PROVE SocketInv'
    BY <1>2, EarlyInv, TemporaryInv, RecheckInv, FindInv, RestrictInv, JudgeInv, RenameInv DEF Publish
  <1>3. ASSUME NEW p \in Processes, Remove(p) PROVE SocketInv'
    BY <1>3, CloseInv, LookInv, UnlinkInv DEF Remove
  <1>4. ASSUME NEW p \in Processes, pc[p] = "serve", Go(p, "close"), UNCHANGED listening, Keep
        PROVE  SocketInv'
    BY <1>4, ServeEnds DEF Keep
  <1> QED  BY <1>1, <1>2, <1>3, <1>4, SocketSteps, OthersInv, OpenInv, KillInv

LEMMA SocketStart == Init => SocketInv
  <1> SUFFICES ASSUME Init PROVE SocketInv
    OBVIOUS
  <1>1. /\ path = Home /\ listening = {} /\ restricted = {}
        /\ entries = [d \in Dirs |-> [n \in Names |-> IF n \in Strays THEN Left ELSE None]]
        /\ pc = [p \in Processes |-> "out"] /\ started \in SUBSET Processes
        /\ held = [p \in Processes |-> None] /\ bound = [p \in Processes |-> NoEntry]
        /\ draws = [p \in Processes |-> 0] /\ moves \in 0..MaxMoves
    BY DEF Init, SocketInit
  <1>2. SocketTyped
    <2>1. entries \in [Dirs -> [Names -> Sockets \cup {File, None}]]
      BY <1>1, SocketsDiffer
    <2>2. bound \in [Processes -> [name : Processes \cup {"name", None}, socket : Sockets \cup {None}]]
      BY <1>1 DEF NoEntry
    <2> QED  BY <1>1, <2>1, <2>2, SocketsDiffer DEF SocketTyped, Places
  <1>3. NamesKept
    BY <1>1, SocketsDiffer DEF NamesKept
  <1>4. \A d \in Dirs, n \in Names, p \in Processes : entries[d][n] # Socket(p)
    BY <1>1, SocketsDiffer
  <1>5. ASSUME NEW p \in Processes PROVE Progress(p) /\ Placed(p)
    <2>1. pc[p] = "out" /\ bound[p] = NoEntry
      BY <1>1
    <2>2. Progress(p)
      BY <1>1, <2>1, SocketsDiffer DEF Progress, NoEntry, Before, Unproven, Proven, Ending
    <2>3. Placed(p)
      BY <1>1, <1>4, SocketsDiffer DEF Placed
    <2> QED  BY <2>2, <2>3
  <1> QED  BY <1>2, <1>3, <1>5 DEF SocketInv

(* The invariant of the processes that publish at one name (private_socket. *)
(* rs): what a process has bound, made and shown by each place of publish   *)
(* and close, and that its socket is at the one place that follows from it. *)
THEOREM SocketInvariant == Spec => []SocketInv
  BY SocketStart, SocketStep, PTL DEF Spec

(* A client that finds the name finds a 0600 socket that accepts, in the    *)
(* directory that was judged (publish of private_socket.rs), for any number *)
(* of processes, directories, renames, replaced entries and kills.          *)
THEOREM ReadySockets == Spec => []PublishedIsReady
  <1>1. SocketInv => PublishedIsReady
    <2> SUFFICES ASSUME SocketInv PROVE PublishedIsReady
      OBVIOUS
    <2>1. ASSUME NEW d \in Dirs, NEW p \in Processes, entries[d]["name"] = Socket(p)
          PROVE  Socket(p) \in restricted /\ (At(p, "serve") => Socket(p) \in listening /\ held[p] = d)
      <3>1. Progress(p) /\ Placed(p) /\ "name" \in Names
        BY SocketsDiffer DEF SocketInv
      <3>2. held[p] = d /\ Socket(p) \in restricted
        BY <2>1, <3>1 DEF Placed
      <3>3. At(p, "serve") => Socket(p) \in listening
        BY <3>1 DEF Progress, At
      <3> QED  BY <3>2, <3>3
    <2>2. ASSUME NEW p \in Processes, Socket(p) \in listening
          PROVE  /\ Socket(p) \in restricted
                 /\ \A d \in Dirs \ {held[p]}, n \in Names : entries[d][n] # Socket(p)
                 /\ held[p] \in Private
      BY <2>2 DEF SocketInv, Progress, Placed
    <2> QED  BY <2>1, <2>2 DEF PublishedIsReady
  <1> QED  BY <1>1, SocketInvariant, PTL

OwnRemoved ==
    moves' = moves =>
        \A d \in Dirs, n \in Names :
            entries[d][n] # None /\ entries'[d][n] # entries[d][n] =>
                \E p \in Processes : entries[d][n] = Socket(p) /\ pc'[p] # pc[p]

NothingLeft ==
    \A p \in Processes :
        pc[p] \in {"close", "remove", "unlink"} /\ pc'[p] = "out" /\ Remove(p) =>
            \A n \in Names : entries'[held[p]][n] # Socket(p)

LEMMA OwnRemovedStep == ASSUME SocketInv, [Next]_vars PROVE OwnRemoved
  <1>1. CASE entries' = entries
    BY <1>1 DEF OwnRemoved
  <1>2. CASE moves' # moves
    BY <1>2 DEF OwnRemoved
  <1>3. ASSUME NEW p \in Processes, choose_temporary(p), entries' # entries PROVE OwnRemoved
    <2>1. PICK t : path # None /\ entries[path][t] = None /\ entries' = [entries EXCEPT ![path][t] = Socket(p)]
      BY <1>3 DEF choose_temporary
    <2>2. \A d \in Dirs, n \in Names : entries[d][n] # None => entries'[d][n] = entries[d][n]
      BY <2>1 DEF SocketInv, SocketTyped
    <2> QED  BY <2>2 DEF OwnRemoved
  <1>4. ASSUME NEW p \in Processes, rename_no_replace(p), entries' # entries PROVE OwnRemoved
    <2>1. /\ pc[p] = "rename" /\ entries[held[p]]["name"] = None /\ Go(p, "serve")
          /\ entries' = [entries EXCEPT ![held[p]]["name"] = Found(p), ![held[p]][bound[p].name] = None]
      BY <1>4 DEF rename_no_replace, At
    <2>2. bound[p].name = p /\ entries[held[p]][p] = Socket(p) /\ held[p] \in Dirs
      <3>1. Progress(p) /\ pc[p] \in Proven
        BY <2>1 DEF SocketInv, Proven
      <3>2. bound[p] = [name |-> p, socket |-> Socket(p)] /\ entries[held[p]][p] = Socket(p) /\ held[p] \in Private
        BY <2>1, <3>1 DEF Progress
      <3> QED  BY <3>2, SocketsDiffer
    <2>3. pc'[p] # pc[p]
      BY <2>1 DEF Go, SocketInv, SocketTyped
    <2>4. \A d \in Dirs, n \in Names :
             entries[d][n] # None /\ entries'[d][n] # entries[d][n] => d = held[p] /\ n = p
      BY <2>1, <2>2, SocketsDiffer DEF SocketInv, SocketTyped
    <2> QED  BY <2>2, <2>3, <2>4 DEF OwnRemoved
  <1>5. ASSUME NEW p \in Processes, remove_unlink(p) PROVE OwnRemoved
    <2>1. pc[p] = "unlink" /\ Go(p, "out") /\ entries' = [entries EXCEPT ![held[p]][bound[p].name] = None]
      BY <1>5 DEF remove_unlink, At
    <2>2. entries[held[p]][bound[p].name] = Socket(p) /\ held[p] \in Dirs
      BY <2>1, SocketsDiffer DEF SocketInv, Progress
    <2>3. pc'[p] # pc[p]
      BY <2>1 DEF Go, SocketInv, SocketTyped
    <2>4. \A d \in Dirs, n \in Names : entries'[d][n] # entries[d][n] => d = held[p] /\ n = bound[p].name
      BY <2>1, <2>2 DEF SocketInv, SocketTyped
    <2> QED  BY <2>2, <2>3, <2>4 DEF OwnRemoved
  <1>6. Others => moves' # moves
    BY DEF Others, MoveDirectory, ClearStale, PutFile, Moved, SocketInv, SocketTyped
  <1>7. UNCHANGED socketVars => entries' = entries
    BY DEF socketVars
  <1>8. ASSUME NEW p \in Processes,
               \/ PrivateDir_open(p) \/ Kill(p) \/ publish_reconfirm(p) \/ publish_look(p) \/ publish_recheck(p)
               \/ publish_find(p) \/ restrict_to_owner(p) \/ publish_judge(p) \/ close(p) \/ remove_look(p) \/ Keep
        PROVE  entries' = entries
    BY <1>8 DEF PrivateDir_open, Kill, publish_reconfirm, publish_look, publish_recheck, publish_find,
                restrict_to_owner, publish_judge, close, remove_look, Keep
  <1> QED  BY <1>1, <1>2, <1>3, <1>4, <1>5, <1>6, <1>7, <1>8, SocketSteps DEF Publish, Remove

LEMMA NothingLeftStep == ASSUME SocketInv PROVE NothingLeft
  <1> SUFFICES ASSUME NEW p \in Processes, pc'[p] = "out", Remove(p), NEW n \in Names
               PROVE  entries'[held[p]][n] # Socket(p)
    BY DEF NothingLeft
  <1>1. pc[p] # "out"
    BY DEF Remove, close, remove_look, remove_unlink, At
  <1>2. held[p] \in Dirs /\ pc \in [Processes -> Places]
    BY <1>1, SocketsDiffer DEF SocketInv, Progress, SocketTyped
  <1>3. entries[held[p]][n] = Socket(p) => n = bound[p].name
    BY <1>2 DEF SocketInv, Placed
  <1>4. CASE close(p)
    <2>1. pc[p] = "close" /\ entries' = entries /\ bound[p].socket = None
      BY <1>2, <1>4 DEF close, At, Go
    <2> QED  BY <2>1, SocketsDiffer, ZenonT(40) DEF SocketInv, Progress
  <1>5. CASE remove_look(p)
    <2>1. pc[p] = "remove" /\ entries' = entries /\ ~Same(p)
      BY <1>2, <1>5 DEF remove_look, At, Go
    <2>2. bound[p].socket = Socket(p)
      BY <2>1 DEF SocketInv, Progress, Ending
    <2> QED  BY <1>3, <2>1, <2>2 DEF Same, Found
  <1>6. CASE remove_unlink(p)
    <2>1. entries' = [entries EXCEPT ![held[p]][bound[p].name] = None]
      BY <1>6 DEF remove_unlink
    <2>2. entries'[held[p]][n] = IF n = bound[p].name THEN None ELSE entries[held[p]][n]
      BY <1>2, <2>1 DEF SocketInv, SocketTyped
    <2> QED  BY <1>3, <2>2, SocketsDiffer
  <1> QED  BY <1>4, <1>5, <1>6 DEF Remove

(* What a process puts into a directory it takes out again, and nothing     *)
(* else (BoundEntry::remove and publish of private_socket.rs), whoever      *)
(* renames, replaces or fills the directory meanwhile.                      *)
THEOREM ExactSockets == Spec => SocketsAreExact
  <1>1. SocketInv /\ [Next]_vars => [OwnRemoved]_socketVars
    BY OwnRemovedStep
  <1>2. SocketInv /\ [Next]_vars => [NothingLeft]_socketVars
    BY NothingLeftStep
  <1>3. Spec => [][OwnRemoved]_socketVars
    BY <1>1, SocketInvariant, PTL DEF Spec
  <1>4. Spec => [][NothingLeft]_socketVars
    BY <1>2, SocketInvariant, PTL DEF Spec
  <1> QED  BY <1>3, <1>4 DEF SocketsAreExact, OnlyOwnRemoved, LeavesNothing, OwnRemoved, NothingLeft

-----------------------------------------------------------------------------
(* Conversations.  The lines a client sent are the ones answered, the ones  *)
(* its daemon has read and the ones in the stream, in this order; a reply   *)
(* that is not written, and a line that ends the conversation, end it.      *)

LEMMA Split ==
    ASSUME NEW S, NEW s \in Seq(S), NEW k \in 1..Len(s)
    PROVE  /\ SubSeq(s, 1, k) \in Seq(S) /\ Len(SubSeq(s, 1, k)) = k
           /\ \A i \in 1..k : SubSeq(s, 1, k)[i] = s[i]
           /\ SubSeq(s, k + 1, Len(s)) \in Seq(S) /\ Len(SubSeq(s, k + 1, Len(s))) = Len(s) - k
           /\ \A i \in 1..(Len(s) - k) : SubSeq(s, k + 1, Len(s))[i] = s[k + i]
  OBVIOUS

LEMMA Rest ==
    ASSUME NEW S, NEW s \in Seq(S), s # <<>>
    PROVE  /\ Head(s) = s[1] /\ Head(s) \in S /\ Tail(s) \in Seq(S) /\ Len(Tail(s)) = Len(s) - 1 /\ Len(s) \in Nat \ {0}
           /\ \A i \in 1..(Len(s) - 1) : Tail(s)[i] = s[i + 1]
  OBVIOUS

LEMMA More ==
    ASSUME NEW S, NEW s \in Seq(S), NEW x \in S
    PROVE  /\ Append(s, x) \in Seq(S) /\ Len(Append(s, x)) = Len(s) + 1 /\ Append(s, x)[Len(s) + 1] = x
           /\ \A i \in 1..Len(s) : Append(s, x)[i] = s[i]
  OBVIOUS

LEMMA ReplyTyped == ASSUME NEW i \in Nat, NEW k \in Lines PROVE Reply(i, k) \in Replies
  <1>1. k \in LineKinds
    BY ControllerAssumption
  <1>2. Code[k] \in Int
    BY <1>1 DEF Code
  <1> QED  BY <1>2 DEF Reply, Replies

(* A client none of whose streams move, and a daemon that goes on with it.  *)
LEMMA SameStream ==
    ASSUME NEW c \in Clients, Stream(c), sent'[c] = sent[c], inbox'[c] = inbox[c], got'[c] = got[c],
           phase'[c] \in {phase[c], "closed"}
    PROVE  Stream(c)'
  BY DEF Stream, Taken

LEMMA SameTalk ==
    ASSUME NEW p \in Processes, Talk(p), talking'[p] = talking[p], buffer'[p] = buffer[p],
           pc'[p] = pc[p] \/ talking[p] = None,
           talking[p] # None =>
              LET c == talking[p] IN
              /\ phase'[c] = phase[c] /\ server'[c] = server[c] /\ sent'[c] = sent[c]
              /\ inbox'[c] = inbox[c] /\ got'[c] = got[c]
    PROVE  Talk(p)'
  BY DEF Talk, Taken

LEMMA TalkStart == Init => TalkInv
  <1> SUFFICES ASSUME Init PROVE TalkInv
    OBVIOUS
  <1>1. TalkTyped
    BY DEF Init, TalkTyped
  <1>2. \A c \in Clients : Stream(c)
    BY DEF Init, Stream, Taken
  <1>3. \A p \in Processes : Talk(p)
    BY DEF Init, Talk
  <1> QED  BY <1>1, <1>2, <1>3 DEF TalkInv

(* Steps that leave the clients and the conversations alone.                *)
LEMMA QuietInv ==
    ASSUME TalkInv, UNCHANGED <<clientVars, talkVars>>, stop' \in [Processes -> BOOLEAN],
           \A p \in Processes : pc'[p] = pc[p] \/ talking[p] = None
    PROVE  TalkInv'
  <1>1. TalkTyped'
    BY DEF TalkInv, TalkTyped, clientVars, talkVars
  <1>2. \A c \in Clients : Stream(c)'
    BY DEF TalkInv, Stream, Taken, clientVars
  <1>3. \A p \in Processes : Talk(p)'
    BY DEF TalkInv, Talk, Taken, clientVars, talkVars
  <1> QED  BY <1>1, <1>2, <1>3 DEF TalkInv

(* The stream's end, by either side: the daemon p has no conversation.      *)
LEMMA HangUpInv ==
    ASSUME NEW p \in Processes, TalkInv, SocketInv, HangUp(p), stop' = stop,
           \A q \in Processes : q # p => pc'[q] = pc[q]
    PROVE  TalkInv'
  <1>1. /\ phase' = [c \in Clients |->
                       IF server[c] = Socket(p) /\ phase[c] # "none" THEN "closed" ELSE phase[c]]
        /\ talking' = [talking EXCEPT ![p] = None] /\ buffer' = [buffer EXCEPT ![p] = <<>>]
        /\ UNCHANGED <<server, sent, inbox, ended, got>>
    BY DEF HangUp
  <1>2. TalkTyped'
    BY <1>1 DEF TalkInv, TalkTyped
  <1>3. ASSUME NEW c \in Clients PROVE Stream(c)'
    BY <1>1, <1>3, SameStream DEF TalkInv
  <1>4. Talk(p)'
    BY <1>1 DEF TalkInv, TalkTyped, Talk
  <1>5. ASSUME NEW q \in Processes, q # p PROVE Talk(q)'
    <2>1. talking'[q] = talking[q] /\ buffer'[q] = buffer[q] /\ Talk(q) /\ pc'[q] = pc[q]
      BY <1>1, <1>5 DEF TalkInv, TalkTyped
    <2>2. CASE talking[q] = None
      BY <2>1, <2>2, SameTalk
    <2>3. CASE talking[q] # None
      <3> DEFINE c == talking[q]
      <3>1. c \in Clients /\ server[c] = Socket(q)
        BY <2>3 DEF TalkInv, TalkTyped, Talk
      <3>2. phase'[c] = phase[c]
        BY <1>1, <1>5, <3>1, SocketsDiffer
      <3> HIDE DEF c
      <3>3. /\ phase'[c] = phase[c] /\ server'[c] = server[c] /\ sent'[c] = sent[c]
            /\ inbox'[c] = inbox[c] /\ got'[c] = got[c]
        BY <1>1, <3>2
      <3> QED  BY <2>1, <3>3, SameTalk DEF c
    <2> QED  BY <2>2, <2>3
  <1> QED  BY <1>2, <1>3, <1>4, <1>5 DEF TalkInv

(* A step of one client that no daemon converses with yet.                  *)
LEMMA AcceptInv == ASSUME NEW p \in Processes, TalkInv, accept(p) PROVE TalkInv'
  <1>1. /\ pc[p] = "serve" /\ talking[p] = None
        /\ UNCHANGED <<pc, listening, stop, server, sent, inbox, ended, got, buffer>>
    BY DEF accept, Serving, At
  <1>2. PICK c \in Clients :
           /\ phase[c] = "queued" /\ server[c] = Socket(p)
           /\ \/ /\ c \notin Foreign /\ phase' = [phase EXCEPT ![c] = "served"]
                 /\ talking' = [talking EXCEPT ![p] = c]
              \/ phase' = [phase EXCEPT ![c] = "closed"] /\ talking' = talking
    BY DEF accept, check_peer_uid
  <1>3. TalkTyped'
    <2>1. phase' \in [Clients -> {"none", "queued", "served", "closed"}]
      BY <1>2 DEF TalkInv, TalkTyped
    <2>2. talking' \in [Processes -> Clients \cup {None}]
      BY <1>2 DEF TalkInv, TalkTyped
    <2> QED  BY <1>1, <2>1, <2>2 DEF TalkInv, TalkTyped
  <1>4. got[c] = <<>> /\ inbox[c] = sent[c] /\ Taken(c) = 0 /\ Taken(c)' = 0 /\ buffer[p] = <<>>
    BY <1>1, <1>2 DEF TalkInv, TalkTyped, Stream, Taken, Talk
  <1>5. \A d \in Clients : d # c => phase'[d] = phase[d]
    BY <1>2 DEF TalkInv, TalkTyped
  <1>6. phase'[c] = "closed" \/ (phase'[c] = "served" /\ c \notin Foreign /\ talking'[p] = c)
    BY <1>2 DEF TalkInv, TalkTyped
  <1>7. ASSUME NEW d \in Clients PROVE Stream(d)'
    <2>1. CASE d # c
      BY <1>1, <1>5, <1>7, <2>1, SameStream DEF TalkInv
    <2>2. CASE d = c
      BY <1>1, <1>4, <1>6, <2>2 DEF TalkInv, Stream
    <2> QED  BY <2>1, <2>2
  <1>8. ASSUME NEW q \in Processes PROVE Talk(q)'
    <2>1. CASE talking'[q] = talking[q]
      <3>1. talking[q] # None => talking[q] # c /\ talking[q] \in Clients
        BY <1>2 DEF TalkInv, TalkTyped, Talk
      <3>2. talking[q] # None => phase'[talking[q]] = phase[talking[q]]
        BY <1>5, <3>1
      <3> QED  BY <1>1, <2>1, <3>2, SameTalk DEF TalkInv
    <2>2. CASE talking'[q] # talking[q]
      <3>1. q = p /\ talking'[p] = c /\ phase'[c] = "served" /\ server[c] = Socket(p)
        BY <1>2, <2>2 DEF TalkInv, TalkTyped
      <3>2. Len(buffer[p]) = 0 /\ Len(got[c]) = 0
        BY <1>4
      <3>3. c # None
        BY ControllerAssumption
      <3>4. /\ buffer'[p] = <<>> /\ pc'[p] = "serve" /\ Len(buffer'[p]) = 0 /\ Len(got'[c]) = 0
            /\ server'[c] = Socket(p)
        BY <1>1, <1>4, <3>1, <3>2
      <3>5. Talk(p)'
        BY <1>4, <3>1, <3>3, <3>4 DEF Talk
      <3> QED  BY <3>1, <3>5
    <2> QED  BY <2>1, <2>2
  <1> QED  BY <1>3, <1>7, <1>8 DEF TalkInv

LEMMA ConnectInv == ASSUME NEW c \in Clients, TalkInv, SocketInv, Connect(c) PROVE TalkInv'
  <1>1. /\ phase[c] = "none" /\ phase' = [phase EXCEPT ![c] = "queued"]
        /\ path # None /\ server' = [server EXCEPT ![c] = entries[path]["name"]]
        /\ UNCHANGED <<socketVars, stop, sent, inbox, ended, got, talkVars>>
    BY DEF Connect
  <1>2. entries[path]["name"] \in Sockets \cup {File, None} /\ pc' = pc
    BY <1>1, SocketsDiffer DEF SocketInv, SocketTyped, socketVars
  <1>3. TalkTyped'
    BY <1>1, <1>2 DEF TalkInv, TalkTyped, talkVars
  <1>4. phase'[c] = "queued" /\ \A d \in Clients : d # c => phase'[d] = phase[d] /\ server'[d] = server[d]
    BY <1>1 DEF TalkInv, TalkTyped
  <1>5. ASSUME NEW d \in Clients PROVE Stream(d)'
    <2>1. CASE d # c
      BY <1>1, <1>4, <1>5, <2>1, SameStream DEF TalkInv
    <2>2. CASE d = c
      <3>1. sent'[c] = sent[c] /\ inbox'[c] = inbox[c] /\ got'[c] = got[c] /\ Taken(c)' = Taken(c)
        BY <1>1 DEF Taken
      <3>2. Stream(c) /\ got[c] = <<>> /\ inbox[c] = sent[c]
        BY <1>1 DEF TalkInv, Stream
      <3>3. Stream(c)'
        BY <1>4, <3>1, <3>2 DEF Stream
      <3> QED  BY <2>2, <3>3
    <2> QED  BY <2>1, <2>2
  <1>6. ASSUME NEW q \in Processes PROVE Talk(q)'
    <2>1. talking'[q] = talking[q] /\ buffer'[q] = buffer[q] /\ pc'[q] = pc[q] /\ Talk(q)
      BY <1>1, <1>2 DEF talkVars, TalkInv
    <2>2. talking[q] # None => talking[q] # c /\ talking[q] \in Clients
      BY <1>1 DEF TalkInv, TalkTyped, Talk
    <2>3. talking[q] # None =>
            phase'[talking[q]] = phase[talking[q]] /\ server'[talking[q]] = server[talking[q]]
      BY <1>4, <2>2
    <2> QED  BY <1>1, <2>1, <2>3, SameTalk
  <1> QED  BY <1>3, <1>5, <1>6 DEF TalkInv

LEMMA SendInv == ASSUME NEW c \in Clients, TalkInv, Send(c) PROVE TalkInv'
  <1>1. UNCHANGED <<socketVars, stop, phase, server, ended, got, talkVars>>
    BY DEF Send
  <1>2. PICK k \in Lines : /\ sent' = [sent EXCEPT ![c] = Append(sent[c], k)]
                           /\ inbox' = [inbox EXCEPT ![c] = Append(inbox[c], k)]
    BY DEF Send
  <1>3. sent[c] \in Seq(Lines) /\ inbox[c] \in Seq(Lines) /\ got[c] \in Seq(Replies)
    BY DEF TalkInv, TalkTyped
  <1>4. /\ sent'[c] = Append(sent[c], k) /\ inbox'[c] = Append(inbox[c], k) /\ got'[c] = got[c]
        /\ \A d \in Clients : d # c => sent'[d] = sent[d] /\ inbox'[d] = inbox[d]
    BY <1>1, <1>2 DEF TalkInv, TalkTyped
  <1>5. TalkTyped'
    BY <1>1, <1>2, <1>3, More DEF TalkInv, TalkTyped, talkVars
  <1>6. /\ Len(sent'[c]) = Len(sent[c]) + 1 /\ sent'[c][Len(sent[c]) + 1] = k
        /\ \A i \in 1..Len(sent[c]) : sent'[c][i] = sent[c][i]
        /\ Len(inbox'[c]) = Len(inbox[c]) + 1 /\ inbox'[c][Len(inbox[c]) + 1] = k
        /\ \A i \in 1..Len(inbox[c]) : inbox'[c][i] = inbox[c][i]
    BY <1>3, <1>4, More
  <1>7. Len(sent[c]) \in Nat /\ Len(inbox[c]) \in Nat /\ Len(got[c]) \in Nat
    BY <1>3
  <1>8. Taken(c)' = Taken(c) /\ Taken(c) \in Int /\ Len(got[c]) <= Taken(c) /\ Taken(c) <= Len(sent[c])
    <2>1. Taken(c) = Len(sent[c]) - Len(inbox[c]) /\ Taken(c)' = Len(sent'[c]) - Len(inbox'[c])
      BY DEF Taken
    <2>2. Len(got[c]) <= Taken(c)
      BY DEF TalkInv, Stream
    <2>3. Len(sent'[c]) = Len(sent[c]) + 1 /\ Len(inbox'[c]) = Len(inbox[c]) + 1
      BY <1>6
    <2>4. \A a, b \in Nat : (a + 1) - (b + 1) = a - b /\ a - b \in Int /\ a - b <= a
      OBVIOUS
    <2> QED  BY <1>7, <2>1, <2>2, <2>3, <2>4
  <1>9. Stream(c)'
    <2>1. \A i \in 1..Len(inbox'[c]) : inbox'[c][i] = sent'[c][Taken(c) + i]
      <3> SUFFICES ASSUME NEW i \in 1..Len(inbox'[c]) PROVE inbox'[c][i] = sent'[c][Taken(c) + i]
        OBVIOUS
      <3>1. CASE i = Len(inbox[c]) + 1
        <4>1. Taken(c) + i = Len(sent[c]) + 1
          <5>1. \A a, b \in Nat : (a - b) + (b + 1) = a + 1
            OBVIOUS
          <5> QED  BY <1>7, <3>1, <5>1 DEF Taken
        <4> QED  BY <1>6, <3>1, <4>1
      <3>2. CASE i # Len(inbox[c]) + 1
        <4>1. i \in 1..Len(inbox[c]) /\ Taken(c) + i \in 1..Len(sent[c])
          <5>1. \A a, b \in Nat, t, g \in Int :
                   t = a - b /\ 0 <= t /\ i \in 1..(b + 1) /\ i # b + 1 => i \in 1..b /\ t + i \in 1..a
            OBVIOUS
          <5>2. 0 <= Taken(c) /\ Taken(c) = Len(sent[c]) - Len(inbox[c]) /\ i \in 1..(Len(inbox[c]) + 1)
            <6>1. Len(inbox'[c]) = Len(inbox[c]) + 1
              BY <1>6
            <6>2. \A g \in Nat, t \in Int : g <= t => 0 <= t
              OBVIOUS
            <6>3. 0 <= Taken(c)
              BY <1>7, <1>8, <6>2
            <6> QED  BY <6>1, <6>3 DEF Taken
          <5> QED  BY <1>7, <1>8, <3>2, <5>1, <5>2
        <4>2. inbox[c][i] = sent[c][Taken(c) + i]
          BY <4>1 DEF TalkInv, Stream
        <4> QED  BY <1>6, <4>1, <4>2
      <3> QED  BY <3>1, <3>2
    <2>2. \A i \in 1..Len(got[c]) : sent'[c][i] = sent[c][i]
      <3>1. \A a, b \in Nat, t \in Int : a <= t /\ t <= b => \A i \in 1..a : i \in 1..b
        OBVIOUS
      <3>2. \A i \in 1..Len(got[c]) : i \in 1..Len(sent[c])
        BY <1>7, <1>8, <3>1
      <3> QED  BY <1>6, <3>2
    <2>3. Stream(c)
      BY DEF TalkInv
    <2>4. phase[c] \in {"none", "queued"} \/ c \in Foreign => inbox'[c] = sent'[c]
      BY <1>4, <2>3 DEF Stream
    <2> QED  BY <1>1, <1>4, <1>8, <2>1, <2>2, <2>3, <2>4 DEF Stream
  <1>10. ASSUME NEW d \in Clients PROVE Stream(d)'
    <2>1. CASE d # c
      BY <1>1, <1>4, <1>10, <2>1, SameStream DEF TalkInv
    <2> QED  BY <1>9, <2>1
  <1>11. ASSUME NEW q \in Processes PROVE Talk(q)'
    <2>1. talking'[q] = talking[q] /\ buffer'[q] = buffer[q] /\ pc'[q] = pc[q] /\ Talk(q)
          /\ buffer[q] \in Seq(Lines)
      BY <1>1 DEF talkVars, socketVars, TalkInv, TalkTyped
    <2>2. CASE talking[q] # c
      <3>1. talking[q] # None =>
              sent'[talking[q]] = sent[talking[q]] /\ inbox'[talking[q]] = inbox[talking[q]]
        BY <1>4, <2>2 DEF TalkInv, TalkTyped
      <3> QED  BY <1>1, <2>1, <3>1, SameTalk
    <2>3. CASE talking[q] = c
      <3>1. c # None
        BY ControllerAssumption
      <3>2. /\ pc[q] = "serve" /\ phase[c] = "served" /\ server[c] = Socket(q)
            /\ Len(buffer[q]) + Len(got[c]) = Taken(c)
            /\ \A i \in 1..Len(buffer[q]) : buffer[q][i] = sent[c][Len(got[c]) + i]
            /\ \A i \in 1..Len(got[c]) : sent[c][i] \notin Last
        BY <2>1, <2>3, <3>1 DEF Talk
      <3>3. Len(buffer[q]) \in Nat
        BY <2>1
      <3>4. \A i \in 1..Len(got[c]) : sent'[c][i] = sent[c][i]
        <4>1. \A a, b \in Nat, t \in Int : a <= t /\ t <= b => \A i \in 1..a : i \in 1..b
          OBVIOUS
        <4>2. \A i \in 1..Len(got[c]) : i \in 1..Len(sent[c])
          BY <1>7, <1>8, <4>1
        <4> QED  BY <1>6, <4>2
      <3>5. \A i \in 1..Len(buffer[q]) : sent'[c][Len(got[c]) + i] = sent[c][Len(got[c]) + i]
        <4> SUFFICES ASSUME NEW i \in 1..Len(buffer[q])
                     PROVE  Len(got[c]) + i \in 1..Len(sent[c])
          BY <1>6
        <4>1. \A g, b, s \in Nat, t \in Int : b + g = t /\ t <= s /\ i \in 1..b => g + i \in 1..s
          OBVIOUS
        <4> QED  BY <1>7, <1>8, <3>2, <3>3, <4>1
      <3>6. /\ phase' = phase /\ server' = server /\ got' = got /\ talking'[q] = c
        BY <1>1, <2>1, <2>3
      <3>7. Taken(c)' = Taken(c) /\ buffer'[q] = buffer[q] /\ pc'[q] = pc[q]
        BY <1>8, <2>1
      <3>8. /\ \A i \in 1..Len(buffer[q]) : buffer[q][i] = sent'[c][Len(got[c]) + i]
            /\ \A i \in 1..Len(got[c]) : sent'[c][i] \notin Last
        BY <3>2, <3>4, <3>5
      <3>9. Len(buffer'[q]) + Len(got'[c]) = Taken(c)'
        BY <3>2, <3>6, <3>7
      <3> QED  BY <3>1, <3>2, <3>6, <3>7, <3>8, <3>9 DEF Talk
    <2> QED  BY <2>2, <2>3
  <1> QED  BY <1>5, <1>10, <1>11 DEF TalkInv

LEMMA EndInputInv == ASSUME NEW c \in Clients, TalkInv, EndInput(c) PROVE TalkInv'
  <1>1. UNCHANGED <<socketVars, stop, phase, server, sent, inbox, got, talkVars>>
    BY DEF EndInput
  <1>2. TalkTyped'
    BY <1>1 DEF TalkInv, TalkTyped, talkVars
  <1>3. \A d \in Clients : Stream(d)'
    BY <1>1, SameStream DEF TalkInv
  <1>4. \A p \in Processes : Talk(p)'
    BY <1>1, SameTalk DEF TalkInv, talkVars, socketVars
  <1> QED  BY <1>2, <1>3, <1>4 DEF TalkInv

(* The conversation of p ends, with or without one more reply.              *)
LEMMA EndInv ==
    ASSUME NEW p \in Processes, NEW c \in Clients, TalkInv, talking[p] = c, End(p),
           UNCHANGED <<stop, server, sent, inbox>>, got' \in [Clients -> Seq(Replies)],
           Stream(c)', \A d \in Clients : d # c => got'[d] = got[d],
           \A q \in Processes : q # p => pc'[q] = pc[q]
    PROVE  TalkInv'
  <1>1. server[c] = Socket(p)
    <2>1. Talk(p) /\ c # None
      BY ControllerAssumption DEF TalkInv
    <2> QED  BY <2>1 DEF Talk
  <1>2. /\ phase' = [phase EXCEPT ![c] = "closed"] /\ talking' = [talking EXCEPT ![p] = None]
        /\ buffer' = [buffer EXCEPT ![p] = <<>>]
    BY DEF End
  <1>3. TalkTyped'
    <2>1. phase' \in [Clients -> {"none", "queued", "served", "closed"}]
      BY <1>2 DEF TalkInv, TalkTyped
    <2>2. talking' \in [Processes -> Clients \cup {None}] /\ buffer' \in [Processes -> Seq(Lines)]
      BY <1>2 DEF TalkInv, TalkTyped
    <2> QED  BY <2>1, <2>2 DEF TalkInv, TalkTyped
  <1>4. \A d \in Clients : d # c => phase'[d] = phase[d]
    BY <1>2 DEF TalkInv, TalkTyped
  <1>5. ASSUME NEW d \in Clients PROVE Stream(d)'
    <2>1. CASE d # c
      BY <1>4, <1>5, <2>1, SameStream DEF TalkInv
    <2> QED  BY <2>1
  <1>6. Talk(p)'
    BY <1>2 DEF TalkInv, TalkTyped, Talk
  <1>7. ASSUME NEW q \in Processes, q # p PROVE Talk(q)'
    <2>1. talking'[q] = talking[q] /\ buffer'[q] = buffer[q] /\ Talk(q) /\ pc'[q] = pc[q]
      BY <1>2, <1>7 DEF TalkInv, TalkTyped
    <2>2. talking[q] # None => talking[q] # c /\ talking[q] \in Clients
      <3>1. talking[q] # None => server[talking[q]] = Socket(q) /\ talking[q] \in Clients
        BY <2>1 DEF Talk, TalkInv, TalkTyped
      <3> QED  BY <1>1, <1>7, <3>1, SocketsDiffer
    <2>3. talking[q] # None => /\ phase'[talking[q]] = phase[talking[q]]
                               /\ got'[talking[q]] = got[talking[q]]
      BY <1>4, <2>2
    <2> QED  BY <2>1, <2>3, SameTalk
  <1> QED  BY <1>3, <1>5, <1>6, <1>7 DEF TalkInv

(* What p knows of the client it converses with.                            *)
Conversation(p, c) ==
    /\ Stream(c) /\ c \notin Foreign /\ c # None
    /\ sent[c] \in Seq(Lines) /\ inbox[c] \in Seq(Lines) /\ got[c] \in Seq(Replies)
    /\ buffer[p] \in Seq(Lines) /\ Len(sent[c]) \in Nat /\ Len(inbox[c]) \in Nat
    /\ Len(got[c]) \in Nat /\ Len(buffer[p]) \in Nat
    /\ pc[p] = "serve" /\ phase[c] = "served" /\ server[c] = Socket(p)
    /\ Len(buffer[p]) + Len(got[c]) = Taken(c)
    /\ \A i \in 1..Len(buffer[p]) : buffer[p][i] = sent[c][Len(got[c]) + i]
    /\ \A i \in 1..Len(got[c]) : sent[c][i] \notin Last
    /\ \A q \in Processes : talking[q] = c => q = p

LEMMA Conversing ==
    ASSUME NEW p \in Processes, NEW c \in Clients, TalkInv, talking[p] = c
    PROVE  Conversation(p, c)
  <1>1. c # None /\ Stream(c) /\ Talk(p)
    BY ControllerAssumption DEF TalkInv
  <1>2. sent[c] \in Seq(Lines) /\ inbox[c] \in Seq(Lines) /\ got[c] \in Seq(Replies) /\ buffer[p] \in Seq(Lines)
    BY DEF TalkInv, TalkTyped
  <1>3. Len(sent[c]) \in Nat /\ Len(inbox[c]) \in Nat /\ Len(got[c]) \in Nat /\ Len(buffer[p]) \in Nat
    BY <1>2
  <1>4. c \notin Foreign /\ pc[p] = "serve" /\ phase[c] = "served" /\ server[c] = Socket(p)
    BY <1>1 DEF Talk, Stream
  <1>5. ASSUME NEW q \in Processes, talking[q] = c PROVE q = p
    <2>1. Talk(q)
      BY DEF TalkInv
    <2>2. server[c] = Socket(q)
      BY <1>1, <1>5, <2>1 DEF Talk
    <2> QED  BY <1>4, <2>2, SocketsDiffer
  <1>6. /\ Len(buffer[p]) + Len(got[c]) = Taken(c)
        /\ \A i \in 1..Len(buffer[p]) : buffer[p][i] = sent[c][Len(got[c]) + i]
        /\ \A i \in 1..Len(got[c]) : sent[c][i] \notin Last
    BY <1>1 DEF Talk
  <1> QED  BY <1>1, <1>2, <1>3, <1>4, <1>5, <1>6 DEF Conversation

LEMMA ReadInv ==
    ASSUME NEW p \in Processes, NEW c \in Clients, TalkInv, talking[p] = c, read(p)
    PROVE  TalkInv'
  <1>1. /\ buffer[p] = <<>>
        /\ UNCHANGED <<pc, listening, stop, server, sent, ended, got>>
    BY DEF read
  <1>2. \/ /\ inbox[c] # <<>> /\ UNCHANGED <<phase, talking>>
           /\ \E k \in 1..Len(inbox[c]) :
                /\ buffer' = [buffer EXCEPT ![p] = SubSeq(inbox[c], 1, k)]
                /\ inbox' = [inbox EXCEPT ![c] = SubSeq(inbox[c], k + 1, Len(inbox[c]))]
        \/ End(p) /\ inbox' = inbox
    BY DEF read
  <1>3. Conversation(p, c)
    BY Conversing
  <1> USE DEF Conversation
  <1>4. CASE End(p) /\ inbox' = inbox
    <2>1. Stream(c)'
      BY <1>1, <1>3, <1>4, SameStream DEF End, TalkInv, TalkTyped
    <2>2. got' \in [Clients -> Seq(Replies)]
      BY <1>1 DEF TalkInv, TalkTyped
    <2> QED  BY <1>1, <1>4, <2>1, <2>2, EndInv
  <1>5. ASSUME UNCHANGED <<phase, talking>>, NEW k \in 1..Len(inbox[c]),
               buffer' = [buffer EXCEPT ![p] = SubSeq(inbox[c], 1, k)],
               inbox' = [inbox EXCEPT ![c] = SubSeq(inbox[c], k + 1, Len(inbox[c]))]
        PROVE  TalkInv'
    <2> DEFINE b == SubSeq(inbox[c], 1, k)
               r == SubSeq(inbox[c], k + 1, Len(inbox[c]))
    <2>1. /\ b \in Seq(Lines) /\ Len(b) = k /\ \A i \in 1..k : b[i] = inbox[c][i]
          /\ r \in Seq(Lines) /\ Len(r) = Len(inbox[c]) - k
          /\ \A i \in 1..(Len(inbox[c]) - k) : r[i] = inbox[c][k + i]
      BY <1>3, Split
    <2>2. buffer' = [buffer EXCEPT ![p] = b] /\ inbox' = [inbox EXCEPT ![c] = r]
      BY <1>5
    <2> HIDE DEF b, r
    <2>3. TalkTyped'
      <3>1. buffer' \in [Processes -> Seq(Lines)]
        BY <2>1, <2>2 DEF TalkInv, TalkTyped
      <3>2. inbox' \in [Clients -> Seq(Lines)]
        BY <2>1, <2>2 DEF TalkInv, TalkTyped
      <3> QED  BY <1>1, <1>5, <3>1, <3>2 DEF TalkInv, TalkTyped
    <2>4. /\ buffer'[p] = b /\ inbox'[c] = r
          /\ \A q \in Processes : q # p => buffer'[q] = buffer[q]
          /\ \A d \in Clients : d # c => inbox'[d] = inbox[d]
      BY <1>3, <2>2 DEF TalkInv, TalkTyped
    <2>5. /\ Taken(c) = Len(got[c]) /\ Taken(c) = Len(sent[c]) - Len(inbox[c])
          /\ Taken(c)' = Len(got[c]) + k /\ k \in Nat
      <3>1. Len(buffer[p]) = 0
        BY <1>1
      <3>2. Taken(c) = Len(sent[c]) - Len(inbox[c]) /\ Taken(c)' = Len(sent[c]) - Len(r)
        BY <1>1, <2>4 DEF Taken
      <3>3. \A s, i, g, j \in Nat : g = s - i => s - (i - j) = g + j
        OBVIOUS
      <3>4. k \in Nat
        OBVIOUS
      <3>5. Len(got[c]) = Len(sent[c]) - Len(inbox[c])
        <4>1. \A g \in Nat : 0 + g = g
          OBVIOUS
        <4>2. Len(buffer[p]) + Len(got[c]) = Taken(c) /\ Len(got[c]) \in Nat
          BY <1>3
        <4> HIDE DEF Conversation
        <4> QED  BY <3>1, <3>2, <4>1, <4>2
      <3>6. Len(r) = Len(inbox[c]) - k
        BY <2>1
      <3>7. Len(sent[c]) \in Nat /\ Len(inbox[c]) \in Nat /\ Len(got[c]) \in Nat
        BY <1>3
      <3> HIDE DEF Conversation
      <3>8. Len(sent[c]) - (Len(inbox[c]) - k) = Len(got[c]) + k
        BY <3>3, <3>4, <3>5, <3>7
      <3> QED  BY <3>2, <3>4, <3>5, <3>6, <3>8
    <2>6. \A i \in 1..Len(inbox[c]) : inbox[c][i] = sent[c][Len(got[c]) + i]
      BY <1>3, <2>5 DEF Stream
    <2>7. \A i \in 1..Len(r) : r[i] = sent[c][(Len(got[c]) + k) + i]
      <3> SUFFICES ASSUME NEW i \in 1..Len(r) PROVE r[i] = sent[c][(Len(got[c]) + k) + i]
        OBVIOUS
      <3>1. \A n, g \in Nat : i \in 1..(n - k) => k + i \in 1..n /\ g + (k + i) = (g + k) + i
        OBVIOUS
      <3>2. k + i \in 1..Len(inbox[c]) /\ Len(got[c]) + (k + i) = (Len(got[c]) + k) + i
        BY <1>3, <2>1, <3>1
      <3>3. r[i] = inbox[c][k + i]
        BY <2>1
      <3> QED  BY <2>6, <3>2, <3>3
    <2>8. \A i \in 1..Len(b) : b[i] = sent[c][Len(got[c]) + i]
      <3>1. \A m \in Nat, i \in 1..k : k \in 1..m => i \in 1..m
        OBVIOUS
      <3>2. \A i \in 1..k : i \in 1..Len(inbox[c])
        BY <1>3, <3>1
      <3> QED  BY <2>1, <2>6, <3>2
    <2>9. Stream(c)'
      <3>1. Len(got[c]) <= Len(got[c]) + k
        <4>1. \A g \in Nat : g <= g + k
          BY <2>5
        <4> QED  BY <1>3, <4>1
      <3>2. sent'[c] = sent[c] /\ got'[c] = got[c] /\ phase'[c] = "served"
        BY <1>1, <1>3, <1>5
      <3>3. Len(got'[c]) <= Taken(c)'
        BY <2>5, <3>1, <3>2
      <3>4. \A i \in 1..Len(inbox'[c]) : inbox'[c][i] = sent'[c][Taken(c)' + i]
        BY <2>4, <2>5, <2>7, <3>2
      <3>5. Stream(c) /\ c \notin Foreign
        BY <1>3
      <3> HIDE DEF Conversation
      <3> QED  BY <3>2, <3>3, <3>4, <3>5 DEF Stream
    <2>10. ASSUME NEW d \in Clients PROVE Stream(d)'
      <3>1. CASE d # c
        BY <1>1, <1>5, <2>4, <2>10, <3>1, SameStream DEF TalkInv
      <3> QED  BY <2>9, <3>1
    <2>11. Talk(p)'
      <3>1. talking'[p] = c /\ c # None /\ pc'[p] = "serve" /\ phase'[c] = "served" /\ server'[c] = Socket(p)
            /\ sent'[c] = sent[c] /\ got'[c] = got[c]
        BY <1>1, <1>3, <1>5
      <3>2. Len(b) + Len(got[c]) = Len(got[c]) + k
        <4>1. \A g \in Nat : k + g = g + k
          BY <2>5
        <4> QED  BY <1>3, <2>1, <4>1
      <3>3. \A i \in 1..Len(got[c]) : sent[c][i] \notin Last
        BY <1>3
      <3> HIDE DEF Conversation
      <3> QED  BY <2>4, <2>5, <2>8, <3>1, <3>2, <3>3, ZenonT(40) DEF Talk
    <2>12. ASSUME NEW q \in Processes, q # p PROVE Talk(q)'
      <3>1. talking'[q] = talking[q] /\ buffer'[q] = buffer[q] /\ pc'[q] = pc[q] /\ Talk(q) /\ talking[q] # c
        BY <1>1, <1>3, <1>5, <2>4, <2>12 DEF TalkInv
      <3>2. talking[q] # None => inbox'[talking[q]] = inbox[talking[q]]
        BY <2>4, <3>1 DEF TalkInv, TalkTyped
      <3> QED  BY <1>1, <1>5, <3>1, <3>2, SameTalk
    <2> QED  BY <2>3, <2>10, <2>11, <2>12 DEF TalkInv
  <1> QED  BY <1>2, <1>4, <1>5

LEMMA AnswerInv ==
    ASSUME NEW p \in Processes, NEW c \in Clients, TalkInv, talking[p] = c, answer(p),
           pc \in [Processes -> Places]
    PROVE  TalkInv'
  <1> DEFINE k == Head(buffer[p])
             one == Append(got[c], Reply(Answered(p), k))
  <1>1. /\ buffer[p] # <<>>
        /\ UNCHANGED <<listening, stop, server, sent, inbox, ended>>
    BY DEF answer
  <1>2. PICK written \in BOOLEAN :
            /\ got' = IF written THEN [got EXCEPT ![c] = one] ELSE got
            /\ \/ /\ k = "panics"
                  /\ End(p) /\ Go(p, "close")
               \/ /\ k # "panics" /\ (k = "too_long" \/ ~written)
                  /\ End(p) /\ UNCHANGED pc
               \/ /\ k \notin {"panics", "too_long"} /\ written
                  /\ buffer' = [buffer EXCEPT ![p] = Tail(buffer[p])]
                  /\ UNCHANGED <<pc, phase, talking>>
    BY DEF answer
  <1>3. Conversation(p, c)
    BY Conversing
  <1> USE DEF Conversation
  <1> DEFINE n == Len(got[c])
  <1>4. /\ k = buffer[p][1] /\ k \in Lines /\ Tail(buffer[p]) \in Seq(Lines) /\ Len(Tail(buffer[p])) = Len(buffer[p]) - 1
        /\ Len(buffer[p]) \in Nat \ {0}
        /\ \A i \in 1..(Len(buffer[p]) - 1) : Tail(buffer[p])[i] = buffer[p][i + 1]
    BY <1>1, <1>3, Rest
  <1>5. Answered(p) = n + 1 /\ k = sent[c][n + 1] /\ n \in Nat
    <2>1. Answered(p) = (Taken(c) - Len(buffer[p])) + 1
      BY DEF Answered, Taken
    <2>2. \A b, g \in Nat : ((b + g) - b) + 1 = g + 1
      OBVIOUS
    <2>3. Answered(p) = n + 1
      <3>1. Len(buffer[p]) \in Nat /\ n \in Nat /\ Taken(c) = Len(buffer[p]) + n
        BY <1>3
      <3> HIDE DEF n
      <3> QED  BY <2>1, <2>2, <3>1
    <2>4. 1 \in 1..Len(buffer[p])
      BY <1>4
    <2> QED  BY <1>3, <1>4, <2>3, <2>4
  <1>6. Reply(n + 1, k) \in Replies
    BY <1>4, <1>5, ReplyTyped
  <1>7. /\ one = Append(got[c], Reply(n + 1, k)) /\ one \in Seq(Replies) /\ Len(one) = n + 1
        /\ one[n + 1] = Reply(n + 1, sent[c][n + 1]) /\ \A i \in 1..n : one[i] = got[c][i]
    BY <1>3, <1>5, <1>6, More
  <1> HIDE DEF one, k, n
  <1>8. /\ got' \in [Clients -> Seq(Replies)] /\ got'[c] = IF written THEN one ELSE got[c]
        /\ \A d \in Clients : d # c => got'[d] = got[d]
    BY <1>2, <1>3, <1>7 DEF TalkInv, TalkTyped
  <1>9. n = Len(got[c]) /\ n + 1 <= Taken(c) /\ Taken(c)' = Taken(c) /\ Taken(c) = Len(buffer[p]) + n
    <2>1. Taken(c)' = Taken(c)
      BY <1>1 DEF Taken
    <2>2. \A b \in Nat \ {0} : n + 1 <= b + n
      BY <1>5
    <2>3. n = Len(got[c])
      BY DEF n
    <2> QED  BY <1>3, <1>4, <2>1, <2>2, <2>3
  <1>10. /\ \A i \in 1..Len(got'[c]) : got'[c][i] = Reply(i, sent[c][i])
         /\ \A i \in 1..Len(got'[c]) : sent[c][i] \in Last => i = Len(got'[c])
         /\ Len(got'[c]) <= Taken(c)
    <2>1. \A i \in 1..n : got[c][i] = Reply(i, sent[c][i])
      BY <1>3, <1>9 DEF Stream
    <2>2. CASE ~written
      <3>1. got'[c] = got[c]
        BY <1>8, <2>2
      <3> QED  BY <1>3, <3>1 DEF Stream
    <2>3. CASE written
      <3>1. got'[c] = one /\ Len(got'[c]) = n + 1
        BY <1>7, <1>8, <2>3
      <3>2. \A i \in 1..(n + 1) : i \in 1..n \/ i = n + 1
        BY <1>5
      <3>3. \A i \in 1..n : sent[c][i] \notin Last
        BY <1>3, <1>9
      <3> QED  BY <1>7, <1>9, <2>1, <3>1, <3>2, <3>3
    <2> QED  BY <2>2, <2>3
  <1>11. ASSUME phase'[c] \in {"served", "closed"} PROVE Stream(c)'
    <2>1. inbox'[c] = inbox[c] /\ sent'[c] = sent[c]
      BY <1>1
    <2>2. Stream(c) /\ c \notin Foreign
      BY <1>3
    <2> HIDE DEF Conversation
    <2>3. Len(got'[c]) <= Taken(c)' /\ \A i \in 1..Len(inbox'[c]) : inbox'[c][i] = sent'[c][Taken(c)' + i]
      BY <1>9, <1>10, <2>1, <2>2 DEF Stream
    <2> QED  BY <1>10, <1>11, <2>1, <2>2, <2>3 DEF Stream
  <1>12. CASE End(p)
    <2>1. phase'[c] = "closed"
      BY <1>3, <1>12 DEF End, TalkInv, TalkTyped
    <2>2. \A q \in Processes : q # p => pc'[q] = pc[q]
      BY <1>2 DEF Go
    <2>3. Stream(c)'
      BY <1>11, <2>1
    <2> QED  BY <1>1, <1>8, <1>12, <2>2, <2>3, EndInv
  <1>13. CASE /\ k \notin {"panics", "too_long"} /\ written
              /\ buffer' = [buffer EXCEPT ![p] = Tail(buffer[p])]
              /\ UNCHANGED <<pc, phase, talking>>
    <2> DEFINE b == Tail(buffer[p])
    <2>1. b \in Seq(Lines) /\ Len(b) = Len(buffer[p]) - 1 /\ \A i \in 1..(Len(buffer[p]) - 1) : b[i] = buffer[p][i + 1]
      BY <1>4
    <2>2. /\ buffer' \in [Processes -> Seq(Lines)] /\ buffer'[p] = b
          /\ \A q \in Processes : q # p => buffer'[q] = buffer[q]
      BY <1>13, <2>1 DEF TalkInv, TalkTyped
    <2> HIDE DEF b
    <2>3. TalkTyped'
      BY <1>1, <1>8, <1>13, <2>2 DEF TalkInv, TalkTyped
    <2>4. got'[c] = one /\ Len(got'[c]) = n + 1
      BY <1>7, <1>8, <1>13
    <2>5. ASSUME NEW d \in Clients PROVE Stream(d)'
      <3>1. CASE d # c
        BY <1>1, <1>8, <1>13, <2>5, <3>1, SameStream DEF TalkInv
      <3>2. CASE d = c
        BY <1>3, <1>11, <1>13, <3>2
      <3> QED  BY <3>1, <3>2
    <2>6. Talk(p)'
      <3>1. talking'[p] = c /\ pc'[p] = "serve" /\ phase'[c] = "served" /\ server'[c] = Socket(p) /\ sent'[c] = sent[c]
        BY <1>1, <1>3, <1>13
      <3>2. Len(b) + (n + 1) = Taken(c)
        <4>1. \A x \in Nat \ {0} : (x - 1) + (n + 1) = x + n
          BY <1>5
        <4> QED  BY <1>4, <1>9, <2>1, <4>1
      <3>3. \A i \in 1..Len(b) : b[i] = sent[c][(n + 1) + i]
        <4> SUFFICES ASSUME NEW i \in 1..Len(b) PROVE b[i] = sent[c][(n + 1) + i]
          OBVIOUS
        <4>1. \A x \in Nat \ {0} : i \in 1..(x - 1) => i + 1 \in 1..x /\ n + (i + 1) = (n + 1) + i
          BY <1>5
        <4>2. i + 1 \in 1..Len(buffer[p]) /\ n + (i + 1) = (n + 1) + i /\ i \in 1..(Len(buffer[p]) - 1)
          BY <1>4, <2>1, <4>1
        <4>3. buffer[p][i + 1] = sent[c][n + (i + 1)]
          BY <1>3, <1>9, <4>2
        <4> QED  BY <2>1, <4>2, <4>3
      <3>4. \A i \in 1..(n + 1) : sent[c][i] \notin Last
        <4>1. \A i \in 1..(n + 1) : i \in 1..n \/ i = n + 1
          BY <1>5
        <4>2. sent[c][n + 1] \notin Last
          BY <1>5, <1>13 DEF Last
        <4> QED  BY <1>3, <1>9, <4>1, <4>2
      <3>5. c # None /\ Taken(c)' = Taken(c) /\ Len(buffer'[p]) = Len(b)
        BY <1>3, <1>9, <2>2
      <3> HIDE DEF Conversation
      <3> QED  BY <2>2, <2>4, <3>1, <3>2, <3>3, <3>4, <3>5 DEF Talk
    <2>7. ASSUME NEW q \in Processes, q # p PROVE Talk(q)'
      <3>1. talking'[q] = talking[q] /\ buffer'[q] = buffer[q] /\ pc'[q] = pc[q] /\ Talk(q) /\ talking[q] # c
        BY <1>3, <1>13, <2>2, <2>7 DEF TalkInv
      <3>2. talking[q] # None => got'[talking[q]] = got[talking[q]]
        BY <1>8, <3>1 DEF TalkInv, TalkTyped
      <3> QED  BY <1>1, <1>13, <3>1, <3>2, SameTalk
    <2> QED  BY <2>3, <2>5, <2>6, <2>7 DEF TalkInv
  <1> QED  BY <1>2, <1>12, <1>13

LEMMA TalkStep == SocketInv /\ TalkInv /\ [Next]_vars => TalkInv'
  <1> SUFFICES ASSUME SocketInv, TalkInv, [Next]_vars PROVE TalkInv'
    OBVIOUS
  <1>1. stop \in [Processes -> BOOLEAN] /\ pc \in [Processes -> Places]
        /\ \A p \in Processes : talking[p] # None => pc[p] = "serve"
    BY DEF TalkInv, TalkTyped, Talk, SocketInv, SocketTyped
  <1>2. CASE UNCHANGED vars
    BY <1>1, <1>2, QuietInv DEF vars, socketVars
  <1>3. ASSUME NEW p \in Processes, Start(p) \/ Bind(p) \/ remove_look(p) \/ remove_unlink(p) \/ serve_returns(p),
               UNCHANGED <<clientVars, talkVars>>, stop' \in [Processes -> BOOLEAN]
        PROVE  TalkInv'
    <2>1. pc[p] # "serve" \/ talking[p] = None
      BY <1>3 DEF Start, Bind, PrivateDir_open, Publish, publish_reconfirm, publish_look, choose_temporary,
                  publish_recheck, publish_find, restrict_to_owner, publish_judge, rename_no_replace,
                  remove_look, remove_unlink, serve_returns, Serving, At, SocketInv, Progress
    <2>2. \A q \in Processes : q # p => pc'[q] = pc[q]
      BY <1>1, <1>3 DEF Start, Bind, PrivateDir_open, Publish, publish_reconfirm, publish_look, choose_temporary,
                  publish_recheck, publish_find, restrict_to_owner, publish_judge, rename_no_replace,
                  remove_look, remove_unlink, serve_returns, Fail, Go
    <2> QED  BY <1>1, <1>3, <2>1, <2>2, QuietInv
  <1>4. Others /\ UNCHANGED <<stop, clientVars, talkVars>> => TalkInv'
    BY <1>1, QuietInv DEF Others, MoveDirectory, ClearStale, PutFile
  <1>5. ASSUME NEW p \in Processes, close(p) \/ Kill(p), HangUp(p), UNCHANGED stop PROVE TalkInv'
    BY <1>1, <1>5, HangUpInv DEF close, Kill, Go
  <1>6. ASSUME NEW p \in Processes, Shutdown(p) PROVE TalkInv'
    BY <1>1, <1>6, QuietInv DEF Shutdown, socketVars
  <1>7. ASSUME NEW p \in Processes, Start(p) \/ Bind(p) \/ serve_returns(p) PROVE TalkInv'
    <2>1. UNCHANGED <<clientVars, talkVars>>
      BY <1>7 DEF Start, Bind, serve_returns
    <2>2. stop' \in [Processes -> BOOLEAN]
      BY <1>1, <1>7 DEF Start, Bind, serve_returns
    <2> QED  BY <1>3, <1>7, <2>1, <2>2
  <1>8. ASSUME NEW p \in Processes, Close(p) PROVE TalkInv'
    BY <1>1, <1>3, <1>5, <1>8 DEF Close
  <1>9. ASSUME NEW p \in Processes, Serve(p) PROVE TalkInv'
    <2>1. CASE accept(p) \/ serve_stops(p)
      BY <1>7, <2>1, AcceptInv DEF serve_stops
    <2>2. CASE read(p) \/ answer(p)
      <3>1. PICK c \in Clients : talking[p] = c
        BY <2>2 DEF read, answer, TalkInv, TalkTyped
      <3> QED  BY <1>1, <2>2, <3>1, ReadInv, AnswerInv
    <2> QED  BY <1>9, <2>1, <2>2 DEF Serve
  <1>10. ASSUME NEW p \in Processes, Killed(p) PROVE TalkInv'
    BY <1>5, <1>10 DEF Killed
  <1> QED  BY <1>2, <1>4, <1>6, <1>7, <1>8, <1>9, <1>10, ConnectInv, SendInv, EndInputInv DEF Next

(* Requests on a connection are answered in order, each under its own id    *)
(* and with no line skipped, and nothing of a foreign peer is read          *)
(* (serve_connection of control.rs), for any number of daemons, clients and *)
(* lines, whatever is stopped, killed or not written.                       *)
THEOREM OrderedReplies == Spec => []RepliesInOrder
  <1>1. Init => SocketInv /\ TalkInv
    BY SocketStart, TalkStart
  <1>2. SocketInv /\ TalkInv /\ [Next]_vars => (SocketInv /\ TalkInv)'
    BY SocketStep, TalkStep
  <1>3. TalkInv => RepliesInOrder
    <2> SUFFICES ASSUME TalkInv, NEW c \in Clients
                 PROVE  /\ Len(got[c]) <= Len(sent[c]) - Len(inbox[c])
                        /\ \A i \in DOMAIN got[c] : got[c][i] = Reply(i, sent[c][i])
                        /\ \A i \in DOMAIN got[c] : sent[c][i] \in {"too_long", "panics"} => i = Len(got[c])
                        /\ c \in Foreign => got[c] = <<>> /\ inbox[c] = sent[c]
      BY DEF RepliesInOrder
    <2>1. Stream(c) /\ DOMAIN got[c] = 1..Len(got[c])
      BY DEF TalkInv, TalkTyped
    <2> QED  BY <2>1 DEF Stream, Taken, Last
  <1> QED  BY <1>1, <1>2, <1>3, PTL DEF Spec
=============================================================================
