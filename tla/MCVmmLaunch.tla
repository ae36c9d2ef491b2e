------------------------------ MODULE MCVmmLaunch ------------------------------
(* Four beginnings: two helpers prepared at once; one beside a command that *)
(* is spawned, with any of descriptors 0 to 3 open, or 0 to 4; the           *)
(* handshake with a launched helper, whose guest is honest and which         *)
(* strangers may precede, or whose guest says what it likes; and the         *)
(* transcript of one.                                                        *)
EXTENDS VmmLaunch, TLC

CONSTANTS l1, l2, b1, stranger, foreigner, p1, p2, k1, k2

MCBy == <<l1, l1, l1, stranger, foreigner>>
MCAt == <<"control", "control", "data", "control", "data">>

MCSaid == {Line("error", 0, k1, p1), Line("result", 1, k1, p2), Line("result", 2, k2, p1)}
              \cup {Line("result", id, k1, p1) : id \in {1, 2}}

Other == [object |-> "other", launch |-> None, inherits |-> TRUE]

(* A launched helper, as HelperLaunch leaves it.                            *)
Launched ==
    LET low == [m \in Numbers |-> IF m <= 3 THEN Other ELSE Closed]
        at == [e \in Ends |-> CASE e = "null" -> 4 [] e = "diag_read" -> 5 [] e = "diag_write" -> 6
                               [] e = "recipe_read" -> 7 [] e = "recipe_write" -> None]
    IN /\ table = Opened(low, 5, "diag_read", l1, FALSE)
       /\ pc = [t \in Threads |-> IF t = l1 THEN "launched" ELSE "none"]
       /\ line = [l \in Launches |-> 1]
       /\ owned = [l \in Launches |-> IF l = l1 THEN at ELSE [e \in Ends |-> None]]
       /\ creating = None
       /\ child = [t \in Threads |-> IF t = l1 THEN "configured" ELSE "none"]
       /\ childTable = [t \in Threads |->
                           IF t = l1 THEN [m \in Numbers |->
                               IF m > 2 THEN Closed
                               ELSE [object |-> <<"null", "null", "diag_write">>[m + 1],
                                     launch |-> l1, inherits |-> TRUE]]
                           ELSE NoTable]

Never == {c \in Connections : conn[c].phase = "never"}

MCInit ==
    /\ ShakeInit /\ TranscriptInit
    /\ Never = IF honest THEN {} ELSE {4, 5}
    /\ \/ /\ LaunchInit
          /\ step = "none" /\ ~honest /\ drain = "none"
          /\ \/ /\ pc = [t \in Threads |-> IF t = b1 THEN "none" ELSE "idle"]
                /\ platform = "darwin"
                /\ {m \in 0..4 : table[m] = Closed} \in {{4}, 0..4}
                /\ line = [l \in Launches |-> 1]
             \/ /\ pc = [t \in Threads |-> IF t = l2 THEN "none" ELSE "idle"]
                /\ line[l2] = 1
                /\ table[4] # Closed => \A m \in 0..3 : table[m] # Closed
       \/ /\ platform \in Platforms /\ Launched
          /\ \/ step = "begin" /\ drain = "none" /\ (honest \/ platform = "darwin")
             \/ step = "none" /\ ~honest /\ drain = "off" /\ platform = "linux"

MCSpec == MCInit /\ [][Next]_vars /\ Fairness
=============================================================================
