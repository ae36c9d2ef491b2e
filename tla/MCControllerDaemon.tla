-------------------------- MODULE MCControllerDaemon --------------------------
(* Two daemons at one path that three directories take turns at, one of     *)
(* them not private, and a client of each kind.                             *)
EXTENDS ControllerDaemon, TLC

CONSTANTS p1, p2, d1, d2, d3, stray, c1, c2

MCMaxLines == (c1 :> 2) @@ (c2 :> 1)

(* Either two daemons publish at the path while the directories change, or  *)
(* one daemon serves clients in peace.                                     *)
MCInit ==
    /\ Init
    /\ \/ /\ started = {}
          /\ phase = [c \in Clients |-> "closed"]
          /\ moves = 0
       \/ /\ started = {p2}
          /\ phase = [c \in Clients |-> "none"]
          /\ moves = MaxMoves

MCSpec == MCInit /\ [][Next]_vars /\ Fairness
===============================================================================
