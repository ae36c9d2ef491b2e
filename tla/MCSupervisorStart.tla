--------------------------- MODULE MCSupervisorStart ---------------------------
(* Two starts at once, records of two pieces through a pipe that holds one; *)
(* while a stranger has a pipe of one of them, the other has not begun.     *)
EXTENDS SupervisorStart, TLC

CONSTANTS s1, s2

MCStarts == {s1, s2}
MCOne == {s1}
MCNone == {}

Leaked(s) == \E e \in Ends : Stranger \in open[s][e]

MCNext ==
    /\ Next
    /\ \A s, t \in Starts : s # t /\ Leaked(s)' => pc'[t] = "idle"

MCSpec == Init /\ [][MCNext]_vars /\ Fairness
=============================================================================
