--------------------------- MODULE AtomicObservation ---------------------------
(* What a paged observation promises its caller: the answer is the account  *)
(* of its scope as it was at one moment after the caller asked, or there is *)
(* no answer; and every caller that asked learns one or the other.          *)
EXTENDS Naturals

CONSTANTS Scopes, Callers, Scope, Records, None

VARIABLES
    account,    \* what each scope would report now
    asked,      \* the callers that wait
    kept,       \* what was observed for each of them
    answer      \* what each was told last

vars == <<account, asked, kept, answer>>

Init ==
    /\ account \in [Scopes -> Records]
    /\ asked = [c \in Callers |-> FALSE]
    /\ kept = [c \in Callers |-> None]
    /\ answer = [c \in Callers |-> None]

Change(s) ==
    /\ \E r \in Records : account' = [account EXCEPT ![s] = r]
    /\ UNCHANGED <<asked, kept, answer>>

Ask(c) ==
    /\ ~asked[c]
    /\ asked' = [asked EXCEPT ![c] = TRUE]
    /\ answer' = [answer EXCEPT ![c] = None]
    /\ UNCHANGED <<account, kept>>

Observe(c) ==
    /\ asked[c] /\ kept[c] = None
    /\ kept' = [kept EXCEPT ![c] = account[Scope[c]]]
    /\ UNCHANGED <<account, asked, answer>>

End(c, told) ==
    /\ asked[c]
    /\ asked' = [asked EXCEPT ![c] = FALSE]
    /\ kept' = [kept EXCEPT ![c] = None]
    /\ answer' = [answer EXCEPT ![c] = told]
    /\ UNCHANGED account

Answer(c) == kept[c] # None /\ End(c, kept[c])

Fail(c) == End(c, None)

Next ==
    \/ \E s \in Scopes : Change(s)
    \/ \E c \in Callers : Ask(c) \/ Observe(c) \/ Answer(c) \/ Fail(c)

Spec ==
    /\ Init /\ [][Next]_vars
    /\ \A c \in Callers : WF_vars(Answer(c) \/ Fail(c))
=============================================================================
