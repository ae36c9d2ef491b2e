------------------------------ MODULE MCJournals ------------------------------
(* The history of a cell's journal and the session log, each alone.  Two    *)
(* plugins, addresses and payloads, so that an address can come back        *)
(* changed, moved or retired; two SessionLog values on one file and two     *)
(* threads, with numbers that end at 4 and six events, so that exhaustion   *)
(* and every retry are met.                                                 *)
EXTENDS CellHistory, SessionLog, TLC

CONSTANTS p1, p2, a1, a2, b1, b2, l1, l2, t1, t2

VARIABLE journal    \* whose behaviour this is

MCPlugins == {p1, p2}
MCAddresses == {a1, a2}
MCBodies == {b1, b2}
MCLogs == {l1, l2}
MCThreads == {t1, t2}

Symmetry ==
    UNION {Permutations(S) : S \in {MCPlugins, MCAddresses, MCBodies, MCLogs, MCThreads}}

journalVars == <<historyVars, vars, journal>>

MCInit == journal \in {"cell", "session"} /\ HistoryInit /\ Init

(* A history whose numbers are used up stays as it is.                      *)
Exhausted == lastGeneration = MaxGeneration /\ ~IsOpen /\ UNCHANGED historyVars

MCNext ==
    /\ journal' = journal
    /\ \/ journal = "cell" /\ (HistoryNext \/ Exhausted) /\ UNCHANGED vars
       \/ journal = "session" /\ Next /\ UNCHANGED historyVars

MCSpec == MCInit /\ [][MCNext]_journalVars
=============================================================================
