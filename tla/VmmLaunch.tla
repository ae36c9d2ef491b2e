------------------------------- MODULE VmmLaunch -------------------------------
(* The launch of a VMM helper as the supervisor runs it: the preparation    *)
(* and the fork of HelperLaunch, the handshake with the helper, and the      *)
(* transcript of its diagnostics, on one process table.                      *)
EXTENDS HelperHandshake, DiagnosticTranscript

vars == <<launchVars, shakeVars, transcriptVars>>

Init == LaunchInit /\ ShakeInit /\ TranscriptInit

(* The helper's end closes its streams with its descriptors.                *)
Gone(t) ==
    /\ Exits(t)
    /\ IF t = Helper THEN HangupAll ELSE UNCHANGED conn
    /\ UNCHANGED <<honest, shutdown, spent, queue, hostVars, transcriptVars>>

Next ==
    \/ LaunchNext /\ UNCHANGED <<shakeVars, transcriptVars>>
    \/ \E t \in Threads : Gone(t)
    \/ ShakeNext /\ UNCHANGED <<launchVars, transcriptVars>>
    \/ TranscriptNext /\ UNCHANGED <<launchVars, shakeVars>>
    \/ drop_pipe /\ UNCHANGED shakeVars

(* The host's thread runs and time passes.  Nothing is assumed of the       *)
(* helper, its guest and strangers.                                         *)
Fairness ==
    /\ WF_vars(Handshake /\ UNCHANGED <<launchVars, transcriptVars>>)
    /\ WF_vars(Spend /\ UNCHANGED <<launchVars, transcriptVars>>)

Spec == Init /\ [][Next]_vars /\ Fairness
=============================================================================
