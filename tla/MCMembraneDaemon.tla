--------------------------- MODULE MCMembraneDaemon ---------------------------
(* membraned with no broker, one, two, two that share a socket, two of      *)
(* which one cannot run, and with a configuration that is refused.          *)
EXTENDS MembraneDaemon

B(socket, runnable) == [socket |-> socket, runnable |-> runnable]

MCConfigs ==
    {[valid |-> TRUE, brokers |-> << >>],
     [valid |-> TRUE, brokers |-> <<B("s1", TRUE)>>],
     [valid |-> TRUE, brokers |-> <<B("s1", TRUE), B("s2", TRUE)>>],
     [valid |-> TRUE, brokers |-> <<B("s1", TRUE), B("s1", TRUE)>>],
     [valid |-> TRUE, brokers |-> <<B("s1", TRUE), B("s2", FALSE)>>],
     [valid |-> FALSE, brokers |-> << >>]}

=============================================================================
