-------------------------------- MODULE MCRules --------------------------------
(* The parts that decide by rule, each alone: a behaviour is one part's,    *)
(* and the others stay as they begin.                                       *)
EXTENDS LaunchedMarker, LifetimeBound, DenialBook, KillBudget, AttachmentGraph, TrustedFile,
        MountSources, RootImage, SoftwarePin, PluginLog

VARIABLE part       \* the part whose behaviour this is

MCDenialLimits ==
    [per_plasmid |-> 1, named |-> 1, unnamed |-> 1, lines_per_denial |-> 2, lines_per_cell |-> 3,
     waiting |-> 2, page |-> 1]

(* Deadlines below the reserve, below and above both caps.                  *)
MCDeadlines == {0, 1, 5, 29, 47, 70}

(* Guard reads the source and the guarded directory, Probes the source and  *)
(* the file: each is met with all of its requests while the other's is one. *)
OneOfTwo == request.guarded = <<"users">> \/ (request.file = <<>> /\ ~request.held)

rulesVars == <<vars, lifetimeVars, denialVars, killVars, graphVars, trustVars, mountVars, rootVars, pinVars, logVars, part>>

MCInit ==
    /\ part \in {"marker", "lifetime", "denial", "kill", "graph", "trust", "mount", "root", "pin", "log"}
    /\ Init
    /\ LifetimeInit /\ (part # "lifetime" => wall = 2 * NsPerMs)
    /\ DenialInit
    /\ KillInit /\ (part # "kill" => kill.total = 0 /\ kill.now)
    /\ GraphInit
    /\ IF part = "trust" THEN TrustInit ELSE Unopened(CHOOSE tree \in Trees : TRUE)
    /\ IF part = "mount" THEN MountInit /\ OneOfTwo
       ELSE /\ Unchecked(Layout("real", "firm", "firm"))
            /\ request = [source |-> <<>>, held |-> FALSE, guarded |-> <<>>, file |-> <<>>]
    /\ IF part = "root" THEN RootInit ELSE Unverified(Sound, Pinned, "RootImage", TRUE, TRUE, "nothing")
    /\ IF part = "pin" THEN PinInit ELSE Unpinned(TRUE, CHOOSE list \in Listings : check_listing(list), "B", "none")
    /\ IF part = "log" THEN PluginLogInit ELSE Unwritten(<<>>)

MCNext ==
    /\ part' = part
    /\ \/ part = "marker" /\ Next
          /\ UNCHANGED <<lifetimeVars, denialVars, killVars, graphVars, trustVars, mountVars, rootVars, pinVars, logVars>>
       \/ part = "lifetime" /\ LifetimeNext
          /\ UNCHANGED <<vars, denialVars, killVars, graphVars, trustVars, mountVars, rootVars, pinVars, logVars>>
       \/ part = "denial" /\ DenialNext
          /\ UNCHANGED <<vars, lifetimeVars, killVars, graphVars, trustVars, mountVars, rootVars, pinVars, logVars>>
       \/ part = "kill" /\ KillNext
          /\ UNCHANGED <<vars, lifetimeVars, denialVars, graphVars, trustVars, mountVars, rootVars, pinVars, logVars>>
       \/ part = "graph" /\ GraphNext
          /\ UNCHANGED <<vars, lifetimeVars, denialVars, killVars, trustVars, mountVars, rootVars, pinVars, logVars>>
       \/ part = "trust" /\ TrustNext
          /\ UNCHANGED <<vars, lifetimeVars, denialVars, killVars, graphVars, mountVars, rootVars, pinVars, logVars>>
       \/ part = "mount" /\ MountNext
          /\ UNCHANGED <<vars, lifetimeVars, denialVars, killVars, graphVars, trustVars, rootVars, pinVars, logVars>>
       \/ part = "root" /\ RootNext
          /\ UNCHANGED <<vars, lifetimeVars, denialVars, killVars, graphVars, trustVars, mountVars, pinVars, logVars>>
       \/ part = "pin" /\ PinNext
          /\ UNCHANGED <<vars, lifetimeVars, denialVars, killVars, graphVars, trustVars, mountVars, rootVars, logVars>>
       \/ part = "log" /\ PluginLogNext
          /\ UNCHANGED <<vars, lifetimeVars, denialVars, killVars, graphVars, trustVars, mountVars, rootVars, pinVars>>

MCSpec == MCInit /\ [][MCNext]_rulesVars
=============================================================================
