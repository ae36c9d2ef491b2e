----------------------------- MODULE PrivateSocket -----------------------------
(* A private listening socket: PrivateDir and PrivateListener of            *)
(* plasmosome-core/src/private_socket.rs, as several processes of one user   *)
(* publish a socket at one name of a directory while that directory's path   *)
(* is renamed, processes are killed and entries are replaced under them.     *)
(*                                                                          *)
(* The directory a process holds open is an inode, and only bind goes by the *)
(* path: every other call is made in the held directory.  A walk of the path *)
(* is one step; what it judges of a directory is whether it is in Private.   *)
EXTENDS Naturals, FiniteSets

CONSTANTS
    Processes,      \* processes that publish a socket at the name
    Dirs,           \* directories the path may name
    Private,        \* those that open_private accepts
    Home,           \* the one the path names first
    Strays,         \* temporary names at which a killed process left a socket
    Draws,          \* TEMPORARY_DRAWS
    MaxMoves,       \* bound: changes other programs make to path and entries
    None

ASSUME PrivateSocketAssumption ==
    /\ Private \subseteq Dirs /\ Home \in Private
    /\ Draws \in Nat \ {0} /\ MaxMoves \in Nat
    /\ {"name", None} \cap (Strays \cup Processes) = {}
    /\ Strays \cap Processes = {} /\ {"left", "file"} \cap Processes = {}
    /\ None # "name" /\ None \notin Dirs /\ \A p \in Processes \cup {"left", "file"} : None # <<p>>

VARIABLES
    path,       \* the directory the path names, or None
    entries,    \* what each name of each directory names
    restricted, \* sockets whose mode is 0600
    listening,  \* sockets that accept connections
    pc,         \* where each process is
    started,    \* processes that were started
    held,       \* the directory it holds open
    bound,      \* its BoundEntry: the name and the socket found there
    draws,      \* temporaries drawn
    rechecked,  \* the outcome of the second reconfirm, not yet acted on
    moves       \* changes made by other programs

socketVars == <<path, entries, restricted, listening, pc, started, held, bound, draws, rechecked, moves>>

(* The published name, and the temporaries: 15 random characters, so that a *)
(* process draws one that no other process draws (called by the process) or *)
(* one that is taken.                                                       *)
Names == {"name"} \cup Processes \cup Strays
NoEntry == [name |-> None, socket |-> None]

(* A file that another program put at the name.                             *)
File == <<"file">>

(* The socket a process made, and the one a killed process left.            *)
Socket(p) == <<p>>
Left == <<"left">>
Sockets == {Left} \cup {Socket(p) : p \in Processes}

(* Some of the bounds on starts and changes may be spent from the start.    *)
SocketInit ==
    /\ path = Home
    /\ entries = [d \in Dirs |-> [n \in Names |-> IF n \in Strays THEN Left ELSE None]]
    /\ restricted = {} /\ listening = {}
    /\ pc = [p \in Processes |-> "out"]
    /\ started \in SUBSET Processes
    /\ held = [p \in Processes |-> None]
    /\ bound = [p \in Processes |-> NoEntry]
    /\ draws = [p \in Processes |-> 0]
    /\ rechecked = [p \in Processes |-> FALSE]
    /\ moves \in 0..MaxMoves

At(p, place) == pc[p] = place
Go(p, place) == pc' = [pc EXCEPT ![p] = place]

(* What p finds at the name of its bound entry in the directory it holds.   *)
Found(p) == entries[held[p]][bound[p].name]

(* An error return: the socket is closed and the bound entry dropped.       *)
Fail(p) == Go(p, "close")

----------------------------------------------------------------------------
(* PrivateDir                                                               *)

open_private == path \in Private

PrivateDir_open(p) ==
    /\ p \notin started
    /\ started' = started \cup {p}
    /\ \/ /\ open_private
          /\ held' = [held EXCEPT ![p] = path]
          /\ Go(p, "opened")
       \/ /\ ~open_private
          /\ UNCHANGED <<held, pc>>
    /\ UNCHANGED <<path, entries, restricted, listening, bound, draws, rechecked, moves>>

(* The path still names, and still passes as, the directory held.           *)
reconfirm(p) == open_private /\ path = held[p]

----------------------------------------------------------------------------
(* publish                                                                  *)

publish_reconfirm(p) ==
    /\ At(p, "opened")
    /\ IF reconfirm(p) THEN Go(p, "look") ELSE Fail(p)
    /\ UNCHANGED <<path, entries, restricted, listening, started, held, bound, draws, rechecked, moves>>

(* Any entry at the name is refused.                                        *)
publish_look(p) ==
    /\ At(p, "look")
    /\ IF entries[held[p]]["name"] = None THEN Go(p, "draw") ELSE Fail(p)
    /\ UNCHANGED <<path, entries, restricted, listening, started, held, bound, draws, rechecked, moves>>

(* Mutant: a candidate equal to the name is not drawn again.                *)
Candidates_AnyName(p) == {p, "name"} \cup Strays

(* Candidates that are bound: a candidate equal to the name only costs a    *)
(* draw.                                                                    *)
Candidates(p) == {p} \cup Strays

(* choose_temporary: bind goes by the path, so it lands in whatever         *)
(* directory the path names by now.                                         *)
choose_temporary(p) ==
    /\ At(p, "draw")
    /\ IF draws[p] = Draws
       THEN /\ Fail(p)
            /\ UNCHANGED <<entries, bound, draws>>
       ELSE /\ draws' = [draws EXCEPT ![p] = @ + 1]
            /\ \/ UNCHANGED <<pc, entries, bound>>          \* equals the name
               \/ \E t \in Candidates(p) :
                    \/ /\ path = None
                       /\ Fail(p)
                       /\ UNCHANGED <<entries, bound>>
                    \/ /\ path # None /\ entries[path][t] # None
                       /\ UNCHANGED <<pc, entries, bound>>
                    \/ /\ path # None /\ entries[path][t] = None
                       /\ entries' = [entries EXCEPT ![path][t] = Socket(p)]
                       /\ bound' = [bound EXCEPT ![p].name = t]
                       /\ Go(p, "bound")
    /\ UNCHANGED <<path, restricted, listening, started, held, rechecked, moves>>

(* Mutant: a failed recheck returns before the bound entry is there to be   *)
(* dropped.                                                                 *)
publish_recheck_Early(p) ==
    /\ At(p, "bound")
    /\ rechecked' = [rechecked EXCEPT ![p] = reconfirm(p)]
    /\ IF reconfirm(p) THEN Go(p, "find") ELSE Fail(p)
    /\ UNCHANGED <<path, entries, restricted, listening, started, held, bound, draws, moves>>

publish_recheck(p) ==
    /\ At(p, "bound")
    /\ rechecked' = [rechecked EXCEPT ![p] = reconfirm(p)]
    /\ Go(p, "find")
    /\ UNCHANGED <<path, entries, restricted, listening, started, held, bound, draws, moves>>

(* BindEscaped when no socket of this user is at the temporary name in the  *)
(* directory held.  Only now does a failed recheck count, so that the drop  *)
(* removes the socket.                                                      *)
publish_find(p) ==
    /\ At(p, "find")
    /\ IF Found(p) \in Sockets
       THEN /\ bound' = [bound EXCEPT ![p].socket = Found(p)]
            /\ IF rechecked[p] THEN Go(p, "restrict") ELSE Fail(p)
       ELSE /\ Fail(p)
            /\ UNCHANGED bound
    /\ UNCHANGED <<path, entries, restricted, listening, started, held, draws, rechecked, moves>>

(* fchmodat of whatever is at the name without following it, where the      *)
(* kernel can; else a look, and a fchmodat that follows.                    *)
restrict_to_owner(p) ==
    /\ At(p, "restrict") \/ At(p, "chmod")
    /\ IF Found(p) = None
       THEN Fail(p) /\ UNCHANGED restricted
       ELSE \/ /\ restricted' = restricted \cup {Found(p)}
               /\ Go(p, "judge")
            \/ /\ At(p, "restrict")
               /\ IF Found(p) = bound[p].socket THEN Go(p, "chmod") ELSE Fail(p)
               /\ UNCHANGED restricted
    /\ UNCHANGED <<path, entries, listening, started, held, bound, draws, rechecked, moves>>

(* The same socket is still there, and is what judge_socket asks for.       *)
judge_socket(p) ==
    /\ Found(p) = bound[p].socket
    /\ bound[p].socket \in restricted

publish_judge(p) ==
    /\ At(p, "judge")
    /\ IF judge_socket(p)
       THEN /\ listening' = listening \cup {Socket(p)}
            /\ Go(p, "rename")
       ELSE Fail(p) /\ UNCHANGED listening
    /\ UNCHANGED <<path, entries, restricted, started, held, bound, draws, rechecked, moves>>

(* Mutant: the rename replaces what is at the name.                         *)
rename_no_replace_Replaces(p) ==
    /\ At(p, "rename")
    /\ IF Found(p) # None
       THEN /\ entries' = [entries EXCEPT ![held[p]]["name"] = Found(p), ![held[p]][bound[p].name] = None]
            /\ bound' = [bound EXCEPT ![p].name = "name"]
            /\ Go(p, "serve")
       ELSE Fail(p) /\ UNCHANGED <<entries, bound>>
    /\ UNCHANGED <<path, restricted, listening, started, held, draws, rechecked, moves>>

rename_no_replace(p) ==
    /\ At(p, "rename")
    /\ IF Found(p) # None /\ entries[held[p]]["name"] = None
       THEN /\ entries' = [entries EXCEPT ![held[p]]["name"] = Found(p), ![held[p]][bound[p].name] = None]
            /\ bound' = [bound EXCEPT ![p].name = "name"]
            /\ Go(p, "serve")
       ELSE Fail(p) /\ UNCHANGED <<entries, bound>>
    /\ UNCHANGED <<path, restricted, listening, started, held, draws, rechecked, moves>>

----------------------------------------------------------------------------
(* close, and the drops of a failed bind: the socket is closed, then        *)
(* BoundEntry::remove looks, then unlinks.                                  *)

close(p) ==
    /\ At(p, "close")
    /\ listening' = listening \ {Socket(p)}
    /\ Go(p, IF bound[p].socket = None THEN "out" ELSE "remove")
    /\ UNCHANGED <<path, entries, restricted, started, held, bound, draws, rechecked, moves>>

(* Mutant: whatever is at the name is removed.                              *)
Same_Any(p) == Found(p) # None

(* The same socket by device and inode.                                     *)
Same(p) == Found(p) = bound[p].socket

remove_look(p) ==
    /\ At(p, "remove")
    /\ Go(p, IF Same(p) THEN "unlink" ELSE "out")
    /\ UNCHANGED <<path, entries, restricted, listening, started, held, bound, draws, rechecked, moves>>

remove_unlink(p) ==
    /\ At(p, "unlink")
    /\ entries' = [entries EXCEPT ![held[p]][bound[p].name] = None]
    /\ Go(p, "out")
    /\ UNCHANGED <<path, restricted, listening, started, held, bound, draws, rechecked, moves>>

----------------------------------------------------------------------------
(* Other programs of the same user.  They coordinate with the processes as  *)
(* the daemon's documentation asks: nothing is put in the place of an entry *)
(* between its last look and its unlink, and a name is cleared only of the  *)
(* socket of a process that is gone.                                        *)

Alive(p) == ~At(p, "out")

(* SIGKILL runs no destructor: temporaries and sockets stay.                *)
Kill(p) ==
    /\ Alive(p)
    /\ Go(p, "out")
    /\ listening' = listening \ {Socket(p)}
    /\ UNCHANGED <<path, entries, restricted, started, held, bound, draws, rechecked, moves>>

Moved == moves < MaxMoves /\ moves' = moves + 1

(* The directory is renamed away, or another one is put in its place.       *)
MoveDirectory ==
    /\ Moved
    /\ \E d \in (Dirs \cup {None}) \ {path} : path' = d
    /\ UNCHANGED <<entries, restricted, listening, pc, started, held, bound, draws, rechecked>>

(* A stale socket is cleared from the name.                                 *)
ClearStale ==
    /\ Moved
    /\ \E d \in Dirs :
        /\ entries[d]["name"] \in Sockets
        /\ \A p \in Processes : Alive(p) => entries[d]["name"] # Socket(p)
        /\ entries' = [entries EXCEPT ![d]["name"] = None]
    /\ UNCHANGED <<path, restricted, listening, pc, started, held, bound, draws, rechecked>>

(* A file is put at the name, the socket that was there moved elsewhere.    *)
PutFile ==
    /\ Moved
    /\ \E d \in Dirs :
        /\ entries[d]["name"] # File
        /\ \A p \in Processes : At(p, "unlink") => held[p] # d \/ bound[p].name # "name"
        /\ entries' = [entries EXCEPT ![d]["name"] = File]
    /\ UNCHANGED <<path, restricted, listening, pc, started, held, bound, draws, rechecked>>

Publish(p) ==
    \/ publish_reconfirm(p)
    \/ publish_look(p)
    \/ choose_temporary(p)
    \/ publish_recheck(p)
    \/ publish_find(p)
    \/ restrict_to_owner(p)
    \/ publish_judge(p)
    \/ rename_no_replace(p)

Remove(p) == close(p) \/ remove_look(p) \/ remove_unlink(p)

Others == MoveDirectory \/ ClearStale \/ PutFile

----------------------------------------------------------------------------
(* Properties                                                               *)

(* "A client that finds `name` finds a 0600 socket that accepts", and until *)
(* then nothing listens: a socket at the name listens or its process has    *)
(* ended or is closing it, and every socket that listens is 0600 and in the *)
(* private directory that was judged, or was moved there by its user.       *)
PublishedIsReady ==
    /\ \A d \in Dirs, p \in Processes :
          entries[d]["name"] = Socket(p) =>
              /\ Socket(p) \in restricted
              /\ At(p, "serve") => Socket(p) \in listening /\ held[p] = d
    /\ \A p \in Processes : Socket(p) \in listening =>
          /\ Socket(p) \in restricted
          /\ \A d \in Dirs \ {held[p]}, n \in Names : entries[d][n] # Socket(p)
          /\ held[p] \in Private

(* Nothing but its own socket is ever unlinked by a process, and publishing *)
(* replaces no entry: an entry changes hands only through the programs that *)
(* put files at the name or clear it.                                       *)
OnlyOwnRemoved ==
    [][moves' = moves =>
        \A d \in Dirs, n \in Names :
            entries[d][n] # None /\ entries'[d][n] # entries[d][n] =>
                \E p \in Processes : entries[d][n] = Socket(p) /\ pc'[p] # pc[p]]_socketVars

(* A bind that fails, or a listener that was closed, leaves nothing behind: *)
(* a process that ended without being killed has no entry in the directory  *)
(* it held.                                                                 *)
LeavesNothing ==
    [][\A p \in Processes :
        pc[p] \in {"close", "remove", "unlink"} /\ pc'[p] = "out" /\ Remove(p) =>
            \A n \in Names : entries'[held[p]][n] # Socket(p)]_socketVars

(* What a process puts into a directory it takes out again, and nothing     *)
(* else, whoever renames, replaces or fills the directory meanwhile.        *)
SocketsAreExact == OnlyOwnRemoved /\ LeavesNothing
================================================================================
