------------------------------ MODULE HelperLaunch ------------------------------
(***************************************************************************)
(* How the supervisor lays out and forks the VMM helper, and what the       *)
(* helper finds: HelperExec of plasmosome-membrane/src/runtime/launch.rs,   *)
(* the spawn lock of spawn_lock.rs, and the first steps of the helper's     *)
(* run.  Threads of one process prepare helpers while others fork broker    *)
(* commands; descriptor numbers are given out as the kernel does, the       *)
(* lowest first, and a fork copies whatever is open at that moment.         *)
(*                                                                          *)
(* On Linux a pipe is close-on-exec from the start; on Darwin its ends are   *)
(* inheritable until they are moved, which the spawn lock must cover.        *)
(* Signals, umask, working directory and the setsid of VmmChild::spawn are   *)
(* the ways in which a child's setup may fail.                               *)
(***************************************************************************)
EXTENDS Naturals, FiniteSetsExt

CONSTANTS
    Launches,   \* threads that prepare and spawn a helper
    Commands,   \* threads that spawn a broker's command
    None,
    FirstKept,  \* the lowest number a descriptor is moved to
    MaxNumber,  \* bound: the highest descriptor number
    PipeSize,   \* what a pipe takes without blocking
    MaxLine     \* bound: the length of a recipe line

Threads == Launches \cup Commands
Numbers == 0..MaxNumber
Platforms == {"linux", "darwin"}

ASSUME LaunchAssumption ==
    /\ Launches \cap Commands = {}
    /\ None \notin Threads \cup Numbers
    /\ MaxNumber \in Nat
    /\ FirstKept \in Numbers /\ FirstKept > 3
    /\ PipeSize \in Nat /\ MaxLine \in Nat

VARIABLES
    platform,
    table,      \* the supervisor's descriptors
    pc,         \* the next step of each thread
    line,       \* the length of the recipe line of each launch
    owned,      \* the numbers of each launch's descriptors, by what they are
    creating,   \* the thread that has the write side of the spawn lock
    child,      \* how far the child of each thread is
    childTable  \* its descriptors

launchVars == <<platform, table, pc, line, owned, creating, child, childTable>>

Closed == [object |-> None, launch |-> None, inherits |-> FALSE]
NoTable == [n \in Numbers |-> Closed]
Ends == {"null", "diag_read", "diag_write", "recipe_read", "recipe_write"}

(* The supervisor may have been started with any of the lowest descriptors  *)
(* open, and inherited by what it executes; not every thread launches       *)
(* something.                                                               *)
LaunchInit ==
    /\ platform \in Platforms
    /\ \E open \in SUBSET (0..FirstKept) :
          table = [n \in Numbers |->
                      IF n \in open THEN [object |-> "other", launch |-> None, inherits |-> TRUE]
                      ELSE Closed]
    /\ pc \in [Threads -> {"idle", "none"}]
    /\ line \in [Launches -> 1..MaxLine]
    /\ owned = [l \in Launches |-> [e \in Ends |-> None]]
    /\ creating = None
    /\ child = [t \in Threads |-> "none"]
    /\ childTable = [t \in Threads |-> NoTable]

----------------------------------------------------------------------------
(* Descriptors                                                              *)

FreeFrom(t, from) == {n \in Numbers : n >= from /\ t[n] = Closed}

Lowest(t, from) == Min(FreeFrom(t, from))

Opened(t, n, e, l, inherits) == [t EXCEPT ![n] = [object |-> e, launch |-> l, inherits |-> inherits]]

Goto(t, step) == pc' = [pc EXCEPT ![t] = step]

(* Dropping OwnedFds closes them.                                           *)
DropEnds(l, ends) ==
    /\ table' = [n \in Numbers |->
                    IF \E e \in ends : owned[l][e] = n THEN Closed ELSE table[n]]
    /\ owned' = [owned EXCEPT ![l] = [e \in Ends |-> IF e \in ends THEN None ELSE @[e]]]

(* A refusal drops everything the preparation made, and the spawn lock with *)
(* it.                                                                      *)
Refuse(l) ==
    /\ DropEnds(l, Ends)
    /\ creating' = IF creating = l THEN None ELSE creating
    /\ Goto(l, "refused")

----------------------------------------------------------------------------
(* HelperExec::prepare                                                      *)

(* Closer::prepare, then /dev/null, which must be the null device.          *)
open_null(l) ==
    /\ pc[l] = "idle"
    /\ \/ LET n == Lowest(table, 0) IN
          /\ FreeFrom(table, 0) # {}
          /\ table' = Opened(table, n, "null", l, FALSE)
          /\ owned' = [owned EXCEPT ![l]["null"] = n]
          /\ Goto(l, "move_null")
          /\ UNCHANGED creating
       \/ Refuse(l)

(* Mutant: the descriptor stays where it is.                                *)
moved_above_stdio_Stays(l, e, next) ==
    /\ table' = [table EXCEPT ![owned[l][e]].inherits = FALSE]
    /\ Goto(l, next)
    /\ UNCHANGED <<owned, creating>>

(* F_DUPFD_CLOEXEC to FirstKept or above; the original is closed.           *)
moved_above_stdio(l, e, next) ==
    \/ LET old == owned[l][e]
           new == Lowest(table, FirstKept)
       IN /\ FreeFrom(table, FirstKept) # {}
          /\ table' = [Opened(table, new, e, l, FALSE) EXCEPT ![old] = Closed]
          /\ owned' = [owned EXCEPT ![l][e] = new]
          /\ Goto(l, next)
          /\ UNCHANGED creating
    \/ Refuse(l)

(* write_held: the write side, which excludes forks and other creations.    *)
write_held(l) ==
    /\ pc[l] = "pipes"
    /\ creating = None
    /\ creating' = l
    /\ Goto(l, "diag_pipe")
    /\ UNCHANGED <<table, owned>>

pipe(l, read, write, next) ==
    \/ LET r == Lowest(table, 0)
           first == Opened(table, r, read, l, platform = "darwin")
           w == Lowest(first, 0)
       IN /\ FreeFrom(table, 0) # {} /\ FreeFrom(first, 0) # {}
          /\ table' = Opened(first, w, write, l, platform = "darwin")
          /\ owned' = [owned EXCEPT ![l][read] = r, ![l][write] = w]
          /\ Goto(l, next)
          /\ UNCHANGED creating
    \/ Refuse(l)

(* create_pipes, one end after the other.                                   *)
create_pipes(l) ==
    \/ pc[l] = "move_null" /\ moved_above_stdio(l, "null", "pipes")
    \/ pc[l] = "diag_pipe" /\ pipe(l, "diag_read", "diag_write", "move_diag_read")
    \/ pc[l] = "move_diag_read" /\ moved_above_stdio(l, "diag_read", "move_diag_write")
    \/ pc[l] = "move_diag_write" /\ moved_above_stdio(l, "diag_write", "recipe_pipe")
    \/ pc[l] = "recipe_pipe" /\ pipe(l, "recipe_read", "recipe_write", "move_recipe_read")
    \/ pc[l] = "move_recipe_read" /\ moved_above_stdio(l, "recipe_read", "move_recipe_write")
    \/ pc[l] = "move_recipe_write" /\ moved_above_stdio(l, "recipe_write", "created")

(* with_each_descriptor_held: every end must be close-on-exec when the lock *)
(* is given up.                                                             *)
with_each_descriptor_held(l) ==
    /\ pc[l] = "created"
    /\ IF \E e \in Ends : table[owned[l][e]].inherits
       THEN Refuse(l)
       ELSE /\ creating' = None
            /\ Goto(l, "preload")
            /\ UNCHANGED <<table, owned>>

(* Mutant: the write end is kept open.                                      *)
preload_KeepsEnd(l) ==
    /\ pc[l] = "preload"
    /\ line[l] <= PipeSize
    /\ Goto(l, "prepared")
    /\ UNCHANGED <<table, owned, creating>>

(* set_nonblocking, which may fail, and preload, whose writes nobody reads: *)
(* the pipe takes the whole line, or the launch is refused.  The write end  *)
(* is closed with it.                                                       *)
preload(l) ==
    /\ pc[l] = "preload"
    /\ \/ /\ line[l] <= PipeSize
          /\ DropEnds(l, {"recipe_write"})
          /\ Goto(l, "prepared")
          /\ UNCHANGED creating
       \/ Refuse(l)

----------------------------------------------------------------------------
(* VmmChild::spawn                                                          *)

(* Mutant: the fork does not take the read side.                            *)
MayFork_Any(t) == pc[t] = (IF t \in Launches THEN "prepared" ELSE "idle")

(* fork_holding: the read side, free while nobody creates descriptors.      *)
MayFork(t) ==
    /\ pc[t] = IF t \in Launches THEN "prepared" ELSE "idle"
    /\ creating = None

(* The child has a copy of everything that is open; the parent goes on.     *)
fork(t) ==
    /\ MayFork(t)
    /\ child' = [child EXCEPT ![t] = "forked"]
    /\ childTable' = [childTable EXCEPT ![t] = table]
    /\ Goto(t, "spawned")
    /\ UNCHANGED <<table, owned, creating>>

(* The launcher is dropped; the reading end is the caller's.                *)
fork_fails(t) ==
    /\ MayFork(t)
    /\ Goto(t, "unforked")
    /\ IF t \in Launches THEN DropEnds(t, Ends \ {"diag_read"}) ELSE UNCHANGED <<table, owned>>
    /\ UNCHANGED <<creating, child, childTable>>

(* spawn consumed the launcher: the parent keeps only the reading end.      *)
drop_exec(l) ==
    /\ pc[l] = "spawned"
    /\ table' = [n \in Numbers |->
                    IF \E e \in {"null", "diag_write", "recipe_read"} : owned[l][e] = n
                    THEN Closed ELSE table[n]]
    /\ Goto(l, "launched")
    /\ UNCHANGED <<owned, creating, child, childTable>>

----------------------------------------------------------------------------
(* The child                                                                *)

(* The four dup2, each of which closes what its target was and clears       *)
(* close-on-exec on it.                                                     *)
install_descriptors(l) ==
    LET from == [n \in 0..3 |-> owned[l][<<"null", "null", "diag_write", "recipe_read">>[n + 1]]]
        dup2(t, n) == [t EXCEPT ![n] = [t[from[n]] EXCEPT !.inherits = TRUE]]
    IN dup2(dup2(dup2(dup2(childTable[l], 0), 1), 2), 3)

launch(l) ==
    /\ child[l] = "forked"
    /\ childTable' = [childTable EXCEPT ![l] = install_descriptors(l)]
    /\ child' = [child EXCEPT ![l] = "installed"]

(* Mutant: the descriptors above 3 are left to close-on-exec.               *)
close_above_three_Not(l) ==
    /\ child[l] = "installed"
    /\ child' = [child EXCEPT ![l] = "closed"]
    /\ UNCHANGED childTable

close_above_three(l) ==
    /\ child[l] = "installed"
    /\ childTable' = [childTable EXCEPT ![l] = [n \in Numbers |-> IF n > 3 THEN Closed ELSE @[n]]]
    /\ child' = [child EXCEPT ![l] = "closed"]

(* execve of the helper, or of a broker's command straight from the fork.   *)
execve(t) ==
    /\ child[t] = IF t \in Launches THEN "closed" ELSE "forked"
    /\ childTable' = [childTable EXCEPT ![t] = [n \in Numbers |-> IF @[n].inherits THEN @[n] ELSE Closed]]
    /\ child' = [child EXCEPT ![t] = "running"]

(* _exit with 125, 127 or 71, or by the helper's refusal; or killed.        *)
Exit(t) ==
    /\ child[t] \notin {"none", "exited"}
    /\ childTable' = [childTable EXCEPT ![t] = NoTable]
    /\ child' = [child EXCEPT ![t] = "exited"]

----------------------------------------------------------------------------
(* The helper's run                                                         *)

(* judge_descriptors: 0 and 1 the null device, 2 and 3 pipes, nothing else. *)
Judged(t) ==
    \A n \in Numbers :
        CASE n \in {0, 1} -> t[n].object = "null"
          [] n \in {2, 3} -> t[n].object \in Ends \ {"null"}
          [] OTHER -> t[n] = Closed

judge_descriptors(l) ==
    /\ child[l] = "running"
    /\ IF Judged(childTable[l])
       THEN child' = [child EXCEPT ![l] = "reading"] /\ UNCHANGED childTable
       ELSE /\ child' = [child EXCEPT ![l] = "refused"]
            /\ childTable' = [childTable EXCEPT ![l] = NoTable]

(* Who has an end open: the supervisor, or a child.                         *)
Holds(t, e, l) == \E n \in Numbers : t[n].object = e /\ t[n].launch = l

HeldAnywhere(e, l) == Holds(table, e, l) \/ \E t \in Threads : Holds(childTable[t], e, l)

(* read_recipe ends only at end of file; then close_recipe.                 *)
read_recipe(l) ==
    /\ child[l] = "reading"
    /\ ~HeldAnywhere("recipe_write", childTable[l][3].launch)
    /\ childTable' = [childTable EXCEPT ![l][3] = Closed]
    /\ child' = [child EXCEPT ![l] = "configured"]

Prepare(l) ==
    /\ \/ open_null(l)
       \/ create_pipes(l)
       \/ write_held(l)
       \/ with_each_descriptor_held(l)
       \/ preload(l)
    /\ UNCHANGED <<child, childTable>>

Spawn(t) == fork(t) \/ fork_fails(t)

Child(t) ==
    /\ \/ t \in Launches /\ (launch(t) \/ close_above_three(t) \/ judge_descriptors(t) \/ read_recipe(t))
       \/ execve(t)
    /\ UNCHANGED <<pc, table, owned, creating>>

LaunchNext ==
    /\ \/ \E l \in Launches : Prepare(l) \/ drop_exec(l)
       \/ \E t \in Threads : Spawn(t) \/ Child(t)
    /\ UNCHANGED <<platform, line>>

Exits(t) == Exit(t) /\ UNCHANGED <<platform, table, pc, line, owned, creating>>

----------------------------------------------------------------------------
(* Properties                                                               *)

Executed == {"running", "reading", "configured"}

(* A helper that install_descriptors and close_above_three set up has       *)
(* exactly 0 to 3, each its own, and passes judge_descriptors.  No other    *)
(* program that is executed has an end of any helper's pipe, and the        *)
(* recipe's write end is left only in children that are about to exec, so   *)
(* read_recipe reaches end of file and end of file on descriptor 2's pipe   *)
(* means that the helper, and what it started, is gone.  A refused launch   *)
(* leaves the supervisor no descriptor and no lock; one whose spawn was     *)
(* tried leaves it the reading end of the diagnostic pipe at most.          *)
EndsStayHome ==
    /\ \A l \in Launches :
          /\ child[l] = "reading" =>
                /\ childTable[l] = [n \in Numbers |->
                       IF n > 3 THEN Closed
                       ELSE [object |-> <<"null", "null", "diag_write", "recipe_read">>[n + 1],
                             launch |-> l, inherits |-> TRUE]]
                /\ ~Holds(table, "recipe_write", l)
          /\ child[l] # "refused"
    /\ \A t \in Threads, n \in Numbers :
          child[t] \in Executed => childTable[t][n].launch \in {None, t}
    /\ \A l \in Launches :
          LET left == {table[n].object : n \in {m \in Numbers : table[m].launch = l}} IN
          /\ pc[l] = "refused" => left = {} /\ creating # l
          /\ pc[l] \in {"unforked", "launched"} => left \subseteq {"diag_read"}
=============================================================================
