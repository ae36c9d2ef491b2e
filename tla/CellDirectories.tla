--------------------------- MODULE CellDirectories ---------------------------
(***************************************************************************)
(* The cell directories of an instance: crate plasmosome-core, instance.rs, *)
(* the InstanceRoot operations lock, allocate_cell, create_cell_dir,        *)
(* cell_dir and retire.  Threads of several processes call them; the        *)
(* instance's writer lock admits one process at a time, and the lock's      *)
(* allocation mutex admits one allocation at a time, but retire and         *)
(* create_cell_dir do not take that mutex.  Processes die and the machine   *)
(* loses power between any two system calls.                                *)
(*                                                                          *)
(* The disk is the sequence of states of `cells` and `retired` that a power *)
(* loss can still bring back: its first element is the last synced state,   *)
(* its last element what the processes see.  Directory operations reach the *)
(* disk in order, as on a local journalling filesystem.                     *)
(***************************************************************************)
EXTENDS Naturals, FiniteSets, SequencesExt

CONSTANTS
    Threads,
    Processes,
    ProcessOf,      \* the process each thread runs in
    None,
    MaxNumber,      \* MAX_CELL_NUMBER
    MaxDirectories, \* bound: directories ever made
    Attempts        \* ALLOCATION_ATTEMPTS

ASSUME DirectoriesAssumption ==
    /\ ProcessOf \in [Threads -> Processes]
    /\ MaxNumber \in Nat \ {0}
    /\ MaxDirectories \in Nat
    /\ Attempts \in Nat \ {0}
    /\ None \notin Threads
    /\ None \notin Processes
    /\ None \notin Nat

Numbers == 1..MaxNumber
Directories == 1..MaxDirectories     \* device and inode of a directory

VARIABLES
    disk,       \* sequence of [cells, retired], each [Numbers -> Directories]
    made,       \* how many directories have been made
    controller, \* the process that holds controller.lock
    mutex,      \* the thread that holds WriterLock.allocation
    pc,         \* where each thread is in its call
    call,       \* the locals of each thread's call
    issued      \* ghost: what the calls have returned

vars == <<disk, made, controller, mutex, pc, call, issued>>

(* lowest, seen and next are the locals of allocate_cell and                *)
(* next_cell_number; directory is the open descriptor of a CellDir.         *)
NoCall == [lowest |-> 1, attempt |-> 0, seen |-> 0, next |-> 0, directory |-> None,
           allocating |-> FALSE]

Now == disk[Len(disk)]

Changed(cells, retired) == Append(disk, [cells |-> cells, retired |-> retired])

(* fsync of a directory: everything up to now survives.                     *)
Synced == <<Now>>

Init ==
    /\ disk = <<[cells |-> [n \in Numbers |-> None], retired |-> [n \in Numbers |-> None]]>>
    /\ made = 0
    /\ controller = None
    /\ mutex = None
    /\ pc = [t \in Threads |-> "idle"]
    /\ call = [t \in Threads |-> NoCall]
    /\ issued = {}

At(t, step) == pc[t] = step

Goto(t, step) == pc' = [pc EXCEPT ![t] = step]

(* A call returns, with whatever error: its guard on the mutex is dropped.  *)
Return(t) ==
    /\ Goto(t, "idle")
    /\ call' = [call EXCEPT ![t] = NoCall]
    /\ mutex' = IF mutex = t THEN None ELSE mutex

----------------------------------------------------------------------------
(* The writer lock                                                          *)

(* Mutant: the flock is not checked.                                        *)
lock_Unchecked(p) ==
    /\ \A t \in Threads : ProcessOf[t] = p => At(t, "idle")
    /\ controller' = p
    /\ UNCHANGED <<disk, made, mutex, pc, call, issued>>

(* A nonblocking exclusive flock; another holder is Busy.                   *)
lock(p) ==
    /\ controller = None
    /\ controller' = p
    /\ UNCHANGED <<disk, made, mutex, pc, call, issued>>

(* The lock is borrowed by every call, so it is dropped between calls.      *)
drop_lock(p) ==
    /\ controller = p
    /\ \A t \in Threads : ProcessOf[t] = p => At(t, "idle")
    /\ controller' = None
    /\ UNCHANGED <<disk, made, mutex, pc, call, issued>>

----------------------------------------------------------------------------
(* allocate_cell                                                            *)

Begin(t, step) ==
    /\ At(t, "idle")
    /\ controller = ProcessOf[t]
    /\ Goto(t, step)
    /\ UNCHANGED <<disk, made, controller, mutex, issued>>

allocate_cell(t) ==
    /\ Begin(t, "mutex")
    /\ call' = [call EXCEPT ![t].allocating = TRUE]

LockAllocation(t) ==
    /\ At(t, "mutex")
    /\ mutex = None
    /\ mutex' = t
    /\ Goto(t, "list_first")
    /\ UNCHANGED <<disk, made, controller, call, issued>>

Largest(directory) ==
    Max({0} \cup {n \in Numbers : directory[n] # None})

(* Mutant: `retired` is listed before `cells`.                              *)
ListingOrder_RetiredFirst == <<"retired", "cells">>

(* A cell that retire moves meanwhile is in at least one of the listings.   *)
ListingOrder == <<"cells", "retired">>

list_first(t) ==
    /\ At(t, "list_first")
    /\ call' = [call EXCEPT ![t].seen = Largest(Now[ListingOrder[1]])]
    /\ Goto(t, "list_second")
    /\ UNCHANGED <<disk, made, controller, mutex, issued>>

(* The number chosen after both listings: one above the largest number and  *)
(* above every number this call found taken.                                *)
NextNumber(t) ==
    Max({call[t].lowest, call[t].seen + 1, Largest(Now[ListingOrder[2]]) + 1})

list_second(t) ==
    /\ At(t, "list_second")
    /\ UNCHANGED <<disk, made, controller, issued>>
    /\ \/ /\ NextNumber(t) <= MaxNumber
          /\ call' = [call EXCEPT ![t].next = NextNumber(t)]
          /\ Goto(t, "mkdir")
          /\ UNCHANGED mutex
       \/ /\ NextNumber(t) > MaxNumber        \* Exhausted
          /\ Return(t)

----------------------------------------------------------------------------
(* create_cell_dir, called by allocate_cell or by itself.                   *)

create_cell_dir(t) ==
    \E n \in Numbers :
        /\ Begin(t, "mkdir")
        /\ call' = [call EXCEPT ![t].next = n]

(* create_cells makes, opens and syncs `cells`; then the cell's directory   *)
(* is made exclusively.                                                     *)
make_directory(t) ==
    /\ At(t, "mkdir")
    /\ UNCHANGED <<controller, issued>>
    /\ LET n == call[t].next IN
       \/ /\ Now.cells[n] = None
          /\ made < MaxDirectories
          /\ made' = made + 1
          /\ disk' = Changed([Now.cells EXCEPT ![n] = made + 1], Now.retired)
          /\ call' = [call EXCEPT ![t].directory = made + 1]
          /\ Goto(t, "sync_new")
          /\ UNCHANGED mutex
       \/ /\ Now.cells[n] # None
          /\ Goto(t, "sync_exists")
          /\ UNCHANGED <<disk, made, call, mutex>>
       \/ Return(t) /\ UNCHANGED <<disk, made>>       \* Io, Symlink, Acl

(* A failed listing or sync, or a new directory that cannot be opened as a  *)
(* private one, returns an error and leaves what is on disk in place.       *)
Fails(t) ==
    /\ pc[t] \in {"list_first", "list_second",
                  "sync_new", "sync_exists", "sync_cells", "sync_retired"}
    /\ Return(t)
    /\ UNCHANGED <<disk, made, controller, issued>>

Returned(t, number) ==
    [number |-> number, directory |-> call[t].directory, allocated |-> call[t].allocating]

(* Mutant: the new directory is returned without a sync of `cells`.         *)
sync_new_Skips(t) ==
    /\ At(t, "sync_new")
    /\ issued' = issued \cup {Returned(t, call[t].next)}
    /\ Return(t)
    /\ UNCHANGED <<disk, made, controller>>

sync_new(t) ==
    /\ At(t, "sync_new")
    /\ disk' = Synced
    /\ issued' = issued \cup {Returned(t, call[t].next)}
    /\ Return(t)
    /\ UNCHANGED <<made, controller>>

(* AlreadyExists: an allocation tries again above the taken number, until   *)
(* its attempts are used up (Contended).                                    *)
sync_exists(t) ==
    /\ At(t, "sync_exists")
    /\ disk' = Synced
    /\ UNCHANGED <<made, controller, issued>>
    /\ \/ /\ call[t].allocating
          /\ call[t].attempt + 1 < Attempts
          /\ call' = [call EXCEPT ![t].lowest = call[t].next + 1,
                                  ![t].attempt = call[t].attempt + 1]
          /\ Goto(t, "list_first")
          /\ UNCHANGED mutex
       \/ /\ ~call[t].allocating \/ call[t].attempt + 1 = Attempts
          /\ Return(t)

----------------------------------------------------------------------------
(* cell_dir opens a cell; retire moves an opened cell to `retired`.         *)

retire(t) ==
    \E n \in Numbers :
        /\ Now.cells[n] # None
        /\ Begin(t, "naming")
        /\ call' = [call EXCEPT ![t].next = n, ![t].directory = Now.cells[n]]

(* The name must still be the directory that is open, or it is Moved.       *)
naming(t) ==
    /\ At(t, "naming")
    /\ UNCHANGED <<disk, made, controller, issued>>
    /\ \/ /\ Now.cells[call[t].next] = call[t].directory
          /\ Goto(t, "rename")
          /\ UNCHANGED <<call, mutex>>
       \/ Return(t)                                   \* Moved, Io, Acl

(* rename_no_replace: an existing retired/<cell> is AlreadyRetired.         *)
rename(t) ==
    /\ At(t, "rename")
    /\ UNCHANGED <<made, controller, issued>>
    /\ LET n == call[t].next IN
       \/ /\ Now.cells[n] # None
          /\ Now.retired[n] = None
          /\ disk' = Changed([Now.cells EXCEPT ![n] = None],
                             [Now.retired EXCEPT ![n] = Now.cells[n]])
          /\ Goto(t, "sync_cells")
          /\ UNCHANGED <<call, mutex>>
       \/ Return(t) /\ UNCHANGED disk

sync_cells(t) ==
    /\ At(t, "sync_cells")
    /\ disk' = Synced
    /\ Goto(t, "sync_retired")
    /\ UNCHANGED <<made, controller, mutex, call, issued>>

sync_retired(t) ==
    /\ At(t, "sync_retired")
    /\ disk' = Synced
    /\ Return(t)
    /\ UNCHANGED <<made, controller, issued>>

----------------------------------------------------------------------------
(* Failures of the environment                                              *)

Idle(processes) ==
    /\ pc' = [t \in Threads |-> IF ProcessOf[t] \in processes THEN "idle" ELSE pc[t]]
    /\ call' = [t \in Threads |-> IF ProcessOf[t] \in processes THEN NoCall ELSE call[t]]
    /\ mutex' = IF mutex # None /\ ProcessOf[mutex] \in processes THEN None ELSE mutex
    /\ controller' = IF controller \in processes THEN None ELSE controller

(* The controller dies: the kernel drops its flock.                         *)
Die(p) ==
    /\ controller = p
    /\ Idle({p})
    /\ UNCHANGED <<disk, made, issued>>

(* Power is lost: what was not synced survives up to some point.            *)
PowerLoss ==
    /\ \E k \in DOMAIN disk : disk' = <<disk[k]>>
    /\ Idle(Processes)
    /\ UNCHANGED <<made, issued>>

Next ==
    \/ \E p \in Processes : lock(p) \/ drop_lock(p) \/ Die(p)
    \/ \E t \in Threads :
        \/ allocate_cell(t)
        \/ LockAllocation(t)
        \/ list_first(t)
        \/ list_second(t)
        \/ create_cell_dir(t)
        \/ make_directory(t)
        \/ Fails(t)
        \/ sync_new(t)
        \/ sync_exists(t)
        \/ retire(t)
        \/ naming(t)
        \/ rename(t)
        \/ sync_cells(t)
        \/ sync_retired(t)
    \/ PowerLoss

Spec == Init /\ [][Next]_vars

----------------------------------------------------------------------------
(* Properties                                                               *)

(* Every variable has its type, the disk never loses its synced state, and *)
(* the allocation mutex is held through an allocation.                      *)
TypeOK ==
    /\ Len(disk) >= 1
    /\ \A k \in DOMAIN disk :
          disk[k] \in [cells : [Numbers -> Directories \cup {None}],
                       retired : [Numbers -> Directories \cup {None}]]
    /\ made \in 0..MaxDirectories
    /\ controller \in Processes \cup {None}
    /\ mutex \in Threads \cup {None}
    /\ \A t \in Threads :
          /\ call[t].next \in 0..MaxNumber
          /\ call[t].attempt < Attempts
          /\ (mutex = t) <=> (call[t].allocating /\ ~At(t, "mutex"))

(* "its ID is not allocated again": no two allocations, in whatever process *)
(* and on whatever side of a crash or a retirement, return one number; and  *)
(* only threads of the process that holds controller.lock are in a call.    *)
NeverAllocatedTwice ==
    /\ \A i, j \in issued :
          i.allocated /\ j.allocated /\ i.number = j.number => i = j
    /\ \A t \in Threads : ~At(t, "idle") => controller = ProcessOf[t]

(* A directory a call has returned is never lost: it is in `cells` or in    *)
(* `retired` under its own number, in one place only, even after a power    *)
(* loss, and retiring never replaces another.                               *)
DirectoryIsKept ==
    \A i \in issued : \A k \in DOMAIN disk :
        (disk[k].cells[i.number] = i.directory) # (disk[k].retired[i.number] = i.directory)

(* A cell's number and its directory stay one cell's for good.              *)
IdentitiesAreKept == NeverAllocatedTwice /\ DirectoryIsKept
=============================================================================
