---------------------------- MODULE SupervisorLock ----------------------------
(***************************************************************************)
(* A cell's `supervisor.lock`: crate plasmosome-core, instance.rs, the      *)
(* CellDir operations create_supervisor_lock, probe_supervisor_lock and     *)
(* test_supervisor_lock, run by several callers (threads or processes) at   *)
(* once.  Every system call is one step, because another caller's call can  *)
(* fall between any two of them.                                            *)
(*                                                                          *)
(* A file is an inode; `supervisor.lock` and `supervisor.lock.tmp` are      *)
(* names that point at inodes.  An flock belongs to an open file, so to the *)
(* caller that holds it, and goes when the caller unlocks, drops or dies.   *)
(***************************************************************************)
EXTENDS Naturals

CONSTANTS
    Callers,    \* threads and processes that work on this cell's lock
    NoOne,      \* no inode, no holder
    MaxInodes   \* bound: files ever created as supervisor.lock.tmp

ASSUME LockAssumption ==
    /\ MaxInodes \in Nat
    /\ NoOne \notin Callers
    /\ NoOne \notin Nat

Inodes == 1..MaxInodes

VARIABLES
    temporary,  \* the inode named supervisor.lock.tmp
    named,      \* the inode named supervisor.lock
    created,    \* how many inodes have been created
    holder,     \* who holds the flock of each inode
    step,       \* where each caller is in its call
    file,       \* the file each caller has open
    overlapped, \* ghost: two creating calls have run at once
    released    \* ghost: inodes whose flock was given up after it was taken

lockVars == <<temporary, named, created, holder, step, file, overlapped, released>>

(* Where a caller is inside create_supervisor_lock.                         *)
Creating == {"remove", "create", "flock", "cleanup", "rename", "check", "sync",
             "remove_named", "unlock"}

(* Where a caller has a file open and locked.                               *)
Locking == {"rename", "check", "sync", "remove_named", "unlock", "held"}

(* Where a caller has a file open that it has not locked.                   *)
Opening == {"flock", "probe_lock"}

LockInit ==
    /\ temporary = NoOne
    /\ named = NoOne
    /\ created = 0
    /\ holder = [i \in Inodes |-> NoOne]
    /\ step = [c \in Callers |-> "idle"]
    /\ file = [c \in Callers |-> NoOne]
    /\ overlapped = FALSE
    /\ released = {}

Goto(c, from, to) ==
    /\ step[c] = from
    /\ step' = [step EXCEPT ![c] = to]

(* An error that ends a call with nothing open: the system call failed.     *)
Fails(c, from) ==
    /\ Goto(c, from, "idle")
    /\ file' = [file EXCEPT ![c] = NoOne]
    /\ UNCHANGED <<temporary, named, created, holder, overlapped, released>>

----------------------------------------------------------------------------
(* create_supervisor_lock                                                   *)

BeginCreate(c, from) ==
    /\ Goto(c, from, "remove")
    /\ overlapped' = (overlapped \/ \E d \in Callers \ {c} : step[d] \in Creating)
    /\ UNCHANGED <<temporary, named, created, holder, file, released>>

(* The leftover of an earlier call is unlinked, whoever it belongs to.      *)
remove_if_present(c) ==
    \/ /\ Goto(c, "remove", "create")
       /\ temporary' = NoOne
       /\ UNCHANGED <<named, created, holder, file, overlapped, released>>
    \/ Fails(c, "remove")

(* O_CREAT | O_EXCL: an entry another call made meanwhile is an error; so   *)
(* is an inherited ACL or a failed chmod, which leaves the file behind.     *)
create_private_file(c) ==
    /\ step[c] = "create"
    /\ UNCHANGED <<named, holder, overlapped, released>>
    /\ \/ /\ temporary = NoOne
          /\ created < MaxInodes
          /\ created' = created + 1
          /\ temporary' = created + 1
          /\ \/ file' = [file EXCEPT ![c] = created + 1]
                /\ Goto(c, "create", "flock")
             \/ Goto(c, "create", "cleanup") /\ UNCHANGED file
       \/ /\ Goto(c, "create", "cleanup")
          /\ UNCHANGED <<temporary, created, file>>

(* Mutant: the temporary is renamed before it is locked.                    *)
create_locked_temporary_Unlocked(c) ==
    /\ Goto(c, "flock", "rename")
    /\ UNCHANGED <<temporary, named, created, holder, file, overlapped, released>>

(* flock(LOCK_EX | LOCK_NB) on the new file, which may already be held: a   *)
(* racing rename can give it its name, and a probe can lock it.             *)
create_locked_temporary(c) ==
    /\ step[c] = "flock"
    /\ UNCHANGED <<temporary, named, created, overlapped, released>>
    /\ \/ /\ holder[file[c]] = NoOne
          /\ holder' = [holder EXCEPT ![file[c]] = c]
          /\ Goto(c, "flock", "rename")
          /\ UNCHANGED file
       \/ /\ Goto(c, "flock", "cleanup")
          /\ file' = [file EXCEPT ![c] = NoOne]
          /\ UNCHANGED holder

(* A failed creation removes whatever is named supervisor.lock.tmp.         *)
RemoveFailedTemporary(c) ==
    /\ Goto(c, "cleanup", "idle")
    /\ temporary' \in {temporary, NoOne}
    /\ UNCHANGED <<named, created, holder, file, overlapped, released>>

(* rename_no_replace of the temporary name, which may by now be another     *)
(* call's file, or gone.                                                    *)
name_supervisor_lock(c) ==
    /\ step[c] = "rename"
    /\ UNCHANGED <<created, holder, file, overlapped, released>>
    /\ \/ /\ temporary # NoOne
          /\ named = NoOne
          /\ named' = temporary
          /\ temporary' = NoOne
          /\ Goto(c, "rename", "check")
       \/ /\ Goto(c, "rename", "remove_named")
          /\ UNCHANGED <<temporary, named>>

RemoveUnnamedTemporary(c) ==
    /\ Goto(c, "remove_named", "unlock")
    /\ temporary' \in {temporary, NoOne}
    /\ UNCHANGED <<named, created, holder, file, overlapped, released>>

(* Mutant: the entry that was renamed is taken to be the file that is held. *)
check_lock_named_Trusts(c) ==
    /\ step[c] = "check"
    /\ Goto(c, "check", "sync")
    /\ UNCHANGED <<temporary, named, created, holder, file, overlapped, released>>

(* The lock is returned only if supervisor.lock is the file that is held.   *)
check_lock_named(c) ==
    /\ step[c] = "check"
    /\ Goto(c, "check", IF named = file[c] THEN "sync" ELSE "unlock")
    /\ UNCHANGED <<temporary, named, created, holder, file, overlapped, released>>

sync_dir(c) ==
    /\ \/ Goto(c, "sync", "held")
       \/ Goto(c, "sync", "unlock")
    /\ UNCHANGED <<temporary, named, created, holder, file, overlapped, released>>

Release(c) ==
    /\ holder' = [i \in Inodes |-> IF holder[i] = c THEN NoOne ELSE holder[i]]
    /\ released' = released \cup {i \in Inodes : holder[i] = c}
    /\ file' = [file EXCEPT ![c] = NoOne]
    /\ step' = [step EXCEPT ![c] = "idle"]
    /\ UNCHANGED <<temporary, named, created, overlapped>>

(* Every failure after the flock unlocks before it returns.                 *)
unlock(c) == step[c] = "unlock" /\ Release(c)

----------------------------------------------------------------------------
(* probe_supervisor_lock, and test_supervisor_lock, which creates a missing *)
(* lock.                                                                    *)

BeginProbe(c) ==
    /\ \E probe \in {"open_probe", "open_test"} : Goto(c, "idle", probe)
    /\ UNCHANGED <<temporary, named, created, holder, file, overlapped, released>>

open_supervisor_lock(c) ==
    /\ step[c] \in {"open_probe", "open_test"}
    /\ \/ /\ named # NoOne
          /\ step' = [step EXCEPT ![c] = "probe_lock"]
          /\ file' = [file EXCEPT ![c] = named]
          /\ UNCHANGED <<temporary, named, created, holder, overlapped, released>>
       \/ named = NoOne /\ step[c] = "open_test" /\ BeginCreate(c, "open_test")
       \/ step[c] = "open_test" /\ Fails(c, "open_test")
       \/ step[c] = "open_probe" /\ Fails(c, "open_probe")

(* Free keeps the lock it took; Held, and any other error, close the file.  *)
probe_supervisor_lock(c) ==
    \/ /\ Goto(c, "probe_lock", "held")
       /\ holder[file[c]] = NoOne
       /\ holder' = [holder EXCEPT ![file[c]] = c]
       /\ UNCHANGED <<temporary, named, created, file, overlapped, released>>
    \/ Fails(c, "probe_lock")

----------------------------------------------------------------------------
(* The caller drops its SupervisorLock, or dies at any point of a call.     *)

SupervisorLock_drop(c) == step[c] = "held" /\ Release(c)

Die(c) == step[c] \notin {"idle", "held", "unlock"} /\ Release(c)

LockNext ==
    \E c \in Callers :
        \/ BeginCreate(c, "idle")
        \/ remove_if_present(c)
        \/ create_private_file(c)
        \/ create_locked_temporary(c)
        \/ RemoveFailedTemporary(c)
        \/ name_supervisor_lock(c)
        \/ RemoveUnnamedTemporary(c)
        \/ check_lock_named(c)
        \/ sync_dir(c)
        \/ unlock(c)
        \/ BeginProbe(c)
        \/ open_supervisor_lock(c)
        \/ probe_supervisor_lock(c)
        \/ SupervisorLock_drop(c)
        \/ Die(c)

LockSpec == LockInit /\ [][LockNext]_lockVars

----------------------------------------------------------------------------
(* Properties                                                               *)

(* Every variable has its type, and a caller has a file open exactly where  *)
(* the code has one: no path of a failing call leaks a descriptor.          *)
TypeOK ==
    /\ temporary \in Inodes \cup {NoOne}
    /\ named \in Inodes \cup {NoOne}
    /\ created \in 0..MaxInodes
    /\ holder \in [Inodes -> Callers \cup {NoOne}]
    /\ step \in [Callers -> Creating \cup Locking \cup Opening
                              \cup {"idle", "open_probe", "open_test"}]
    /\ file \in [Callers -> Inodes \cup {NoOne}]
    /\ overlapped \in BOOLEAN
    /\ released \subseteq Inodes
    /\ \A c \in Callers : (file[c] # NoOne) <=> (step[c] \in Locking \cup Opening)

(* "Ok therefore always means that supervisor.lock names the held file":    *)
(* whoever has been given the lock, by a create or by a probe, holds the    *)
(* flock of the very file that has the name, whatever calls raced with its. *)
HeldIsNamed ==
    \A c \in Callers :
        step[c] = "held" => named = file[c] /\ named # NoOne /\ holder[named] = c

(* At most one caller is ever given the lock of a cell.                     *)
OneSupervisor ==
    \A c, d \in Callers : step[c] = "held" /\ step[d] = "held" => c = d

(* "With one call at a time, a probe sees no entry and then a held lock,    *)
(* never a free one": while creating calls have not overlapped, the named   *)
(* file is free only after someone that had locked it gave it up.           *)
NeverFreshAndFree ==
    ~overlapped /\ named # NoOne /\ holder[named] = NoOne => named \in released
=============================================================================
