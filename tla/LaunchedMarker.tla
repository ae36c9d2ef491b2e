---------------------------- MODULE LaunchedMarker ----------------------------
(***************************************************************************)
(* The `launched` marker of a cell, crate plasmosome-core, instance.rs, and *)
(* what the controller decides from it, supervisor_check.rs.                *)
(*                                                                          *)
(* The holder of the cell's supervisor lock is the marker's only writer, so *)
(* one call runs at a time, one action per system call.  The holder may die *)
(* in any call and another takes its place; a power loss ends the boot      *)
(* session and leaves any state of the directory since its last sync, with  *)
(* a file that was never synced perhaps torn.                               *)
(***************************************************************************)
EXTENDS Naturals

CONSTANTS
    None,
    MaxBoots    \* bound: boot sessions

VARIABLES
    boot,       \* this boot session
    dir,        \* the names: whether launched.tmp is there, and launched
    disk,       \* the states of dir a power loss may leave
    call,       \* the call that runs, or None
    step,       \* its next system call
    file,       \* the temporary it made
    acked,      \* ghost: what the last call that returned Ok promised
    running     \* ghost: create_launched returned Ok and no end was begun

vars == <<boot, dir, disk, call, step, file, acked, running>>

(* LaunchedMarker as a file: its record, whether all of it was written and  *)
(* whether that was synced.                                                 *)
Markers == [boot_session : 1..MaxBoots, stopped : BOOLEAN, whole : BOOLEAN, synced : BOOLEAN]

Records == [boot_session : 1..MaxBoots, stopped : BOOLEAN]

Dirs == [tmp : BOOLEAN, launched : Markers \cup {None}]

Marker(session, stopped) ==
    [boot_session |-> session, stopped |-> stopped, whole |-> FALSE, synced |-> FALSE]

Calls == {"create_launched", "mark_launched_stopped", "remove_launched"}
Steps == {"clear", "make", "write", "sync", "rename", "remove", "sync_dir"}

ASSUME LaunchedMarkerAssumption ==
    /\ MaxBoots \in Nat \ {0}
    /\ None \notin Markers \cup Records
    /\ None \notin Calls \cup Steps

Init ==
    /\ boot = 1
    /\ dir = [tmp |-> FALSE, launched |-> None]
    /\ disk = {dir}
    /\ call = None
    /\ step = None
    /\ file = None
    /\ acked = [known |-> TRUE, marker |-> None]
    /\ running = FALSE

(* What a marker says of the runtime, apart from how its file stands.       *)
Says(m) == IF m = None THEN None ELSE [boot_session |-> m.boot_session, stopped |-> m.stopped]

(* read_launched                                                            *)
read_launched ==
    CASE dir.launched = None -> "Absent"
      [] dir.launched # None /\ dir.launched.whole -> "Present"
      [] OTHER -> "Unreadable"

----------------------------------------------------------------------------
(* The calls of the lock's holder                                           *)

Begin(c, first) ==
    /\ call = None
    /\ call' = c
    /\ step' = first
    /\ UNCHANGED <<boot, dir, disk>>

create_launched ==
    /\ Begin("create_launched", "clear")
    /\ file' = Marker(boot, FALSE)
    /\ acked' = [acked EXCEPT !.known = FALSE]
    /\ UNCHANGED running

(* Missing and MarkerUnreadable write nothing.                              *)
mark_launched_stopped ==
    /\ read_launched = "Present"
    /\ Begin("mark_launched_stopped", "clear")
    /\ file' = Marker(dir.launched.boot_session, TRUE)
    /\ acked' = [acked EXCEPT !.known = FALSE]
    /\ running' = FALSE

remove_launched ==
    /\ Begin("remove_launched", "remove")
    /\ file' = None
    /\ acked' = [acked EXCEPT !.known = FALSE]
    /\ running' = FALSE

(* The directory changes; until it is synced either state may be on disk.   *)
Rename(d) ==
    /\ dir' = d
    /\ disk' = disk \cup {d}

(* write_temporary removes what an earlier call left.                       *)
remove_temporary ==
    /\ step = "clear"
    /\ Rename([dir EXCEPT !.tmp = FALSE])
    /\ step' = "make"
    /\ UNCHANGED <<boot, call, file, acked, running>>

create_private_file ==
    /\ step = "make"
    /\ ~dir.tmp
    /\ Rename([dir EXCEPT !.tmp = TRUE])
    /\ step' = "write"
    /\ UNCHANGED <<boot, call, file, acked, running>>

write_all ==
    /\ step = "write"
    /\ file' = [file EXCEPT !.whole = TRUE]
    /\ step' = "sync"
    /\ UNCHANGED <<boot, dir, disk, call, acked, running>>

(* Mutant: the temporary is renamed before it is synced.                    *)
sync_file_Skipped ==
    /\ step = "sync"
    /\ step' = "rename"
    /\ UNCHANGED <<boot, dir, disk, call, file, acked, running>>

sync_file ==
    /\ step = "sync"
    /\ file' = [file EXCEPT !.synced = TRUE]
    /\ step' = "rename"
    /\ UNCHANGED <<boot, dir, disk, call, acked, running>>

Replace ==
    /\ Rename([tmp |-> FALSE, launched |-> file])
    /\ step' = "sync_dir"
    /\ UNCHANGED <<boot, call, file, acked, running>>

(* Mutant: a marker that is there already will do.                          *)
rename_no_replace_KeepsOld ==
    /\ step = "rename"
    /\ call = "create_launched"
    /\ \/ dir.launched = None /\ Replace
       \/ /\ dir.launched # None
          /\ Rename([dir EXCEPT !.tmp = FALSE])
          /\ step' = "sync_dir"
          /\ UNCHANGED <<boot, call, file, acked, running>>

(* create_launched replaces nothing: an existing entry is AlreadyExists and *)
(* the temporary is removed.                                                *)
rename_no_replace ==
    /\ step = "rename"
    /\ call = "create_launched"
    /\ \/ dir.launched = None /\ Replace
       \/ /\ dir.launched # None
          /\ Rename([dir EXCEPT !.tmp = FALSE])
          /\ call' = None
          /\ step' = None
          /\ file' = None
          /\ UNCHANGED <<boot, acked, running>>

rename_at ==
    /\ step = "rename"
    /\ call = "mark_launched_stopped"
    /\ Replace

remove_at ==
    /\ step = "remove"
    /\ Rename([dir EXCEPT !.launched = None])
    /\ step' = "sync_dir"
    /\ UNCHANGED <<boot, call, file, acked, running>>

(* The call returns Ok.                                                     *)
Return ==
    /\ call' = None
    /\ step' = None
    /\ file' = None
    /\ acked' = [known |-> TRUE, marker |-> Says(file)]
    /\ running' = (running \/ call = "create_launched")

(* Mutant: the directory is not synced.                                     *)
sync_dir_Skipped ==
    /\ step = "sync_dir"
    /\ Return
    /\ UNCHANGED <<boot, dir, disk>>

sync_dir ==
    /\ step = "sync_dir"
    /\ disk' = {dir}
    /\ Return
    /\ UNCHANGED <<boot, dir>>

(* A system call fails and the call returns its error, or the holder dies.  *)
(* A failed create may have made the temporary.                             *)
Abandon ==
    /\ call # None
    /\ \/ UNCHANGED <<dir, disk>>
       \/ step = "make" /\ ~dir.tmp /\ Rename([dir EXCEPT !.tmp = TRUE])
    /\ call' = None
    /\ step' = None
    /\ file' = None
    /\ UNCHANGED <<boot, acked, running>>

(* Torn or whole, as the disk has it.                                       *)
Survivors(m) ==
    IF m = None THEN {None}
    ELSE {[m EXCEPT !.whole = w, !.synced = TRUE] : w \in IF m.synced THEN {m.whole} ELSE BOOLEAN}

PowerLoss ==
    /\ boot < MaxBoots
    /\ boot' = boot + 1
    /\ \E d \in disk : \E m \in Survivors(d.launched) : dir' = [d EXCEPT !.launched = m]
    /\ disk' = {dir'}
    /\ call' = None
    /\ step' = None
    /\ file' = None
    /\ running' = FALSE
    /\ UNCHANGED acked

Next ==
    \/ create_launched
    \/ mark_launched_stopped
    \/ remove_launched
    \/ remove_temporary
    \/ create_private_file
    \/ write_all
    \/ sync_file
    \/ rename_no_replace
    \/ rename_at
    \/ remove_at
    \/ sync_dir
    \/ Abandon
    \/ PowerLoss

Spec == Init /\ [][Next]_vars

----------------------------------------------------------------------------
(* The controller's check of a cell whose lock it holds                     *)

MarkerFact ==
    CASE read_launched = "Absent" -> "Absent"
      [] read_launched = "Unreadable" -> "Unreadable"
      [] dir.launched.boot_session # boot -> "EarlierBoot"
      [] dir.launched.stopped -> "ThisBootStopped"
      [] OTHER -> "ThisBootRunning"

JournalFacts == {"Corrupt", "Empty", "Holdings", "Obligation"}

(* decide for LockFact::Free.                                               *)
decide(marker, journal) ==
    CASE journal = "Corrupt" -> "Quarantine"
      [] marker \in {"EarlierBoot", "ThisBootStopped"} /\ journal \in {"Empty", "Holdings"} ->
            "RetireWithResidue"
      [] marker \in {"EarlierBoot", "ThisBootStopped"} /\ journal = "Obligation" ->
            "ExternalObligations"
      [] marker \in {"ThisBootRunning", "Unreadable"} -> "SupervisorLost"
      [] marker = "Absent" /\ journal = "Empty" -> "RetireEmpty"
      [] OTHER -> "HoldingsWithoutSupervisor"

----------------------------------------------------------------------------
(* Properties                                                               *)

(* Every variable has its type, the directory is one of those a power loss  *)
(* may leave, and no temporary left by an earlier call is in the way when   *)
(* the file is made exclusively.                                            *)
TypeOK ==
    /\ boot \in 1..MaxBoots
    /\ dir \in Dirs
    /\ dir \in disk
    /\ disk \subseteq Dirs
    /\ call \in Calls \cup {None}
    /\ step \in Steps \cup {None}
    /\ file \in Markers \cup {None}
    /\ step = "make" => ~dir.tmp
    /\ acked \in [known : BOOLEAN, marker : Records \cup {None}]
    /\ running \in BOOLEAN

(* "A reader sees no marker or the whole record, never part of it": at any  *)
(* moment of any call, and after any number of power losses.                *)
NeverUnreadable == read_launched # "Unreadable"

(* What a call that returned Ok promised is what every later reader finds,  *)
(* through failures before the next call and through power losses.          *)
AckedStands ==
    acked.known => \A d \in disk : Says(d.launched) = acked.marker

(* While a runtime may run, launched in this boot and neither stopped nor   *)
(* removed since, no check with a free lock retires its cell, whatever the  *)
(* journal holds.                                                           *)
RunningIsNotRetired ==
    running => \A j \in JournalFacts :
        decide(MarkerFact, j) \notin {"RetireWithResidue", "RetireEmpty"}

(* Every reader of the marker, after whatever failed, finds a whole record  *)
(* or none, and the one that was acknowledged; and what it decides from it  *)
(* leaves a runtime that runs alone.                                        *)
MarkerIsTrue == NeverUnreadable /\ AckedStands /\ RunningIsNotRetired
=============================================================================
