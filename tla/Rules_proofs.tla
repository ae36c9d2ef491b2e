---------------------------- MODULE Rules_proofs ----------------------------
(***************************************************************************)
(* The proofs about the components that the rules run checks side by side,  *)
(* a section for each: the launched marker, lifetimes, denials, the kill    *)
(* budget, the attachment graph, trusted files, the writable root, pinned   *)
(* software and a plugin's log.                                             *)
(***************************************************************************)
EXTENDS LaunchedMarker, LifetimeBound, DenialBook, KillBudget, AttachmentGraph, TrustedFile, MountSources,
        RootImage, SoftwarePin, PluginLog, FiniteSetTheorems, WellFoundedInduction, TLAPS

(* Every nonempty set of numbers has a least one.                           *)
LEMMA LeastNat ==
    ASSUME NEW T, T \subseteq Nat, T # {}
    PROVE  \E x \in T : \A y \in T : x <= y
<1>1. PICK x \in T : \A y \in T : ~ (<<y, x>> \in OpToRel(<, Nat))
  BY WFMin, NatLessThanWellFounded
<1>2. \A y \in T : x <= y
  <2> SUFFICES ASSUME NEW y \in T, y < x PROVE FALSE
    OBVIOUS
  <2>1. <<y, x>> \in OpToRel(<, Nat)
    BY DEF OpToRel
  <2> QED
    BY <1>1, <2>1
<1> QED
  BY <1>2

-----------------------------------------------------------------------------
(* The launched marker.  Each theorem needs to know how far the running     *)
(* call is: a file is whole and synced before it has the name, on every     *)
(* directory state that a power loss may leave; and a call past its rename  *)
(* has its file in place.                                                   *)

(* A marker in place is whole and on disk.                                  *)
Settled(m) == m = None \/ (m.whole /\ m.synced)

(* Where the running call is.                                               *)
CallInv ==
    /\ call = None <=> step = None
    /\ step = "remove" => call = "remove_launched"
    /\ step \in {"clear", "make", "write", "sync", "rename"} =>
          call \in {"create_launched", "mark_launched_stopped"}
    /\ call \in {"create_launched", "mark_launched_stopped"} => file # None
    /\ call = "create_launched" => file.boot_session = boot /\ ~file.stopped
    /\ call = "remove_launched" => file = None
    /\ step \in {"sync", "rename"} => file.whole
    /\ step = "rename" => file.synced
    /\ step = "sync_dir" => dir.launched = file

DiskInv == \A d \in disk : Settled(d.launched)

AckInv ==
    /\ acked.known => call = None
    /\ AckedStands

RunInv ==
    running =>
        /\ dir.launched # None
        /\ dir.launched.boot_session = boot
        /\ ~dir.launched.stopped
        /\ call \in {None, "create_launched"}

MInv == TypeOK /\ CallInv /\ DiskInv /\ AckInv /\ RunInv

USE LaunchedMarkerAssumption

LEMMA MarkerInit == Init => MInv
  <1> SUFFICES ASSUME Init PROVE MInv
    OBVIOUS
  <1>1. TypeOK
    <2>1. 1 \in 1..MaxBoots
      OBVIOUS
    <2>2. dir \in Dirs /\ disk = {dir}
      BY DEF Init, Dirs
    <2>3. acked \in [known : BOOLEAN, marker : Records \cup {None}]
      BY DEF Init
    <2> QED  BY <2>1, <2>2, <2>3 DEF Init, TypeOK
  <1>2. CallInv /\ DiskInv /\ RunInv
    BY DEF Init, CallInv, DiskInv, RunInv, Settled, Calls, Steps
  <1>3. AckInv
    BY DEF Init, AckInv, AckedStands, Says
  <1> QED  BY <1>1, <1>2, <1>3 DEF MInv

----------------------------------------------------------------------------
(* The types of what the steps build                                        *)

LEMMA SaysType == ASSUME NEW m \in Markers PROVE Says(m) \in Records
  BY DEF Says, Markers, Records

LEMMA NewMarker ==
    ASSUME NEW booted \in 1..MaxBoots, NEW stopped \in BOOLEAN
    PROVE  /\ Marker(booted, stopped) \in Markers
           /\ Marker(booted, stopped).boot_session = booted
           /\ Marker(booted, stopped).stopped = stopped
  BY DEF Marker, Markers

LEMMA DirTypes ==
    ASSUME NEW d \in Dirs, NEW m \in Markers \cup {None}, NEW t \in BOOLEAN
    PROVE  /\ [d EXCEPT !.tmp = t] \in Dirs
           /\ [d EXCEPT !.tmp = t].tmp = t
           /\ [d EXCEPT !.tmp = t].launched = d.launched
           /\ [tmp |-> t, launched |-> m] \in Dirs
  BY DEF Dirs

LEMMA LaunchedTypes ==
    ASSUME NEW d \in Dirs, NEW m \in Markers \cup {None}
    PROVE  /\ [d EXCEPT !.launched = m] \in Dirs
           /\ [d EXCEPT !.launched = m].launched = m
           /\ [d EXCEPT !.launched = m].tmp = d.tmp
  BY DEF Dirs

(* A settled marker survives a power loss as it is.                         *)
LEMMA SettledSurvives ==
    ASSUME NEW m \in Markers \cup {None}, Settled(m), NEW n \in Survivors(m)
    PROVE  n = m
  <1>1. CASE m = None
    BY <1>1 DEF Survivors
  <1>2. CASE m # None
    <2>1. m \in Markers /\ m.synced /\ m.whole
      BY <1>2 DEF Settled
    <2>2. n = [m EXCEPT !.whole = m.whole, !.synced = TRUE]
      BY <1>2, <2>1 DEF Survivors
    <2>3. m.synced = TRUE /\ m.whole = TRUE
      BY <2>1 DEF Markers
    <2> QED  BY <2>1, <2>2, <2>3 DEF Markers
  <1> QED  BY <1>1, <1>2

----------------------------------------------------------------------------
(* One step per action                                                      *)

LEMMA MarkerStep == MInv /\ [Next]_vars => MInv'
  <1> SUFFICES ASSUME MInv, [Next]_vars PROVE MInv'
    OBVIOUS
  <1>0. TypeOK /\ CallInv /\ DiskInv /\ AckInv /\ RunInv
    BY DEF MInv
  <1>1. CASE create_launched
    <2>1. file' \in Markers /\ file'.boot_session = boot /\ ~file'.stopped
      BY <1>0, <1>1, NewMarker DEF create_launched, TypeOK
    <2>2. /\ call = None /\ call' = "create_launched" /\ step' = "clear"
          /\ UNCHANGED <<boot, dir, disk, running>>
          /\ acked' = [acked EXCEPT !.known = FALSE]
      BY <1>1 DEF create_launched, Begin
    <2>3. TypeOK'
      BY <1>0, <2>1, <2>2 DEF TypeOK, Calls, Steps
    <2>4. CallInv'
      BY <2>1, <2>2 DEF CallInv, Calls, Steps
    <2>5. DiskInv' /\ RunInv'
      BY <1>0, <2>2 DEF DiskInv, RunInv
    <2>6. AckInv'
      BY <1>0, <2>2 DEF AckInv, AckedStands, TypeOK
    <2> QED  BY <2>3, <2>4, <2>5, <2>6 DEF MInv
  <1>2. CASE mark_launched_stopped
    <2>1. /\ call = None /\ call' = "mark_launched_stopped" /\ step' = "clear"
          /\ UNCHANGED <<boot, dir, disk>>
          /\ acked' = [acked EXCEPT !.known = FALSE]
          /\ running' = FALSE
          /\ file' = Marker(dir.launched.boot_session, TRUE)
      BY <1>2 DEF mark_launched_stopped, Begin
    <2>2. dir.launched \in Markers
      BY <1>0, <1>2 DEF mark_launched_stopped, read_launched, TypeOK, Dirs
    <2>3. file' \in Markers
      <3>1. dir.launched.boot_session \in 1..MaxBoots
        BY <2>2 DEF Markers
      <3> QED  BY <2>1, <3>1, NewMarker
    <2>4. TypeOK'
      BY <1>0, <2>1, <2>3 DEF TypeOK, Calls, Steps
    <2>5. CallInv'
      BY <2>1, <2>3 DEF CallInv, Calls, Steps
    <2>6. DiskInv' /\ RunInv'
      BY <1>0, <2>1 DEF DiskInv, RunInv
    <2>7. AckInv'
      BY <1>0, <2>1 DEF AckInv, AckedStands, TypeOK
    <2> QED  BY <2>4, <2>5, <2>6, <2>7 DEF MInv
  <1>3. CASE remove_launched
    <2>1. /\ call = None /\ call' = "remove_launched" /\ step' = "remove"
          /\ UNCHANGED <<boot, dir, disk>>
          /\ acked' = [acked EXCEPT !.known = FALSE]
          /\ running' = FALSE
          /\ file' = None
      BY <1>3 DEF remove_launched, Begin
    <2>2. TypeOK'
      BY <1>0, <2>1 DEF TypeOK, Calls, Steps
    <2>3. CallInv'
      BY <2>1 DEF CallInv, Calls, Steps
    <2>4. DiskInv' /\ RunInv'
      BY <1>0, <2>1 DEF DiskInv, RunInv
    <2>5. AckInv'
      BY <1>0, <2>1 DEF AckInv, AckedStands, TypeOK
    <2> QED  BY <2>2, <2>3, <2>4, <2>5 DEF MInv
  <1>4. CASE remove_temporary
    <2> DEFINE d == [dir EXCEPT !.tmp = FALSE]
    <2>1. d \in Dirs /\ d.tmp = FALSE /\ d.launched = dir.launched
      BY <1>0, DirTypes DEF TypeOK
    <2>2. /\ step = "clear" /\ step' = "make"
          /\ dir' = d /\ disk' = disk \cup {d}
          /\ UNCHANGED <<boot, call, file, acked, running>>
      BY <1>4 DEF remove_temporary, Rename
    <2> HIDE DEF d
    <2>3. TypeOK'
      BY <1>0, <2>1, <2>2 DEF TypeOK, Steps
    <2>4. CallInv'
      BY <1>0, <2>2 DEF CallInv, Steps
    <2>5. DiskInv' /\ RunInv'
      BY <1>0, <2>1, <2>2 DEF DiskInv, RunInv, TypeOK
    <2>6. AckInv'
      BY <1>0, <2>2 DEF AckInv, AckedStands, CallInv
    <2> QED  BY <2>3, <2>4, <2>5, <2>6 DEF MInv
  <1>5. CASE create_private_file
    <2> DEFINE d == [dir EXCEPT !.tmp = TRUE]
    <2>1. d \in Dirs /\ d.tmp = TRUE /\ d.launched = dir.launched
      BY <1>0, DirTypes DEF TypeOK
    <2>2. /\ step = "make" /\ step' = "write"
          /\ dir' = d /\ disk' = disk \cup {d}
          /\ UNCHANGED <<boot, call, file, acked, running>>
      BY <1>5 DEF create_private_file, Rename
    <2> HIDE DEF d
    <2>3. TypeOK'
      BY <1>0, <2>1, <2>2 DEF TypeOK, Steps
    <2>4. CallInv'
      BY <1>0, <2>2 DEF CallInv, Steps
    <2>5. DiskInv' /\ RunInv'
      BY <1>0, <2>1, <2>2 DEF DiskInv, RunInv, TypeOK
    <2>6. AckInv'
      BY <1>0, <2>2 DEF AckInv, AckedStands, CallInv
    <2> QED  BY <2>3, <2>4, <2>5, <2>6 DEF MInv
  <1>6. CASE write_all
    <2>1. /\ step = "write" /\ step' = "sync"
          /\ file' = [file EXCEPT !.whole = TRUE]
          /\ UNCHANGED <<boot, dir, disk, call, acked, running>>
      BY <1>6 DEF write_all
    <2>2. call \in {"create_launched", "mark_launched_stopped"} /\ file \in Markers
      BY <1>0, <2>1 DEF CallInv, TypeOK
    <2>3. /\ file' \in Markers /\ file'.whole
          /\ file'.boot_session = file.boot_session /\ file'.stopped = file.stopped
      BY <2>1, <2>2 DEF Markers
    <2>4. TypeOK'
      BY <1>0, <2>1, <2>3 DEF TypeOK, Steps
    <2>5. CallInv'
      BY <1>0, <2>1, <2>2, <2>3 DEF CallInv, Steps
    <2>6. DiskInv' /\ RunInv'
      BY <1>0, <2>1 DEF DiskInv, RunInv
    <2>7. AckInv'
      BY <1>0, <2>1 DEF AckInv, AckedStands
    <2> QED  BY <2>4, <2>5, <2>6, <2>7 DEF MInv
  <1>7. CASE sync_file
    <2>1. /\ step = "sync" /\ step' = "rename"
          /\ file' = [file EXCEPT !.synced = TRUE]
          /\ UNCHANGED <<boot, dir, disk, call, acked, running>>
      BY <1>7 DEF sync_file
    <2>2. /\ call \in {"create_launched", "mark_launched_stopped"}
          /\ file \in Markers /\ file.whole
      BY <1>0, <2>1 DEF CallInv, TypeOK
    <2>3. /\ file' \in Markers /\ file'.whole /\ file'.synced
          /\ file'.boot_session = file.boot_session /\ file'.stopped = file.stopped
      BY <2>1, <2>2 DEF Markers
    <2>4. TypeOK'
      BY <1>0, <2>1, <2>3 DEF TypeOK, Steps
    <2>5. CallInv'
      BY <1>0, <2>1, <2>2, <2>3 DEF CallInv, Steps
    <2>6. DiskInv' /\ RunInv'
      BY <1>0, <2>1 DEF DiskInv, RunInv
    <2>7. AckInv'
      BY <1>0, <2>1 DEF AckInv, AckedStands
    <2> QED  BY <2>4, <2>5, <2>6, <2>7 DEF MInv
  <1>8. ASSUME step = "rename", Replace, ~running \/ call = "create_launched" PROVE MInv'
    <2> DEFINE d == [tmp |-> FALSE, launched |-> file]
    <2>1. /\ call \in {"create_launched", "mark_launched_stopped"}
          /\ file \in Markers /\ file.whole /\ file.synced
      BY <1>0, <1>8 DEF CallInv, TypeOK
    <2>2. d \in Dirs /\ d.tmp = FALSE /\ d.launched = file
      BY <1>0, <2>1, DirTypes DEF TypeOK
    <2>3. /\ step' = "sync_dir" /\ dir' = d /\ disk' = disk \cup {d}
          /\ UNCHANGED <<boot, call, file, acked, running>>
      BY <1>8 DEF Replace, Rename
    <2> HIDE DEF d
    <2>4. TypeOK'
      BY <1>0, <2>2, <2>3 DEF TypeOK, Steps
    <2>5. CallInv'
      BY <1>0, <1>8, <2>1, <2>2, <2>3 DEF CallInv, Steps
    <2>6. DiskInv'
      BY <1>0, <2>1, <2>2, <2>3 DEF DiskInv, Settled
    <2>7. RunInv'
      BY <1>0, <1>8, <2>1, <2>2, <2>3 DEF RunInv, CallInv
    <2>8. AckInv'
      <3>1. ~acked'.known
        BY <1>0, <2>1, <2>3 DEF AckInv, Calls
      <3> QED  BY <3>1 DEF AckInv, AckedStands
    <2> QED  BY <2>4, <2>5, <2>6, <2>7, <2>8 DEF MInv
  <1>9. CASE rename_no_replace
    <2>1. CASE Replace
      BY <1>8, <1>9, <2>1 DEF rename_no_replace
    <2>2. CASE dir.launched # None
      <3> DEFINE d == [dir EXCEPT !.tmp = FALSE]
      <3>1. d \in Dirs /\ d.tmp = FALSE /\ d.launched = dir.launched
        BY <1>0, DirTypes DEF TypeOK
      <3>2. /\ call = "create_launched" /\ dir' = d /\ disk' = disk \cup {d}
            /\ call' = None /\ step' = None /\ file' = None
            /\ UNCHANGED <<boot, acked, running>>
        BY <1>9, <2>2 DEF rename_no_replace, Rename, Replace
      <3> HIDE DEF d
      <3>3. TypeOK'
        BY <1>0, <3>1, <3>2 DEF TypeOK, Steps
      <3>4. CallInv'
        BY <3>2 DEF CallInv, Calls, Steps
      <3>5. DiskInv' /\ RunInv'
        BY <1>0, <3>1, <3>2 DEF DiskInv, RunInv, TypeOK
      <3>6. AckInv'
        <4>1. ~acked'.known
          BY <1>0, <3>2 DEF AckInv, Calls
        <4> QED  BY <4>1 DEF AckInv, AckedStands
      <3> QED  BY <3>3, <3>4, <3>5, <3>6 DEF MInv
    <2> QED  BY <1>9, <2>1, <2>2 DEF rename_no_replace
  <1>10. CASE rename_at
    <2>1. ~running
      BY <1>0, <1>10 DEF rename_at, RunInv, Calls
    <2> QED  BY <1>8, <1>10, <2>1 DEF rename_at
  <1>11. CASE remove_at
    <2> DEFINE d == [dir EXCEPT !.launched = None]
    <2>1. d \in Dirs /\ d.tmp = dir.tmp /\ d.launched = None
      <3>1. dir \in Dirs /\ None \in Markers \cup {None}
        BY <1>0 DEF TypeOK
      <3> QED  BY <3>1, LaunchedTypes
    <2>2. /\ step = "remove" /\ step' = "sync_dir"
          /\ dir' = d /\ disk' = disk \cup {d}
          /\ UNCHANGED <<boot, call, file, acked, running>>
      BY <1>11 DEF remove_at, Rename
    <2> HIDE DEF d
    <2>3. call = "remove_launched" /\ file = None /\ ~running
      BY <1>0, <2>2 DEF CallInv, RunInv, TypeOK, Calls
    <2>4. TypeOK'
      BY <1>0, <2>1, <2>2 DEF TypeOK, Steps
    <2>5. CallInv'
      BY <1>0, <2>1, <2>2, <2>3 DEF CallInv, Steps
    <2>6. DiskInv' /\ RunInv'
      BY <1>0, <2>1, <2>2, <2>3 DEF DiskInv, RunInv, Settled
    <2>7. AckInv'
      BY <1>0, <2>2, <2>3 DEF AckInv, AckedStands, Calls
    <2> QED  BY <2>4, <2>5, <2>6, <2>7 DEF MInv
  <1>12. CASE sync_dir
    <2>1. /\ step = "sync_dir" /\ disk' = {dir} /\ UNCHANGED <<boot, dir>>
          /\ call' = None /\ step' = None /\ file' = None
          /\ acked' = [known |-> TRUE, marker |-> Says(file)]
          /\ running' = (running \/ call = "create_launched")
      BY <1>12 DEF sync_dir, Return
    <2>2. dir.launched = file /\ Settled(file)
      BY <1>0, <2>1 DEF CallInv, DiskInv, TypeOK
    <2>3. Says(file) \in Records \cup {None}
      BY <1>0, SaysType DEF TypeOK, Says
    <2>4. TypeOK'
      <3>1. acked' \in [known : BOOLEAN, marker : Records \cup {None}]
        BY <2>1, <2>3
      <3>2. running' \in BOOLEAN
        BY <1>0, <2>1 DEF TypeOK
      <3> QED  BY <1>0, <2>1, <3>1, <3>2 DEF TypeOK, Steps
    <2>5. CallInv'
      BY <2>1 DEF CallInv, Calls, Steps
    <2>6. DiskInv'
      BY <2>1, <2>2 DEF DiskInv
    <2>7. RunInv'
      BY <1>0, <2>1, <2>2 DEF RunInv, CallInv
    <2>8. AckInv'
      BY <2>1, <2>2 DEF AckInv, AckedStands
    <2> QED  BY <2>4, <2>5, <2>6, <2>7, <2>8 DEF MInv
  <1>13. CASE Abandon
    <2>1. /\ call # None /\ call' = None /\ step' = None /\ file' = None
          /\ UNCHANGED <<boot, acked, running>>
      BY <1>13 DEF Abandon
    <2>2. PICK d \in Dirs :
            /\ d.launched = dir.launched
            /\ dir' = d
            /\ disk' = disk \cup {d}
      <3>1. CASE UNCHANGED <<dir, disk>>
        BY <1>0, <3>1 DEF TypeOK
      <3>2. CASE Rename([dir EXCEPT !.tmp = TRUE])
        BY <1>0, <3>2, DirTypes DEF Rename, TypeOK
      <3> QED  BY <1>13, <3>1, <3>2 DEF Abandon
    <2>3. TypeOK'
      BY <1>0, <2>1, <2>2 DEF TypeOK, Steps
    <2>4. CallInv'
      BY <2>1 DEF CallInv, Calls, Steps
    <2>5. DiskInv' /\ RunInv'
      BY <1>0, <2>1, <2>2 DEF DiskInv, RunInv, TypeOK
    <2>6. AckInv'
      BY <1>0, <2>1 DEF AckInv, AckedStands
    <2> QED  BY <2>3, <2>4, <2>5, <2>6 DEF MInv
  <1>14. CASE PowerLoss
    <2>1. /\ boot < MaxBoots /\ boot' = boot + 1 /\ disk' = {dir'}
          /\ call' = None /\ step' = None /\ file' = None /\ running' = FALSE
          /\ acked' = acked
      BY <1>14 DEF PowerLoss
    <2>10. PICK d \in disk : \E m \in Survivors(d.launched) : dir' = [d EXCEPT !.launched = m]
      BY <1>14 DEF PowerLoss
    <2>2. PICK m \in Survivors(d.launched) : dir' = [d EXCEPT !.launched = m]
      BY <2>10
    <2>3. d \in Dirs /\ d.launched \in Markers \cup {None} /\ Settled(d.launched)
      BY <1>0 DEF TypeOK, DiskInv, Dirs
    <2>4. m = d.launched
      BY <2>3, SettledSurvives
    <2>5. dir' \in Dirs /\ dir'.launched = d.launched
      BY <2>2, <2>3, <2>4, LaunchedTypes
    <2>6. TypeOK'
      <3>1. boot' \in 1..MaxBoots
        BY <1>0, <2>1 DEF TypeOK
      <3> QED  BY <1>0, <2>1, <2>5, <3>1 DEF TypeOK, Steps
    <2>7. CallInv'
      BY <2>1 DEF CallInv, Calls, Steps
    <2>8. DiskInv' /\ RunInv'
      BY <2>1, <2>3, <2>5 DEF DiskInv, RunInv
    <2>9. AckInv'
      BY <1>0, <2>1, <2>5 DEF AckInv, AckedStands
    <2> QED  BY <2>6, <2>7, <2>8, <2>9 DEF MInv
  <1>15. CASE UNCHANGED vars
    BY <1>0, <1>15 DEF vars, MInv, TypeOK, CallInv, DiskInv, AckInv, AckedStands, RunInv
  <1> QED
    BY <1>1, <1>2, <1>3, <1>4, <1>5, <1>6, <1>7, <1>9, <1>10, <1>11, <1>12, <1>13, <1>14, <1>15
    DEF Next

----------------------------------------------------------------------------
(* What the invariant gives the reader and the controller                   *)

(* MInv holds throughout: what the calls of instance.rs keep of the marker. *)
THEOREM MarkerInvariant == Spec => []MInv
  BY MarkerInit, MarkerStep, PTL DEF Spec

(* read_launched never finds part of a record, in whatever order calls,     *)
(* errors, deaths and power losses come.                                    *)
THEOREM ReadableMarker == Spec => []NeverUnreadable
  <1>1. MInv => NeverUnreadable
    BY DEF MInv, TypeOK, DiskInv, Settled, NeverUnreadable, read_launched
  <1> QED  BY <1>1, MarkerInvariant, PTL

(* What create_launched, mark_launched_stopped or remove_launched returned  *)
(* Ok for is on every state of the disk that a power loss may leave.        *)
THEOREM AckedMarker == Spec => []AckedStands
  <1>1. MInv => AckedStands
    BY DEF MInv, AckInv
  <1> QED  BY <1>1, MarkerInvariant, PTL

(* decide never retires a cell whose runtime was launched in this boot and  *)
(* not ended since.                                                         *)
THEOREM RunningMarker == Spec => []RunningIsNotRetired
  <1>1. ASSUME MInv PROVE RunningIsNotRetired
    <2> SUFFICES ASSUME running, NEW j \in JournalFacts
                 PROVE  decide(MarkerFact, j) \notin {"RetireWithResidue", "RetireEmpty"}
      BY DEF RunningIsNotRetired
    <2>1. /\ dir.launched # None /\ dir.launched.whole
          /\ dir.launched.boot_session = boot /\ ~dir.launched.stopped
      BY <1>1 DEF MInv, RunInv, DiskInv, Settled, TypeOK
    <2>2. read_launched = "Present"
      BY <2>1 DEF read_launched
    <2>3. MarkerFact = "ThisBootRunning"
      BY <2>1, <2>2 DEF MarkerFact
    <2> QED  BY <2>3 DEF decide, JournalFacts
  <1> QED  BY <1>1, MarkerInvariant, PTL

(* The launched marker is whole, is the one acknowledged, and keeps a       *)
(* running cell from being retired.                                         *)
THEOREM TrueMarker == Spec => []MarkerIsTrue
  BY ReadableMarker, AckedMarker, RunningMarker, PTL DEF MarkerIsTrue

-----------------------------------------------------------------------------
(* Lifetimes.  What a fence adds: the bound is then of this boot session    *)
(* and its continuous deadline has passed, which no wall clock undoes.      *)

ClockInv ==
    /\ wall \in Nat /\ session \in Nat /\ ns \in Nat /\ wait \in Nat
    /\ wait <= ns /\ ns <= MaxNs

BoundInv == bound # NoBound => bound \in Bounds

(* A fenced bound is of this boot session, its continuous deadline has      *)
(* passed, and waiting for it ends by the deadline of the fence: sleep only *)
(* brings it nearer.                                                        *)
FenceInv ==
    fence # NoBound =>
        /\ bound \in Bounds
        /\ bound.boot = session /\ bound.ns <= ns
        /\ fence.saturated => wait - ns + bound.ns <= 0
        /\ ~fence.saturated => fence.deadline \in Int /\ wait - ns + bound.ns <= fence.deadline

LInv == ClockInv /\ BoundInv /\ FenceInv

(* A reading: what the fields of one are.                                   *)
Readings == [wall : Nat, boot : Nat, ns : Nat, wait : Nat]

LEMMA GoodReading ==
    ASSUME ClockInv
    PROVE  /\ Good \in Readings /\ Refused \in Readings
           /\ Good.wall = wall \div NsPerMs /\ Good.boot = session /\ Good.ns = ns /\ Good.wait = wait
           /\ Refused.wall = wall \div NsPerMs /\ Refused.boot = session
           /\ Refused.ns = U64Max /\ Refused.wait = wait
  <1>1. NsPerMs \in Nat /\ NsPerMs > 0 /\ U64Max \in Nat
    BY LifetimeAssumption
  <1>2. wall \div NsPerMs \in Nat
    BY <1>1 DEF ClockInv
  <1> QED
    BY <1>1, <1>2 DEF Good, Refused, Readings, ClockInv

LEMMA Sign ==
    ASSUME NEW x \in Int
    PROVE  /\ x * NsPerMs \in Int
           /\ x <= 0 <=> x * NsPerMs <= 0
           /\ (x - 1) * NsPerMs = x * NsPerMs - NsPerMs
  BY LifetimeAssumption

LEMMA Remaining ==
    ASSUME NEW b \in Bounds, NEW now \in Readings
    PROVE  /\ remaining_ns(b, now) \in Int
           /\ now.boot = b.boot => remaining_ns(b, now) <= b.ns - now.ns
           /\ passed(b, now) <=> remaining_ns(b, now) <= 0
           /\ wait_deadline(b, now, 0) = now.wait + remaining_ns(b, now)
  <1>1. /\ b.not_after \in Nat /\ b.boot \in Nat /\ b.ns \in Nat
        /\ now.wall \in Nat /\ now.boot \in Nat /\ now.ns \in Nat /\ now.wait \in Nat
    BY LifetimeAssumption DEF Bounds, Readings
  <1> DEFINE x == b.not_after - now.wall
             left == x * NsPerMs
  <1>2. left \in Int /\ (x <= 0 <=> left <= 0)
    BY <1>1, Sign
  <1>3. x <= 0 <=> now.wall >= b.not_after
    BY <1>1
  <1>4. remaining_ns(b, now) = IF now.boot # b.boot THEN left ELSE MinOf(left, b.ns - now.ns)
    BY DEF remaining_ns
  <1> HIDE DEF left
  <1>5. /\ remaining_ns(b, now) \in Int
        /\ now.boot = b.boot => remaining_ns(b, now) <= b.ns - now.ns
        /\ passed(b, now) <=> remaining_ns(b, now) <= 0
    BY <1>1, <1>2, <1>3, <1>4 DEF MinOf, passed
  <1>6. 0 * NsPerMs = 0
    BY LifetimeAssumption
  <1> QED
    BY <1>1, <1>5, <1>6 DEF wait_deadline

LEMMA RoundedUp ==
    ASSUME NEW b \in Bounds, NEW now \in Readings
    PROVE  passed(b, now) <=> remaining_ms(b, now) = 0
  <1> DEFINE r == remaining_ns(b, now)
             m == MaxOf(r, 0)
  <1>1. r \in Int /\ (passed(b, now) <=> r <= 0)
    BY Remaining
  <1>2. m \in Nat /\ (r <= 0 <=> m = 0)
    BY <1>1 DEF MaxOf
  <1>3. NsPerMs \in Nat /\ NsPerMs > 0
    BY LifetimeAssumption
  <1>4. remaining_ms(b, now) = (m + NsPerMs - 1) \div NsPerMs
    BY DEF remaining_ms
  <1> HIDE DEF m
  <1>5. (m + NsPerMs - 1) \div NsPerMs = 0 <=> m = 0
    BY <1>2, <1>3
  <1> QED
    BY <1>1, <1>2, <1>4, <1>5

LEMMA AfterIs ==
    ASSUME ClockInv, NEW ms \in Nat, after(Good, ms) # NoBound
    PROVE  /\ after(Good, ms) \in Bounds
           /\ after(Good, ms).not_after = wall \div NsPerMs + ms
           /\ after(Good, ms).boot = session
           /\ after(Good, ms).ns = ns + ms * NsPerMs
           /\ ms * NsPerMs \in Nat /\ (ms * NsPerMs = 0 <=> ms = 0)
  <1>1. /\ Good.wall = wall \div NsPerMs /\ Good.boot = session /\ Good.ns = ns
        /\ wall \div NsPerMs \in Nat
    BY GoodReading DEF Readings
  <1>2. ms * NsPerMs \in Nat /\ (ms * NsPerMs = 0 <=> ms = 0)
    BY LifetimeAssumption
  <1>3. ns \in Nat /\ session \in Nat /\ U64Max \in Nat
    BY LifetimeAssumption DEF ClockInv
  <1> DEFINE span == ms * NsPerMs
  <1>4. /\ ~(ns + span > U64Max)
        /\ after(Good, ms) = [not_after |-> wall \div NsPerMs + ms, boot |-> session, ns |-> ns + span]
    BY <1>1 DEF after
  <1>5. span \in Nat
    BY <1>2
  <1> HIDE DEF span
  <1>6. ns + span \in 0..U64Max /\ wall \div NsPerMs + ms \in Nat
    BY <1>1, <1>3, <1>4, <1>5
  <1>7. /\ after(Good, ms) \in Bounds
        /\ after(Good, ms).not_after = wall \div NsPerMs + ms
        /\ after(Good, ms).boot = session
        /\ after(Good, ms).ns = ns + span
    BY <1>3, <1>4, <1>6 DEF Bounds
  <1> QED
    BY <1>2, <1>7 DEF span

LEMMA EarlierIs ==
    ASSUME NEW b \in Bounds, NEW c \in Bounds
    PROVE  /\ earlier(b, c) \in Bounds
           /\ b.boot = c.boot => /\ earlier(b, c).boot = b.boot
                                 /\ earlier(b, c).ns = MinOf(b.ns, c.ns)
                                 /\ earlier(b, c).not_after = MinOf(b.not_after, c.not_after)
           /\ b.boot # c.boot => earlier(b, c) = IF c.not_after < b.not_after THEN c ELSE b
  <1>1. MinOf(b.ns, c.ns) \in 0..U64Max /\ MinOf(b.not_after, c.not_after) \in Nat /\ b.boot \in Nat
    BY DEF Bounds, MinOf
  <1> QED
    BY <1>1 DEF earlier, Bounds

LEMMA LowerPasses ==
    ASSUME ClockInv, bound \in Bounds, NEW ms \in Nat, after(Good, ms) # NoBound
    PROVE  passed(earlier(bound, after(Good, ms)), Good) <=> (passed(bound, Good) \/ ms = 0)
  <1> DEFINE new == after(Good, ms)
             w == wall \div NsPerMs
  <1>1. /\ new \in Bounds /\ new.not_after = w + ms /\ new.boot = session
        /\ new.ns = ns + ms * NsPerMs
        /\ ms * NsPerMs \in Nat /\ (ms * NsPerMs = 0 <=> ms = 0)
    BY AfterIs
  <1>2. Good.wall = w /\ Good.boot = session /\ Good.ns = ns /\ w \in Nat /\ ns \in Nat
    BY GoodReading DEF Readings, ClockInv
  <1>3. bound.not_after \in Nat /\ bound.ns \in Nat
    BY LifetimeAssumption DEF Bounds
  <1> HIDE DEF new, w
  <1>4. CASE bound.boot = session
    <2>1. /\ earlier(bound, new).boot = session
          /\ earlier(bound, new).ns = MinOf(bound.ns, new.ns)
          /\ earlier(bound, new).not_after = MinOf(bound.not_after, new.not_after)
      BY <1>1, <1>4, EarlierIs
    <2> DEFINE span == ms * NsPerMs
    <2>2. span \in Nat /\ (span = 0 <=> ms = 0) /\ new.ns = ns + span
      BY <1>1
    <2> HIDE DEF span
    <2>3. passed(bound, Good) <=> w >= bound.not_after \/ ns >= bound.ns
      BY <1>2, <1>4 DEF passed
    <2>4. passed(earlier(bound, new), Good) <=>
             w >= MinOf(bound.not_after, w + ms) \/ ns >= MinOf(bound.ns, ns + span)
      BY <1>1, <1>2, <2>1, <2>2 DEF passed
    <2>5. w >= MinOf(bound.not_after, w + ms) <=> w >= bound.not_after \/ ms = 0
      BY <1>2, <1>3 DEF MinOf
    <2>6. ns >= MinOf(bound.ns, ns + span) <=> ns >= bound.ns \/ ms = 0
      BY <1>2, <1>3, <2>2 DEF MinOf
    <2> QED
      BY <2>3, <2>4, <2>5, <2>6 DEF new
  <1>5. CASE bound.boot # session
    <2>1. earlier(bound, new) = IF new.not_after < bound.not_after THEN new ELSE bound
      BY <1>1, <1>5, EarlierIs
    <2>2. passed(bound, Good) <=> w >= bound.not_after
      BY <1>2, <1>5 DEF passed
    <2>3. passed(new, Good) <=> ms = 0
      BY <1>1, <1>2 DEF passed
    <2>4. new.not_after < bound.not_after => ~(w >= bound.not_after)
      BY <1>1, <1>2, <1>3
    <2>5. ~(new.not_after < bound.not_after) /\ ms = 0 => w >= bound.not_after
      BY <1>1, <1>2, <1>3
    <2> QED
      BY <2>1, <2>2, <2>3, <2>4, <2>5 DEF new
  <1> QED
    BY <1>4, <1>5

LEMMA LifetimeInitial == LifetimeInit => LInv
  BY LifetimeAssumption DEF LifetimeInit, LInv, ClockInv, BoundInv, FenceInv

(* What a fence makes of a bound that has passed.                           *)
LEMMA FenceKeeps ==
    ASSUME LInv, bound # NoBound, NEW now \in {Good, Refused}, passed(bound, now), Keep(now),
           UNCHANGED <<wall, session, ns, wait>>
    PROVE  LInv'
  <1>1. bound \in Bounds /\ now \in Readings /\ now.boot = session /\ now.wait = wait
    BY GoodReading DEF LInv, BoundInv
  <1>2. /\ ns \in Nat /\ wait \in Nat /\ session \in Nat /\ wait <= ns /\ ns <= MaxNs
        /\ MaxNs \in Nat /\ U64Max \in Nat /\ MaxNs < U64Max
    BY LifetimeAssumption DEF LInv, ClockInv
  <1> DEFINE r == remaining_ns(bound, now)
             d == wait_deadline(bound, now, 0)
             first == fenced(bound, now)
  <1>3. r \in Int /\ r <= 0 /\ d = wait + r
    BY <1>1, Remaining
  <1>4. bound' = first /\ fence' = [deadline |-> d, saturated |-> first.ns = 0]
    BY DEF Keep
  <1> DEFINE at == IF now.ns = U64Max THEN 0 ELSE MaxOf(now.ns - (now.wait - d), 0)
  <1>5. first = [bound EXCEPT !.boot = now.boot, !.ns = at]
    BY DEF fenced
  <1> HIDE DEF r, d
  <1>6. /\ at \in Nat /\ at <= ns
        /\ at = 0 \/ at = ns + r
    <2>1. CASE now = Refused
      <3>1. now.ns = U64Max
        BY <2>1, GoodReading DEF LInv
      <3> QED
        BY <1>2, <3>1
    <2>2. CASE now = Good
      <3>1. now.ns = ns
        BY <2>2, GoodReading DEF LInv
      <3> QED
        BY <1>1, <1>2, <1>3, <3>1 DEF MaxOf
    <2> QED
      BY <2>1, <2>2
  <1> HIDE DEF at
  <1>7. first \in Bounds /\ first.boot = session /\ first.ns = at
    <2>1. at \in 0..U64Max
      BY <1>2, <1>6
    <2> QED
      BY <1>1, <1>2, <1>5, <2>1 DEF Bounds
  <1> HIDE DEF first
  <1>8. fence'.deadline = d /\ (fence'.saturated <=> at = 0)
    BY <1>4, <1>7
  <1>9. FenceInv'
    <2>1. fence'.saturated => wait - ns + at <= 0
      BY <1>2, <1>8
    <2>2. ~fence'.saturated => fence'.deadline \in Int /\ wait - ns + at <= fence'.deadline
      BY <1>2, <1>3, <1>6, <1>8
    <2> QED
      BY <1>4, <1>6, <1>7, <2>1, <2>2 DEF FenceInv
  <1>10. ClockInv' /\ BoundInv'
    BY <1>4, <1>7 DEF LInv, ClockInv, BoundInv
  <1> QED
    BY <1>9, <1>10 DEF LInv

LEMMA LimitKeeps ==
    ASSUME LInv, NEW ms \in Nat, Limit(ms)
    PROVE  LInv'
  <1> DEFINE new == after(Good, ms)
  <1>1. /\ new # NoBound /\ bound' = IF bound = NoBound THEN new ELSE earlier(bound, new)
        /\ UNCHANGED <<wall, session, ns, wait, fence>>
    BY DEF Limit
  <1>2. ClockInv /\ BoundInv /\ FenceInv
    BY DEF LInv
  <1>3. new \in Bounds /\ new.boot = session
    BY <1>1, <1>2, AfterIs
  <1> HIDE DEF new
  <1>4. bound' \in Bounds
    BY <1>1, <1>2, <1>3, EarlierIs DEF BoundInv
  <1>5. ASSUME fence # NoBound
        PROVE  bound'.boot = session /\ bound'.ns <= bound.ns /\ bound.ns \in Nat /\ bound'.ns \in Nat
    <2>1. bound \in Bounds /\ bound.boot = session
      BY <1>2, <1>5 DEF FenceInv
    <2>2. bound # NoBound
      BY <2>1, LifetimeAssumption
    <2>3. bound'.boot = session /\ bound'.ns = MinOf(bound.ns, new.ns)
      BY <1>1, <1>3, <2>1, <2>2, EarlierIs
    <2>4. bound.ns \in Nat /\ new.ns \in Nat
      BY <1>3, <2>1, LifetimeAssumption DEF Bounds
    <2> QED
      BY <2>3, <2>4 DEF MinOf
  <1>6. wait \in Nat /\ ns \in Nat
    BY <1>2 DEF ClockInv
  <1>7. FenceInv'
    BY <1>1, <1>2, <1>4, <1>5, <1>6 DEF FenceInv
  <1> QED
    BY <1>1, <1>2, <1>4, <1>7 DEF LInv, ClockInv, BoundInv

LEMMA LifetimeSteps == LInv /\ [LifetimeNext]_lifetimeVars => LInv'
  <1> SUFFICES ASSUME LInv, [LifetimeNext]_lifetimeVars PROVE LInv'
    OBVIOUS
  <1>0. ClockInv /\ BoundInv /\ FenceInv
    BY DEF LInv
  <1>1. ASSUME NEW awake \in BOOLEAN, Pass(awake) PROVE LInv'
    <2>1. /\ ns' = ns + 1 /\ wall' = wall + 1 /\ ns < MaxNs
          /\ wait' = wait + 1 \/ wait' = wait
          /\ UNCHANGED <<session, bound, fence>>
      BY <1>1 DEF Pass
    <2>2. ClockInv'
      BY <1>0, <2>1, LifetimeAssumption DEF ClockInv
    <2>3. FenceInv'
      <3> SUFFICES ASSUME fence # NoBound
                   PROVE  /\ bound.ns <= ns + 1
                          /\ fence.saturated => wait' - ns' + bound.ns <= 0
                          /\ ~fence.saturated => wait' - ns' + bound.ns <= fence.deadline
        BY <1>0, <2>1 DEF FenceInv
      <3>1. bound.ns \in Nat /\ wait \in Nat /\ ns \in Nat
        BY <1>0, LifetimeAssumption DEF FenceInv, Bounds, ClockInv
      <3> QED
        BY <1>0, <2>1, <3>1 DEF FenceInv
    <2> QED
      BY <1>0, <2>1, <2>2, <2>3 DEF LInv, BoundInv
  <1>2. CASE SetWall
    BY <1>0, <1>2, LifetimeAssumption DEF SetWall, LInv, ClockInv, BoundInv, FenceInv
  <1>3. CASE Boot
    BY <1>0, <1>3, LifetimeAssumption DEF Boot, LInv, ClockInv, BoundInv, FenceInv
  <1>4. CASE Check
    BY <1>4, FenceKeeps DEF Check
  <1>5. ASSUME NEW ms \in 0..MaxLimit, Limit(ms) PROVE LInv'
    <2>1. ms \in Nat
      BY LifetimeAssumption
    <2> QED
      BY <1>5, <2>1, LimitKeeps
  <1>6. CASE UNCHANGED lifetimeVars
    BY <1>0, <1>6 DEF lifetimeVars, LInv, ClockInv, BoundInv, FenceInv
  <1> QED
    BY <1>1, <1>2, <1>3, <1>4, <1>5, <1>6 DEF LifetimeNext, Awake, Sleep

LEMMA LifetimeInvariant == LifetimeSpec => []LInv
  BY LifetimeInitial, LifetimeSteps, PTL DEF LifetimeSpec

LEMMA FenceFollows == LInv => FenceHolds
  <1> SUFFICES ASSUME LInv, fence # NoBound
               PROVE  /\ passed(bound, Good) /\ passed(bound, Refused)
                      /\ wait_deadline(bound, Good, 0) <= IF fence.saturated THEN 0 ELSE fence.deadline
    BY DEF FenceHolds
  <1>1. /\ bound \in Bounds /\ bound.boot = session /\ bound.ns <= ns
        /\ fence.saturated => wait - ns + bound.ns <= 0
        /\ ~fence.saturated => fence.deadline \in Int /\ wait - ns + bound.ns <= fence.deadline
    BY DEF LInv, FenceInv
  <1>2. /\ Good \in Readings /\ Good.boot = session /\ Good.ns = ns /\ Good.wait = wait
        /\ Refused.boot = session /\ Refused.ns = U64Max
    BY GoodReading DEF LInv
  <1>3. bound.ns \in Nat /\ bound.ns <= U64Max /\ ns \in Nat /\ wait \in Nat
    BY <1>1, LifetimeAssumption DEF Bounds, LInv, ClockInv
  <1>4. passed(bound, Good) /\ passed(bound, Refused)
    BY <1>1, <1>2, <1>3, LifetimeAssumption DEF passed
  <1> DEFINE r == remaining_ns(bound, Good)
  <1>5. r \in Int /\ r <= bound.ns - ns /\ wait_deadline(bound, Good, 0) = wait + r
    BY <1>1, <1>2, Remaining
  <1> HIDE DEF r
  <1>6. wait + r <= IF fence.saturated THEN 0 ELSE fence.deadline
    BY <1>1, <1>3, <1>5
  <1> QED
    BY <1>4, <1>5, <1>6

(* The wall clock's milliseconds go up by one at most as a nanosecond       *)
(* passes, and by one when that is all a millisecond has.                   *)
LEMMA NextMs ==
    ASSUME NEW t \in Nat
    PROVE  /\ t \div NsPerMs \in Nat
           /\ (t + 1) \div NsPerMs = t \div NsPerMs \/ (t + 1) \div NsPerMs = t \div NsPerMs + 1
           /\ NsPerMs = 1 => (t + 1) \div NsPerMs = t \div NsPerMs + 1
  <1>1. NsPerMs \in Nat /\ NsPerMs > 0
    BY LifetimeAssumption
  <1> DEFINE k == t \div NsPerMs
             j == (t + 1) \div NsPerMs
  <1>2. /\ k \in Nat /\ k * NsPerMs <= t /\ t < k * NsPerMs + NsPerMs
        /\ j \in Nat /\ j * NsPerMs <= t + 1 /\ t + 1 < j * NsPerMs + NsPerMs
    BY <1>1
  <1> HIDE DEF k, j
  <1>3. j = k \/ j = k + 1
    <2>1. (k + 2) * NsPerMs = k * NsPerMs + 2 * NsPerMs /\ (j + 1) * NsPerMs = j * NsPerMs + NsPerMs
      BY <1>1, <1>2
    <2>2. CASE j >= k + 2
      <3>1. j * NsPerMs >= (k + 2) * NsPerMs
        BY <1>1, <1>2, <2>2
      <3> QED
        BY <1>1, <1>2, <2>1, <3>1
    <2>3. CASE j + 1 <= k
      <3>1. (j + 1) * NsPerMs <= k * NsPerMs
        BY <1>1, <1>2, <2>3
      <3> QED
        BY <1>1, <1>2, <2>1, <3>1
    <2> QED
      BY <1>2, <2>2, <2>3
  <1>4. NsPerMs = 1 => j = t + 1 /\ k = t
    BY <1>2
  <1> QED
    BY <1>2, <1>3, <1>4 DEF k, j

LEMMA DeadlineMoves ==
    ASSUME ClockInv, ClockInv', bound \in Bounds, NEW awake \in BOOLEAN, Pass(awake)
    PROVE  LET moved == (wait_deadline(bound, Good, 0))' - wait_deadline(bound, Good, 0) IN
           /\ awake => moved \in (1 - NsPerMs)..(NsPerMs - 1)
           /\ ~awake => moved < NsPerMs
  <1>1. /\ wall' = wall + 1 /\ ns' = ns + 1 /\ wait' = IF awake THEN wait + 1 ELSE wait
        /\ session' = session /\ bound' = bound
    BY DEF Pass
  <1> DEFINE w == wall \div NsPerMs
             v == (wall + 1) \div NsPerMs
  <1>2. /\ w \in Nat /\ (v = w \/ v = w + 1) /\ (NsPerMs = 1 => v = w + 1)
        /\ ns \in Nat /\ wait \in Nat
    BY NextMs DEF ClockInv
  <1>3. /\ Good \in Readings /\ Good.wall = w /\ Good.boot = session /\ Good.ns = ns /\ Good.wait = wait
    BY GoodReading
  <1>4. /\ Good' \in Readings /\ Good'.wall = v /\ Good'.boot = session /\ Good'.ns = ns + 1
        /\ Good'.wait = wait'
    <2>1. Good' = [wall |-> v, boot |-> session, ns |-> ns + 1, wait |-> wait']
      BY <1>1 DEF Good
    <2>2. v \in Nat /\ session \in Nat /\ ns + 1 \in Nat /\ wait' \in Nat
      BY <1>2 DEF ClockInv
    <2> QED
      BY <2>1, <2>2 DEF Readings
  <1>5. bound.not_after \in Nat /\ bound.ns \in Nat /\ NsPerMs \in Nat /\ NsPerMs > 0
    BY LifetimeAssumption DEF Bounds
  <1> HIDE DEF w, v
  <1> DEFINE x == bound.not_after - w
             left == x * NsPerMs
             next == (bound.not_after - v) * NsPerMs
  <1>6. left \in Int /\ (next = left \/ next = left - NsPerMs) /\ (NsPerMs = 1 => next = left - NsPerMs)
    <2>1. x \in Int
      BY <1>2, <1>5
    <2>2. left \in Int /\ (x - 1) * NsPerMs = left - NsPerMs
      BY <2>1, Sign
    <2>3. bound.not_after - v = x \/ bound.not_after - v = x - 1
      BY <1>2, <1>5
    <2>4. NsPerMs = 1 => bound.not_after - v = x - 1
      BY <1>2, <1>5
    <2> QED
      BY <2>2, <2>3, <2>4
  <1> DEFINE r == remaining_ns(bound, Good)
             q == remaining_ns(bound, Good')
  <1>7. /\ r = IF session # bound.boot THEN left ELSE MinOf(left, bound.ns - ns)
        /\ q = IF session # bound.boot THEN next ELSE MinOf(next, bound.ns - (ns + 1))
    BY <1>3, <1>4 DEF remaining_ns
  <1>8. /\ wait_deadline(bound, Good, 0) = wait + r
        /\ wait_deadline(bound, Good', 0) = wait' + q
    BY <1>3, <1>4, Remaining
  <1>9. (wait_deadline(bound, Good, 0))' = wait_deadline(bound, Good', 0)
    BY <1>1 DEF wait_deadline, remaining_ns
  <1> HIDE DEF left, next, r, q
  <1>10. r \in Int /\ q \in Int /\ q - r <= 0 /\ q - r >= 0 - NsPerMs /\ (NsPerMs = 1 => q - r = 0 - 1)
    BY <1>2, <1>5, <1>6, <1>7 DEF MinOf
  <1>11. wait' + q - (wait + r) = IF awake THEN q - r + 1 ELSE q - r
    BY <1>1, <1>2, <1>10
  <1>12. /\ awake => wait' + q - (wait + r) \in (1 - NsPerMs)..(NsPerMs - 1)
         /\ ~awake => wait' + q - (wait + r) < NsPerMs
    BY <1>5, <1>10, <1>11
  <1> DEFINE before == wait_deadline(bound, Good, 0)
             later == (wait_deadline(bound, Good, 0))'
  <1>13. before = wait + r /\ later = wait' + q
    BY <1>8, <1>9
  <1> HIDE DEF before, later
  <1>14. /\ awake => later - before \in (1 - NsPerMs)..(NsPerMs - 1)
         /\ ~awake => later - before < NsPerMs
    BY <1>1, <1>2, <1>5, <1>10, <1>11, <1>13
  <1> QED
    BY <1>14 DEF before, later

LEMMA DeadlineStep ==
    ASSUME LInv, LInv', bound # NoBound
    PROVE  /\ \A now \in {Good, Refused} :
                 /\ passed(bound, now) <=> remaining_ms(bound, now) = 0
                 /\ passed(bound, now) <=> wait_deadline(bound, now, 0) <= now.wait
           /\ LET moved == (wait_deadline(bound, Good, 0))' - wait_deadline(bound, Good, 0) IN
              /\ Awake => moved \in (1 - NsPerMs)..(NsPerMs - 1)
              /\ Sleep => moved < NsPerMs
           /\ \A ms \in 0..MaxLimit :
                 Limit(ms) => passed(bound', Good) = (passed(bound, Good) \/ ms = 0)
  <1>1. ClockInv /\ ClockInv' /\ bound \in Bounds
    BY DEF LInv, BoundInv
  <1>2. ASSUME NEW now \in {Good, Refused}
        PROVE  /\ passed(bound, now) <=> remaining_ms(bound, now) = 0
               /\ passed(bound, now) <=> wait_deadline(bound, now, 0) <= now.wait
    <2>1. now \in Readings
      BY <1>1, GoodReading
    <2>2. now.wait \in Nat
      BY <2>1 DEF Readings
    <2> DEFINE r == remaining_ns(bound, now)
    <2>3. r \in Int /\ (passed(bound, now) <=> r <= 0) /\ wait_deadline(bound, now, 0) = now.wait + r
      BY <1>1, <2>1, Remaining
    <2> HIDE DEF r
    <2> QED
      BY <1>1, <2>1, <2>2, <2>3, RoundedUp
  <1>3. ASSUME Awake
        PROVE  (wait_deadline(bound, Good, 0))' - wait_deadline(bound, Good, 0) \in (1 - NsPerMs)..(NsPerMs - 1)
    BY <1>1, <1>3, DeadlineMoves DEF Awake
  <1>4. ASSUME Sleep
        PROVE  (wait_deadline(bound, Good, 0))' - wait_deadline(bound, Good, 0) < NsPerMs
    BY <1>1, <1>4, DeadlineMoves DEF Sleep
  <1>5. ASSUME NEW ms \in 0..MaxLimit, Limit(ms)
        PROVE  passed(bound', Good) = (passed(bound, Good) \/ ms = 0)
    <2>1. ms \in Nat
      BY LifetimeAssumption
    <2>2. bound' = earlier(bound, after(Good, ms)) /\ after(Good, ms) # NoBound
      BY <1>5 DEF Limit
    <2>3. passed(bound', Good) <=> (passed(bound, Good) \/ ms = 0)
      BY <1>1, <2>1, <2>2, LowerPasses
    <2> QED
      BY <2>3 DEF passed
  <1> QED
    BY <1>2, <1>3, <1>4, <1>5

(* For every clock, limit and number of boots: a bound that was fenced      *)
(* stays passed and its wait deadline never moves past the fence's; at      *)
(* every step the three answers about a bound agree, its deadline moves by  *)
(* less than a millisecond, and lowering it (Bound::earlier) passes it just *)
(* when it or the new bound has passed.                                     *)
THEOREM KeptBound == LifetimeSpec => BoundIsKept
  <1>1. LifetimeSpec => []FenceHolds
    BY LifetimeInvariant, FenceFollows, PTL
  <1>2. LifetimeSpec => DeadlineStands
    <2>1. LInv /\ LInv' => [bound # NoBound =>
        /\ \A now \in {Good, Refused} :
              /\ passed(bound, now) <=> remaining_ms(bound, now) = 0
              /\ passed(bound, now) <=> wait_deadline(bound, now, 0) <= now.wait
        /\ LET moved == (wait_deadline(bound, Good, 0))' - wait_deadline(bound, Good, 0) IN
           /\ Awake => moved \in (1 - NsPerMs)..(NsPerMs - 1)
           /\ Sleep => moved < NsPerMs
        /\ \A ms \in 0..MaxLimit :
              Limit(ms) => passed(bound', Good) = (passed(bound, Good) \/ ms = 0)]_lifetimeVars
      BY DeadlineStep
    <2> QED
      BY <2>1, LifetimeInvariant, PTL DEF DeadlineStands
  <1> QED
    BY <1>1, <1>2 DEF BoundIsKept

-----------------------------------------------------------------------------
(* Denials.  Carried is a fold over a set; that it is a sum, in whatever    *)
(* order it is taken, is shown first, from a smallest set at which it would *)
(* not be.  A line the membrane drops was acknowledged by its number, so    *)
(* numbers of this book that the controller knows have to be in the log.    *)

DenialLines == [seq : Nat, unlogged : Nat]

(* The function that Carried folds with.                                    *)
AnyOf(s) == CHOOSE y \in s : TRUE
Sums(S, f) ==
    f = [s \in SUBSET S |-> IF s = {} THEN 0 ELSE (1 + AnyOf(s).unlogged) + f[s \ {AnyOf(s)}]]

LEMMA CarriedIs == ASSUME NEW S PROVE Carried(S) = (CHOOSE f : Sums(S, f))[S]
  BY DEF Carried, MapThenSumSet, MapThenFoldSet, Sums, AnyOf

(* Some set of a family is a smallest one.                                  *)
LEMMA SmallestSet ==
    ASSUME NEW S, IsFiniteSet(S), NEW B, B \subseteq SUBSET S, B # {}
    PROVE  \E s \in B : \A t \in B : Cardinality(s) <= Cardinality(t)
  <1> DEFINE T == {Cardinality(s) : s \in B}
  <1>1. \A s \in B : IsFiniteSet(s) /\ Cardinality(s) \in Nat
    BY FS_Subset, FS_CardinalityType
  <1>2. T \subseteq Nat /\ T # {}
    BY <1>1
  <1>3. PICK n \in T : \A m \in T : n <= m
    BY <1>2, LeastNat
  <1> QED  BY <1>3

(* One element less.                                                        *)
LEMMA OneLess ==
    ASSUME NEW S, IsFiniteSet(S), NEW s \in SUBSET S, NEW x \in s
    PROVE  /\ s \ {x} \in SUBSET S /\ IsFiniteSet(s) /\ Cardinality(s) \in Nat
           /\ Cardinality(s \ {x}) = Cardinality(s) - 1
  BY FS_Subset, FS_CardinalityType, FS_RemoveElement

LEMMA SumsExist == ASSUME NEW S, IsFiniteSet(S) PROVE \E f : Sums(S, f)
  <1> DEFINE pick(s) == AnyOf(s)
             SumOf(f, s) == IF s = {} THEN 0 ELSE (1 + pick(s).unlogged) + f[s \ {pick(s)}]
             Upto(k, f) == /\ f = [s \in SUBSET S |-> f[s]]
                           /\ \A s \in SUBSET S : Cardinality(s) <= k => f[s] = SumOf(f, s)
             Missing == {k \in Nat : \A f : ~Upto(k, f)}
  <1>1. \A s \in SUBSET S : IsFiniteSet(s) /\ Cardinality(s) \in Nat /\ Cardinality(s) <= Cardinality(S)
    BY FS_Subset, FS_CardinalityType
  <1>2. \A s \in SUBSET S : s # {} => /\ pick(s) \in s /\ s \ {pick(s)} \in SUBSET S
                                      /\ Cardinality(s \ {pick(s)}) = Cardinality(s) - 1
    BY OneLess DEF AnyOf
  <1>3. \A s \in SUBSET S : Cardinality(s) = 0 => s = {}
    BY <1>1, FS_EmptySet
  <1> HIDE DEF pick
  <1>4. 0 \notin Missing
    <2> DEFINE z == [s \in SUBSET S |-> 0]
    <2>1. Upto(0, z)
      BY <1>1, <1>3
    <2> QED  BY <2>1
  <1>5. ASSUME NEW k \in Nat, k \notin Missing PROVE k + 1 \notin Missing
    <2>1. PICK f : Upto(k, f)
      BY <1>5
    <2> DEFINE g == [s \in SUBSET S |-> IF Cardinality(s) = k + 1 THEN SumOf(f, s) ELSE f[s]]
    <2>2. \A s \in SUBSET S : s # {} /\ Cardinality(s) <= k + 1 =>
             g[s \ {pick(s)}] = f[s \ {pick(s)}]
      BY <1>1, <1>2
    <2>3. \A s \in SUBSET S : Cardinality(s) <= k + 1 => SumOf(g, s) = SumOf(f, s)
      <3> HIDE DEF g
      <3> QED  BY <2>2
    <2>4. \A s \in SUBSET S : Cardinality(s) <= k + 1 => g[s] = SumOf(f, s)
      <3> SUFFICES ASSUME NEW s \in SUBSET S, Cardinality(s) <= k + 1 PROVE g[s] = SumOf(f, s)
        OBVIOUS
      <3>1. CASE Cardinality(s) = k + 1
        BY <3>1
      <3>2. CASE Cardinality(s) # k + 1
        <4>1. Cardinality(s) <= k
          BY <1>1, <3>2
        <4>2. f[s] = SumOf(f, s)
          BY <2>1, <4>1
        <4> HIDE DEF SumOf
        <4> QED  BY <3>2, <4>2
      <3> QED  BY <3>1, <3>2
    <2>5. g = [s \in SUBSET S |-> g[s]]
      OBVIOUS
    <2> HIDE DEF g, SumOf
    <2>6. Upto(k + 1, g)
      BY <2>3, <2>4, <2>5
    <2> QED  BY <2>6
  <1>6. Missing = {}
    <2> SUFFICES ASSUME Missing # {} PROVE FALSE
      OBVIOUS
    <2>1. PICK n \in Missing : \A m \in Missing : n <= m
      <3>1. Missing \subseteq Nat
        OBVIOUS
      <3> HIDE DEF Missing
      <3> QED  BY <3>1, LeastNat
    <2>2. n \in Nat /\ n # 0
      BY <1>4
    <2>3. n - 1 \in Nat /\ n - 1 \notin Missing
      <3> HIDE DEF Missing
      <3> QED  BY <2>1, <2>2
    <2>4. (n - 1) + 1 \notin Missing
      <3> HIDE DEF Missing
      <3> QED  BY <2>3, <1>5
    <2>5. (n - 1) + 1 = n
      BY <2>2
    <2> HIDE DEF Missing
    <2> QED  BY <2>1, <2>4, <2>5
  <1>7. Cardinality(S) \in Nat
    BY <1>1
  <1>8. PICK f : Upto(Cardinality(S), f)
    BY <1>6, <1>7
  <1>9. f = [s \in SUBSET S |-> SumOf(f, s)]
    <2>1. f = [s \in SUBSET S |-> f[s]] /\ \A s \in SUBSET S : f[s] = SumOf(f, s)
      BY <1>1, <1>8
    <2> HIDE DEF SumOf
    <2> QED  BY <2>1
  <1> QED  BY <1>9 DEF Sums, pick

(* The sum of a set does not depend on the set it is taken in.              *)
LEMMA SumsAgree ==
    ASSUME NEW S, IsFiniteSet(S), NEW T \in SUBSET S, NEW f, NEW g, Sums(S, f), Sums(T, g)
    PROVE  \A s \in SUBSET T : f[s] = g[s]
  <1> DEFINE B == {s \in SUBSET T : f[s] # g[s]}
  <1> SUFFICES ASSUME B # {} PROVE FALSE
    OBVIOUS
  <1>1. IsFiniteSet(T)
    BY FS_Subset
  <1>2. PICK s \in B : \A t \in B : Cardinality(s) <= Cardinality(t)
    BY <1>1, SmallestSet
  <1>3. s \in SUBSET T /\ s \in SUBSET S /\ f[s] # g[s]
    OBVIOUS
  <1> DEFINE x == AnyOf(s)
  <1>4. s # {}
    <2>1. s = {} => f[s] = 0
      BY <1>3 DEF Sums
    <2>2. s = {} => g[s] = 0
      BY <1>3 DEF Sums
    <2> QED  BY <1>3, <2>1, <2>2
  <1>5. x \in s
    BY <1>4 DEF AnyOf
  <1>6. f[s] = (1 + x.unlogged) + f[s \ {x}] /\ g[s] = (1 + x.unlogged) + g[s \ {x}]
    <2> HIDE DEF B
    <2>1. f[s] = (1 + x.unlogged) + f[s \ {x}]
      BY <1>3, <1>4 DEF Sums
    <2>2. g[s] = (1 + x.unlogged) + g[s \ {x}]
      BY <1>3, <1>4 DEF Sums
    <2> QED  BY <2>1, <2>2
  <1> HIDE DEF x
  <1>7. s \ {x} \in SUBSET T /\ Cardinality(s) \in Nat /\ Cardinality(s \ {x}) = Cardinality(s) - 1
    BY <1>1, <1>3, <1>5, OneLess
  <1>8. s \ {x} \notin B
    BY <1>2, <1>7
  <1> QED  BY <1>3, <1>6, <1>7, <1>8

(* Nor on the order it is taken in.                                         *)
LEMMA SumsAnyOrder ==
    ASSUME NEW S, IsFiniteSet(S), S \subseteq DenialLines, NEW f, Sums(S, f)
    PROVE  \A s \in SUBSET S : f[s] \in Nat /\ \A y \in s : f[s] = (1 + y.unlogged) + f[s \ {y}]
  <1> DEFINE Right(s) == f[s] \in Nat /\ \A y \in s : f[s] = (1 + y.unlogged) + f[s \ {y}]
             B == {s \in SUBSET S : ~Right(s)}
  <1> SUFFICES ASSUME B # {} PROVE FALSE
    OBVIOUS
  <1>1. PICK s \in B : \A t \in B : Cardinality(s) <= Cardinality(t)
    BY SmallestSet
  <1>2. s \in SUBSET S /\ ~Right(s)
    OBVIOUS
  <1>3. s # {}
    <2>1. s = {} => f[s] = 0
      BY <1>2 DEF Sums
    <2> QED  BY <1>2, <2>1
  <1> DEFINE x == AnyOf(s)
  <1>4. x \in s
    BY <1>3 DEF AnyOf
  <1>5. f[s] = (1 + x.unlogged) + f[s \ {x}]
    <2> HIDE DEF B, Right
    <2> QED  BY <1>2, <1>3 DEF Sums
  <1> HIDE DEF x, Right
  <1>6. \A t \in SUBSET S : IsFiniteSet(t) /\ Cardinality(t) \in Nat
    BY FS_Subset, FS_CardinalityType
  <1>7. \A y \in s : Right(s \ {y})
    <2> SUFFICES ASSUME NEW y \in s PROVE Right(s \ {y})
      OBVIOUS
    <2>1. s \ {y} \in SUBSET S /\ Cardinality(s) \in Nat /\ Cardinality(s \ {y}) = Cardinality(s) - 1
      BY <1>2, OneLess
    <2> QED  BY <1>1, <2>1
  <1>8. \A y \in s : y.unlogged \in Nat
    BY <1>2 DEF DenialLines
  <1>9. \A y \in s : f[s \ {y}] \in Nat
    BY <1>7 DEF Right
  <1>10. ASSUME NEW y \in s PROVE f[s] = (1 + y.unlogged) + f[s \ {y}]
    <2>1. CASE y = x
      BY <1>5, <2>1
    <2>2. CASE y # x
      <3>1. f[s \ {x}] = (1 + y.unlogged) + f[(s \ {x}) \ {y}]
        BY <1>4, <1>7, <2>2 DEF Right
      <3>2. f[s \ {y}] = (1 + x.unlogged) + f[(s \ {y}) \ {x}]
        BY <1>4, <1>7, <2>2 DEF Right
      <3>3. (s \ {x}) \ {y} = (s \ {y}) \ {x}
        OBVIOUS
      <3> DEFINE r == f[(s \ {x}) \ {y}]
      <3>4. r \in Nat
        <4>1. (s \ {x}) \ {y} \in SUBSET S /\ Cardinality((s \ {x}) \ {y}) = Cardinality(s) - 2
          <5>1. s \ {x} \in SUBSET S /\ y \in s \ {x} /\ Cardinality(s \ {x}) = Cardinality(s) - 1 /\ Cardinality(s) \in Nat
            BY <1>2, <1>4, <2>2, OneLess
          <5>2. Cardinality((s \ {x}) \ {y}) = Cardinality(s \ {x}) - 1
            BY <5>1, OneLess
          <5> QED  BY <5>1, <5>2
        <4>2. (s \ {x}) \ {y} \notin B
          BY <1>1, <1>2, <1>6, <4>1
        <4> QED  BY <4>1, <4>2 DEF Right
      <3> HIDE DEF r
      <3>5. f[s \ {x}] = (1 + y.unlogged) + r /\ f[s \ {y}] = (1 + x.unlogged) + r
        BY <3>1, <3>2, <3>3 DEF r
      <3> QED  BY <1>4, <1>5, <1>8, <3>4, <3>5
    <2> QED  BY <2>1, <2>2
  <1>11. f[s] \in Nat
    BY <1>4, <1>5, <1>8, <1>9
  <1> QED  BY <1>2, <1>10, <1>11 DEF Right

(* What Carried is: nothing for no lines, and each line adds its own.       *)
LEMMA CarriedEmpty == Carried({}) = 0
  <1>1. IsFiniteSet({})
    BY FS_EmptySet
  <1>2. Sums({}, CHOOSE f : Sums({}, f))
    BY <1>1, SumsExist
  <1> QED  BY <1>2, CarriedIs DEF Sums

LEMMA CarriedNat ==
    ASSUME NEW S, IsFiniteSet(S), S \subseteq DenialLines PROVE Carried(S) \in Nat
  <1>1. Sums(S, CHOOSE f : Sums(S, f))
    BY SumsExist
  <1> QED  BY <1>1, CarriedIs, SumsAnyOrder

LEMMA CarriedAdd ==
    ASSUME NEW S, IsFiniteSet(S), S \subseteq DenialLines, NEW x \in DenialLines, x \notin S
    PROVE  Carried(S \cup {x}) = Carried(S) + 1 + x.unlogged
  <1> DEFINE T == S \cup {x}
             f == CHOOSE h : Sums(T, h)
             g == CHOOSE h : Sums(S, h)
  <1>1. IsFiniteSet(T)
    BY FS_AddElement
  <1>2. Sums(T, f) /\ Sums(S, g)
    BY <1>1, SumsExist
  <1>3. Carried(T) = f[T] /\ Carried(S) = g[S]
    BY CarriedIs
  <1>4. T \subseteq DenialLines /\ S \in SUBSET T /\ x \in T /\ T \ {x} = S
    OBVIOUS
  <1> HIDE DEF T, f, g
  <1>5. f[T] = (1 + x.unlogged) + f[S]
    BY <1>1, <1>2, <1>4, SumsAnyOrder
  <1>6. f[S] = g[S]
    BY <1>1, <1>2, <1>4, SumsAgree
  <1>7. g[S] \in Nat
    BY <1>3, CarriedNat
  <1>8. x.unlogged \in Nat
    BY DEF DenialLines
  <1> QED  BY <1>3, <1>5, <1>6, <1>7, <1>8 DEF T

Denied == (Plasmids \cup {Unnamed}) \X Reaches
DenialEntries == [plasmid : Plasmids \cup {Unnamed}, reach : Reaches, count : Nat, lines : Nat]

BookTyped ==
    /\ book \in [id : Nat, entries : SUBSET DenialEntries, waiting : SUBSET DenialLines,
                 issued : Nat, last_seq : Nat, unlogged : Nat]
    /\ reader \in [book : Nat, after : Nat, page : SUBSET DenialLines, of : Nat]
    /\ denials \in [all : Nat, of : [Denied -> Nat]]
    /\ logged \subseteq DenialLines
    /\ IsFiniteSet(logged) /\ IsFiniteSet(book.waiting)
    /\ book.id > 0 /\ book.unlogged <= CountMax

(* A number names one line, and the numbers given are those up to last_seq. *)
Numbered ==
    /\ {line.seq : line \in Issued} = 1..book.last_seq
    /\ \A a, b \in Issued : a.seq = b.seq => a = b

(* What the controller holds of this book still waits there, and a line     *)
(* before what it holds or before what it acknowledges is in the log.       *)
Fetched ==
    /\ reader.of <= book.id /\ reader.book <= book.id
    /\ reader.page = {} => reader.of = 0
    /\ reader.of = book.id =>
          /\ reader.page \subseteq book.waiting
          /\ \A line \in book.waiting \ reader.page, held \in reader.page :
                held.seq < line.seq \/ line \in logged
    /\ reader.book = book.id =>
          /\ reader.after <= book.last_seq
          /\ \A line \in book.waiting : line.seq <= reader.after => line \in logged

Counted ==
    \A noted \in book.entries : noted.count <= denials.of[<<noted.plasmid, noted.reach>>]

Summed ==
    IF book.unlogged = CountMax \/ \E line \in Issued : line.unlogged = CountMax
    THEN Carried(Issued) + book.unlogged <= denials.all
    ELSE Carried(Issued) + book.unlogged = denials.all

DenialInv == BookTyped /\ Numbered /\ Fetched /\ Counted /\ Summed

(* What a recorded denial leaves in the book: a number more and a line, or  *)
(* one more unlogged.                                                       *)
WithLine ==
    /\ book'.last_seq = book.last_seq + 1 /\ book'.unlogged = 0
    /\ book'.waiting = book.waiting \cup {[seq |-> book.last_seq + 1, unlogged |-> book.unlogged]}

WithoutLine ==
    /\ book'.last_seq = book.last_seq /\ book'.waiting = book.waiting
    /\ book'.unlogged = saturating_add(book.unlogged)

(* issue does the one or the other, and leaves the counts of the entries.   *)
LEMMA IssueShape ==
    ASSUME NEW b \in [id : Nat, entries : SUBSET DenialEntries, waiting : SUBSET DenialLines,
                      issued : Nat, last_seq : Nat, unlogged : Nat],
           NEW noted \in DenialEntries, NEW fits \in BOOLEAN, b.unlogged <= CountMax
    PROVE  LET i == issue(b, noted, fits) IN
           /\ i \in [id : Nat, entries : SUBSET DenialEntries, waiting : SUBSET DenialLines,
                     issued : Nat, last_seq : Nat, unlogged : Nat]
           /\ i.id = b.id /\ i.unlogged <= CountMax
           /\ \A e \in i.entries : \E o \in b.entries \cup {noted} :
                 e.plasmid = o.plasmid /\ e.reach = o.reach /\ e.count = o.count
           /\ \/ /\ i.last_seq = b.last_seq /\ i.waiting = b.waiting
                 /\ i.unlogged = saturating_add(b.unlogged)
              \/ /\ i.last_seq = b.last_seq + 1 /\ i.unlogged = 0
                 /\ i.waiting = b.waiting \cup {[seq |-> b.last_seq + 1, unlogged |-> b.unlogged]}
  <1> DEFINE i == issue(b, noted, fits)
             more == [noted EXCEPT !.lines = @ + 1]
             line == [seq |-> b.last_seq + 1, unlogged |-> b.unlogged]
  <1>1. CountMax \in Nat
    BY DenialAssumption
  <1>2. CASE NoLine(b, noted, fits)
    <2>1. i = [b EXCEPT !.unlogged = saturating_add(b.unlogged)]
      BY <1>2 DEF issue, Unlogged
    <2>2. saturating_add(b.unlogged) \in Nat /\ saturating_add(b.unlogged) <= CountMax
      BY <1>1 DEF saturating_add
    <2> QED  BY <2>1, <2>2
  <1>3. CASE ~NoLine(b, noted, fits)
    <2>1. i = [b EXCEPT !.last_seq = b.last_seq + 1, !.issued = b.issued + 1, !.unlogged = 0,
                        !.entries = (b.entries \ {noted}) \cup {more},
                        !.waiting = b.waiting \cup {line}]
      BY <1>3 DEF issue
    <2>2. more \in DenialEntries /\ more.plasmid = noted.plasmid /\ more.reach = noted.reach
          /\ more.count = noted.count
      BY DEF DenialEntries
    <2>3. line \in DenialLines
      BY DEF DenialLines
    <2> HIDE DEF more, line
    <2>4. i.entries = (b.entries \ {noted}) \cup {more} /\ i.waiting = b.waiting \cup {line}
          /\ i.last_seq = b.last_seq + 1 /\ i.unlogged = 0 /\ i.id = b.id /\ i.issued = b.issued + 1
      BY <2>1
    <2>5. i \in [id : Nat, entries : SUBSET DenialEntries, waiting : SUBSET DenialLines,
                 issued : Nat, last_seq : Nat, unlogged : Nat]
      <3> DEFINE Ents == (b.entries \ {noted}) \cup {more}
                 W == b.waiting \cup {line}
      <3>1. Ents \in SUBSET DenialEntries /\ W \in SUBSET DenialLines
        BY <2>2, <2>3
      <3>2. i = [b EXCEPT !.last_seq = b.last_seq + 1, !.issued = b.issued + 1, !.unlogged = 0,
                          !.entries = Ents, !.waiting = W]
        BY <2>1
      <3> HIDE DEF i, Ents, W
      <3>3. i = [id |-> b.id, entries |-> Ents, waiting |-> W, issued |-> b.issued + 1,
                 last_seq |-> b.last_seq + 1, unlogged |-> 0]
        BY <3>2
      <3>4. b.id \in Nat /\ b.issued + 1 \in Nat /\ b.last_seq + 1 \in Nat
        OBVIOUS
      <3> QED  BY <3>1, <3>3, <3>4
    <2>6. \A e \in i.entries : \E o \in b.entries \cup {noted} :
                 e.plasmid = o.plasmid /\ e.reach = o.reach /\ e.count = o.count
      BY <2>2, <2>4
    <2> QED  BY <1>1, <2>4, <2>5, <2>6 DEF line
  <1> QED  BY <1>2, <1>3

LEMMA RecordShape ==
    ASSUME NEW plasmid \in Plasmids \cup {Unnamed}, NEW reach \in Reaches,
           record(plasmid, reach), BookTyped, Counted
    PROVE  /\ BookTyped' /\ Counted' /\ book'.id = book.id
           /\ denials'.all = denials.all + 1
           /\ WithLine \/ WithoutLine
  <1> DEFINE found == position(plasmid, reach)
             noted == IF found # {} THEN CHOOSE e \in found : TRUE
                      ELSE [plasmid |-> plasmid, reach |-> reach, count |-> 0, lines |-> 0]
             counted == [noted EXCEPT !.count = saturating_add(noted.count)]
             entered == [book EXCEPT !.entries = (book.entries \ {noted}) \cup {counted}]
             Books == [id : Nat, entries : SUBSET DenialEntries, waiting : SUBSET DenialLines,
                       issued : Nat, last_seq : Nat, unlogged : Nat]
             d == <<plasmid, reach>>
  <1>1. CountMax \in Nat
    BY DenialAssumption
  <1>2. /\ denials' = [denials EXCEPT !.all = denials.all + 1, !.of[d] = denials.of[d] + 1]
        /\ reader' = reader /\ logged' = logged
    BY DEF record
  <1>3. IF found = {} /\ ~room(plasmid) THEN book' = Unlogged(book)
        ELSE \E fits \in BOOLEAN : book' = issue(entered, counted, fits)
    BY DEF record
  <1>4. book \in Books /\ book.id > 0 /\ book.unlogged \in Nat /\ book.unlogged <= CountMax
        /\ denials.all \in Nat /\ denials.of \in [Denied -> Nat] /\ d \in Denied
    BY DEF BookTyped, Denied
  <1>5. /\ denials' \in [all : Nat, of : [Denied -> Nat]] /\ denials'.all = denials.all + 1
        /\ denials'.of[d] = denials.of[d] + 1
        /\ \A c \in Denied : denials.of[c] \in Nat /\ denials.of[c] <= denials'.of[c]
    <2>1. denials \in [all : Nat, of : [Denied -> Nat]]
      BY DEF BookTyped
    <2> DEFINE of == [denials.of EXCEPT ![d] = denials.of[d] + 1]
    <2> HIDE DEF d
    <2>2. denials' = [denials EXCEPT !.all = denials.all + 1, !.of = of]
      BY <1>2, <2>1
    <2>3. of \in [Denied -> Nat] /\ of[d] = denials.of[d] + 1
      BY <1>4
    <2>4. \A c \in Denied : denials.of[c] \in Nat /\ denials.of[c] <= of[c]
      BY <1>4
    <2> HIDE DEF of
    <2>5. denials'.of = of /\ denials'.all = denials.all + 1
      BY <2>1, <2>2
    <2>6. denials' \in [all : Nat, of : [Denied -> Nat]]
      <3>1. denials' = [all |-> denials.all + 1, of |-> of]
        BY <2>1, <2>2
      <3>2. denials.all + 1 \in Nat
        BY <1>4
      <3> QED  BY <2>3, <3>1, <3>2
    <2> QED  BY <2>3, <2>4, <2>5, <2>6
  <1>6. noted \in DenialEntries /\ noted.plasmid = plasmid /\ noted.reach = reach
        /\ noted.count <= denials.of[d]
    <2>1. CASE found # {}
      <3>1. noted \in book.entries /\ noted.plasmid = plasmid /\ noted.reach = reach
        BY <2>1 DEF position
      <3>2. noted \in DenialEntries
        BY <1>4, <3>1
      <3> QED  BY <3>1, <3>2 DEF Counted
    <2>2. CASE found = {}
      <3>1. noted = [plasmid |-> plasmid, reach |-> reach, count |-> 0, lines |-> 0]
        BY <2>2
      <3>2. denials.of[d] \in Nat
        BY <1>4
      <3> QED  BY <3>1, <3>2 DEF DenialEntries
    <2> QED  BY <2>1, <2>2
  <1> HIDE DEF noted, found
  <1>7. counted \in DenialEntries /\ counted.plasmid = plasmid /\ counted.reach = reach
        /\ counted.count <= denials'.of[d]
    <2>1. saturating_add(noted.count) \in Nat /\ saturating_add(noted.count) <= noted.count + 1
      BY <1>1, <1>6 DEF saturating_add, DenialEntries
    <2>2. counted \in DenialEntries /\ counted.plasmid = plasmid /\ counted.reach = reach
          /\ counted.count = saturating_add(noted.count)
      BY <1>6, <2>1 DEF DenialEntries
    <2>3. noted.count \in Nat /\ denials.of[d] \in Nat
      BY <1>4, <1>6 DEF DenialEntries
    <2> HIDE DEF counted
    <2> QED  BY <1>5, <1>6, <2>1, <2>2, <2>3
  <1> HIDE DEF counted
  <1>8. entered \in Books /\ entered.id = book.id /\ entered.last_seq = book.last_seq
        /\ entered.waiting = book.waiting /\ entered.unlogged = book.unlogged
        /\ entered.entries = (book.entries \ {noted}) \cup {counted}
    BY <1>4, <1>7
  <1> HIDE DEF entered
  <1>9. \A e \in book.entries : e \in DenialEntries /\ e.count <= denials'.of[<<e.plasmid, e.reach>>]
    <2> SUFFICES ASSUME NEW e \in book.entries
                 PROVE e \in DenialEntries /\ e.count <= denials'.of[<<e.plasmid, e.reach>>]
      OBVIOUS
    <2>1. e \in DenialEntries
      BY <1>4
    <2>2. e.count \in Nat /\ <<e.plasmid, e.reach>> \in Denied
      BY <2>1 DEF DenialEntries, Denied
    <2>3. e.count <= denials.of[<<e.plasmid, e.reach>>]
      BY DEF Counted
    <2>4. denials'.of[<<e.plasmid, e.reach>>] \in Nat
      BY <1>5, <2>2
    <2> QED  BY <1>5, <2>1, <2>2, <2>3, <2>4
  <1>10. book' \in Books /\ book'.id = book.id /\ book'.unlogged <= CountMax /\ Counted' /\ (WithLine \/ WithoutLine)
    <2>1. CASE found = {} /\ ~room(plasmid)
      <3>1. book' = [book EXCEPT !.unlogged = saturating_add(book.unlogged)]
        BY <1>3, <2>1 DEF Unlogged
      <3>2. saturating_add(book.unlogged) \in Nat /\ saturating_add(book.unlogged) <= CountMax
        BY <1>1, <1>4 DEF saturating_add
      <3>3. book'.entries = book.entries /\ book' \in Books /\ book'.id = book.id
            /\ book'.unlogged = saturating_add(book.unlogged)
            /\ book'.last_seq = book.last_seq /\ book'.waiting = book.waiting
        BY <1>4, <3>1, <3>2
      <3> QED  BY <1>9, <3>2, <3>3 DEF Counted, WithoutLine
    <2>2. CASE ~(found = {} /\ ~room(plasmid))
      <3>1. PICK fits \in BOOLEAN : book' = issue(entered, counted, fits)
        BY <1>3, <2>2
      <3> DEFINE i == issue(entered, counted, fits)
      <3>2. /\ i \in Books /\ i.id = entered.id /\ i.unlogged <= CountMax
            /\ \A e \in i.entries : \E o \in entered.entries \cup {counted} :
                  e.plasmid = o.plasmid /\ e.reach = o.reach /\ e.count = o.count
            /\ \/ /\ i.last_seq = entered.last_seq /\ i.waiting = entered.waiting
                  /\ i.unlogged = saturating_add(entered.unlogged)
               \/ /\ i.last_seq = entered.last_seq + 1 /\ i.unlogged = 0
                  /\ i.waiting = entered.waiting \cup
                                    {[seq |-> entered.last_seq + 1, unlogged |-> entered.unlogged]}
        BY <1>4, <1>7, <1>8, IssueShape
      <3> HIDE DEF i
      <3>3. book' = i
        BY <3>1 DEF i
      <3>4. Counted'
        <4> SUFFICES ASSUME NEW e \in book'.entries
                     PROVE e.count <= denials'.of[<<e.plasmid, e.reach>>]
          BY DEF Counted
        <4>1. PICK o \in book.entries \cup {counted} :
                 e.plasmid = o.plasmid /\ e.reach = o.reach /\ e.count = o.count
          BY <1>8, <3>2, <3>3
        <4>2. o.count <= denials'.of[<<o.plasmid, o.reach>>]
          BY <1>7, <1>9
        <4> QED  BY <4>1, <4>2
      <3>5. WithLine \/ WithoutLine
        BY <1>8, <3>2, <3>3 DEF WithLine, WithoutLine
      <3> QED  BY <1>8, <3>2, <3>3, <3>4, <3>5
    <2> QED  BY <2>1, <2>2
  <1>11. IsFiniteSet(book'.waiting)
    <2>1. IsFiniteSet(book.waiting)
      BY DEF BookTyped
    <2> DEFINE line == [seq |-> book.last_seq + 1, unlogged |-> book.unlogged]
    <2>2. IsFiniteSet(book.waiting \cup {line})
      BY <2>1, FS_AddElement
    <2>3. book'.waiting \in {book.waiting, book.waiting \cup {line}}
      BY <1>10 DEF WithLine, WithoutLine
    <2> HIDE DEF line
    <2> QED  BY <2>1, <2>2, <2>3
  <1>12. BookTyped'
    BY <1>2, <1>4, <1>5, <1>10, <1>11 DEF BookTyped
  <1> QED  BY <1>5, <1>10, <1>12

LEMMA LinesTyped ==
    ASSUME BookTyped
    PROVE  /\ Issued \subseteq DenialLines /\ IsFiniteSet(Issued) /\ Carried(Issued) \in Nat
           /\ book.last_seq \in Nat /\ book.unlogged \in Nat /\ denials.all \in Nat /\ book.id \in Nat
           /\ book.waiting \subseteq DenialLines
  <1>1. Issued \subseteq DenialLines /\ IsFiniteSet(Issued)
    BY FS_Union DEF BookTyped, Issued
  <1>2. Carried(Issued) \in Nat
    BY <1>1, CarriedNat
  <1> QED  BY <1>1, <1>2 DEF BookTyped

LEMMA RecordInv ==
    ASSUME NEW plasmid \in Plasmids \cup {Unnamed}, NEW reach \in Reaches,
           record(plasmid, reach), DenialInv
    PROVE  DenialInv'
  <1> USE DEF DenialInv
  <1>1. /\ BookTyped' /\ Counted' /\ book'.id = book.id
        /\ denials'.all = denials.all + 1
        /\ WithLine \/ WithoutLine
    BY RecordShape
  <1>2. reader' = reader /\ logged' = logged
    BY DEF record
  <1>3. CountMax \in Nat
    BY DenialAssumption
  <1>4. /\ Issued \subseteq DenialLines /\ IsFiniteSet(Issued) /\ Carried(Issued) \in Nat
        /\ book.last_seq \in Nat /\ book.unlogged \in Nat /\ denials.all \in Nat /\ book.id \in Nat
        /\ book.waiting \subseteq DenialLines
    BY LinesTyped
  <1>5. \A line \in Issued : line.seq \in 1..book.last_seq
    BY DEF Numbered
  <1>6. book.unlogged <= CountMax /\ reader \in [book : Nat, after : Nat, page : SUBSET DenialLines, of : Nat]
    BY DEF BookTyped
  <1>7. CASE WithoutLine
    <2>1. Issued' = Issued
      BY <1>2, <1>7 DEF Issued, WithoutLine
    <2>2. Numbered' /\ Fetched'
      BY <1>1, <1>2, <1>7, <2>1 DEF Numbered, Fetched, WithoutLine
    <2>3. Summed'
      <3>1. book'.unlogged = IF book.unlogged = CountMax THEN book.unlogged ELSE book.unlogged + 1
        BY <1>7 DEF WithoutLine, saturating_add
      <3> DEFINE c == Carried(Issued)
                 some == \E line \in Issued : line.unlogged = CountMax
      <3>2. Carried(Issued') = c /\ (\E line \in Issued' : line.unlogged = CountMax) = some
        BY <2>1
      <3>3. IF book.unlogged = CountMax \/ some THEN c + book.unlogged <= denials.all
            ELSE c + book.unlogged = denials.all
        BY DEF Summed
      <3>4. c \in Nat
        BY <1>4
      <3> HIDE DEF c, some
      <3>5. IF book'.unlogged = CountMax \/ some THEN c + book'.unlogged <= denials'.all
            ELSE c + book'.unlogged = denials'.all
        BY <1>1, <1>3, <1>4, <1>6, <3>1, <3>3, <3>4
      <3> QED  BY <3>2, <3>5 DEF Summed
    <2> QED  BY <1>1, <2>2, <2>3
  <1>8. CASE WithLine
    <2> DEFINE line == [seq |-> book.last_seq + 1, unlogged |-> book.unlogged]
    <2>1. line \in DenialLines /\ line.seq = book.last_seq + 1 /\ line.unlogged = book.unlogged
      BY <1>4 DEF DenialLines
    <2>2. book'.waiting = book.waiting \cup {line} /\ book'.last_seq = book.last_seq + 1 /\ book'.unlogged = 0
      BY <1>8 DEF WithLine
    <2> HIDE DEF line
    <2>3. Issued' = Issued \cup {line}
      BY <1>2, <2>2 DEF Issued
    <2>4. line \notin Issued
      BY <1>4, <1>5, <2>1
    <2>5. Numbered'
      <3>1. {l.seq : l \in Issued'} = 1..book'.last_seq
        <4>1. {l.seq : l \in Issued'} = {l.seq : l \in Issued} \cup {line.seq}
          BY <2>3
        <4>2. {l.seq : l \in Issued} = 1..book.last_seq
          BY DEF Numbered
        <4>3. 1..book'.last_seq = (1..book.last_seq) \cup {line.seq}
          BY <1>4, <2>1, <2>2
        <4> QED  BY <4>1, <4>2, <4>3
      <3>2. \A a, b \in Issued' : a.seq = b.seq => a = b
        BY <1>4, <1>5, <2>1, <2>3 DEF Numbered
      <3> QED  BY <3>1, <3>2 DEF Numbered
    <2>6. Fetched'
      <3>1. \A l \in book.waiting : l.seq \in Nat /\ l.seq <= book.last_seq
        BY <1>4, <1>5 DEF Issued
      <3>2. ASSUME reader.of = book.id
            PROVE  /\ reader.page \subseteq book'.waiting
                   /\ \A l \in book'.waiting \ reader.page, held \in reader.page :
                         held.seq < l.seq \/ l \in logged
        <4>1. reader.page \subseteq book.waiting
          BY <3>2 DEF Fetched
        <4>2. \A held \in reader.page : held.seq < line.seq
          BY <1>4, <2>1, <3>1, <4>1
        <4> QED  BY <2>2, <3>2, <4>1, <4>2 DEF Fetched
      <3>3. ASSUME reader.book = book.id
            PROVE  /\ reader.after <= book'.last_seq
                   /\ \A l \in book'.waiting : l.seq <= reader.after => l \in logged
        <4>1. reader.after \in Nat /\ reader.after <= book.last_seq
          BY <1>6, <3>3 DEF Fetched
        <4>2. reader.after < line.seq /\ ~(line.seq <= reader.after)
          BY <1>4, <2>1, <4>1
        <4>3. reader.after <= book'.last_seq
          BY <1>4, <2>2, <4>1
        <4> QED  BY <2>2, <3>3, <4>2, <4>3 DEF Fetched
      <3> QED  BY <1>1, <1>2, <3>2, <3>3 DEF Fetched
    <2>7. Summed'
      <3>1. Carried(Issued') = Carried(Issued) + 1 + book.unlogged
        BY <1>4, <2>1, <2>3, <2>4, CarriedAdd
      <3> DEFINE c == Carried(Issued)
                 some == \E l \in Issued : l.unlogged = CountMax
      <3>2. (\E l \in Issued' : l.unlogged = CountMax) = (some \/ book.unlogged = CountMax)
        BY <2>1, <2>3
      <3>3. IF book.unlogged = CountMax \/ some THEN c + book.unlogged <= denials.all
            ELSE c + book.unlogged = denials.all
        BY DEF Summed
      <3>4. c \in Nat
        BY <1>4
      <3> HIDE DEF c, some
      <3>5. IF book'.unlogged = CountMax \/ some \/ book.unlogged = CountMax
            THEN (c + 1 + book.unlogged) + book'.unlogged <= denials'.all
            ELSE (c + 1 + book.unlogged) + book'.unlogged = denials'.all
        BY <1>1, <1>3, <1>4, <2>2, <3>3, <3>4
      <3>6. Carried(Issued') = c + 1 + book.unlogged
        BY <3>1 DEF c
      <3> QED  BY <3>2, <3>5, <3>6 DEF Summed
    <2> QED  BY <1>1, <2>5, <2>6, <2>7
  <1> QED  BY <1>1, <1>7, <1>8

(* A step that leaves the book, its log and its denials to the reader.      *)
LEMMA ReaderOnly ==
    ASSUME DenialInv, book' = book, denials' = denials, Issued' = Issued, logged \subseteq logged',
           logged' \subseteq Issued,
           reader' \in [book : Nat, after : Nat, page : SUBSET DenialLines, of : Nat], Fetched'
    PROVE  DenialInv'
  <1>1. IsFiniteSet(logged') /\ logged' \subseteq DenialLines
    BY LinesTyped, FS_Subset DEF DenialInv
  <1>2. BookTyped'
    BY <1>1 DEF DenialInv, BookTyped
  <1>3. Numbered' /\ Counted'
    BY DEF DenialInv, Numbered, Counted
  <1>4. Summed'
    BY DEF DenialInv, Summed
  <1> QED  BY <1>2, <1>3, <1>4 DEF DenialInv

LEMMA ForgetInv ==
    ASSUME NEW plasmid \in Plasmids, forget(plasmid), DenialInv
    PROVE  DenialInv'
  <1> DEFINE kept == {noted \in book.entries : noted.plasmid # plasmid}
             of == [d \in DOMAIN denials.of |-> IF d[1] = plasmid THEN 0 ELSE denials.of[d]]
  <1>1. /\ book' = [book EXCEPT !.entries = kept] /\ denials' = [denials EXCEPT !.of = of]
        /\ reader' = reader /\ logged' = logged
    BY DEF forget
  <1>2. BookTyped
    BY DEF DenialInv
  <1>3. kept \subseteq book.entries /\ kept \in SUBSET DenialEntries
    BY <1>2 DEF BookTyped
  <1>4. denials.of \in [Denied -> Nat] /\ DOMAIN denials.of = Denied
    BY <1>2 DEF BookTyped
  <1>5. of \in [Denied -> Nat]
    BY <1>4
  <1>6. \A noted \in kept : noted.count <= of[<<noted.plasmid, noted.reach>>]
    <2> SUFFICES ASSUME NEW noted \in kept PROVE noted.count <= of[<<noted.plasmid, noted.reach>>]
      OBVIOUS
    <2> DEFINE d == <<noted.plasmid, noted.reach>>
    <2>1. noted \in book.entries /\ noted.plasmid # plasmid /\ noted \in DenialEntries
      BY <1>3
    <2>2. d \in Denied /\ d[1] = noted.plasmid
      BY <2>1 DEF DenialEntries, Denied
    <2>3. of[d] = denials.of[d]
      BY <1>4, <2>1, <2>2
    <2> QED  BY <2>1, <2>3 DEF DenialInv, Counted
  <1> HIDE DEF kept, of
  <1>7. /\ book' = [id |-> book.id, entries |-> kept, waiting |-> book.waiting, issued |-> book.issued,
                    last_seq |-> book.last_seq, unlogged |-> book.unlogged]
        /\ denials' = [all |-> denials.all, of |-> of]
    BY <1>1, <1>2 DEF BookTyped
  <1>8. BookTyped'
    BY <1>1, <1>2, <1>3, <1>5, <1>7 DEF BookTyped
  <1>9. Issued' = Issued
    BY <1>1, <1>7 DEF Issued
  <1>10. Numbered' /\ Fetched' /\ Counted'
    BY <1>1, <1>6, <1>7, <1>9 DEF DenialInv, Numbered, Fetched, Counted
  <1>11. Summed'
    BY <1>7, <1>9 DEF DenialInv, Summed
  <1> QED  BY <1>8, <1>10, <1>11 DEF DenialInv

(* The page holds the lines that none of the others comes before.           *)
LEMMA OldestFirst ==
    ASSUME NEW S, IsFiniteSet(S), S \subseteq DenialLines, NEW n \in Nat,
           NEW held \in Oldest(S, n), NEW line \in S \ Oldest(S, n)
    PROVE  held.seq < line.seq
  <1> DEFINE before(l) == {other \in S : other.seq <= l.seq}
  <1>1. held \in S /\ Cardinality(before(held)) <= n /\ ~(Cardinality(before(line)) <= n)
    BY DEF Oldest
  <1>2. held.seq \in Nat /\ line.seq \in Nat /\ \A other \in S : other.seq \in Nat
    BY <1>1 DEF DenialLines
  <1> SUFFICES ASSUME line.seq <= held.seq PROVE FALSE
    BY <1>2
  <1>3. before(line) \subseteq before(held)
    BY <1>2
  <1>4. IsFiniteSet(before(held)) /\ IsFiniteSet(before(line))
    BY FS_Subset
  <1>5. Cardinality(before(line)) <= Cardinality(before(held))
    BY <1>3, <1>4, FS_Subset
  <1>6. Cardinality(before(line)) \in Nat /\ Cardinality(before(held)) \in Nat
    BY <1>4, FS_CardinalityType
  <1> HIDE DEF before
  <1> QED  BY <1>1, <1>5, <1>6

LEMMA PageInv ==
    ASSUME page_lines, DenialInv
    PROVE  DenialInv'
  <1> DEFINE left == acknowledged(reader.book, reader.after)
  <1>1. reader.page = {} /\ book' = [book EXCEPT !.waiting = left] /\ logged' = logged /\ denials' = denials
    BY DEF page_lines
  <1>2. PICK reply \in {Oldest(left, DenialLimits.page), {}} :
           reader' = [reader EXCEPT !.page = reply, !.of = IF reply = {} THEN 0 ELSE book.id]
    BY DEF page_lines
  <1>3. BookTyped /\ Fetched /\ CountMax \in Nat /\ DenialLimits.page \in Nat
    BY DenialAssumption DEF DenialInv
  <1>4. left \subseteq book.waiting /\ \A line \in book.waiting \ left : line \in logged
    BY <1>3 DEF acknowledged, Fetched, BookTyped, DenialLines
  <1>5. left \in SUBSET DenialLines /\ IsFiniteSet(left) /\ book.id \in Nat /\ book.id > 0
    BY <1>3, <1>4, FS_Subset DEF BookTyped
  <1>6. reply \subseteq left /\ \A held \in reply, line \in left \ reply : held.seq < line.seq
    BY <1>2, <1>3, <1>5, OldestFirst DEF Oldest
  <1> HIDE DEF left
  <1>7. book' = [id |-> book.id, entries |-> book.entries, waiting |-> left, issued |-> book.issued,
                 last_seq |-> book.last_seq, unlogged |-> book.unlogged]
    BY <1>1, <1>3 DEF BookTyped
  <1>8. reader' = [book |-> reader.book, after |-> reader.after, page |-> reply,
                   of |-> IF reply = {} THEN 0 ELSE book.id]
    BY <1>2, <1>3 DEF BookTyped
  <1>9. BookTyped'
    <2>1. reply \in SUBSET DenialLines /\ (IF reply = {} THEN 0 ELSE book.id) \in Nat
      BY <1>5, <1>6
    <2>2. reader' \in [book : Nat, after : Nat, page : SUBSET DenialLines, of : Nat]
      BY <1>3, <1>8, <2>1 DEF BookTyped
    <2>3. book' \in [id : Nat, entries : SUBSET DenialEntries, waiting : SUBSET DenialLines,
                     issued : Nat, last_seq : Nat, unlogged : Nat]
      BY <1>3, <1>5, <1>7 DEF BookTyped
    <2> QED  BY <1>1, <1>3, <1>5, <1>7, <2>2, <2>3 DEF BookTyped
  <1>10. Issued' = Issued
    BY <1>1, <1>4, <1>7 DEF Issued
  <1>11. Numbered' /\ Counted'
    BY <1>1, <1>7, <1>10 DEF DenialInv, Numbered, Counted
  <1>12. Summed'
    BY <1>1, <1>7, <1>10 DEF DenialInv, Summed
  <1>13. Fetched'
    BY <1>1, <1>3, <1>4, <1>5, <1>6, <1>7, <1>8 DEF Fetched
  <1> QED  BY <1>9, <1>11, <1>12, <1>13 DEF DenialInv

LEMMA AppendInv ==
    ASSUME AppendLine, DenialInv
    PROVE  DenialInv'
  <1> DEFINE first == CHOOSE line \in reader.page : \A other \in reader.page : line.seq <= other.seq
             rest == reader.page \ {first}
  <1>1. /\ reader.page # {} /\ book' = book /\ denials' = denials
        /\ logged' = IF reader.of = book.id THEN logged \cup {first} ELSE logged
        /\ reader' = [reader EXCEPT !.page = rest, !.book = reader.of, !.after = first.seq,
                                    !.of = IF rest = {} THEN 0 ELSE reader.of]
    BY DEF AppendLine
  <1>2. BookTyped /\ Fetched /\ Numbered
    BY DEF DenialInv
  <1>3. reader.page \subseteq DenialLines /\ reader.of \in Nat /\ book.id \in Nat /\ book.id > 0
        /\ book.last_seq \in Nat
    BY <1>2 DEF BookTyped
  <1>4. first \in reader.page /\ \A other \in reader.page : first.seq <= other.seq
    <2> DEFINE seqs == {line.seq : line \in reader.page}
    <2>1. seqs \subseteq Nat /\ seqs # {}
      BY <1>1, <1>3 DEF DenialLines
    <2>2. PICK n \in seqs : \A m \in seqs : n <= m
      BY <2>1, LeastNat
    <2>3. \E line \in reader.page : \A other \in reader.page : line.seq <= other.seq
      BY <2>2
    <2> QED  BY <2>3
  <1> HIDE DEF first
  <1>5. first \in DenialLines /\ first.seq \in Nat
    BY <1>3, <1>4 DEF DenialLines
  <1>6. reader' = [book |-> reader.of, after |-> first.seq, page |-> rest,
                   of |-> IF rest = {} THEN 0 ELSE reader.of]
    BY <1>1, <1>2 DEF BookTyped
  <1>7. rest \subseteq reader.page /\ rest \in SUBSET DenialLines /\ first \notin rest
    BY <1>3
  <1>8. reader' \in [book : Nat, after : Nat, page : SUBSET DenialLines, of : Nat]
    <2>1. (IF rest = {} THEN 0 ELSE reader.of) \in Nat
      BY <1>3
    <2> HIDE DEF rest
    <2> QED  BY <1>3, <1>5, <1>6, <1>7, <2>1
  <1>9. CASE reader.of # book.id
    <2>1. logged' = logged /\ Issued' = Issued
      BY <1>1, <1>9 DEF Issued
    <2>2. Fetched'
      <3>1. reader'.book = reader.of /\ reader'.page = rest /\ reader'.of = IF rest = {} THEN 0 ELSE reader.of
        BY <1>6
      <3>2. reader.of <= book.id
        BY <1>2 DEF Fetched
      <3> HIDE DEF rest
      <3>3. reader'.of # book.id /\ reader'.book # book.id /\ reader'.of <= book.id /\ reader'.book <= book.id
        BY <1>3, <1>9, <3>1, <3>2
      <3> QED  BY <1>1, <3>1, <3>3 DEF Fetched
    <2> QED  BY <1>1, <1>8, <2>1, <2>2, ReaderOnly DEF Issued
  <1>10. CASE reader.of = book.id
    <2>1. logged' = logged \cup {first} /\ first \in book.waiting
      BY <1>1, <1>2, <1>4, <1>10 DEF Fetched
    <2>2. Issued' = Issued /\ logged' \subseteq Issued
      BY <1>1, <2>1 DEF Issued
    <2>3. \A line \in book.waiting : line \in Issued /\ line.seq \in Nat /\ line.seq <= book.last_seq
      BY <1>2, <1>3 DEF Issued, Numbered, BookTyped, DenialLines
    <2>4. \A line \in book.waiting : line.seq <= first.seq => line \in logged'
      <3> SUFFICES ASSUME NEW line \in book.waiting, line.seq <= first.seq, line # first
                   PROVE line \in logged
        BY <2>1
      <3>1. CASE line \in reader.page
        BY <1>2, <1>4, <1>5, <2>1, <2>3, <3>1 DEF Numbered
      <3>2. CASE line \notin reader.page
        BY <1>2, <1>4, <1>5, <1>10, <2>3, <3>2 DEF Fetched
      <3> QED  BY <3>1, <3>2
    <2>5. \A line \in book.waiting \ rest, held \in rest : held.seq < line.seq \/ line \in logged'
      BY <1>2, <1>7, <1>10, <2>1 DEF Fetched
    <2>6. rest \subseteq book.waiting
      BY <1>2, <1>7, <1>10 DEF Fetched
    <2> HIDE DEF rest
    <2>7. Fetched'
      BY <1>1, <1>3, <1>6, <1>10, <2>1, <2>3, <2>4, <2>5, <2>6 DEF Fetched
    <2> QED  BY <1>1, <1>8, <2>1, <2>2, <2>7, ReaderOnly
  <1> QED  BY <1>9, <1>10

LEMMA ReaderFails ==
    ASSUME AppendFails \/ ControllerRestarts, DenialInv
    PROVE  DenialInv'
  <1>1. book' = book /\ denials' = denials /\ logged' = logged /\ Issued' = Issued
    BY DEF AppendFails, ControllerRestarts, Issued
  <1>2. BookTyped /\ Fetched
    BY DEF DenialInv
  <1>3. \/ reader' = [book |-> reader.book, after |-> reader.after, page |-> {}, of |-> 0]
        \/ reader' = [book |-> 0, after |-> 0, page |-> {}, of |-> 0]
    BY <1>2 DEF AppendFails, ControllerRestarts, NewReader, BookTyped
  <1>4. reader' \in [book : Nat, after : Nat, page : SUBSET DenialLines, of : Nat]
    BY <1>2, <1>3 DEF BookTyped
  <1>5. book.id \in Nat /\ book.id > 0
    BY <1>2 DEF BookTyped
  <1>6. Fetched'
    BY <1>1, <1>2, <1>3, <1>5 DEF Fetched
  <1> QED  BY <1>1, <1>4, <1>6, ReaderOnly DEF Issued

(* An empty book, whoever reads.                                            *)
LEMMA EmptyBook ==
    ASSUME NEW id \in Nat \ {0}
    PROVE  /\ NewBook(id) \in [id : Nat, entries : SUBSET DenialEntries, waiting : SUBSET DenialLines,
                               issued : Nat, last_seq : Nat, unlogged : Nat]
           /\ NoDenials \in [all : Nat, of : [Denied -> Nat]]
           /\ IsFiniteSet({}) /\ Carried({}) = 0 /\ CountMax \in Nat
  BY FS_EmptySet, CarriedEmpty, DenialAssumption DEF NewBook, NoDenials, Denied

LEMMA RestartInv ==
    ASSUME MembraneRestarts, DenialInv
    PROVE  DenialInv'
  <1>1. book' = NewBook(book.id + 1) /\ logged' = {} /\ denials' = NoDenials /\ reader' = reader
    BY DEF MembraneRestarts
  <1>2. BookTyped /\ Fetched
    BY DEF DenialInv
  <1>3. book.id + 1 \in Nat \ {0} /\ book.id \in Nat
    BY <1>2 DEF BookTyped
  <1>4. BookTyped'
    BY <1>1, <1>2, <1>3, EmptyBook DEF BookTyped, NewBook
  <1>5. Issued' = {} /\ book'.last_seq = 0 /\ book'.unlogged = 0 /\ denials'.all = 0 /\ book'.entries = {}
    BY <1>1 DEF Issued, NewBook, NoDenials
  <1>6. Numbered' /\ Counted'
    BY <1>5 DEF Numbered, Counted
  <1>7. Carried(Issued') = 0
    BY <1>5, CarriedEmpty
  <1>8. Summed'
    BY <1>5, <1>7 DEF Summed
  <1>9. Fetched'
    <2>1. reader.of \in Nat /\ reader.book \in Nat /\ reader.of <= book.id /\ reader.book <= book.id
      BY <1>2 DEF Fetched, BookTyped
    <2>2. book'.id = book.id + 1
      BY <1>1 DEF NewBook
    <2>3. reader.of # book'.id /\ reader.book # book'.id /\ reader.of <= book'.id /\ reader.book <= book'.id
      BY <1>3, <2>1, <2>2
    <2> QED  BY <1>1, <1>2, <2>3 DEF Fetched
  <1> QED  BY <1>4, <1>6, <1>8, <1>9 DEF DenialInv

(* Every denial a book recorded is on its way to the session log once and   *)
(* only once, whatever is lost, fails or restarts: DenialBook and the       *)
(* controller that fetches from it (denial.rs).                             *)
THEOREM AccountedDenials == DenialSpec => []DenialsAccounted
  <1>1. DenialInit => DenialInv
    <2> SUFFICES ASSUME DenialInit PROVE DenialInv
      OBVIOUS
    <2>1. book = NewBook(1) /\ reader = NewReader /\ logged = {} /\ denials = NoDenials
      BY DEF DenialInit
    <2>2. BookTyped
      BY <2>1, EmptyBook DEF BookTyped, NewBook, NewReader
    <2>3. Issued = {} /\ book.last_seq = 0 /\ book.unlogged = 0 /\ denials.all = 0 /\ book.entries = {}
      BY <2>1 DEF Issued, NewBook, NoDenials
    <2>4. Numbered /\ Counted
      BY <2>3 DEF Numbered, Counted
    <2>5. Summed
      BY <2>3, CarriedEmpty DEF Summed
    <2>6. Fetched
      BY <2>1 DEF Fetched, NewBook, NewReader
    <2> QED  BY <2>2, <2>4, <2>5, <2>6 DEF DenialInv
  <1>2. DenialInv /\ [DenialNext]_denialVars => DenialInv'
    <2> SUFFICES ASSUME DenialInv, [DenialNext]_denialVars PROVE DenialInv'
      OBVIOUS
    <2>1. CASE UNCHANGED denialVars
      <3>1. Issued' = Issued
        BY <2>1 DEF denialVars, Issued
      <3> QED  BY <2>1, <3>1 DEF denialVars, DenialInv, BookTyped, Numbered, Fetched, Counted, Summed
    <2>2. CASE DenialNext
      BY <2>2, RecordInv, ForgetInv, PageInv, AppendInv, ReaderFails, RestartInv DEF DenialNext
    <2> QED  BY <2>1, <2>2
  <1>3. DenialInv => DenialsAccounted
    BY DEF DenialInv, DenialsAccounted, Numbered, Counted, Summed
  <1> QED  BY <1>1, <1>2, <1>3, PTL DEF DenialSpec

-----------------------------------------------------------------------------
(* The kill budget.  halved is defined by recursion; that it has a value at *)
(* all is shown first, from the least span at which it would have none.     *)

(* What halved is, for spans up to n.                                       *)
HalvesTo(n, m, g) ==
    /\ g \in [0..n -> Nat]
    /\ \A s \in 0..n : g[s] = IF s <= m THEN s ELSE g[s \div 2]

LEMMA HalvesExists ==
    ASSUME NEW m \in Nat
    PROVE  \A n \in Nat : \E g : HalvesTo(n, m, g)
<1> DEFINE T == {n \in Nat : ~ \E g : HalvesTo(n, m, g)}
<1> SUFFICES ASSUME T # {} PROVE FALSE
  OBVIOUS
<1>1. PICK n \in T : \A y \in T : n <= y
  BY LeastNat
<1>2. CASE n = 0
  <2> DEFINE g == [s \in 0..0 |-> 0]
  <2>1. HalvesTo(0, m, g)
    BY DEF HalvesTo
  <2> QED
    BY <1>1, <1>2, <2>1
<1>3. CASE n > 0
  <2>1. n - 1 \in Nat /\ n - 1 \notin T
    BY <1>1, <1>3
  <2>2. PICK h : HalvesTo(n - 1, m, h)
    BY <2>1
  <2> DEFINE g == [s \in 0..n |-> IF s < n THEN h[s] ELSE IF n <= m THEN n ELSE h[n \div 2]]
  <2>3. n \in Nat /\ n \div 2 \in 0..(n - 1) /\ 0..(n - 1) \subseteq 0..n
    BY <1>1, <1>3
  <2>4. h \in [0..(n - 1) -> Nat] /\ \A s \in 0..(n - 1) : h[s] = IF s <= m THEN s ELSE h[s \div 2]
    BY <2>2 DEF HalvesTo
  <2>5. \A s \in 0..(n - 1) : s \div 2 \in 0..(n - 1)
    BY <2>3
  <2>6. HalvesTo(n, m, g)
    BY <2>3, <2>4, <2>5 DEF HalvesTo
  <2> QED
    BY <1>1, <2>6
<1> QED
  BY <1>1, <1>2, <1>3

LEMMA HalvesAgree ==
    ASSUME NEW m \in Nat, NEW n \in Nat, NEW k \in Nat, NEW g, NEW h,
           HalvesTo(n, m, g), HalvesTo(k, m, h), n <= k
    PROVE  \A s \in 0..n : g[s] = h[s]
<1> DEFINE T == {s \in 0..n : g[s] # h[s]}
<1> SUFFICES ASSUME T # {} PROVE FALSE
  OBVIOUS
<1>1. PICK s \in T : \A y \in T : s <= y
  <2>1. T \subseteq Nat
    OBVIOUS
  <2> QED
    BY <2>1, LeastNat
<1>2. s \in 0..n /\ s \in 0..k
  OBVIOUS
<1>3. /\ g[s] = IF s <= m THEN s ELSE g[s \div 2]
      /\ h[s] = IF s <= m THEN s ELSE h[s \div 2]
  BY <1>2 DEF HalvesTo
<1>4. s > m
  BY <1>1, <1>2, <1>3
<1>5. s \div 2 \in 0..n /\ s \div 2 < s
  BY <1>2, <1>4
<1>6. s \div 2 \notin T
  BY <1>1, <1>2, <1>5
<1> QED
  BY <1>1, <1>2, <1>3, <1>5, <1>6

(* The recursion of halved has a solution, so its value is as defined.      *)
LEMMA HalvedIs ==
    ASSUME NEW m \in Nat
    PROVE  \A s \in Nat : halved(s, m) = IF s <= m THEN s ELSE halved(s \div 2, m)
<1> DEFINE Halver(n) == CHOOSE g : HalvesTo(n, m, g)
           f == [s \in Nat |-> Halver(s)[s]]
           half == CHOOSE h : h = [s \in Nat |-> IF s <= m THEN s ELSE h[s \div 2]]
<1>1. \A n \in Nat : HalvesTo(n, m, Halver(n))
  BY HalvesExists
<1> HIDE DEF Halver
<1>2. \A s \in Nat : f[s] = IF s <= m THEN s ELSE f[s \div 2]
  <2> TAKE s \in Nat
  <2>1. Halver(s)[s] = IF s <= m THEN s ELSE Halver(s)[s \div 2]
    <3>1. s \in 0..s /\ HalvesTo(s, m, Halver(s))
      BY <1>1
    <3> QED
      BY <3>1 DEF HalvesTo
  <2>2. s \div 2 \in Nat /\ s \div 2 <= s /\ s \div 2 \in 0..(s \div 2)
    OBVIOUS
  <2>3. Halver(s \div 2)[s \div 2] = Halver(s)[s \div 2]
    BY <1>1, <2>2, HalvesAgree
  <2> QED
    BY <2>1, <2>2, <2>3
<1>3. f = [s \in Nat |-> IF s <= m THEN s ELSE f[s \div 2]]
  BY <1>2
<1> HIDE DEF f
<1>4. half = [s \in Nat |-> IF s <= m THEN s ELSE half[s \div 2]]
  <2>1. \E h : h = [s \in Nat |-> IF s <= m THEN s ELSE h[s \div 2]]
    BY <1>3
  <2> QED
    BY <2>1
<1> HIDE DEF half
<1>5. \A s \in Nat : halved(s, m) = half[s]
  BY DEF halved, half
<1> QED
  BY <1>4, <1>5

(* It is as much of the span as the clock holds, or more than half of that. *)
LEMMA HalvedBounds ==
    ASSUME NEW m \in Nat
    PROVE  \A s \in Nat : /\ halved(s, m) \in Nat
                          /\ halved(s, m) <= Least(s, m)
                          /\ 2 * halved(s, m) >= Least(s, m)
<1> DEFINE Bounded(s) == /\ halved(s, m) \in Nat
                         /\ halved(s, m) <= Least(s, m)
                         /\ 2 * halved(s, m) >= Least(s, m)
           T == {s \in Nat : ~Bounded(s)}
<1> SUFFICES ASSUME T # {} PROVE FALSE
  OBVIOUS
<1>1. PICK s \in T : \A y \in T : s <= y
  BY LeastNat
<1>2. halved(s, m) = IF s <= m THEN s ELSE halved(s \div 2, m)
  BY HalvedIs
<1>3. s > m
  BY <1>1, <1>2 DEF Least
<1>4. s \div 2 \in Nat /\ s \div 2 < s /\ 2 * (s \div 2) >= s - 1
  BY <1>3
<1>5. Bounded(s \div 2)
  BY <1>1, <1>4
<1>6. CASE s \div 2 <= m
  <2>1. halved(s \div 2, m) = s \div 2
    BY <1>4, <1>6, HalvedIs
  <2> QED
    BY <1>1, <1>2, <1>3, <1>4, <1>6, <2>1 DEF Least
<1>7. CASE s \div 2 > m
  BY <1>1, <1>2, <1>3, <1>4, <1>5, <1>7 DEF Least
<1> QED
  BY <1>4, <1>6, <1>7

LEMMA WholeMs ==
    ASSUME NEW d \in Nat
    PROVE  /\ whole_ms(d) \in Nat /\ whole_ms(d) <= d /\ whole_ms(d) % Ms = 0
           /\ d - whole_ms(d) < Ms
  <1> DEFINE k == d \div Ms
  <1>1. Ms \in Nat /\ Ms > 0 /\ k \in Nat
    BY KillAssumption
  <1>2. k * Ms <= d /\ d < (k + 1) * Ms
    BY <1>1
  <1>3. (k * Ms) % Ms = 0
    BY <1>1
  <1>4. (k + 1) * Ms = k * Ms + Ms
    BY <1>1
  <1> QED
    BY <1>1, <1>2, <1>3, <1>4 DEF whole_ms

LEMMA LargestMultiple ==
    ASSUME NEW d \in Nat, NEW k \in Nat, k * Ms <= d
    PROVE  k * Ms <= whole_ms(d)
  <1>1. k <= d \div Ms
    BY KillAssumption
  <1>2. d \div Ms \in Nat /\ Ms \in Nat
    BY KillAssumption
  <1> QED
    BY <1>1, <1>2 DEF whole_ms

(* Parts that are multiples and together fit in a span fit in its whole     *)
(* milliseconds.                                                            *)
LEMMA PartsFit ==
    ASSUME NEW d \in Nat, NEW a \in Nat, NEW b \in Nat, NEW c \in Nat, a + b + c <= d
    PROVE  whole_ms(a) + whole_ms(b) + whole_ms(c) <= whole_ms(d)
  <1> DEFINE i == a \div Ms
             j == b \div Ms
             k == c \div Ms
  <1>1. Ms \in Nat /\ Ms > 0 /\ i \in Nat /\ j \in Nat /\ k \in Nat
    BY KillAssumption
  <1>2. whole_ms(a) = i * Ms /\ whole_ms(b) = j * Ms /\ whole_ms(c) = k * Ms
    BY DEF whole_ms
  <1>3. whole_ms(a) + whole_ms(b) + whole_ms(c) <= d
    BY WholeMs
  <1> HIDE DEF i, j, k
  <1>4. (i + j + k) * Ms = i * Ms + j * Ms + k * Ms
    BY <1>1
  <1>5. (i + j + k) * Ms <= whole_ms(d)
    <2> DEFINE all == i + j + k
    <2>1. all \in Nat
      BY <1>1
    <2>2. all * Ms <= d
      BY <1>2, <1>3, <1>4
    <2> HIDE DEF all
    <2>3. all * Ms <= whole_ms(d)
      BY <2>1, <2>2, LargestMultiple
    <2> QED
      BY <2>3 DEF all
  <1> QED
    BY <1>2, <1>4, <1>5

Kills == [total : Nat, now : BOOLEAN, incomplete : SUBSET Shortfall]
Phases == {"queued", "withdraw", "stop", "lock", "answered"}

(* The conditions on a share that runs: it was given in this phase, its     *)
(* parts are whole, and it leaves the reserve.                              *)
ShareInv ==
    /\ phase \in {"queued", "withdraw", "stop"}
    /\ share.limit \in Nat /\ share.asked \in Nat
    /\ share.limit % Ms = 0 /\ \A i \in DOMAIN share.parts : share.parts[i] % Ms = 0
    /\ \/ share.asked + share.limit <= kill.total - lock_reserve
       \/ phase = "stop" /\ share.limit = Ms
    /\ phase = "withdraw" => share.parts[2] + share.parts[3] + share.parts[4] <= share.limit
    /\ phase = "stop" => share.parts[2] <= share.limit

KInv ==
    /\ kill \in Kills
    /\ phase \in Phases
    /\ elapsed \in Nat
    /\ share # NoShare => ShareInv
    /\ kill.now => kill.incomplete \subseteq {"Teardown"}

LEMMA Reserves ==
    ASSUME kill \in Kills, elapsed \in Nat
    PROVE  /\ lock_reserve \in Nat /\ spendable \in Nat
           /\ spendable > 0 => elapsed + spendable = kill.total - lock_reserve
  <1>1. kill.total \in Nat
    BY DEF Kills
  <1>2. /\ Ms \in Nat /\ Ms > 0 /\ MOST_LOCK_RESERVE \in Nat
    BY KillAssumption
  <1>3. kill.total \div 10 \in Nat
    BY <1>1
  <1>4. lock_reserve \in Nat
    BY <1>2, <1>3 DEF lock_reserve, clamp, Most, Least
  <1> QED
    BY <1>1, <1>4 DEF spendable, remaining, saturating_sub, Most

LEMMA WorkloadShare ==
    ASSUME kill \in Kills, elapsed \in Nat, ~kill.now
    PROVE  \E d \in Nat : workload_stop = <<whole_ms(d)>> /\ d <= spendable
  <1>1. kill.total \div 10 \in Nat /\ Ms \in Nat /\ MOST_WORKLOAD_STOP \in Nat
    BY KillAssumption DEF Kills
  <1> DEFINE cap == clamp(kill.total \div 10, Ms, MOST_WORKLOAD_STOP)
  <1>2. cap \in Nat
    BY <1>1 DEF clamp, Most, Least
  <1>3. spendable \in Nat /\ spendable \div 3 \in Nat /\ spendable \div 3 <= spendable
    BY Reserves
  <1> HIDE DEF cap
  <1>4. Least(cap, spendable \div 3) \in Nat /\ Least(cap, spendable \div 3) <= spendable
    BY <1>2, <1>3 DEF Least
  <1>5. workload_stop = <<whole_ms(Least(cap, spendable \div 3))>>
    BY DEF workload_stop, cap
  <1> QED
    BY <1>4, <1>5

LEMMA WithdrawalShare ==
    ASSUME kill \in Kills, elapsed \in Nat
    PROVE  \E d, a, b, c \in Nat :
              /\ withdrawal = <<whole_ms(d), whole_ms(a), whole_ms(b), whole_ms(c)>>
              /\ d <= spendable /\ a + b + c <= d
  <1> DEFINE d == spendable \div 2
             a == d \div 2
             b == d \div 4
             c == d - a - b
  <1>1. spendable \in Nat /\ d \in Nat /\ d <= spendable
    BY Reserves
  <1>2. withdrawal = <<whole_ms(d), whole_ms(a), whole_ms(b), whole_ms(c)>>
    BY DEF withdrawal
  <1> HIDE DEF d
  <1>3. a \in Nat /\ b \in Nat /\ a + b <= d
    BY <1>1
  <1> HIDE DEF a, b
  <1>4. c \in Nat /\ a + b + c <= d
    BY <1>1, <1>3
  <1> QED
    BY <1>1, <1>2, <1>3, <1>4

LEMMA GuestShare ==
    ASSUME kill \in Kills, elapsed \in Nat
    PROVE  \E d, e \in Nat :
              /\ guest_stop = <<whole_ms(d), e>>
              /\ e % Ms = 0 /\ e <= whole_ms(d)
              /\ d <= spendable \/ (d = Ms /\ whole_ms(d) = Ms)
  <1> DEFINE d == Most(spendable, Ms)
             answer == whole_ms(d)
             teardown == Most(Ms, answer \div 4)
             left == Most(saturating_sub(answer, teardown), Ms)
             e == IF kill.now THEN Ms ELSE whole_ms(left)
  <1>1. Ms \in Nat /\ Ms > 0 /\ spendable \in Nat
    BY KillAssumption, Reserves
  <1>2. d \in Nat /\ (d <= spendable \/ d = Ms) /\ Ms <= d
    BY <1>1 DEF Most
  <1>3. guest_stop = <<answer, e>>
    BY DEF guest_stop
  <1> HIDE DEF d
  <1>4. answer \in Nat /\ answer <= d
    BY <1>2, WholeMs
  <1>5. Ms <= answer
    BY <1>1, <1>2, LargestMultiple, 1 * Ms = Ms
  <1> HIDE DEF answer
  <1>6. left \in Nat /\ left <= answer
    <2>1. answer \div 4 \in Nat
      BY <1>4
    <2>2. teardown \in Nat
      BY <1>1, <2>1 DEF Most
    <2> HIDE DEF teardown
    <2> QED
      BY <1>1, <1>4, <1>5, <2>2 DEF Most, saturating_sub
  <1> HIDE DEF left
  <1>7. e \in Nat /\ e <= answer /\ e % Ms = 0
    <2>1. whole_ms(left) \in Nat /\ whole_ms(left) <= left /\ whole_ms(left) % Ms = 0
      BY <1>6, WholeMs
    <2>2. Ms % Ms = 0
      BY <1>1
    <2> QED
      BY <1>1, <1>4, <1>5, <1>6, <2>1, <2>2
  <1> HIDE DEF e
  <1>8. d = Ms => answer = Ms
    BY <1>1, <1>4, <1>5
  <1> QED
    BY <1>2, <1>3, <1>7, <1>8 DEF answer

(* A share that is given in the phase the kill is in.                       *)
LEMMA RunGives ==
    ASSUME KInv, NEW d \in Nat, NEW parts, Run(parts), parts[1] = whole_ms(d),
           phase \in {"queued", "withdraw", "stop"},
           1 \in DOMAIN parts,
           \A i \in DOMAIN parts : parts[i] % Ms = 0,
           d <= spendable \/ (phase = "stop" /\ whole_ms(d) = Ms),
           phase = "withdraw" => parts[2] + parts[3] + parts[4] <= parts[1],
           phase = "stop" => parts[2] <= parts[1]
    PROVE  KInv'
  <1>1. /\ share' = [limit |-> parts[1], parts |-> parts, asked |-> elapsed]
        /\ parts[1] >= Ms /\ UNCHANGED <<kill, phase, elapsed>>
    BY DEF Run
  <1>2. kill \in Kills /\ elapsed \in Nat /\ Ms \in Nat /\ Ms > 0
    BY KillAssumption DEF KInv
  <1>3. lock_reserve' = lock_reserve
    BY <1>1 DEF lock_reserve
  <1>4. whole_ms(d) \in Nat /\ whole_ms(d) <= d /\ lock_reserve \in Nat /\ spendable \in Nat
    BY <1>2, WholeMs, Reserves
  <1>5. kill.total \in Nat
    BY <1>2 DEF Kills
  <1>6. \/ elapsed + parts[1] <= kill.total - lock_reserve
        \/ phase = "stop" /\ parts[1] = Ms
    <2>1. CASE d <= spendable
      <3>1. spendable > 0
        BY <1>1, <1>2, <1>4, <2>1
      <3>2. elapsed + spendable = kill.total - lock_reserve
        BY <1>2, <3>1, Reserves
      <3> QED
        BY <1>2, <1>4, <1>5, <2>1, <3>2
    <2> QED
      BY <2>1
  <1>7. ShareInv'
    BY <1>1, <1>2, <1>3, <1>4, <1>6 DEF ShareInv
  <1> QED
    BY <1>1, <1>7 DEF KInv

(* What the kill lists stays a part of Shortfall, and a now kill only lists *)
(* a teardown.                                                              *)
LEMMA AddedIs ==
    ASSUME KInv, NEW shortfall \in Shortfall, kill' = [kill EXCEPT !.incomplete = added(shortfall)]
    PROVE  kill' \in Kills /\ kill'.total = kill.total
           /\ (kill'.now => kill'.incomplete \subseteq {"Teardown"})
  <1>1. kill \in Kills /\ added(shortfall) \in SUBSET Shortfall
    BY DEF KInv, Kills, added
  <1>2. kill.now => added(shortfall) \subseteq {"Teardown"}
    BY DEF KInv, added
  <1> HIDE DEF KInv
  <1> QED
    BY <1>1, <1>2 DEF Kills

LEMMA KeptIs ==
    ASSUME KInv, kill' = [kill EXCEPT !.incomplete = @]
    PROVE  kill' = kill
  BY DEF KInv, Kills

LEMMA NoShareSettles ==
    ASSUME kill' \in Kills, kill'.now => kill'.incomplete \subseteq {"Teardown"},
           phase' \in Phases, elapsed' \in Nat, share' = NoShare
    PROVE  KInv'
  <1>1. NoShare' = NoShare
    BY DEF NoShare
  <1> QED
    BY <1>1 DEF KInv

LEMMA KillInitial == KillInit => KInv
  <1> SUFFICES ASSUME KillInit PROVE KInv
    OBVIOUS
  <1>1. kill \in Kills /\ kill.incomplete = {}
    BY KillAssumption DEF KillInit, Kills, Shortfall
  <1> QED
    BY <1>1 DEF KillInit, KInv, Phases

LEMMA KillSteps == KInv /\ [KillNext]_killVars => KInv'
  <1> SUFFICES ASSUME KInv, [KillNext]_killVars PROVE KInv'
    OBVIOUS
  <1>0. /\ kill \in Kills /\ phase \in Phases /\ elapsed \in Nat
        /\ kill.now => kill.incomplete \subseteq {"Teardown"}
    BY DEF KInv
  <1>1. CASE Wait
    <2>1. UNCHANGED <<kill, phase, share>> /\ share = NoShare /\ elapsed' \in Nat
      BY <1>0, <1>1 DEF Wait
    <2> QED
      BY <1>0, <2>1, NoShareSettles
  <1>2. CASE WorkloadStopStep
    <2>1. CASE kill.now
      BY <1>0, <1>2, <2>1, NoShareSettles DEF WorkloadStopStep, Phases
    <2>2. CASE ~kill.now /\ Run(workload_stop)
      <3>1. PICK d \in Nat : workload_stop = <<whole_ms(d)>> /\ d <= spendable
        BY <1>0, <2>2, WorkloadShare
      <3>2. whole_ms(d) % Ms = 0
        BY WholeMs
      <3>3. phase = "queued"
        BY <1>2 DEF WorkloadStopStep
      <3>4. workload_stop[1] = whole_ms(d) /\ DOMAIN workload_stop = 1..1
        BY <3>1
      <3>5. \A i \in DOMAIN workload_stop : workload_stop[i] % Ms = 0
        BY <3>1, <3>2
      <3> HIDE DEF KInv
      <3> QED
        BY <2>2, <3>1, <3>3, <3>4, <3>5, RunGives
    <2>3. CASE ~kill.now /\ Escalate(workload_stop, "WorkloadStop")
      <3>1. /\ kill' = [kill EXCEPT !.incomplete = added("WorkloadStop")]
            /\ phase' = "withdraw" /\ elapsed' = elapsed /\ share' = NoShare
        BY <1>2, <2>3 DEF WorkloadStopStep, Escalate, NextStep
      <3>2. "WorkloadStop" \in Shortfall /\ "withdraw" \in Phases
        BY DEF Shortfall, Phases
      <3> QED
        BY <1>0, <3>1, <3>2, AddedIs, NoShareSettles
    <2> QED
      BY <1>2, <2>1, <2>2, <2>3 DEF WorkloadStopStep
  <1>3. CASE WithdrawStep
    <2>1. CASE Run(withdrawal)
      <3>1. PICK d, a, b, c \in Nat :
              /\ withdrawal = <<whole_ms(d), whole_ms(a), whole_ms(b), whole_ms(c)>>
              /\ d <= spendable /\ a + b + c <= d
        BY <1>0, WithdrawalShare
      <3>2. /\ whole_ms(d) % Ms = 0 /\ whole_ms(a) % Ms = 0
            /\ whole_ms(b) % Ms = 0 /\ whole_ms(c) % Ms = 0
        BY WholeMs
      <3>3. whole_ms(a) + whole_ms(b) + whole_ms(c) <= whole_ms(d)
        BY <3>1, PartsFit
      <3>4. phase = "withdraw"
        BY <1>3 DEF WithdrawStep
      <3>5. /\ withdrawal[1] = whole_ms(d) /\ 1 \in DOMAIN withdrawal
            /\ withdrawal[2] + withdrawal[3] + withdrawal[4] <= withdrawal[1]
        BY <3>1, <3>3
      <3>6. \A i \in DOMAIN withdrawal : withdrawal[i] % Ms = 0
        BY <3>1, <3>2
      <3> QED
        BY <2>1, <3>1, <3>4, <3>5, <3>6, RunGives
    <2>2. CASE ~Run(withdrawal)
      BY <1>0, <1>3, <2>2, NoShareSettles DEF WithdrawStep, Phases
    <2> QED
      BY <2>1, <2>2
  <1>4. CASE GuestStopStep
    <2>1. PICK d, e \in Nat :
              /\ guest_stop = <<whole_ms(d), e>>
              /\ e % Ms = 0 /\ e <= whole_ms(d)
              /\ d <= spendable \/ (d = Ms /\ whole_ms(d) = Ms)
      BY <1>0, GuestShare
    <2>2. whole_ms(d) % Ms = 0
      BY WholeMs
    <2>3. phase = "stop" /\ Run(guest_stop)
      BY <1>4 DEF GuestStopStep
    <2>4. guest_stop[1] = whole_ms(d) /\ 1 \in DOMAIN guest_stop /\ guest_stop[2] <= guest_stop[1]
      BY <2>1
    <2>5. \A i \in DOMAIN guest_stop : guest_stop[i] % Ms = 0
      BY <2>1, <2>2
    <2> QED
      BY <2>1, <2>3, <2>4, <2>5, RunGives
  <1>5. CASE StepEnds
    <2>1. phase \in {"queued", "withdraw", "stop"} /\ share.limit \in Nat
      BY <1>5 DEF StepEnds, KInv, ShareInv
    <2>2. phase' \in Phases /\ share' = NoShare
      BY <1>5, <2>1 DEF StepEnds, NextStep, Phases
    <2>3. PICK used \in 0..share.limit, short \in BOOLEAN :
          /\ elapsed' = Least(elapsed + used, MaxElapsed)
          /\ kill' = [kill EXCEPT !.incomplete =
                         IF short /\ phase = "queued" THEN added("WorkloadStop")
                         ELSE IF short /\ phase = "stop" THEN added("Shutdown")
                         ELSE @]
      BY <1>5 DEF StepEnds
    <2>4. elapsed' \in Nat
      BY <1>0, <2>1, <2>3, KillAssumption DEF Least
    <2>5. \/ \E shortfall \in Shortfall : kill' = [kill EXCEPT !.incomplete = added(shortfall)]
          \/ kill' = [kill EXCEPT !.incomplete = @]
      BY <2>3 DEF Shortfall
    <2>6. kill' \in Kills /\ (kill'.now => kill'.incomplete \subseteq {"Teardown"})
      BY <1>0, <2>5, AddedIs, KeptIs
    <2> QED
      BY <2>2, <2>4, <2>6, NoShareSettles
  <1>6. CASE LockStep
    <2>1. /\ phase = "lock" /\ phase' = "answered" /\ UNCHANGED <<elapsed, share>>
          /\ kill' = kill \/ kill' = [kill EXCEPT !.incomplete = added("Teardown")]
      BY <1>6 DEF LockStep
    <2>2. share = NoShare
      BY <2>1 DEF KInv, ShareInv
    <2>3. kill' \in Kills /\ (kill'.now => kill'.incomplete \subseteq {"Teardown"})
      BY <1>0, <2>1, AddedIs DEF Shortfall
    <2>4. "answered" \in Phases
      BY DEF Phases
    <2> QED
      BY <1>0, <2>1, <2>2, <2>3, <2>4, NoShareSettles
  <1>7. CASE UNCHANGED killVars
    <2>1. kill' = kill /\ phase' = phase /\ elapsed' = elapsed /\ share' = share
      BY <1>7 DEF killVars
    <2>2. lock_reserve' = lock_reserve
      BY <2>1 DEF lock_reserve
    <2>3. ShareInv' <=> ShareInv
      BY <2>1, <2>2 DEF ShareInv
    <2> QED
      BY <2>1, <2>3 DEF KInv, NoShare
  <1> QED
    BY <1>1, <1>2, <1>3, <1>4, <1>5, <1>6, <1>7 DEF KillNext

LEMMA KInvImplies == KInv => ReserveIsKept
  <1> SUFFICES ASSUME KInv PROVE ReserveIsKept
    OBVIOUS
  <1>1. kill.total \in Nat /\ LatestInstant \in Nat
    BY KillAssumption DEF KInv, Kills
  <1>2. ASSUME NEW arrival \in 0..LatestInstant
        PROVE  LET most == Least(kill.total, LatestInstant - arrival)
                   span == lock_wait_until(arrival) - arrival
               IN span <= most /\ 2 * span >= most
    <2> DEFINE m == LatestInstant - arrival
               h == halved(kill.total, m)
    <2>1. m \in Nat /\ arrival \in Nat
      BY <1>1
    <2>2. h \in Nat /\ h <= Least(kill.total, m) /\ 2 * h >= Least(kill.total, m)
      BY <1>1, <2>1, HalvedBounds
    <2>3. lock_wait_until(arrival) = arrival + h
      BY DEF lock_wait_until
    <2> HIDE DEF h
    <2>4. lock_wait_until(arrival) - arrival = h
      BY <2>1, <2>2, <2>3
    <2> QED
      BY <2>2, <2>4
  <1> QED
    BY <1>2 DEF ReserveIsKept, KInv, ShareInv

(* Whatever the deadline, the queueing and the clock: the share of every    *)
(* step leaves the lock its reserve (KillBudget::spendable), its parts are  *)
(* whole milliseconds and fit in it, and lock_wait_until covers D or half   *)
(* of what the clock can hold.                                              *)
THEOREM KeptReserve == KillSpec => []ReserveIsKept
  <1>1. KillSpec => []KInv
    BY KillInitial, KillSteps, PTL DEF KillSpec
  <1> QED
    BY <1>1, KInvImplies, PTL

-----------------------------------------------------------------------------
(* The attachment graph.  Both loops of removal_closure grow a set by       *)
(* rounds; in as many rounds as there are plugins they settle, and what     *)
(* each round keeps, the result has.                                        *)

(* The rounds of a loop that starts from S and grows by step.               *)
Rounds(S, loop, n, g) ==
    /\ DOMAIN g = 0..n
    /\ g[0] = S
    /\ \A i \in 1..n : g[i] = loop[g[i - 1]]
Growing(A, loop) ==
    /\ loop \in [SUBSET A -> SUBSET A]
    /\ \A X \in SUBSET A : X \subseteq loop[X]

LEMMA RoundsExist ==
    ASSUME NEW A, NEW S \in SUBSET A, NEW loop, Growing(A, loop)
    PROVE  \A n \in Nat : \E g \in [0..n -> SUBSET A] : Rounds(S, loop, n, g)
<1> DEFINE T == {n \in Nat : ~ \E g \in [0..n -> SUBSET A] : Rounds(S, loop, n, g)}
<1> SUFFICES ASSUME T # {} PROVE FALSE
  OBVIOUS
<1>1. PICK n \in T : \A y \in T : n <= y
  BY LeastNat
<1>2. CASE n = 0
  <2> DEFINE g == [i \in 0..0 |-> S]
  <2>1. g \in [0..0 -> SUBSET A] /\ Rounds(S, loop, 0, g)
    BY DEF Rounds
  <2> QED
    BY <1>1, <1>2, <2>1
<1>3. CASE n > 0
  <2>1. n \in Nat /\ n - 1 \in Nat /\ n - 1 \notin T
    BY <1>1, <1>3
  <2>2. PICK h \in [0..(n - 1) -> SUBSET A] : Rounds(S, loop, n - 1, h)
    BY <2>1
  <2> DEFINE g == [i \in 0..n |-> IF i < n THEN h[i] ELSE loop[h[n - 1]]]
  <2>3. loop \in [SUBSET A -> SUBSET A] /\ n - 1 \in 0..(n - 1)
    BY <2>1 DEF Growing
  <2>4. \A i \in 0..(n - 1) : g[i] = h[i] /\ h[i] \in SUBSET A
    BY <2>1, <2>2
  <2>5. g[n] = loop[h[n - 1]] /\ loop[h[n - 1]] \in SUBSET A
    BY <2>1, <2>2, <2>3
  <2>6. DOMAIN g = 0..n /\ g = [i \in 0..n |-> g[i]]
    OBVIOUS
  <2> HIDE DEF g
  <2>7. \A i \in 0..n : g[i] \in SUBSET A
    <3> TAKE i \in 0..n
    <3>1. i = n \/ i \in 0..(n - 1)
      BY <2>1
    <3> QED
      BY <2>4, <2>5, <3>1
  <2>8. g[0] = S
    BY <2>1, <2>2, <2>4 DEF Rounds
  <2>9. \A i \in 1..n : g[i] = loop[g[i - 1]]
    <3> TAKE i \in 1..n
    <3>1. i - 1 \in 0..(n - 1) /\ (i = n \/ (i \in 0..(n - 1) /\ i \in 1..(n - 1)))
      BY <2>1
    <3> QED
      BY <2>2, <2>4, <2>5, <3>1 DEF Rounds
  <2>10. g \in [0..n -> SUBSET A] /\ Rounds(S, loop, n, g)
    BY <2>6, <2>7, <2>8, <2>9 DEF Rounds
  <2> QED
    BY <1>1, <2>10
<1> QED
  BY <1>1, <1>2, <1>3

(* As many rounds as there are members reach a round that adds nothing.     *)
LEMMA RoundsSettle ==
    ASSUME NEW A, IsFiniteSet(A), NEW S \in SUBSET A, NEW loop, Growing(A, loop),
           NEW g \in [0..Cardinality(A) -> SUBSET A], Rounds(S, loop, Cardinality(A), g)
    PROVE  loop[g[Cardinality(A)]] = g[Cardinality(A)]
<1> DEFINE N == Cardinality(A)
<1>1. N \in Nat
  BY FS_CardinalityType
<1>2. \A X \in SUBSET A : IsFiniteSet(X) /\ Cardinality(X) \in Nat /\ Cardinality(X) <= N
                          /\ (Cardinality(X) = N => X = A)
  BY FS_Subset, FS_CardinalityType
<1>3. \A i \in 0..N : g[i] \in SUBSET A
  OBVIOUS
<1>4. \A i \in 1..N : g[i] = loop[g[i - 1]]
  BY DEF Rounds
<1>5. loop \in [SUBSET A -> SUBSET A] /\ \A X \in SUBSET A : X \subseteq loop[X]
  BY DEF Growing
<1> HIDE DEF N
<1> SUFFICES ASSUME loop[g[N]] # g[N] PROVE FALSE
  BY DEF N
(* No round before settled either.                                          *)
<1>6. \A i \in 0..N : loop[g[i]] # g[i]
  <2> DEFINE T == {k \in 0..N : loop[g[N - k]] = g[N - k]}
  <2> SUFFICES ASSUME NEW i \in 0..N, loop[g[i]] = g[i] PROVE FALSE
    OBVIOUS
  <2>1. N - i \in T
    <3>1. N - (N - i) = i /\ N - i \in 0..N
      BY <1>1
    <3> QED
      BY <3>1
  <2>2. T \subseteq Nat
    BY <1>1
  <2>3. PICK k \in T : \A y \in T : k <= y
    BY <2>1, <2>2, LeastNat
  <2>4. k \in 0..N /\ loop[g[N - k]] = g[N - k]
    OBVIOUS
  <2>5. k # 0
    BY <1>1, <2>4
  <2>6. k - 1 \in 0..N /\ N - (k - 1) = N - k + 1 /\ N - k + 1 \in 1..N /\ N - k + 1 - 1 = N - k
    BY <1>1, <2>4, <2>5
  <2>7. g[N - k + 1] = g[N - k]
    <3> DEFINE j == N - k + 1
    <3>1. j \in 1..N /\ j - 1 = N - k
      BY <1>1, <2>4, <2>5
    <3> HIDE DEF j
    <3>2. g[j] = loop[g[j - 1]]
      BY <1>4, <3>1
    <3>3. g[j] = g[N - k]
      BY <2>4, <3>1, <3>2
    <3> QED
      BY <3>3 DEF j
  <2>8. k - 1 \in T
    BY <2>4, <2>6, <2>7
  <2> QED
    BY <2>3, <2>4, <2>8
(* So each added a member.                                                  *)
<1>7. \A i \in 0..N : Cardinality(g[i]) >= i
  <2> DEFINE T == {i \in 0..N : ~(Cardinality(g[i]) >= i)}
  <2> SUFFICES ASSUME T # {} PROVE FALSE
    OBVIOUS
  <2>1. T \subseteq Nat
    BY <1>1
  <2>2. PICK i \in T : \A y \in T : i <= y
    BY <2>1, LeastNat
  <2>3. i \in 0..N /\ ~(Cardinality(g[i]) >= i) /\ Cardinality(g[i]) \in Nat
    BY <1>2, <1>3
  <2>4. i - 1 \in 0..N /\ i \in 1..N
    BY <1>1, <2>3
  <2>5. i - 1 \notin T
    BY <2>2, <2>3, <2>4
  <2>6. Cardinality(g[i - 1]) >= i - 1
    BY <2>4, <2>5
  <2>7. g[i] = loop[g[i - 1]] /\ g[i - 1] \subseteq g[i] /\ g[i] # g[i - 1]
    BY <1>3, <1>4, <1>5, <1>6, <2>4
  <2>8. g[i - 1] \in SUBSET g[i] /\ IsFiniteSet(g[i])
    BY <1>2, <1>3, <2>3, <2>7
  <2>9. Cardinality(g[i - 1]) <= Cardinality(g[i]) /\ Cardinality(g[i]) # Cardinality(g[i - 1])
    BY <2>7, <2>8, FS_Subset
  <2>10. Cardinality(g[i - 1]) \in Nat
    BY <1>2, <1>3, <2>4
  <2> QED
    BY <2>3, <2>6, <2>9, <2>10
<1>8. g[N] = A
  <2>1. N \in 0..N
    BY <1>1
  <2>2. Cardinality(g[N]) >= N /\ Cardinality(g[N]) <= N /\ Cardinality(g[N]) \in Nat
    BY <1>2, <1>3, <1>7, <2>1
  <2> QED
    BY <1>1, <1>2, <1>3, <2>1, <2>2
<1>9. loop[A] = A
  BY <1>5, A \in SUBSET A
<1> QED
  BY <1>8, <1>9

(* What holds of the start and is kept by a round holds of every round.     *)
LEMMA RoundsKeep ==
    ASSUME NEW A, NEW S \in SUBSET A, NEW loop, NEW n \in Nat,
           NEW g \in [0..n -> SUBSET A], Rounds(S, loop, n, g),
           NEW P, S \in P, \A X \in SUBSET A : X \in P => loop[X] \in P
    PROVE  \A i \in 0..n : g[i] \in P
<1> DEFINE T == {i \in 0..n : g[i] \notin P}
<1> SUFFICES ASSUME T # {} PROVE FALSE
  OBVIOUS
<1>1. PICK i \in T : \A y \in T : i <= y
  <2>1. T \subseteq Nat
    OBVIOUS
  <2> QED
    BY <2>1, LeastNat
<1>2. i \in 0..n /\ g[i] \notin P
  OBVIOUS
<1>3. i # 0
  BY <1>2 DEF Rounds
<1>4. i - 1 \in 0..n /\ i \in 1..n
  BY <1>2, <1>3
<1>5. i - 1 \notin T
  BY <1>1, <1>2, <1>4
<1>6. g[i - 1] \in P /\ g[i] = loop[g[i - 1]] /\ g[i - 1] \in SUBSET A
  BY <1>4, <1>5 DEF Rounds
<1> QED
  BY <1>2, <1>6

(* The rounds are determined by their equations.                            *)
Follows(A, S, loop, n, v) ==
    /\ v[0] = S
    /\ \A i \in 1..n : v[i - 1] \in SUBSET A => v[i] = loop[v[i - 1]]

Agree(v, g, i) == v[i] = g[i]

LEMMA RoundsUnique ==
    ASSUME NEW A, NEW S \in SUBSET A, NEW loop, NEW n \in Nat,
           NEW g \in [0..n -> SUBSET A], Rounds(S, loop, n, g),
           NEW v, Follows(A, S, loop, n, v)
    PROVE  \A i \in 0..n : Agree(v, g, i)
<1> DEFINE T == {i \in 0..n : v[i] # g[i]}
<1> SUFFICES ASSUME T # {} PROVE FALSE
  BY DEF Agree
<1>1. PICK i \in T : \A y \in T : i <= y
  <2>1. T \subseteq Nat
    OBVIOUS
  <2> QED
    BY <2>1, LeastNat
<1>2. i \in 0..n /\ v[i] # g[i]
  OBVIOUS
<1>3. i # 0
  BY <1>2 DEF Rounds, Follows
<1>4. i - 1 \in 0..n /\ i \in 1..n
  BY <1>2, <1>3
<1>5. i - 1 \notin T
  BY <1>1, <1>2, <1>4
<1>6. v[i - 1] = g[i - 1] /\ g[i] = loop[g[i - 1]] /\ g[i - 1] \in SUBSET A
  BY <1>4, <1>5 DEF Rounds
<1>7. v[i] = loop[v[i - 1]]
  BY <1>4, <1>6 DEF Follows
<1> QED
  BY <1>2, <1>6, <1>7

GInv ==
    /\ providers = [p \in Attached |-> providers[p]]
    /\ Attached \subseteq Plugins
    /\ \A p \in Attached : providers[p] \subseteq Attached
    /\ named \subseteq Attached

LEMMA GraphInvariant == GraphSpec => []GInv
<1>1. GraphInit => GInv
  BY DEF GraphInit, GInv, Attached
<1>2. GInv /\ [GraphNext]_graphVars => GInv'
  <2> SUFFICES ASSUME GInv, [GraphNext]_graphVars PROVE GInv'
    OBVIOUS
  <2>1. CASE GraphNext
    <3>1. PICK plugin \in Plugins, required \in SUBSET Attached, by_name \in BOOLEAN :
             attach(plugin, required, by_name)
      BY <2>1 DEF GraphNext
    <3>2. providers' = [p \in Attached \cup {plugin} |-> IF p = plugin THEN required ELSE providers[p]]
      BY <3>1 DEF attach
    <3>3. Attached' = Attached \cup {plugin}
      BY <3>2 DEF Attached
    <3>4. named' \subseteq named \cup {plugin}
      BY <3>1 DEF attach
    <3>5. \A p \in Attached' : providers'[p] \subseteq Attached'
      BY <3>1, <3>2, <3>3 DEF GInv
    <3>6. providers' = [p \in Attached' |-> providers'[p]]
      BY <3>2, <3>3
    <3> QED
      BY <3>1, <3>3, <3>4, <3>5, <3>6 DEF GInv
  <2>2. CASE UNCHANGED graphVars
    BY <2>2 DEF graphVars, GInv, Attached
  <2> QED
    BY <2>1, <2>2
<1> QED
  BY <1>1, <1>2, PTL DEF GraphSpec

(* The first loop's round, and the second's.                                *)
Visit == [X \in SUBSET Attached |-> X \cup UNION {requirers(p) : p \in X}]
TakeOrphans == [X \in SUBSET Attached |-> X \cup orphans(X)]

LEMMA VisitGrows == Growing(Attached, Visit)
<1>1. \A p : requirers(p) \subseteq Attached
  BY DEF requirers
<1>2. \A X \in SUBSET Attached : X \cup UNION {requirers(p) : p \in X} \in SUBSET Attached
  BY <1>1
<1> QED
  BY <1>2 DEF Growing, Visit

LEMMA OrphansGrow ==
    ASSUME GInv
    PROVE  Growing(Attached, TakeOrphans)
<1>1. \A X \in SUBSET Attached : orphans(X) \subseteq Attached
  BY DEF orphans, GInv
<1> QED
  BY <1>1 DEF Growing, TakeOrphans

(* requiring(root) is the last round of Visit from {root}.                  *)
LEMMA RequiringIs ==
    ASSUME GInv, NEW removed \in Attached, NEW N \in Nat, N = Cardinality(Attached)
    PROVE  \E g \in [0..N -> SUBSET Attached] : Rounds({removed}, Visit, N, g) /\ requiring(removed) = g[N]
<1>1. PICK g \in [0..N -> SUBSET Attached] : Rounds({removed}, Visit, N, g)
  <2>1. {removed} \in SUBSET Attached
    OBVIOUS
  <2> QED
    BY <2>1, VisitGrows, RoundsExist
<1>2. g = [n \in 0..N |-> IF n = 0 THEN {removed} ELSE g[n - 1] \cup UNION {requirers(p) : p \in g[n - 1]}]
  <2>1. \A n \in 0..N : g[n] = IF n = 0 THEN {removed} ELSE g[n - 1] \cup UNION {requirers(p) : p \in g[n - 1]}
    <3> TAKE n \in 0..N
    <3>1. CASE n = 0
      BY <1>1, <3>1 DEF Rounds
    <3>2. CASE n # 0
      <4>1. n \in 1..N /\ n - 1 \in 0..N
        BY <3>2
      <4>2. g[n] = Visit[g[n - 1]] /\ g[n - 1] \in SUBSET Attached
        BY <1>1, <4>1 DEF Rounds
      <4> QED
        BY <3>2, <4>2 DEF Visit
    <3> QED
      BY <3>1, <3>2
  <2> QED
    BY <2>1
<1>3. PICK v : /\ v = [n \in 0..N |-> IF n = 0 THEN {removed}
                                      ELSE v[n - 1] \cup UNION {requirers(p) : p \in v[n - 1]}]
               /\ requiring(removed) = v[N]
  <2> DEFINE w == CHOOSE v : v = [n \in 0..N |-> IF n = 0 THEN {removed}
                                                ELSE v[n - 1] \cup UNION {requirers(p) : p \in v[n - 1]}]
  <2>1. \E h : h = [n \in 0..N |-> IF n = 0 THEN {removed} ELSE h[n - 1] \cup UNION {requirers(p) : p \in h[n - 1]}]
    BY <1>2
  <2>2. w = [n \in 0..N |-> IF n = 0 THEN {removed} ELSE w[n - 1] \cup UNION {requirers(p) : p \in w[n - 1]}]
    BY <2>1
  <2>3. requiring(removed) = w[N]
    BY DEF requiring
  <2> HIDE DEF w
  <2> QED
    BY <2>2, <2>3
<1>5. v[0] = {removed}
  BY <1>3
<1>6. \A i \in 1..N : v[i - 1] \in SUBSET Attached => v[i] = Visit[v[i - 1]]
  <2> SUFFICES ASSUME NEW i \in 1..N, v[i - 1] \in SUBSET Attached PROVE v[i] = Visit[v[i - 1]]
    OBVIOUS
  <2>1. i \in 0..N /\ i # 0
    OBVIOUS
  <2>2. v[i] = v[i - 1] \cup UNION {requirers(p) : p \in v[i - 1]}
    BY <1>3, <2>1
  <2> QED
    BY <2>2 DEF Visit
<1>7. \A i \in 0..N : Agree(v, g, i)
  <2>1. Follows(Attached, {removed}, Visit, N, v)
    BY <1>5, <1>6 DEF Follows
  <2>2. {removed} \in SUBSET Attached
    OBVIOUS
  <2> QED
    BY <1>1, <2>1, <2>2, RoundsUnique
<1>8. v[N] = g[N]
  BY <1>7 DEF Agree
<1> QED
  BY <1>1, <1>3, <1>8

LEMMA ClosureIs ==
    ASSUME GInv, NEW removed \in Attached, NEW N \in Nat, N = Cardinality(Attached),
           requiring(removed) \in SUBSET Attached
    PROVE  \E g \in [0..N -> SUBSET Attached] :
              Rounds(requiring(removed), TakeOrphans, N, g) /\ removal_closure(removed) = g[N]
<1>1. PICK g \in [0..N -> SUBSET Attached] : Rounds(requiring(removed), TakeOrphans, N, g)
  BY OrphansGrow, RoundsExist
<1>2. g = [n \in 0..N |-> IF n = 0 THEN requiring(removed) ELSE g[n - 1] \cup orphans(g[n - 1])]
  <2>1. \A n \in 0..N : g[n] = IF n = 0 THEN requiring(removed) ELSE g[n - 1] \cup orphans(g[n - 1])
    <3> TAKE n \in 0..N
    <3>1. CASE n = 0
      BY <1>1, <3>1 DEF Rounds
    <3>2. CASE n # 0
      <4>1. n \in 1..N /\ n - 1 \in 0..N
        BY <3>2
      <4>2. g[n] = TakeOrphans[g[n - 1]] /\ g[n - 1] \in SUBSET Attached
        BY <1>1, <4>1 DEF Rounds
      <4> QED
        BY <3>2, <4>2 DEF TakeOrphans
    <3> QED
      BY <3>1, <3>2
  <2> QED
    BY <2>1
<1>3. PICK v : /\ v = [n \in 0..N |-> IF n = 0 THEN requiring(removed)
                                      ELSE v[n - 1] \cup orphans(v[n - 1])]
               /\ removal_closure(removed) = v[N]
  <2> DEFINE w == CHOOSE v : v = [n \in 0..N |-> IF n = 0 THEN requiring(removed)
                                                ELSE v[n - 1] \cup orphans(v[n - 1])]
  <2>1. \E h : h = [n \in 0..N |-> IF n = 0 THEN requiring(removed) ELSE h[n - 1] \cup orphans(h[n - 1])]
    BY <1>2
  <2>2. w = [n \in 0..N |-> IF n = 0 THEN requiring(removed) ELSE w[n - 1] \cup orphans(w[n - 1])]
    BY <2>1
  <2>3. removal_closure(removed) = w[N]
    BY DEF removal_closure
  <2> HIDE DEF w
  <2> QED
    BY <2>2, <2>3
<1>5. v[0] = requiring(removed)
  BY <1>3
<1>6. \A i \in 1..N : v[i - 1] \in SUBSET Attached => v[i] = TakeOrphans[v[i - 1]]
  <2> SUFFICES ASSUME NEW i \in 1..N, v[i - 1] \in SUBSET Attached PROVE v[i] = TakeOrphans[v[i - 1]]
    OBVIOUS
  <2>1. i \in 0..N /\ i # 0
    OBVIOUS
  <2>2. v[i] = v[i - 1] \cup orphans(v[i - 1])
    BY <1>3, <2>1
  <2> QED
    BY <2>2 DEF TakeOrphans
<1>7. \A i \in 0..N : Agree(v, g, i)
  <2>1. Follows(Attached, requiring(removed), TakeOrphans, N, v)
    BY <1>5, <1>6 DEF Follows
  <2>2. requiring(removed) \in SUBSET Attached
    OBVIOUS
  <2> QED
    BY <1>1, <2>1, <2>2, RoundsUnique
<1>8. v[N] = g[N]
  BY <1>7 DEF Agree
<1> QED
  BY <1>1, <1>3, <1>8

LEMMA LeastRemoval ==
    ASSUME GInv, NEW removed \in Attached
    PROVE  LET taken == removal_closure(removed) IN
           /\ removed \in taken /\ Clean(taken)
           /\ \A other \in SUBSET Attached : removed \in other /\ Clean(other) => taken \subseteq other
           /\ stranded_by(removed) = {} => taken \cap named \subseteq {removed}
<1> DEFINE N == Cardinality(Attached)
           first == requiring(removed)
           taken == removal_closure(removed)
<1>1. IsFiniteSet(Attached) /\ N \in Nat
  BY GraphAssumption, FS_Subset, FS_CardinalityType DEF GInv
<1>2. PICK g \in [0..N -> SUBSET Attached] : Rounds({removed}, Visit, N, g) /\ first = g[N]
  BY <1>1, RequiringIs
<1>3. N \in 0..N /\ {removed} \in SUBSET Attached
  BY <1>1
<1>4. first \in SUBSET Attached
  BY <1>2, <1>3
<1>5. PICK h \in [0..N -> SUBSET Attached] : Rounds(first, TakeOrphans, N, h) /\ taken = h[N]
  BY <1>1, <1>4, ClosureIs
<1>6. taken \in SUBSET Attached
  BY <1>3, <1>5
<1> HIDE DEF first, taken
(* Both loops ended.                                                        *)
<1>7. first \cup UNION {requirers(p) : p \in first} = first
  <2>1. Visit[first] = first
    BY <1>1, <1>2, <1>3, VisitGrows, RoundsSettle
  <2> QED
    BY <1>4, <2>1 DEF Visit
<1>8. taken \cup orphans(taken) = taken
  <2>1. TakeOrphans[taken] = taken
    BY <1>1, <1>4, <1>5, OrphansGrow, RoundsSettle
  <2> QED
    BY <1>6, <2>1 DEF TakeOrphans
(* root is in, and what the first loop took.                                *)
<1>9. removed \in first /\ first \subseteq taken
  <2>1. \A i \in 0..N : g[i] \in {X \in SUBSET Attached : removed \in X}
    <3> DEFINE P == {X \in SUBSET Attached : removed \in X}
    <3>1. {removed} \in P /\ \A X \in SUBSET Attached : X \in P => Visit[X] \in P
      BY VisitGrows DEF Growing
    <3> HIDE DEF P
    <3>2. \A i \in 0..N : g[i] \in P
      BY <1>1, <1>2, <1>3, <3>1, RoundsKeep
    <3> QED
      BY <3>2 DEF P
  <2>2. \A i \in 0..N : h[i] \in {X \in SUBSET Attached : first \subseteq X}
    <3> DEFINE P == {X \in SUBSET Attached : first \subseteq X}
    <3>1. first \in P /\ \A X \in SUBSET Attached : X \in P => TakeOrphans[X] \in P
      BY <1>4, OrphansGrow DEF Growing
    <3> HIDE DEF P
    <3>2. \A i \in 0..N : h[i] \in P
      BY <1>1, <1>4, <1>5, <3>1, RoundsKeep
    <3> QED
      BY <3>2 DEF P
  <2> QED
    BY <1>2, <1>3, <1>5, <2>1, <2>2
(* Every round of the second loop is closed under requirers.                *)
<1>10. \A p \in taken : requirers(p) \subseteq taken
  <2> DEFINE P == {X \in SUBSET Attached : \A p \in X : requirers(p) \subseteq X}
  <2>1. first \in P
    BY <1>4, <1>7
  <2>2. \A X \in SUBSET Attached : X \in P => TakeOrphans[X] \in P
    <3> SUFFICES ASSUME NEW X \in SUBSET Attached, X \in P PROVE TakeOrphans[X] \in P
      OBVIOUS
    <3>1. TakeOrphans[X] = X \cup orphans(X) /\ TakeOrphans[X] \in SUBSET Attached
      BY OrphansGrow DEF TakeOrphans, Growing
    <3>2. \A p \in orphans(X) : requirers(p) \subseteq X
      BY DEF orphans
    <3> QED
      BY <3>1, <3>2
  <2> HIDE DEF P
  <2>3. \A i \in 0..N : h[i] \in P
    BY <1>1, <1>4, <1>5, <2>1, <2>2, RoundsKeep
  <2> QED
    BY <1>3, <1>5, <2>3 DEF P
<1>11. Clean(taken)
  <2>1. \A p \in Attached \ taken : providers[p] \cap taken = {}
    BY <1>10 DEF requirers
  <2>2. ASSUME NEW p \in Attached \ (taken \cup named), NEW member \in taken, p \in providers[member]
        PROVE  \E q \in Attached \ taken : p \in providers[q]
    <3>1. p \notin orphans(taken)
      BY <1>8
    <3>2. ~(requirers(p) \subseteq taken)
      BY <2>2, <3>1 DEF orphans
    <3> QED
      BY <3>2 DEF requirers
  <2> QED
    BY <2>1, <2>2 DEF Clean
<1>12. ASSUME NEW other \in SUBSET Attached, removed \in other, Clean(other)
       PROVE  taken \subseteq other
  <2>1. \A p \in other : requirers(p) \subseteq other
    BY <1>12 DEF Clean, requirers
  <2> DEFINE P == {X \in SUBSET Attached : X \subseteq other}
  <2>6. {removed} \in P
    BY <1>3, <1>12
  <2>7. \A X \in SUBSET Attached : X \in P => Visit[X] \in P
    <3> SUFFICES ASSUME NEW X \in SUBSET Attached, X \in P PROVE Visit[X] \in P
      OBVIOUS
    <3>1. Visit[X] = X \cup UNION {requirers(p) : p \in X} /\ Visit[X] \in SUBSET Attached
      BY VisitGrows DEF Visit, Growing
    <3> QED
      BY <2>1, <3>1
  <2>3. first \in P
    <3> HIDE DEF P
    <3>1. \A i \in 0..N : g[i] \in P
      BY <1>1, <1>2, <1>3, <2>6, <2>7, RoundsKeep
    <3> QED
      BY <1>2, <1>3, <3>1
  <2>4. \A X \in SUBSET Attached : X \in P => TakeOrphans[X] \in P
    <3> SUFFICES ASSUME NEW X \in SUBSET Attached, X \in P PROVE TakeOrphans[X] \in P
      OBVIOUS
    <3>1. TakeOrphans[X] = X \cup orphans(X) /\ TakeOrphans[X] \in SUBSET Attached
      BY OrphansGrow DEF TakeOrphans, Growing
    <3>2. orphans(X) \subseteq other
      <4> SUFFICES ASSUME NEW p \in orphans(X), p \notin other PROVE FALSE
        OBVIOUS
      <4>1. PICK member \in X : p \in providers[member]
        BY DEF orphans
      <4>2. p \in Attached /\ p \notin named /\ requirers(p) \subseteq X
        BY <3>1, <4>1 DEF orphans
      <4>3. PICK q \in Attached \ other : p \in providers[q]
        BY <1>12, <4>1, <4>2 DEF Clean
      <4> QED
        BY <4>2, <4>3 DEF requirers
    <3> QED
      BY <3>1, <3>2
  <2> HIDE DEF P
  <2>5. \A i \in 0..N : h[i] \in P
    BY <1>1, <1>4, <1>5, <2>3, <2>4, RoundsKeep
  <2> QED
    BY <1>3, <1>5, <2>5 DEF P
<1>13. ASSUME stranded_by(removed) = {}
       PROVE  taken \cap named \subseteq {removed}
  <2> DEFINE P == {X \in SUBSET Attached : X \subseteq {removed}}
  <2>1. {removed} \in P /\ \A X \in SUBSET Attached : X \in P => Visit[X] \in P
    <3> SUFFICES ASSUME NEW X \in SUBSET Attached, X \in P PROVE Visit[X] \in P
      OBVIOUS
    <3>1. Visit[X] = X \cup UNION {requirers(p) : p \in X} /\ Visit[X] \in SUBSET Attached
      BY VisitGrows DEF Visit, Growing
    <3> QED
      BY <1>13, <3>1 DEF stranded_by
  <2>2. first \in P
    <3> HIDE DEF P
    <3>1. \A i \in 0..N : g[i] \in P
      BY <1>1, <1>2, <1>3, <2>1, RoundsKeep
    <3> QED
      BY <1>2, <1>3, <3>1
  <2> DEFINE Q == {X \in SUBSET Attached : X \cap named \subseteq {removed}}
  <2>3. first \in Q
    BY <2>2
  <2>4. \A X \in SUBSET Attached : X \in Q => TakeOrphans[X] \in Q
    <3> SUFFICES ASSUME NEW X \in SUBSET Attached, X \in Q PROVE TakeOrphans[X] \in Q
      OBVIOUS
    <3>1. TakeOrphans[X] = X \cup orphans(X) /\ TakeOrphans[X] \in SUBSET Attached
      BY OrphansGrow DEF TakeOrphans, Growing
    <3>2. orphans(X) \cap named = {}
      BY DEF orphans
    <3> QED
      BY <3>1, <3>2
  <2> HIDE DEF Q
  <2>5. \A i \in 0..N : h[i] \in Q
    BY <1>1, <1>4, <1>5, <2>3, <2>4, RoundsKeep
  <2> QED
    BY <1>3, <1>5, <2>5 DEF Q
<1> QED
  BY <1>9, <1>11, <1>12, <1>13 DEF taken

(* In every graph that AttachmentGraph::attach can build, of any finite     *)
(* number of plugins, removal_closure takes exactly the least set that      *)
(* leaves a clean graph, and a removal that stranded_by allows takes no     *)
(* other plugin that was asked for by name.                                 *)
THEOREM LeastRemovals == GraphSpec => []RemovalIsLeast
<1>1. GInv => RemovalIsLeast
  BY LeastRemoval DEF RemovalIsLeast
<1> QED
  BY <1>1, GraphInvariant, PTL

-----------------------------------------------------------------------------
(* Trusted files.  The walk's checks are of different moments, so each needs *)
(* to know that what it saw cannot have changed: of a directory that only   *)
(* root or the user can write, the one name stays what it was but for the   *)
(* owner's update, and a file of the user's that nobody else can write      *)
(* keeps its bytes.  While nobody interferes every fact is the tree's own.  *)

Bytes == {"none", "old", "huge", "theirs", "new"}
Inodes == [kind : {"Directory", "Regular", "Other", "Symlink"}, uid : {Euid, Root, Other},
           writable : BOOLEAN, bytes : Bytes]
Verdicts == [refused : {"ancestor", "path", "parent", "not_regular", "owner", "links", "mode", "size"}]
                \cup [bytes : Bytes]

TrustTypeOK ==
    /\ node \in [Nodes -> Inodes]
    /\ child \in [Directories -> Nodes \cup {Absent}]
    /\ walk \in [step : {"start", "top", "opened", "holder", "file", "judged", "checked", "done"},
                 fd : Nodes, facts : Inodes \cup {Absent}, holder : Inodes \cup {Absent}, result : Verdicts \cup {Absent}]

(* What no one can change.                                                  *)
TreeInv ==
    /\ node[Slash].kind = "Directory" /\ node[Slash].uid = Root
    /\ node[D].kind = "Directory" /\ node[Link].kind = "Symlink"
    /\ node[F].kind \in {"Regular", "Other"} /\ node[F].bytes \in {"old", "huge", "theirs"}
    /\ node[New] = Inode("Regular", Euid, FALSE, "new")
    /\ ~node[Slash].writable => child[Slash] \in {D, F, Link, Absent}

(* The path leads to D, past directories that others cannot write.          *)
SafeTop == ~node[Slash].writable /\ child[Slash] = D
SafePath == SafeTop /\ node[D].uid \in {Root, Euid} /\ ~node[D].writable

(* Its file is the first one or the owner's new one.                        *)
Genuine(found) ==
    /\ found \in {F, New}
    /\ found = F /\ node[F].uid = Euid /\ ~node[F].writable => node[F].bytes \in versions
    /\ found = New => "new" \in versions

VersionInv == SafePath => child[D] \in {Link, Absent} \/ Genuine(child[D])

WalkInv ==
    /\ walk.step \in {"start", "top"} => walk.fd = Slash
    /\ walk.step = "top" => walk.facts = node[Slash]
    /\ walk.step \in {"opened", "holder"} => SafeTop /\ walk.fd = D
    /\ walk.step = "holder" =>
          /\ walk.facts \in Inodes
          /\ walk.facts.uid \in {Root, Euid} => walk.facts = node[D]
    /\ walk.step \in {"file", "judged", "checked"} =>
          /\ SafePath /\ walk.holder = node[D] /\ Genuine(walk.fd)
    /\ walk.step \in {"judged", "checked"} =>
          node[D].uid = Euid /\ node[walk.fd].kind = "Regular" /\ node[walk.fd].uid = Euid
    /\ walk.step = "checked" => ~node[walk.fd].writable
    /\ walk.step = "done" =>
          /\ walk.result \in Verdicts
          /\ "bytes" \in DOMAIN walk.result => walk.result.bytes \in versions

(* The rules, of the tree as it is.                                         *)
Meets ==
    /\ ~node[Slash].writable /\ child[Slash] = D /\ ~node[D].writable /\ node[D].uid = Euid
    /\ child[D] # Absent
    /\ node[child[D]] \in {Inode("Regular", Euid, FALSE, b) : b \in {"old", "new", "theirs"}}
    /\ nlink(child[D]) = 1

(* As long as nothing has changed.                                          *)
StartInv ==
    start # Absent =>
        /\ start = [node |-> node, child |-> child]
        /\ walk.step = "holder" => walk.facts = node[D]
        /\ walk.step \in {"file", "judged", "checked"} => walk.fd = child[D]
        /\ walk.step = "checked" => nlink(walk.fd) = 1
        /\ walk.step = "done" => ("bytes" \in DOMAIN walk.result <=> Meets)

TrustInv == TrustTypeOK /\ TreeInv /\ VersionInv /\ WalkInv /\ StartInv

LEMMA TrustNames ==
    /\ Slash # D /\ Slash # E /\ Slash # F /\ Slash # G /\ Slash # New /\ Slash # Link /\ Slash # Absent
    /\ D # E /\ D # F /\ D # G /\ D # New /\ D # Link /\ D # Absent
    /\ E # F /\ E # G /\ E # New /\ E # Link /\ E # Absent
    /\ F # G /\ F # New /\ F # Link /\ F # Absent
    /\ G # New /\ G # Link /\ G # Absent /\ New # Link /\ New # Absent /\ Link # Absent
    /\ Euid # Root /\ Euid # Other /\ Root # Other
<1> DEFINE all == <<Slash, D, E, F, G, New, Link, Absent>>
           users == <<Euid, Root, Other>>
<1>1. (\A i, j \in 1..8 : all[i] = all[j] => i = j) /\ (\A i, j \in 1..3 : users[i] = users[j] => i = j)
  BY TrustAssumption
<1>2. /\ all[1] = Slash /\ all[2] = D /\ all[3] = E /\ all[4] = F /\ all[5] = G /\ all[6] = New /\ all[7] = Link
      /\ all[8] = Absent /\ users[1] = Euid /\ users[2] = Root /\ users[3] = Other
  OBVIOUS
<1> HIDE DEF all, users
<1> QED
  BY <1>1, <1>2

LEMMA TrustSets ==
    /\ Slash \in Directories /\ D \in Directories /\ Slash \in Nodes /\ D \in Nodes
    /\ F \in Nodes /\ New \in Nodes /\ G \in Nodes /\ Link \in Nodes /\ Absent \notin Nodes
    /\ Directories \subseteq Nodes
BY TrustNames DEF Directories, Nodes

(* The steps of the walk change the walk only.                              *)
LEMMA WalkSteps ==
    ASSUME TrustInv, UNCHANGED world, TrustTypeOK', WalkInv', StartInv'
    PROVE  TrustInv'
BY DEF TrustInv, world, TreeInv, VersionInv, SafePath, SafeTop, Genuine


LEMMA MeetsStart ==
    ASSUME TrustInv, start # Absent
    PROVE  Trustworthy(start) <=> Meets
<1>1. start.node = node /\ start.child = child
  BY DEF TrustInv, StartInv
<1>2. start.child[Slash] = D => Named(start) = child[D]
  BY <1>1 DEF Named
<1>3. node[Slash].uid \in {Root, Euid}
  BY DEF TrustInv, TreeInv
<1>4. nlink(child[D]) = Cardinality({at \in Directories : start.child[at] = child[D]})
  BY <1>1 DEF nlink
<1> QED
  BY <1>1, <1>2, <1>3, <1>4 DEF Trustworthy, Meets

(* A refusal is right when nothing has changed and the rules are not met.   *)
LEMMA RefuseKeeps ==
    ASSUME TrustInv, UNCHANGED world,
           NEW check \in {"ancestor", "path", "parent", "not_regular", "owner", "links", "mode", "size"},
           Refuse(check), start # Absent => ~Meets
    PROVE  TrustInv'
<1>1. [refused |-> check] \in Verdicts /\ "bytes" \notin DOMAIN [refused |-> check]
  BY DEF Verdicts
<1>2. /\ walk'.step = "done" /\ walk'.result = [refused |-> check]
      /\ TrustTypeOK'
  BY <1>1 DEF TrustInv, TrustTypeOK, Refuse, world
<1>3. WalkInv'
  BY <1>1, <1>2 DEF WalkInv
<1>4. Meets' <=> Meets
  BY DEF Meets, world, nlink
<1>5. StartInv'
  BY <1>1, <1>2, <1>4 DEF StartInv, TrustInv, world
<1> QED
  BY <1>2, <1>3, <1>5, WalkSteps

LEMMA StatKeeps ==
    ASSUME TrustInv, StatDirectory
    PROVE  TrustInv'
<1>1. walk.fd \in Nodes /\ node[walk.fd] \in Inodes
  BY DEF TrustInv, TrustTypeOK
<1>2. /\ walk.step = "start" => walk'.step = "top"
      /\ walk.step = "opened" => walk'.step = "holder"
      /\ walk'.facts = node[walk.fd] /\ walk'.fd = walk.fd /\ UNCHANGED world
      /\ walk.step \in {"start", "opened"}
  BY DEF StatDirectory, stat_fd, TrustInv, TrustTypeOK
<1>3. TrustTypeOK'
  BY <1>1 DEF StatDirectory, stat_fd, TrustInv, TrustTypeOK, world
<1>4. WalkInv'
  BY <1>1, <1>2 DEF WalkInv, TrustInv, world, SafeTop
<1>5. StartInv'
  BY <1>2 DEF StartInv, WalkInv, TrustInv, world
<1> QED
  BY <1>2, <1>3, <1>4, <1>5, WalkSteps

LEMMA OpenChildKeeps ==
    ASSUME TrustInv, PassAndOpenChild
    PROVE  TrustInv'
<1> DEFINE next == child[Slash]
<1>1. walk.step = "top" /\ walk.facts = node[Slash] /\ UNCHANGED world
  BY DEF TrustInv, WalkInv, PassAndOpenChild
<1>2. node[Slash].uid = Root /\ node[Slash].kind = "Directory" /\ node[D].kind = "Directory"
  BY DEF TrustInv, TreeInv
<1>3. CASE ~judge_ancestor(walk.facts)
  <2>1. Refuse("ancestor")
    BY <1>3 DEF PassAndOpenChild
  <2>2. ~Meets
    BY <1>1, <1>2, <1>3 DEF judge_ancestor, Meets
  <2> QED
    BY <1>1, <2>1, <2>2, RefuseKeeps
<1>4. CASE judge_ancestor(walk.facts) /\ Kind(next) # "Directory"
  <2>1. Refuse("path") \/ Refuse("ancestor")
    BY <1>4 DEF PassAndOpenChild
  <2>2. ~Meets
    BY <1>2, <1>4, TrustNames DEF Kind, Meets
  <2> QED
    BY <1>1, <2>1, <2>2, RefuseKeeps
<1>5. CASE judge_ancestor(walk.facts) /\ Kind(next) = "Directory"
  <2>1. ~node[Slash].writable /\ next = D
    BY <1>1, <1>5, TrustNames DEF judge_ancestor, Kind, TrustInv, TreeInv
  <2>2. walk' = [walk EXCEPT !.step = "opened", !.fd = D]
    BY <1>5, <2>1 DEF PassAndOpenChild
  <2>3. TrustTypeOK' /\ walk'.step = "opened" /\ walk'.fd = D
    BY <1>1, <2>2, TrustSets DEF TrustInv, TrustTypeOK, world
  <2>4. WalkInv'
    BY <1>1, <2>1, <2>3 DEF WalkInv, world, SafeTop
  <2>5. StartInv'
    BY <1>1, <2>3 DEF StartInv, TrustInv, world
  <2> QED
    BY <1>1, <2>3, <2>4, <2>5, WalkSteps
<1> QED
  BY <1>3, <1>4, <1>5

LEMMA OpenFileKeeps ==
    ASSUME TrustInv, PassAndOpenFile
    PROVE  TrustInv'
<1> DEFINE next == child[D]
<1>1. walk.step = "holder" /\ walk.fd = D /\ SafeTop /\ UNCHANGED world
  BY DEF TrustInv, WalkInv, PassAndOpenFile
<1>2. start # Absent => walk.facts = node[D]
  BY <1>1 DEF TrustInv, StartInv
<1>3. node[Link].kind = "Symlink" /\ node[D].kind = "Directory"
  BY DEF TrustInv, TreeInv
<1>4. CASE ~judge_ancestor(walk.facts)
  <2>1. Refuse("ancestor")
    BY <1>4 DEF PassAndOpenFile
  <2>2. start # Absent => ~Meets
    BY <1>2, <1>3, <1>4 DEF judge_ancestor, Meets
  <2> QED
    BY <1>1, <2>1, <2>2, RefuseKeeps
<1>5. CASE judge_ancestor(walk.facts) /\ Kind(next) \in {"Missing", "Symlink"}
  <2>1. Refuse("path")
    BY <1>1, <1>5 DEF PassAndOpenFile
  <2>2. ~Meets
    BY <1>5 DEF Kind, Meets, Inode
  <2> QED
    BY <1>1, <2>1, <2>2, RefuseKeeps
<1>6. CASE judge_ancestor(walk.facts) /\ Kind(next) \notin {"Missing", "Symlink"}
  <2>1. walk.facts = node[D] /\ walk.facts \in Inodes
    BY <1>1, <1>6 DEF judge_ancestor, TrustInv, WalkInv
  <2>2. SafePath
    BY <1>1, <1>6, <2>1 DEF SafePath, judge_ancestor
  <2>3. next \notin {Link, Absent}
    BY <1>3, <1>6 DEF Kind
  <2>4. Genuine(next)
    BY <2>2, <2>3 DEF TrustInv, VersionInv
  <2>5. next \in Nodes
    BY <2>4, TrustSets DEF Genuine
  <2>6. walk' = [walk EXCEPT !.step = "file", !.fd = next, !.holder = walk.facts]
    BY <1>1, <1>6 DEF PassAndOpenFile
  <2>7. TrustTypeOK' /\ walk'.step = "file" /\ walk'.fd = next /\ walk'.holder = node[D]
    BY <1>1, <2>1, <2>5, <2>6 DEF TrustInv, TrustTypeOK, world
  <2>8. WalkInv'
    BY <1>1, <2>2, <2>4, <2>7 DEF WalkInv, world, SafePath, SafeTop, Genuine
  <2>9. StartInv'
    BY <1>1, <2>7 DEF StartInv, TrustInv, world
  <2> QED
    BY <1>1, <2>7, <2>8, <2>9, WalkSteps
<1> QED
  BY <1>4, <1>5, <1>6

LEMMA JudgeKeeps ==
    ASSUME TrustInv, JudgeFile
    PROVE  TrustInv'
<1> DEFINE facts == stat_fd(walk.fd)
<1>1. /\ walk.step = "file" /\ UNCHANGED world
      /\ SafePath /\ walk.holder = node[D] /\ Genuine(walk.fd)
  BY DEF TrustInv, WalkInv, JudgeFile
<1>2. start # Absent => walk.fd = child[D]
  BY <1>1 DEF TrustInv, StartInv
<1>3. CASE walk.holder.uid # Euid \/ facts.kind # "Regular" \/ facts.uid # Euid
  <2>1. Refuse("parent") \/ Refuse("not_regular") \/ Refuse("owner")
    BY <1>3 DEF JudgeFile
  <2>2. start # Absent => ~Meets
    BY <1>1, <1>2, <1>3 DEF stat_fd, Meets, Inode
  <2> QED
    BY <1>1, <2>1, <2>2, RefuseKeeps
<1>4. CASE walk.holder.uid = Euid /\ facts.kind = "Regular" /\ facts.uid = Euid
  <2>1. walk' = [walk EXCEPT !.step = "judged"]
    BY <1>4 DEF JudgeFile
  <2>2. TrustTypeOK' /\ walk'.step = "judged" /\ walk'.fd = walk.fd /\ walk'.holder = walk.holder
    BY <1>1, <2>1 DEF TrustInv, TrustTypeOK, world
  <2>3. WalkInv'
    BY <1>1, <1>4, <2>2 DEF WalkInv, world, SafePath, SafeTop, Genuine, stat_fd
  <2>4. StartInv'
    BY <1>1, <1>2, <2>2 DEF StartInv, TrustInv, world
  <2> QED
    BY <1>1, <2>2, <2>3, <2>4, WalkSteps
<1> QED
  BY <1>3, <1>4

LEMMA CheckKeeps ==
    ASSUME TrustInv, CheckFile
    PROVE  TrustInv'
<1> DEFINE says == read_checked(stat_fd(walk.fd), nlink(walk.fd))
<1>1. /\ walk.step = "judged" /\ UNCHANGED world
      /\ SafePath /\ walk.holder = node[D] /\ Genuine(walk.fd)
      /\ node[D].uid = Euid /\ node[walk.fd].kind = "Regular" /\ node[walk.fd].uid = Euid
  BY DEF TrustInv, WalkInv, CheckFile
<1>2. start # Absent => walk.fd = child[D]
  BY <1>1 DEF TrustInv, StartInv
<1>3. says \in {"links", "mode", "ok"}
  BY DEF read_checked
<1>4. CASE says # "ok"
  <2>1. Refuse(says)
    BY <1>4 DEF CheckFile
  <2>2. nlink(walk.fd) # 1 \/ node[walk.fd].writable
    BY <1>4 DEF read_checked, stat_fd
  <2>3. start # Absent => ~Meets
    BY <1>2, <2>2 DEF Meets, Inode
  <2> QED
    BY <1>1, <1>3, <1>4, <2>1, <2>3, RefuseKeeps
<1>5. CASE says = "ok"
  <2>1. nlink(walk.fd) = 1 /\ ~node[walk.fd].writable
    BY <1>5 DEF read_checked, stat_fd
  <2>2. walk' = [walk EXCEPT !.step = "checked"]
    BY <1>5 DEF CheckFile
  <2>3. TrustTypeOK' /\ walk'.step = "checked" /\ walk'.fd = walk.fd /\ walk'.holder = walk.holder
    BY <1>1, <2>2 DEF TrustInv, TrustTypeOK, world
  <2>4. WalkInv'
    BY <1>1, <2>1, <2>3 DEF WalkInv, world, SafePath, SafeTop, Genuine
  <2>5. nlink(walk.fd)' = 1
    BY <1>1, <2>1, <2>3 DEF nlink, world
  <2>6. StartInv'
    BY <1>1, <1>2, <2>3, <2>5 DEF StartInv, TrustInv, world
  <2> QED
    BY <1>1, <2>3, <2>4, <2>6, WalkSteps
<1> QED
  BY <1>4, <1>5

LEMMA ReadKeeps ==
    ASSUME TrustInv, ReadFile
    PROVE  TrustInv'
<1> DEFINE found == walk.fd
           bytes == node[found].bytes
<1>1. /\ walk.step = "checked" /\ UNCHANGED world
      /\ SafePath /\ Genuine(found)
      /\ node[D].uid = Euid /\ node[found].kind = "Regular" /\ node[found].uid = Euid /\ ~node[found].writable
  BY DEF TrustInv, WalkInv, ReadFile
<1>2. start # Absent => found = child[D] /\ nlink(found) = 1
  BY <1>1 DEF TrustInv, StartInv
<1>3. found \in {F, New} /\ node[found] \in Inodes /\ found # Absent
  BY <1>1, TrustSets, TrustNames DEF Genuine, TrustInv, TrustTypeOK
<1>4. bytes \in versions /\ bytes \in {"old", "huge", "theirs", "new"}
  BY <1>1, <1>3 DEF Genuine, TrustInv, TreeInv, Inode
<1>5. CASE bytes = "huge"
  <2>1. Refuse("size")
    BY <1>5 DEF ReadFile
  <2>2. start # Absent => ~Meets
    BY <1>2, <1>5 DEF Meets, Inode
  <2> QED
    BY <1>1, <2>1, <2>2, RefuseKeeps
<1>6. CASE bytes # "huge"
  <2>1. walk' = [walk EXCEPT !.step = "done", !.result = [bytes |-> bytes]]
    BY <1>6 DEF ReadFile
  <2>2. [bytes |-> bytes] \in Verdicts /\ "bytes" \in DOMAIN [bytes |-> bytes] /\ [bytes |-> bytes].bytes = bytes
    BY <1>4 DEF Verdicts, Bytes
  <2>3. TrustTypeOK' /\ walk'.step = "done" /\ walk'.result = [bytes |-> bytes]
    BY <1>1, <2>1, <2>2 DEF TrustInv, TrustTypeOK, world
  <2>4. WalkInv'
    BY <1>1, <1>4, <2>2, <2>3 DEF WalkInv, world
  <2>5. node[found] = Inode("Regular", Euid, FALSE, bytes)
    BY <1>1, <1>3 DEF Inodes, Inode
  <2>6. start # Absent => Meets
    BY <1>1, <1>2, <1>3, <1>4, <1>6, <2>5 DEF Meets, SafePath, SafeTop
  <2>7. Meets' <=> Meets
    BY <1>1 DEF Meets, world, nlink
  <2>8. StartInv'
    BY <1>1, <2>2, <2>3, <2>6, <2>7 DEF StartInv, TrustInv, world
  <2> QED
    BY <1>1, <2>3, <2>4, <2>8, WalkSteps
<1> QED
  BY <1>5, <1>6

(* What the others do: the walk waits, and the tree is no longer the first. *)
LEMMA RelinkKeeps ==
    ASSUME TrustInv, NEW at \in Directories, Relink(at)
    PROVE  TrustInv'
<1>1. PICK n \in (IF at = Slash THEN {D, E, Link, Absent} ELSE {F, G, Link, Absent}) :
         child' = [child EXCEPT ![at] = n]
  BY DEF Relink
<1>2. /\ UNCHANGED <<node, versions, updated, walk>> /\ start' = Absent
      /\ walk.step # "done" /\ (node[at].uid = Other \/ node[at].writable)
  BY DEF Relink, Changed, MayWrite
<1>3. n \in Nodes \cup {Absent}
  BY <1>1 DEF Nodes
<1>4. TrustTypeOK'
  BY <1>1, <1>2, <1>3 DEF TrustInv, TrustTypeOK
<1>5. child \in [Directories -> Nodes \cup {Absent}]
  BY DEF TrustInv, TrustTypeOK
<1>6. node[Slash].uid # Other /\ (SafePath => at # Slash /\ at # D) /\ (~node[Slash].writable => at # Slash)
  BY <1>2, TrustNames DEF TrustInv, TreeInv, SafePath, SafeTop
<1>7. /\ ~node[Slash].writable => child'[Slash] = child[Slash]
      /\ SafePath => child'[D] = child[D]
  BY <1>1, <1>5, <1>6, TrustSets
<1>8. (SafeTop' <=> SafeTop) /\ (SafePath' <=> SafePath)
  BY <1>2, <1>7 DEF SafePath, SafeTop
<1>9. TreeInv'
  BY <1>2, <1>7 DEF TrustInv, TreeInv
<1>10. \A f : Genuine(f)' <=> Genuine(f)
  BY <1>2 DEF Genuine
<1>11. VersionInv'
  BY <1>2, <1>7, <1>8, <1>10 DEF TrustInv, VersionInv, Genuine
<1>12. WalkInv'
  BY <1>2, <1>8 DEF TrustInv, WalkInv, Genuine
<1> QED
  BY <1>2, <1>4, <1>9, <1>11, <1>12 DEF TrustInv, StartInv

(* An inode that the walk relies on is not written by another.              *)
LEMMA NodeKeeps ==
    ASSUME TrustInv, NEW i \in {D, F, G, New}, UNCHANGED <<child, versions, updated, walk>>, start' = Absent,
           walk.step # "done", node' \in [Nodes -> Inodes], \A m \in Nodes \ {i} : node'[m] = node[m],
           node'[i].kind = node[i].kind, node'[i].uid = node[i].uid,
           node[i].uid = Other \/ (i # D /\ node[i].writable /\ node'[i].writable),
           i = F => node'[F].bytes \in {"old", "huge", "theirs"}
    PROVE  TrustInv'
<1>1. TrustTypeOK'
  BY DEF TrustInv, TrustTypeOK
<1>2. /\ node'[Slash] = node[Slash] /\ node'[Link] = node[Link]
      /\ i # D => node'[D] = node[D]
      /\ i # F => node'[F] = node[F]
  BY TrustNames, TrustSets
<1>3. i # New /\ node'[New] = node[New]
  BY TrustNames, TrustSets DEF TrustInv, TreeInv, Inode
<1>4. TreeInv'
  BY <1>2, <1>3 DEF TrustInv, TreeInv
<1>5. (SafeTop' <=> SafeTop) /\ (SafePath' => SafePath) /\ (SafePath => SafePath' /\ node'[D] = node[D])
  BY <1>2, TrustNames DEF SafePath, SafeTop
<1>6. \A f : Genuine(f) => Genuine(f)'
  BY <1>2, TrustNames DEF Genuine
<1>7. VersionInv'
  BY <1>5, <1>6 DEF TrustInv, VersionInv, Genuine
<1>8. ASSUME walk.step = "holder" PROVE walk.facts.uid \in {Root, Euid} => walk.facts = node'[D]
  BY <1>2, <1>8, TrustNames DEF TrustInv, WalkInv
<1>9. ASSUME walk.step \in {"judged", "checked"}
      PROVE  /\ node'[walk.fd].kind = "Regular" /\ node'[walk.fd].uid = Euid
             /\ ~node[walk.fd].writable => ~node'[walk.fd].writable
  <2>1. walk.fd \in {F, New} /\ node[walk.fd].kind = "Regular" /\ node[walk.fd].uid = Euid
    BY <1>9 DEF TrustInv, WalkInv, Genuine
  <2> QED
    BY <1>2, <1>3, <2>1, TrustNames
<1>10. WalkInv'
  <2>1. walk.step \in {"file", "judged", "checked"} => SafePath' /\ walk.holder = node'[D] /\ Genuine(walk.fd)'
    BY <1>5, <1>6 DEF TrustInv, WalkInv
  <2>2. /\ walk.step \in {"start", "top"} => walk.fd = Slash
        /\ walk.step = "top" => walk.facts = node'[Slash]
        /\ walk.step \in {"opened", "holder"} => SafeTop' /\ walk.fd = D
        /\ walk.step = "holder" => walk.facts \in Inodes
    BY <1>2, <1>5 DEF TrustInv, WalkInv
  <2>3. walk.step \in {"judged", "checked"} => node'[D].uid = Euid
    BY <1>5 DEF TrustInv, WalkInv
  <2>4. walk.step = "checked" => ~node[walk.fd].writable
    BY DEF TrustInv, WalkInv
  <2>5. walk' = walk
    OBVIOUS
  <2> QED
    BY <2>1, <2>2, <2>3, <2>4, <2>5, <1>8, <1>9 DEF WalkInv, Genuine
<1> QED
  BY <1>1, <1>4, <1>7, <1>10 DEF TrustInv, StartInv

LEMMA ScribbleKeeps ==
    ASSUME TrustInv, NEW found \in {F, G, New}, Scribble(found)
    PROVE  TrustInv'
<1>1. found \in Nodes /\ found # D
  BY TrustSets, TrustNames
<1>2. node \in [Nodes -> Inodes] /\ node[found] \in Inodes
  BY <1>1 DEF TrustInv, TrustTypeOK
<1>3. node' = [node EXCEPT ![found] = [@ EXCEPT !.bytes = "theirs"]]
  BY DEF Scribble
<1>4. [node[found] EXCEPT !.bytes = "theirs"] \in Inodes
  BY <1>2 DEF Inodes, Bytes
<1>5. /\ node' \in [Nodes -> Inodes] /\ \A m \in Nodes \ {found} : node'[m] = node[m]
      /\ node'[found] = [node[found] EXCEPT !.bytes = "theirs"]
  BY <1>1, <1>2, <1>3, <1>4
<1>6. /\ node'[found].kind = node[found].kind /\ node'[found].uid = node[found].uid
      /\ node'[found].writable = node[found].writable /\ node'[found].bytes = "theirs"
  BY <1>2, <1>5 DEF Inodes
<1> QED
  BY <1>1, <1>5, <1>6, NodeKeeps DEF Scribble, Changed, MayWrite

LEMMA ChmodKeeps ==
    ASSUME TrustInv, NEW i \in {D, F}, Chmod(i)
    PROVE  TrustInv'
<1>1. i \in Nodes
  BY TrustSets
<1>2. node \in [Nodes -> Inodes] /\ node[i] \in Inodes
  BY <1>1 DEF TrustInv, TrustTypeOK
<1>3. node' = [node EXCEPT ![i] = [node[i] EXCEPT !.writable = ~node[i].writable]]
  BY <1>1, <1>2 DEF Chmod
<1>4. [node[i] EXCEPT !.writable = ~node[i].writable] \in Inodes
  BY <1>2 DEF Inodes
<1>5. /\ node' \in [Nodes -> Inodes] /\ \A m \in Nodes \ {i} : node'[m] = node[m]
      /\ node'[i] = [node[i] EXCEPT !.writable = ~node[i].writable]
  BY <1>1, <1>2, <1>3, <1>4
<1>6. node'[i].kind = node[i].kind /\ node'[i].uid = node[i].uid /\ node'[i].bytes = node[i].bytes
  BY <1>2, <1>5 DEF Inodes
<1>7. i = F => node'[F].bytes \in {"old", "huge", "theirs"}
  BY <1>6 DEF TrustInv, TreeInv
<1> QED
  BY <1>5, <1>6, <1>7, NodeKeeps DEF Chmod, Changed

LEMMA UpdateKeeps ==
    ASSUME TrustInv, Update
    PROVE  TrustInv'
<1>1. /\ child' = [child EXCEPT ![D] = New] /\ versions' = versions \cup {node[New].bytes}
      /\ UNCHANGED <<node, walk>> /\ start' = Absent /\ walk.step # "done"
  BY DEF Update, Changed
<1>2. node[New].bytes = "new"
  BY DEF TrustInv, TreeInv, Inode
<1>3. TrustTypeOK'
  BY <1>1, TrustSets DEF TrustInv, TrustTypeOK
<1>4. child'[Slash] = child[Slash] /\ child'[D] = New
  BY <1>1, TrustNames, TrustSets DEF TrustInv, TrustTypeOK
<1>5. TreeInv' /\ (SafeTop' <=> SafeTop) /\ (SafePath' <=> SafePath)
  BY <1>1, <1>4 DEF TrustInv, TreeInv, SafePath, SafeTop
<1>6. (\A f : Genuine(f) => Genuine(f)') /\ Genuine(New)'
  BY <1>1, <1>2, TrustNames DEF Genuine
<1>7. VersionInv'
  BY <1>4, <1>6 DEF VersionInv, Genuine
<1>8. WalkInv'
  <2>1. walk.step \in {"file", "judged", "checked"} => SafePath' /\ walk.holder = node[D] /\ Genuine(walk.fd)'
    BY <1>1, <1>5, <1>6 DEF TrustInv, WalkInv
  <2> QED
    BY <2>1, <1>1, <1>5 DEF TrustInv, WalkInv, Genuine
<1> QED
  BY <1>1, <1>3, <1>5, <1>7, <1>8 DEF TrustInv, StartInv

LEMMA TrustStarts ==
    ASSUME TrustInit
    PROVE  TrustInv
<1>1. PICK tree \in Trees : Unopened(tree)
  BY DEF TrustInit
<1>2. PICK s \in Shapes : tree = Tree(s)
  BY DEF Trees
<1>3. /\ node = Tree(s).node /\ child = Tree(s).child
      /\ start = [node |-> node, child |-> child]
      /\ walk = NoWalk
      /\ versions = IF Named(tree) = Absent THEN {} ELSE {tree.node[Named(tree)].bytes}
  BY <1>1, <1>2 DEF Unopened, Tree
<1>4. /\ node[Slash] = Inode("Directory", Root, s.top, "none")
      /\ node[D] = Inode("Directory", s.du, s.dw, "none")
      /\ node[E] = Inode("Directory", Other, TRUE, "none")
      /\ node[F] = Inode(s.kind, s.fu, s.fw, s.bytes)
      /\ node[G] = Inode("Regular", Euid, FALSE, "theirs")
      /\ node[New] = Inode("Regular", Euid, FALSE, "new")
      /\ node[Link] = Inode("Symlink", Other, TRUE, "none")
  BY <1>3, TrustNames DEF Tree, Nodes
<1>5. child[Slash] = s.d /\ child[D] = s.f /\ child[E] = s.e
  BY <1>3, TrustNames DEF Tree, Directories
<1>6. node \in [Nodes -> Inodes]
  <2> SUFFICES ASSUME NEW n \in Nodes PROVE node[n] \in Inodes
    BY <1>3 DEF Tree
  <2>1. /\ s.top \in BOOLEAN /\ s.du \in {Euid, Root, Other} /\ s.dw \in BOOLEAN /\ s.kind \in {"Regular", "Other"}
        /\ s.fu \in {Euid, Other} /\ s.fw \in BOOLEAN /\ s.bytes \in {"old", "huge"}
    BY DEF Shapes
  <2>2. node[Slash] \in Inodes /\ node[D] \in Inodes /\ node[E] \in Inodes /\ node[F] \in Inodes
    BY <1>4, <2>1 DEF Inode, Inodes, Bytes
  <2>3. node[G] \in Inodes /\ node[New] \in Inodes /\ node[Link] \in Inodes
    BY <1>4 DEF Inode, Inodes, Bytes
  <2> QED
    BY <2>2, <2>3 DEF Nodes
<1>7. child \in [Directories -> Nodes \cup {Absent}]
  <2>1. s.d \in {D, F, Link, Absent} /\ s.f \in {F, Link, Absent} /\ s.e \in {F, G}
    BY DEF Shapes
  <2> QED
    BY <1>3, <1>5, <2>1, TrustSets DEF Tree, Directories
<1>8. TrustTypeOK
  BY <1>3, <1>6, <1>7, TrustSets DEF TrustTypeOK, NoWalk
<1>9. TreeInv
  BY <1>4, <1>5 DEF TreeInv, Inode, Shapes
<1>10. VersionInv
  <2> SUFFICES ASSUME SafePath, child[D] \notin {Link, Absent} PROVE Genuine(child[D])
    BY DEF VersionInv
  <2>1. child[D] = F /\ child[Slash] = D
    BY <1>5 DEF SafePath, SafeTop, Shapes
  <2>2. tree.node = node /\ tree.child = child
    BY <1>2, <1>3 DEF Tree
  <2>3. Named(tree) = F
    BY <2>1, <2>2 DEF Named
  <2>4. node[F].bytes \in versions
    BY <1>3, <2>2, <2>3, TrustNames
  <2> QED
    BY <2>1, <2>4, TrustNames DEF Genuine
<1>11. WalkInv /\ StartInv
  BY <1>3 DEF WalkInv, StartInv, NoWalk
<1> QED
  BY <1>8, <1>9, <1>10, <1>11 DEF TrustInv

(* TrustInv holds in every reachable state of the open.                     *)
THEOREM TrustInvariant == TrustSpec => []TrustInv
<1>1. ASSUME TrustInv, [TrustNext]_trustVars PROVE TrustInv'
  <2>1. CASE UNCHANGED trustVars
    <3>1. UNCHANGED world /\ UNCHANGED walk
      BY <2>1 DEF trustVars, world
    <3>2. TrustTypeOK'
      BY <1>1, <3>1 DEF TrustInv, TrustTypeOK, world
    <3>3. WalkInv'
      BY <1>1, <3>1 DEF TrustInv, WalkInv, world, SafePath, SafeTop, Genuine
    <3>4. (Meets' <=> Meets) /\ nlink(walk.fd)' = nlink(walk.fd)
      BY <3>1 DEF Meets, world, nlink
    <3>5. StartInv'
      BY <1>1, <3>1, <3>4 DEF TrustInv, StartInv, world
    <3> QED
      BY <1>1, <3>1, <3>2, <3>3, <3>5, WalkSteps
  <2>2. CASE StatDirectory \/ PassAndOpenChild \/ PassAndOpenFile \/ JudgeFile \/ CheckFile \/ ReadFile \/ Update
    BY <1>1, <2>2, StatKeeps, OpenChildKeeps, OpenFileKeeps, JudgeKeeps, CheckKeeps, ReadKeeps, UpdateKeeps
  <2>3. CASE \E at \in Directories : Relink(at)
    BY <1>1, <2>3, RelinkKeeps
  <2>4. CASE \E found \in {F, G, New} : Scribble(found)
    BY <1>1, <2>4, ScribbleKeeps
  <2>5. CASE \E i \in {D, F} : Chmod(i)
    BY <1>1, <2>5, ChmodKeeps
  <2> QED
    BY <1>1, <2>1, <2>2, <2>3, <2>4, <2>5 DEF TrustNext
<1> QED
  BY <1>1, TrustStarts, PTL DEF TrustSpec

(* ReadIsTrusted of the module: whatever another user does between the      *)
(* steps of TrustedFile::open, the bytes it returns are what the path held  *)
(* or what the owner put there, and undisturbed it reads exactly the files  *)
(* that meet the rules.                                                     *)
THEOREM ReadTrusted == TrustSpec => []ReadIsTrusted
<1>1. TrustInv => ReadIsTrusted
  <2> SUFFICES ASSUME TrustInv, walk.step = "done" PROVE ReadIsTrusted
    BY DEF ReadIsTrusted
  <2>1. "bytes" \in DOMAIN walk.result => walk.result.bytes \in versions
    BY DEF TrustInv, WalkInv
  <2>2. start # Absent => ("bytes" \in DOMAIN walk.result <=> Meets)
    BY DEF TrustInv, StartInv
  <2> QED
    BY <2>1, <2>2, MeetsStart DEF ReadIsTrusted
<1> QED
  BY <1>1, TrustInvariant, PTL

-----------------------------------------------------------------------------
(* The writable root.  While the file was not written to since its stamp    *)
(* was taken, what was read of it is a part of one version; a hash that     *)
(* matches and a stamp that still stands make that version the pinned one,  *)
(* and the copy is what was read.                                           *)

RootBytes == Seq({"p", "q", "x"})

AnyFacts == [kind : {"Regular", "Other"}, owner : {"euid", "other"}, writable : BOOLEAN, setid : BOOLEAN,
             acl : BOOLEAN, immutable : BOOLEAN]

RootFaults == {"Walk", "NotRegular", "ForeignOwner", "Writable", "SetIdBits", "Io", "WriteAcl", "NotImmutable",
           "ChangedWhileHashing", "Digest", "WrongSource", "WrongParent", "Private", "Exists", "Unidentified",
           "CopyMismatch", "Source"}
RootRemovals == {"none", "Failed", "AlreadyGone", "LeftReplacement", "Removed"}

RootSteps == {"verify", "opened", "hashing", "hashed", "verified", "asked", "created", "identified", "copying",
          "copied", "synced", "reopened", "ready", "removing", "inspected", "refused", "removed"}
RootResults == RootFaults \cup {"none", "Ok"}

ImageRecords == [Images -> [facts : AnyFacts, bytes : RootBytes, stamp : Nat]]
RootRecords == [step : RootSteps, role : {"RootImage", "Kernel"}, parent : BOOLEAN, file : Images \cup {"none"},
                stamp : Nat, size : Nat, read : RootBytes, opened : Images \cup {"none"}, result : RootResults,
                removal : RootRemovals]
CopyRecords == [made : BOOLEAN, bytes : RootBytes, private : BOOLEAN, synced : BOOLEAN]
GhostRecords == [mapped : BOOLEAN, seen : RootBytes, late : BOOLEAN, struck : BOOLEAN]

RootTypeInv ==
    /\ image \in ImageRecords
    /\ imagePath \in Images \cup {"none"}
    /\ root \in RootRecords
    /\ copy \in CopyRecords
    /\ entry \in {"nothing", "alien", "copy"}
    /\ ghost \in GhostRecords

(* The caller's file is as it was at the check, as far as its times tell    *)
(* and nothing was written through a mapping.                               *)
Untouched == ~ghost.mapped /\ image[root.file].stamp = root.stamp

(* What was read of an untouched file is what was there at the check, and   *)
(* a file that passed was the pinned one.                                   *)
RootVersionInv ==
    /\ root.step \in {"opened", "reopened"} => root.opened \in Images
    /\ root.step \in {"hashing", "hashed"} \cup Verified =>
          root.file \in Images /\ image[root.file].stamp >= root.stamp
    /\ root.step \in {"hashing", "hashed"} =>
          /\ root.size = Len(ghost.seen)
          /\ Untouched =>
                /\ image[root.file].bytes = ghost.seen
                /\ Len(root.read) <= root.size
                /\ \A i \in 1..Len(root.read) : root.read[i] = ghost.seen[i]
    /\ root.step = "hashed" => (Untouched => Len(root.read) = root.size)
    /\ root.step \in Verified =>
          /\ ~ghost.mapped => ghost.seen = Pinned
          /\ Untouched => image[root.file].bytes = Pinned
    /\ root.step = "ready" /\ ~ghost.mapped => ghost.seen = Pinned

(* The copy is what was read of the image, and is at its name from its      *)
(* creation to its removal unless another process moved it.                 *)
RootCopyInv ==
    /\ root.step \in {"verify", "opened", "hashing", "hashed"} => copy.bytes = <<>>
    /\ root.step \in {"verify", "opened"} => root.read = <<>>
    /\ root.step \in {"verified", "asked", "created", "identified"} => root.read = <<>> /\ copy.bytes = <<>>
    /\ root.step \in {"copying", "copied"} => copy.private /\ copy.bytes = root.read
    /\ root.step \in {"synced", "reopened", "ready"} => copy.private /\ copy.synced /\ copy.bytes = Pinned
    /\ root.step \in {"verify", "opened", "hashing", "hashed", "verified", "asked"} => entry # "copy"
    /\ root.step = "inspected" /\ entry = "alien" => ghost.late
    /\ CopyIsExact

RInv == RootTypeInv /\ RootVersionInv /\ RootCopyInv

LEMMA PinnedBytes == Pinned \in RootBytes /\ Len(Pinned) = 2 /\ <<>> \in RootBytes /\ Len(<<>>) = 0
  BY DEF Pinned, RootBytes

LEMMA RootStart == RootInit => RInv
  <1> SUFFICES ASSUME NEW facts \in Facts,
                      NEW bytes \in {<<"p", "q">>, <<"x", "q">>, <<"p", "x">>, <<"p">>, <<"p", "q", "x">>},
                      NEW role \in {"RootImage", "Kernel"}, NEW parent \in BOOLEAN, NEW there0 \in BOOLEAN,
                      NEW entry0 \in {"nothing", "alien"}, Unverified(facts, bytes, role, parent, there0, entry0)
               PROVE  RInv
    BY DEF RootInit
  <1>1. bytes \in RootBytes
    <2>1. <<"p", "q">> \in RootBytes /\ <<"x", "q">> \in RootBytes /\ <<"p", "x">> \in RootBytes
      BY DEF RootBytes
    <2>2. <<"p">> \in RootBytes /\ <<"p", "q", "x">> \in RootBytes
      BY DEF RootBytes
    <2> QED
      BY <2>1, <2>2
  <1>2. facts \in AnyFacts /\ Sound \in AnyFacts
    <2>1. Sound \in AnyFacts
      BY DEF Sound, AnyFacts
    <2>2. /\ [Sound EXCEPT !.kind = "Other"] \in AnyFacts /\ [Sound EXCEPT !.owner = "other"] \in AnyFacts
          /\ [Sound EXCEPT !.writable = TRUE] \in AnyFacts /\ [Sound EXCEPT !.setid = TRUE] \in AnyFacts
          /\ [Sound EXCEPT !.acl = TRUE] \in AnyFacts /\ [Sound EXCEPT !.immutable = FALSE] \in AnyFacts
      BY <2>1 DEF AnyFacts
    <2> QED
      BY <2>1, <2>2 DEF Facts
  <1>3. RootTypeInv
    <2>1. image \in ImageRecords
      BY <1>1, <1>2, PinnedBytes DEF Unverified, Images, ImageRecords
    <2>2. root \in RootRecords /\ copy \in CopyRecords /\ ghost \in GhostRecords
      BY PinnedBytes DEF Unverified, RootRecords, CopyRecords, GhostRecords, RootSteps, RootRemovals, RootResults
    <2> QED
      BY <2>1, <2>2 DEF Unverified, RootTypeInv, Images
  <1>4. root.step = "verify" /\ root.read = <<>> /\ copy.bytes = <<>> /\ entry # "copy" /\ ~ghost.struck
    BY DEF Unverified
  <1> QED
    BY <1>3, <1>4 DEF RInv, RootVersionInv, RootCopyInv, CopyIsExact, Verified, At

LEMMA RootTypes ==
    ASSUME RootTypeInv
    PROVE  /\ root.step \in RootSteps /\ root.file \in Images \cup {"none"} /\ root.opened \in Images \cup {"none"}
           /\ root.stamp \in Nat /\ root.size \in Nat /\ root.read \in RootBytes
           /\ \A f \in Images : image[f].bytes \in RootBytes /\ image[f].stamp \in Nat
           /\ copy.bytes \in RootBytes /\ ghost.seen \in RootBytes
  BY DEF RootTypeInv, RootRecords, ImageRecords, CopyRecords, GhostRecords

(* What each kind of step leaves of the caller's record.                    *)
LEMMA RootStepped ==
    ASSUME root \in RootRecords, NEW reached \in RootSteps
    PROVE  /\ \A r \in RootResults : root' = [root EXCEPT !.step = reached, !.result = r] =>
                 /\ root' \in RootRecords
                 /\ root'.step = reached /\ root'.result = r /\ root'.removal = root.removal
                 /\ root'.file = root.file /\ root'.stamp = root.stamp /\ root'.size = root.size
                 /\ root'.read = root.read /\ root'.opened = root.opened
           /\ root' = [root EXCEPT !.step = reached] =>
                 /\ root' \in RootRecords
                 /\ root'.step = reached /\ root'.result = root.result /\ root'.removal = root.removal
                 /\ root'.file = root.file /\ root'.stamp = root.stamp /\ root'.size = root.size
                 /\ root'.read = root.read /\ root'.opened = root.opened
           /\ \A r \in RootRemovals : root' = [root EXCEPT !.step = reached, !.removal = r] =>
                 /\ root' \in RootRecords
                 /\ root'.step = reached /\ root'.result = root.result /\ root'.removal = r
                 /\ root'.file = root.file /\ root'.stamp = root.stamp /\ root'.size = root.size
                 /\ root'.read = root.read /\ root'.opened = root.opened
           /\ \A f \in Images : root' = [root EXCEPT !.step = reached, !.opened = f] =>
                 /\ root' \in RootRecords
                 /\ root'.step = reached /\ root'.result = root.result /\ root'.removal = root.removal
                 /\ root'.file = root.file /\ root'.stamp = root.stamp /\ root'.size = root.size
                 /\ root'.read = root.read /\ root'.opened = f
           /\ \A b \in RootBytes : root' = [root EXCEPT !.step = reached, !.read = b] =>
                 /\ root' \in RootRecords
                 /\ root'.step = reached /\ root'.result = root.result /\ root'.removal = root.removal
                 /\ root'.file = root.file /\ root'.stamp = root.stamp /\ root'.size = root.size
                 /\ root'.read = b /\ root'.opened = root.opened
  <1>1. \A r \in RootResults : root' = [root EXCEPT !.step = reached, !.result = r] =>
            /\ root' \in RootRecords
            /\ root'.step = reached /\ root'.result = r /\ root'.removal = root.removal
            /\ root'.file = root.file /\ root'.stamp = root.stamp /\ root'.size = root.size
            /\ root'.read = root.read /\ root'.opened = root.opened
    <2> SUFFICES ASSUME NEW r \in RootResults, root' = [root EXCEPT !.step = reached, !.result = r]
                 PROVE  root' \in RootRecords
      BY DEF RootRecords
    <2> DEFINE moved == [root EXCEPT !.step = reached]
    <2>1. moved \in RootRecords /\ root' = [moved EXCEPT !.result = r]
      BY DEF RootRecords
    <2> HIDE DEF moved
    <2> QED
      BY <2>1 DEF RootRecords
  <1>2. root' = [root EXCEPT !.step = reached] =>
            /\ root' \in RootRecords
            /\ root'.step = reached /\ root'.result = root.result /\ root'.removal = root.removal
            /\ root'.file = root.file /\ root'.stamp = root.stamp /\ root'.size = root.size
            /\ root'.read = root.read /\ root'.opened = root.opened
    BY DEF RootRecords
  <1>3. \A r \in RootRemovals : root' = [root EXCEPT !.step = reached, !.removal = r] =>
            /\ root' \in RootRecords
            /\ root'.step = reached /\ root'.result = root.result /\ root'.removal = r
            /\ root'.file = root.file /\ root'.stamp = root.stamp /\ root'.size = root.size
            /\ root'.read = root.read /\ root'.opened = root.opened
    <2> SUFFICES ASSUME NEW r \in RootRemovals, root' = [root EXCEPT !.step = reached, !.removal = r]
                 PROVE  root' \in RootRecords
      BY DEF RootRecords
    <2> DEFINE moved == [root EXCEPT !.step = reached]
    <2>1. moved \in RootRecords /\ root' = [moved EXCEPT !.removal = r]
      BY DEF RootRecords
    <2> HIDE DEF moved
    <2> QED
      BY <2>1 DEF RootRecords
  <1>4. \A f \in Images : root' = [root EXCEPT !.step = reached, !.opened = f] =>
            /\ root' \in RootRecords
            /\ root'.step = reached /\ root'.result = root.result /\ root'.removal = root.removal
            /\ root'.file = root.file /\ root'.stamp = root.stamp /\ root'.size = root.size
            /\ root'.read = root.read /\ root'.opened = f
    <2> SUFFICES ASSUME NEW f \in Images, root' = [root EXCEPT !.step = reached, !.opened = f]
                 PROVE  root' \in RootRecords
      BY DEF RootRecords
    <2> DEFINE moved == [root EXCEPT !.step = reached]
    <2>1. moved \in RootRecords /\ root' = [moved EXCEPT !.opened = f]
      BY DEF RootRecords
    <2> HIDE DEF moved
    <2> QED
      BY <2>1 DEF RootRecords
  <1>5. \A b \in RootBytes : root' = [root EXCEPT !.step = reached, !.read = b] =>
            /\ root' \in RootRecords
            /\ root'.step = reached /\ root'.result = root.result /\ root'.removal = root.removal
            /\ root'.file = root.file /\ root'.stamp = root.stamp /\ root'.size = root.size
            /\ root'.read = b /\ root'.opened = root.opened
    <2> SUFFICES ASSUME NEW b \in RootBytes, root' = [root EXCEPT !.step = reached, !.read = b]
                 PROVE  root' \in RootRecords
      BY DEF RootRecords
    <2> DEFINE moved == [root EXCEPT !.step = reached]
    <2>1. moved \in RootRecords /\ root' = [moved EXCEPT !.read = b]
      BY DEF RootRecords
    <2> HIDE DEF moved
    <2> QED
      BY <2>1 DEF RootRecords
  <1> QED
    BY <1>1, <1>2, <1>3, <1>4, <1>5

(* A chunk is one byte of the file or nothing, past its end or past one     *)
(* byte beyond the size at the check.                                       *)
LEMMA PositionedIs ==
    ASSUME RootTypeInv, root.file \in Images
    PROVE  LET image_file == image[root.file].bytes
               chunk == Positioned(root.file) IN
           /\ root.read \o chunk \in RootBytes
           /\ chunk = <<>> => Len(image_file) <= Len(root.read) \/ root.size + 1 <= Len(root.read)
           /\ chunk # <<>> =>
                 /\ Len(root.read) < Len(image_file)
                 /\ Len(root.read \o chunk) = Len(root.read) + 1
                 /\ \A i \in 1..Len(root.read) : (root.read \o chunk)[i] = root.read[i]
                 /\ (root.read \o chunk)[Len(root.read) + 1] = image_file[Len(root.read) + 1]
  <1> DEFINE image_file == image[root.file].bytes
             at == Len(root.read) + 1
  <1>1. image_file \in RootBytes /\ root.read \in RootBytes /\ root.size \in Nat
    BY RootTypes
  <1>2. CASE at <= Len(image_file) /\ at <= root.size + 1
    <2>1. Positioned(root.file) = <<image_file[at]>>
      BY <1>2 DEF Positioned
    <2>2. image_file[at] \in {"p", "q", "x"}
      BY <1>1, <1>2 DEF RootBytes
    <2> QED
      BY <1>1, <1>2, <2>1, <2>2 DEF RootBytes
  <1>3. CASE ~(at <= Len(image_file) /\ at <= root.size + 1)
    <2>1. Positioned(root.file) = <<>>
      BY <1>3 DEF Positioned
    <2> QED
      BY <1>1, <1>3, <2>1 DEF RootBytes
  <1> QED
    BY <1>2, <1>3

(* A refusal before there is a copy, or of one that has no identity.        *)
LEMMA Refusing ==
    ASSUME RInv, NEW fault \in RootFaults, RefuseRoot(fault), UNCHANGED <<outside, copy, entry>>,
           ghost' \in GhostRecords, ghost'.struck = ghost.struck, ghost'.late = ghost.late,
           entry # "copy" \/ fault = "Unidentified"
    PROVE  RInv'
  <1>1. /\ root' \in RootRecords /\ root'.step = "refused" /\ root'.result = fault
        /\ root'.removal = root.removal
    BY RootStepped DEF RInv, RootTypeInv, RefuseRoot, RootSteps, RootResults
  <1>2. RootTypeInv'
    BY <1>1 DEF RInv, RootTypeInv, outside
  <1>3. RootVersionInv' /\ RootCopyInv'
    BY <1>1 DEF RInv, RootVersionInv, RootCopyInv, CopyIsExact, Verified, At
  <1> QED
    BY <1>2, <1>3 DEF RInv

(* A refusal that drops the copy.                                           *)
LEMMA Dropping ==
    ASSUME RInv, NEW fault \in RootFaults, DropRoot(fault), UNCHANGED <<outside, entry>>,
           copy' \in CopyRecords,
           ghost' \in GhostRecords, ghost'.struck = ghost.struck, ghost'.late = ghost.late
    PROVE  RInv'
  <1>1. /\ root' \in RootRecords /\ root'.step = "removing"
    BY RootStepped DEF RInv, RootTypeInv, DropRoot, RootSteps, RootResults
  <1>2. RootTypeInv'
    BY <1>1 DEF RInv, RootTypeInv, outside
  <1>3. RootVersionInv' /\ RootCopyInv'
    BY <1>1 DEF RInv, RootVersionInv, RootCopyInv, CopyIsExact, Verified, At
  <1> QED
    BY <1>2, <1>3 DEF RInv

LEMMA OpenFaults == \A f \in Images : judge(image[f].facts) \in RootFaults \cup {"ok"}
  BY DEF judge, RootFaults

LEMMA FaultsAre ==
    /\ {"Walk", "Io", "WriteAcl", "NotImmutable", "ChangedWhileHashing", "Digest", "WrongSource", "WrongParent",
        "Private", "Exists", "Unidentified", "CopyMismatch", "Source"} \subseteq RootFaults
    /\ "ok" \notin RootFaults
  BY DEF RootFaults

LEMMA VerifyOpensStep == ASSUME RInv, VerifyOpens PROVE RInv'
  <1> USE DEF outside
  <1>1. PICK fault \in open_file : IF fault = "ok" THEN Opened("opened") ELSE RefuseRoot(fault)
    BY DEF VerifyOpens
  <1>2. fault \in RootFaults \/ (fault = "ok" /\ imagePath \in Images)
    BY <1>1, OpenFaults, FaultsAre DEF open_file, RInv, RootTypeInv
  <1>3. CASE fault # "ok"
    BY <1>1, <1>2, <1>3, Refusing DEF VerifyOpens, RInv, RootTypeInv, RootCopyInv, At
  <1>4. CASE fault = "ok"
    <2>1. /\ root' \in RootRecords /\ root'.step = "opened" /\ root'.opened = imagePath /\ imagePath \in Images
          /\ root'.read = root.read
      BY <1>1, <1>2, <1>4, RootStepped, FaultsAre DEF RInv, RootTypeInv, Opened, RootSteps
    <2>2. RootTypeInv'
      BY <2>1 DEF VerifyOpens, RInv, RootTypeInv
    <2>3. RootVersionInv' /\ RootCopyInv'
      BY <2>1 DEF VerifyOpens, RInv, RootVersionInv, RootCopyInv, CopyIsExact, Verified, At
    <2> QED
      BY <2>2, <2>3 DEF RInv
  <1> QED
    BY <1>3, <1>4

LEMMA CheckStampStep == ASSUME RInv, CheckStamp PROVE RInv'
  <1> USE DEF outside
  <1> DEFINE found == image[root.opened]
  <1>1. root.opened \in Images /\ found.bytes \in RootBytes /\ found.stamp \in Nat
    BY RootTypes DEF CheckStamp, At, RInv, RootVersionInv
  <1>2. ASSUME NEW fault \in RootFaults, RefuseRoot(fault) PROVE RInv'
    <2>1. /\ ghost' \in GhostRecords /\ ghost'.struck = ghost.struck /\ ghost'.late = ghost.late
      BY <1>1 DEF CheckStamp, RInv, RootTypeInv, GhostRecords
    <2> QED
      BY <1>2, <2>1, Refusing DEF CheckStamp, RInv, RootCopyInv, At
  <1>3. CASE /\ root' = [root EXCEPT !.step = "hashing", !.file = root.opened, !.stamp = found.stamp,
                                     !.size = Len(found.bytes)]
             /\ ghost' = [ghost EXCEPT !.seen = found.bytes]
    <2>1. Len(found.bytes) \in Nat
      BY <1>1 DEF RootBytes
    <2>2. /\ root' \in RootRecords /\ root'.step = "hashing" /\ root'.file = root.opened
          /\ root'.stamp = found.stamp /\ root'.size = Len(found.bytes) /\ root'.read = root.read
      BY <1>1, <1>3, <2>1 DEF RInv, RootTypeInv, RootRecords, RootSteps
    <2>3. /\ ghost' \in GhostRecords /\ ghost'.seen = found.bytes /\ ghost'.struck = ghost.struck
          /\ ghost'.late = ghost.late
      BY <1>1, <1>3 DEF RInv, RootTypeInv, GhostRecords
    <2>4. RootTypeInv'
      BY <2>2, <2>3 DEF CheckStamp, RInv, RootTypeInv
    <2>5. root.read = <<>>
      BY DEF CheckStamp, RInv, RootCopyInv, At
    <2>6. RootVersionInv'
      BY <1>1, <2>1, <2>2, <2>3, <2>5, PinnedBytes DEF CheckStamp, RootVersionInv, Verified
    <2>7. RootCopyInv'
      BY <2>2, <2>3 DEF CheckStamp, RInv, RootCopyInv, CopyIsExact, At
    <2> QED
      BY <2>4, <2>6, <2>7 DEF RInv
  <1> QED
    BY <1>2, <1>3, FaultsAre DEF CheckStamp

LEMMA HashChunkStep == ASSUME RInv, HashChunk PROVE RInv'
  <1> USE DEF outside
  <1> DEFINE chunk == Positioned(root.file)
  <1>1. CASE RefuseRoot("Io")
    BY <1>1, Refusing, FaultsAre DEF HashChunk, RInv, RootTypeInv, RootCopyInv, At
  <1>2. CASE root' = [root EXCEPT !.step = IF chunk = <<>> THEN "hashed" ELSE @, !.read = @ \o chunk]
    <2>1. root.step = "hashing" /\ root.file \in Images
      BY DEF HashChunk, At, RInv, RootVersionInv
    <2> DEFINE reached == IF chunk = <<>> THEN "hashed" ELSE "hashing"
    <2>2. root' = [root EXCEPT !.step = reached, !.read = root.read \o chunk] /\ reached \in RootSteps
      BY <1>2, <2>1 DEF RInv, RootTypeInv, RootRecords, RootSteps
    <2>3. root.read \o chunk \in RootBytes
      BY <2>1, PositionedIs DEF RInv
    <2> HIDE DEF reached
    <2>4. /\ root' \in RootRecords /\ root'.step = reached /\ root'.file = root.file /\ root'.stamp = root.stamp
          /\ root'.size = root.size /\ root'.read = root.read \o chunk
      BY <2>2, <2>3, RootStepped DEF RInv, RootTypeInv
    <2>5. RootTypeInv'
      BY <2>4 DEF HashChunk, RInv, RootTypeInv
    <2>6. RootVersionInv'
      <3>1. Untouched' <=> Untouched
        BY <2>4 DEF HashChunk, Untouched
      <3>2. reached \in {"hashing", "hashed"}
        BY DEF reached
      <3>3. ASSUME Untouched PROVE /\ Len(root.read \o chunk) <= root.size
                                   /\ \A i \in 1..Len(root.read \o chunk) : (root.read \o chunk)[i] = ghost.seen[i]
                                   /\ reached = "hashed" => Len(root.read \o chunk) = root.size
        <4>1. /\ image[root.file].bytes = ghost.seen /\ root.size = Len(ghost.seen) /\ Len(root.read) <= root.size
              /\ \A i \in 1..Len(root.read) : root.read[i] = ghost.seen[i]
          BY <2>1, <3>3 DEF RInv, RootVersionInv
        <4>2. ghost.seen \in RootBytes /\ root.read \in RootBytes
          BY RootTypes DEF RInv
        <4>3. CASE chunk = <<>>
          <5>1. root.read \o chunk = root.read
            BY <4>2, <4>3 DEF RootBytes
          <5>2. Len(root.read) = root.size
            BY <2>1, <4>1, <4>2, <4>3, PositionedIs DEF RInv, RootBytes
          <5> QED
            BY <4>1, <5>1, <5>2
        <4>4. CASE chunk # <<>>
          <5>1. /\ Len(root.read) < Len(ghost.seen) /\ Len(root.read \o chunk) = Len(root.read) + 1
                /\ \A i \in 1..Len(root.read) : (root.read \o chunk)[i] = root.read[i]
                /\ (root.read \o chunk)[Len(root.read) + 1] = ghost.seen[Len(root.read) + 1]
            BY <2>1, <4>1, <4>4, PositionedIs DEF RInv
          <5>2. Len(root.read) \in Nat /\ Len(ghost.seen) \in Nat
            BY <4>2 DEF RootBytes
          <5>3. ASSUME NEW i \in 1..Len(root.read \o chunk)
                PROVE  (root.read \o chunk)[i] = ghost.seen[i]
            <6>1. i \in 1..Len(root.read) \/ i = Len(root.read) + 1
              BY <5>1, <5>2
            <6> QED
              BY <4>1, <5>1, <6>1
          <5>4. Len(root.read \o chunk) <= root.size
            BY <4>1, <5>1, <5>2
          <5> QED
            BY <4>4, <5>3, <5>4 DEF reached
        <4> QED
          BY <4>3, <4>4
      <3> QED
        BY <2>1, <2>4, <3>1, <3>2, <3>3 DEF HashChunk, RInv, RootVersionInv, Untouched, Verified
    <2>7. RootCopyInv'
      BY <2>1, <2>4 DEF reached, HashChunk, RInv, RootCopyInv, CopyIsExact, At
    <2> QED
      BY <2>5, <2>6, <2>7 DEF RInv
  <1> QED
    BY <1>1, <1>2 DEF HashChunk

LEMMA HashCheckedStep == ASSUME RInv, HashChecked PROVE RInv'
  <1> USE DEF outside
  <1>1. ASSUME NEW fault \in RootFaults, RefuseRoot(fault) PROVE RInv'
    BY <1>1, Refusing DEF HashChecked, RInv, RootTypeInv, RootCopyInv, At
  <1>2. CASE /\ judge_unchanged(<<root.stamp, root.size>>,
                                <<image[root.file].stamp, Len(image[root.file].bytes)>>)
             /\ root.read = Pinned /\ root' = [root EXCEPT !.step = "verified", !.read = <<>>]
    <2>1. /\ root' \in RootRecords /\ root'.step = "verified" /\ root'.file = root.file
          /\ root'.stamp = root.stamp /\ root'.read = <<>>
      BY <1>2, RootStepped, PinnedBytes DEF RInv, RootTypeInv, RootSteps
    <2>2. image[root.file].stamp = root.stamp /\ root.file \in Images
      BY <1>2 DEF judge_unchanged, HashChecked, At, RInv, RootVersionInv
    <2>3. ASSUME ~ghost.mapped PROVE ghost.seen = Pinned /\ image[root.file].bytes = Pinned
      <3>1. /\ image[root.file].bytes = ghost.seen /\ Len(root.read) = Len(ghost.seen)
            /\ \A i \in 1..Len(root.read) : root.read[i] = ghost.seen[i]
        BY <2>2, <2>3 DEF Untouched, HashChecked, At, RInv, RootVersionInv
      <3>2. root.read \in RootBytes /\ ghost.seen \in RootBytes
        BY RootTypes DEF RInv
      <3>3. root.read = ghost.seen
        BY <3>1, <3>2 DEF RootBytes
      <3> QED
        BY <1>2, <3>1, <3>3
    <2>4. RootTypeInv'
      BY <2>1 DEF HashChecked, RInv, RootTypeInv
    <2>5. RootVersionInv'
      BY <2>1, <2>2, <2>3, RootTypes DEF HashChecked, RInv, RootVersionInv, Untouched, Verified
    <2>6. RootCopyInv'
      BY <2>1 DEF HashChecked, RInv, RootCopyInv, CopyIsExact, At
    <2> QED
      BY <2>4, <2>5, <2>6 DEF RInv
  <1> QED
    BY <1>1, <1>2, FaultsAre DEF HashChecked

(* A step of the creation that only moves on.                               *)
LEMMA AskStep == ASSUME RInv, Ask PROVE RInv'
  <1> USE DEF outside
  <1>1. ASSUME NEW fault \in RootFaults, RefuseRoot(fault) PROVE RInv'
    BY <1>1, Refusing DEF Ask, RInv, RootTypeInv, RootCopyInv, At
  <1>2. CASE root' = [root EXCEPT !.step = "asked"]
    <2>1. /\ root' \in RootRecords /\ root'.step = "asked" /\ root'.file = root.file
          /\ root'.stamp = root.stamp /\ root'.read = root.read
      BY <1>2, RootStepped DEF RInv, RootTypeInv, RootSteps
    <2> QED
      BY <2>1 DEF Ask, RInv, RootTypeInv, RootVersionInv, Untouched, RootCopyInv, CopyIsExact, Verified, At
  <1> QED
    BY <1>1, <1>2, FaultsAre DEF Ask

LEMMA OpenNewStep == ASSUME RInv, OpenNew PROVE RInv'
  <1> USE DEF outside
  <1>1. ASSUME NEW fault \in RootFaults, RefuseRoot(fault), UNCHANGED <<copy, entry>> PROVE RInv'
    BY <1>1, Refusing DEF OpenNew, RInv, RootTypeInv, RootCopyInv, At
  <1>2. CASE /\ entry' = "copy" /\ copy' = [copy EXCEPT !.made = TRUE]
             /\ root' = [root EXCEPT !.step = "created"]
    <2>1. /\ root' \in RootRecords /\ root'.step = "created" /\ root'.file = root.file
          /\ root'.stamp = root.stamp /\ root'.read = root.read
      BY <1>2, RootStepped DEF RInv, RootTypeInv, RootSteps
    <2>2. copy' \in CopyRecords /\ copy'.bytes = copy.bytes
      BY <1>2 DEF RInv, RootTypeInv, CopyRecords
    <2> QED
      BY <1>2, <2>1, <2>2
      DEF OpenNew, RInv, RootTypeInv, RootVersionInv, Untouched, RootCopyInv, CopyIsExact, Verified, At
  <1> QED
    BY <1>1, <1>2, FaultsAre DEF OpenNew

LEMMA IdentifyStep == ASSUME RInv, Identify PROVE RInv'
  <1> USE DEF outside
  <1>1. CASE RefuseRoot("Unidentified")
    BY <1>1, Refusing, FaultsAre DEF Identify, RInv, RootTypeInv
  <1>2. CASE root' = [root EXCEPT !.step = "identified"]
    <2>1. /\ root' \in RootRecords /\ root'.step = "identified" /\ root'.file = root.file
          /\ root'.stamp = root.stamp /\ root'.read = root.read
      BY <1>2, RootStepped DEF RInv, RootTypeInv, RootSteps
    <2> QED
      BY <2>1 DEF Identify, RInv, RootTypeInv, RootVersionInv, Untouched, RootCopyInv, CopyIsExact, Verified, At
  <1> QED
    BY <1>1, <1>2 DEF Identify

LEMMA SetModeStep == ASSUME RInv, SetMode PROVE RInv'
  <1> USE DEF outside
  <1>1. CASE DropRoot("Io") /\ UNCHANGED copy
    BY <1>1, Dropping, FaultsAre DEF SetMode, RInv, RootTypeInv
  <1>2. CASE root' = [root EXCEPT !.step = "copying"] /\ copy' = [copy EXCEPT !.private = TRUE]
    <2>1. /\ root' \in RootRecords /\ root'.step = "copying" /\ root'.file = root.file
          /\ root'.stamp = root.stamp /\ root'.read = root.read
      BY <1>2, RootStepped DEF RInv, RootTypeInv, RootSteps
    <2>2. copy' \in CopyRecords /\ copy'.bytes = copy.bytes /\ copy'.private
      BY <1>2 DEF RInv, RootTypeInv, CopyRecords
    <2> QED
      BY <1>2, <2>1, <2>2
      DEF SetMode, RInv, RootTypeInv, RootVersionInv, Untouched, RootCopyInv, CopyIsExact, Verified, At
  <1> QED
    BY <1>1, <1>2 DEF SetMode

LEMMA CopyChunkStep == ASSUME RInv, CopyChunk PROVE RInv'
  <1> USE DEF outside
  <1> DEFINE chunk == Positioned(root.file)
  <1>1. CASE DropRoot("Io") /\ UNCHANGED copy
    BY <1>1, Dropping, FaultsAre DEF CopyChunk, RInv, RootTypeInv
  <1>2. CASE /\ root' = [root EXCEPT !.step = IF chunk = <<>> THEN "copied" ELSE @, !.read = @ \o chunk]
             /\ copy' = [copy EXCEPT !.bytes = @ \o chunk]
    <2>1. root.step = "copying" /\ root.file \in Images
      BY DEF CopyChunk, At, RInv, RootVersionInv, Verified
    <2> DEFINE reached == IF chunk = <<>> THEN "copied" ELSE "copying"
    <2>2. root' = [root EXCEPT !.step = reached, !.read = root.read \o chunk] /\ reached \in {"copied", "copying"}
      BY <1>2, <2>1 DEF RInv, RootTypeInv, RootRecords
    <2>3. root.read \o chunk \in RootBytes
      BY <2>1, PositionedIs DEF RInv
    <2> HIDE DEF reached, chunk
    <2>4. /\ root' \in RootRecords /\ root'.step = reached /\ root'.file = root.file /\ root'.stamp = root.stamp
          /\ root'.read = root.read \o chunk
      BY <2>2, <2>3, RootStepped DEF RInv, RootTypeInv, RootSteps
    <2>5. /\ copy' \in CopyRecords /\ copy'.private = copy.private /\ copy'.bytes = root.read \o chunk
      BY <1>2, <2>1, <2>3 DEF RInv, RootTypeInv, RootCopyInv, CopyRecords
    <2>6. RootTypeInv' /\ RootVersionInv'
      BY <2>1, <2>2, <2>4, <2>5 DEF CopyChunk, RInv, RootTypeInv, RootVersionInv, Untouched, Verified
    <2>7. RootCopyInv'
      BY <2>1, <2>2, <2>4, <2>5 DEF CopyChunk, RInv, RootCopyInv, CopyIsExact, At
    <2> QED
      BY <2>6, <2>7 DEF RInv
  <1> QED
    BY <1>1, <1>2 DEF CopyChunk

LEMMA SyncCopyStep == ASSUME RInv, SyncCopy PROVE RInv'
  <1> USE DEF outside
  <1>1. ASSUME NEW fault \in RootFaults, DropRoot(fault), UNCHANGED copy PROVE RInv'
    BY <1>1, Dropping DEF SyncCopy, RInv, RootTypeInv
  <1>2. CASE /\ copy_verified(root.read) /\ root' = [root EXCEPT !.step = "synced"]
             /\ copy' = [copy EXCEPT !.synced = TRUE]
    <2>1. /\ root' \in RootRecords /\ root'.step = "synced" /\ root'.file = root.file
          /\ root'.stamp = root.stamp
      BY <1>2, RootStepped DEF RInv, RootTypeInv, RootSteps
    <2>2. /\ copy' \in CopyRecords /\ copy'.bytes = copy.bytes /\ copy'.private = copy.private /\ copy'.synced
      BY <1>2 DEF RInv, RootTypeInv, CopyRecords
    <2> QED
      BY <1>2, <2>1, <2>2
      DEF SyncCopy, copy_verified, RInv, RootTypeInv, RootVersionInv, Untouched, RootCopyInv, CopyIsExact, Verified, At
  <1> QED
    BY <1>1, <1>2, FaultsAre DEF SyncCopy

LEMMA ReconfirmOpensStep == ASSUME RInv, ReconfirmOpens PROVE RInv'
  <1> USE DEF outside
  <1>1. PICK fault \in open_file : IF fault = "ok" THEN Opened("reopened") ELSE DropRoot(fault)
    BY DEF ReconfirmOpens
  <1>2. fault \in RootFaults \/ (fault = "ok" /\ imagePath \in Images)
    BY <1>1, OpenFaults, FaultsAre DEF open_file, RInv, RootTypeInv
  <1>3. CASE fault # "ok"
    BY <1>1, <1>2, <1>3, Dropping DEF ReconfirmOpens, RInv, RootTypeInv
  <1>4. CASE fault = "ok"
    <2>1. /\ root' \in RootRecords /\ root'.step = "reopened" /\ root'.opened = imagePath /\ imagePath \in Images
          /\ root'.file = root.file /\ root'.stamp = root.stamp
      BY <1>1, <1>2, <1>4, RootStepped, FaultsAre DEF RInv, RootTypeInv, Opened, RootSteps
    <2> QED
      BY <2>1
      DEF ReconfirmOpens, RInv, RootTypeInv, RootVersionInv, Untouched, RootCopyInv, CopyIsExact, Verified, At
  <1> QED
    BY <1>3, <1>4

LEMMA ReconfirmedStep == ASSUME RInv, Reconfirmed PROVE RInv'
  <1> USE DEF outside
  <1>1. root.opened \in Images /\ image[root.opened].bytes \in RootBytes
    BY RootTypes DEF Reconfirmed, At, RInv, RootVersionInv
  <1>2. /\ ghost' \in GhostRecords /\ ghost'.struck = ghost.struck /\ ghost'.late = ghost.late
        /\ ghost'.mapped = ghost.mapped /\ ghost'.seen = image[root.opened].bytes
    BY <1>1 DEF Reconfirmed, RInv, RootTypeInv, GhostRecords
  <1>3. CASE DropRoot("Source")
    BY <1>2, <1>3, Dropping, FaultsAre DEF Reconfirmed, RInv, RootTypeInv
  <1>4. CASE same_file(root.opened) /\ root' = [root EXCEPT !.step = "ready", !.result = "Ok"]
    <2>1. root' \in RootRecords /\ root'.step = "ready"
      BY <1>4, RootStepped DEF RInv, RootTypeInv, RootSteps, RootResults
    <2>2. root.opened = root.file /\ image[root.file].stamp = root.stamp
      BY <1>4 DEF same_file, judge_unchanged
    <2>3. ~ghost'.mapped => ghost'.seen = Pinned
      BY <1>2, <2>2 DEF Reconfirmed, At, RInv, RootVersionInv, Untouched, Verified
    <2> QED
      BY <1>2, <2>1, <2>3
      DEF Reconfirmed, RInv, RootTypeInv, RootVersionInv, Untouched, RootCopyInv, CopyIsExact, Verified, At
  <1> QED
    BY <1>3, <1>4 DEF Reconfirmed

LEMMA RemoveRootStep == ASSUME RInv, RemoveRoot PROVE RInv'
  <1> USE DEF outside
  <1>1. root' \in RootRecords /\ root'.step = "removing"
    BY RootStepped DEF RemoveRoot, RInv, RootTypeInv, RootSteps
  <1> QED
    BY <1>1 DEF RemoveRoot, RInv, RootTypeInv, RootVersionInv, RootCopyInv, CopyIsExact, Verified, At

(* Any end of the removal, if it leaves no copy of a refused one unsaid.    *)
LEMMA Ending ==
    ASSUME RInv, NEW outcome \in RootRemovals, Ended(outcome), UNCHANGED <<outside, copy>>,
           entry' \in {"nothing", "alien", "copy"}, entry' = "copy" => outcome = "Failed",
           ghost' \in GhostRecords, ghost'.struck => ghost'.late
    PROVE  RInv'
  <1>1. root' \in RootRecords /\ root'.step \in {"removed", "refused"} /\ root'.removal = outcome
    <2> DEFINE reached == IF root.result = "Ok" THEN "removed" ELSE "refused"
    <2>1. root' = [root EXCEPT !.step = reached, !.removal = outcome] /\ reached \in {"removed", "refused"}
      BY DEF Ended
    <2> HIDE DEF reached
    <2> QED
      BY <2>1, RootStepped DEF RInv, RootTypeInv, RootSteps
  <1> QED
    BY <1>1 DEF RInv, RootTypeInv, RootVersionInv, RootCopyInv, CopyIsExact, Verified, At, outside

LEMMA InspectStep == ASSUME RInv, Inspect PROVE RInv'
  <1> USE DEF outside
  <1>1. ASSUME NEW outcome \in RootRemovals, Ended(outcome), entry = "copy" => outcome = "Failed" PROVE RInv'
    BY <1>1, Ending DEF Inspect, RInv, RootTypeInv, RootCopyInv, CopyIsExact
  <1>2. CASE inspected /\ root' = [root EXCEPT !.step = "inspected"]
    <2>1. root' \in RootRecords /\ root'.step = "inspected"
      BY <1>2, RootStepped DEF RInv, RootTypeInv, RootSteps
    <2> QED
      BY <1>2, <2>1
      DEF Inspect, inspected, RInv, RootTypeInv, RootVersionInv, RootCopyInv, CopyIsExact, Verified, At
  <1> QED
    BY <1>1, <1>2 DEF Inspect, inspected, RootRemovals

LEMMA UnlinkStep == ASSUME RInv, Unlink PROVE RInv'
  <1> USE DEF outside
  <1>1. CASE Ended("Failed") /\ UNCHANGED <<entry, ghost>>
    BY <1>1, Ending DEF Unlink, RInv, RootTypeInv, RootCopyInv, CopyIsExact, RootRemovals
  <1>2. CASE entry = "nothing" /\ Ended("AlreadyGone") /\ UNCHANGED <<entry, ghost>>
    BY <1>2, Ending DEF Unlink, RInv, RootTypeInv, RootCopyInv, CopyIsExact, RootRemovals
  <1>3. CASE /\ entry' = "nothing" /\ Ended("Removed")
             /\ ghost' = [ghost EXCEPT !.struck = @ \/ entry = "alien"]
    <2>1. /\ ghost' \in GhostRecords /\ ghost'.late = ghost.late
          /\ ghost'.struck = (ghost.struck \/ entry = "alien")
      BY <1>3 DEF RInv, RootTypeInv, GhostRecords
    <2>2. ghost'.struck => ghost'.late
      BY <2>1 DEF Unlink, At, RInv, RootCopyInv, CopyIsExact
    <2> QED
      BY <1>3, <2>1, <2>2, Ending DEF Unlink, RootRemovals
  <1> QED
    BY <1>1, <1>2, <1>3 DEF Unlink

(* A write that moves the times, or one through a mapping.                  *)
LEMMA ImageChanges ==
    ASSUME RInv, image' \in ImageRecords, image'["Twin"] = image["Twin"],
           image'["Image"].stamp >= image["Image"].stamp,
           ghost'.mapped \/ image'["Image"].stamp > image["Image"].stamp,
           ghost' \in GhostRecords, ghost.mapped => ghost'.mapped, ghost'.seen = ghost.seen,
           ghost'.late = ghost.late, ghost'.struck = ghost.struck,
           UNCHANGED <<imagePath, root, copy, entry>>
    PROVE  RInv'
  <1>1. RootTypeInv'
    BY DEF RInv, RootTypeInv
  <1>2. RootCopyInv'
    BY DEF RInv, RootCopyInv, CopyIsExact, At
  <1>3. \A f \in Images : /\ image[f].stamp \in Nat /\ image'[f].stamp \in Nat
                          /\ image'[f].stamp >= image[f].stamp
    BY DEF RInv, RootTypeInv, ImageRecords, Images
  <1>4. root.stamp \in Nat
    BY RootTypes DEF RInv
  <1>5. CASE root.file \in Images
    <2>1. image[root.file].stamp >= root.stamp => image'[root.file].stamp >= root.stamp
      BY <1>3, <1>4, <1>5
    <2>2. Untouched' /\ image[root.file].stamp >= root.stamp =>
            Untouched /\ image'[root.file] = image[root.file]
      BY <1>3, <1>4, <1>5 DEF Untouched, Images
    <2> QED
      BY <1>1, <1>2, <1>5, <2>1, <2>2 DEF RInv, RootVersionInv, Verified
  <1>6. CASE root.file \notin Images
    BY <1>1, <1>2, <1>6 DEF RInv, RootVersionInv, Verified
  <1> QED
    BY <1>5, <1>6

LEMMA WriteImageStep == ASSUME RInv, WriteImage PROVE RInv'
  <1>1. PICK mapped \in BOOLEAN, i \in DOMAIN image["Image"].bytes, value \in {"p", "q", "x"} :
          /\ image' = [image EXCEPT !["Image"].bytes = [@ EXCEPT ![i] = value],
                                    !["Image"].stamp = IF mapped THEN @ ELSE @ + 1]
          /\ ghost' = [ghost EXCEPT !.mapped = @ \/ mapped]
    BY DEF WriteImage
  <1>2. image \in ImageRecords /\ ghost \in GhostRecords
    BY DEF RInv, RootTypeInv
  <1>3. [image["Image"].bytes EXCEPT ![i] = value] \in RootBytes
    <2>1. image["Image"].bytes \in RootBytes
      BY <1>2 DEF ImageRecords, Images
    <2> QED
      BY <2>1 DEF RootBytes
  <1>4. /\ image' \in ImageRecords /\ image'["Twin"] = image["Twin"]
        /\ image'["Image"].stamp = IF mapped THEN image["Image"].stamp ELSE image["Image"].stamp + 1
    <2> DEFINE bytes == [image["Image"].bytes EXCEPT ![i] = value]
               stamp == IF mapped THEN image["Image"].stamp ELSE image["Image"].stamp + 1
    <2>1. image' = [image EXCEPT !["Image"].bytes = bytes, !["Image"].stamp = stamp]
      BY <1>1, <1>2 DEF ImageRecords, Images
    <2>2. bytes \in RootBytes /\ stamp \in Nat
      BY <1>2, <1>3 DEF ImageRecords, Images
    <2> HIDE DEF bytes, stamp
    <2>3. image' \in ImageRecords /\ image'["Twin"] = image["Twin"] /\ image'["Image"].stamp = stamp
      BY <1>2, <2>1, <2>2 DEF ImageRecords, Images
    <2> QED
      BY <2>3 DEF stamp
  <1>5. /\ ghost' \in GhostRecords /\ ghost'.mapped = (ghost.mapped \/ mapped) /\ ghost'.seen = ghost.seen
        /\ ghost'.late = ghost.late /\ ghost'.struck = ghost.struck
    BY <1>1, <1>2 DEF GhostRecords
  <1>6. image["Image"].stamp \in Nat
    BY <1>2 DEF ImageRecords, Images
  <1>7. /\ image'["Image"].stamp >= image["Image"].stamp
        /\ ghost'.mapped \/ image'["Image"].stamp > image["Image"].stamp
    BY <1>4, <1>5, <1>6
  <1> QED
    BY <1>4, <1>5, <1>7, ImageChanges DEF WriteImage

LEMMA ResizeImageStep == ASSUME RInv, ResizeImage PROVE RInv'
  <1> DEFINE bytes == image["Image"].bytes
  <1>1. image \in ImageRecords /\ ghost \in GhostRecords
    BY DEF RInv, RootTypeInv
  <1>2. bytes \in RootBytes /\ image["Image"].stamp \in Nat
    BY <1>1 DEF ImageRecords, Images
  <1>3. PICK new \in {Append(bytes, "x"), IF bytes = <<>> THEN bytes ELSE SubSeq(bytes, 1, Len(bytes) - 1)} \ {bytes} :
          image' = [image EXCEPT !["Image"].bytes = new, !["Image"].stamp = @ + 1]
    BY DEF ResizeImage
  <1>4. new \in RootBytes
    <2>1. Append(bytes, "x") \in RootBytes
      BY <1>2 DEF RootBytes
    <2>2. bytes # <<>> => SubSeq(bytes, 1, Len(bytes) - 1) \in RootBytes
      BY <1>2 DEF RootBytes
    <2> QED
      BY <1>2, <1>3, <2>1, <2>2
  <1>5. /\ image' \in ImageRecords /\ image'["Twin"] = image["Twin"]
        /\ image'["Image"].stamp = image["Image"].stamp + 1
    BY <1>1, <1>3, <1>4 DEF ImageRecords, Images
  <1> QED
    BY <1>1, <1>2, <1>5, ImageChanges DEF ResizeImage

LEMMA RenameStep == ASSUME RInv, RenameImage \/ RenameDirectory PROVE RInv'
  <1>1. /\ imagePath' \in Images \cup {"none"}
        /\ UNCHANGED <<image, root, copy, entry, ghost>>
    BY DEF RenameImage, RenameDirectory, RInv, RootTypeInv, Images
  <1> QED
    BY <1>1 DEF RInv, RootTypeInv, RootVersionInv, Untouched, RootCopyInv, CopyIsExact, Verified, At

LEMMA MeddleWithNameStep == ASSUME RInv, MeddleWithName PROVE RInv'
  <1>1. PICK other \in {"nothing", "alien"} : /\ entry' = other
          /\ ghost' = [ghost EXCEPT !.late = @ \/ (other = "alien" /\ At("inspected"))]
    BY DEF MeddleWithName
  <1>2. /\ ghost' \in GhostRecords /\ ghost'.mapped = ghost.mapped /\ ghost'.seen = ghost.seen
        /\ ghost'.struck = ghost.struck /\ ghost'.late = (ghost.late \/ (other = "alien" /\ At("inspected")))
    BY <1>1 DEF RInv, RootTypeInv, GhostRecords
  <1>3. RootTypeInv'
    BY <1>1, <1>2 DEF MeddleWithName, RInv, RootTypeInv
  <1>4. RootVersionInv'
    BY <1>2 DEF MeddleWithName, RInv, RootVersionInv, Untouched, Verified
  <1>5. RootCopyInv'
    BY <1>1, <1>2 DEF MeddleWithName, RInv, RootCopyInv, CopyIsExact, At
  <1> QED
    BY <1>3, <1>4, <1>5 DEF RInv

LEMMA RootStep == RInv /\ [RootNext]_rootVars => RInv'
  <1> SUFFICES ASSUME RInv, [RootNext]_rootVars PROVE RInv'
    OBVIOUS
  <1>1. CASE UNCHANGED rootVars
    BY <1>1 DEF rootVars, RInv, RootTypeInv, RootVersionInv, Untouched, RootCopyInv, CopyIsExact, Verified, At
  <1>2. CASE RootNext
    BY <1>2, VerifyOpensStep, CheckStampStep, HashChunkStep, HashCheckedStep, AskStep, OpenNewStep, IdentifyStep,
       SetModeStep, CopyChunkStep, SyncCopyStep, ReconfirmOpensStep, ReconfirmedStep, RemoveRootStep, InspectStep,
       UnlinkStep, WriteImageStep, ResizeImageStep, RenameStep, MeddleWithNameStep DEF RootNext
  <1> QED
    BY <1>1, <1>2

(* What a cell boots from is what was pinned, whatever another process      *)
(* writes to the image or does with the names, and however often.           *)
THEOREM PinnedRoot == RootSpec => []RootIsPinned
  <1>1. RInv => RootIsPinned
    BY DEF RInv, RootVersionInv, RootCopyInv, RootIsPinned, VerifiedIsOneVersion
  <1> QED
    BY RootStart, RootStep, <1>1, PTL DEF RootSpec

-----------------------------------------------------------------------------
(* Pinning.  What is left to visit is at most two names deep, for a         *)
(* directory below the root's directories holds no directory; what was      *)
(* pinned is listed, and a listing that was checked has each path once.     *)
(* While nothing was swapped, a file that the package does not list is      *)
(* still to be visited.                                                     *)

Branches == {<<>>} \cup {<<name>> : name \in TreeNames}
TreePaths == Branches \cup {<<up, name>> : up \in TreeNames, name \in TreeNames}
EntryKinds == {"dir", "file", "Link", "NotRegular"}
Visits == {v \in [path : TreePaths, dir : BOOLEAN, kind : EntryKinds] : v.dir => v.path \in Branches}

AnyNode == TreeDirs \cup TreeFiles \cup DOMAIN Target \cup {"fifo", "none"}

Package == {[path |-> listing[n].path, bytes |-> listing[n].bytes] : n \in DOMAIN listing}

PinTypeOK ==
    /\ no_follow_any \in BOOLEAN /\ listing \in Listings /\ swaps \in Nat
    /\ pinner \in [step : {"listing", "root", "checked", "visit", "list", "listed", "opened", "pinned", "refused"},
                   todo : Seq(Visits), held : AnyNode, files : SUBSET Package,
                   result : {"none", "listing", "Unreadable", "Link", "Unexpected", "NotRegular", "file", "dir",
                             "DigestMismatch", "Missing"}]

(* What the names can name.                                                 *)
TreesInv ==
    /\ top \in {"R", "LX", "none"}
    /\ inside \in [TreeDirs -> [TreeNames -> AnyNode]]
    /\ \A name \in TreeNames :
          /\ inside["R"][name] \in {"A", "LXA", "fifo", "D", "LXD", "U", "none"}
          /\ inside["X"][name] \in {"XA", "XD", "none"}
          /\ inside["D"][name] \in {"B", "LXB", "U", "none"}
          /\ inside["XD"][name] \in {"XB", "none"}

OneOfEach ==
    \A m, n \in DOMAIN listing :
        LET p == to_ascii_lowercase(listing[m].path)
            q == to_ascii_lowercase(listing[n].path)
        IN m # n => p # q /\ p \notin Ancestors(q)

(* A visit that leads to the file that is not listed.                       *)
Leads(v) == (v.dir /\ v.path \in {<<>>, <<"d">>}) \/ (~v.dir /\ v.path = <<"d", "u">>)

PinStepInv ==
    /\ pinner.step = "list" => pinner.todo # <<>> /\ Here.dir
    /\ pinner.step \in {"listed", "opened"} => pinner.todo # <<>> /\ ~Here.dir /\ ListedAt(Here.path) # {}
    /\ pinner.step \notin {"listing", "refused"} => OneOfEach
    /\ pinner.step = "pinned" => pinner.files = Package

LeftAloneInv ==
    swaps = 0 =>
        /\ top = "R" /\ inside["R"]["d"] = "D"
        /\ inside["D"]["u"] # "none" =>
              /\ pinner.step # "pinned"
              /\ pinner.step \in {"visit", "list", "listed", "opened"} =>
                    \E i \in DOMAIN pinner.todo : Leads(pinner.todo[i])

OutsideInv == no_follow_any => touched \cap OutsideNodes = {}

PinInv == PinTypeOK /\ TreesInv /\ PinStepInv /\ LeftAloneInv /\ OutsideInv

LEMMA ListingFacts ==
    ASSUME listing \in Listings
    PROVE  /\ DOMAIN listing \subseteq Nat
           /\ \A n \in DOMAIN listing : listing[n].path # <<"d", "u">>
<1>1. \A p : Listed(p).path = p
  BY DEF Listed
<1>2. /\ <<"a">> # <<"d", "u">> /\ <<"A">> # <<"d", "u">> /\ <<"d">> # <<"d", "u">> /\ <<"..">> # <<"d", "u">>
      /\ <<"d", "b">> # <<"d", "u">> /\ <<"D", "b">> # <<"d", "u">>
  OBVIOUS
<1> QED
  BY <1>1, <1>2 DEF Listings

(* check_listing looks back only; a later path is held against every earlier *)
(* one, as its file, below it and above it.                                 *)
LEMMA CheckedListing ==
    ASSUME listing \in Listings, check_listing(listing)
    PROVE  OneOfEach
<1> DEFINE folded(n) == to_ascii_lowercase(listing[n].path)
<1>1. ASSUME NEW m \in DOMAIN listing, NEW n \in DOMAIN listing, m < n
      PROVE  folded(m) # folded(n) /\ folded(m) \notin Ancestors(folded(n)) /\ folded(n) \notin Ancestors(folded(m))
  <2> DEFINE before == {folded(i) : i \in 1 .. n - 1}
  <2>1. m \in 1 .. n - 1
    BY <1>1, ListingFacts DEF Listings
  <2>2. folded(m) \in before
    BY <2>1
  <2>3. ~collides(before, UNION {Ancestors(p) : p \in before}, folded(n))
    BY DEF check_listing
  <2> HIDE DEF before, folded
  <2>4. /\ folded(n) \notin before /\ folded(n) \notin UNION {Ancestors(p) : p \in before}
        /\ Ancestors(folded(n)) \cap before = {}
    BY <2>3 DEF collides
  <2> QED
    BY <2>2, <2>4
<1>2. \A m, n \in DOMAIN listing : m # n => m < n \/ n < m
  BY ListingFacts
<1> HIDE DEF folded
<1>3. \A m, n \in DOMAIN listing : m # n => folded(m) # folded(n) /\ folded(m) \notin Ancestors(folded(n))
  BY <1>1, <1>2
<1> QED
  BY <1>3 DEF OneOfEach, folded

LEMMA PathTypes ==
    ASSUME TreesInv, NEW path \in TreePaths
    PROVE  /\ NodeAt(path) \in AnyNode
           /\ path = <<>> => Follow(NodeAt(path)) \in {"R", "X", "none"}
           /\ path \in Branches /\ path # <<>> =>
                 Follow(NodeAt(path)) \in {"A", "XA", "fifo", "D", "XD", "U", "none"}
<1>1. Follow(top) \in {"R", "X", "none"} /\ top \in AnyNode
  BY DEF TreesInv, Follow, IsLink, Target, AnyNode, TreeDirs
<1>2. ASSUME NEW name \in TreeNames
      PROVE  In(Follow(top), name) \in {"A", "LXA", "fifo", "D", "LXD", "U", "none", "XA", "XD"}
  BY <1>1 DEF TreesInv, In, TreeDirs
<1>3. ASSUME NEW name \in TreeNames
      PROVE  Follow(In(Follow(top), name)) \in {"A", "XA", "fifo", "D", "XD", "U", "none"}
  BY <1>2 DEF Follow, IsLink, Target
<1>4. ASSUME NEW under, NEW name \in TreeNames PROVE In(under, name) \in AnyNode
  <2>1. "none" \in AnyNode
    BY DEF AnyNode
  <2>2. under \in TreeDirs => inside[under][name] \in AnyNode
    BY DEF TreesInv
  <2> QED
    BY <2>1, <2>2 DEF In
<1>5. CASE path = <<>>
  BY <1>1, <1>5 DEF NodeAt
<1>6. CASE path \in {<<name>> : name \in TreeNames}
  <2>1. PICK name \in TreeNames : path = <<name>>
    BY <1>6
  <2>2. NodeAt(path) = In(Follow(top), name)
    BY <2>1 DEF NodeAt
  <2> QED
    BY <1>3, <1>4, <2>1, <2>2
<1>7. CASE path \in {<<up, name>> : up \in TreeNames, name \in TreeNames}
  <2>1. PICK up \in TreeNames, name \in TreeNames : path = <<up, name>>
    BY <1>7
  <2>2. NodeAt(path) = In(Follow(In(Follow(top), up)), name)
    BY <2>1 DEF NodeAt
  <2>3. path \notin Branches
    BY <2>1 DEF Branches
  <2> QED
    BY <1>4, <2>1, <2>2, <2>3
<1> QED
  BY <1>5, <1>6, <1>7 DEF TreePaths, Branches

(* On macOS, what opens is inside.                                          *)
LEMMA OpensInside ==
    ASSUME TreesInv, NEW path \in TreePaths, no_follow_any, open_without_links(path) = "ok"
    PROVE  NodeAt(path) \notin OutsideNodes
<1>1. ~IsLink(NodeAt(path)) /\ ~ThroughLink(path)
  BY DEF open_without_links
<1>2. \A n \in 0 .. Len(path) - 1 : ~IsLink(NodeAt(SubSeq(path, 1, n)))
  BY <1>1 DEF ThroughLink
<1>3. CASE path = <<>>
  BY <1>3 DEF NodeAt, TreesInv, OutsideNodes
<1>4. ASSUME ~IsLink(NodeAt(<<>>)) PROVE Follow(top) \in {"R", "none"}
  BY <1>4 DEF NodeAt, Follow, TreesInv, IsLink, Target
<1>5. ASSUME NEW name \in TreeNames, Follow(top) \in {"R", "none"}
      PROVE  In(Follow(top), name) \in {"A", "LXA", "fifo", "D", "LXD", "U", "none"}
  BY <1>5 DEF In, TreesInv, TreeDirs
<1>6. CASE path \in {<<name>> : name \in TreeNames}
  <2>1. PICK name \in TreeNames : path = <<name>>
    BY <1>6
  <2>2. SubSeq(path, 1, 0) = <<>> /\ 0 \in 0 .. Len(path) - 1
    BY <2>1
  <2>3. Follow(top) \in {"R", "none"}
    BY <1>2, <1>4, <2>2
  <2>4. NodeAt(path) = In(Follow(top), name)
    BY <2>1 DEF NodeAt
  <2> QED
    BY <1>5, <2>3, <2>4 DEF OutsideNodes
<1>7. CASE path \in {<<up, name>> : up \in TreeNames, name \in TreeNames}
  <2>1. PICK up \in TreeNames, name \in TreeNames : path = <<up, name>>
    BY <1>7
  <2>2. SubSeq(path, 1, 0) = <<>> /\ 0 \in 0 .. Len(path) - 1 /\ 1 \in 0 .. Len(path) - 1
    BY <2>1
  <2>3. Len(SubSeq(path, 1, 1)) = 1 /\ SubSeq(path, 1, 1)[1] = up
    <3>1. path \in Seq(TreeNames) /\ Len(path) = 2 /\ path[1] = up
      BY <2>1
    <3> QED
      BY <3>1
  <2>4. Follow(top) \in {"R", "none"}
    BY <1>2, <1>4, <2>2
  <2>5. ~IsLink(NodeAt(SubSeq(path, 1, 1)))
    BY <1>2, <2>2
  <2>6. ~IsLink(In(Follow(top), up))
    BY <2>3, <2>5 DEF NodeAt
  <2>7. Follow(In(Follow(top), up)) \in {"A", "fifo", "D", "U", "none"}
    BY <1>5, <2>4, <2>6 DEF Follow, IsLink, Target
  <2>8. In(Follow(In(Follow(top), up)), name) \in {"B", "LXB", "U", "none"}
    BY <2>7 DEF In, TreesInv, TreeDirs
  <2>9. NodeAt(path) = In(Follow(In(Follow(top), up)), name)
    BY <2>1 DEF NodeAt
  <2> QED
    BY <2>8, <2>9 DEF OutsideNodes
<1> QED
  BY <1>3, <1>6, <1>7 DEF TreePaths, Branches

LEMMA JoinedAt ==
    ASSUME NEW S, NEW s \in Seq(S), NEW t \in Seq(S)
    PROVE  /\ s \o t \in Seq(S)
           /\ Len(s \o t) = Len(s) + Len(t)
           /\ \A i \in 1 .. Len(s) : (s \o t)[i] = s[i]
           /\ Len(t) = 1 => (s \o t)[Len(s) + 1] = t[1]
<1>1. Len(s) \in Nat /\ Len(t) \in Nat
  OBVIOUS
<1>2. \A i \in 1 .. Len(s) + Len(t) :
         (s \o t)[i] = IF i <= Len(s) THEN s[i] ELSE t[i - Len(s)]
  BY <1>1
<1>3. ASSUME Len(t) = 1
      PROVE  (s \o t)[Len(s) + 1] = t[1]
  <2>1. /\ Len(s) + 1 \in 1 .. Len(s) + Len(t)
        /\ ~(Len(s) + 1 <= Len(s))
        /\ (Len(s) + 1) - Len(s) = 1
    BY <1>1, <1>3
  <2> QED
    BY <1>2, <2>1
<1>4. s \o t \in Seq(S) /\ Len(s \o t) = Len(s) + Len(t)
  OBVIOUS
<1>5. \A i \in 1 .. Len(s) : (s \o t)[i] = s[i]
  BY <1>1, <1>2
<1> QED
  BY <1>3, <1>4, <1>5

LEMMA NamesFacts ==
    ASSUME NEW under
    PROVE  /\ NamesIn(under) \in Seq(TreeNames)
           /\ \A name \in TreeNames : In(under, name) # "none" =>
                 \E i \in DOMAIN NamesIn(under) : NamesIn(under)[i] = name
<1> DEFINE present(name) == IF In(under, name) = "none" THEN <<>> ELSE <<name>>
           a == present("a")
           b == present("b")
           d == present("d")
           u == present("u")
<1>1. \A name \in TreeNames :
         /\ present(name) \in Seq(TreeNames) /\ Len(present(name)) \in {0, 1}
         /\ In(under, name) # "none" => Len(present(name)) = 1 /\ present(name)[1] = name
  OBVIOUS
<1>2. NamesIn(under) = a \o b \o d \o u
  BY DEF NamesIn
<1>3. /\ a \in Seq(TreeNames) /\ b \in Seq(TreeNames) /\ d \in Seq(TreeNames) /\ u \in Seq(TreeNames)
      /\ Len(a) \in Nat /\ Len(b) \in Nat /\ Len(d) \in Nat /\ Len(u) \in Nat
      /\ In(under, "a") # "none" => Len(a) = 1 /\ a[1] = "a"
      /\ In(under, "b") # "none" => Len(b) = 1 /\ b[1] = "b"
      /\ In(under, "d") # "none" => Len(d) = 1 /\ d[1] = "d"
      /\ In(under, "u") # "none" => Len(u) = 1 /\ u[1] = "u"
  BY <1>1 DEF TreeNames
<1> HIDE DEF a, b, d, u
<1>4. /\ (a \o b \o d \o u) \in Seq(TreeNames)
      /\ Len(a \o b \o d \o u) = Len(a) + Len(b) + Len(d) + Len(u)
  BY <1>3
<1>5. /\ Len(a) = 1 => (a \o b \o d \o u)[1] = a[1]
      /\ Len(b) = 1 => (a \o b \o d \o u)[Len(a) + 1] = b[1]
      /\ Len(d) = 1 => (a \o b \o d \o u)[Len(a) + Len(b) + 1] = d[1]
      /\ Len(u) = 1 => (a \o b \o d \o u)[Len(a) + Len(b) + Len(d) + 1] = u[1]
  <2> DEFINE ab == a \o b
             abd == a \o b \o d
  <2>1. ab \in Seq(TreeNames) /\ Len(ab) = Len(a) + Len(b)
    BY <1>3
  <2>2. (Len(a) = 1 => ab[1] = a[1]) /\ (Len(b) = 1 => ab[Len(a) + 1] = b[1])
    BY <1>3
  <2> HIDE DEF ab
  <2>3. abd = ab \o d
    BY DEF ab
  <2>4. abd \in Seq(TreeNames) /\ Len(abd) = Len(a) + Len(b) + Len(d)
    BY <1>3, <2>1, <2>3
  <2>5. \A i \in 1 .. Len(ab) : abd[i] = ab[i]
    BY <1>3, <2>1, <2>3
  <2>6. Len(d) = 1 => abd[Len(ab) + 1] = d[1]
    <3>1. ab \in Seq(TreeNames) /\ d \in Seq(TreeNames)
      BY <1>3, <2>1
    <3> HIDE DEF abd
    <3>2. Len(d) = 1 => (ab \o d)[Len(ab) + 1] = d[1]
      BY <3>1, JoinedAt
    <3> QED
      BY <2>3, <3>2
  <2> HIDE DEF abd
  <2>7. a \o b \o d \o u = abd \o u
    BY DEF abd
  <2>8. \A i \in 1 .. Len(abd) : (abd \o u)[i] = abd[i]
    BY <1>3, <2>4
  <2>9. Len(u) = 1 => (abd \o u)[Len(abd) + 1] = u[1]
    <3>1. abd \in Seq(TreeNames) /\ u \in Seq(TreeNames)
      BY <1>3, <2>4
    <3> QED
      BY <3>1, JoinedAt
  <2>10. Len(a) = 1 => (abd \o u)[1] = a[1]
    BY <1>3, <2>1, <2>2, <2>4, <2>5, <2>8
  <2>11. Len(b) = 1 => (abd \o u)[Len(a) + 1] = b[1]
    BY <1>3, <2>1, <2>2, <2>4, <2>5, <2>8
  <2>12. Len(d) = 1 => (abd \o u)[Len(a) + Len(b) + 1] = d[1]
    BY <1>3, <2>1, <2>4, <2>6, <2>8
  <2> QED
    BY <2>4, <2>7, <2>9, <2>10, <2>11, <2>12
<1>6. DOMAIN (a \o b \o d \o u) = 1 .. Len(a) + Len(b) + Len(d) + Len(u)
  BY <1>4
<1>7. ASSUME NEW name \in TreeNames, In(under, name) # "none"
      PROVE  \E i \in DOMAIN (a \o b \o d \o u) : (a \o b \o d \o u)[i] = name
  <2>1. CASE name = "a"
    <3>1. 1 \in DOMAIN (a \o b \o d \o u) /\ (a \o b \o d \o u)[1] = name
      BY <1>3, <1>5, <1>6, <1>7, <2>1
    <3> QED
      BY <3>1
  <2>2. CASE name = "b"
    <3>1. Len(a) + 1 \in DOMAIN (a \o b \o d \o u) /\ (a \o b \o d \o u)[Len(a) + 1] = name
      BY <1>3, <1>5, <1>6, <1>7, <2>2
    <3> QED
      BY <3>1
  <2>3. CASE name = "d"
    <3>1. Len(a) + Len(b) + 1 \in DOMAIN (a \o b \o d \o u) /\ (a \o b \o d \o u)[Len(a) + Len(b) + 1] = name
      BY <1>3, <1>5, <1>6, <1>7, <2>3
    <3> QED
      BY <3>1
  <2>4. CASE name = "u"
    <3>1. Len(u) = 1 /\ u[1] = name
      BY <1>3, <1>7, <2>4
    <3>2. Len(a) + Len(b) + Len(d) + 1 \in 1 .. Len(a) + Len(b) + Len(d) + Len(u)
      BY <1>3, <3>1
    <3>3. (a \o b \o d \o u)[Len(a) + Len(b) + Len(d) + 1] = name
      BY <1>5, <3>1
    <3> QED
      BY <1>6, <3>2, <3>3
  <2> QED
    BY <2>1, <2>2, <2>3, <2>4 DEF TreeNames
<1> QED
  BY <1>2, <1>4, <1>7

(* The call's steps leave the trees and the listing alone.                  *)
LEMMA GroundFacts ==
    ASSUME PinInv, UNCHANGED ground
    PROVE  /\ TreesInv' /\ (OneOfEach' <=> OneOfEach) /\ Package' = Package
           /\ no_follow_any' = no_follow_any /\ listing' = listing /\ swaps' = swaps /\ inside' = inside /\ top' = top
           /\ content' = content
<1>1. /\ no_follow_any' = no_follow_any /\ listing' = listing /\ swaps' = swaps /\ inside' = inside /\ top' = top
      /\ content' = content
  BY DEF ground
<1>2. TreesInv'
  BY <1>1 DEF PinInv, TreesInv
<1>3. Package' = Package
  BY <1>1 DEF Package
<1> QED
  BY <1>1, <1>2, <1>3 DEF OneOfEach

PinFaults == {"listing", "Unreadable", "Link", "Unexpected", "NotRegular", "file", "dir", "DigestMismatch", "Missing"}

LEMMA RefusePinKeeps ==
    ASSUME PinInv, UNCHANGED ground, OutsideInv', NEW fault \in PinFaults, RefusePin(fault)
    PROVE  PinInv'
<1>1. pinner' = [pinner EXCEPT !.step = "refused", !.result = fault]
  BY DEF RefusePin
<1>2. PinTypeOK' /\ pinner'.step = "refused"
  BY <1>1, GroundFacts DEF PinInv, PinTypeOK, PinFaults
<1>3. PinStepInv'
  BY <1>2 DEF PinStepInv
<1>4. LeftAloneInv'
  BY <1>2, GroundFacts DEF LeftAloneInv, PinInv
<1> QED
  BY <1>2, <1>3, <1>4, GroundFacts DEF PinInv

(* What a step that goes on must show.                                      *)
LEMMA GoOn ==
    ASSUME PinInv, UNCHANGED <<ground, touched>>, PinTypeOK', PinStepInv', LeftAloneInv'
    PROVE  PinInv'
<1>1. UNCHANGED ground /\ touched' = touched
  OBVIOUS
<1>2. OutsideInv'
  BY <1>1, GroundFacts DEF PinInv, OutsideInv
<1> QED
  BY <1>1, <1>2, GroundFacts DEF PinInv

LEMMA CheckListingKeeps ==
    ASSUME PinInv, CheckListing
    PROVE  PinInv'
<1>1. UNCHANGED ground /\ touched' = touched /\ pinner.step = "listing" /\ OutsideInv'
  BY GroundFacts DEF CheckListing, PinInv, OutsideInv
<1>2. CASE check_listing(listing)
  <2>1. pinner' = [pinner EXCEPT !.step = "root"]
    BY <1>2 DEF CheckListing
  <2>2. PinTypeOK' /\ pinner'.step = "root"
    BY <1>1, <2>1, GroundFacts DEF PinInv, PinTypeOK
  <2>3. OneOfEach
    BY <1>2, CheckedListing DEF PinInv, PinTypeOK
  <2>4. PinStepInv' /\ LeftAloneInv'
    BY <1>1, <2>2, <2>3, GroundFacts DEF PinInv, PinStepInv, LeftAloneInv
  <2> QED
    BY <1>1, <2>2, <2>4, GoOn
<1>3. CASE ~check_listing(listing)
  <2>1. RefusePin("listing")
    BY <1>3 DEF CheckListing
  <2> QED
    BY <1>1, <2>1, RefusePinKeeps DEF PinFaults
<1> QED
  BY <1>2, <1>3

LEMMA CheckRootKeeps ==
    ASSUME PinInv, CheckRoot
    PROVE  PinInv'
<1>1. UNCHANGED ground /\ touched' = touched /\ pinner.step = "root" /\ OutsideInv'
  BY GroundFacts DEF CheckRoot, PinInv, OutsideInv
<1>2. CASE RefusePin("Unreadable") \/ RefusePin("Link")
  BY <1>1, <1>2, RefusePinKeeps DEF PinFaults
<1>3. CASE pinner' = [pinner EXCEPT !.step = "checked", !.held = top]
  <2>1. top \in AnyNode
    BY DEF PinInv, TreesInv, AnyNode, TreeDirs, Target
  <2>2. PinTypeOK' /\ pinner'.step = "checked"
    BY <1>1, <1>3, <2>1, GroundFacts DEF PinInv, PinTypeOK
  <2>3. OneOfEach
    BY <1>1 DEF PinInv, PinStepInv
  <2>4. PinStepInv' /\ LeftAloneInv'
    BY <1>1, <2>2, <2>3, GroundFacts DEF PinInv, PinStepInv, LeftAloneInv
  <2> QED
    BY <1>1, <2>2, <2>4, GoOn
<1> QED
  BY <1>2, <1>3 DEF CheckRoot

LEMMA OpenRootKeeps ==
    ASSUME PinInv, OpenRoot
    PROVE  PinInv'
<1> DEFINE first == [path |-> <<>>, dir |-> TRUE, kind |-> "dir"]
<1>1. UNCHANGED ground /\ touched' = touched /\ pinner.step = "checked" /\ OutsideInv'
  BY GroundFacts DEF OpenRoot, PinInv, OutsideInv
<1>2. CASE RefusePin("Unreadable") \/ RefusePin("Link")
  BY <1>1, <1>2, RefusePinKeeps DEF PinFaults
<1>3. CASE pinner' = [pinner EXCEPT !.step = "visit", !.todo = <<first>>]
  <2>1. first \in Visits /\ Leads(first)
    BY DEF Visits, TreePaths, Branches, EntryKinds, Leads
  <2> HIDE DEF first
  <2>2. <<first>> \in Seq(Visits)
    BY <2>1
  <2>3. PinTypeOK' /\ pinner'.step = "visit" /\ pinner'.todo = <<first>>
    BY <1>1, <1>3, <2>2, GroundFacts DEF PinInv, PinTypeOK
  <2>4. \E i \in DOMAIN pinner'.todo : Leads(pinner'.todo[i])
    BY <2>1, <2>3
  <2>5. OneOfEach
    BY <1>1 DEF PinInv, PinStepInv
  <2>6. PinStepInv'
    BY <2>3, <2>5, <1>1, GroundFacts DEF PinStepInv
  <2>7. LeftAloneInv'
    BY <1>1, <2>3, <2>4, GroundFacts DEF PinInv, LeftAloneInv, Leads
  <2> QED
    BY <1>1, <2>3, <2>6, <2>7, GoOn
<1> QED
  BY <1>2, <1>3 DEF OpenRoot

LEMMA HereFacts ==
    ASSUME PinInv, pinner.todo # <<>>
    PROVE  /\ Here \in Visits /\ Here = pinner.todo[1] /\ Tail(pinner.todo) \in Seq(Visits)
           /\ Here.path \in TreePaths /\ Here.dir \in BOOLEAN /\ Here.kind \in EntryKinds
           /\ Here.dir => Here.path \in Branches
<1>1. pinner.todo \in Seq(Visits)
  BY DEF PinInv, PinTypeOK
<1>2. Here \in Visits /\ Here = pinner.todo[1] /\ Tail(pinner.todo) \in Seq(Visits)
  BY <1>1 DEF Here
<1> QED
  BY <1>2 DEF Visits

(* A step that leaves what is left to visit.                                *)
LEMMA StaysHere ==
    ASSUME PinInv, UNCHANGED ground, pinner.step \in {"visit", "list", "listed", "opened"},
           pinner'.step \in {"visit", "list", "listed", "opened"}, pinner'.todo = pinner.todo
    PROVE  LeftAloneInv'
BY GroundFacts DEF PinInv, LeftAloneInv, Leads

LEMMA OpenDirectoryKeeps ==
    ASSUME PinInv, OpenDirectory
    PROVE  PinInv'
<1>1. /\ UNCHANGED ground /\ touched' = touched /\ OutsideInv'
      /\ pinner.step = "visit" /\ pinner.todo # <<>> /\ Here.dir
  BY GroundFacts DEF OpenDirectory, PinInv, OutsideInv, Visiting
<1>2. open_without_links(Here.path) \in {"Link", "Unreadable", "ok"}
  BY DEF open_without_links
<1>3. CASE open_without_links(Here.path) # "ok"
  <2>1. RefusePin(open_without_links(Here.path))
    BY <1>3 DEF OpenDirectory
  <2> QED
    BY <1>1, <1>2, <1>3, <2>1, RefusePinKeeps DEF PinFaults
<1>4. CASE open_without_links(Here.path) = "ok"
  <2>1. pinner' = [pinner EXCEPT !.step = "list"]
    BY <1>4 DEF OpenDirectory
  <2>2. PinTypeOK' /\ pinner'.step = "list" /\ pinner'.todo = pinner.todo
    BY <1>1, <2>1, GroundFacts DEF PinInv, PinTypeOK
  <2>3. Here' = Here
    BY <2>2 DEF Here
  <2>4. PinStepInv'
    BY <1>1, <2>2, <2>3, GroundFacts DEF PinInv, PinStepInv
  <2>5. LeftAloneInv'
    BY <1>1, <2>2, StaysHere
  <2> QED
    BY <1>1, <2>2, <2>4, <2>5, GoOn
<1> QED
  BY <1>3, <1>4

LEMMA LookUpKeeps ==
    ASSUME PinInv, LookUp
    PROVE  PinInv'
<1>1. /\ UNCHANGED ground /\ touched' = touched /\ OutsideInv'
      /\ pinner.step = "visit" /\ pinner.todo # <<>> /\ ~Here.dir
  BY GroundFacts, HereFacts DEF LookUp, PinInv, OutsideInv, Visiting
<1>2. CASE RefusePin(Here.kind)
  BY <1>1, <1>2, HereFacts, RefusePinKeeps DEF PinFaults, EntryKinds
<1>3. CASE RefusePin("Unexpected")
  BY <1>1, <1>3, RefusePinKeeps DEF PinFaults
<1>4. CASE ListedAt(Here.path) # {} /\ pinner' = [pinner EXCEPT !.step = "listed"]
  <2>1. PinTypeOK' /\ pinner'.step = "listed" /\ pinner'.todo = pinner.todo
    BY <1>1, <1>4, GroundFacts DEF PinInv, PinTypeOK
  <2>2. Here' = Here
    BY <2>1 DEF Here
  <2>3. (ListedAt(Here.path))' = ListedAt(Here.path)
    BY <1>1, <2>2, GroundFacts DEF ListedAt
  <2>4. PinStepInv'
    BY <1>1, <1>4, <2>1, <2>2, <2>3, GroundFacts DEF PinInv, PinStepInv
  <2>5. LeftAloneInv'
    BY <1>1, <2>1, StaysHere
  <2> QED
    BY <1>1, <2>1, <2>4, <2>5, GoOn
<1> QED
  BY <1>2, <1>3, <1>4 DEF LookUp, unlisted

LEMMA OpenTreeFileKeeps ==
    ASSUME PinInv, OpenTreeFile
    PROVE  PinInv'
<1> DEFINE found == NodeAt(Here.path)
           opens == open_without_links(Here.path)
<1>1. /\ UNCHANGED ground /\ pinner.step = "listed"
      /\ pinner.todo # <<>> /\ ~Here.dir /\ ListedAt(Here.path) # {}
  BY DEF OpenTreeFile, PinInv, PinStepInv
<1>2. opens \in {"Link", "Unreadable", "ok"}
  BY DEF open_without_links
<1>3. CASE opens # "ok"
  <2>1. RefusePin(opens) /\ touched' = touched
    BY <1>3 DEF OpenTreeFile
  <2>2. OutsideInv'
    BY <1>1, <2>1, GroundFacts DEF PinInv, OutsideInv
  <2> HIDE DEF opens
  <2> QED
    BY <1>1, <1>2, <1>3, <2>1, <2>2, RefusePinKeeps DEF PinFaults
<1>4. CASE opens = "ok"
  <2>1. touched' = touched \cup {found}
    BY <1>4 DEF OpenTreeFile
  <2>2. no_follow_any => found \notin OutsideNodes
    BY <1>1, <1>4, HereFacts, OpensInside DEF PinInv
  <2>3. found \in AnyNode
    BY <1>1, HereFacts, PathTypes DEF PinInv
  <2>4. OutsideInv'
    BY <1>1, <2>1, <2>2, GroundFacts DEF PinInv, OutsideInv
  <2>5. CASE RefusePin("NotRegular") \/ RefusePin("DigestMismatch")
    BY <1>1, <2>4, <2>5, RefusePinKeeps DEF PinFaults
  <2>6. CASE pinner' = [pinner EXCEPT !.step = "opened", !.held = found]
    <3>1. PinTypeOK' /\ pinner'.step = "opened" /\ pinner'.todo = pinner.todo
      BY <1>1, <2>3, <2>6, GroundFacts DEF PinInv, PinTypeOK
    <3>2. Here' = Here
      BY <3>1 DEF Here
    <3>3. (ListedAt(Here.path))' = ListedAt(Here.path)
      BY <1>1, <3>2, GroundFacts DEF ListedAt
    <3>4. PinStepInv'
      BY <1>1, <3>1, <3>2, <3>3, GroundFacts DEF PinInv, PinStepInv
    <3>5. LeftAloneInv'
      BY <1>1, <3>1, StaysHere
    <3> QED
      BY <1>1, <2>4, <3>1, <3>4, <3>5, GroundFacts DEF PinInv
  <2> QED
    BY <1>4, <2>5, <2>6 DEF OpenTreeFile
<1> QED
  BY <1>3, <1>4

LEMMA HashFileKeeps ==
    ASSUME PinInv, HashFile
    PROVE  PinInv'
<1>1. /\ UNCHANGED ground /\ touched' = touched /\ OutsideInv' /\ pinner.step = "opened"
      /\ pinner.todo # <<>> /\ ~Here.dir /\ ListedAt(Here.path) # {}
  BY GroundFacts DEF HashFile, PinInv, PinStepInv, OutsideInv
<1>2. CASE RefusePin("Unreadable") \/ RefusePin("DigestMismatch")
  BY <1>1, <1>2, RefusePinKeeps DEF PinFaults
<1>3. ASSUME NEW n \in ListedAt(Here.path), digest_matches(pinner.held, listing[n]),
             pinner' = [pinner EXCEPT !.step = "visit", !.todo = Tail(@),
                                      !.files = @ \cup {[path |-> Here.path, bytes |-> content[pinner.held].bytes]}]
      PROVE  PinInv'
  <2> DEFINE new == [path |-> Here.path, bytes |-> content[pinner.held].bytes]
  <2>1. n \in DOMAIN listing /\ listing[n].path = Here.path /\ listing[n].bytes = content[pinner.held].bytes
    BY <1>3 DEF ListedAt, digest_matches
  <2>2. new \in Package
    BY <2>1 DEF Package
  <2> HIDE DEF new
  <2>3. pinner' = [pinner EXCEPT !.step = "visit", !.todo = Tail(pinner.todo), !.files = pinner.files \cup {new}]
    BY <1>3 DEF new, PinInv, PinTypeOK
  <2>4. PinTypeOK' /\ pinner'.step = "visit" /\ pinner'.todo = Tail(pinner.todo)
    BY <1>1, <2>2, <2>3, GroundFacts, HereFacts DEF PinInv, PinTypeOK
  <2>5. PinStepInv'
    BY <1>1, <2>4, GroundFacts DEF PinInv, PinStepInv
  <2>6. ~Leads(Here)
    BY <1>1, <2>1, ListingFacts, HereFacts DEF Leads, PinInv, PinTypeOK
  <2>7. ASSUME NEW i \in DOMAIN pinner.todo, Leads(pinner.todo[i])
        PROVE  \E k \in DOMAIN pinner'.todo : Leads(pinner'.todo[k])
    <3>1. i # 1 /\ pinner.todo \in Seq(Visits)
      BY <1>1, <2>6, <2>7, HereFacts DEF PinInv, PinTypeOK
    <3>2. i - 1 \in DOMAIN Tail(pinner.todo) /\ Tail(pinner.todo)[i - 1] = pinner.todo[i]
      BY <1>1, <3>1
    <3> QED
      BY <2>4, <2>7, <3>2
  <2>8. LeftAloneInv'
    BY <1>1, <2>4, <2>7, GroundFacts DEF PinInv, LeftAloneInv, Leads
  <2> QED
    BY <1>1, <2>4, <2>5, <2>8, GoOn
<1> QED
  BY <1>2, <1>3 DEF HashFile

LEMMA AssembleKeeps ==
    ASSUME PinInv, Assemble
    PROVE  PinInv'
<1>1. UNCHANGED ground /\ touched' = touched /\ OutsideInv' /\ pinner.step = "visit" /\ pinner.todo = <<>>
  BY GroundFacts DEF Assemble, PinInv, OutsideInv
<1>2. CASE RefusePin("Missing")
  BY <1>1, <1>2, RefusePinKeeps DEF PinFaults
<1>3. CASE missing = {} /\ pinner' = [pinner EXCEPT !.step = "pinned"]
  <2>1. PinTypeOK' /\ pinner'.step = "pinned" /\ pinner'.files = pinner.files
    BY <1>1, <1>3, GroundFacts DEF PinInv, PinTypeOK
  <2>2. OneOfEach
    BY <1>1 DEF PinInv, PinStepInv
  <2>3. \A m, n \in DOMAIN listing : listing[m].path = listing[n].path => m = n
    BY <2>2 DEF OneOfEach
  <2>4. pinner.files \subseteq Package
    BY DEF PinInv, PinTypeOK
  <2>5. ASSUME NEW n \in DOMAIN listing PROVE [path |-> listing[n].path, bytes |-> listing[n].bytes] \in pinner.files
    <3>1. PICK f \in pinner.files : f.path = listing[n].path
      BY <1>3 DEF missing
    <3>2. PICK m \in DOMAIN listing : f = [path |-> listing[m].path, bytes |-> listing[m].bytes]
      BY <2>4 DEF Package
    <3>3. m = n
      BY <2>3, <3>1, <3>2
    <3> QED
      BY <3>1, <3>2, <3>3
  <2>6. pinner.files = Package
    BY <2>4, <2>5 DEF Package
  <2>7. PinStepInv'
    BY <1>1, <2>1, <2>2, <2>6, GroundFacts DEF PinStepInv
  <2>8. swaps = 0 => inside["D"]["u"] = "none"
    BY <1>1 DEF PinInv, LeftAloneInv
  <2>9. LeftAloneInv'
    BY <1>1, <2>8, GroundFacts DEF PinInv, LeftAloneInv
  <2> QED
    BY <1>1, <2>1, <2>7, <2>9, GoOn
<1> QED
  BY <1>2, <1>3 DEF Assemble

LEMMA AppendOne ==
    ASSUME NEW up, NEW name
    PROVE  Append(<<up>>, name) = <<up, name>>
<1> DEFINE s == Append(<<up>>, name)
           t == <<up, name>>
<1>1. s \in Seq({up, name}) /\ Len(s) = 2 /\ s[1] = up /\ s[2] = name
  BY <<up>> \in Seq({up, name})
<1>2. t \in Seq({up, name}) /\ Len(t) = 2 /\ t[1] = up /\ t[2] = name
  OBVIOUS
<1> HIDE DEF s, t
<1>3. s = [i \in 1..2 |-> s[i]] /\ t = [i \in 1..2 |-> t[i]]
  BY <1>1, <1>2
<1>4. \A i \in 1..2 : s[i] = t[i]
  BY <1>1, <1>2
<1>5. s = t
  BY <1>3, <1>4
<1> QED
  BY <1>5 DEF s, t

LEMMA KindOfType == \A n : KindOf(n) \in EntryKinds
BY DEF KindOf, EntryKinds

(* A directory's entries take its place.                                    *)
LEMMA ListDirectoryKeeps ==
    ASSUME PinInv, ListDirectory
    PROVE  PinInv'
<1> DEFINE at == Follow(NodeAt(Here.path))
           names == NamesIn(at)
           Entry(name) == [path |-> Append(Here.path, name), dir |-> KindOf(In(at, name)) = "dir",
                           kind |-> KindOf(In(at, name))]
           new == [i \in DOMAIN names |-> Entry(names[i])]
           rest == Tail(pinner.todo)
<1>1. /\ UNCHANGED ground /\ touched' = touched /\ OutsideInv' /\ pinner.step = "list"
      /\ pinner.todo # <<>> /\ Here.dir
  BY GroundFacts DEF ListDirectory, PinInv, PinStepInv, OutsideInv
<1>2. CASE RefusePin("Unreadable") \/ RefusePin("Unexpected")
  BY <1>1, <1>2, RefusePinKeeps DEF PinFaults
<1>3. CASE at \in TreeDirs /\ pinner' = [pinner EXCEPT !.step = "visit", !.todo = new \o Tail(@)]
  <2>1. Here.path \in Branches /\ Here.path \in TreePaths /\ rest \in Seq(Visits) /\ TreesInv
    BY <1>1, HereFacts DEF PinInv
  <2>2. /\ Here.path = <<>> => at \in {"R", "X"}
        /\ Here.path # <<>> => at \in {"D", "XD"}
    BY <1>3, <2>1, PathTypes DEF TreeDirs
  <2>3. names \in Seq(TreeNames)
    BY NamesFacts
  <2> HIDE DEF at, names, rest
  <2>4. ASSUME NEW name \in TreeNames PROVE Entry(name) \in Visits
    <3> DEFINE path == Append(Here.path, name)
    <3>1. Here.path = <<>> => path \in Branches /\ path \in TreePaths
      BY DEF Branches, TreePaths
    <3>2. Here.path # <<>> => path \in TreePaths
      <4> SUFFICES ASSUME Here.path # <<>> PROVE path \in TreePaths
        OBVIOUS
      <4>1. PICK up \in TreeNames : Here.path = <<up>>
        BY <2>1 DEF Branches
      <4>2. path = <<up, name>>
        BY <4>1, AppendOne
      <4> QED
        BY <4>2 DEF TreePaths
    <3>3. Here.path # <<>> => KindOf(In(at, name)) # "dir"
      <4> SUFFICES ASSUME Here.path # <<>> PROVE KindOf(In(at, name)) # "dir"
        OBVIOUS
      <4>1. In(at, name) \in {"B", "LXB", "U", "XB", "none"}
        BY <2>1, <2>2 DEF In, TreesInv, TreeDirs
      <4> QED
        BY <4>1 DEF KindOf, TreeDirs
    <3>4. KindOf(In(at, name)) \in EntryKinds
      BY KindOfType
    <3> HIDE DEF path
    <3>5. path \in TreePaths /\ (KindOf(In(at, name)) = "dir" => path \in Branches)
      BY <3>1, <3>2, <3>3
    <3>6. Entry(name) = [path |-> path, dir |-> KindOf(In(at, name)) = "dir", kind |-> KindOf(In(at, name))]
      BY DEF path
    <3> QED
      BY <3>4, <3>5, <3>6 DEF Visits
  <2>5. DOMAIN names = 1 .. Len(names) /\ Len(names) \in Nat /\ \A i \in DOMAIN names : names[i] \in TreeNames
    BY <2>3
  <2>6. new \in Seq(Visits) /\ Len(new) = Len(names)
    <3>1. \A i \in 1 .. Len(names) : Entry(names[i]) \in Visits
      BY <2>4, <2>5
    <3>2. new = [i \in 1 .. Len(names) |-> Entry(names[i])]
      BY <2>5
    <3> HIDE DEF Entry, new
    <3>3. new \in [1 .. Len(names) -> Visits]
      BY <3>1, <3>2
    <3> QED
      BY <2>5, <3>3
  <2>7. \A i \in DOMAIN names : new[i] = Entry(names[i])
    OBVIOUS
  <2> HIDE DEF new
  <2>8. (new \o rest) \in Seq(Visits)
    BY <2>1, <2>6
  <2>9. pinner' = [pinner EXCEPT !.step = "visit", !.todo = new \o rest]
    BY <1>3 DEF rest, PinInv, PinTypeOK
  <2>10. PinTypeOK' /\ pinner'.step = "visit" /\ pinner'.todo = new \o rest
    BY <1>1, <2>8, <2>9, GroundFacts DEF PinInv, PinTypeOK
  <2>11. PinStepInv'
    BY <1>1, <2>10, GroundFacts DEF PinInv, PinStepInv
  <2>12. ASSUME NEW name \in TreeNames, In(at, name) # "none", Leads(Entry(name))
         PROVE  \E k \in DOMAIN (new \o rest) : Leads((new \o rest)[k])
    <3>1. PICK k \in DOMAIN names : names[k] = name
      BY <2>12, NamesFacts DEF names
    <3>2. new[k] = Entry(name)
      BY <2>7, <3>1
    <3> HIDE DEF Entry
    <3>3. k \in DOMAIN (new \o rest) /\ (new \o rest)[k] = new[k]
      BY <2>1, <2>5, <2>6
    <3> QED
      BY <2>12, <3>2, <3>3
  <2>13. ASSUME NEW i \in DOMAIN pinner.todo, Leads(pinner.todo[i]), i # 1
         PROVE  \E k \in DOMAIN (new \o rest) : Leads((new \o rest)[k])
    <3>1. pinner.todo \in Seq(Visits)
      BY DEF PinInv, PinTypeOK
    <3>2. i - 1 \in DOMAIN rest /\ rest[i - 1] = pinner.todo[i]
      BY <1>1, <2>13, <3>1 DEF rest
    <3>3. Len(new) + (i - 1) \in DOMAIN (new \o rest) /\ (new \o rest)[Len(new) + (i - 1)] = rest[i - 1]
      BY <2>1, <2>6, <3>2
    <3> QED
      BY <2>13, <3>2, <3>3
  <2>14. ASSUME swaps = 0, inside["D"]["u"] # "none"
         PROVE  \E k \in DOMAIN (new \o rest) : Leads((new \o rest)[k])
    <3>1. PICK i \in DOMAIN pinner.todo : Leads(pinner.todo[i])
      BY <1>1, <2>14 DEF PinInv, LeftAloneInv
    <3>2. CASE i # 1
      BY <2>13, <3>1, <3>2
    <3>3. CASE i = 1
      <4>1. top = "R" /\ inside["R"]["d"] = "D"
        BY <2>14 DEF PinInv, LeftAloneInv
      <4>2. Here.path \in {<<>>, <<"d">>}
        BY <1>1, <3>1, <3>3, HereFacts DEF Leads
      <4>3. CASE Here.path = <<>>
        <5>1. at = "R"
          BY <4>1, <4>3 DEF at, NodeAt, Follow, IsLink, Target
        <5>2. In(at, "d") = "D" /\ KindOf("D") = "dir"
          BY <4>1, <5>1 DEF In, TreeDirs, KindOf, IsLink, Target
        <5>3. Append(Here.path, "d") = <<"d">>
          BY <4>3
        <5>4. Entry("d").dir /\ Entry("d").path = <<"d">>
          BY <5>2, <5>3
        <5>5. Leads(Entry("d"))
          BY <5>4 DEF Leads
        <5> QED
          BY <2>12, <5>2, <5>5 DEF TreeNames
      <4>4. CASE Here.path = <<"d">>
        <5>1. at = "D"
          BY <4>1, <4>4 DEF at, NodeAt, Follow, IsLink, Target, In, TreeDirs
        <5>2. In(at, "u") # "none" /\ In(at, "u") \in {"B", "LXB", "U"}
          BY <2>1, <2>14, <5>1 DEF In, TreeDirs, TreesInv, TreeNames
        <5>3. KindOf(In(at, "u")) # "dir"
          BY <5>2 DEF KindOf, TreeDirs
        <5>4. Append(Here.path, "u") = <<"d", "u">>
          BY <4>4, AppendOne
        <5>5. ~Entry("u").dir /\ Entry("u").path = <<"d", "u">>
          BY <5>3, <5>4
        <5>6. Leads(Entry("u"))
          BY <5>5 DEF Leads
        <5> QED
          BY <2>12, <5>2, <5>6 DEF TreeNames
      <4> QED
        BY <4>2, <4>3, <4>4
    <3> QED
      BY <3>2, <3>3
  <2>15. LeftAloneInv'
    BY <1>1, <2>10, <2>14, GroundFacts DEF PinInv, LeftAloneInv, Leads
  <2> QED
    BY <1>1, <2>10, <2>11, <2>15, GoOn
<1> QED
  BY <1>2, <1>3 DEF ListDirectory

(* Whatever is swapped: the call is where it was, and nothing was left alone. *)
LEMMA SwapKeeps ==
    ASSUME PinInv, Swap, UNCHANGED <<no_follow_any, listing, pinner, touched>>, TreesInv'
    PROVE  PinInv'
<1>1. swaps' # 0 /\ swaps' \in Nat /\ Package' = Package /\ (OneOfEach' <=> OneOfEach)
  BY DEF Swap, PinInv, PinTypeOK, Package, OneOfEach
<1>2. PinTypeOK' /\ OutsideInv' /\ LeftAloneInv'
  BY <1>1 DEF PinInv, PinTypeOK, OutsideInv, LeftAloneInv
<1>3. Here' = Here /\ (ListedAt(Here.path))' = ListedAt(Here.path)
  BY DEF Here, ListedAt
<1>4. PinStepInv'
  BY <1>1, <1>3 DEF PinInv, PinStepInv
<1> QED
  BY <1>2, <1>4 DEF PinInv

LEMMA SwapRootKeeps ==
    ASSUME PinInv, SwapRoot
    PROVE  PinInv'
<1>1. TreesInv'
  BY DEF PinInv, TreesInv, SwapRoot
<1> QED
  BY <1>1, SwapKeeps DEF SwapRoot

LEMMA EditFileKeeps ==
    ASSUME PinInv, EditFile
    PROVE  PinInv'
<1>1. TreesInv'
  BY DEF PinInv, TreesInv, EditFile
<1> QED
  BY <1>1, SwapKeeps DEF EditFile

LEMMA SwapEntryKeeps ==
    ASSUME PinInv, SwapEntry
    PROVE  PinInv'
<1>1. PICK under \in {"R", "D"}, name \in TreeNames, n \in AnyNode :
         /\ \/ under = "R" /\ n \in {"A", "LXA", "fifo", "D", "LXD", "U", "none"}
            \/ under = "D" /\ n \in {"B", "LXB", "none"}
         /\ inside' = [inside EXCEPT ![under] = [inside[under] EXCEPT ![name] = n]]
  <2>1. PICK swap \in ({<<"R", "a">>} \X {"A", "LXA", "fifo", "none"}) \cup ({<<"R", "d">>} \X {"D", "LXD", "none"})
                 \cup ({<<"D", "b">>} \X {"B", "LXB", "none"}) \cup ({<<"R", "u">>} \X {"U"}) :
            inside' = [inside EXCEPT ![swap[1][1]][swap[1][2]] = swap[2]]
    BY DEF SwapEntry
  <2>2. inside' = [inside EXCEPT ![swap[1][1]] = [inside[swap[1][1]] EXCEPT ![swap[1][2]] = swap[2]]]
    BY <2>1 DEF PinInv, TreesInv
  <2>3. /\ swap[1][1] \in {"R", "D"} /\ swap[1][2] \in TreeNames
        /\ \/ swap[1][1] = "R" /\ swap[2] \in {"A", "LXA", "fifo", "D", "LXD", "U", "none"}
           \/ swap[1][1] = "D" /\ swap[2] \in {"B", "LXB", "none"}
    BY <2>1 DEF TreeNames
  <2>4. swap[2] \in AnyNode
    BY <2>3 DEF AnyNode, TreeDirs, TreeFiles, Target
  <2> QED
    BY <2>2, <2>3, <2>4
<1>2. under \in TreeDirs
  BY <1>1 DEF TreeDirs
<1>3. inside \in [TreeDirs -> [TreeNames -> AnyNode]]
  BY DEF PinInv, TreesInv
<1>4. inside' \in [TreeDirs -> [TreeNames -> AnyNode]]
  BY <1>1, <1>2, <1>3
<1>5. /\ \A other \in TreeDirs \ {under} : inside'[other] = inside[other]
      /\ \A other \in TreeNames \ {name} : inside'[under][other] = inside[under][other]
      /\ inside'[under][name] = n
  BY <1>1, <1>2, <1>3
<1>6. /\ inside'["X"] = inside["X"] /\ inside'["XD"] = inside["XD"]
      /\ under = "R" => inside'["D"] = inside["D"]
      /\ under = "D" => inside'["R"] = inside["R"]
  BY <1>5 DEF TreeDirs
<1>7. ASSUME NEW other \in TreeNames
      PROVE  /\ inside'["R"][other] \in {"A", "LXA", "fifo", "D", "LXD", "U", "none"}
             /\ inside'["D"][other] \in {"B", "LXB", "U", "none"}
  <2>1. /\ inside["R"][other] \in {"A", "LXA", "fifo", "D", "LXD", "U", "none"}
        /\ inside["D"][other] \in {"B", "LXB", "U", "none"}
    BY DEF PinInv, TreesInv
  <2> QED
    BY <1>1, <1>5, <1>6, <2>1
<1>8. TreesInv'
  BY <1>4, <1>6, <1>7 DEF PinInv, TreesInv, SwapEntry
<1> QED
  BY <1>8, SwapKeeps DEF SwapEntry

LEMMA PinStarts ==
    ASSUME PinInit
    PROVE  PinInv
<1>1. PICK any \in BOOLEAN, list \in Listings, bytes \in {"B", "x"}, extra \in {"U", "none"} :
         Unpinned(any, list, bytes, extra)
  BY DEF PinInit
<1>2. pinner = [step |-> "listing", todo |-> <<>>, held |-> "none", files |-> {}, result |-> "none"]
  BY <1>1 DEF Unpinned
<1>3. PinTypeOK
  BY <1>1, <1>2 DEF Unpinned, PinTypeOK, AnyNode
<1>4. /\ inside["R"] = [name \in TreeNames |-> CASE name = "a" -> "A" [] name = "d" -> "D" [] OTHER -> "none"]
      /\ inside["D"] = [name \in TreeNames |-> CASE name = "b" -> "B" [] name = "u" -> extra [] OTHER -> "none"]
      /\ inside["X"] = [name \in TreeNames |-> CASE name = "a" -> "XA" [] name = "d" -> "XD" [] OTHER -> "none"]
      /\ inside["XD"] = [name \in TreeNames |-> CASE name = "b" -> "XB" [] OTHER -> "none"]
  BY <1>1 DEF Unpinned, TreeDirs, TreeNames
<1>5. inside = [under \in TreeDirs |-> inside[under]]
  BY <1>1 DEF Unpinned
<1>6. \A name \in TreeNames :
          /\ inside["R"][name] \in {"A", "LXA", "fifo", "D", "LXD", "U", "none"}
          /\ inside["X"][name] \in {"XA", "XD", "none"}
          /\ inside["D"][name] \in {"B", "LXB", "U", "none"}
          /\ inside["XD"][name] \in {"XB", "none"}
  BY <1>1, <1>4 DEF TreeNames
<1>7. \A under \in TreeDirs : inside[under] \in [TreeNames -> AnyNode]
  <2>1. /\ \A name \in TreeNames : inside["R"][name] \in AnyNode /\ inside["X"][name] \in AnyNode
        /\ \A name \in TreeNames : inside["D"][name] \in AnyNode /\ inside["XD"][name] \in AnyNode
    BY <1>6 DEF AnyNode, TreeDirs, TreeFiles, Target
  <2> QED
    BY <1>4, <2>1 DEF TreeDirs
<1>8. TreesInv
  BY <1>1, <1>5, <1>6, <1>7 DEF TreesInv, Unpinned
<1>9. PinStepInv
  BY <1>2 DEF PinStepInv
<1>10. LeftAloneInv /\ OutsideInv
  BY <1>1, <1>2, <1>4 DEF LeftAloneInv, OutsideInv, Unpinned, TreeNames
<1> QED
  BY <1>3, <1>8, <1>9, <1>10 DEF PinInv

(* PinInv holds in every reachable state of pin.                            *)
THEOREM PinInvariant == PinSpec => []PinInv
<1>1. ASSUME PinInv, [PinNext]_pinVars PROVE PinInv'
  <2>1. CASE UNCHANGED pinVars
    <3>1. UNCHANGED ground /\ pinner' = pinner /\ touched' = touched
      BY <2>1 DEF pinVars, ground
    <3>2. PinTypeOK' /\ OutsideInv' /\ LeftAloneInv'
      BY <1>1, <3>1, GroundFacts DEF PinInv, PinTypeOK, OutsideInv, LeftAloneInv, Leads
    <3>3. Here' = Here /\ (ListedAt(Here.path))' = ListedAt(Here.path)
      BY <1>1, <3>1, GroundFacts DEF Here, ListedAt
    <3>4. PinStepInv'
      BY <1>1, <3>1, <3>3, GroundFacts DEF PinInv, PinStepInv
    <3> QED
      BY <1>1, <3>1, <3>2, <3>4, GroundFacts DEF PinInv
  <2> QED
    BY <1>1, <2>1, CheckListingKeeps, CheckRootKeeps, OpenRootKeeps, OpenDirectoryKeeps, ListDirectoryKeeps,
       LookUpKeeps, OpenTreeFileKeeps, HashFileKeeps, AssembleKeeps, SwapRootKeeps, SwapEntryKeeps, EditFileKeeps
       DEF PinNext
<1> QED
  BY <1>1, PinStarts, PTL DEF PinSpec

(* PinnedIsListed of the module, for any number of swaps: what pin returns  *)
(* is the listed files and no others, from a listing without two files that *)
(* are one path or one below the other, and on macOS nothing outside the    *)
(* tree was opened.                                                         *)
THEOREM PinnedListed == PinSpec => []PinnedIsListed
<1>1. PinInv => PinnedIsListed
  <2> SUFFICES ASSUME PinInv PROVE PinnedIsListed
    OBVIOUS
  <2>1. pinner.step = "pinned" => pinner.files = Package /\ (swaps = 0 => inside["D"]["u"] = "none")
    BY DEF PinInv, PinStepInv, LeftAloneInv
  <2>2. pinner.step \notin {"listing", "refused"} => OneOfEach
    BY DEF PinInv, PinStepInv
  <2> QED
    BY <2>1, <2>2 DEF PinnedIsListed, Package, OneOfEach, PinInv, OutsideInv
<1> QED
  BY <1>1, PinInvariant, PTL

-----------------------------------------------------------------------------
(* A plugin's log.  While calls come one at a time, the file holds what was *)
(* put, line by line, and perhaps a part of one more record, which whoever  *)
(* may write next has not found.                                            *)

LogRecords == [plugin : LogPlugins, effect : Nat, format : {FORMAT - 1, FORMAT}, whole : BOOLEAN]
LogLines == [text : Seq(LogRecords) \ {<<>>}, lf : BOOLEAN]

(* A call of append_to_file and the ledger it writes.                       *)
AppenderType(a) ==
    a = Idle \/ \E p \in LogPlugins, n \in Nat, s \in {"read", "write"} :
                   a = [step |-> s, plugin |-> p, records |-> encode(p, n)]

LogTypeOK ==
    /\ log \in Seq(LogLines)
    /\ put \in Seq(LogRecords)
    /\ raced \in BOOLEAN
    /\ appender = [w \in LogWriters |-> appender[w]]
    /\ \A w \in LogWriters : AppenderType(appender[w])

OneCall == \A v, w \in LogWriters : v # w => AppendAt(v, "idle") \/ AppendAt(w, "idle")

(* The file holds, line by line, what was put, and perhaps a part of one    *)
(* more record; only the last line may lack its LF.                          *)
HoldsPut ==
    /\ Len(log) \in {Len(put), Len(put) + 1}
    /\ \A i \in 1..Len(put) :
        log[i].text = <<put[i]>> /\ put[i].whole /\ put[i].format = FORMAT /\ put[i].plugin = put[1].plugin
    /\ \A i \in 1..(Len(log) - 1) : log[i].lf
    /\ Len(log) > Len(put) => /\ ~log[Len(log)].lf /\ Len(log[Len(log)].text) = 1
                              /\ ~log[Len(log)].text[1].whole

(* Who is about to write found the file to be its plugin's, and whole.      *)
FoundWhole(w) ==
    log # <<>> => Len(log) = Len(put) /\ log[Len(log)].lf /\ put[1].plugin = appender[w].plugin

LogInv ==
    /\ LogTypeOK
    /\ ~raced => OneCall
    /\ \/ log = <<Older>> /\ put = <<>> /\ \A w \in LogWriters : ~AppendAt(w, "write")
       \/ /\ log # <<>> => log[1].text[1].format = FORMAT
          /\ ~raced => HoldsPut /\ \A w \in LogWriters : AppendAt(w, "write") => FoundWhole(w)

(* What a line reads as.                                                    *)
LEMMA Decoded ==
    ASSUME NEW line \in LogLines
    PROVE  /\ decode_record(line) = "Ok" <=>
                Len(line.text) = 1 /\ line.text[1].whole /\ line.text[1].format = FORMAT
           /\ Len(line.text) = 1 /\ ~line.text[1].whole => decode_record(line) = "eof"
           /\ line.text \in Seq(LogRecords) /\ Len(line.text) >= 1 /\ line.text[1] \in LogRecords
  <1>1. line.text \in Seq(LogRecords) /\ Len(line.text) >= 1 /\ line.text[1] \in LogRecords
    BY DEF LogLines
  <1> DEFINE n == Len(line.text)
             r == line.text[1]
  <1>2. n \in Nat /\ n >= 1 /\ r.whole \in BOOLEAN
    BY <1>1 DEF LogRecords
  <1>3. decode_record(line) = CASE n = 1 /\ r.whole /\ r.format = FORMAT -> "Ok"
                                [] n = 1 /\ ~r.whole -> "eof"
                                [] n > 1 /\ ~r.whole -> "eof or syntax"
                                [] OTHER -> "invalid"
    BY DEF decode_record
  <1> HIDE DEF n, r
  <1>4. CASE n = 1 /\ r.whole /\ r.format = FORMAT
    BY <1>1, <1>2, <1>3, <1>4 DEF n, r
  <1>5. CASE n = 1 /\ ~r.whole
    <2>1. decode_record(line) = "eof"
      BY <1>2, <1>3, <1>5
    <2> QED  BY <1>1, <1>5, <2>1 DEF n, r
  <1>6. CASE n # 1 \/ (r.whole /\ r.format # FORMAT)
    <2>1. decode_record(line) \in {"eof or syntax", "invalid"}
      BY <1>2, <1>3, <1>6
    <2> QED  BY <1>1, <1>6, <2>1 DEF n, r
  <1> QED  BY <1>4, <1>5, <1>6

(* Lines that hold the records put, one each, are read as them.             *)
LEMMA ReadsPut ==
    ASSUME NEW lines \in Seq(LogLines), put \in Seq(LogRecords), Len(lines) = Len(put),
           \A i \in 1..Len(put) : /\ lines[i].text = <<put[i]>> /\ put[i].whole
                                  /\ put[i].format = FORMAT /\ put[i].plugin = put[1].plugin
    PROVE  ReadAs(lines) = [ok |-> TRUE, records |-> put]
  <1>1. \A i \in 1..Len(put) : lines[i] \in LogLines /\ Len(lines[i].text) = 1 /\ lines[i].text[1] = put[i]
    <2> SUFFICES ASSUME NEW i \in 1..Len(put)
                 PROVE  lines[i] \in LogLines /\ Len(lines[i].text) = 1 /\ lines[i].text[1] = put[i]
      OBVIOUS
    <2>1. lines[i] \in LogLines
      OBVIOUS
    <2>2. lines[i].text = <<put[i]>>
      OBVIOUS
    <2> QED  BY <2>1, <2>2
  <1>2. \A i \in 1..Len(put) : decode_record(lines[i]) = "Ok"
    BY <1>1, Decoded
  <1>3. OfOnePlugin(lines)
    <2> SUFFICES ASSUME NEW i \in DOMAIN lines
                 PROVE  decode_record(lines[i]) = "Ok" /\ lines[i].text[1].plugin = lines[1].text[1].plugin
      BY DEF OfOnePlugin
    <2>1. i \in 1..Len(put) /\ 1 \in 1..Len(put)
      OBVIOUS
    <2> QED  BY <1>1, <1>2, <2>1
  <1>4. [i \in DOMAIN lines |-> lines[i].text[1]] = put
    BY <1>1
  <1> QED  BY <1>3, <1>4 DEF ReadAs

LEMMA OpensAsPut ==
    ASSUME LogTypeOK, HoldsPut, NEW read \in Ledger_open_file
    PROVE  read.records = put
  <1>1. log \in Seq(LogLines) /\ put \in Seq(LogRecords)
    BY DEF LogTypeOK
  <1>2. read_plugin_log(log) = {[ok |-> TRUE, records |-> put]}
    <2>1. CASE log = <<>>
      <3>1. ReadAs(log) = [ok |-> TRUE, records |-> put]
        BY <1>1, <2>1, ReadsPut DEF HoldsPut
      <3> QED  BY <2>1, <3>1 DEF read_plugin_log
    <2>2. CASE log # <<>> /\ Len(log) = Len(put)
      <3>1. ReadAs(log) = [ok |-> TRUE, records |-> put]
        BY <1>1, <2>2, ReadsPut DEF HoldsPut
      <3>2. Last(log) \in LogLines /\ Last(log).text = <<put[Len(put)]>>
            /\ put[Len(put)].whole /\ put[Len(put)].format = FORMAT
        BY <1>1, <2>2 DEF HoldsPut, Last
      <3>3. decode_record(Last(log)) = "Ok"
        <4>1. \A r : Len(<<r>>) = 1 /\ <<r>>[1] = r
          OBVIOUS
        <4> QED  BY <3>2, <4>1, Decoded
      <3> QED  BY <2>2, <3>1, <3>3 DEF read_plugin_log, MayBreak, MustBreak
    <2>3. CASE log # <<>> /\ Len(log) = Len(put) + 1
      <3>1. Front(log) \in Seq(LogLines) /\ Len(Front(log)) = Len(put)
            /\ \A i \in 1..Len(put) : Front(log)[i] = log[i]
        BY <1>1, <2>3 DEF Front
      <3>2. ReadAs(Front(log)) = [ok |-> TRUE, records |-> put]
        BY <1>1, <3>1, ReadsPut DEF HoldsPut
      <3>3. Last(log) \in LogLines /\ ~Last(log).lf /\ Len(Last(log).text) = 1 /\ ~Last(log).text[1].whole
        BY <1>1, <2>3 DEF HoldsPut, Last
      <3>4. decode_record(Last(log)) = "eof"
        BY <3>3, Decoded
      <3> QED  BY <2>3, <3>2, <3>3, <3>4 DEF read_plugin_log, MayBreak, MustBreak
    <2> QED  BY <2>1, <2>2, <2>3 DEF HoldsPut
  <1> QED  BY <1>1, <1>2 DEF Ledger_open_file, Invalid

(* Whatever was read is of one plugin.                                      *)
LEMMA OpensAsOne ==
    ASSUME LogTypeOK, NEW read \in Ledger_open_file, NEW i \in DOMAIN read.records
    PROVE  read.records[i].plugin = read.records[1].plugin
  <1>1. \A lines \in Seq(LogLines) : \A j \in DOMAIN ReadAs(lines).records :
           ReadAs(lines).records[j].plugin = ReadAs(lines).records[1].plugin
    <2> SUFFICES ASSUME NEW lines \in Seq(LogLines), NEW j \in DOMAIN ReadAs(lines).records
                 PROVE  ReadAs(lines).records[j].plugin = ReadAs(lines).records[1].plugin
      OBVIOUS
    <2>1. CASE OfOnePlugin(lines)
      <3>1. ReadAs(lines).records = [k \in DOMAIN lines |-> lines[k].text[1]]
        BY <2>1 DEF ReadAs
      <3>2. j \in DOMAIN lines /\ 1 \in DOMAIN lines
        BY <3>1
      <3> QED  BY <2>1, <3>1, <3>2 DEF OfOnePlugin
    <2>2. CASE ~OfOnePlugin(lines)
      BY <2>2 DEF ReadAs, Invalid
    <2> QED  BY <2>1, <2>2
  <1>2. log \in Seq(LogLines) /\ (log # <<>> => Front(log) \in Seq(LogLines))
    BY DEF LogTypeOK, Front
  <1>3. PICK r \in read_plugin_log(log) : read = IF r.records = <<>> THEN Invalid ELSE r
    BY DEF Ledger_open_file
  <1>4. \E lines \in Seq(LogLines) : r = ReadAs(lines)
    BY <1>2 DEF read_plugin_log
  <1> QED  BY <1>1, <1>3, <1>4 DEF Invalid

(* Who may write found the file empty, or its plugin's and ended by an LF.  *)
LEMMA Accepted ==
    ASSUME log \in Seq(LogLines), NEW p, accepts_target(p, log), log # <<>>
    PROVE  /\ Last(log).lf /\ OfOnePlugin(log) /\ log[1].text[1].plugin = p
  <1>1. Last(log).lf /\ read_plugin_log(log) = {ReadAs(log)}
    BY DEF accepts_target, read_plugin_log, MayBreak, MustBreak
  <1>2. ReadAs(log).ok /\ ReadAs(log).records[1].plugin = p
    BY <1>1 DEF accepts_target
  <1>3. OfOnePlugin(log)
    BY <1>2 DEF ReadAs, Invalid
  <1>4. ReadAs(log).records[1] = log[1].text[1]
    BY <1>3 DEF ReadAs
  <1> QED  BY <1>1, <1>2, <1>3, <1>4

LEMMA OlderIsRefused == Older \in LogLines /\ \A p : ~accepts_target(p, <<Older>>)
  <1> DEFINE r == Record(CHOOSE p \in LogPlugins : TRUE, 1, FORMAT - 1)
  <1>1. (CHOOSE p \in LogPlugins : TRUE) \in LogPlugins
    BY PluginLogAssumption
  <1>2. r \in LogRecords /\ r.format # FORMAT
    BY <1>1 DEF LogRecords, Record, FORMAT
  <1>3. Older = [text |-> <<r>>, lf |-> TRUE]
    BY DEF Older, Line
  <1> HIDE DEF r
  <1>4. Older \in LogLines /\ Len(Older.text) = 1 /\ Older.text[1] = r
    BY <1>2, <1>3 DEF LogLines
  <1>5. decode_record(Older) # "Ok"
    BY <1>2, <1>4, Decoded
  <1>6. ~OfOnePlugin(<<Older>>)
    BY <1>5 DEF OfOnePlugin
  <1>7. Last(<<Older>>) = Older /\ <<Older>> # <<>> /\ Older.lf
    BY <1>3 DEF Last
  <1>8. read_plugin_log(<<Older>>) = {ReadAs(<<Older>>)}
    BY <1>7 DEF read_plugin_log, MayBreak, MustBreak
  <1>9. ~ReadAs(<<Older>>).ok
    BY <1>6 DEF ReadAs, Invalid
  <1> QED  BY <1>4, <1>7, <1>8, <1>9 DEF accepts_target

(* One call is put in a state of its own, and the file stays as it is.      *)
LEMMA AppenderStep ==
    ASSUME LogInv, NEW w \in LogWriters, NEW a, AppenderType(a),
           appender' = [appender EXCEPT ![w] = a], UNCHANGED <<log, put>>,
           raced' \in BOOLEAN, raced => raced',
           ~raced' => a.step = "idle" \/ \A v \in LogWriters \ {w} : AppendAt(v, "idle"),
           a.step = "write" => /\ log # <<Older>>
                               /\ ~raced /\ log # <<>> => /\ Len(log) = Len(put) /\ log[Len(log)].lf
                                                          /\ put[1].plugin = a.plugin
    PROVE  LogInv'
  <1>1. /\ appender'[w] = a /\ \A v \in LogWriters \ {w} : appender'[v] = appender[v]
        /\ appender' = [v \in LogWriters |-> appender'[v]]
    BY DEF LogInv, LogTypeOK
  <1>2. LogTypeOK'
    BY <1>1 DEF LogInv, LogTypeOK
  <1>3. ~raced' => OneCall'
    BY <1>1 DEF LogInv, OneCall, AppendAt
  <1>4. CASE log = <<Older>> /\ put = <<>> /\ \A v \in LogWriters : ~AppendAt(v, "write")
    <2>1. \A v \in LogWriters : ~AppendAt(v, "write")'
      BY <1>1, <1>4 DEF AppendAt
    <2> QED  BY <1>2, <1>3, <1>4, <2>1 DEF LogInv
  <1>5. CASE /\ log # <<>> => log[1].text[1].format = FORMAT
             /\ ~raced => HoldsPut /\ \A v \in LogWriters : AppendAt(v, "write") => FoundWhole(v)
    <2>1. ~raced' => \A v \in LogWriters : AppendAt(v, "write")' => FoundWhole(v)'
      BY <1>1, <1>5 DEF AppendAt, FoundWhole
    <2>2. ~raced' => HoldsPut'
      BY <1>5 DEF HoldsPut
    <2> QED  BY <1>2, <1>3, <1>5, <2>1, <2>2 DEF LogInv
  <1> QED  BY <1>4, <1>5 DEF LogInv

LEMMA append_to_fileStep ==
    ASSUME LogInv, NEW w \in LogWriters, append_to_file(w)
    PROVE  LogInv'
  <1>1. PICK p \in LogPlugins, n \in 0..MaxPushed :
           appender' = [appender EXCEPT ![w] = [step |-> "read", plugin |-> p, records |-> encode(p, n)]]
    BY DEF append_to_file
  <1> DEFINE a == [step |-> "read", plugin |-> p, records |-> encode(p, n)]
  <1>2. AppenderType(a) /\ a.step = "read"
    BY PluginLogAssumption DEF AppenderType
  <1>3. /\ UNCHANGED <<log, put>> /\ raced' \in BOOLEAN /\ (raced => raced')
        /\ ~raced' => \A v \in LogWriters : AppendAt(v, "idle")
    BY DEF append_to_file, LogInv, LogTypeOK
  <1> HIDE DEF a
  <1>4. appender' = [appender EXCEPT ![w] = a]
    BY <1>1 DEF a
  <1> QED  BY <1>2, <1>3, <1>4, AppenderStep

LEMMA StopStep ==
    ASSUME LogInv, NEW w \in LogWriters, appender' = [appender EXCEPT ![w] = Idle],
           UNCHANGED <<log, put, raced>>
    PROVE  LogInv'
  <1>1. AppenderType(Idle) /\ Idle.step = "idle"
    BY DEF AppenderType, Idle
  <1>2. raced \in BOOLEAN
    BY DEF LogInv, LogTypeOK
  <1> QED  BY <1>1, <1>2, AppenderStep

LEMMA read_to_endStep ==
    ASSUME LogInv, NEW w \in LogWriters, read_to_end(w)
    PROVE  LogInv'
  <1>1. /\ UNCHANGED <<log, put, raced>> /\ appender[w].step = "read" /\ raced \in BOOLEAN
        /\ log \in Seq(LogLines) /\ put \in Seq(LogRecords)
    BY DEF read_to_end, LogInv, LogTypeOK, AppendAt
  <1>2. CASE ~accepts_target(appender[w].plugin, log)
    <2>1. appender' = [appender EXCEPT ![w] = Idle]
      BY <1>2 DEF read_to_end
    <2> QED  BY <1>1, <2>1, StopStep
  <1>3. CASE accepts_target(appender[w].plugin, log)
    <2> DEFINE a == [appender[w] EXCEPT !.step = "write"]
    <2>1. appender' = [appender EXCEPT ![w] = a]
      BY <1>3 DEF read_to_end
    <2>2. PICK p \in LogPlugins, n \in Nat, s \in {"read", "write"} :
             appender[w] = [step |-> s, plugin |-> p, records |-> encode(p, n)]
      BY <1>1 DEF LogInv, LogTypeOK, AppenderType, Idle
    <2>3. a = [step |-> "write", plugin |-> p, records |-> encode(p, n)]
      BY <2>2
    <2>4. AppenderType(a) /\ a.step = "write" /\ a.plugin = p
      BY <2>3 DEF AppenderType
    <2>5. log # <<Older>>
      BY <1>3, OlderIsRefused
    <2>6. ~raced => \A v \in LogWriters \ {w} : AppendAt(v, "idle")
      BY <1>1 DEF LogInv, OneCall, AppendAt
    <2>7. ASSUME ~raced, log # <<>>
          PROVE  Len(log) = Len(put) /\ log[Len(log)].lf /\ put[1].plugin = p
      <3>1. Last(log).lf /\ OfOnePlugin(log) /\ log[1].text[1].plugin = p
        BY <1>1, <1>3, <2>2, <2>7, Accepted
      <3>2. HoldsPut
        BY <2>5, <2>7 DEF LogInv
      <3>3. Len(log) = Len(put) /\ Len(log) \in Nat /\ Len(log) # 0
        BY <1>1, <2>7, <3>1, <3>2 DEF HoldsPut, Last
      <3>4. log[1].text = <<put[1]>>
        BY <3>2, <3>3 DEF HoldsPut
      <3> QED  BY <3>1, <3>3, <3>4 DEF Last
    <2> HIDE DEF a
    <2> QED  BY <1>1, <2>1, <2>4, <2>5, <2>6, <2>7, AppenderStep
  <1> QED  BY <1>2, <1>3

LEMMA Concatenated ==
    ASSUME NEW S, NEW a \in Seq(S), NEW b \in Seq(S)
    PROVE  /\ a \o b \in Seq(S) /\ Len(a \o b) = Len(a) + Len(b)
           /\ \A i \in 1..Len(a) : (a \o b)[i] = a[i]
           /\ \A i \in 1..Len(b) : (a \o b)[Len(a) + i] = b[i]
  OBVIOUS

LEMMA Fronted ==
    ASSUME NEW S, NEW a \in Seq(S), a # <<>>
    PROVE  /\ Front(a) \in Seq(S) /\ Len(Front(a)) = Len(a) - 1 /\ Len(a) \in Nat /\ Len(a) >= 1
           /\ \A i \in 1..(Len(a) - 1) : Front(a)[i] = a[i]
  <1>1. Len(a) \in Nat /\ Len(a) >= 1
    OBVIOUS
  <1>2. \A i \in 1..(Len(a) - 1) : i \in 1..Len(a) /\ a[i] \in S
    BY <1>1
  <1>3. Front(a) = SubSeq(a, 1, Len(a) - 1)
    BY DEF Front
  <1>4. Len(SubSeq(a, 1, Len(a) - 1)) = Len(a) - 1
    <2> DEFINE n == Len(a) - 1
    <2>1. n \in Nat
      BY <1>1
    <2> HIDE DEF n
    <2>2. Len(SubSeq(a, 1, n)) = n
      BY <2>1
    <2> QED  BY <2>2 DEF n
  <1>5. SubSeq(a, 1, Len(a) - 1) \in Seq(S)
    BY <1>1, <1>2
  <1>6. \A i \in 1..(Len(a) - 1) : SubSeq(a, 1, Len(a) - 1)[i] = a[i]
    BY <1>1
  <1> QED  BY <1>1, <1>3, <1>4, <1>5, <1>6

(* What stands behind the last byte keeps the first record of the file.     *)
LEMMA JoinedEffect ==
    ASSUME NEW lines \in Seq(LogLines), NEW more \in Seq(LogLines)
    PROVE  /\ Joined(lines, more) \in Seq(LogLines)
           /\ lines = <<>> => Joined(lines, more) = more
           /\ lines # <<>> /\ Last(lines).lf => Joined(lines, more) = lines \o more
           /\ lines # <<>> => /\ Joined(lines, more) # <<>>
                              /\ Joined(lines, more)[1].text[1] = lines[1].text[1]
  <1>1. CASE more = <<>> \/ lines = <<>>
    <2>1. Joined(lines, more) = lines \o more
      BY <1>1 DEF Joined
    <2> QED  BY <1>1, <2>1
  <1>2. CASE more # <<>> /\ lines # <<>> /\ Last(lines).lf
    <2>1. Joined(lines, more) = lines \o more
      BY <1>2 DEF Joined
    <2> QED  BY <1>2, <2>1
  <1>3. CASE more # <<>> /\ lines # <<>> /\ ~Last(lines).lf
    <2> DEFINE x == [text |-> Last(lines).text \o more[1].text, lf |-> more[1].lf]
    <2>1. Joined(lines, more) = Front(lines) \o <<x>> \o Tail(more)
      BY <1>3 DEF Joined
    <2>2. Last(lines) \in LogLines /\ more[1] \in LogLines
      BY <1>3 DEF Last
    <2>3. x.text \in Seq(LogRecords) /\ x.text # <<>> /\ x.text[1] = Last(lines).text[1] /\ x.lf \in BOOLEAN
      BY <2>2 DEF LogLines
    <2>4. x \in LogLines
      BY <2>3 DEF LogLines
    <2> HIDE DEF x
    <2>5. /\ Front(lines) \in Seq(LogLines) /\ Len(Front(lines)) = Len(lines) - 1
          /\ \A i \in 1..(Len(lines) - 1) : Front(lines)[i] = lines[i]
      BY <1>3, Fronted
    <2>6. Front(lines) \o <<x>> \in Seq(LogLines) /\ Tail(more) \in Seq(LogLines)
      BY <1>3, <2>4, <2>5
    <2>7. (Front(lines) \o <<x>>)[1].text[1] = lines[1].text[1] /\ Len(Front(lines) \o <<x>>) = Len(lines)
      <3>1. /\ <<x>> \in Seq(LogLines) /\ Len(<<x>>) = 1 /\ <<x>>[1] = x
            /\ Len(lines) \in Nat /\ Len(lines) >= 1
        BY <1>3, <2>4
      <3>2. /\ Len(Front(lines) \o <<x>>) = Len(Front(lines)) + 1
            /\ \A i \in 1..Len(Front(lines)) : (Front(lines) \o <<x>>)[i] = Front(lines)[i]
            /\ (Front(lines) \o <<x>>)[Len(Front(lines)) + 1] = x
        BY <2>5, <3>1, Concatenated
      <3>3. CASE Len(lines) = 1
        BY <2>3, <2>5, <3>1, <3>2, <3>3 DEF Last
      <3>4. CASE Len(lines) > 1
        <4>1. 1 \in 1..Len(Front(lines)) /\ 1 \in 1..(Len(lines) - 1)
          BY <2>5, <3>1, <3>4
        <4> QED  BY <2>5, <3>1, <3>2, <4>1
      <3> QED  BY <3>1, <3>3, <3>4
    <2> DEFINE y == Front(lines) \o <<x>>
               z == Tail(more)
    <2> HIDE DEF y, z
    <2>8. y \o z \in Seq(LogLines) /\ y \o z # <<>> /\ (y \o z)[1] = y[1]
      BY <1>3, <2>6, <2>7 DEF y, z
    <2> QED  BY <1>3, <2>1, <2>7, <2>8 DEF y, z
  <1> QED  BY <1>1, <1>2, <1>3

(* A write of whole lines and perhaps a last one without its LF, or a part  *)
(* of one.                                                                  *)
Written(p, lines, whole) ==
    /\ lines \in Seq(LogLines) /\ whole \in Seq(LogRecords)
    /\ Len(lines) \in {Len(whole), Len(whole) + 1}
    /\ \A i \in 1..Len(whole) : /\ lines[i].text = <<whole[i]>> /\ whole[i].whole
                                 /\ whole[i].format = FORMAT /\ whole[i].plugin = p
    /\ \A i \in 1..(Len(lines) - 1) : lines[i].lf
    /\ \A i \in 1..Len(lines) : lines[i].text[1].format = FORMAT
    /\ Len(lines) > Len(whole) => /\ ~lines[Len(lines)].lf /\ Len(lines[Len(lines)].text) = 1
                                  /\ ~lines[Len(lines)].text[1].whole

LEMMA WriteStep ==
    ASSUME LogInv, NEW w \in LogWriters, AppendAt(w, "write"),
           NEW lines, NEW whole, Written(appender[w].plugin, lines, whole), Write(w, lines, whole)
    PROVE  LogInv'
  <1>0. /\ lines \in Seq(LogLines) /\ whole \in Seq(LogRecords)
        /\ Len(lines) \in {Len(whole), Len(whole) + 1}
        /\ \A i \in 1..Len(whole) : /\ lines[i].text = <<whole[i]>> /\ whole[i].whole
                                     /\ whole[i].format = FORMAT /\ whole[i].plugin = appender[w].plugin
        /\ \A i \in 1..(Len(lines) - 1) : lines[i].lf
        /\ \A i \in 1..Len(lines) : lines[i].text[1].format = FORMAT
        /\ Len(lines) > Len(whole) => /\ ~lines[Len(lines)].lf /\ Len(lines[Len(lines)].text) = 1
                                      /\ ~lines[Len(lines)].text[1].whole
    BY DEF Written
  <1>1. /\ log' = Joined(log, lines) /\ put' = put \o whole /\ raced' = raced
        /\ appender' = [appender EXCEPT ![w] = Idle]
    BY DEF Write
  <1>2. /\ log \in Seq(LogLines) /\ put \in Seq(LogRecords) /\ raced \in BOOLEAN
        /\ appender = [v \in LogWriters |-> appender[v]]
        /\ \A v \in LogWriters : AppenderType(appender[v])
    BY DEF LogInv, LogTypeOK
  <1>3. /\ appender'[w] = Idle /\ \A v \in LogWriters \ {w} : appender'[v] = appender[v]
        /\ appender' = [v \in LogWriters |-> appender'[v]]
    BY <1>1, <1>2
  <1>4. log' \in Seq(LogLines) /\ put' \in Seq(LogRecords)
    BY <1>0, <1>1, <1>2, JoinedEffect
  <1>5. LogTypeOK'
    <2>1. AppenderType(Idle)
      BY DEF AppenderType
    <2>2. \A v \in LogWriters : AppenderType(appender'[v])
      BY <1>2, <1>3, <2>1
    <2> QED  BY <1>1, <1>2, <1>3, <1>4, <2>2 DEF LogTypeOK
  <1>6. ~raced' => OneCall'
    BY <1>1, <1>3 DEF LogInv, OneCall, AppendAt, Idle
  <1>7. /\ log # <<>> => log[1].text[1].format = FORMAT
        /\ ~raced => HoldsPut /\ FoundWhole(w)
    BY DEF LogInv
  <1>8. log' # <<>> => log'[1].text[1].format = FORMAT
    <2>1. CASE log = <<>>
      <3>1. log' = lines
        BY <1>0, <1>1, <1>2, <2>1, JoinedEffect
      <3>2. lines # <<>> => 1 \in 1..Len(lines)
        BY <1>0
      <3> QED  BY <1>0, <3>1, <3>2
    <2>2. CASE log # <<>>
      <3>1. log'[1].text[1] = log[1].text[1]
        BY <1>0, <1>1, <1>2, <2>2, JoinedEffect
      <3> QED  BY <1>7, <2>2, <3>1
    <2> QED  BY <2>1, <2>2
  <1>9. ASSUME ~raced PROVE HoldsPut'
    <2>1. log' = log \o lines /\ Len(log) = Len(put)
      <3>1. CASE log = <<>>
        <4>1. put = <<>>
          BY <1>2, <1>7, <1>9, <3>1 DEF HoldsPut
        <4>2. log' = lines
          BY <1>0, <1>1, <1>2, <3>1, JoinedEffect
        <4> QED  BY <3>1, <4>1, <4>2
      <3>2. CASE log # <<>>
        <4>1. Len(log) = Len(put) /\ Last(log).lf
          BY <1>7, <1>9, <3>2 DEF FoundWhole, Last
        <4> QED  BY <1>0, <1>1, <1>2, <3>2, <4>1, JoinedEffect
      <3> QED  BY <3>1, <3>2
    <2>2. \A i \in 1..Len(log) : log[i].lf
      BY <1>2, <1>7, <1>9 DEF HoldsPut, FoundWhole
    <2>3. /\ Len(put') = Len(put) + Len(whole) /\ Len(log') = Len(put) + Len(lines)
          /\ \A i \in 1..Len(put) : put'[i] = put[i] /\ log'[i] = log[i]
          /\ \A i \in 1..Len(whole) : put'[Len(put) + i] = whole[i]
          /\ \A i \in 1..Len(lines) : log'[Len(put) + i] = lines[i]
      <3>1. /\ Len(put') = Len(put) + Len(whole)
            /\ \A i \in 1..Len(put) : put'[i] = put[i]
            /\ \A i \in 1..Len(whole) : put'[Len(put) + i] = whole[i]
        BY <1>0, <1>1, <1>2, Concatenated
      <3>2. /\ Len(log') = Len(log) + Len(lines)
            /\ \A i \in 1..Len(log) : log'[i] = log[i]
            /\ \A i \in 1..Len(lines) : log'[Len(log) + i] = lines[i]
        <4>1. log \in Seq(LogLines) /\ lines \in Seq(LogLines) /\ log' = log \o lines
          BY <1>0, <1>2, <2>1
        <4> QED  BY ONLY <4>1, Concatenated
      <3> QED  BY <2>1, <3>1, <3>2
    <2>4. ASSUME NEW i \in 1..Len(put')
          PROVE  /\ log'[i].text = <<put'[i]>> /\ put'[i].whole /\ put'[i].format = FORMAT
                 /\ put'[i].plugin = appender[w].plugin
      <3>1. CASE i \in 1..Len(put)
        <4>1. put[1].plugin = appender[w].plugin
          BY <1>2, <1>7, <1>9, <2>1, <3>1 DEF FoundWhole
        <4> QED  BY <1>7, <1>9, <2>3, <3>1, <4>1 DEF HoldsPut
      <3>2. CASE i \notin 1..Len(put)
        <4>1. PICK j \in 1..Len(whole) : i = Len(put) + j
          <5>1. i - Len(put) \in 1..Len(whole) /\ i = Len(put) + (i - Len(put))
            BY <1>0, <1>2, <2>3, <3>2
          <5> QED  BY <5>1
        <4>2. j \in 1..Len(lines)
          BY <1>0
        <4>3. log'[i] = lines[j] /\ put'[i] = whole[j]
          BY <2>3, <4>1, <4>2
        <4> QED  BY <1>0, <4>3
      <3> QED  BY <3>1, <3>2
    <2>5. ASSUME NEW i \in 1..(Len(log') - 1) PROVE log'[i].lf
      <3>1. CASE i \in 1..Len(put)
        BY <2>1, <2>2, <2>3, <3>1
      <3>2. CASE i \notin 1..Len(put)
        <4>1. i - Len(put) \in 1..(Len(lines) - 1) /\ i = Len(put) + (i - Len(put))
          BY <1>0, <1>2, <2>3, <3>2
        <4>2. log'[i] = lines[i - Len(put)]
          BY <2>3, <4>1, SMTT(30)
        <4> QED  BY <1>0, <4>1, <4>2
      <3> QED  BY <3>1, <3>2
    <2>6. ASSUME Len(log') > Len(put')
          PROVE  Len(lines) > Len(whole) /\ log'[Len(log')] = lines[Len(lines)]
      <3>1. Len(put) \in Nat /\ Len(whole) \in Nat /\ Len(lines) \in Nat
        BY <1>0, <1>2
      <3>2. Len(lines) > Len(whole)
        BY <2>3, <2>6, <3>1
      <3>3. Len(lines) \in 1..Len(lines)
        BY <3>1, <3>2
      <3> QED  BY <2>3, <3>2, <3>3
    <2>7. Len(log') \in {Len(put'), Len(put') + 1}
      <3>1. Len(put) \in Nat /\ Len(whole) \in Nat /\ Len(lines) \in {Len(whole), Len(whole) + 1}
        BY <1>0, <1>2
      <3>2. Len(put') = Len(put) + Len(whole) /\ Len(log') = Len(put) + Len(lines)
        BY <2>3
      <3> QED  BY ONLY <3>1, <3>2
    <2>8. \A i \in 1..Len(put') : put'[i].plugin = put'[1].plugin
      BY <1>4, <2>4
    <2> QED  BY <1>0, <2>4, <2>5, <2>6, <2>7, <2>8 DEF HoldsPut
  <1>10. ~raced' => \A v \in LogWriters : ~AppendAt(v, "write")'
    BY <1>1, <1>3 DEF LogInv, OneCall, AppendAt, Idle
  <1> QED  BY <1>1, <1>5, <1>6, <1>8, <1>9, <1>10 DEF LogInv

(* The lines of records.                                                    *)
LEMMA Lined ==
    ASSUME NEW records \in Seq(LogRecords)
    PROVE  /\ Lines(records) \in Seq(LogLines) /\ Len(Lines(records)) = Len(records)
           /\ \A i \in 1..Len(records) : /\ Lines(records)[i].text = <<records[i]>>
                                         /\ Lines(records)[i].text[1] = records[i] /\ Lines(records)[i].lf
  <1>1. \A r \in LogRecords : /\ Line(r) \in LogLines /\ Line(r).text = <<r>>
                              /\ Line(r).text[1] = r /\ Line(r).lf
    BY DEF Line, LogLines
  <1>2. DOMAIN records = 1..Len(records) /\ \A i \in 1..Len(records) : records[i] \in LogRecords
    OBVIOUS
  <1>3. Lines(records) = [i \in 1..Len(records) |-> Line(records[i])]
    BY <1>2 DEF Lines
  <1>4. Lines(records) \in Seq(LogLines) /\ Len(Lines(records)) = Len(records)
    BY <1>1, <1>2, <1>3
  <1>5. \A i \in 1..Len(records) : Lines(records)[i] = Line(records[i])
    BY <1>3
  <1> QED  BY <1>1, <1>2, <1>4, <1>5

(* A call that writes has a ledger's records.                               *)
LEMMA Encoded ==
    ASSUME LogInv, NEW w \in LogWriters, AppendAt(w, "write")
    PROVE  /\ appender[w].records \in Seq(LogRecords)
           /\ \A i \in DOMAIN appender[w].records :
                LET r == appender[w].records[i]
                IN r.whole /\ r.format = FORMAT /\ r.plugin = appender[w].plugin
  <1>1. PICK p \in LogPlugins, n \in Nat, s \in {"read", "write"} :
             appender[w] = [step |-> s, plugin |-> p, records |-> encode(p, n)]
    BY DEF LogInv, LogTypeOK, AppenderType, Idle, AppendAt
  <1>2. appender[w].records = [i \in 1..n |-> Record(p, i, FORMAT)] /\ appender[w].plugin = p
    BY <1>1 DEF encode
  <1>3. \A i \in 1..n : LET r == Record(p, i, FORMAT)
                        IN r \in LogRecords /\ r.whole /\ r.format = FORMAT /\ r.plugin = p
    BY DEF Record, LogRecords
  <1> QED  BY <1>2, <1>3

LEMMA Ledger_write_allStep ==
    ASSUME LogInv, NEW w \in LogWriters, Ledger_write_all(w)
    PROVE  LogInv'
  <1> DEFINE rs == appender[w].records
  <1>1. AppendAt(w, "write") /\ Write(w, Lines(rs), rs)
    BY DEF Ledger_write_all
  <1>2. /\ rs \in Seq(LogRecords)
        /\ \A i \in DOMAIN rs : rs[i].whole /\ rs[i].format = FORMAT /\ rs[i].plugin = appender[w].plugin
    BY <1>1, Encoded
  <1> HIDE DEF rs
  <1>3. /\ Lines(rs) \in Seq(LogLines) /\ Len(Lines(rs)) = Len(rs)
        /\ \A i \in 1..Len(rs) : /\ Lines(rs)[i].text = <<rs[i]>>
                                 /\ Lines(rs)[i].text[1] = rs[i] /\ Lines(rs)[i].lf
    BY <1>2, Lined
  <1> DEFINE ls == Lines(rs)
  <1> HIDE DEF ls
  <1>4. /\ ls \in Seq(LogLines) /\ Len(ls) = Len(rs) /\ Len(rs) \in Nat /\ Write(w, ls, rs)
        /\ \A i \in 1..Len(rs) : ls[i].text = <<rs[i]>> /\ ls[i].text[1] = rs[i] /\ ls[i].lf
    BY <1>1, <1>2, <1>3 DEF ls
  <1>5. \A i \in 1..Len(rs) : rs[i].whole /\ rs[i].format = FORMAT /\ rs[i].plugin = appender[w].plugin
    BY <1>2
  <1>6. \A i \in 1..Len(ls) : ls[i].text[1].format = FORMAT
    BY <1>4, <1>5
  <1>7. Written(appender[w].plugin, ls, rs)
    BY <1>2, <1>4, <1>5, <1>6 DEF Written
  <1> QED  BY <1>1, <1>4, <1>7, WriteStep

LEMMA ComesUpShortStep ==
    ASSUME LogInv, NEW w \in LogWriters, ComesUpShort(w)
    PROVE  LogInv'
  <1> DEFINE rs == appender[w].records
             Complete(r) == r \in LogRecords /\ r.whole /\ r.format = FORMAT /\ r.plugin = appender[w].plugin
  <1>1. AppendAt(w, "write")
    BY DEF ComesUpShort
  <1>2. PICK n \in DOMAIN rs :
           LET before == SubSeq(rs, 1, n - 1)
               With(final) == Append(Lines(before), [text |-> <<final>>, lf |-> FALSE])
           IN \/ Write(w, Lines(before), before)
              \/ Write(w, With([rs[n] EXCEPT !.whole = FALSE]), before)
              \/ Write(w, With(rs[n]), Append(before, rs[n]))
    BY DEF ComesUpShort
  <1> DEFINE before == SubSeq(rs, 1, n - 1)
             part == [rs[n] EXCEPT !.whole = FALSE]
             With(final) == Append(Lines(before), [text |-> <<final>>, lf |-> FALSE])
  <1>3. rs \in Seq(LogRecords) /\ \A i \in DOMAIN rs : Complete(rs[i])
    BY <1>1, Encoded
  <1>4. n \in Nat /\ n >= 1 /\ n <= Len(rs)
    BY <1>3
  <1>5. /\ before \in Seq(LogRecords) /\ Len(before) = n - 1
        /\ \A i \in 1..(n - 1) : before[i] = rs[i] /\ i \in DOMAIN rs
    <2> DEFINE m == n - 1
    <2>1. m \in Nat /\ m <= Len(rs)
      BY <1>4, <1>3
    <2> HIDE DEF m, rs
    <2>2. /\ SubSeq(rs, 1, m) \in Seq(LogRecords) /\ Len(SubSeq(rs, 1, m)) = m
          /\ \A i \in 1..m : SubSeq(rs, 1, m)[i] = rs[i] /\ i \in DOMAIN rs
      BY <1>3, <2>1
    <2> QED  BY <2>2 DEF m
  <1>6. \A i \in 1..Len(before) : Complete(before[i])
    BY <1>3, <1>5
  <1>7. Complete(rs[n]) /\ part \in LogRecords /\ ~part.whole /\ part.format = FORMAT
    BY <1>3 DEF LogRecords
  <1> HIDE DEF rs, before, part
  <1>8. /\ Lines(before) \in Seq(LogLines) /\ Len(Lines(before)) = Len(before)
        /\ \A i \in 1..Len(before) : /\ Lines(before)[i].text = <<before[i]>>
                                     /\ Lines(before)[i].text[1] = before[i] /\ Lines(before)[i].lf
    BY <1>5, Lined
  <1>9. ASSUME NEW r \in LogRecords
        PROVE  /\ With(r) \in Seq(LogLines) /\ Len(With(r)) = Len(before) + 1
               /\ \A i \in 1..Len(before) : With(r)[i] = Lines(before)[i]
               /\ With(r)[Len(before) + 1].text = <<r>> /\ ~With(r)[Len(before) + 1].lf
               /\ Len(With(r)[Len(before) + 1].text) = 1 /\ With(r)[Len(before) + 1].text[1] = r
    <2> DEFINE x == [text |-> <<r>>, lf |-> FALSE]
    <2>1. x \in LogLines /\ x.text = <<r>> /\ Len(x.text) = 1 /\ x.text[1] = r /\ ~x.lf
      BY DEF LogLines
    <2> HIDE DEF x
    <2> DEFINE ls == Lines(before)
    <2>2. ls \in Seq(LogLines) /\ Len(ls) = Len(before)
      BY <1>8
    <2>3. With(r) = Append(ls, x)
      BY DEF x
    <2> HIDE DEF ls, With
    <2>4. /\ With(r) \in Seq(LogLines) /\ Len(With(r)) = Len(ls) + 1
          /\ \A i \in 1..Len(ls) : With(r)[i] = ls[i]
          /\ With(r)[Len(ls) + 1] = x
      BY <2>1, <2>2, <2>3
    <2> QED  BY <2>1, <2>2, <2>4 DEF ls
  <1>10. CASE Write(w, Lines(before), before)
    <2> DEFINE ls == Lines(before)
    <2>1. /\ ls \in Seq(LogLines) /\ Len(ls) = Len(before) /\ Len(before) \in Nat
          /\ \A i \in 1..Len(before) : ls[i].text = <<before[i]>> /\ ls[i].text[1] = before[i] /\ ls[i].lf
      BY <1>5, <1>8
    <2>2. Write(w, ls, before)
      BY <1>10
    <2> HIDE DEF ls
    <2>3. \A i \in 1..Len(before) : /\ before[i].whole /\ before[i].format = FORMAT
                                    /\ before[i].plugin = appender[w].plugin
      BY <1>6
    <2>4. \A i \in 1..Len(ls) : ls[i].text[1].format = FORMAT
      BY <2>1, <2>3
    <2>5. Written(appender[w].plugin, ls, before)
      BY <1>5, <2>1, <2>3, <2>4 DEF Written
    <2> QED  BY <1>1, <2>2, <2>5, WriteStep
  <1>11. CASE Write(w, With(part), before)
    <2> DEFINE ls == With(part)
    <2>1. /\ ls \in Seq(LogLines) /\ Len(ls) = Len(before) + 1
          /\ \A i \in 1..Len(before) : ls[i] = Lines(before)[i]
          /\ ls[Len(before) + 1].text[1] = part /\ ~ls[Len(before) + 1].lf /\ Len(ls[Len(before) + 1].text) = 1
      BY <1>7, <1>9
    <2> HIDE DEF ls, Complete
    <2>2. Write(w, ls, before)
      BY <1>11 DEF ls
    <2>3. Len(before) \in Nat
      BY <1>5
    <2>4. \A i \in 1..Len(before) : /\ ls[i].text = <<before[i]>> /\ ls[i].text[1].format = FORMAT /\ ls[i].lf
      BY <1>6, <1>8, <2>1 DEF Complete
    <2>5. \A i \in 1..Len(ls) : ls[i].text[1].format = FORMAT
      BY <1>7, <2>1, <2>3, <2>4
    <2>6. \A i \in 1..Len(before) : /\ before[i].whole /\ before[i].format = FORMAT
                                    /\ before[i].plugin = appender[w].plugin
      BY <1>6 DEF Complete
    <2>7. Written(appender[w].plugin, ls, before)
      BY <1>5, <1>7, <2>1, <2>3, <2>4, <2>5, <2>6 DEF Written
    <2> QED  BY <1>1, <2>2, <2>7, WriteStep
  <1>12. CASE Write(w, With(rs[n]), Append(before, rs[n]))
    <2> DEFINE ls == With(rs[n])
               whole == Append(before, rs[n])
    <2>1. /\ ls \in Seq(LogLines) /\ Len(ls) = Len(before) + 1
          /\ \A i \in 1..Len(before) : ls[i] = Lines(before)[i]
          /\ ls[Len(before) + 1].text = <<rs[n]>> /\ ls[Len(before) + 1].text[1] = rs[n]
      BY <1>7, <1>9
    <2>2. /\ whole \in Seq(LogRecords) /\ Len(whole) = Len(before) + 1 /\ Len(before) \in Nat
          /\ \A i \in 1..Len(before) : whole[i] = before[i]
          /\ whole[Len(before) + 1] = rs[n]
      BY <1>5, <1>7
    <2> HIDE DEF ls, whole
    <2>3. Write(w, ls, whole)
      BY <1>12 DEF ls, whole
    <2>4. \A i \in 1..Len(whole) : Complete(whole[i]) /\ ls[i].text = <<whole[i]>> /\ ls[i].text[1] = whole[i]
      <3> SUFFICES ASSUME NEW i \in 1..Len(whole)
                   PROVE  Complete(whole[i]) /\ ls[i].text = <<whole[i]>> /\ ls[i].text[1] = whole[i]
        OBVIOUS
      <3>1. CASE i \in 1..Len(before)
        BY <1>6, <1>8, <2>1, <2>2, <3>1
      <3>2. CASE i = Len(before) + 1
        BY <1>7, <2>1, <2>2, <3>2
      <3> QED  BY <2>2, <3>1, <3>2
    <2>5. \A i \in 1..(Len(ls) - 1) : ls[i].lf
      BY <1>8, <2>1, <2>2
    <2>6. \A i \in 1..Len(ls) : ls[i].text[1].format = FORMAT
      BY <2>1, <2>2, <2>4
    <2>7. Len(ls) = Len(whole) /\ Len(ls) \in Nat
      BY <2>1, <2>2
    <2>8. Written(appender[w].plugin, ls, whole)
      BY <2>1, <2>2, <2>4, <2>5, <2>6, <2>7 DEF Written
    <2> QED  BY <1>1, <2>3, <2>8, WriteStep
  <1> QED  BY <1>2, <1>10, <1>11, <1>12 DEF before, part

LEMMA LogInitInv == PluginLogInit => LogInv
  <1> SUFFICES ASSUME PluginLogInit PROVE LogInv
    OBVIOUS
  <1>1. /\ appender = [w \in LogWriters |-> Idle] /\ put = <<>> /\ raced = FALSE
        /\ log = <<>> \/ log = <<Older>>
    BY DEF PluginLogInit, Unwritten
  <1>2. \A w \in LogWriters : appender[w] = Idle /\ AppendAt(w, "idle") /\ ~AppendAt(w, "write")
    BY <1>1 DEF AppendAt, Idle
  <1>3. AppenderType(Idle)
    BY DEF AppenderType
  <1>4. LogTypeOK
    <2>1. Older \in LogLines
      BY OlderIsRefused
    <2>2. log \in Seq(LogLines)
      <3>1. <<>> \in Seq(LogLines) /\ <<Older>> \in Seq(LogLines)
        BY <2>1
      <3>2. log = <<>> \/ log = <<Older>>
        BY <1>1
      <3> QED  BY <3>1, <3>2, Zenon
    <2>3. \A w \in LogWriters : AppenderType(appender[w])
      BY <1>2, <1>3
    <2>4. appender = [w \in LogWriters |-> appender[w]]
      BY <1>1
    <2>5. put \in Seq(LogRecords) /\ raced \in BOOLEAN
      <3>1. <<>> \in Seq(LogRecords) /\ FALSE \in BOOLEAN
        OBVIOUS
      <3>2. put = <<>> /\ raced = FALSE
        BY <1>1
      <3> QED  BY <3>1, <3>2, Zenon
    <2> QED  BY <2>2, <2>3, <2>4, <2>5 DEF LogTypeOK
  <1>5. OneCall
    BY <1>2 DEF OneCall
  <1>6. log = <<>> => HoldsPut
    BY <1>1 DEF HoldsPut
  <1> QED  BY <1>1, <1>2, <1>4, <1>5, <1>6 DEF LogInv

LEMMA LogStep == LogInv /\ [PluginLogNext]_logVars => LogInv'
  <1> SUFFICES ASSUME LogInv, [PluginLogNext]_logVars PROVE LogInv'
    OBVIOUS
  <1>1. CASE PluginLogNext
    <2>1. PICK w \in LogWriters : \/ append_to_file(w) \/ read_to_end(w) \/ Ledger_write_all(w)
                                  \/ ComesUpShort(w) \/ DiesBefore(w)
      BY <1>1 DEF PluginLogNext
    <2>2. CASE DiesBefore(w)
      BY <2>2, StopStep DEF DiesBefore
    <2> QED  BY <2>1, <2>2, append_to_fileStep, read_to_endStep, Ledger_write_allStep, ComesUpShortStep
  <1>2. CASE UNCHANGED logVars
    BY <1>2 DEF logVars, LogInv, LogTypeOK, OneCall, HoldsPut, FoundWhole, AppendAt
  <1> QED  BY <1>1, <1>2

LEMMA LogInvWhole == LogInv => LogIsWhole
  <1> SUFFICES ASSUME LogInv PROVE LogIsWhole
    OBVIOUS
  <1>1. LogTypeOK
    BY DEF LogInv
  <1>2. \A read \in Ledger_open_file : \A i \in DOMAIN read.records :
           read.records[i].plugin = read.records[1].plugin
    BY <1>1, OpensAsOne
  <1>3. CASE log = <<Older>> /\ put = <<>>
    <2>1. Last(log) = Older /\ Older.lf /\ log # <<>>
      BY <1>3 DEF Last, Older, Line
    <2>2. read_plugin_log(log) = {ReadAs(log)}
      BY <2>1 DEF read_plugin_log, MayBreak, MustBreak
    <2>3. ~OfOnePlugin(log)
      <3>1. ASSUME OfOnePlugin(log) PROVE accepts_target(log[1].text[1].plugin, log)
        <4>1. ReadAs(log).ok /\ ReadAs(log).records[1] = log[1].text[1]
          BY <3>1, <1>3 DEF ReadAs
        <4> QED  BY <2>1, <2>2, <4>1 DEF accepts_target
      <3> QED  BY <3>1, <1>3, OlderIsRefused
    <2>4. \A read \in Ledger_open_file : read.records = put
      BY <1>3, <2>2, <2>3 DEF Ledger_open_file, ReadAs, Invalid
    <2> QED  BY <1>2, <1>3, <2>4 DEF LogIsWhole
  <1>4. CASE /\ log # <<>> => log[1].text[1].format = FORMAT
             /\ ~raced => HoldsPut
    <2>1. ~raced => \A read \in Ledger_open_file : read.records = put
      BY <1>1, <1>4, OpensAsPut
    <2>2. log # <<>> => log[1] # Older
      BY <1>4 DEF Older, Line, Record, FORMAT
    <2> QED  BY <1>2, <2>1, <2>2 DEF LogIsWhole
  <1> QED  BY <1>3, <1>4 DEF LogInv

(* However writes come up short, whoever tries again and however calls      *)
(* race, a log that was written one call at a time opens as what was        *)
(* written, no log opens as the effects of two plugins, and an older log is *)
(* left alone.                                                              *)
THEOREM WholeLog == PluginLogSpec => []LogIsWhole
  BY LogInitInv, LogStep, LogInvWhole, PTL DEF PluginLogSpec
=============================================================================
