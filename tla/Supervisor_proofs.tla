-------------------------- MODULE Supervisor_proofs --------------------------
(***************************************************************************)
(* Proofs about SupervisorLock and SupervisorStart, for any number of       *)
(* racing callers and of starts at once, any record and any pipe.           *)
(*                                                                          *)
(* A supervisor lock, once given, is the lock of the named file and is      *)
(* given to one caller only.                                                *)
(***************************************************************************)
EXTENDS SupervisorLock, SupervisorStart, TLAPS

(* HeldIsNamed is about callers that have returned.  Inductively: a caller  *)
(* past its flock holds the flock of its file; a caller past its check, or  *)
(* probing, has the named file open; and the name, once given, stays.       *)
FlockIsMine ==
    \A c \in Callers : step[c] \in Locking => holder[file[c]] = c

OpenIsNamed ==
    \A c \in Callers : step[c] \in {"sync", "held", "probe_lock"} => named = file[c]

LInv == TypeOK /\ FlockIsMine /\ OpenIsNamed

LEMMA LockStart == LockInit => LInv
<1> SUFFICES ASSUME LockInit PROVE LInv
  OBVIOUS
<1>1. created \in 0..MaxInodes
  BY LockAssumption DEF LockInit
<1>2. TypeOK
  BY <1>1 DEF LockInit, TypeOK, Creating, Locking, Opening
<1>3. FlockIsMine /\ OpenIsNamed
  BY DEF LockInit, FlockIsMine, OpenIsNamed, Locking
<1> QED
  BY <1>2, <1>3 DEF LInv

(* A caller with a file open has an inode open.                             *)
LEMMA OpenFile ==
    ASSUME TypeOK, NEW c \in Callers, step[c] \in Locking \cup Opening
    PROVE  file[c] \in Inodes
BY DEF TypeOK

LEMMA LockStep ==
    ASSUME LInv, NEW c \in Callers,
           \/ BeginCreate(c, "idle")
           \/ remove_if_present(c)
           \/ RemoveFailedTemporary(c)
           \/ RemoveUnnamedTemporary(c)
           \/ check_lock_named(c)
           \/ sync_dir(c)
           \/ BeginProbe(c)
    PROVE  LInv'
<1> USE DEF LInv, TypeOK, FlockIsMine, OpenIsNamed, Goto, Creating, Locking, Opening
<1>1. CASE BeginCreate(c, "idle")
  BY <1>1 DEF BeginCreate
<1>2. CASE remove_if_present(c)
  BY <1>2 DEF remove_if_present, Fails
<1>3. CASE RemoveFailedTemporary(c)
  BY <1>3 DEF RemoveFailedTemporary
<1>4. CASE RemoveUnnamedTemporary(c)
  BY <1>4 DEF RemoveUnnamedTemporary
<1>5. CASE check_lock_named(c)
  BY <1>5 DEF check_lock_named
<1>6. CASE sync_dir(c)
  BY <1>6 DEF sync_dir
<1>7. CASE BeginProbe(c)
  BY <1>7 DEF BeginProbe
<1> QED
  BY <1>1, <1>2, <1>3, <1>4, <1>5, <1>6, <1>7

LEMMA CreateFileStep ==
    ASSUME LInv, NEW c \in Callers, create_private_file(c)
    PROVE  LInv'
BY LockAssumption DEF LInv, TypeOK, FlockIsMine, OpenIsNamed, Goto, Creating, Locking,
                      Opening, create_private_file, Inodes

LEMMA FlockStep ==
    ASSUME LInv, NEW c \in Callers,
           create_locked_temporary(c) \/ probe_supervisor_lock(c)
    PROVE  LInv'
<1>1. step[c] \in Opening
  BY DEF create_locked_temporary, probe_supervisor_lock, Fails, Goto, Opening
<1>2. file[c] \in Inodes
  BY <1>1, OpenFile DEF LInv
<1>3. ASSUME NEW d \in Callers, d # c, step[d] \in Locking
      PROVE  holder[file[d]] = d /\ file[d] \in Inodes
  BY <1>3, OpenFile DEF LInv, FlockIsMine
<1> QED
  BY <1>1, <1>2, <1>3, LockAssumption
     DEF LInv, TypeOK, FlockIsMine, OpenIsNamed, Goto, Creating, Locking, Opening, Fails,
         create_locked_temporary, probe_supervisor_lock

LEMMA RenameStep ==
    ASSUME LInv, NEW c \in Callers, name_supervisor_lock(c)
    PROVE  LInv'
<1>1. ASSUME NEW d \in Callers, step[d] \in {"sync", "held", "probe_lock"}
      PROVE  named # NoOne
  BY <1>1, OpenFile, LockAssumption DEF LInv, OpenIsNamed, Locking, Opening, Inodes
<1> QED
  BY <1>1 DEF LInv, TypeOK, FlockIsMine, OpenIsNamed, Goto, Creating, Locking, Opening,
              name_supervisor_lock

LEMMA OpenStep ==
    ASSUME LInv, NEW c \in Callers, open_supervisor_lock(c)
    PROVE  LInv'
<1> USE DEF LInv, TypeOK, FlockIsMine, OpenIsNamed, Goto, Creating, Locking, Opening
<1>1. CASE /\ named # NoOne
           /\ step' = [step EXCEPT ![c] = "probe_lock"]
           /\ file' = [file EXCEPT ![c] = named]
           /\ UNCHANGED <<temporary, named, created, holder, overlapped, released>>
  <2>1. named \in Inodes
    BY <1>1
  <2>2. TypeOK'
    BY <1>1, <2>1
  <2>3. FlockIsMine' /\ OpenIsNamed'
    BY <1>1, <2>1
  <2> QED
    BY <2>2, <2>3
<1>2. CASE BeginCreate(c, "open_test")
  BY <1>2 DEF BeginCreate
<1>3. CASE Fails(c, "open_test") \/ Fails(c, "open_probe")
  BY <1>3 DEF Fails
<1> QED
  BY <1>1, <1>2, <1>3 DEF open_supervisor_lock

LEMMA ReleaseStep ==
    ASSUME LInv, NEW c \in Callers, Release(c)
    PROVE  LInv'
<1>1. ASSUME NEW d \in Callers, d # c, step[d] \in Locking
      PROVE  holder'[file[d]] = d
  BY <1>1, OpenFile DEF LInv, FlockIsMine, Release
<1> QED
  BY <1>1 DEF LInv, TypeOK, FlockIsMine, OpenIsNamed, Creating, Locking, Opening, Release

LEMMA LockInvStep == LInv /\ [LockNext]_lockVars => LInv'
<1> SUFFICES ASSUME LInv, [LockNext]_lockVars PROVE LInv'
  OBVIOUS
<1>1. CASE UNCHANGED lockVars
  BY <1>1 DEF LInv, TypeOK, FlockIsMine, OpenIsNamed, lockVars
<1>2. CASE LockNext
  <2>1. PICK c \in Callers :
            \/ BeginCreate(c, "idle") \/ remove_if_present(c) \/ create_private_file(c)
            \/ create_locked_temporary(c) \/ RemoveFailedTemporary(c)
            \/ name_supervisor_lock(c) \/ RemoveUnnamedTemporary(c)
            \/ check_lock_named(c) \/ sync_dir(c) \/ unlock(c) \/ BeginProbe(c)
            \/ open_supervisor_lock(c) \/ probe_supervisor_lock(c) \/ SupervisorLock_drop(c) \/ Die(c)
    BY <1>2 DEF LockNext
  <2> QED
    BY <2>1, LockStep, CreateFileStep, FlockStep, RenameStep, OpenStep, ReleaseStep
       DEF unlock, SupervisorLock_drop, Die
<1> QED
  BY <1>1, <1>2

THEOREM LockInvariant == LockSpec => []LInv
BY LockStart, LockInvStep, PTL DEF LockSpec

(* Whoever create_supervisor_lock or a probe has given the lock holds the   *)
(* flock of the file named supervisor.lock, however many callers race.      *)
THEOREM LockIsNamed == LockSpec => []HeldIsNamed
<1>1. LInv => HeldIsNamed
  <2> SUFFICES ASSUME LInv, NEW c \in Callers, step[c] = "held"
               PROVE  named = file[c] /\ named # NoOne /\ holder[named] = c
    BY DEF HeldIsNamed
  <2>1. file[c] \in Inodes
    BY OpenFile DEF LInv, Locking
  <2> QED
    BY <2>1, LockAssumption DEF LInv, FlockIsMine, OpenIsNamed, Locking, Inodes
<1> QED
  BY <1>1, LockInvariant, PTL

(* No two callers are ever given one cell's supervisor lock.                *)
THEOREM AtMostOneSupervisor == LockSpec => []OneSupervisor
<1>1. LInv => OneSupervisor
  BY DEF LInv, FlockIsMine, OpenIsNamed, OneSupervisor, Locking
<1> QED
  BY <1>1, LockInvariant, PTL

----------------------------------------------------------------------------
(* A lock is never fresh and free                                           *)

(* While creating calls have not overlapped, one caller at a time is inside *)
(* create_supervisor_lock, so the temporary name is that caller's own file  *)
(* from its creation to its rename, which it holds by then.                 *)
OneCreator ==
    \A c, d \in Callers : step[c] \in Creating /\ step[d] \in Creating => c = d

TemporaryIsMine ==
    \A c \in Callers : step[c] \in {"flock", "rename"} => temporary = file[c]

FInv == ~overlapped => OneCreator /\ TemporaryIsMine /\ NeverFreshAndFree

LEMMA FreshInit == LockInit => FInv
BY DEF LockInit, FInv, OneCreator, TemporaryIsMine, NeverFreshAndFree, Creating

(* Steps that leave the flocks and the name alone.                          *)
LEMMA FreshStep ==
    ASSUME LInv, FInv, NEW c \in Callers,
           \/ remove_if_present(c) \/ create_private_file(c) \/ RemoveFailedTemporary(c)
           \/ RemoveUnnamedTemporary(c) \/ check_lock_named(c) \/ sync_dir(c)
           \/ BeginProbe(c)
    PROVE  FInv'
<1> USE DEF LInv, TypeOK, FInv, OneCreator, TemporaryIsMine, NeverFreshAndFree, Goto, Creating,
            Locking, Opening
<1>1. CASE remove_if_present(c)
  BY <1>1 DEF remove_if_present, Fails
<1>2. CASE create_private_file(c)
  BY <1>2 DEF create_private_file
<1>3. CASE RemoveFailedTemporary(c)
  BY <1>3 DEF RemoveFailedTemporary
<1>4. CASE RemoveUnnamedTemporary(c)
  BY <1>4 DEF RemoveUnnamedTemporary
<1>5. CASE check_lock_named(c)
  BY <1>5 DEF check_lock_named
<1>6. CASE sync_dir(c)
  BY <1>6 DEF sync_dir
<1>7. CASE BeginProbe(c)
  BY <1>7 DEF BeginProbe
<1> QED
  BY <1>1, <1>2, <1>3, <1>4, <1>5, <1>6, <1>7

LEMMA FreshBegin ==
    ASSUME LInv, FInv, NEW c \in Callers, NEW from \in {"idle", "open_test"}, BeginCreate(c, from)
    PROVE  FInv'
<1> SUFFICES ASSUME ~overlapped' PROVE OneCreator' /\ TemporaryIsMine' /\ NeverFreshAndFree'
  BY DEF FInv
<1>1. ~overlapped /\ \A d \in Callers \ {c} : step[d] \notin Creating
  BY DEF BeginCreate
<1>2. step' = [step EXCEPT ![c] = "remove"] /\ step \in [Callers -> Creating \cup Locking \cup Opening
                                               \cup {"idle", "open_probe", "open_test"}]
  BY DEF BeginCreate, Goto, LInv, TypeOK
<1>3. OneCreator'
  BY <1>1, <1>2 DEF OneCreator
<1>4. TemporaryIsMine' /\ NeverFreshAndFree'
  BY <1>1, <1>2 DEF FInv, TemporaryIsMine, NeverFreshAndFree, BeginCreate
<1> QED
  BY <1>3, <1>4

LEMMA FreshOpen ==
    ASSUME LInv, FInv, NEW c \in Callers, open_supervisor_lock(c)
    PROVE  FInv'
<1>1. CASE /\ named # NoOne
           /\ step' = [step EXCEPT ![c] = "probe_lock"]
           /\ file' = [file EXCEPT ![c] = named]
           /\ UNCHANGED <<temporary, named, created, holder, overlapped, released>>
  BY <1>1 DEF LInv, TypeOK, FInv, OneCreator, TemporaryIsMine, NeverFreshAndFree, Creating
<1>2. CASE Fails(c, "open_test") \/ Fails(c, "open_probe")
  BY <1>2 DEF LInv, TypeOK, FInv, OneCreator, TemporaryIsMine, NeverFreshAndFree, Creating, Fails, Goto
<1> QED
  BY <1>1, <1>2, FreshBegin DEF open_supervisor_lock

LEMMA FreshFlock ==
    ASSUME LInv, FInv, NEW c \in Callers,
           create_locked_temporary(c) \/ probe_supervisor_lock(c)
    PROVE  FInv'
<1>1. step[c] \in Opening
  BY DEF create_locked_temporary, probe_supervisor_lock, Fails, Goto, Opening
<1>2. file[c] \in Inodes
  BY <1>1, OpenFile DEF LInv
<1> USE LockAssumption DEF LInv, TypeOK, FInv, OneCreator, TemporaryIsMine, NeverFreshAndFree,
        Goto, Creating, Inodes
<1>3. CASE create_locked_temporary(c)
  BY <1>2, <1>3 DEF create_locked_temporary
<1>4. CASE probe_supervisor_lock(c)
  BY <1>2, <1>4 DEF probe_supervisor_lock, Fails
<1> QED
  BY <1>3, <1>4

(* The name is given to the caller's own file, whose flock it holds.        *)
LEMMA FreshRename ==
    ASSUME LInv, FInv, NEW c \in Callers, name_supervisor_lock(c)
    PROVE  FInv'
<1> SUFFICES ASSUME ~overlapped PROVE FInv'
  BY DEF FInv, name_supervisor_lock
<1>1. step[c] = "rename" /\ temporary = file[c] /\ holder[file[c]] = c
  BY DEF FInv, TemporaryIsMine, LInv, FlockIsMine, Locking, name_supervisor_lock
<1>2. NeverFreshAndFree'
  BY <1>1, LockAssumption DEF FInv, NeverFreshAndFree, name_supervisor_lock
<1>3. OneCreator' /\ TemporaryIsMine'
  BY <1>1 DEF FInv, LInv, TypeOK, OneCreator, TemporaryIsMine, Goto, Creating, name_supervisor_lock
<1> QED
  BY <1>2, <1>3 DEF FInv

LEMMA FreshRelease ==
    ASSUME LInv, FInv, NEW c \in Callers, Release(c)
    PROVE  FInv'
<1>1. NeverFreshAndFree' \/ overlapped
  BY LockAssumption DEF LInv, TypeOK, FInv, NeverFreshAndFree, Release
<1>2. overlapped \/ (OneCreator' /\ TemporaryIsMine')
  BY DEF LInv, TypeOK, FInv, OneCreator, TemporaryIsMine, Creating, Release
<1> QED
  BY <1>1, <1>2 DEF FInv, Release

LEMMA FreshNext == LInv /\ FInv /\ [LockNext]_lockVars => FInv'
<1> SUFFICES ASSUME LInv, FInv, [LockNext]_lockVars PROVE FInv'
  OBVIOUS
<1>1. CASE UNCHANGED lockVars
  BY <1>1 DEF FInv, OneCreator, TemporaryIsMine, NeverFreshAndFree, lockVars
<1>2. CASE LockNext
  <2>1. PICK c \in Callers :
            \/ BeginCreate(c, "idle") \/ remove_if_present(c) \/ create_private_file(c)
            \/ create_locked_temporary(c) \/ RemoveFailedTemporary(c)
            \/ name_supervisor_lock(c) \/ RemoveUnnamedTemporary(c)
            \/ check_lock_named(c) \/ sync_dir(c) \/ unlock(c) \/ BeginProbe(c)
            \/ open_supervisor_lock(c) \/ probe_supervisor_lock(c) \/ SupervisorLock_drop(c) \/ Die(c)
    BY <1>2 DEF LockNext
  <2> QED
    BY <2>1, FreshStep, FreshBegin, FreshOpen, FreshFlock, FreshRename, FreshRelease
       DEF unlock, SupervisorLock_drop, Die
<1> QED
  BY <1>1, <1>2

(* "With one call at a time, a probe sees no entry and then a held lock,    *)
(* never a free one", for any number of callers and creations: the named    *)
(* file is free only after someone that had locked it gave it up.           *)
THEOREM NeverFresh == LockSpec => []NeverFreshAndFree
<1>1. FInv => NeverFreshAndFree
  BY DEF FInv, NeverFreshAndFree
<1> QED
  BY <1>1, LockInvariant, LockInvStep, FreshInit, FreshNext, PTL DEF LockSpec

----------------------------------------------------------------------------
(* The start.  What a start reports is what happened, and the cell's lock   *)
(* follows its supervisor.  The properties speak of one start's result and  *)
(* of who has its lock open.  Inductively they need to know how far the     *)
(* call and its two processes are, what the silence of the report pipe      *)
(* stands for, and which of them has the ends that the others wait on.      *)

USE SupervisorStartAssumption DEF Results

OpenFiles == [Starts -> [Ends -> SUBSET Processes]]

TypeInv ==
    /\ pc \in [Starts -> {"idle", "laid", "reap", "report", "write", "wait", "done", "dead"}]
    /\ result \in [Starts -> Results \cup {None}]
    /\ mid \in [Starts -> {"none", "run", "exit", "gone"}]
    /\ kid \in [Starts -> {"none", "new", "clean", "reading", "decoded", "adopted", "exit", "gone"}]
    /\ open \in OpenFiles
    /\ report \in [Starts -> BOOLEAN]
    /\ sent \in [Starts -> Nat]
    /\ taken \in [Starts -> Nat]
    /\ late \in [Starts -> BOOLEAN]
    /\ execed \in [Starts -> BOOLEAN]
    /\ killed \in [Starts -> BOOLEAN]

(* How far the call and the two processes of a start are.                   *)
PhaseInv(s) ==
    /\ pc[s] \in {"idle", "laid"} => mid[s] = "none"
    /\ pc[s] \in {"report", "write", "wait"} => mid[s] = "gone"
    /\ mid[s] \in {"none", "run"} => kid[s] = "none"
    /\ result[s] # None => pc[s] \in {"done", "dead"}
    /\ pc[s] = "done" => result[s] # None

(* What is known of an exec, by the report, the result and the two ends.    *)
ExecInv(s) ==
    /\ kid[s] \in {"reading", "decoded", "adopted"} => execed[s]
    /\ execed[s] => kid[s] \in {"reading", "decoded", "adopted", "exit", "gone"}
    /\ report[s] => mid[s] \in {"exit", "gone"} /\ kid[s] \in {"none", "exit", "gone"} /\ ~execed[s]
    /\ mid[s] \in {"exit", "gone"} /\ kid[s] = "none" => report[s] \/ killed[s]
    /\ kid[s] \in {"exit", "gone"} => report[s] \/ killed[s] \/ execed[s]
    /\ result[s] \in {"Prepare", "Exec"} =>
          ~execed[s] /\ mid[s] \in {"none", "exit", "gone"} /\ kid[s] \in {"none", "exit", "gone"}
    /\ pc[s] \in {"write", "wait"} \/ result[s] \in {"Ok", "SupervisorClosedPipe", "RecordNotTaken", "Write"} =>
          execed[s] \/ killed[s]

(* How much of the record was written and read.                             *)
RecordInv(s) ==
    /\ taken[s] <= sent[s] /\ sent[s] <= Record
    /\ pc[s] \in {"idle", "laid", "reap", "report"} => sent[s] = 0
    /\ pc[s] = "wait" => sent[s] < Record
    /\ pc[s] = "done" /\ sent[s] = Record => result[s] = "Ok"
    /\ kid[s] \in {"decoded", "adopted"} => taken[s] = Record /\ (result[s] = "Ok" \/ pc[s] = "dead")

(* Who has what of the start open.                                          *)
HoldInv(s) ==
    /\ pc[s] \in {"idle", "laid", "reap", "report"} => Controller \in open[s]["lock"]
    /\ pc[s] \in {"laid", "reap", "report", "write", "wait"} => Controller \in open[s]["write"]
    /\ pc[s] = "laid" => Controller \in open[s]["report"]
    /\ mid[s] = "run" => Mid(s) \in open[s]["lock"] /\ Mid(s) \in open[s]["report"]
    /\ kid[s] \in {"new", "clean"} => Kid(s) \in open[s]["report"]
    /\ kid[s] \in {"new", "clean", "reading", "decoded", "adopted"} => Kid(s) \in open[s]["lock"]

(* Whose the open copies of a lock may be: LockGoesWithSupervisor, for one  *)
(* copy.                                                                    *)
Holder(s, p) ==
    \/ p \in {Controller, Mid(s), Kid(s)}
    \/ \E t \in Starts \ {s} :
          \/ p = Mid(t) /\ mid[t] \in {"run", "exit"}
          \/ p = Kid(t) /\ kid[t] \in {"new", "exit"}

StartInv(s) ==
    /\ PhaseInv(s) /\ ExecInv(s) /\ RecordInv(s) /\ HoldInv(s)
    /\ Controller \in open[s]["lock"] \/ execed[s] \/ killed[s] \/ pc[s] = "dead"
          \/ result[s] \in {"Prepare", "Exec", "ExecUnconfirmed"}
    /\ \A p \in open[s]["lock"] : Holder(s, p)

SInv == TypeInv /\ \A s \in Starts : StartInv(s)

----------------------------------------------------------------------------
(* Who has what open after each way to change it.                           *)

LEMMA ProcessesDiffer ==
    /\ Controller # Stranger /\ Controller \in Processes /\ Stranger \in Processes
    /\ \A s \in Starts :
          /\ Mid(s) \in Processes /\ Kid(s) \in Processes
          /\ Controller \notin {Mid(s), Kid(s)} /\ Stranger \notin {Mid(s), Kid(s)}
    /\ \A s, t \in Starts : Mid(s) # Kid(t) /\ (s # t => Mid(s) # Mid(t) /\ Kid(s) # Kid(t))
  BY DEF Controller, Stranger, Mid, Kid, Processes

LEMMA EndsAre ==
    /\ "lock" \in Ends /\ "report" \in Ends /\ "read" \in Ends /\ "write" \in Ends
    /\ {"lock", "report", "read", "write"} = Ends
    /\ {"report", "read", "write"} \in SUBSET Ends
    /\ {"read", "lock"} \in SUBSET Ends /\ {"read", "write"} \in SUBSET Ends
    /\ {"write"} \in SUBSET Ends /\ {"lock"} \in SUBSET Ends
    /\ {"report"} \in SUBSET Ends /\ {"read"} \in SUBSET Ends
  BY DEF Ends

LEMMA Exited ==
    ASSUME open \in OpenFiles, NEW p, Exit(p)
    PROVE  /\ open' \in OpenFiles
           /\ \A t \in Starts, e \in Ends : open'[t][e] = open[t][e] \ {p}
  BY DEF Exit, OpenFiles

LEMMA Closed ==
    ASSUME open \in OpenFiles, NEW s \in Starts, NEW ends, NEW q, Close(s, ends, q)
    PROVE  /\ open' \in OpenFiles
           /\ \A t \in Starts, e \in Ends :
                 open'[t][e] = IF t = s /\ e \in ends THEN open[t][e] \ {q} ELSE open[t][e]
  BY DEF Close, OpenFiles

(* A start that a step leaves alone, but for other processes' copies.       *)
LEMMA Elsewhere ==
    ASSUME NEW u \in Starts, StartInv(u),
           pc'[u] = pc[u], result'[u] = result[u], mid'[u] = mid[u], kid'[u] = kid[u],
           report'[u] = report[u], sent'[u] = sent[u], taken'[u] = taken[u],
           execed'[u] = execed[u], killed'[u] = killed[u],
           \A e \in Ends, p \in {Controller, Mid(u), Kid(u)} : p \in open[u][e] => p \in open'[u][e],
           \A p \in open'[u]["lock"] : Holder(u, p)'
    PROVE  StartInv(u)'
  <1>1. {"lock", "report", "read", "write"} = Ends
    BY DEF Ends
  <1>2. PhaseInv(u)' /\ ExecInv(u)' /\ RecordInv(u)'
    BY DEF StartInv, PhaseInv, ExecInv, RecordInv
  <1>3. HoldInv(u)'
    BY <1>1 DEF StartInv, HoldInv
  <1> QED
    BY <1>1, <1>2, <1>3 DEF StartInv

(* Who has the ends that a start needs still has them.                      *)
LEMMA HoldKept ==
    ASSUME NEW s \in Starts, HoldInv(s), mid'[s] = mid[s], kid'[s] = kid[s],
           \A e \in Ends, p \in {Mid(s), Kid(s)} : p \in open[s][e] => p \in open'[s][e],
           pc'[s] \in {"idle", "laid", "reap", "report"} => Controller \in open'[s]["lock"],
           pc'[s] \in {"laid", "reap", "report", "write", "wait"} => Controller \in open'[s]["write"],
           pc'[s] = "laid" => Controller \in open'[s]["report"]
    PROVE  HoldInv(s)'
  BY EndsAre DEF HoldInv

LEMMA StartInit == Init => SInv
  <1> SUFFICES ASSUME Init PROVE SInv
    OBVIOUS
  <1>1. TypeInv
    BY ProcessesDiffer DEF Init, TypeInv, OpenFiles
  <1>2. ASSUME NEW s \in Starts PROVE StartInv(s)
    <2>1. PhaseInv(s) /\ ExecInv(s) /\ RecordInv(s)
      BY DEF Init, PhaseInv, ExecInv, RecordInv
    <2>2. open[s]["lock"] = {Controller}
      BY DEF Init, Ends
    <2> QED
      BY <2>1, <2>2 DEF StartInv, HoldInv, Holder, Init
  <1> QED
    BY <1>1, <1>2 DEF SInv

(* The copies of a lock that were accounted for still are, unless a process *)
(* of s went on and is now to have closed its copy.                         *)
LEMMA HolderKept ==
    ASSUME NEW s \in Starts, NEW u \in Starts, NEW p, Holder(u, p),
           \A t \in Starts \ {s} : mid'[t] = mid[t] /\ kid'[t] = kid[t],
           u # s /\ p = Mid(s) /\ mid[s] \in {"run", "exit"} => mid'[s] \in {"run", "exit"},
           u # s /\ p = Kid(s) /\ kid[s] \in {"new", "exit"} => kid'[s] \in {"new", "exit"}
    PROVE  Holder(u, p)'
  <1>1. CASE p \in {Controller, Mid(u), Kid(u)}
    BY <1>1 DEF Holder
  <1>2. CASE \E t \in Starts \ {u} : (p = Mid(t) /\ mid[t] \in {"run", "exit"}) \/ (p = Kid(t) /\ kid[t] \in {"new", "exit"})
    <2>1. PICK t \in Starts \ {u} : (p = Mid(t) /\ mid[t] \in {"run", "exit"}) \/ (p = Kid(t) /\ kid[t] \in {"new", "exit"})
      BY <1>2
    <2>2. (p = Mid(t) /\ mid'[t] \in {"run", "exit"}) \/ (p = Kid(t) /\ kid'[t] \in {"new", "exit"})
      BY <2>1
    <2> QED
      BY <2>1, <2>2 DEF Holder
  <1> QED
    BY <1>1, <1>2 DEF Holder

----------------------------------------------------------------------------
(* start_supervisor                                                         *)

LEMMA LayoutStep == ASSUME SInv, NEW s \in Starts, Layout_new(s) PROVE SInv'
  <1> USE DEF SInv
  <1>1. CASE open' = open /\ Return(s, "Prepare")
    <2>1. TypeInv'
      BY <1>1 DEF Layout_new, TypeInv, Return
    <2>2. ASSUME NEW u \in Starts, NEW p \in open'[u]["lock"] PROVE Holder(u, p)'
      BY <1>1, <2>2, HolderKept DEF Layout_new, StartInv
    <2>3. ASSUME NEW u \in Starts, u # s PROVE StartInv(u)'
      BY <1>1, <2>2, <2>3, Elsewhere DEF Layout_new, Return, TypeInv
    <2>4. StartInv(s)'
      <3>1. PhaseInv(s)' /\ ExecInv(s)' /\ RecordInv(s)'
        BY <1>1 DEF StartInv, Layout_new, Return, TypeInv, PhaseInv, ExecInv, RecordInv
      <3>2. HoldInv(s)' /\ Controller \in open'[s]["lock"]
        BY <1>1 DEF StartInv, Layout_new, Return, TypeInv, PhaseInv, HoldInv
      <3> QED
        BY <3>1, <3>2, <2>2 DEF StartInv
    <2> QED
      BY <2>1, <2>3, <2>4
  <1>2. CASE pc' = [pc EXCEPT ![s] = "laid"] /\ result' = result
    <2>1. PICK leaked \in {{}, {"report"}, {"read", "write"}} :
            open' = [open EXCEPT ![s] = [e \in Ends |->
                        @[e] \cup {Controller} \cup (IF e \in leaked THEN {Stranger} ELSE {})]]
      BY <1>2, SMT DEF Layout_new, TypeInv, Return
    <2>2. open' \in OpenFiles
      BY <2>1, ProcessesDiffer DEF TypeInv, OpenFiles
    <2>3. \A t \in Starts, e \in Ends :
            /\ t # s => open'[t][e] = open[t][e]
            /\ open'[s][e] = open[s][e] \cup {Controller} \cup (IF e \in leaked THEN {Stranger} ELSE {})
      BY <2>1 DEF TypeInv, OpenFiles
    <2>4. TypeInv'
      BY <1>2, <2>2 DEF Layout_new, TypeInv
    <2>5. ASSUME NEW u \in Starts, NEW p \in open'[u]["lock"] PROVE Holder(u, p)'
      <3>1. p \in open[u]["lock"] \/ p = Controller
        BY <2>3, <2>5, EndsAre
      <3> QED
        BY <3>1, HolderKept DEF Layout_new, StartInv, Holder
    <2>6. ASSUME NEW u \in Starts, u # s PROVE StartInv(u)'
      BY <1>2, <2>3, <2>5, <2>6, Elsewhere DEF Layout_new, TypeInv
    <2>7. StartInv(s)'
      <3>1. PhaseInv(s)' /\ ExecInv(s)' /\ RecordInv(s)'
        BY <1>2 DEF StartInv, Layout_new, TypeInv, PhaseInv, ExecInv, RecordInv
      <3>2. HoldInv(s)' /\ Controller \in open'[s]["lock"]
        BY <1>2, <2>3, EndsAre DEF StartInv, Layout_new, TypeInv, PhaseInv, HoldInv
      <3> QED
        BY <3>1, <3>2, <2>5 DEF StartInv
    <2> QED
      BY <2>4, <2>6, <2>7
  <1> QED
    BY <1>1, <1>2, Zenon DEF Layout_new

LEMMA ForkStep == ASSUME SInv, NEW s \in Starts, fork_intermediate(s) PROVE SInv'
  <1> USE DEF SInv
  <1>1. CASE mid' = mid
    <2>1. Close(s, {"report", "read", "write"}, Controller) /\ \E r \in {"Prepare", "Exec"} : Return(s, r)
      BY <1>1 DEF fork_intermediate, TypeInv, StartInv, PhaseInv
    <2>2. /\ open' \in OpenFiles
          /\ \A t \in Starts, e \in Ends :
                open'[t][e] = IF t = s /\ e \in {"report", "read", "write"} THEN open[t][e] \ {Controller} ELSE open[t][e]
      <3>1. open \in OpenFiles
        BY DEF TypeInv
      <3>2. Close(s, {"report", "read", "write"}, Controller)
        BY <2>1
      <3> QED
        BY <3>1, <3>2, Closed
    <2>3. TypeInv'
      BY <1>1, <2>1, <2>2 DEF fork_intermediate, TypeInv, Return
    <2>4. ASSUME NEW u \in Starts, NEW p \in open'[u]["lock"] PROVE Holder(u, p)'
      BY <1>1, <2>2, <2>4, HolderKept, EndsAre DEF fork_intermediate, StartInv
    <2>5. ASSUME NEW u \in Starts, u # s PROVE StartInv(u)'
      <3>1. /\ pc'[u] = pc[u] /\ result'[u] = result[u] /\ mid'[u] = mid[u] /\ kid'[u] = kid[u]
            /\ report'[u] = report[u] /\ sent'[u] = sent[u] /\ taken'[u] = taken[u]
            /\ execed'[u] = execed[u] /\ killed'[u] = killed[u]
        BY <1>1, <2>1, <2>5 DEF fork_intermediate, Return, TypeInv
      <3>2. \A e \in Ends : open'[u][e] = open[u][e]
        BY <2>2, <2>5
      <3> QED
        BY <3>1, <3>2, <2>4, Elsewhere
    <2>6. StartInv(s)'
      <3>1. PhaseInv(s)' /\ ExecInv(s)' /\ RecordInv(s)'
        BY <1>1, <2>1 DEF StartInv, fork_intermediate, Return, TypeInv, PhaseInv, ExecInv, RecordInv
      <3>2. pc[s] = "laid" /\ pc'[s] = "done" /\ mid'[s] = "none" /\ kid'[s] = "none"
        BY <1>1, <2>1 DEF StartInv, fork_intermediate, Return, TypeInv, PhaseInv
      <3>3. Controller \in open'[s]["lock"]
        BY <3>2, <2>2, EndsAre DEF StartInv, HoldInv
      <3> QED
        BY <3>1, <3>2, <3>3, <2>4 DEF StartInv, HoldInv
    <2> QED
      BY <2>3, <2>5, <2>6
  <1>2. CASE mid' = [mid EXCEPT ![s] = "run"] /\ pc' = [pc EXCEPT ![s] = "reap"] /\ result' = result
              /\ open' = [t \in Starts |-> [e \in Ends |->
                (IF Controller \in open[t][e] THEN open[t][e] \cup {Mid(s)} ELSE open[t][e])
                  \ (IF t = s /\ e = "report" THEN {Controller} ELSE {})]]
    <2>2. /\ open' \in OpenFiles
          /\ \A t \in Starts, e \in Ends :
                open'[t][e] = (IF Controller \in open[t][e] THEN open[t][e] \cup {Mid(s)} ELSE open[t][e])
                  \ (IF t = s /\ e = "report" THEN {Controller} ELSE {})
      BY <1>2, ProcessesDiffer DEF TypeInv, OpenFiles
    <2>3. TypeInv'
      BY <1>2, <2>2 DEF fork_intermediate, TypeInv
    <2>4. ASSUME NEW u \in Starts, NEW p \in open'[u]["lock"] PROVE Holder(u, p)'
      <3>1. p \in open[u]["lock"] \/ p = Mid(s)
        BY <2>2, <2>4, EndsAre
      <3>2. CASE p \in open[u]["lock"]
        BY <1>2, <3>2, HolderKept DEF fork_intermediate, StartInv, TypeInv
      <3>3. CASE p = Mid(s)
        BY <1>2, <3>3 DEF Holder, TypeInv
      <3> QED
        BY <3>1, <3>2, <3>3
    <2>5. ASSUME NEW u \in Starts, u # s PROVE StartInv(u)'
      BY <1>2, <2>2, <2>4, <2>5, Elsewhere DEF fork_intermediate, TypeInv
    <2>6. StartInv(s)'
      <3>1. PhaseInv(s)' /\ ExecInv(s)' /\ RecordInv(s)'
        <4>1. pc[s] = "laid" /\ pc'[s] = "reap" /\ mid[s] = "none" /\ mid'[s] = "run"
          BY <1>2 DEF fork_intermediate, StartInv, TypeInv, PhaseInv
        <4>2. /\ kid'[s] = kid[s] /\ result'[s] = result[s] /\ report'[s] = report[s] /\ sent'[s] = sent[s]
              /\ taken'[s] = taken[s] /\ execed'[s] = execed[s] /\ killed'[s] = killed[s]
          BY <1>2 DEF fork_intermediate
        <4>3. PhaseInv(s)'
          BY <4>1, <4>2 DEF StartInv, PhaseInv
        <4>4. ExecInv(s)'
          BY <4>1, <4>2 DEF StartInv, PhaseInv, ExecInv
        <4>5. RecordInv(s)'
          BY <4>1, <4>2 DEF StartInv, PhaseInv, RecordInv
        <4> QED
          BY <4>3, <4>4, <4>5
      <3>2. HoldInv(s)' /\ Controller \in open'[s]["lock"]
        BY <1>2, <2>2, ProcessesDiffer, EndsAre DEF StartInv, fork_intermediate, TypeInv, PhaseInv, HoldInv
      <3> QED
        BY <3>1, <3>2, <2>4 DEF StartInv
    <2> QED
      BY <2>3, <2>5, <2>6
  <1> QED
    BY <1>1, <1>2 DEF fork_intermediate
LEMMA ReapStep == ASSUME SInv, NEW s \in Starts, reap(s) PROVE SInv'
  <1> USE DEF SInv
  <1>1. open' = open
    BY SMT DEF reap
  <1>2. TypeInv'
    BY <1>1 DEF reap, TypeInv
  <1>3. ASSUME NEW u \in Starts, NEW p \in open'[u]["lock"] PROVE Holder(u, p)'
    BY <1>1, <1>3, HolderKept, ProcessesDiffer, EndsAre DEF reap, StartInv, TypeInv
  <1>4. ASSUME NEW u \in Starts, u # s PROVE StartInv(u)'
    BY <1>1, <1>3, <1>4, Elsewhere, ProcessesDiffer DEF reap, TypeInv
  <1>5. StartInv(s)'
    <2>1. PhaseInv(s)' /\ RecordInv(s)'
      BY DEF reap, StartInv, TypeInv, PhaseInv, RecordInv
    <2>2. ExecInv(s)'
      BY DEF reap, StartInv, TypeInv, PhaseInv, ExecInv
    <2>3. HoldInv(s)'
      BY <1>1, ProcessesDiffer, EndsAre DEF reap, StartInv, TypeInv, PhaseInv, HoldInv
    <2>4. (Controller \in open[s]["lock"] \/ execed[s] \/ killed[s] \/ pc[s] = "dead"
            \/ result[s] \in {"Prepare", "Exec", "ExecUnconfirmed"})'
      BY <2>2, <1>1, ProcessesDiffer, EndsAre DEF reap, StartInv, TypeInv, PhaseInv, ExecInv, HoldInv
    <2> QED
      BY <2>1, <2>2, <2>3, <2>4, <1>3 DEF StartInv
  <1> QED
    BY <1>2, <1>4, <1>5

LEMMA ReportStep == ASSUME SInv, NEW s \in Starts, read_report(s) PROVE SInv'
  <1> USE DEF SInv
  <1>1. CASE report_ready(s) /\ ~report[s] /\ pc' = [pc EXCEPT ![s] = "write"]
              /\ Close(s, {"read", "lock"}, Controller) /\ UNCHANGED result
    <2>1. /\ open' \in OpenFiles
        /\ \A t \in Starts, e \in Ends : open'[t][e] =
              IF t = s /\ e \in {"read", "lock"} THEN open[t][e] \ {Controller} ELSE open[t][e]
      <3>1. open \in OpenFiles
        BY DEF TypeInv
      <3>2. Close(s, {"read", "lock"}, Controller)
        BY <1>1 DEF read_report
      <3> QED
        BY <3>1, <3>2, Closed
    <2>2. TypeInv'
      BY <1>1, <2>1 DEF read_report, report_ready, TypeInv
    <2>3. ASSUME NEW u \in Starts, NEW p \in open'[u]["lock"] PROVE Holder(u, p)'
      <3>1. p \in open[u]["lock"] /\ Holder(u, p)
        BY <2>1, <2>3, EndsAre DEF StartInv
      <3> QED
        BY <3>1, HolderKept DEF read_report
    <2>4. ASSUME NEW u \in Starts, u # s PROVE StartInv(u)'
      BY <1>1, <2>1, <2>3, <2>4, Elsewhere, ProcessesDiffer DEF read_report, report_ready, TypeInv
    <2>5. StartInv(s)'
      <3>1. PhaseInv(s)' /\ RecordInv(s)'
        BY <1>1 DEF read_report, report_ready, StartInv, TypeInv, PhaseInv, RecordInv
      <3>2. ExecInv(s)'
        BY <1>1 DEF read_report, report_ready, StartInv, TypeInv, PhaseInv, ExecInv, HoldInv
      <3>3. HoldInv(s)'
        <4>1. pc'[s] = "write" /\ mid'[s] = mid[s] /\ kid'[s] = kid[s]
          BY <1>1 DEF read_report, TypeInv
        <4>2. \A e \in Ends, p \in {Mid(s), Kid(s)} : p \in open[s][e] => p \in open'[s][e]
          BY <2>1, ProcessesDiffer
        <4>3. HoldInv(s)
          BY DEF StartInv
        <4>4. Controller \in open'[s]["write"]
          BY <4>3, <1>1, <2>1, EndsAre DEF read_report, HoldInv
        <4> QED
          BY <4>1, <4>2, <4>3, <4>4, HoldKept
      <3>4. (Controller \in open[s]["lock"] \/ execed[s] \/ killed[s] \/ pc[s] = "dead"
              \/ result[s] \in {"Prepare", "Exec", "ExecUnconfirmed"})'
        BY <1>1, <3>2, <2>1, ProcessesDiffer, EndsAre DEF read_report, report_ready, StartInv, TypeInv, PhaseInv, ExecInv, HoldInv
      <3> QED
        BY <3>1, <3>2, <3>3, <3>4, <2>3 DEF StartInv
    <2> QED
      BY <2>2, <2>4, <2>5
  <1>2. CASE report[s] /\ Return(s, "Exec") /\ Close(s, {"read", "write"}, Controller)
    <2>1. /\ open' \in OpenFiles
        /\ \A t \in Starts, e \in Ends : open'[t][e] =
              IF t = s /\ e \in {"read", "write"} THEN open[t][e] \ {Controller} ELSE open[t][e]
      <3>1. open \in OpenFiles
        BY DEF TypeInv
      <3>2. Close(s, {"read", "write"}, Controller)
        BY <1>2 DEF read_report
      <3> QED
        BY <3>1, <3>2, Closed
    <2>2. TypeInv'
      BY <1>2, <2>1 DEF read_report, Return, TypeInv
    <2>3. ASSUME NEW u \in Starts, NEW p \in open'[u]["lock"] PROVE Holder(u, p)'
      BY <1>2, <2>1, <2>3, HolderKept, ProcessesDiffer, EndsAre DEF read_report, Return, StartInv, TypeInv
    <2>4. ASSUME NEW u \in Starts, u # s PROVE StartInv(u)'
      BY <1>2, <2>1, <2>3, <2>4, Elsewhere, ProcessesDiffer DEF read_report, Return, TypeInv
    <2>5. StartInv(s)'
      <3>1. PhaseInv(s)' /\ RecordInv(s)'
        BY <1>2 DEF read_report, Return, StartInv, TypeInv, PhaseInv, RecordInv
      <3>2. ExecInv(s)'
        BY <1>2 DEF read_report, Return, StartInv, TypeInv, PhaseInv, ExecInv
      <3>3. HoldInv(s)'
        <4>1. pc'[s] = "done" /\ mid'[s] = "gone" /\ kid'[s] \in {"none", "exit", "gone"}
          BY <1>2 DEF read_report, Return, StartInv, TypeInv, PhaseInv, ExecInv
        <4> QED
          BY <4>1 DEF HoldInv
      <3>4. (Controller \in open[s]["lock"] \/ execed[s] \/ killed[s] \/ pc[s] = "dead"
              \/ result[s] \in {"Prepare", "Exec", "ExecUnconfirmed"})'
        BY <1>2, <3>2, <2>1, ProcessesDiffer, EndsAre DEF read_report, Return, StartInv, TypeInv, PhaseInv, ExecInv, HoldInv
      <3> QED
        BY <3>1, <3>2, <3>3, <3>4, <2>3 DEF StartInv
    <2> QED
      BY <2>2, <2>4, <2>5
  <1>3. CASE Return(s, "ExecUnconfirmed") /\ Close(s, {"read", "write"}, Controller)
    <2>1. /\ open' \in OpenFiles
        /\ \A t \in Starts, e \in Ends : open'[t][e] =
              IF t = s /\ e \in {"read", "write"} THEN open[t][e] \ {Controller} ELSE open[t][e]
      <3>1. open \in OpenFiles
        BY DEF TypeInv
      <3>2. Close(s, {"read", "write"}, Controller)
        BY <1>3 DEF read_report
      <3> QED
        BY <3>1, <3>2, Closed
    <2>2. TypeInv'
      BY <1>3, <2>1 DEF read_report, Return, TypeInv
    <2>3. ASSUME NEW u \in Starts, NEW p \in open'[u]["lock"] PROVE Holder(u, p)'
      BY <1>3, <2>1, <2>3, HolderKept, ProcessesDiffer, EndsAre DEF read_report, Return, StartInv, TypeInv
    <2>4. ASSUME NEW u \in Starts, u # s PROVE StartInv(u)'
      BY <1>3, <2>1, <2>3, <2>4, Elsewhere, ProcessesDiffer DEF read_report, Return, TypeInv
    <2>5. StartInv(s)'
      <3>1. PhaseInv(s)' /\ RecordInv(s)'
        BY <1>3 DEF read_report, Return, StartInv, TypeInv, PhaseInv, RecordInv
      <3>2. ExecInv(s)'
        BY <1>3 DEF read_report, Return, StartInv, TypeInv, PhaseInv, ExecInv
      <3>3. HoldInv(s)'
        <4>1. pc'[s] = "done" /\ mid' = mid /\ kid' = kid
          BY <1>3 DEF read_report, Return, TypeInv
        <4>2. Mid(s) \in open[s]["report"] => Mid(s) \in open'[s]["report"]
          BY <2>1, EndsAre
        <4>3. Kid(s) \in open[s]["report"] => Kid(s) \in open'[s]["report"]
          BY <2>1, EndsAre
        <4>4. open'[s]["lock"] = open[s]["lock"]
          BY <2>1, EndsAre
        <4> QED
          BY <4>1, <4>2, <4>3, <4>4 DEF StartInv, HoldInv
      <3>4. (Controller \in open[s]["lock"] \/ execed[s] \/ killed[s] \/ pc[s] = "dead"
              \/ result[s] \in {"Prepare", "Exec", "ExecUnconfirmed"})'
        BY <1>3, <3>2, <2>1, ProcessesDiffer, EndsAre DEF read_report, Return, StartInv, TypeInv, PhaseInv, ExecInv, HoldInv
      <3> QED
        BY <3>1, <3>2, <3>3, <3>4, <2>3 DEF StartInv
    <2> QED
      BY <2>2, <2>4, <2>5
  <1> QED
    BY <1>1, <1>2, <1>3 DEF read_report

LEMMA RecordStep == ASSUME SInv, NEW s \in Starts, write_record(s) PROVE SInv'
  <1> USE DEF SInv
  <1>1. CASE sent[s] = Record /\ Return(s, "Ok") /\ Close(s, {"write"}, Controller) /\ UNCHANGED sent
    <2>1. /\ open' \in OpenFiles
        /\ \A t \in Starts, e \in Ends : open'[t][e] =
              IF t = s /\ e \in {"write"} THEN open[t][e] \ {Controller} ELSE open[t][e]
      <3>1. open \in OpenFiles
        BY DEF TypeInv
      <3>2. Close(s, {"write"}, Controller)
        BY <1>1 DEF write_record
      <3> QED
        BY <3>1, <3>2, Closed
    <2>2. TypeInv'
      BY <1>1, <2>1 DEF write_record, Return, TypeInv
    <2>3. ASSUME NEW u \in Starts, NEW p \in open'[u]["lock"] PROVE Holder(u, p)'
      BY <1>1, <2>1, <2>3, HolderKept, ProcessesDiffer, EndsAre DEF write_record, Return, StartInv, TypeInv
    <2>4. ASSUME NEW u \in Starts, u # s PROVE StartInv(u)'
      BY <1>1, <2>1, <2>3, <2>4, Elsewhere, ProcessesDiffer DEF write_record, Return, TypeInv
    <2>5. StartInv(s)'
      <3>1. PhaseInv(s)' /\ RecordInv(s)'
        BY <1>1 DEF write_record, Return, StartInv, TypeInv, PhaseInv, RecordInv
      <3>2. ExecInv(s)'
        BY <1>1 DEF write_record, Return, StartInv, TypeInv, PhaseInv, ExecInv
      <3>3. HoldInv(s)'
        <4>1. pc'[s] = "done" /\ mid'[s] = mid[s] /\ kid'[s] = kid[s]
          BY <1>1 DEF write_record, Return, TypeInv
        <4>2. \A e \in Ends, p \in {Mid(s), Kid(s)} : p \in open[s][e] => p \in open'[s][e]
          BY <2>1, ProcessesDiffer
        <4>3. HoldInv(s)
          BY DEF StartInv
        <4> QED
          BY <4>1, <4>2, <4>3, HoldKept
      <3>4. (Controller \in open[s]["lock"] \/ execed[s] \/ killed[s] \/ pc[s] = "dead"
              \/ result[s] \in {"Prepare", "Exec", "ExecUnconfirmed"})'
        BY <1>1, <3>2, <2>1, ProcessesDiffer, EndsAre DEF write_record, Return, StartInv, TypeInv, PhaseInv, ExecInv, HoldInv
      <3> QED
        BY <3>1, <3>2, <3>3, <3>4, <2>3 DEF StartInv
    <2> QED
      BY <2>2, <2>4, <2>5
  <1>2. CASE sent[s] < Record /\ Return(s, "SupervisorClosedPipe") /\ Close(s, {"write"}, Controller) /\ UNCHANGED sent
    <2>1. /\ open' \in OpenFiles
        /\ \A t \in Starts, e \in Ends : open'[t][e] =
              IF t = s /\ e \in {"write"} THEN open[t][e] \ {Controller} ELSE open[t][e]
      <3>1. open \in OpenFiles
        BY DEF TypeInv
      <3>2. Close(s, {"write"}, Controller)
        BY <1>2 DEF write_record
      <3> QED
        BY <3>1, <3>2, Closed
    <2>2. TypeInv'
      BY <1>2, <2>1 DEF write_record, Return, TypeInv
    <2>3. ASSUME NEW u \in Starts, NEW p \in open'[u]["lock"] PROVE Holder(u, p)'
      BY <1>2, <2>1, <2>3, HolderKept, ProcessesDiffer, EndsAre DEF write_record, Return, StartInv, TypeInv
    <2>4. ASSUME NEW u \in Starts, u # s PROVE StartInv(u)'
      BY <1>2, <2>1, <2>3, <2>4, Elsewhere, ProcessesDiffer DEF write_record, Return, TypeInv
    <2>5. StartInv(s)'
      <3>1. PhaseInv(s)' /\ RecordInv(s)'
        BY <1>2 DEF write_record, Return, StartInv, TypeInv, PhaseInv, RecordInv
      <3>2. ExecInv(s)'
        BY <1>2 DEF write_record, Return, StartInv, TypeInv, PhaseInv, ExecInv
      <3>3. HoldInv(s)'
        <4>1. pc'[s] = "done" /\ mid'[s] = mid[s] /\ kid'[s] = kid[s]
          BY <1>2 DEF write_record, Return, TypeInv
        <4>2. \A e \in Ends, p \in {Mid(s), Kid(s)} : p \in open[s][e] => p \in open'[s][e]
          BY <2>1, ProcessesDiffer
        <4>3. HoldInv(s)
          BY DEF StartInv
        <4> QED
          BY <4>1, <4>2, <4>3, HoldKept
      <3>4. (Controller \in open[s]["lock"] \/ execed[s] \/ killed[s] \/ pc[s] = "dead"
              \/ result[s] \in {"Prepare", "Exec", "ExecUnconfirmed"})'
        BY <1>2, <3>2, <2>1, ProcessesDiffer, EndsAre DEF write_record, Return, StartInv, TypeInv, PhaseInv, ExecInv, HoldInv
      <3> QED
        BY <3>1, <3>2, <3>3, <3>4, <2>3 DEF StartInv
    <2> QED
      BY <2>2, <2>4, <2>5
  <1>3. CASE sent[s] < Record /\ sent' = [sent EXCEPT ![s] = @ + 1] /\ UNCHANGED <<pc, result, open>>
    <2>1. open' = open
      BY <1>3, SMT DEF write_record
    <2>2. TypeInv'
      BY <1>3, <2>1 DEF write_record, TypeInv
    <2>3. ASSUME NEW u \in Starts, NEW p \in open'[u]["lock"] PROVE Holder(u, p)'
      BY <1>3, <2>1, <2>3, HolderKept, ProcessesDiffer, EndsAre DEF write_record, StartInv, TypeInv
    <2>4. ASSUME NEW u \in Starts, u # s PROVE StartInv(u)'
      BY <1>3, <2>1, <2>3, <2>4, Elsewhere, ProcessesDiffer DEF write_record, TypeInv
    <2>5. StartInv(s)'
      <3>1. PhaseInv(s)' /\ RecordInv(s)'
        BY <1>3 DEF write_record, StartInv, TypeInv, PhaseInv, RecordInv
      <3>2. ExecInv(s)'
        BY <1>3 DEF write_record, StartInv, TypeInv, PhaseInv, ExecInv
      <3>3. HoldInv(s)'
        BY <1>3, <2>1, ProcessesDiffer, EndsAre DEF write_record, StartInv, TypeInv, PhaseInv, HoldInv
      <3>4. (Controller \in open[s]["lock"] \/ execed[s] \/ killed[s] \/ pc[s] = "dead"
              \/ result[s] \in {"Prepare", "Exec", "ExecUnconfirmed"})'
        BY <1>3, <3>2, <2>1, ProcessesDiffer, EndsAre DEF write_record, StartInv, TypeInv, PhaseInv, ExecInv, HoldInv
      <3> QED
        BY <3>1, <3>2, <3>3, <3>4, <2>3 DEF StartInv
    <2> QED
      BY <2>2, <2>4, <2>5
  <1>4. CASE sent[s] < Record /\ pc' = [pc EXCEPT ![s] = "wait"] /\ UNCHANGED <<result, open, sent>>
    <2>1. open' = open
      BY <1>4, SMT DEF write_record
    <2>2. TypeInv'
      BY <1>4, <2>1 DEF write_record, TypeInv
    <2>3. ASSUME NEW u \in Starts, NEW p \in open'[u]["lock"] PROVE Holder(u, p)'
      BY <1>4, <2>1, <2>3, HolderKept, ProcessesDiffer, EndsAre DEF write_record, StartInv, TypeInv
    <2>4. ASSUME NEW u \in Starts, u # s PROVE StartInv(u)'
      BY <1>4, <2>1, <2>3, <2>4, Elsewhere, ProcessesDiffer DEF write_record, TypeInv
    <2>5. StartInv(s)'
      <3>1. PhaseInv(s)' /\ RecordInv(s)'
        BY <1>4 DEF write_record, StartInv, TypeInv, PhaseInv, RecordInv
      <3>2. ExecInv(s)'
        BY <1>4 DEF write_record, StartInv, TypeInv, PhaseInv, ExecInv
      <3>3. HoldInv(s)'
        BY <1>4, <2>1, ProcessesDiffer, EndsAre DEF write_record, StartInv, TypeInv, PhaseInv, HoldInv
      <3>4. (Controller \in open[s]["lock"] \/ execed[s] \/ killed[s] \/ pc[s] = "dead"
              \/ result[s] \in {"Prepare", "Exec", "ExecUnconfirmed"})'
        BY <1>4, <3>2, <2>1, ProcessesDiffer, EndsAre DEF write_record, StartInv, TypeInv, PhaseInv, ExecInv, HoldInv
      <3> QED
        BY <3>1, <3>2, <3>3, <3>4, <2>3 DEF StartInv
    <2> QED
      BY <2>2, <2>4, <2>5
  <1> QED
    BY <1>1, <1>2, <1>3, <1>4 DEF write_record

LEMMA WaitStep == ASSUME SInv, NEW s \in Starts, wait_writable(s) PROVE SInv'
  <1> USE DEF SInv
  <1>1. CASE Return(s, "RecordNotTaken") /\ Close(s, {"write"}, Controller)
    <2>1. /\ open' \in OpenFiles
        /\ \A t \in Starts, e \in Ends : open'[t][e] =
              IF t = s /\ e \in {"write"} THEN open[t][e] \ {Controller} ELSE open[t][e]
      <3>1. open \in OpenFiles
        BY DEF TypeInv
      <3>2. Close(s, {"write"}, Controller)
        BY <1>1 DEF wait_writable
      <3> QED
        BY <3>1, <3>2, Closed
    <2>2. TypeInv'
      BY <1>1, <2>1 DEF wait_writable, Return, TypeInv
    <2>3. ASSUME NEW u \in Starts, NEW p \in open'[u]["lock"] PROVE Holder(u, p)'
      BY <1>1, <2>1, <2>3, HolderKept, ProcessesDiffer, EndsAre DEF wait_writable, Return, StartInv, TypeInv
    <2>4. ASSUME NEW u \in Starts, u # s PROVE StartInv(u)'
      BY <1>1, <2>1, <2>3, <2>4, Elsewhere, ProcessesDiffer DEF wait_writable, Return, TypeInv
    <2>5. StartInv(s)'
      <3>1. PhaseInv(s)' /\ RecordInv(s)'
        BY <1>1 DEF wait_writable, Return, StartInv, TypeInv, PhaseInv, RecordInv
      <3>2. ExecInv(s)'
        BY <1>1 DEF wait_writable, Return, StartInv, TypeInv, PhaseInv, ExecInv
      <3>3. HoldInv(s)'
        <4>1. pc'[s] = "done" /\ mid'[s] = mid[s] /\ kid'[s] = kid[s]
          BY <1>1 DEF wait_writable, Return, TypeInv
        <4>2. \A e \in Ends, p \in {Mid(s), Kid(s)} : p \in open[s][e] => p \in open'[s][e]
          BY <2>1, ProcessesDiffer
        <4>3. HoldInv(s)
          BY DEF StartInv
        <4> QED
          BY <4>1, <4>2, <4>3, HoldKept
      <3>4. (Controller \in open[s]["lock"] \/ execed[s] \/ killed[s] \/ pc[s] = "dead"
              \/ result[s] \in {"Prepare", "Exec", "ExecUnconfirmed"})'
        BY <1>1, <3>2, <2>1, ProcessesDiffer, EndsAre DEF wait_writable, Return, StartInv, TypeInv, PhaseInv, ExecInv, HoldInv
      <3> QED
        BY <3>1, <3>2, <3>3, <3>4, <2>3 DEF StartInv
    <2> QED
      BY <2>2, <2>4, <2>5
  <1>2. CASE pc' = [pc EXCEPT ![s] = "write"] /\ UNCHANGED <<result, open>>
    <2>1. open' = open
      BY <1>2, SMT DEF wait_writable
    <2>2. TypeInv'
      BY <1>2, <2>1 DEF wait_writable, TypeInv
    <2>3. ASSUME NEW u \in Starts, NEW p \in open'[u]["lock"] PROVE Holder(u, p)'
      BY <1>2, <2>1, <2>3, HolderKept, ProcessesDiffer, EndsAre DEF wait_writable, StartInv, TypeInv
    <2>4. ASSUME NEW u \in Starts, u # s PROVE StartInv(u)'
      BY <1>2, <2>1, <2>3, <2>4, Elsewhere, ProcessesDiffer DEF wait_writable, TypeInv
    <2>5. StartInv(s)'
      <3>1. PhaseInv(s)' /\ RecordInv(s)'
        BY <1>2 DEF wait_writable, StartInv, TypeInv, PhaseInv, RecordInv
      <3>2. ExecInv(s)'
        BY <1>2 DEF wait_writable, StartInv, TypeInv, PhaseInv, ExecInv
      <3>3. HoldInv(s)'
        BY <1>2, <2>1, ProcessesDiffer, EndsAre DEF wait_writable, StartInv, TypeInv, PhaseInv, HoldInv
      <3>4. (Controller \in open[s]["lock"] \/ execed[s] \/ killed[s] \/ pc[s] = "dead"
              \/ result[s] \in {"Prepare", "Exec", "ExecUnconfirmed"})'
        BY <1>2, <3>2, <2>1, ProcessesDiffer, EndsAre DEF wait_writable, StartInv, TypeInv, PhaseInv, ExecInv, HoldInv
      <3> QED
        BY <3>1, <3>2, <3>3, <3>4, <2>3 DEF StartInv
    <2> QED
      BY <2>2, <2>4, <2>5
  <1> QED
    BY <1>1, <1>2 DEF wait_writable

LEMMA WriteFailsStep == ASSUME SInv, NEW s \in Starts, WriteFails(s) PROVE SInv'
  <1> USE DEF SInv
  <1>1. /\ open' \in OpenFiles
      /\ \A t \in Starts, e \in Ends : open'[t][e] =
            IF t = s /\ e \in {"write"} THEN open[t][e] \ {Controller} ELSE open[t][e]
    <2>1. open \in OpenFiles
      BY DEF TypeInv
    <2>2. Close(s, {"write"}, Controller)
      BY DEF WriteFails
    <2> QED
      BY <2>1, <2>2, Closed
  <1>2. TypeInv'
    BY <1>1 DEF WriteFails, Return, TypeInv
  <1>3. ASSUME NEW u \in Starts, NEW p \in open'[u]["lock"] PROVE Holder(u, p)'
    BY <1>1, <1>3, HolderKept, ProcessesDiffer, EndsAre DEF WriteFails, Return, StartInv, TypeInv
  <1>4. ASSUME NEW u \in Starts, u # s PROVE StartInv(u)'
    BY <1>1, <1>3, <1>4, Elsewhere, ProcessesDiffer DEF WriteFails, Return, TypeInv
  <1>5. StartInv(s)'
    <2>1. PhaseInv(s)' /\ RecordInv(s)'
      BY DEF WriteFails, Return, StartInv, TypeInv, PhaseInv, RecordInv
    <2>2. ExecInv(s)'
      BY DEF WriteFails, Return, StartInv, TypeInv, PhaseInv, ExecInv
    <2>3. HoldInv(s)'
      <3>1. pc'[s] = "done" /\ mid'[s] = mid[s] /\ kid'[s] = kid[s]
        BY DEF WriteFails, Return, TypeInv
      <3>2. \A e \in Ends, p \in {Mid(s), Kid(s)} : p \in open[s][e] => p \in open'[s][e]
        BY <1>1, ProcessesDiffer
      <3>3. HoldInv(s)
        BY DEF StartInv
      <3> QED
        BY <3>1, <3>2, <3>3, HoldKept
    <2>4. (Controller \in open[s]["lock"] \/ execed[s] \/ killed[s] \/ pc[s] = "dead"
            \/ result[s] \in {"Prepare", "Exec", "ExecUnconfirmed"})'
      BY <2>2, <1>1, ProcessesDiffer, EndsAre DEF WriteFails, Return, StartInv, TypeInv, PhaseInv, ExecInv, HoldInv
    <2> QED
      BY <2>1, <2>2, <2>3, <2>4, <1>3 DEF StartInv
  <1> QED
    BY <1>2, <1>4, <1>5

LEMMA DropStep == ASSUME SInv, NEW s \in Starts, drop(s) PROVE SInv'
  <1> USE DEF SInv
  <1>1. /\ open' \in OpenFiles
      /\ \A t \in Starts, e \in Ends : open'[t][e] =
            IF t = s /\ e \in {"lock"} THEN open[t][e] \ {Controller} ELSE open[t][e]
    <2>1. open \in OpenFiles
      BY DEF TypeInv
    <2>2. Close(s, {"lock"}, Controller)
      BY DEF drop
    <2> QED
      BY <2>1, <2>2, Closed
  <1>2. TypeInv'
    BY <1>1 DEF drop, TypeInv
  <1>3. ASSUME NEW u \in Starts, NEW p \in open'[u]["lock"] PROVE Holder(u, p)'
    <2>1. p \in open[u]["lock"]
      BY <1>1, <1>3, EndsAre
    <2>2. Holder(u, p)
      BY <2>1 DEF StartInv
    <2> QED
      BY <2>2 DEF drop, Holder
  <1>4. ASSUME NEW u \in Starts, u # s PROVE StartInv(u)'
    BY <1>1, <1>3, <1>4, Elsewhere, ProcessesDiffer DEF drop, TypeInv
  <1>5. StartInv(s)'
    <2>1. PhaseInv(s)' /\ RecordInv(s)'
      BY DEF drop, StartInv, TypeInv, PhaseInv, RecordInv
    <2>2. ExecInv(s)'
      BY DEF drop, StartInv, TypeInv, PhaseInv, ExecInv
    <2>3. HoldInv(s)'
      <3>1. pc'[s] = "done" /\ mid'[s] = mid[s] /\ kid'[s] = kid[s]
        BY DEF drop, TypeInv
      <3>2. \A e \in Ends, p \in {Mid(s), Kid(s)} : p \in open[s][e] => p \in open'[s][e]
        BY <1>1, ProcessesDiffer
      <3>3. HoldInv(s)
        BY DEF StartInv
      <3> QED
        BY <3>1, <3>2, <3>3, HoldKept
    <2>4. (Controller \in open[s]["lock"] \/ execed[s] \/ killed[s] \/ pc[s] = "dead"
            \/ result[s] \in {"Prepare", "Exec", "ExecUnconfirmed"})'
      BY <2>2, <1>1, ProcessesDiffer, EndsAre DEF drop, StartInv, TypeInv, PhaseInv, ExecInv, HoldInv
    <2> QED
      BY <2>1, <2>2, <2>3, <2>4, <1>3 DEF StartInv
  <1> QED
    BY <1>2, <1>4, <1>5

----------------------------------------------------------------------------
(* The two children, membraned, and the environment.                        *)

LEMMA IntermediateExitStep == ASSUME SInv, NEW s \in Starts, intermediate_exit(s) PROVE SInv'
  <1> USE DEF SInv
  <1>1. open' \in OpenFiles /\ \A t \in Starts, e \in Ends : open'[t][e] = open[t][e] \ {Mid(s)}
    BY Exited DEF intermediate_exit, TypeInv
  <1>2. TypeInv'
    BY <1>1 DEF intermediate_exit, TypeInv
  <1>3. ASSUME NEW u \in Starts, NEW p \in open'[u]["lock"] PROVE Holder(u, p)'
    BY <1>1, <1>3, HolderKept, ProcessesDiffer, EndsAre DEF intermediate_exit, StartInv, TypeInv
  <1>4. ASSUME NEW u \in Starts, u # s PROVE StartInv(u)'
    BY <1>1, <1>3, <1>4, Elsewhere, ProcessesDiffer DEF intermediate_exit, TypeInv
  <1>5. StartInv(s)'
    <2>1. PhaseInv(s)' /\ RecordInv(s)'
      BY DEF intermediate_exit, StartInv, TypeInv, PhaseInv, RecordInv
    <2>2. ExecInv(s)'
      BY DEF intermediate_exit, StartInv, TypeInv, PhaseInv, ExecInv
    <2>3. HoldInv(s)'
      BY <1>1, ProcessesDiffer, EndsAre DEF intermediate_exit, StartInv, TypeInv, PhaseInv, HoldInv
    <2>4. (Controller \in open[s]["lock"] \/ execed[s] \/ killed[s] \/ pc[s] = "dead"
            \/ result[s] \in {"Prepare", "Exec", "ExecUnconfirmed"})'
      BY <2>2, <1>1, ProcessesDiffer, EndsAre DEF intermediate_exit, StartInv, TypeInv, PhaseInv, ExecInv, HoldInv
    <2> QED
      BY <2>1, <2>2, <2>3, <2>4, <1>3 DEF StartInv
  <1> QED
    BY <1>2, <1>4, <1>5

LEMMA GrandchildFailStep == ASSUME SInv, NEW s \in Starts, grandchild_fail(s) PROVE SInv'
  <1> USE DEF SInv
  <1>1. open' = open
    BY SMT DEF grandchild_fail, Fail
  <1>2. TypeInv'
    BY <1>1 DEF grandchild_fail, Fail, TypeInv
  <1>3. ASSUME NEW u \in Starts, NEW p \in open'[u]["lock"] PROVE Holder(u, p)'
    BY <1>1, <1>3, HolderKept, ProcessesDiffer, EndsAre DEF grandchild_fail, Fail, StartInv, TypeInv
  <1>4. ASSUME NEW u \in Starts, u # s PROVE StartInv(u)'
    BY <1>1, <1>3, <1>4, Elsewhere, ProcessesDiffer DEF grandchild_fail, Fail, TypeInv
  <1>5. StartInv(s)'
    <2>1. PhaseInv(s)' /\ RecordInv(s)'
      BY DEF grandchild_fail, Fail, StartInv, TypeInv, PhaseInv, RecordInv
    <2>2. ExecInv(s)'
      BY DEF grandchild_fail, Fail, StartInv, TypeInv, PhaseInv, ExecInv
    <2>3. HoldInv(s)'
      BY <1>1, ProcessesDiffer, EndsAre DEF grandchild_fail, Fail, StartInv, TypeInv, PhaseInv, HoldInv
    <2>4. (Controller \in open[s]["lock"] \/ execed[s] \/ killed[s] \/ pc[s] = "dead"
            \/ result[s] \in {"Prepare", "Exec", "ExecUnconfirmed"})'
      BY <2>2, <1>1, ProcessesDiffer, EndsAre DEF grandchild_fail, Fail, StartInv, TypeInv, PhaseInv, ExecInv, HoldInv
    <2> QED
      BY <2>1, <2>2, <2>3, <2>4, <1>3 DEF StartInv
  <1> QED
    BY <1>2, <1>4, <1>5

LEMMA CloseAboveFourStep == ASSUME SInv, NEW s \in Starts, close_above_four(s) PROVE SInv'
  <1> USE DEF SInv
  <1>1. /\ open' \in OpenFiles
      /\ \A t \in Starts, e \in Ends : open'[t][e] =
            IF t = s /\ e \in Kept THEN open[t][e] ELSE open[t][e] \ {Kid(s)}
    BY DEF close_above_four, TypeInv, OpenFiles
  <1>2. TypeInv'
    BY <1>1 DEF close_above_four, Kept, TypeInv
  <1>3. ASSUME NEW u \in Starts, NEW p \in open'[u]["lock"] PROVE Holder(u, p)'
    BY <1>1, <1>3, HolderKept, ProcessesDiffer, EndsAre DEF close_above_four, Kept, StartInv, TypeInv
  <1>4. ASSUME NEW u \in Starts, u # s PROVE StartInv(u)'
    BY <1>1, <1>3, <1>4, Elsewhere, ProcessesDiffer DEF close_above_four, Kept, TypeInv
  <1>5. StartInv(s)'
    <2>1. PhaseInv(s)' /\ RecordInv(s)'
      BY DEF close_above_four, Kept, StartInv, TypeInv, PhaseInv, RecordInv
    <2>2. ExecInv(s)'
      BY DEF close_above_four, Kept, StartInv, TypeInv, PhaseInv, ExecInv
    <2>3. HoldInv(s)'
      BY <1>1, ProcessesDiffer, EndsAre DEF close_above_four, Kept, StartInv, TypeInv, PhaseInv, HoldInv
    <2>4. (Controller \in open[s]["lock"] \/ execed[s] \/ killed[s] \/ pc[s] = "dead"
            \/ result[s] \in {"Prepare", "Exec", "ExecUnconfirmed"})'
      BY <2>2, <1>1, ProcessesDiffer, EndsAre DEF close_above_four, Kept, StartInv, TypeInv, PhaseInv, ExecInv, HoldInv
    <2> QED
      BY <2>1, <2>2, <2>3, <2>4, <1>3 DEF StartInv
  <1> QED
    BY <1>2, <1>4, <1>5

LEMMA ExecveStep == ASSUME SInv, NEW s \in Starts, execve(s) PROVE SInv'
  <1> USE DEF SInv
  <1>1. /\ open' \in OpenFiles
      /\ \A t \in Starts, e \in Ends : open'[t][e] =
            IF t = s /\ e \in {"report"} THEN open[t][e] \ {Kid(s)} ELSE open[t][e]
    <2>1. open \in OpenFiles
      BY DEF TypeInv
    <2>2. Close(s, {"report"}, Kid(s))
      BY DEF execve
    <2> QED
      BY <2>1, <2>2, Closed
  <1>2. TypeInv'
    BY <1>1 DEF execve, TypeInv
  <1>3. ASSUME NEW u \in Starts, NEW p \in open'[u]["lock"] PROVE Holder(u, p)'
    BY <1>1, <1>3, HolderKept, ProcessesDiffer, EndsAre DEF execve, StartInv, TypeInv
  <1>4. ASSUME NEW u \in Starts, u # s PROVE StartInv(u)'
    BY <1>1, <1>3, <1>4, Elsewhere, ProcessesDiffer DEF execve, TypeInv
  <1>5. StartInv(s)'
    <2>1. PhaseInv(s)' /\ RecordInv(s)'
      BY DEF execve, StartInv, TypeInv, PhaseInv, RecordInv
    <2>2. ExecInv(s)'
      BY DEF execve, StartInv, TypeInv, PhaseInv, ExecInv
    <2>3. HoldInv(s)'
      <3>1. kid[s] = "clean" /\ kid'[s] = "reading" /\ pc'[s] = pc[s] /\ mid'[s] = mid[s]
        BY DEF execve, TypeInv
      <3>2. /\ open'[s]["lock"] = open[s]["lock"] /\ open'[s]["write"] = open[s]["write"]
            /\ open'[s]["report"] = open[s]["report"] \ {Kid(s)}
        BY <1>1, EndsAre
      <3> QED
        BY <3>1, <3>2, ProcessesDiffer DEF StartInv, HoldInv
    <2>4. (Controller \in open[s]["lock"] \/ execed[s] \/ killed[s] \/ pc[s] = "dead"
            \/ result[s] \in {"Prepare", "Exec", "ExecUnconfirmed"})'
      BY <2>2, <1>1, ProcessesDiffer, EndsAre DEF execve, StartInv, TypeInv, PhaseInv, ExecInv, HoldInv
    <2> QED
      BY <2>1, <2>2, <2>3, <2>4, <1>3 DEF StartInv
  <1> QED
    BY <1>2, <1>4, <1>5

LEMMA KidExitStep == ASSUME SInv, NEW s \in Starts, kid_exit(s) PROVE SInv'
  <1> USE DEF SInv
  <1>1. open' \in OpenFiles /\ \A t \in Starts, e \in Ends : open'[t][e] = open[t][e] \ {Kid(s)}
    BY Exited DEF kid_exit, TypeInv
  <1>2. TypeInv'
    BY <1>1 DEF kid_exit, TypeInv
  <1>3. ASSUME NEW u \in Starts, NEW p \in open'[u]["lock"] PROVE Holder(u, p)'
    BY <1>1, <1>3, HolderKept, ProcessesDiffer, EndsAre DEF kid_exit, StartInv, TypeInv
  <1>4. ASSUME NEW u \in Starts, u # s PROVE StartInv(u)'
    BY <1>1, <1>3, <1>4, Elsewhere, ProcessesDiffer DEF kid_exit, TypeInv
  <1>5. StartInv(s)'
    <2>1. PhaseInv(s)' /\ RecordInv(s)'
      BY DEF kid_exit, StartInv, TypeInv, PhaseInv, RecordInv
    <2>2. ExecInv(s)'
      BY DEF kid_exit, StartInv, TypeInv, PhaseInv, ExecInv
    <2>3. HoldInv(s)'
      BY <1>1, ProcessesDiffer, EndsAre DEF kid_exit, StartInv, TypeInv, PhaseInv, HoldInv
    <2>4. (Controller \in open[s]["lock"] \/ execed[s] \/ killed[s] \/ pc[s] = "dead"
            \/ result[s] \in {"Prepare", "Exec", "ExecUnconfirmed"})'
      BY <2>2, <1>1, ProcessesDiffer, EndsAre DEF kid_exit, StartInv, TypeInv, PhaseInv, ExecInv, HoldInv
    <2> QED
      BY <2>1, <2>2, <2>3, <2>4, <1>3 DEF StartInv
  <1> QED
    BY <1>2, <1>4, <1>5

LEMMA ReadConfigStep == ASSUME SInv, NEW s \in Starts, read_config(s) PROVE SInv'
  <1> USE DEF SInv
  <1>1. CASE sent[s] > taken[s] /\ taken' = [taken EXCEPT ![s] = @ + 1] /\ UNCHANGED <<kid, open>>
    <2>1. open' = open
      BY <1>1, SMT DEF read_config
    <2>2. TypeInv'
      BY <1>1, <2>1 DEF read_config, TypeInv
    <2>3. ASSUME NEW u \in Starts, NEW p \in open'[u]["lock"] PROVE Holder(u, p)'
      BY <1>1, <2>1, <2>3, HolderKept, ProcessesDiffer, EndsAre DEF read_config, StartInv, TypeInv
    <2>4. ASSUME NEW u \in Starts, u # s PROVE StartInv(u)'
      BY <1>1, <2>1, <2>3, <2>4, Elsewhere, ProcessesDiffer DEF read_config, TypeInv
    <2>5. StartInv(s)'
      <3>1. PhaseInv(s)' /\ RecordInv(s)'
        BY <1>1 DEF read_config, StartInv, TypeInv, PhaseInv, RecordInv
      <3>2. ExecInv(s)'
        BY <1>1 DEF read_config, StartInv, TypeInv, PhaseInv, ExecInv
      <3>3. HoldInv(s)'
        BY <1>1, <2>1, ProcessesDiffer, EndsAre DEF read_config, StartInv, TypeInv, PhaseInv, HoldInv
      <3>4. (Controller \in open[s]["lock"] \/ execed[s] \/ killed[s] \/ pc[s] = "dead"
              \/ result[s] \in {"Prepare", "Exec", "ExecUnconfirmed"})'
        BY <1>1, <3>2, <2>1, ProcessesDiffer, EndsAre DEF read_config, StartInv, TypeInv, PhaseInv, ExecInv, HoldInv
      <3> QED
        BY <3>1, <3>2, <3>3, <3>4, <2>3 DEF StartInv
    <2> QED
      BY <2>2, <2>4, <2>5
  <1>2. CASE Eof(s) /\ kid' = [kid EXCEPT ![s] = IF decode(s) THEN "decoded" ELSE "exit"]
              /\ Close(s, {"read"}, Kid(s)) /\ UNCHANGED taken
    <2>1. /\ open' \in OpenFiles
        /\ \A t \in Starts, e \in Ends : open'[t][e] =
              IF t = s /\ e \in {"read"} THEN open[t][e] \ {Kid(s)} ELSE open[t][e]
      <3>1. open \in OpenFiles
        BY DEF TypeInv
      <3>2. Close(s, {"read"}, Kid(s))
        BY <1>2 DEF read_config
      <3> QED
        BY <3>1, <3>2, Closed
    <2>2. TypeInv'
      BY <1>2, <2>1 DEF read_config, decode, Eof, TypeInv
    <2>3. ASSUME NEW u \in Starts, NEW p \in open'[u]["lock"] PROVE Holder(u, p)'
      BY <1>2, <2>1, <2>3, HolderKept, ProcessesDiffer, EndsAre DEF read_config, decode, Eof, StartInv, TypeInv
    <2>4. ASSUME NEW u \in Starts, u # s PROVE StartInv(u)'
      BY <1>2, <2>1, <2>3, <2>4, Elsewhere, ProcessesDiffer DEF read_config, decode, Eof, TypeInv
    <2>5. StartInv(s)'
      <3>1. PhaseInv(s)' /\ RecordInv(s)'
        <4>1. pc[s] \in {"done", "dead"}
          BY <1>2 DEF read_config, Eof, StartInv, TypeInv, PhaseInv, HoldInv
        <4> QED
          BY <1>2, <4>1 DEF read_config, decode, Eof, StartInv, TypeInv, PhaseInv, RecordInv
      <3>2. ExecInv(s)'
        BY <1>2 DEF read_config, decode, Eof, StartInv, TypeInv, PhaseInv, ExecInv
      <3>3. HoldInv(s)'
        <4>1. kid[s] = "reading" /\ kid'[s] \in {"decoded", "exit"} /\ pc'[s] = pc[s] /\ mid'[s] = mid[s]
          BY <1>2 DEF read_config, TypeInv
        <4>2. \A e \in Ends : e # "read" => open'[s][e] = open[s][e]
          BY <2>1
        <4> QED
          BY <4>1, <4>2, EndsAre DEF StartInv, HoldInv
      <3>4. (Controller \in open[s]["lock"] \/ execed[s] \/ killed[s] \/ pc[s] = "dead"
              \/ result[s] \in {"Prepare", "Exec", "ExecUnconfirmed"})'
        BY <1>2, <3>2, <2>1, ProcessesDiffer, EndsAre DEF read_config, decode, Eof, StartInv, TypeInv, PhaseInv, ExecInv, HoldInv
      <3> QED
        BY <3>1, <3>2, <3>3, <3>4, <2>3 DEF StartInv
    <2> QED
      BY <2>2, <2>4, <2>5
  <1> QED
    BY <1>1, <1>2 DEF read_config

LEMMA AdoptStep == ASSUME SInv, NEW s \in Starts, adopt_lock(s) PROVE SInv'
  <1> USE DEF SInv
  <1>1. open' = open
    BY SMT DEF adopt_lock
  <1>2. TypeInv'
    BY <1>1 DEF adopt_lock, TypeInv
  <1>3. ASSUME NEW u \in Starts, NEW p \in open'[u]["lock"] PROVE Holder(u, p)'
    BY <1>1, <1>3, HolderKept, ProcessesDiffer, EndsAre DEF adopt_lock, StartInv, TypeInv
  <1>4. ASSUME NEW u \in Starts, u # s PROVE StartInv(u)'
    BY <1>1, <1>3, <1>4, Elsewhere, ProcessesDiffer DEF adopt_lock, TypeInv
  <1>5. StartInv(s)'
    <2>1. PhaseInv(s)' /\ RecordInv(s)'
      BY DEF adopt_lock, StartInv, TypeInv, PhaseInv, RecordInv
    <2>2. ExecInv(s)'
      BY DEF adopt_lock, StartInv, TypeInv, PhaseInv, ExecInv
    <2>3. HoldInv(s)'
      BY <1>1, ProcessesDiffer, EndsAre DEF adopt_lock, StartInv, TypeInv, PhaseInv, HoldInv
    <2>4. (Controller \in open[s]["lock"] \/ execed[s] \/ killed[s] \/ pc[s] = "dead"
            \/ result[s] \in {"Prepare", "Exec", "ExecUnconfirmed"})'
      BY <2>2, <1>1, ProcessesDiffer, EndsAre DEF adopt_lock, StartInv, TypeInv, PhaseInv, ExecInv, HoldInv
    <2> QED
      BY <2>1, <2>2, <2>3, <2>4, <1>3 DEF StartInv
  <1> QED
    BY <1>2, <1>4, <1>5

LEMMA DeadlineStep == ASSUME SInv, NEW s \in Starts, Deadline(s) PROVE SInv'
  <1> USE DEF SInv
  <1>1. open' = open
    BY SMT DEF Deadline
  <1>2. TypeInv'
    BY <1>1 DEF Deadline, TypeInv
  <1>3. ASSUME NEW u \in Starts, NEW p \in open'[u]["lock"] PROVE Holder(u, p)'
    BY <1>1, <1>3, HolderKept, ProcessesDiffer, EndsAre DEF Deadline, StartInv, TypeInv
  <1>4. ASSUME NEW u \in Starts, u # s PROVE StartInv(u)'
    BY <1>1, <1>3, <1>4, Elsewhere, ProcessesDiffer DEF Deadline, TypeInv
  <1>5. StartInv(s)'
    <2>1. PhaseInv(s)' /\ RecordInv(s)'
      BY DEF Deadline, StartInv, TypeInv, PhaseInv, RecordInv
    <2>2. ExecInv(s)'
      BY DEF Deadline, StartInv, TypeInv, PhaseInv, ExecInv
    <2>3. HoldInv(s)'
      BY <1>1, ProcessesDiffer, EndsAre DEF Deadline, StartInv, TypeInv, PhaseInv, HoldInv
    <2>4. (Controller \in open[s]["lock"] \/ execed[s] \/ killed[s] \/ pc[s] = "dead"
            \/ result[s] \in {"Prepare", "Exec", "ExecUnconfirmed"})'
      BY <2>2, <1>1, ProcessesDiffer, EndsAre DEF Deadline, StartInv, TypeInv, PhaseInv, ExecInv, HoldInv
    <2> QED
      BY <2>1, <2>2, <2>3, <2>4, <1>3 DEF StartInv
  <1> QED
    BY <1>2, <1>4, <1>5

LEMMA KillMidStep == ASSUME SInv, NEW s \in Starts, KillMid(s) PROVE SInv'
  <1> USE DEF SInv
  <1>1. open' \in OpenFiles /\ \A t \in Starts, e \in Ends : open'[t][e] = open[t][e] \ {Mid(s)}
    BY Exited DEF KillMid, TypeInv
  <1>2. TypeInv'
    BY <1>1 DEF KillMid, TypeInv
  <1>3. ASSUME NEW u \in Starts, NEW p \in open'[u]["lock"] PROVE Holder(u, p)'
    BY <1>1, <1>3, HolderKept, ProcessesDiffer, EndsAre DEF KillMid, StartInv, TypeInv
  <1>4. ASSUME NEW u \in Starts, u # s PROVE StartInv(u)'
    <2>1. \A e \in Ends, p \in {Controller, Mid(u), Kid(u)} : p \in open[u][e] => p \in open'[u][e]
      BY <1>1, <1>4, ProcessesDiffer
    <2>2. /\ pc'[u] = pc[u] /\ result'[u] = result[u] /\ mid'[u] = mid[u] /\ kid'[u] = kid[u]
          /\ report'[u] = report[u] /\ sent'[u] = sent[u] /\ taken'[u] = taken[u]
          /\ execed'[u] = execed[u] /\ killed'[u] = killed[u]
      BY <1>4 DEF KillMid, TypeInv
    <2> QED
      BY <1>3, <2>1, <2>2, Elsewhere
  <1>5. StartInv(s)'
    <2>1. PhaseInv(s)' /\ RecordInv(s)'
      BY DEF KillMid, StartInv, TypeInv, PhaseInv, RecordInv
    <2>2. ExecInv(s)'
      BY DEF KillMid, StartInv, TypeInv, PhaseInv, ExecInv
    <2>3. HoldInv(s)'
      BY <1>1, ProcessesDiffer, EndsAre DEF KillMid, StartInv, TypeInv, PhaseInv, HoldInv
    <2>4. (Controller \in open[s]["lock"] \/ execed[s] \/ killed[s] \/ pc[s] = "dead"
            \/ result[s] \in {"Prepare", "Exec", "ExecUnconfirmed"})'
      BY <2>2, <1>1, ProcessesDiffer, EndsAre DEF KillMid, StartInv, TypeInv, PhaseInv, ExecInv, HoldInv
    <2> QED
      BY <2>1, <2>2, <2>3, <2>4, <1>3 DEF StartInv
  <1> QED
    BY <1>2, <1>4, <1>5

LEMMA KillKidStep == ASSUME SInv, NEW s \in Starts, KillKid(s) PROVE SInv'
  <1> USE DEF SInv
  <1>1. open' \in OpenFiles /\ \A t \in Starts, e \in Ends : open'[t][e] = open[t][e] \ {Kid(s)}
    BY Exited DEF KillKid, TypeInv
  <1>2. TypeInv'
    BY <1>1 DEF KillKid, TypeInv
  <1>3. ASSUME NEW u \in Starts, NEW p \in open'[u]["lock"] PROVE Holder(u, p)'
    BY <1>1, <1>3, HolderKept, ProcessesDiffer, EndsAre DEF KillKid, StartInv, TypeInv
  <1>4. ASSUME NEW u \in Starts, u # s PROVE StartInv(u)'
    <2>1. \A e \in Ends, p \in {Controller, Mid(u), Kid(u)} : p \in open[u][e] => p \in open'[u][e]
      BY <1>1, <1>4, ProcessesDiffer
    <2>2. /\ pc'[u] = pc[u] /\ result'[u] = result[u] /\ mid'[u] = mid[u] /\ kid'[u] = kid[u]
          /\ report'[u] = report[u] /\ sent'[u] = sent[u] /\ taken'[u] = taken[u]
          /\ execed'[u] = execed[u] /\ killed'[u] = killed[u]
      BY <1>4 DEF KillKid, TypeInv
    <2> QED
      BY <1>3, <2>1, <2>2, Elsewhere
  <1>5. StartInv(s)'
    <2>1. PhaseInv(s)' /\ RecordInv(s)'
      BY DEF KillKid, StartInv, TypeInv, PhaseInv, RecordInv
    <2>2. ExecInv(s)'
      BY DEF KillKid, StartInv, TypeInv, PhaseInv, ExecInv
    <2>3. HoldInv(s)'
      BY <1>1, ProcessesDiffer, EndsAre DEF KillKid, StartInv, TypeInv, PhaseInv, HoldInv
    <2>4. (Controller \in open[s]["lock"] \/ execed[s] \/ killed[s] \/ pc[s] = "dead"
            \/ result[s] \in {"Prepare", "Exec", "ExecUnconfirmed"})'
      BY <2>2, <1>1, ProcessesDiffer, EndsAre DEF KillKid, StartInv, TypeInv, PhaseInv, ExecInv, HoldInv
    <2> QED
      BY <2>1, <2>2, <2>3, <2>4, <1>3 DEF StartInv
  <1> QED
    BY <1>2, <1>4, <1>5

LEMMA IntermediateStep == ASSUME SInv, NEW s \in Starts, intermediate(s) PROVE SInv'
  <1> USE DEF SInv
  <1>1. CASE Fork(Mid(s), Kid(s)) /\ kid' = [kid EXCEPT ![s] = "new"] /\ UNCHANGED report
    <2>1. /\ open' \in OpenFiles
          /\ \A t \in Starts, e \in Ends :
                /\ Mid(s) \in open[t][e] => open'[t][e] = open[t][e] \cup {Kid(s)}
                /\ Mid(s) \notin open[t][e] => open'[t][e] = open[t][e]
      BY <1>1, ProcessesDiffer DEF Fork, TypeInv, OpenFiles
    <2>2. TypeInv'
      BY <1>1, <2>1 DEF intermediate, TypeInv
    <2>3. ASSUME NEW u \in Starts, NEW p \in open'[u]["lock"] PROVE Holder(u, p)'
      <3>1. CASE p = Kid(s)
        BY <1>1, <3>1 DEF Holder, TypeInv
      <3>2. CASE p # Kid(s)
        <4>1. p \in open[u]["lock"] /\ Holder(u, p)
          BY <2>1, <2>3, <3>2, EndsAre DEF StartInv
        <4> QED
          BY <1>1, <3>2, <4>1, HolderKept DEF intermediate, TypeInv
      <3> QED
        BY <3>1, <3>2
    <2>4. ASSUME NEW u \in Starts, u # s PROVE StartInv(u)'
      BY <1>1, <2>1, <2>3, <2>4, Elsewhere DEF intermediate, TypeInv
    <2>5. StartInv(s)'
      <3>1. PhaseInv(s)' /\ RecordInv(s)'
        BY <1>1 DEF intermediate, StartInv, TypeInv, PhaseInv, RecordInv
      <3>2. ExecInv(s)'
        BY <1>1 DEF intermediate, StartInv, TypeInv, PhaseInv, ExecInv
      <3>3. HoldInv(s)'
        BY <1>1, <2>1, EndsAre DEF intermediate, StartInv, TypeInv, PhaseInv, HoldInv
      <3>4. (Controller \in open[s]["lock"] \/ execed[s] \/ killed[s] \/ pc[s] = "dead"
              \/ result[s] \in {"Prepare", "Exec", "ExecUnconfirmed"})'
        BY <2>1, EndsAre DEF intermediate, StartInv
      <3> QED
        BY <3>1, <3>2, <3>3, <3>4, <2>3 DEF StartInv
    <2> QED
      BY <2>2, <2>4, <2>5
  <1>2. CASE Fail(s) /\ UNCHANGED <<kid, open>>
    <2>2. TypeInv'
      BY <1>2 DEF intermediate, Fail, TypeInv
    <2>3. ASSUME NEW u \in Starts, NEW p \in open'[u]["lock"] PROVE Holder(u, p)'
      BY <1>2, <2>3, HolderKept DEF intermediate, StartInv, TypeInv
    <2>4. ASSUME NEW u \in Starts, u # s PROVE StartInv(u)'
      BY <1>2, <2>3, <2>4, Elsewhere DEF intermediate, Fail, TypeInv
    <2>5. StartInv(s)'
      <3>1. PhaseInv(s)' /\ RecordInv(s)'
        BY <1>2 DEF intermediate, Fail, StartInv, TypeInv, PhaseInv, RecordInv
      <3>2. ExecInv(s)'
        BY <1>2 DEF intermediate, Fail, StartInv, TypeInv, PhaseInv, ExecInv
      <3>3. HoldInv(s)'
        BY <1>2 DEF intermediate, StartInv, TypeInv, PhaseInv, HoldInv
      <3> QED
        BY <1>2, <3>1, <3>2, <3>3, <2>3 DEF StartInv, intermediate
    <2> QED
      BY <2>2, <2>4, <2>5
  <1> QED
    BY <1>1, <1>2 DEF intermediate

LEMMA StrangerStep == ASSUME SInv, StrangerExits PROVE SInv'
  <1> USE DEF SInv
  <1>1. open' \in OpenFiles /\ \A t \in Starts, e \in Ends : open'[t][e] = open[t][e] \ {Stranger}
    BY Exited DEF StrangerExits, TypeInv
  <1>2. TypeInv'
    BY <1>1 DEF StrangerExits, TypeInv
  <1>3. ASSUME NEW u \in Starts PROVE StartInv(u)'
    <2>1. \A p \in open'[u]["lock"] : Holder(u, p)'
      BY <1>1, EndsAre DEF StrangerExits, StartInv, Holder
    <2>2. \A e \in Ends, p \in {Controller, Mid(u), Kid(u)} : p \in open[u][e] => p \in open'[u][e]
      BY <1>1, ProcessesDiffer
    <2> QED
      BY <2>1, <2>2, Elsewhere DEF StrangerExits
  <1> QED
    BY <1>2, <1>3

LEMMA KillControllerStep == ASSUME SInv, KillController PROVE SInv'
  <1> USE DEF SInv
  <1>1. open' \in OpenFiles /\ \A t \in Starts, e \in Ends : open'[t][e] = open[t][e] \ {Controller}
    BY Exited DEF KillController, TypeInv
  <1>2. TypeInv'
    BY <1>1 DEF KillController, TypeInv
  <1>3. ASSUME NEW u \in Starts PROVE StartInv(u)'
    <2>1. \A p \in open'[u]["lock"] : Holder(u, p)'
      BY <1>1, EndsAre DEF KillController, StartInv, Holder
    <2>2. PhaseInv(u)' /\ ExecInv(u)' /\ RecordInv(u)'
      BY DEF KillController, StartInv, TypeInv, PhaseInv, ExecInv, RecordInv
    <2>3. HoldInv(u)'
      BY <1>1, ProcessesDiffer, EndsAre DEF KillController, StartInv, TypeInv, HoldInv
    <2> QED
      BY <2>1, <2>2, <2>3 DEF StartInv, KillController
  <1> QED
    BY <1>2, <1>3

----------------------------------------------------------------------------
(* Theorems                                                                 *)

LEMMA StartStep == SInv /\ [Next]_vars => SInv'
  <1> SUFFICES ASSUME SInv, [Next]_vars PROVE SInv'
    OBVIOUS
  <1>1. ASSUME NEW s \in Starts, Layout_new(s) \/ WriteFails(s) \/ drop(s) PROVE SInv'
    BY <1>1, LayoutStep, WriteFailsStep, DropStep
  <1>2. ASSUME NEW s \in Starts, Call(s) PROVE SInv'
    BY <1>2, ForkStep, ReapStep, ReportStep, RecordStep, WaitStep DEF Call
  <1>3. ASSUME NEW s \in Starts, Intermediate(s) PROVE SInv'
    BY <1>3, IntermediateStep, IntermediateExitStep DEF Intermediate
  <1>4. ASSUME NEW s \in Starts, Grandchild(s) PROVE SInv'
    BY <1>4, GrandchildFailStep, CloseAboveFourStep, ExecveStep, ReadConfigStep, AdoptStep DEF Grandchild
  <1>5. ASSUME NEW s \in Starts, kid_exit(s) \/ Deadline(s) \/ KillMid(s) \/ KillKid(s) PROVE SInv'
    BY <1>5, KidExitStep, DeadlineStep, KillMidStep, KillKidStep
  <1>6. CASE UNCHANGED vars
    <2>1. TypeInv'
      BY <1>6 DEF SInv, TypeInv, vars
    <2>2. ASSUME NEW u \in Starts PROVE StartInv(u)'
      <3>1. \A p \in open'[u]["lock"] : Holder(u, p)'
        BY <1>6 DEF SInv, StartInv, Holder, vars
      <3> QED
        BY <1>6, <3>1, Elsewhere DEF SInv, vars
    <2> QED
      BY <2>1, <2>2 DEF SInv
  <1> QED
    BY <1>1, <1>2, <1>3, <1>4, <1>5, <1>6, StrangerStep, KillControllerStep DEF Next

(* The invariant of every call, process and descriptor of a start.          *)
THEOREM StartInvariant == Spec => []SInv
  <1> QED
    BY StartInit, StartStep, PTL DEF Spec

(* A refusal left no membraned, the lock was given up for one that runs,    *)
(* and none works after a failure.                                          *)
THEOREM TrueReport == Spec => []ReportIsTrue
  <1>1. SInv => ReportIsTrue
    <2> SUFFICES ASSUME SInv PROVE ReportIsTrue
      OBVIOUS
    <2>1. RefusedMeansNone
      BY DEF SInv, StartInv, ExecInv, RefusedMeansNone
    <2>2. GivenUpForExec
      BY DEF SInv, StartInv, GivenUpForExec
    <2>3. AdoptedMeansOk
      BY DEF SInv, TypeInv, StartInv, RecordInv, AdoptedMeansOk
    <2> QED
      BY <2>1, <2>2, <2>3 DEF ReportIsTrue
  <1> QED
    BY <1>1, StartInvariant, PTL

(* The lock is with its supervisor as long as there is one, and with nobody *)
(* that outlives it.                                                        *)
THEOREM LockWithSupervisor == Spec => []LockFollows
  <1>1. SInv => LockFollows
    <2> SUFFICES ASSUME SInv PROVE LockFollows
      OBVIOUS
    <2>1. NeverFree
      BY DEF SInv, StartInv, HoldInv, NeverFree
    <2>2. LockGoesWithSupervisor
      BY DEF SInv, StartInv, Holder, LockGoesWithSupervisor
    <2> QED
      BY <2>1, <2>2 DEF LockFollows
  <1> QED
    BY <1>1, StartInvariant, PTL
=============================================================================
