------------------------------- MODULE Vmm_proofs -------------------------------
(***************************************************************************)
(* The VMM helper from the supervisor's side, for any constants: what a     *)
(* handle of vmm.rs may signal and what it leaves behind (VmmChild), and    *)
(* the launch, the handshake and the transcript on one process table        *)
(* (VmmLaunch).                                                             *)
(*                                                                          *)
(* Each property speaks of one moment; each invariant says what every       *)
(* system call may rely on: of a handle, that its number is its child's or  *)
(* no child's at all, and that a handle about to signal has its child under *)
(* that number; of a launch, which numbers hold its ends, that no other     *)
(* entry of any table is one of them, and that an inheritable one exists    *)
(* under the spawn lock only; of the handshake, whom it has accepted, what  *)
(* was asked and heard on each stream, and what an honest guest can have    *)
(* said by then; of the reader, that the bytes it has yet to take cover     *)
(* what was written when it was stopped.                                    *)
(***************************************************************************)
EXTENDS VmmChild, VmmLaunch, WellFoundedInduction, TLAPS

(* The handles                                                              *)

USE VmmChildAssumption

Processes == [owner : Handles \cup {Stranger, Nothing},
              leader : {"setup", "running", "killed", "zombie", "reaped"},
              workers : 0..MaxWorkers]

Live(h) == lifecycle[h] \notin Finished \cup {"Unborn"}

Busy(h) == syscall[h] \notin {"idle", "dropped"}

Mine(h) == Process(h).owner = h

(* A number is free or held, and a handle's process has the handle's number. *)
PInv(p) ==
    /\ processes[p].leader = "reaped" /\ processes[p].workers = 0 => processes[p] = Free
    /\ processes[p].owner = Nothing => processes[p] = Free
    /\ processes[p].owner \in Handles => pid[processes[p].owner] = p

(* The number of an unfinished handle is its child's or no child's.         *)
OwnInv(h) ==
    /\ lifecycle[h] = "Unborn" <=> pid[h] = Nothing
    /\ Busy(h) => Live(h)
    /\ Live(h) /\ Process(h).owner \in Handles => Mine(h)

(* What the lifecycle says of the process.                                  *)
LifeInv(h) ==
    /\ lifecycle[h] = "ExitObserved" /\ Mine(h) => Process(h).leader \in {"zombie", "reaped"}
    /\ lifecycle[h] = "GroupSignaled" /\ Mine(h) =>
          Process(h).leader = "zombie" /\ Process(h).workers = 0
    /\ lifecycle[h] \in Finished =>
          \A p \in Pids : processes[p].owner = h => processes[p].leader = "reaped"
    /\ lifecycle[h] = "Finished" => \A p \in Pids : processes[p].owner # h

(* What the next system call relies on.                                     *)
CallInv(h) ==
    /\ syscall[h] = "signal_leader" =>
          Mine(h) /\ Process(h).leader # "reaped" /\ call[h] \in {"kill", "drop"}
          /\ lifecycle[h] # "GroupSignaled"
    /\ syscall[h] = "signal_group" =>
          Mine(h) /\ Process(h).leader = "zombie" /\ lifecycle[h] = "ExitObserved"
    /\ syscall[h] = "reap" => lifecycle[h] = "GroupSignaled"
    /\ syscall[h] = "reap_after_group_failure" => lifecycle[h] = "ExitObserved"
    /\ syscall[h] = "observe" => call[h] \in {"state", "kill", "drop"}
    /\ syscall[h] = "observe_again" => call[h] = "drop_failed"
    /\ call[h] = "drop_failed" => h \in excused
    /\ syscall[h] = "dropped" /\ h \notin excused => lifecycle[h] \in Finished

HInv(h) == OwnInv(h) /\ LifeInv(h) /\ CallInv(h)

VInv ==
    /\ TypeOK
    /\ ~stray
    /\ \A p \in Pids : PInv(p)
    /\ \A h \in Handles : HInv(h)

LEMMA FreeType == Free \in Processes
  BY DEF Free, Processes

LEMMA VmmInit == ChildInit => VInv
  <1> SUFFICES ASSUME ChildInit PROVE VInv
    OBVIOUS
  <1>1. TypeOK
    BY FreeType DEF ChildInit, TypeOK, Processes
  <1>2. ASSUME NEW p \in Pids PROVE PInv(p)
    BY DEF ChildInit, PInv, Free
  <1>3. ASSUME NEW h \in Handles PROVE HInv(h)
    BY DEF ChildInit, HInv, OwnInv, LifeInv, CallInv, Busy, Live, Finished
  <1> QED  BY <1>1, <1>2, <1>3 DEF VInv, ChildInit

----------------------------------------------------------------------------
(* Frames: what a step of one handle leaves of the others                   *)

LEMMA Frame ==
    ASSUME VInv, NEW h \in Handles, UNCHANGED <<processes, pid, stray>>,
           \A g \in Handles \ {h} :
               /\ lifecycle'[g] = lifecycle[g] /\ syscall'[g] = syscall[g] /\ call'[g] = call[g]
               /\ (g \in excused') = (g \in excused),
           TypeOK', HInv(h)'
    PROVE  VInv'
  <1>1. ASSUME NEW p \in Pids PROVE PInv(p)'
    BY DEF VInv, PInv
  <1>2. ASSUME NEW g \in Handles, g # h PROVE HInv(g)'
    <2>1. HInv(g)
      BY DEF VInv
    <2> QED
      BY <1>2, <2>1 DEF HInv, OwnInv, LifeInv, CallInv, Busy, Live, Mine, Process
  <1> QED  BY <1>1, <1>2 DEF VInv

(* A step on the handle's own process.                                      *)
LEMMA FrameOwn ==
    ASSUME VInv, NEW h \in Handles, Live(h), Mine(h), UNCHANGED <<pid, stray>>,
           NEW n \in Processes, n.owner \in {h, Nothing},
           processes' = [processes EXCEPT ![pid[h]] = n],
           \A g \in Handles \ {h} :
               /\ lifecycle'[g] = lifecycle[g] /\ syscall'[g] = syscall[g] /\ call'[g] = call[g]
               /\ (g \in excused') = (g \in excused),
           n.leader = "reaped" /\ n.workers = 0 => n = Free,
           n.owner = Nothing => n = Free,
           TypeOK', HInv(h)'
    PROVE  VInv'
  <1>0. TypeOK /\ HInv(h) /\ pid[h] \in Pids /\ pid' = pid
    BY DEF VInv, HInv, OwnInv, Live, TypeOK
  <1>1. ASSUME NEW p \in Pids PROVE processes'[p] = IF p = pid[h] THEN n ELSE processes[p]
    BY <1>0 DEF TypeOK
  <1>2. ASSUME NEW p \in Pids PROVE PInv(p)'
    <2>1. PInv(p)
      BY DEF VInv
    <2> QED  BY <1>0, <1>1, <2>1 DEF PInv
  <1>3. ASSUME NEW g \in Handles, g # h PROVE HInv(g)'
    <2>1. HInv(g)
      BY DEF VInv
    <2>2. pid[g] = pid[h] => ~Live(g)
      BY <1>3, <2>1 DEF HInv, OwnInv, Mine, Process
    <2>3. n.owner # g
      BY <1>3
    <2>4. OwnInv(g)'
      BY <1>0, <1>1, <1>3, <2>1, <2>2 DEF TypeOK, HInv, OwnInv, Busy, Live, Mine, Process
    <2>5. LifeInv(g)'
      <3>1. pid[g] \in Pids \/ lifecycle[g] = "Unborn"
        BY <1>0, <2>1 DEF HInv, OwnInv, TypeOK
      <3> QED
        BY <1>0, <1>1, <1>3, <2>1, <2>2, <2>3, <3>1
        DEF HInv, LifeInv, Live, Mine, Process, Finished
    <2>6. CallInv(g)'
      <3>1. Busy(g) => Live(g) /\ pid[g] \in Pids /\ pid[g] # pid[h]
        BY <1>0, <2>1, <2>2 DEF HInv, OwnInv, Live, TypeOK
      <3> QED
        BY <1>0, <1>1, <1>3, <2>1, <3>1 DEF HInv, CallInv, Busy, Mine, Process
    <2> QED  BY <2>4, <2>5, <2>6 DEF HInv
  <1> QED  BY <1>2, <1>3 DEF VInv

----------------------------------------------------------------------------
(* Steps of the processes                                                   *)

LEMMA SettledFacts ==
    ASSUME NEW q \in Processes
    PROVE  /\ Settled(q) \in Processes
           /\ Settled(q) = q \/ (Settled(q) = Free /\ q.leader = "reaped" /\ q.workers = 0)
           /\ Settled(q).leader = "reaped" /\ Settled(q).workers = 0 => Settled(q) = Free
           /\ q.owner # Nothing /\ Settled(q).owner = Nothing => Settled(q) = Free
           /\ Settled(q).owner \in {q.owner, Nothing}
           /\ Settled(q).workers = q.workers
  BY FreeType DEF Settled, Processes, Free

LEMMA TableStep ==
    ASSUME VInv, NEW p \in Pids, NEW n \in Processes,
           processes' = [processes EXCEPT ![p] = n],
           UNCHANGED <<pid, lifecycle, call, syscall, stray, excused>>,
           n.leader = "reaped" /\ n.workers = 0 => n = Free,
           n.owner = Nothing => n = Free,
           n.owner \in Handles => n.owner = processes[p].owner,
           processes[p].owner \in Handles =>
               /\ processes[p].leader = "zombie" => n = Free \/ n.leader \in {"zombie", "reaped"}
               /\ processes[p].leader = "reaped" => n.leader = "reaped"
               /\ processes[p].leader = "zombie" /\ processes[p].workers = 0 =>
                     n = Free \/ (n.leader = "zombie" /\ n.workers = 0)
               /\ syscall[processes[p].owner] = "signal_leader" /\ processes[p].leader # "reaped" =>
                     n.owner = processes[p].owner /\ n.leader # "reaped"
               /\ syscall[processes[p].owner] = "signal_group" /\ processes[p].leader = "zombie" =>
                     n.owner = processes[p].owner /\ n.leader = "zombie"
    PROVE  VInv'
  <1>0. TypeOK /\ TypeOK'
    BY DEF VInv, TypeOK, Processes
  <1>1. ASSUME NEW k \in Pids PROVE processes'[k] = IF k = p THEN n ELSE processes[k]
    BY <1>0 DEF TypeOK
  <1>2. ASSUME NEW k \in Pids PROVE PInv(k)'
    <2>1. PInv(k) /\ PInv(p)
      BY DEF VInv
    <2> QED  BY <1>1, <2>1 DEF PInv
  <1>3. ASSUME NEW h \in Handles PROVE HInv(h)'
    <2>0. Nothing \notin Handles
      OBVIOUS
    <2>1. HInv(h) /\ PInv(p)
      BY DEF VInv
    <2>2. lifecycle[h] # "Unborn" => pid[h] \in Pids
      BY <1>0, <2>1 DEF HInv, OwnInv, TypeOK
    <2>3. OwnInv(h)'
      BY <1>1, <2>1, <2>2 DEF HInv, OwnInv, Busy, Live, Mine, Process
    <2>4. LifeInv(h)'
      <3>1. ASSUME lifecycle[h] \in {"ExitObserved", "GroupSignaled"}, Mine(h)' PROVE
                /\ Process(h)'.leader \in {"zombie", "reaped"}
                /\ lifecycle[h] = "GroupSignaled" =>
                      Process(h)'.leader = "zombie" /\ Process(h)'.workers = 0
        <4>1. CASE pid[h] # p
          BY <1>1, <2>1, <2>2, <3>1, <4>1 DEF HInv, LifeInv, Mine, Process
        <4>2. CASE pid[h] = p
          <5>1. Process(h)' = n /\ n.owner = h /\ processes[p].owner = h
            BY <1>1, <3>1, <4>2 DEF Mine, Process
          <5>2. n # Free
            BY <2>0, <5>1 DEF Free
          <5> QED  BY <2>1, <3>1, <4>2, <5>1, <5>2 DEF HInv, LifeInv, Mine, Process
        <4> QED  BY <4>1, <4>2
      <3>2. ASSUME lifecycle[h] \in Finished, NEW k \in Pids, processes'[k].owner = h PROVE
                /\ processes'[k].leader = "reaped"
                /\ lifecycle[h] # "Finished"
        <4>1. processes[k].owner = h /\ processes[k].leader = "reaped" /\ lifecycle[h] # "Finished"
          BY <1>1, <2>1, <3>2 DEF HInv, LifeInv
        <4> QED  BY <1>1, <4>1
      <3> QED  BY <3>1, <3>2 DEF LifeInv, Finished
    <2>5. CallInv(h)'
      <3>1. Busy(h) => pid[h] \in Pids
        BY <2>1, <2>2 DEF HInv, OwnInv, Live
      <3>2. ASSUME syscall[h] \in {"signal_leader", "signal_group"} PROVE
                /\ Mine(h)' /\ Process(h)'.leader # "reaped"
                /\ syscall[h] = "signal_group" => Process(h)'.leader = "zombie"
        <4>1. /\ Mine(h) /\ Process(h).leader # "reaped"
              /\ syscall[h] = "signal_group" => Process(h).leader = "zombie"
          BY <2>1, <3>2 DEF HInv, CallInv
        <4> QED  BY <1>1, <3>1, <3>2, <4>1 DEF Mine, Process, Busy
      <3> QED  BY <2>1, <3>2 DEF HInv, CallInv
    <2> QED  BY <2>3, <2>4, <2>5 DEF HInv
  <1> QED  BY <1>0, <1>2, <1>3 DEF VInv

LEMMA OthersStep == VInv /\ Others => VInv'
  <1> SUFFICES ASSUME VInv, Others PROVE VInv'
    OBVIOUS
  <1>0. TypeOK /\ UNCHANGED <<pid, lifecycle, call, syscall, stray, excused>>
    BY DEF VInv, Others
  <1>1. PICK p \in Pids :
          \/ setsid(p) \/ LeaderExits(p) \/ LeaderDies(p)
          \/ WorkerForked(p) \/ WorkerExits(p) \/ StrangerStarts(p) \/ Stolen(p)
    BY DEF Others
  <1>2. processes[p] \in Processes /\ PInv(p)
    BY <1>0 DEF TypeOK, Processes, VInv
  <1> USE DEF SetProcess
  <1>3. CASE setsid(p)
    <2> DEFINE q == [processes[p] EXCEPT !.leader = "running"]
    <2>1. /\ q \in Processes /\ q.leader = "running" /\ q.owner = processes[p].owner
          /\ processes[p].leader = "setup" /\ processes' = [processes EXCEPT ![p] = Settled(q)]
      BY <1>2, <1>3 DEF setsid, Processes
    <2>2. processes[p].owner # Nothing
      BY <1>2, <2>1 DEF PInv, Free
    <2> HIDE DEF q
    <2>3. Settled(q) = q
      BY <2>1, SettledFacts
    <2> QED  BY <1>0, <2>1, <2>2, <2>3, TableStep
  <1>4. CASE LeaderExits(p) \/ LeaderDies(p)
    <2> DEFINE q == [processes[p] EXCEPT !.leader =
                        IF processes[p].owner \in Handles THEN "zombie" ELSE "reaped"]
    <2>1. /\ q \in Processes /\ q.owner = processes[p].owner /\ q.workers = processes[p].workers
          /\ q.leader = IF processes[p].owner \in Handles THEN "zombie" ELSE "reaped"
          /\ processes[p].leader \in {"setup", "running", "killed"}
          /\ processes' = [processes EXCEPT ![p] = Settled(q)]
      BY <1>2, <1>4 DEF LeaderExits, LeaderDies, LeaderEnds, Processes
    <2>2. processes[p].owner # Nothing
      BY <1>2, <2>1 DEF PInv, Free
    <2> HIDE DEF q
    <2>3. /\ Settled(q) \in Processes
          /\ processes[p].owner \in Handles => Settled(q) = q
          /\ Settled(q).leader = "reaped" /\ Settled(q).workers = 0 => Settled(q) = Free
          /\ Settled(q).owner = Nothing => Settled(q) = Free
          /\ Settled(q).owner \in {processes[p].owner, Nothing}
      BY <2>1, <2>2, SettledFacts
    <2> QED  BY <1>0, <2>1, <2>3, TableStep
  <1>5. CASE WorkerForked(p)
    <2> DEFINE q == [processes[p] EXCEPT !.workers = @ + 1]
    <2>1. /\ q \in Processes /\ q.owner = processes[p].owner /\ q.leader = processes[p].leader
          /\ q.workers = processes[p].workers + 1 /\ processes' = [processes EXCEPT ![p] = Settled(q)]
          /\ processes[p].workers \in Nat
          /\ processes[p].leader = "running" \/ processes[p].workers > 0
      BY <1>2, <1>5 DEF WorkerForked, Processes
    <2>2. processes[p].owner # Nothing
      BY <1>2, <2>1 DEF PInv, Free
    <2> HIDE DEF q
    <2>3. Settled(q) = q
      BY <2>1, SettledFacts
    <2>4. processes' = [processes EXCEPT ![p] = q] /\ q \in Processes
      BY <2>1, <2>3
    <2>5. ~(processes[p].leader = "zombie" /\ processes[p].workers = 0) /\ q.workers # 0
      BY <2>1
    <2>6. q.owner = processes[p].owner /\ q.leader = processes[p].leader
      BY <2>1
    <2> QED  BY <1>0, <2>2, <2>4, <2>5, <2>6, TableStep
  <1>6. CASE WorkerExits(p)
    <2> DEFINE q == [processes[p] EXCEPT !.workers = @ - 1]
    <2>1. /\ q \in Processes /\ q.owner = processes[p].owner /\ q.leader = processes[p].leader
          /\ processes' = [processes EXCEPT ![p] = Settled(q)]
          /\ processes[p].workers > 0
      BY <1>2, <1>6 DEF WorkerExits, Processes
    <2>2. processes[p].owner # Nothing
      BY <1>2, <2>1 DEF PInv, Free
    <2> HIDE DEF q
    <2>3. /\ Settled(q) \in Processes
          /\ Settled(q) = q \/ (Settled(q) = Free /\ q.leader = "reaped")
          /\ Settled(q).leader = "reaped" /\ Settled(q).workers = 0 => Settled(q) = Free
          /\ Settled(q).owner = Nothing => Settled(q) = Free
          /\ Settled(q).owner \in {processes[p].owner, Nothing}
      BY <2>1, <2>2, SettledFacts
    <2>4. processes[p].leader # "reaped" => Settled(q) = q
      BY <2>1, <2>3
    <2>5. ~(processes[p].leader = "zombie" /\ processes[p].workers = 0)
      BY <1>2, <2>1 DEF Processes
    <2>6. Settled(q).leader = processes[p].leader
      BY <2>1, <2>3 DEF Free
    <2> QED  BY <1>0, <2>1, <2>3, <2>4, <2>5, <2>6, TableStep
  <1>7. CASE StrangerStarts(p)
    <2> DEFINE q == [owner |-> Stranger, leader |-> "running", workers |-> 0]
    <2>1. /\ q \in Processes /\ q.owner = Stranger /\ q.leader = "running"
          /\ processes[p].owner = Nothing /\ processes' = [processes EXCEPT ![p] = Settled(q)]
      BY <1>2, <1>7 DEF StrangerStarts, Processes, Free
    <2> HIDE DEF q
    <2>2. Settled(q) = q
      BY <2>1, SettledFacts
    <2>3. q.owner \notin Handles /\ q.owner # Nothing /\ processes[p].owner \notin Handles
      BY <2>1
    <2>4. processes' = [processes EXCEPT ![p] = q]
      BY <2>1, <2>2
    <2>5. q \in Processes /\ q.leader # "reaped"
      BY <2>1
    <2> QED  BY <1>0, <2>3, <2>4, <2>5, TableStep
  <1>8. CASE Stolen(p)
    <2> DEFINE q == [processes[p] EXCEPT !.leader = "reaped"]
    <2>1. /\ q \in Processes /\ q.owner = processes[p].owner /\ q.leader = "reaped"
          /\ q.workers = processes[p].workers
          /\ processes[p].leader = "zombie" /\ processes' = [processes EXCEPT ![p] = Settled(q)]
          /\ syscall[processes[p].owner] \notin {"signal_leader", "signal_group"}
      BY <1>2, <1>8 DEF Stolen, Processes
    <2>2. processes[p].owner # Nothing
      BY <1>2, <2>1 DEF PInv, Free
    <2> HIDE DEF q
    <2>3. /\ Settled(q) \in Processes
          /\ Settled(q) = q \/ Settled(q) = Free
          /\ Settled(q).leader = "reaped" /\ Settled(q).workers = 0 => Settled(q) = Free
          /\ Settled(q).owner = Nothing => Settled(q) = Free
          /\ Settled(q).owner \in {processes[p].owner, Nothing}
          /\ processes[p].workers = 0 => Settled(q) = Free
      BY <2>1, <2>2, SettledFacts
    <2>4. Settled(q).leader = "reaped"
      BY <2>1, <2>3 DEF Free
    <2> QED  BY <1>0, <2>1, <2>3, <2>4, TableStep
  <1> QED  BY <1>1, <1>3, <1>4, <1>5, <1>6, <1>7, <1>8

----------------------------------------------------------------------------
(* Steps of the handles                                                     *)

(* The child that a wait reports is the handle's own.                       *)
LEMMA ChildIsMine ==
    ASSUME VInv, NEW h \in Handles, Live(h), IsChild(h)
    PROVE  Mine(h)
  BY DEF VInv, HInv, OwnInv, IsChild

(* A live handle has a number and its process a type.                       *)
LEMMA LiveFacts ==
    ASSUME VInv, NEW h \in Handles, Live(h)
    PROVE  /\ pid[h] \in Pids /\ Process(h) \in Processes
           /\ lifecycle[h] \in {"Owned", "ExitObserved", "GroupSignaled"}
           /\ \A p \in Pids : processes[p].owner = h => p = pid[h]
  <1>1. TypeOK /\ HInv(h) /\ \A p \in Pids : PInv(p)
    BY DEF VInv
  <1>2. pid[h] \in Pids
    BY <1>1 DEF TypeOK, HInv, OwnInv, Live
  <1>3. lifecycle[h] \in {"Owned", "ExitObserved", "GroupSignaled"}
    BY <1>1 DEF TypeOK, Live
  <1> QED  BY <1>1, <1>2, <1>3 DEF TypeOK, Process, Processes, PInv

(* A call that changes neither the process nor what is known of it.         *)
LEMMA SameLife ==
    ASSUME VInv, NEW h \in Handles, UNCHANGED <<processes, pid, lifecycle, stray>>,
           NEW c, syscall' = [syscall EXCEPT ![h] = c], TypeOK',
           \A g \in Handles \ {h} :
               call'[g] = call[g] /\ (g \in excused') = (g \in excused),
           c \notin {"idle", "dropped"} => Live(h),
           CallInv(h)'
    PROVE  VInv'
  <1>1. TypeOK /\ HInv(h)
    BY DEF VInv
  <1>2. \A g \in Handles : syscall'[g] = IF g = h THEN c ELSE syscall[g]
    BY <1>1 DEF TypeOK
  <1>3. OwnInv(h)' /\ LifeInv(h)'
    BY <1>1, <1>2 DEF HInv, OwnInv, LifeInv, Live, Busy, Mine, Process
  <1> QED  BY <1>2, <1>3, Frame DEF HInv

(* A wait that finds no child: nothing of the handle is left but workers.   *)
LEMMA LoseStep ==
    ASSUME VInv, NEW h \in Handles, Live(h), Lose(h), UNCHANGED <<processes, pid, call, stray, excused>>
    PROVE  VInv'
  <1>1. TypeOK /\ HInv(h) /\ pid[h] \in Pids
    BY LiveFacts DEF VInv
  <1> DEFINE c == IF call[h] \in {"drop", "drop_failed"} THEN "dropped" ELSE "idle"
  <1>2. /\ lifecycle' = [lifecycle EXCEPT ![h] = "Lost"] /\ syscall' = [syscall EXCEPT ![h] = c]
        /\ c \in {"dropped", "idle"} /\ ~IsChild(h)
    BY DEF Lose, Becomes, Return, NextCall
  <1> HIDE DEF c
  <1>3. TypeOK'
    BY <1>1, <1>2 DEF TypeOK, Finished
  <1>4. /\ lifecycle'[h] = "Lost" /\ syscall'[h] = c
        /\ \A g \in Handles \ {h} : lifecycle'[g] = lifecycle[g] /\ syscall'[g] = syscall[g]
    BY <1>1, <1>2 DEF TypeOK
  <1>5. OwnInv(h)'
    BY <1>1, <1>2, <1>4 DEF HInv, OwnInv, Live, Busy, Finished
  <1>6. LifeInv(h)'
    <2>1. \A p \in Pids : processes[p].owner = h => processes[p].leader = "reaped"
      BY <1>2, LiveFacts DEF IsChild, Process
    <2> QED  BY <1>4, <2>1 DEF LifeInv, Finished
  <1>7. CallInv(h)'
    BY <1>1, <1>2, <1>4 DEF HInv, CallInv, Finished
  <1> QED  BY <1>3, <1>4, <1>5, <1>6, <1>7, Frame DEF HInv

(* A wait that sees the leader's exit.                                      *)
LEMMA ExitStep ==
    ASSUME VInv, NEW h \in Handles, Live(h), Exited(h),
           Becomes(h, "ExitObserved"), NextCall(h, "signal_group"),
           UNCHANGED <<processes, pid, call, stray, excused>>
    PROVE  VInv'
  <1>1. TypeOK /\ HInv(h) /\ pid[h] \in Pids
    BY LiveFacts DEF VInv
  <1>2. /\ lifecycle' = [lifecycle EXCEPT ![h] = "ExitObserved"]
        /\ syscall' = [syscall EXCEPT ![h] = "signal_group"]
    BY DEF Becomes, NextCall
  <1>3. TypeOK'
    BY <1>1, <1>2 DEF TypeOK
  <1>4. /\ lifecycle'[h] = "ExitObserved" /\ syscall'[h] = "signal_group"
        /\ \A g \in Handles \ {h} : lifecycle'[g] = lifecycle[g] /\ syscall'[g] = syscall[g]
    BY <1>1, <1>2 DEF TypeOK
  <1>5. Mine(h) /\ Process(h).leader = "zombie"
    BY ChildIsMine DEF Exited
  <1>6. HInv(h)'
    BY <1>1, <1>4, <1>5
    DEF HInv, OwnInv, LifeInv, CallInv, Live, Busy, Finished, Mine, Process
  <1> QED  BY <1>3, <1>4, <1>6, Frame

LEMMA HandleStep == ASSUME VInv, NEW h \in Handles,
                           \/ \E p \in Pids : spawn(h, p)
                           \/ \E c \in {"state", "kill", "drop"} : Begin(h, c)
                           \/ Step(h)
                           \/ observe_interrupted(h)
                           \/ reap_interrupted(h)
                    PROVE  VInv'
  <1>0. TypeOK /\ HInv(h)
    BY DEF VInv
  <1>1. Busy(h) => Live(h)
    BY <1>0 DEF HInv, OwnInv
  <1>2. ASSUME NEW p \in Pids, spawn(h, p) PROVE VInv'
    <2> DEFINE q == [owner |-> h, leader |-> "setup", workers |-> 0]
    <2>1. q \in Processes /\ q.owner = h /\ q.leader = "setup"
      BY DEF Processes
    <2>2. Settled(q) = q
      BY <2>1, SettledFacts
    <2>3. /\ processes' = [processes EXCEPT ![p] = q] /\ processes[p] = Free
          /\ lifecycle[h] = "Unborn" /\ lifecycle' = [lifecycle EXCEPT ![h] = "Owned"]
          /\ pid' = [pid EXCEPT ![h] = p]
          /\ \A g \in Handles : pid[g] = p => lifecycle[g] \in Finished
          /\ UNCHANGED <<call, syscall, stray, excused>>
      BY <1>2, <2>2 DEF spawn, SetProcess, Becomes
    <2> HIDE DEF q
    <2>4. TypeOK'
      BY <1>0, <2>1, <2>3 DEF TypeOK, Processes
    <2>5. \A k \in Pids : processes'[k] = IF k = p THEN q ELSE processes[k]
      BY <1>0, <2>3 DEF TypeOK
    <2>6. \A g \in Handles : /\ lifecycle'[g] = IF g = h THEN "Owned" ELSE lifecycle[g]
                             /\ pid'[g] = IF g = h THEN p ELSE pid[g]
      BY <1>0, <2>3 DEF TypeOK
    <2>7. pid[h] = Nothing /\ \A k \in Pids : processes[k].owner # h
      <3>1. pid[h] = Nothing
        BY <1>0, <2>3 DEF HInv, OwnInv
      <3> QED  BY <3>1 DEF VInv, PInv
    <2>8. ASSUME NEW k \in Pids PROVE PInv(k)'
      <3>1. PInv(k)
        BY DEF VInv
      <3>2. k = p => processes'[k] = q
        BY <2>5
      <3> QED  BY <2>1, <2>5, <2>6, <2>7, <3>1, <3>2 DEF PInv
    <2>9. ASSUME NEW g \in Handles, g # h PROVE HInv(g)'
      <3>1. HInv(g)
        BY DEF VInv
      <3>2. pid'[g] = pid[g] /\ lifecycle'[g] = lifecycle[g] /\ (Live(g) => pid[g] \in Pids \ {p})
        BY <1>0, <2>3, <2>6, <2>9, <3>1 DEF HInv, OwnInv, Live, TypeOK
      <3>3. OwnInv(g)'
        BY <2>3, <2>5, <3>1, <3>2 DEF HInv, OwnInv, Live, Busy, Mine, Process
      <3>4. LifeInv(g)'
        BY <2>1, <2>3, <2>5, <2>9, <3>1, <3>2 DEF HInv, LifeInv, Live, Mine, Process, Finished
      <3>5. CallInv(g)'
        BY <2>3, <2>5, <3>1, <3>2 DEF HInv, OwnInv, CallInv, Busy, Mine, Process
      <3> QED  BY <3>3, <3>4, <3>5 DEF HInv
    <2>10. HInv(h)'
      <3>1. syscall[h] \in {"idle", "dropped"} /\ syscall[h] \notin {"observe_again", "signal_leader", "signal_group", "reap", "reap_after_group_failure"}
        BY <1>1, <2>3 DEF Busy, Live
      <3>2. syscall[h] = "dropped" => h \in excused
        BY <1>0, <2>3 DEF HInv, CallInv, Finished
      <3>3. lifecycle'[h] = "Owned" /\ pid'[h] = p /\ processes'[p] = q /\ syscall'[h] = syscall[h]
        BY <2>3, <2>5, <2>6
      <3>4. OwnInv(h)'
        BY <2>1, <3>1, <3>3 DEF OwnInv, Live, Busy, Mine, Process, Finished
      <3>5. LifeInv(h)'
        BY <3>3 DEF LifeInv, Finished
      <3>6. CallInv(h)'
        BY <1>0, <2>3, <3>1, <3>2, <3>3 DEF HInv, CallInv
      <3> QED  BY <3>4, <3>5, <3>6 DEF HInv
    <2> QED  BY <2>3, <2>4, <2>8, <2>9, <2>10 DEF VInv
  <1>3. ASSUME NEW c \in {"state", "kill", "drop"}, Begin(h, c) PROVE VInv'
    <2> DEFINE d == IF lifecycle[h] \in Finished THEN "dropped" ELSE First(h)
    <2>1. /\ UNCHANGED <<processes, pid, lifecycle, stray>> /\ syscall' = [syscall EXCEPT ![h] = d]
          /\ call' = [call EXCEPT ![h] = c] /\ excused' = excused \ {h}
          /\ lifecycle[h] # "Unborn"
      BY <1>3 DEF Begin, NextCall
    <2>2. /\ lifecycle[h] \in Finished => d = "dropped"
          /\ lifecycle[h] \notin Finished => d = "observe" \/ (d = "reap" /\ lifecycle[h] = "GroupSignaled")
      BY DEF First
    <2> HIDE DEF d
    <2>3. TypeOK'
      BY <1>0, <2>1, <2>2 DEF TypeOK
    <2>4. /\ syscall'[h] = d /\ call'[h] = c /\ h \notin excused'
          /\ \A g \in Handles \ {h} : call'[g] = call[g] /\ (g \in excused') = (g \in excused)
      BY <1>0, <2>1 DEF TypeOK
    <2>5. CallInv(h)'
      BY <2>1, <2>2, <2>4 DEF CallInv
    <2>6. d \notin {"idle", "dropped"} => Live(h)
      BY <2>1, <2>2 DEF Live
    <2> QED  BY <2>1, <2>3, <2>4, <2>5, <2>6, SameLife
  (* Calls that end with an error, or go on, with nothing learned.          *)
  <1>4. ASSUME Busy(h), UNCHANGED <<processes, pid, lifecycle, call, stray>>, Return(h),
               \/ excused' = excused \cup {h}
               \/ excused' = excused /\ call[h] # "drop"
        PROVE  VInv'
    <2> DEFINE d == IF call[h] \in {"drop", "drop_failed"} THEN "dropped" ELSE "idle"
    <2>1. syscall' = [syscall EXCEPT ![h] = d] /\ d \in {"dropped", "idle"}
      BY <1>4 DEF Return, NextCall
    <2>2. d = "dropped" => call[h] \in {"drop", "drop_failed"}
      OBVIOUS
    <2> HIDE DEF d
    <2>3. TypeOK' /\ syscall'[h] = d
      BY <1>0, <1>4, <2>1 DEF TypeOK
    <2>4. CallInv(h)'
      BY <1>0, <1>4, <2>1, <2>2, <2>3 DEF HInv, CallInv
    <2>5. \A g \in Handles \ {h} : call'[g] = call[g] /\ (g \in excused') = (g \in excused)
      BY <1>4
    <2>6. UNCHANGED <<processes, pid, lifecycle, stray>>
      BY <1>4
    <2> QED  BY <2>1, <2>3, <2>4, <2>5, <2>6, SameLife
  <1>5. CASE observe(h)
    <2>1. Busy(h) /\ Live(h) /\ UNCHANGED <<processes, pid, call, stray, excused>>
      BY <1>1, <1>5 DEF observe, Busy
    <2>2. CASE Exited(h) /\ Becomes(h, "ExitObserved") /\ NextCall(h, "signal_group")
      BY <2>1, <2>2, ExitStep
    <2>3. CASE StillRuns(h) /\ UNCHANGED lifecycle /\ Return(h)
               /\ (call[h] = "state" \/ syscall[h] = "observe_again")
      <3>1. call[h] # "drop"
        BY <1>0, <2>3 DEF HInv, CallInv
      <3> QED  BY <1>4, <2>1, <2>3, <3>1
    <2>4. CASE StillRuns(h) /\ UNCHANGED lifecycle /\ NextCall(h, "signal_leader")
               /\ ~(call[h] = "state" \/ syscall[h] = "observe_again")
      <3>1. /\ Mine(h) /\ Process(h).leader # "reaped" /\ Process(h).leader # "zombie"
            /\ lifecycle[h] # "GroupSignaled"
        BY <1>0, <2>1, <2>4, ChildIsMine DEF StillRuns, IsChild, HInv, LifeInv
      <3>2. TypeOK' /\ syscall' = [syscall EXCEPT ![h] = "signal_leader"] /\ syscall'[h] = "signal_leader"
        BY <1>0, <2>1, <2>4 DEF TypeOK, NextCall
      <3>3. CASE call[h] \in {"kill", "drop"}
        <4>1. CallInv(h)'
          BY <1>0, <2>1, <2>4, <3>1, <3>2, <3>3 DEF HInv, CallInv, Mine, Process
        <4> QED  BY <2>1, <2>4, <3>2, <4>1, SameLife
      <3>4. syscall[h] = "observe" /\ call[h] \in {"kill", "drop"}
        BY <1>0, <1>5, <2>4 DEF observe, HInv, CallInv, TypeOK
      <3> QED  BY <3>3, <3>4
    <2>5. CASE Lose(h)
      BY <2>1, <2>5, LoseStep
    <2> QED  BY <1>5, <2>2, <2>3, <2>4, <2>5 DEF observe
  <1>6. CASE observe_interrupted(h)
    BY <1>4, <1>6 DEF observe_interrupted, Excuse, Busy
  <1>7. CASE reap_interrupted(h)
    BY <1>4, <1>7 DEF reap_interrupted, Excuse, Busy
  <1>8. CASE leader_signal_fails(h)
    <2>1. /\ Busy(h) /\ Live(h) /\ UNCHANGED <<processes, pid, lifecycle, stray>>
          /\ excused' = excused \cup {h}
      BY <1>1, <1>8 DEF leader_signal_fails, Busy, Excuse
    <2>2. CASE Return(h) /\ UNCHANGED call
      BY <1>4, <2>1, <2>2
    <2>3. CASE NextCall(h, "observe_again") /\ call' = [call EXCEPT ![h] = "drop_failed"]
      <3>1. /\ TypeOK' /\ syscall' = [syscall EXCEPT ![h] = "observe_again"] /\ syscall'[h] = "observe_again"
            /\ call'[h] = "drop_failed" /\ h \in excused'
            /\ \A g \in Handles \ {h} : call'[g] = call[g] /\ (g \in excused') = (g \in excused)
        BY <1>0, <2>1, <2>3 DEF TypeOK, NextCall
      <3>2. CallInv(h)'
        BY <3>1 DEF CallInv
      <3> QED  BY <2>1, <3>1, <3>2, SameLife
    <2> QED  BY <1>8, <2>2, <2>3 DEF leader_signal_fails
  <1>9. CASE wait_for_leader(h)
    <2>1. Busy(h) /\ Live(h) /\ UNCHANGED <<processes, pid, call, stray, excused>>
      BY <1>1, <1>9 DEF wait_for_leader, Busy
    <2> QED  BY <1>9, <2>1, ExitStep, LoseStep DEF wait_for_leader
  <1>10. CASE signal_leader(h)
    <2>1. /\ Live(h) /\ Mine(h) /\ Process(h) \in Processes /\ Process(h).leader # "reaped"
          /\ lifecycle[h] # "GroupSignaled" /\ pid[h] \in Pids
      BY <1>0, <1>1, <1>10, LiveFacts DEF signal_leader, HInv, CallInv, Busy
    <2> DEFINE q == [Process(h) EXCEPT !.leader =
                        IF @ \in {"setup", "running"} THEN "killed" ELSE @]
    <2>2. /\ q \in Processes /\ q.owner = h /\ q.leader # "reaped"
          /\ Process(h).leader = "zombie" => q.leader = "zombie"
      BY <2>1 DEF Processes, Mine
    <2>3. /\ processes' = [processes EXCEPT ![pid[h]] = Settled(q)]
          /\ syscall' = [syscall EXCEPT ![h] = "wait_for_leader"]
          /\ UNCHANGED <<pid, lifecycle, call, excused>>
          /\ stray' = (stray \/ Strikes(h))
      BY <1>10 DEF signal_leader, SetProcess, NextCall
    <2>4. UNCHANGED stray
      <3>1. ~Strikes(h)
        BY <2>1 DEF Strikes, Mine
      <3>2. stray = FALSE
        BY DEF VInv, TypeOK
      <3>3. stray' = FALSE
        BY <2>3, <3>1, <3>2
      <3> QED  BY <3>2, <3>3
    <2> HIDE DEF q
    <2>5. processes' = [processes EXCEPT ![pid[h]] = q]
      BY <2>2, <2>3, SettledFacts
    <2>6. TypeOK' /\ syscall'[h] = "wait_for_leader" /\ \A g \in Handles \ {h} : syscall'[g] = syscall[g]
      BY <1>0, <2>1, <2>2, <2>3, <2>4, <2>5 DEF TypeOK, Processes
    <2>7. Process(h)' = q
      BY <1>0, <2>1, <2>3, <2>5 DEF Process, TypeOK
    <2>8. OwnInv(h)' /\ CallInv(h)'
      BY <1>0, <2>1, <2>2, <2>3, <2>6, <2>7 DEF HInv, OwnInv, CallInv, Live, Busy, Mine
    <2>9. LifeInv(h)'
      BY <1>0, <2>1, <2>2, <2>3, <2>7 DEF HInv, LifeInv, Live, Mine, Finished
    <2>10. q.owner \in {h, Nothing} /\ q.owner # Nothing /\ UNCHANGED <<pid, stray>>
      BY <2>2, <2>3, <2>4
    <2>11. HInv(h)' /\ TypeOK'
      BY <2>6, <2>8, <2>9 DEF HInv
    <2>12. q \in Processes /\ q.leader # "reaped"
      BY <2>2
    <2>13. \A g \in Handles \ {h} :
              /\ lifecycle'[g] = lifecycle[g] /\ syscall'[g] = syscall[g] /\ call'[g] = call[g]
              /\ (g \in excused') = (g \in excused)
      BY <2>3, <2>6
    <2> QED  BY <2>1, <2>5, <2>10, <2>11, <2>12, <2>13, FrameOwn
  <1>11. CASE signal_group(h)
    <2>1. /\ Live(h) /\ Mine(h) /\ Process(h) \in Processes /\ Process(h).leader = "zombie"
          /\ pid[h] \in Pids
      BY <1>0, <1>1, <1>11, LiveFacts DEF signal_group, HInv, CallInv, Busy
    <2> DEFINE q == [Process(h) EXCEPT !.workers = 0]
    <2>2. q \in Processes /\ q.owner = h /\ q.leader = "zombie" /\ q.workers = 0
      BY <2>1 DEF Processes, Mine
    <2>3. /\ processes' = [processes EXCEPT ![pid[h]] = Settled(q)]
          /\ syscall' = [syscall EXCEPT ![h] = "reap"]
          /\ lifecycle' = [lifecycle EXCEPT ![h] = "GroupSignaled"]
          /\ UNCHANGED <<pid, call, excused>>
          /\ stray' = (stray \/ Strikes(h))
      BY <1>11 DEF signal_group, SetProcess, NextCall, Becomes
    <2>4. UNCHANGED stray
      <3>1. ~Strikes(h)
        BY <2>1 DEF Strikes, Mine
      <3>2. stray = FALSE
        BY DEF VInv, TypeOK
      <3>3. stray' = FALSE
        BY <2>3, <3>1, <3>2
      <3> QED  BY <3>2, <3>3
    <2> HIDE DEF q
    <2>5. processes' = [processes EXCEPT ![pid[h]] = q]
      BY <2>2, <2>3, SettledFacts
    <2>6. /\ TypeOK' /\ syscall'[h] = "reap" /\ lifecycle'[h] = "GroupSignaled"
          /\ \A g \in Handles \ {h} : syscall'[g] = syscall[g] /\ lifecycle'[g] = lifecycle[g]
      BY <1>0, <2>1, <2>2, <2>3, <2>4, <2>5 DEF TypeOK, Processes
    <2>7. Process(h)' = q
      BY <1>0, <2>1, <2>3, <2>5 DEF Process, TypeOK
    <2>8. OwnInv(h)' /\ CallInv(h)'
      BY <1>0, <2>1, <2>2, <2>3, <2>6, <2>7
      DEF HInv, OwnInv, CallInv, Live, Busy, Mine, Finished
    <2>9. LifeInv(h)'
      BY <2>2, <2>6, <2>7 DEF LifeInv, Finished
    <2>10. q.owner \in {h, Nothing} /\ q.owner # Nothing /\ UNCHANGED <<pid, stray>>
      BY <2>2, <2>3, <2>4
    <2>11. HInv(h)' /\ TypeOK'
      BY <2>6, <2>8, <2>9 DEF HInv
    <2>12. q \in Processes /\ q.leader # "reaped"
      BY <2>2
    <2>13. \A g \in Handles \ {h} :
              /\ lifecycle'[g] = lifecycle[g] /\ syscall'[g] = syscall[g] /\ call'[g] = call[g]
              /\ (g \in excused') = (g \in excused)
      BY <2>3, <2>6
    <2> QED  BY <2>1, <2>5, <2>10, <2>11, <2>12, <2>13, FrameOwn
  <1>12. CASE group_signal_fails(h)
    <2>1. /\ Busy(h) /\ Live(h) /\ Mine(h) /\ UNCHANGED <<processes, pid, call, stray, excused>>
          /\ Process(h).leader = "zombie" /\ lifecycle[h] = "ExitObserved"
      BY <1>0, <1>1, <1>12 DEF group_signal_fails, HInv, CallInv, Busy
    <2>2. CASE Process(h).workers = 0 /\ Becomes(h, "GroupSignaled") /\ NextCall(h, "reap")
      <3>1. /\ TypeOK' /\ syscall'[h] = "reap" /\ lifecycle'[h] = "GroupSignaled"
            /\ \A g \in Handles \ {h} : syscall'[g] = syscall[g] /\ lifecycle'[g] = lifecycle[g]
        BY <1>0, <2>1, <2>2 DEF TypeOK, NextCall, Becomes
      <3>2. HInv(h)'
        BY <1>0, <2>1, <2>2, <3>1
        DEF HInv, OwnInv, LifeInv, CallInv, Live, Busy, Mine, Process, Finished
      <3> QED  BY <2>1, <3>1, <3>2, Frame
    <2>3. CASE Return(h) /\ UNCHANGED lifecycle /\ call[h] \in {"state", "kill"}
      BY <1>4, <2>1, <2>3
    <2>4. CASE NextCall(h, "reap_after_group_failure") /\ UNCHANGED lifecycle
      <3>1. /\ TypeOK' /\ syscall'[h] = "reap_after_group_failure"
            /\ syscall' = [syscall EXCEPT ![h] = "reap_after_group_failure"]
        BY <1>0, <2>1, <2>4 DEF TypeOK, NextCall
      <3>2. CallInv(h)'
        BY <1>0, <2>1, <2>4, <3>1 DEF HInv, CallInv
      <3> QED  BY <2>1, <2>4, <3>1, <3>2, SameLife
    <2> QED  BY <1>12, <2>2, <2>3, <2>4 DEF group_signal_fails
  <1>13. ASSUME Live(h), NEW s \in {"Finished", "FinishedGroupFailed"}, Consume(h, s),
                UNCHANGED <<pid, call, stray, excused>>,
                s = "Finished" => lifecycle[h] = "GroupSignaled"
         PROVE  VInv'
    <2> DEFINE q == [Process(h) EXCEPT !.leader = "reaped"]
               d == IF call[h] \in {"drop", "drop_failed"} THEN "dropped" ELSE "idle"
    <2>1. /\ Mine(h) /\ Process(h) \in Processes /\ pid[h] \in Pids
          /\ s = "Finished" => Process(h).workers = 0
      BY <1>0, <1>13, ChildIsMine, LiveFacts DEF Consume, Exited, HInv, LifeInv
    <2>2. q \in Processes /\ q.owner = h /\ q.leader = "reaped" /\ q.workers = Process(h).workers
      BY <2>1 DEF Processes, Mine
    <2>3. /\ processes' = [processes EXCEPT ![pid[h]] = Settled(q)]
          /\ syscall' = [syscall EXCEPT ![h] = d] /\ d \in {"dropped", "idle"}
          /\ lifecycle' = [lifecycle EXCEPT ![h] = s]
      BY <1>13 DEF Consume, SetProcess, Becomes, Return, NextCall
    <2> HIDE DEF q, d
    <2> DEFINE n == Settled(q)
    <2>4. /\ n \in Processes /\ n.owner \in {h, Nothing} /\ n.leader = "reaped"
          /\ n.leader = "reaped" /\ n.workers = 0 => n = Free
          /\ n.owner = Nothing => n = Free
          /\ s = "Finished" => n = Free
      BY <2>1, <2>2, SettledFacts DEF Free
    <2> HIDE DEF n
    <2>5. processes' = [processes EXCEPT ![pid[h]] = n]
      BY <2>3 DEF n
    <2>6. /\ TypeOK' /\ syscall'[h] = d /\ lifecycle'[h] = s
          /\ \A g \in Handles \ {h} : syscall'[g] = syscall[g] /\ lifecycle'[g] = lifecycle[g]
      BY <1>0, <1>13, <2>1, <2>3, <2>4, <2>5 DEF TypeOK, Processes, Finished
    <2>7. \A p \in Pids : processes'[p] = IF p = pid[h] THEN n ELSE processes[p]
      BY <1>0, <2>5 DEF TypeOK
    <2>8. OwnInv(h)'
      BY <1>0, <1>13, <2>3, <2>6 DEF HInv, OwnInv, Live, Busy, Finished
    <2>9. CallInv(h)'
      BY <1>0, <1>13, <2>3, <2>6 DEF HInv, CallInv, Finished
    <2>10. LifeInv(h)'
      <3>1. \A p \in Pids : processes'[p].owner = h => p = pid[h] /\ processes'[p] = n
        BY <1>13, <2>7, LiveFacts
      <3>2. n = Free => n.owner # h
        BY DEF Free
      <3> QED  BY <2>4, <2>6, <3>1, <3>2 DEF LifeInv
    <2>11. HInv(h)' /\ TypeOK'
      BY <2>6, <2>8, <2>9, <2>10 DEF HInv
    <2>12. \A g \in Handles \ {h} :
              /\ lifecycle'[g] = lifecycle[g] /\ syscall'[g] = syscall[g] /\ call'[g] = call[g]
              /\ (g \in excused') = (g \in excused)
      BY <1>13, <2>6
    <2> QED  BY <1>13, <2>1, <2>4, <2>5, <2>11, <2>12, FrameOwn
  <1>14. CASE reap(h)
    <2>1. Live(h) /\ lifecycle[h] = "GroupSignaled" /\ UNCHANGED <<pid, call, stray, excused>>
      BY <1>0, <1>1, <1>14 DEF reap, HInv, CallInv, Busy
    <2> QED  BY <1>13, <1>14, <2>1, LoseStep DEF reap
  <1>15. CASE reap_after_group_failure(h)
    <2>1. Live(h) /\ UNCHANGED <<pid, call, stray, excused>>
      BY <1>1, <1>15 DEF reap_after_group_failure, Busy
    <2> QED  BY <1>13, <1>15, <2>1, LoseStep DEF reap_after_group_failure
  <1> QED
    BY <1>2, <1>3, <1>5, <1>6, <1>7, <1>8, <1>9, <1>10, <1>11, <1>12, <1>14, <1>15 DEF Step

----------------------------------------------------------------------------
(* The theorems                                                             *)

(* The inductive invariant of the handles and the process table.            *)
THEOREM VmmInvariant == ChildSpec => []VInv
  <1>1. VInv /\ [ChildNext]_childVars => VInv'
    <2> SUFFICES ASSUME VInv, [ChildNext]_childVars PROVE VInv'
      OBVIOUS
    <2>1. CASE UNCHANGED childVars
      BY <2>1 DEF childVars, VInv, TypeOK, PInv, HInv, OwnInv, LifeInv, CallInv,
                  Live, Busy, Mine, Process
    <2>2. CASE Others
      BY <2>2, OthersStep
    <2>3. CASE ~Others /\ ChildNext
      <3>1. PICK h \in Handles :
              \/ \E p \in Pids : spawn(h, p)
              \/ \E c \in {"state", "kill", "drop"} : Begin(h, c)
              \/ Step(h)
              \/ observe_interrupted(h)
              \/ reap_interrupted(h)
        BY <2>3 DEF ChildNext
      <3> QED  BY <3>1, HandleStep
    <2> QED  BY <2>1, <2>2, <2>3
  <1> QED  BY <1>1, VmmInit, PTL DEF ChildSpec

(* No call of vmm.rs signals a number that has passed to another process.   *)
THEOREM NeverSignals == ChildSpec => []NeverSignalsAStranger
  <1>1. VInv => NeverSignalsAStranger
    BY DEF VInv, NeverSignalsAStranger
  <1> QED  BY <1>1, VmmInvariant, PTL

(* A handle that finished without a failure has no process left.            *)
THEOREM FinishedIsGone == ChildSpec => []FinishedLeavesNothing
  <1>1. VInv => FinishedLeavesNothing
    BY DEF VInv, HInv, LifeInv, FinishedLeavesNothing
  <1> QED  BY <1>1, VmmInvariant, PTL

(* A drop that was neither interrupted nor refused leaves no zombie.        *)
THEOREM DroppedIsReaped == ChildSpec => []DropReaps
  <1>1. VInv => DropReaps
    BY DEF VInv, HInv, LifeInv, CallInv, DropReaps
  <1> QED  BY <1>1, VmmInvariant, PTL

(* Both ends of a VmmChild: a finished handle and a dropped one.            *)
THEOREM EndedHandles == ChildSpec => []EndsLeaveNothing
  BY FinishedIsGone, DroppedIsReaped, PTL DEF EndsLeaveNothing

HIDE VmmChildAssumption

----------------------------------------------------------------------------
(* Numbers                                                                  *)

(* Every nonempty set of numbers has a least one.                           *)
LEMMA LeastNumber ==
    ASSUME NEW T, T \subseteq Nat, T # {}
    PROVE  Min(T) \in T /\ \A y \in T : Min(T) <= y
<1>1. PICK x \in T : \A y \in T : ~ (<<y, x>> \in OpToRel(<, Nat))
  BY WFMin, NatLessThanWellFounded
<1>2. \A y \in T : x <= y
  <2> SUFFICES ASSUME NEW y \in T, y < x PROVE FALSE
    OBVIOUS
  <2>1. <<y, x>> \in OpToRel(<, Nat)
    BY DEF OpToRel
  <2> QED
    BY <1>1, <2>1
<1> QED
  BY <1>2 DEF Min

----------------------------------------------------------------------------
(* The descriptors                                                          *)

Private(e, l) == [object |-> e, launch |-> l, inherits |-> FALSE]
Inherited(e, l) == [object |-> e, launch |-> l, inherits |-> TRUE]

Entries == [object : Ends \cup {"other", None}, launch : Launches \cup {None}, inherits : BOOLEAN]

Creating == {"diag_pipe", "move_diag_read", "move_diag_write", "recipe_pipe",
             "move_recipe_read", "move_recipe_write", "created"}

Preparing == {"idle", "move_null", "pipes", "preload"} \cup Creating

Tried == {"spawned", "launched", "unforked"}

Past == {"prepared"} \cup Tried

LaunchTypeOK ==
    /\ platform \in Platforms
    /\ table \in [Numbers -> Entries]
    /\ pc \in [Threads -> Preparing \cup Past \cup {"none", "refused"}]
    /\ line \in [Launches -> Nat]
    /\ owned \in [Launches -> [Ends -> Numbers \cup {None}]]
    /\ creating \in Launches \cup {None}
    /\ child \in [Threads -> {"none", "forked", "installed", "closed", "exited"} \cup Executed]
    /\ childTable \in [Threads -> [Numbers -> Entries]]

(* Whether the supervisor has an end of a launch.                           *)
Has(l, e) ==
    \/ e = "null" /\ pc[l] \in ({"move_null", "pipes", "preload", "prepared", "spawned"} \cup Creating)
    \/ /\ e = "diag_read" /\ pc[l] \in ((Creating \ {"diag_pipe"}) \cup {"preload"} \cup Past)
       /\ ~(l = Diagnosed /\ drain = "done")
    \/ e = "diag_write" /\ pc[l] \in ((Creating \ {"diag_pipe"}) \cup {"preload", "prepared", "spawned"})
    \/ /\ e = "recipe_read"
       /\ pc[l] \in {"move_recipe_read", "move_recipe_write", "created", "preload", "prepared", "spawned"}
    \/ e = "recipe_write" /\ pc[l] \in {"move_recipe_read", "move_recipe_write", "created", "preload"}

(* Whether it is where the kernel put it.                                   *)
Unmoved(l, e) ==
    \/ e = "null" /\ pc[l] = "move_null"
    \/ e = "diag_read" /\ pc[l] = "move_diag_read"
    \/ e = "diag_write" /\ pc[l] \in {"move_diag_read", "move_diag_write"}
    \/ e = "recipe_read" /\ pc[l] = "move_recipe_read"
    \/ e = "recipe_write" /\ pc[l] \in {"move_recipe_read", "move_recipe_write"}

(* What the supervisor has is under the number it remembers, above stdio    *)
(* and close-on-exec once it was moved; until then only while the lock is   *)
(* held.                                                                    *)
HasInv(l, e) ==
    Has(l, e) =>
        /\ owned[l][e] \in Numbers
        /\ table[owned[l][e]].object = e /\ table[owned[l][e]].launch = l
        /\ table[owned[l][e]].inherits => Unmoved(l, e) /\ pc[l] \in Creating
        /\ ~Unmoved(l, e) => owned[l][e] >= FirstKept

(* What it does not have it does not remember, as long as a refusal may     *)
(* close what is remembered.                                                *)
LacksInv(l, e) ==
    ~Has(l, e) /\ pc[l] \notin Tried /\ ~(e = "diag_read" /\ pc[l] = "prepared") => owned[l][e] = None

(* Nothing else is open on behalf of a launch.                              *)
TableInv(n) ==
    table[n].launch # None =>
        /\ Has(table[n].launch, table[n].object)
        /\ owned[table[n].launch][table[n].object] = n

LockInv(l) == creating = l <=> pc[l] \in Creating

(* The table a helper is to find.                                           *)
Handed(l) ==
    [n \in Numbers |-> IF n > 3 THEN Closed
                       ELSE Inherited(<<"null", "null", "diag_write", "recipe_read">>[n + 1], l)]

HelperInv(l) ==
    /\ child[l] # "none" => pc[l] \in {"spawned", "launched"}
    /\ pc[l] \in {"spawned", "launched"} => child[l] # "none"
    /\ child[l] \in {"none", "exited"} => childTable[l] = NoTable
    /\ child[l] = "forked" => \A e \in {"null", "diag_write", "recipe_read"} :
          /\ owned[l][e] \in Numbers /\ owned[l][e] >= FirstKept
          /\ childTable[l][owned[l][e]] = Private(e, l)
    /\ child[l] = "installed" => \A n \in {0, 1, 2, 3} : childTable[l][n] = Handed(l)[n]
    /\ child[l] \in {"closed", "running", "reading"} => childTable[l] = Handed(l)
    /\ child[l] = "configured" => childTable[l] = [Handed(l) EXCEPT ![3] = Closed]

CommandInv(t) ==
    /\ pc[t] \in {"idle", "none", "spawned", "unforked"}
    /\ child[t] \in {"none", "exited"} => childTable[t] = NoTable
    /\ child[t] \in {"none", "exited", "forked", "running"}
    /\ child[t] = "none" <=> pc[t] # "spawned"
    /\ \A n \in Numbers :
          childTable[t][n].launch # None => child[t] = "forked" /\ ~childTable[t][n].inherits

SupervisorInv ==
    /\ \A l \in Launches, e \in Ends : HasInv(l, e) /\ LacksInv(l, e)
    /\ \A n \in Numbers : TableInv(n)
    /\ \A l \in Launches : LockInv(l)

ChildrenInv ==
    /\ \A l \in Launches : HelperInv(l)
    /\ \A t \in Commands : CommandInv(t)

(* The reader has a pipe to read.                                           *)
ReaderInv == drain \notin {"off", "none"} => pc[Diagnosed] \in Past

LaunchInv == LaunchTypeOK /\ SupervisorInv /\ ChildrenInv /\ ReaderInv

USE LaunchAssumption, TranscriptAssumption

LEMMA LowestIsFree ==
    ASSUME NEW t, NEW from \in Nat, FreeFrom(t, from) # {}
    PROVE  /\ Lowest(t, from) \in Numbers
           /\ Lowest(t, from) >= from
           /\ t[Lowest(t, from)] = Closed
<1>1. FreeFrom(t, from) \subseteq Nat
  BY DEF FreeFrom, Numbers
<1>2. Lowest(t, from) \in FreeFrom(t, from)
  BY <1>1, LeastNumber DEF Lowest
<1> QED
  BY <1>2 DEF FreeFrom

LEMMA EntriesAreRecords ==
    /\ Closed \in Entries /\ Closed.launch = None /\ NoTable \in [Numbers -> Entries]
    /\ \A e \in Ends, l \in Launches, i \in BOOLEAN :
          [object |-> e, launch |-> l, inherits |-> i] \in Entries
    /\ \A l \in Launches : None # l /\ l \in Threads
BY DEF Closed, Entries, NoTable, Threads

LEMMA MadeInheritable ==
    ASSUME NEW e, NEW l, NEW x, NEW y
    PROVE  [[object |-> e, launch |-> l, inherits |-> x] EXCEPT !.inherits = y]
               = [object |-> e, launch |-> l, inherits |-> y]
BY SMT

LEMMA HandedEntries ==
    ASSUME NEW e \in Ends, NEW l \in Launches
    PROVE  /\ Private(e, l) \in Entries /\ Inherited(e, l) \in Entries
           /\ Private(e, l).launch = l /\ Inherited(e, l).launch = l
           /\ Private(e, l).object = e /\ Inherited(e, l).object = e
           /\ ~Private(e, l).inherits /\ Inherited(e, l).inherits
           /\ [Private(e, l) EXCEPT !.inherits = TRUE] = Inherited(e, l)
<1>1. [Private(e, l) EXCEPT !.inherits = TRUE] = Inherited(e, l)
  BY MadeInheritable, Zenon DEF Private, Inherited
<1>2. /\ Private(e, l) \in Entries /\ Inherited(e, l) \in Entries
      /\ Private(e, l).launch = l /\ Inherited(e, l).launch = l
      /\ Private(e, l).object = e /\ Inherited(e, l).object = e
      /\ ~Private(e, l).inherits /\ Inherited(e, l).inherits
  BY DEF Entries, Private, Inherited
<1> QED
  BY <1>1, <1>2

(* A step of one launch that touches no other's descriptors.                *)
LEMMA OwnStep ==
    ASSUME LaunchTypeOK, SupervisorInv, LaunchTypeOK', NEW l \in Launches,
           \A k \in Launches \ {l} : pc'[k] = pc[k] /\ owned'[k] = owned[k] /\ (creating' = k <=> creating = k),
           drain' = drain \/ l = Diagnosed,
           \A n \in Numbers : table'[n] # table[n] =>
               table[n].launch \in {None, l} /\ table'[n].launch \in {None, l},
           \A e \in Ends : HasInv(l, e)' /\ LacksInv(l, e)',
           \A n \in Numbers : table'[n].launch = l => TableInv(n)',
           LockInv(l)'
    PROVE  SupervisorInv'
<1>1. \A k \in Launches \ {l}, e \in Ends \cup {"other", None} :
          (Has(k, e)' <=> Has(k, e)) /\ (Unmoved(k, e)' <=> Unmoved(k, e))
  BY DEF Has, Unmoved
<1>2. ASSUME NEW k \in Launches \ {l}, NEW e \in Ends PROVE HasInv(k, e)' /\ LacksInv(k, e)'
  <2>1. HasInv(k, e) /\ LacksInv(k, e)
    BY DEF SupervisorInv
  <2>2. ASSUME Has(k, e) PROVE table'[owned[k][e]] = table[owned[k][e]]
    <3>1. owned[k][e] \in Numbers /\ table[owned[k][e]].launch = k
      BY <2>1, <2>2 DEF HasInv
    <3> QED
      BY <3>1, EntriesAreRecords
  <2>3. HasInv(k, e)'
    BY <1>1, <2>1, <2>2 DEF HasInv
  <2>4. LacksInv(k, e)'
    BY <1>1, <2>1 DEF LacksInv
  <2> QED
    BY <2>3, <2>4
<1>3. ASSUME NEW n \in Numbers PROVE TableInv(n)'
  <2>1. TableInv(n)
    BY DEF SupervisorInv
  <2>2. CASE table'[n].launch = l
    BY <2>2
  <2>3. CASE table'[n].launch = None
    BY <2>3 DEF TableInv
  <2>4. CASE table'[n].launch \notin {None, l}
    <3>1. table'[n] = table[n]
      BY <2>4
    <3>2. table[n].launch \in Launches \ {l} /\ table[n].object \in Ends \cup {"other", None}
      BY <3>1, <2>4 DEF LaunchTypeOK, Entries
    <3> QED
      BY <1>1, <2>1, <3>1, <3>2 DEF TableInv
  <2> QED
    BY <2>2, <2>3, <2>4
<1>4. ASSUME NEW k \in Launches PROVE LockInv(k)'
  BY DEF SupervisorInv, LockInv
<1> QED
  BY <1>2, <1>3, <1>4 DEF SupervisorInv

(* A launch that has closed everything it had.                              *)
LEMMA RefuseKeeps ==
    ASSUME LaunchTypeOK, SupervisorInv, NEW l \in Launches, pc[l] \in Preparing,
           Refuse(l), drain' = drain, ReaderInv,
           UNCHANGED <<platform, line, child, childTable>>
    PROVE  LaunchTypeOK' /\ SupervisorInv'
<1>1. LaunchTypeOK'
  BY EntriesAreRecords DEF LaunchTypeOK, Refuse, DropEnds, Goto, Preparing, Past, Ends, Threads
<1>2. pc'[l] = "refused" /\ \A e \in Ends : owned'[l][e] = None
  BY EntriesAreRecords DEF Refuse, DropEnds, Goto, LaunchTypeOK
<1>3. \A e \in Ends \cup {"other", None} : ~Has(l, e)'
  BY <1>2 DEF Has, Creating, Past, Tried
<1>4. \A e \in Ends : Has(l, e) => owned[l][e] \in Numbers
  BY DEF SupervisorInv, HasInv
<1>5. \A e \in Ends : owned[l][e] # None => Has(l, e)
  BY DEF SupervisorInv, LacksInv, Preparing, Tried, Creating
<1>6. \A n \in Numbers : table'[n] # table[n] => table[n].launch = l /\ table'[n] = Closed
  <2> TAKE n \in Numbers
  <2> HAVE table'[n] # table[n]
  <2>1. PICK e \in Ends : owned[l][e] = n
    BY DEF Refuse, DropEnds
  <2>2. owned[l][e] # None
    BY <2>1
  <2> QED
    BY <2>1, <2>2, <1>5 DEF SupervisorInv, HasInv, Refuse, DropEnds
<1>7. \A n \in Numbers : table'[n].launch # l
  <2> TAKE n \in Numbers
  <2>1. CASE table[n].launch = l
    <3>1. Has(l, table[n].object) /\ owned[l][table[n].object] = n
      BY <2>1, EntriesAreRecords DEF SupervisorInv, TableInv
    <3>2. table[n].object \in Ends
      BY <3>1 DEF Has, Ends
    <3>3. table'[n] = Closed
      BY <3>1, <3>2 DEF Refuse, DropEnds
    <3> QED
      BY <3>3, EntriesAreRecords
  <2>2. CASE table[n].launch # l
    BY <1>6, <2>2, EntriesAreRecords
  <2> QED
    BY <2>1, <2>2
<1>8. \A e \in Ends : HasInv(l, e)' /\ LacksInv(l, e)'
  BY <1>2, <1>3 DEF HasInv, LacksInv
<1>9. LockInv(l)'
  BY <1>2, EntriesAreRecords DEF LockInv, Refuse, Creating
<1>10. \A k \in Launches \ {l} : pc'[k] = pc[k] /\ owned'[k] = owned[k] /\ (creating' = k <=> creating = k)
  BY EntriesAreRecords DEF Refuse, DropEnds, Goto, LaunchTypeOK
<1> QED
  BY <1>1, <1>6, <1>7, <1>8, <1>9, <1>10, OwnStep, EntriesAreRecords

(* A launch that opens a descriptor.                                        *)
LEMMA OpenKeeps ==
    ASSUME LaunchTypeOK, SupervisorInv, NEW l \in Launches, open_null(l), drain' = drain, ReaderInv,
           UNCHANGED <<platform, line, child, childTable>>
    PROVE  LaunchTypeOK' /\ SupervisorInv'
<1>1. CASE Refuse(l)
  BY <1>1, RefuseKeeps DEF open_null, Preparing
<1>2. CASE ~Refuse(l)
  <2> DEFINE n == Lowest(table, 0)
  <2>1. n \in Numbers /\ table[n] = Closed
    BY <1>2, LowestIsFree DEF open_null
  <2> HIDE DEF n
  <2>2. /\ pc[l] = "idle" /\ pc' = [pc EXCEPT ![l] = "move_null"] /\ creating' = creating
        /\ table' = [table EXCEPT ![n] = [object |-> "null", launch |-> l, inherits |-> FALSE]]
        /\ owned' = [owned EXCEPT ![l]["null"] = n]
    BY <1>2 DEF open_null, Opened, Goto, n
  <2>3. LaunchTypeOK'
    BY <2>1, <2>2, EntriesAreRecords DEF LaunchTypeOK, Preparing, Ends
  <2>4. \A k \in Launches \ {l} : pc'[k] = pc[k] /\ owned'[k] = owned[k] /\ (creating' = k <=> creating = k)
    BY <2>2 DEF LaunchTypeOK, Threads
  <2>5. \A m \in Numbers : table'[m] # table[m] => table[m].launch = None /\ table'[m].launch = l /\ m = n
    BY <2>1, <2>2, EntriesAreRecords DEF LaunchTypeOK
  <2>6. \A e \in Ends \cup {"other", None} : (Has(l, e)' <=> e = "null") /\ ~Has(l, e)
    BY <2>2 DEF Has, Creating, Past, Tried, LaunchTypeOK, Threads
  <2>7. \A e \in Ends : HasInv(l, e)' /\ LacksInv(l, e)'
    BY <2>1, <2>2, <2>6 DEF HasInv, LacksInv, SupervisorInv, LaunchTypeOK, Unmoved, Threads, Tried, Ends
  <2>8. \A m \in Numbers : table'[m].launch = l => m = n /\ table'[m].object = "null"
    <3> TAKE m \in Numbers
    <3>1. table[m].launch # l
      BY <2>6, EntriesAreRecords DEF SupervisorInv, TableInv, LaunchTypeOK, Entries
    <3> QED
      BY <2>2, <2>5, <3>1 DEF LaunchTypeOK
  <2>9. LockInv(l)'
    BY <2>2 DEF LockInv, SupervisorInv, Creating, LaunchTypeOK, Threads
  <2>10. ASSUME NEW m \in Numbers, table'[m].launch = l PROVE TableInv(m)'
    BY <2>2, <2>8, <2>10 DEF TableInv, Has, LaunchTypeOK, Ends, Threads
  <2> QED
    BY <2>3, <2>4, <2>5, <2>7, <2>9, <2>10, OwnStep
<1> QED
  BY <1>1, <1>2

(* A launch that moves a descriptor above stdio.                            *)
LEMMA MoveKeeps ==
    ASSUME LaunchTypeOK, SupervisorInv, ReaderInv, drain' = drain,
           NEW l \in Launches, NEW e \in Ends, NEW next \in Preparing,
           pc[l] \in Preparing, moved_above_stdio(l, e, next),
           UNCHANGED <<platform, line, child, childTable>>,
           Has(l, e), next \in Creating <=> pc[l] \in Creating,
           pc' = [pc EXCEPT ![l] = next] =>
               \A f \in Ends \cup {"other", None} :
                   (Has(l, f)' <=> Has(l, f)) /\ (Unmoved(l, f)' <=> Unmoved(l, f) /\ f # e)
    PROVE  LaunchTypeOK' /\ SupervisorInv'
<1>1. CASE Refuse(l)
  BY <1>1, RefuseKeeps
<1>2. CASE ~Refuse(l)
  <2> DEFINE new == Lowest(table, FirstKept)
             old == owned[l][e]
  <2>1. new \in Numbers /\ table[new] = Closed /\ new >= FirstKept
    <3>1. FreeFrom(table, FirstKept) # {}
      BY <1>2 DEF moved_above_stdio
    <3>2. FirstKept \in Nat
      BY DEF Numbers
    <3> QED
      BY <3>1, <3>2, LowestIsFree
  <2>2. old \in Numbers /\ table[old].launch = l /\ table[old].object = e /\ old # new
    BY <2>1, EntriesAreRecords DEF SupervisorInv, HasInv
  <2>3. /\ pc' = [pc EXCEPT ![l] = next] /\ creating' = creating
        /\ table' = [[table EXCEPT ![new] = [object |-> e, launch |-> l, inherits |-> FALSE]]
                        EXCEPT ![old] = Closed]
        /\ owned' = [owned EXCEPT ![l][e] = new]
    BY <1>2 DEF moved_above_stdio, Opened, Goto
  <2> HIDE DEF new, old
  <2>4. LaunchTypeOK'
    BY <2>1, <2>2, <2>3, EntriesAreRecords DEF LaunchTypeOK
  <2>5. \A k \in Launches \ {l} : pc'[k] = pc[k] /\ owned'[k] = owned[k] /\ (creating' = k <=> creating = k)
    BY <2>3 DEF LaunchTypeOK, Threads
  <2>6. /\ \A m \in Numbers \ {old, new} : table'[m] = table[m]
        /\ table'[old] = Closed
        /\ table'[new] = [object |-> e, launch |-> l, inherits |-> FALSE]
    BY <2>1, <2>2, <2>3 DEF LaunchTypeOK
  <2>7. \A m \in Numbers : table'[m] # table[m] => table[m].launch \in {None, l} /\ table'[m].launch \in {None, l}
    BY <2>1, <2>2, <2>6, EntriesAreRecords
  <2>8. owned'[l][e] = new /\ \A f \in Ends \ {e} : owned'[l][f] = owned[l][f]
    BY <2>3 DEF LaunchTypeOK
  <2>9. pc'[l] = next /\ (pc'[l] \in Creating <=> pc[l] \in Creating)
    BY <2>3, EntriesAreRecords DEF LaunchTypeOK
  <2>10. ASSUME NEW f \in Ends PROVE HasInv(l, f)' /\ LacksInv(l, f)'
    <3>1. HasInv(l, f) /\ LacksInv(l, f)
      BY DEF SupervisorInv
    <3>2. (Has(l, f)' <=> Has(l, f)) /\ (Unmoved(l, f)' <=> Unmoved(l, f) /\ f # e)
      BY <2>3
    <3>3. CASE f = e
      BY <3>2, <3>3, <2>1, <2>6, <2>8 DEF HasInv, LacksInv
    <3>4. CASE f # e
      <4>1. Has(l, f) => owned[l][f] \in Numbers \ {old, new}
        BY <3>1, <3>4, <2>1, <2>2, EntriesAreRecords DEF HasInv
      <4>2. HasInv(l, f)'
        BY <4>1, <3>1, <3>2, <3>4, <2>6, <2>8, <2>9 DEF HasInv
      <4>3. LacksInv(l, f)'
        BY <3>1, <3>2, <3>4, <2>8 DEF LacksInv, Preparing, Tried, Creating
      <4> QED
        BY <4>2, <4>3
    <3> QED
      BY <3>3, <3>4
  <2>11. ASSUME NEW m \in Numbers, table'[m].launch = l PROVE TableInv(m)'
    <3>1. m # old
      BY <2>6, <2>11, EntriesAreRecords
    <3>2. CASE m = new
      BY <3>2, <2>3, <2>6, <2>8 DEF TableInv
    <3>3. CASE m # new
      <4>1. table'[m] = table[m] /\ TableInv(m)
        BY <3>1, <3>3, <2>6 DEF SupervisorInv
      <4>2. table[m].object # e /\ table[m].object \in Ends
        BY <4>1, <2>11, <3>1, EntriesAreRecords DEF TableInv, old, Has, Ends
      <4>3. Has(l, table[m].object)
        BY <4>1, <2>11, EntriesAreRecords DEF TableInv
      <4>4. owned[l][table[m].object] = m
        BY <4>1, <2>11, EntriesAreRecords DEF TableInv
      <4>5. \A f \in Ends : Has(l, f) => Has(l, f)'
        BY <2>3
      <4>6. table'[m].object = table[m].object
        BY <4>1
      <4> QED
        BY <4>2, <4>3, <4>4, <4>5, <4>6, <2>8, <2>11 DEF TableInv
    <3> QED
      BY <3>2, <3>3
  <2>12. LockInv(l)'
    BY <2>3, <2>9 DEF LockInv, SupervisorInv
  <2> QED
    BY <2>4, <2>5, <2>7, <2>10, <2>11, <2>12, OwnStep
<1> QED
  BY <1>1, <1>2

(* A launch that makes a pipe.                                              *)
LEMMA PipeKeeps ==
    ASSUME LaunchTypeOK, SupervisorInv, ReaderInv, drain' = drain,
           NEW l \in Launches, NEW r \in Ends, NEW w \in Ends, NEW next \in Creating, r # w,
           pc[l] \in Creating, pipe(l, r, w, next),
           UNCHANGED <<platform, line, child, childTable>>,
           ~Has(l, r), ~Has(l, w),
           pc' = [pc EXCEPT ![l] = next] =>
               \A f \in Ends \cup {"other", None} :
                   /\ Has(l, f)' <=> Has(l, f) \/ f \in {r, w}
                   /\ ~Unmoved(l, f)
                   /\ Unmoved(l, f)' <=> f \in {r, w}
    PROVE  LaunchTypeOK' /\ SupervisorInv'
<1>1. CASE Refuse(l)
  BY <1>1, RefuseKeeps DEF Preparing
<1>2. CASE ~Refuse(l)
  <2> DEFINE i == platform = "darwin"
             n == Lowest(table, 0)
             first == Opened(table, n, r, l, i)
             m == Lowest(first, 0)
  <2>1. n \in Numbers /\ table[n] = Closed
    BY <1>2, LowestIsFree DEF pipe
  <2>2. m \in Numbers /\ first[m] = Closed
    BY <1>2, LowestIsFree DEF pipe
  <2>3. /\ pc' = [pc EXCEPT ![l] = next] /\ creating' = creating
        /\ table' = [first EXCEPT ![m] = [object |-> w, launch |-> l, inherits |-> i]]
        /\ owned' = [owned EXCEPT ![l][r] = n, ![l][w] = m]
    BY <1>2 DEF pipe, Opened, Goto
  <2>4. first = [table EXCEPT ![n] = [object |-> r, launch |-> l, inherits |-> i]]
    BY DEF Opened
  <2>5. i \in BOOLEAN
    OBVIOUS
  <2> HIDE DEF i, n, m, first
  <2>6. m # n /\ table[m] = Closed
    BY <2>1, <2>2, <2>4, EntriesAreRecords DEF LaunchTypeOK
  <2>7. /\ \A x \in Numbers \ {n, m} : table'[x] = table[x]
        /\ table'[n] = [object |-> r, launch |-> l, inherits |-> i]
        /\ table'[m] = [object |-> w, launch |-> l, inherits |-> i]
    BY <2>1, <2>2, <2>3, <2>4, <2>6 DEF LaunchTypeOK
  <2>8. LaunchTypeOK'
    <3>1. first \in [Numbers -> Entries]
      BY <2>1, <2>4, <2>5, EntriesAreRecords DEF LaunchTypeOK
    <3>2. table' \in [Numbers -> Entries]
      BY <3>1, <2>2, <2>3, <2>5, EntriesAreRecords
    <3> QED
      BY <3>2, <2>1, <2>2, <2>3 DEF LaunchTypeOK, Preparing
  <2>9. \A k \in Launches \ {l} : pc'[k] = pc[k] /\ owned'[k] = owned[k] /\ (creating' = k <=> creating = k)
    BY <2>3 DEF LaunchTypeOK, Threads
  <2>10. \A x \in Numbers : table'[x] # table[x] => table[x].launch \in {None, l} /\ table'[x].launch \in {None, l}
    BY <2>1, <2>6, <2>7, EntriesAreRecords
  <2>11. owned'[l][r] = n /\ owned'[l][w] = m /\ \A f \in Ends \ {r, w} : owned'[l][f] = owned[l][f]
    BY <2>3 DEF LaunchTypeOK
  <2>12. pc'[l] = next
    BY <2>3, EntriesAreRecords DEF LaunchTypeOK
  <2>13. ASSUME NEW f \in Ends PROVE HasInv(l, f)' /\ LacksInv(l, f)'
    <3>1. HasInv(l, f) /\ LacksInv(l, f)
      BY DEF SupervisorInv
    <3>2. /\ Has(l, f)' <=> Has(l, f) \/ f \in {r, w}
          /\ ~Unmoved(l, f)
          /\ Unmoved(l, f)' <=> f \in {r, w}
      BY <2>3
    <3>3. CASE f \in {r, w}
      BY <3>2, <3>3, <2>1, <2>2, <2>7, <2>11, <2>12 DEF HasInv, LacksInv
    <3>4. CASE f \notin {r, w}
      <4>1. Has(l, f) => owned[l][f] \in Numbers \ {n, m}
        BY <3>1, <3>4, <2>1, <2>6, EntriesAreRecords DEF HasInv
      <4>2. HasInv(l, f)'
        BY <4>1, <3>1, <3>2, <3>4, <2>7, <2>11, <2>12 DEF HasInv
      <4>3. LacksInv(l, f)'
        BY <3>1, <3>2, <3>4, <2>11 DEF LacksInv, Tried, Creating
      <4> QED
        BY <4>2, <4>3
    <3> QED
      BY <3>3, <3>4
  <2>14. ASSUME NEW x \in Numbers, table'[x].launch = l PROVE TableInv(x)'
    <3>1. \A f \in Ends : Has(l, f) \/ f \in {r, w} => Has(l, f)'
      BY <2>3
    <3>2. CASE x \in {n, m}
      <4>1. table'[x].object \in {r, w} /\ owned'[l][table'[x].object] = x
        BY <3>2, <2>7, <2>11
      <4> QED
        BY <4>1, <3>1, <2>14 DEF TableInv
    <3>3. CASE x \notin {n, m}
      <4>1. table'[x] = table[x] /\ TableInv(x)
        BY <3>3, <2>7 DEF SupervisorInv
      <4>2. Has(l, table[x].object) /\ owned[l][table[x].object] = x
        BY <4>1, <2>14, EntriesAreRecords DEF TableInv
      <4>3. table[x].object \in Ends \ {r, w}
        BY <4>2 DEF Has, Ends
      <4>4. table'[x].object = table[x].object
        BY <4>1
      <4> QED
        BY <4>2, <4>3, <4>4, <3>1, <2>11, <2>14 DEF TableInv
    <3> QED
      BY <3>2, <3>3
  <2>15. LockInv(l)'
    BY <2>3, <2>12 DEF LockInv, SupervisorInv
  <2> QED
    BY <2>8, <2>9, <2>10, <2>13, <2>14, <2>15, OwnStep
<1> QED
  BY <1>1, <1>2

LEMMA CreateKeeps ==
    ASSUME LaunchTypeOK, SupervisorInv, ReaderInv, drain' = drain, NEW l \in Launches, create_pipes(l),
           UNCHANGED <<platform, line, child, childTable>>
    PROVE  LaunchTypeOK' /\ SupervisorInv'
<1> USE DEF Has, Unmoved, Creating, Preparing, Past, Tried, Ends
<1> /\ pc \in [Threads -> Preparing \cup Past \cup {"none", "refused"}] /\ l \in Threads
    /\ pc[l] \in Preparing => ~(l = Diagnosed /\ drain = "done")
  BY DEF LaunchTypeOK, Threads, ReaderInv
<1>1. CASE pc[l] = "move_null" /\ moved_above_stdio(l, "null", "pipes")
  BY <1>1, MoveKeeps
<1>2. CASE pc[l] = "diag_pipe" /\ pipe(l, "diag_read", "diag_write", "move_diag_read")
  <2>1. /\ pc[l] \in Creating /\ "diag_read" \in Ends /\ "diag_write" \in Ends /\ "move_diag_read" \in Creating
        /\ ~Has(l, "diag_read") /\ ~Has(l, "diag_write")
    BY <1>2
  <2>2. pc' = [pc EXCEPT ![l] = "move_diag_read"] =>
          \A f \in Ends \cup {"other", None} :
              /\ Has(l, f)' <=> Has(l, f) \/ f \in {"diag_read", "diag_write"}
              /\ ~Unmoved(l, f)
              /\ Unmoved(l, f)' <=> f \in {"diag_read", "diag_write"}
    BY <1>2
  <2> QED
    <3> HIDE DEF Has, Unmoved, Creating, Preparing, Past, Tried, Ends
    <3> QED
      BY <1>2, <2>1, <2>2, PipeKeeps
<1>3. CASE pc[l] = "move_diag_read" /\ moved_above_stdio(l, "diag_read", "move_diag_write")
  BY <1>3, MoveKeeps
<1>4. CASE pc[l] = "move_diag_write" /\ moved_above_stdio(l, "diag_write", "recipe_pipe")
  BY <1>4, MoveKeeps
<1>5. CASE pc[l] = "recipe_pipe" /\ pipe(l, "recipe_read", "recipe_write", "move_recipe_read")
  <2>1. /\ pc[l] \in Creating /\ "recipe_read" \in Ends /\ "recipe_write" \in Ends /\ "move_recipe_read" \in Creating
        /\ ~Has(l, "recipe_read") /\ ~Has(l, "recipe_write")
    BY <1>5
  <2>2. pc' = [pc EXCEPT ![l] = "move_recipe_read"] =>
          \A f \in Ends \cup {"other", None} :
              /\ Has(l, f)' <=> Has(l, f) \/ f \in {"recipe_read", "recipe_write"}
              /\ ~Unmoved(l, f)
              /\ Unmoved(l, f)' <=> f \in {"recipe_read", "recipe_write"}
    BY <1>5
  <2> QED
    <3> HIDE DEF Has, Unmoved, Creating, Preparing, Past, Tried, Ends
    <3> QED
      BY <1>5, <2>1, <2>2, PipeKeeps
<1>6. CASE pc[l] = "move_recipe_read" /\ moved_above_stdio(l, "recipe_read", "move_recipe_write")
  BY <1>6, MoveKeeps
<1>7. CASE pc[l] = "move_recipe_write" /\ moved_above_stdio(l, "recipe_write", "created")
  BY <1>7, MoveKeeps
<1> QED
  BY <1>1, <1>2, <1>3, <1>4, <1>5, <1>6, <1>7 DEF create_pipes

(* A launch that takes or gives up the lock, or forks: its descriptors stay. *)
LEMMA StayKeeps ==
    ASSUME LaunchTypeOK, SupervisorInv, LaunchTypeOK', drain' = drain, NEW l \in Launches, NEW next,
           pc' = [pc EXCEPT ![l] = next], UNCHANGED <<table, owned>>,
           \A f \in Ends \cup {"other", None} :
               (Has(l, f)' <=> Has(l, f)) /\ ~Unmoved(l, f) /\ ~Unmoved(l, f)',
           \A f \in Ends : LacksInv(l, f)',
           LockInv(l)', \A k \in Launches \ {l} : creating' = k <=> creating = k
    PROVE  SupervisorInv'
<1>1. \A k \in Launches \ {l} : pc'[k] = pc[k]
  BY DEF LaunchTypeOK, Threads
<1>2. ASSUME NEW f \in Ends PROVE HasInv(l, f)'
  <2>1. HasInv(l, f) /\ (Has(l, f)' <=> Has(l, f)) /\ ~Unmoved(l, f) /\ ~Unmoved(l, f)'
    BY DEF SupervisorInv
  <2> QED
    BY <2>1 DEF HasInv
<1>3. ASSUME NEW n \in Numbers, table'[n].launch = l PROVE TableInv(n)'
  <2>1. Has(l, table[n].object) /\ owned[l][table[n].object] = n
    BY <1>3, EntriesAreRecords DEF SupervisorInv, TableInv
  <2>2. table[n].object \in Ends
    BY <2>1 DEF Has, Ends
  <2>3. \A f \in Ends : Has(l, f) => Has(l, f)'
    OBVIOUS
  <2> QED
    BY <1>3, <2>1, <2>2, <2>3 DEF TableInv
<1> QED
  BY <1>1, <1>2, <1>3, OwnStep

LEMMA LockKeeps ==
    ASSUME LaunchTypeOK, SupervisorInv, ReaderInv, drain' = drain, NEW l \in Launches,
           write_held(l) \/ with_each_descriptor_held(l),
           UNCHANGED <<platform, line, child, childTable>>
    PROVE  LaunchTypeOK' /\ SupervisorInv'
<1>1. CASE with_each_descriptor_held(l) /\ Refuse(l)
  BY <1>1, RefuseKeeps DEF with_each_descriptor_held, Preparing, Creating
<1>2. CASE ~(with_each_descriptor_held(l) /\ Refuse(l))
  <2>1. /\ UNCHANGED <<table, owned>>
        /\ \/ pc[l] = "pipes" /\ pc' = [pc EXCEPT ![l] = "diag_pipe"] /\ creating = None /\ creating' = l
           \/ pc[l] = "created" /\ pc' = [pc EXCEPT ![l] = "preload"] /\ creating' = None
    BY <1>2 DEF write_held, with_each_descriptor_held, Goto
  <2>2. LaunchTypeOK'
    BY <2>1, EntriesAreRecords DEF LaunchTypeOK, Preparing, Creating
  <2>3. pc'[l] \in {"diag_pipe", "preload"} /\ pc' = [pc EXCEPT ![l] = pc'[l]]
        /\ (pc[l] = "pipes" <=> pc'[l] = "diag_pipe") /\ pc[l] \in {"pipes", "created"}
    BY <2>1, EntriesAreRecords DEF LaunchTypeOK
  <2>4. \A f \in Ends \cup {"other", None} :
            (Has(l, f)' <=> Has(l, f)) /\ ~Unmoved(l, f) /\ ~Unmoved(l, f)'
    BY <2>3 DEF Has, Unmoved, Creating, Past, Tried
  <2>5. \A f \in Ends : LacksInv(l, f)'
    <3> TAKE f \in Ends
    <3>1. LacksInv(l, f)
      BY DEF SupervisorInv
    <3> QED
      BY <2>1, <2>3, <2>4, <3>1 DEF LacksInv, Tried
  <2>6. LockInv(l)'
    BY <2>1, <2>3, EntriesAreRecords DEF LockInv, Creating
  <2>7. \A k \in Launches \ {l} : creating' = k <=> creating = k
    BY <2>1, <2>3, EntriesAreRecords DEF SupervisorInv, LockInv, Creating
  <2> QED
    BY <2>1, <2>2, <2>3, <2>4, <2>5, <2>6, <2>7, StayKeeps
<1> QED
  BY <1>1, <1>2

(* A step that changes nothing of the supervisor's launches.                *)
LEMMA SameLaunches ==
    ASSUME LaunchTypeOK, SupervisorInv, UNCHANGED <<table, owned, creating>>,
           drain' = drain \/ (drain # "done" /\ drain' # "done"),
           \A l \in Launches : pc'[l] = pc[l]
    PROVE  SupervisorInv'
<1>1. \A l \in Launches, e \in Ends \cup {"other", None} :
          (Has(l, e)' <=> Has(l, e)) /\ (Unmoved(l, e)' <=> Unmoved(l, e))
  BY DEF Has, Unmoved
<1>2. ASSUME NEW l \in Launches, NEW e \in Ends PROVE HasInv(l, e)' /\ LacksInv(l, e)'
  <2>1. HasInv(l, e) /\ LacksInv(l, e) /\ (Has(l, e)' <=> Has(l, e)) /\ (Unmoved(l, e)' <=> Unmoved(l, e))
    BY <1>1 DEF SupervisorInv
  <2>2. HasInv(l, e)'
    BY <2>1 DEF HasInv
  <2>3. LacksInv(l, e)'
    BY <2>1 DEF LacksInv
  <2> QED
    BY <2>2, <2>3
<1>3. ASSUME NEW n \in Numbers PROVE TableInv(n)'
  <2>1. TableInv(n) /\ table[n].launch \in Launches \cup {None} /\ table[n].object \in Ends \cup {"other", None}
    BY DEF SupervisorInv, LaunchTypeOK, Entries
  <2> QED
    BY <1>1, <2>1 DEF TableInv
<1>4. ASSUME NEW l \in Launches PROVE LockInv(l)'
  BY DEF SupervisorInv, LockInv
<1> QED
  BY <1>2, <1>3, <1>4 DEF SupervisorInv

(* A launch that closes some of what it has.                                *)
LEMMA DropKeeps ==
    ASSUME LaunchTypeOK, SupervisorInv, LaunchTypeOK', NEW l \in Launches, NEW next,
           NEW ends \in SUBSET Ends,
           pc' = [pc EXCEPT ![l] = next], creating' = creating,
           table' = [n \in Numbers |-> IF \E e \in ends : owned[l][e] = n THEN Closed ELSE table[n]],
           \A k \in Launches \ {l} : owned'[k] = owned[k],
           \A e \in Ends \ ends : owned'[l][e] = owned[l][e],
           \A e \in ends : Has(l, e) \/ owned[l][e] = None,
           \A f \in Ends \cup {"other", None} :
               /\ Has(l, f)' <=> Has(l, f) /\ f \notin ends
               /\ ~Unmoved(l, f) /\ ~Unmoved(l, f)',
           \A f \in Ends : LacksInv(l, f)',
           drain' = drain \/ l = Diagnosed,
           LockInv(l)'
    PROVE  SupervisorInv'
<1>1. \A k \in Launches \ {l} : pc'[k] = pc[k] /\ (creating' = k <=> creating = k)
  BY DEF LaunchTypeOK, Threads
<1>2. ASSUME NEW e \in Ends, Has(l, e)
      PROVE  owned[l][e] \in Numbers /\ table[owned[l][e]].launch = l /\ table[owned[l][e]].object = e
  BY <1>2 DEF SupervisorInv, HasInv
<1>3. \A n \in Numbers : table'[n] # table[n] => table[n].launch = l /\ table'[n] = Closed
  <2> TAKE n \in Numbers
  <2> HAVE table'[n] # table[n]
  <2>1. PICK e \in ends : owned[l][e] = n
    OBVIOUS
  <2>2. owned[l][e] # None
    BY <2>1
  <2> QED
    BY <2>1, <2>2, <1>2
<1>4. ASSUME NEW f \in Ends PROVE HasInv(l, f)'
  <2>1. HasInv(l, f) /\ (Has(l, f)' <=> Has(l, f) /\ f \notin ends) /\ ~Unmoved(l, f) /\ ~Unmoved(l, f)'
    BY DEF SupervisorInv
  <2>2. ASSUME Has(l, f)' PROVE table'[owned[l][f]] = table[owned[l][f]] /\ owned'[l][f] = owned[l][f]
    <3>1. Has(l, f) /\ f \notin ends
      BY <2>1, <2>2
    <3>2. ASSUME NEW e \in ends, owned[l][e] = owned[l][f] PROVE FALSE
      BY <3>1, <3>2, <1>2
    <3> QED
      BY <3>1, <3>2, <1>2
  <2> QED
    BY <2>1, <2>2 DEF HasInv
<1>5. ASSUME NEW n \in Numbers, table'[n].launch = l PROVE TableInv(n)'
  <2>1. table'[n] = table[n]
    BY <1>3, <1>5, EntriesAreRecords
  <2>2. Has(l, table[n].object) /\ owned[l][table[n].object] = n
    BY <1>5, <2>1, EntriesAreRecords DEF SupervisorInv, TableInv
  <2>3. table[n].object \in Ends
    BY <2>2 DEF Has, Ends
  <2>4. table[n].object \notin ends
    BY <1>5, <2>1, <2>2, EntriesAreRecords
  <2>5. \A f \in Ends : Has(l, f) /\ f \notin ends => Has(l, f)'
    OBVIOUS
  <2>6. table'[n].object = table[n].object
    BY <2>1
  <2> QED
    BY <1>5, <2>2, <2>3, <2>4, <2>5, <2>6 DEF TableInv
<1>6. \A n \in Numbers : table'[n] # table[n] => table[n].launch \in {None, l} /\ table'[n].launch \in {None, l}
  BY <1>3, EntriesAreRecords
<1> QED
  BY <1>1, <1>4, <1>5, <1>6, OwnStep

LEMMA PreloadKeeps ==
    ASSUME LaunchTypeOK, SupervisorInv, ReaderInv, drain' = drain, NEW l \in Launches, preload(l),
           UNCHANGED <<platform, line, child, childTable>>
    PROVE  LaunchTypeOK' /\ SupervisorInv'
<1>1. CASE Refuse(l)
  BY <1>1, RefuseKeeps DEF preload, Preparing
<1>2. CASE ~Refuse(l)
  <2> DEFINE ends == {"recipe_write"}
  <2>1. pc[l] = "preload" /\ pc' = [pc EXCEPT ![l] = "prepared"] /\ DropEnds(l, ends) /\ creating' = creating
    BY <1>2 DEF preload, Goto
  <2>2. ~(l = Diagnosed /\ drain = "done") /\ ends \in SUBSET Ends
    BY <2>1 DEF ReaderInv, Past, Tried, Ends
  <2>3. LaunchTypeOK'
    BY <2>1, EntriesAreRecords DEF LaunchTypeOK, DropEnds, Past, Ends
  <2>4. pc'[l] = "prepared"
    BY <2>1, EntriesAreRecords DEF LaunchTypeOK
  <2>5. \A f \in Ends \cup {"other", None} :
            /\ Has(l, f)' <=> Has(l, f) /\ f \notin ends
            /\ ~Unmoved(l, f) /\ ~Unmoved(l, f)'
    BY <2>1, <2>2, <2>4 DEF Has, Unmoved, Creating, Past, Tried
  <2>6. /\ \A k \in Launches \ {l} : owned'[k] = owned[k]
        /\ \A e \in Ends : owned'[l][e] = IF e \in ends THEN None ELSE owned[l][e]
    BY <2>1 DEF DropEnds, LaunchTypeOK
  <2>7. \A f \in Ends : LacksInv(l, f)'
    <3> TAKE f \in Ends
    <3>1. LacksInv(l, f)
      BY DEF SupervisorInv
    <3> QED
      BY <2>1, <2>4, <2>5, <2>6, <3>1 DEF LacksInv, Tried
  <2>8. Has(l, "recipe_write")
    BY <2>1 DEF Has
  <2>9. LockInv(l)'
    BY <2>1, <2>4 DEF LockInv, SupervisorInv, Creating
  <2>10. table' = [n \in Numbers |-> IF \E e \in ends : owned[l][e] = n THEN Closed ELSE table[n]]
    BY <2>1 DEF DropEnds
  <2> QED
    BY <2>1, <2>2, <2>3, <2>5, <2>6, <2>7, <2>8, <2>9, <2>10, DropKeeps
<1> QED
  BY <1>1, <1>2

LEMMA DropExecKeeps ==
    ASSUME LaunchTypeOK, SupervisorInv, drain' = drain, NEW l \in Launches, drop_exec(l),
           UNCHANGED <<platform, line>>
    PROVE  LaunchTypeOK' /\ SupervisorInv'
<1> DEFINE ends == {"null", "diag_write", "recipe_read"}
<1>1. /\ pc[l] = "spawned" /\ pc' = [pc EXCEPT ![l] = "launched"] /\ ends \in SUBSET Ends
      /\ UNCHANGED <<owned, creating, child, childTable>>
      /\ table' = [n \in Numbers |-> IF \E e \in ends : owned[l][e] = n THEN Closed ELSE table[n]]
  BY DEF drop_exec, Goto, Ends
<1>2. LaunchTypeOK'
  BY <1>1, EntriesAreRecords DEF LaunchTypeOK, Past, Tried
<1>3. pc'[l] = "launched"
  BY <1>1, EntriesAreRecords DEF LaunchTypeOK
<1>4. \A f \in Ends \cup {"other", None} :
          /\ Has(l, f)' <=> Has(l, f) /\ f \notin ends
          /\ ~Unmoved(l, f) /\ ~Unmoved(l, f)'
  BY <1>1, <1>3 DEF Has, Unmoved, Creating, Past, Tried
<1>5. \A f \in Ends : LacksInv(l, f)'
  BY <1>3 DEF LacksInv, Tried
<1>6. \A e \in ends : Has(l, e)
  BY <1>1 DEF Has
<1>7. LockInv(l)'
  BY <1>1, <1>3 DEF LockInv, SupervisorInv, Creating
<1> QED
  BY <1>1, <1>2, <1>4, <1>5, <1>6, <1>7, DropKeeps

LEMMA ForkFailsKeeps ==
    ASSUME LaunchTypeOK, SupervisorInv, drain' = drain, NEW t \in Threads, fork_fails(t),
           UNCHANGED <<platform, line>>
    PROVE  LaunchTypeOK' /\ SupervisorInv'
<1>1. CASE t \in Launches
  <2> DEFINE ends == Ends \ {"diag_read"}
  <2>1. pc[t] = "prepared" /\ pc' = [pc EXCEPT ![t] = "unforked"] /\ DropEnds(t, ends)
        /\ UNCHANGED <<creating, child, childTable>>
    BY <1>1 DEF fork_fails, Goto, MayFork
  <2>2. LaunchTypeOK'
    BY <1>1, <2>1, EntriesAreRecords DEF LaunchTypeOK, DropEnds, Past, Tried
  <2>3. pc'[t] = "unforked"
    BY <2>1 DEF LaunchTypeOK
  <2>4. \A f \in Ends \cup {"other", None} :
            /\ Has(t, f)' <=> Has(t, f) /\ f \notin ends
            /\ ~Unmoved(t, f) /\ ~Unmoved(t, f)'
    BY <2>1, <2>3 DEF Has, Unmoved, Creating, Past, Tried, Ends
  <2>5. /\ \A k \in Launches \ {t} : owned'[k] = owned[k]
        /\ \A e \in Ends : owned'[t][e] = IF e \in ends THEN None ELSE owned[t][e]
    BY <1>1, <2>1 DEF DropEnds, LaunchTypeOK
  <2>6. \A f \in Ends : LacksInv(t, f)'
    BY <2>3 DEF LacksInv, Tried
  <2>7. \A e \in ends : Has(t, e) \/ owned[t][e] = None
    BY <1>1, <2>1 DEF SupervisorInv, LacksInv, Tried
  <2>8. LockInv(t)'
    BY <1>1, <2>1, <2>3 DEF LockInv, SupervisorInv, Creating
  <2>9. table' = [n \in Numbers |-> IF \E e \in ends : owned[t][e] = n THEN Closed ELSE table[n]]
    BY <2>1 DEF DropEnds
  <2> QED
    BY <1>1, <2>1, <2>2, <2>4, <2>5, <2>6, <2>7, <2>8, <2>9, DropKeeps
<1>2. CASE t \notin Launches
  <2>1. pc' = [pc EXCEPT ![t] = "unforked"] /\ UNCHANGED <<table, owned, creating, child, childTable>>
    BY <1>2 DEF fork_fails, Goto
  <2>2. LaunchTypeOK'
    BY <2>1 DEF LaunchTypeOK, Past, Tried
  <2> QED
    BY <1>2, <2>1, <2>2, SameLaunches
<1> QED
  BY <1>1, <1>2

(* A step of the supervisor that is no fork leaves the children alone.      *)
LEMMA SameChildren ==
    ASSUME ChildrenInv, UNCHANGED <<child, childTable>>,
           \A l \in Launches : /\ pc'[l] \in {"spawned", "launched"} <=> pc[l] \in {"spawned", "launched"}
                               /\ pc[l] \in {"spawned", "launched"} => owned'[l] = owned[l],
           \A t \in Commands : pc'[t] = pc[t] \/ (pc[t] = "idle" /\ pc'[t] = "unforked")
    PROVE  ChildrenInv'
<1>1. ASSUME NEW l \in Launches PROVE HelperInv(l)'
  <2>1. HelperInv(l) /\ Handed(l)' = Handed(l)
    BY DEF ChildrenInv, Handed
  <2> QED
    BY <2>1 DEF HelperInv
<1>2. ASSUME NEW t \in Commands PROVE CommandInv(t)'
  <2>1. CommandInv(t)
    BY DEF ChildrenInv
  <2> QED
    BY <2>1 DEF CommandInv
<1> QED
  BY <1>1, <1>2 DEF ChildrenInv

LEMMA PreparePreserves ==
    ASSUME LaunchInv, drain' = drain, NEW l \in Launches, Prepare(l), UNCHANGED <<platform, line>>
    PROVE  LaunchInv'
<1>1. LaunchTypeOK' /\ SupervisorInv'
  <2>1. UNCHANGED <<platform, line, child, childTable>> /\ LaunchTypeOK /\ SupervisorInv /\ ReaderInv
    BY DEF Prepare, LaunchInv
  <2>2. CASE open_null(l)
    BY <2>1, <2>2, OpenKeeps
  <2>3. CASE create_pipes(l)
    BY <2>1, <2>3, CreateKeeps
  <2>4. CASE write_held(l) \/ with_each_descriptor_held(l)
    BY <2>1, <2>4, LockKeeps
  <2>5. CASE preload(l)
    BY <2>1, <2>5, PreloadKeeps
  <2> QED
    BY <2>2, <2>3, <2>4, <2>5 DEF Prepare
<1>2. /\ pc[l] \in Preparing
      /\ \E next \in Preparing \cup {"prepared", "refused"} : pc' = [pc EXCEPT ![l] = next]
  BY DEF Prepare, open_null, create_pipes, write_held, with_each_descriptor_held, preload, Refuse, Goto,
         moved_above_stdio, pipe, Preparing, Creating
<1>3. /\ pc'[l] \notin Tried
      /\ \A t \in Threads \ {l} : pc'[t] = pc[t]
      /\ pc[l] \notin Past
  <2>1. l \in Threads /\ pc \in [Threads -> Preparing \cup Past \cup {"none", "refused"}]
    BY EntriesAreRecords DEF LaunchInv, LaunchTypeOK
  <2> QED
    BY <1>2, <2>1 DEF Past, Tried, Preparing, Creating
<1>4. \A k \in Launches \ {l} : owned'[k] = owned[k]
  BY DEF Prepare, open_null, create_pipes, write_held, with_each_descriptor_held, preload, Refuse, DropEnds,
         moved_above_stdio, pipe, LaunchInv, LaunchTypeOK
<1>5. ChildrenInv'
  <2>1. ChildrenInv /\ UNCHANGED <<child, childTable>>
    BY DEF LaunchInv, Prepare
  <2>2. l \notin Commands /\ Launches \cup Commands \subseteq Threads
    BY DEF Threads
  <2> QED
    BY <2>1, <2>2, <1>3, <1>4, SameChildren DEF Past, Tried
<1>6. ReaderInv'
  BY <1>3 DEF LaunchInv, ReaderInv, Threads
<1> QED
  BY <1>1, <1>5, <1>6 DEF LaunchInv

LEMMA DropExecPreserves ==
    ASSUME LaunchInv, drain' = drain, NEW l \in Launches, drop_exec(l), UNCHANGED <<platform, line>>
    PROVE  LaunchInv'
<1>1. LaunchTypeOK' /\ SupervisorInv'
  BY DropExecKeeps DEF LaunchInv
<1>2. /\ pc[l] = "spawned" /\ pc'[l] = "launched"
      /\ \A t \in Threads \ {l} : pc'[t] = pc[t]
      /\ UNCHANGED <<owned, child, childTable>>
  BY EntriesAreRecords DEF drop_exec, Goto, LaunchInv, LaunchTypeOK
<1>3. ChildrenInv'
  <2>1. l \notin Commands /\ Launches \cup Commands \subseteq Threads
    BY DEF Threads
  <2> QED
    BY <1>2, <2>1, SameChildren DEF LaunchInv
<1>4. ReaderInv'
  BY <1>2 DEF LaunchInv, ReaderInv, Threads, Past, Tried
<1> QED
  BY <1>1, <1>3, <1>4 DEF LaunchInv

LEMMA ForkFailsPreserves ==
    ASSUME LaunchInv, drain' = drain, NEW t \in Threads, fork_fails(t), UNCHANGED <<platform, line>>
    PROVE  LaunchInv'
<1>1. LaunchTypeOK' /\ SupervisorInv'
  BY ForkFailsKeeps DEF LaunchInv
<1>2. /\ pc[t] = IF t \in Launches THEN "prepared" ELSE "idle"
      /\ pc'[t] = "unforked"
      /\ \A k \in Threads \ {t} : pc'[k] = pc[k]
      /\ UNCHANGED <<child, childTable>>
      /\ \A k \in Launches \ {t} : owned'[k] = owned[k]
  BY DEF fork_fails, MayFork, Goto, DropEnds, LaunchInv, LaunchTypeOK
<1>3. ChildrenInv'
  <2>1. Launches \cup Commands \subseteq Threads /\ \A c \in Commands : c \notin Launches
    BY DEF Threads
  <2> QED
    BY <1>2, <2>1, SameChildren DEF LaunchInv
<1>4. ReaderInv'
  BY <1>2 DEF LaunchInv, ReaderInv, Threads, Past, Tried
<1> QED
  BY <1>1, <1>3, <1>4 DEF LaunchInv

LEMMA ForkPreserves ==
    ASSUME LaunchInv, drain' = drain, NEW t \in Threads, fork(t), UNCHANGED <<platform, line>>
    PROVE  LaunchInv'
<1>1. /\ pc[t] = (IF t \in Launches THEN "prepared" ELSE "idle") /\ creating = None
      /\ pc' = [pc EXCEPT ![t] = "spawned"]
      /\ child' = [child EXCEPT ![t] = "forked"]
      /\ childTable' = [childTable EXCEPT ![t] = table]
      /\ UNCHANGED <<table, owned, creating>>
  BY DEF fork, MayFork, Goto
<1>2. LaunchTypeOK'
  BY <1>1 DEF LaunchInv, LaunchTypeOK, Past, Tried
<1>3. /\ pc'[t] = "spawned" /\ child'[t] = "forked" /\ childTable'[t] = table
      /\ \A k \in Threads \ {t} : pc'[k] = pc[k] /\ child'[k] = child[k] /\ childTable'[k] = childTable[k]
  BY <1>1 DEF LaunchInv, LaunchTypeOK
<1>4. Launches \cup Commands \subseteq Threads
  BY DEF Threads
<1>5. \A l \in Launches : pc[l] \notin Creating
  BY <1>1, EntriesAreRecords DEF LaunchInv, SupervisorInv, LockInv
<1>6. SupervisorInv'
  <2>1. CASE t \in Launches
    <3>1. \A f \in Ends \cup {"other", None} :
              (Has(t, f)' <=> Has(t, f)) /\ ~Unmoved(t, f) /\ ~Unmoved(t, f)'
      BY <1>1, <1>3, <2>1 DEF Has, Unmoved, Creating, Past, Tried
    <3>2. \A f \in Ends : LacksInv(t, f)'
      BY <1>3 DEF LacksInv, Tried
    <3>3. LockInv(t)'
      BY <1>1, <1>3, <2>1, EntriesAreRecords DEF LockInv, Creating
    <3> QED
      BY <1>1, <1>2, <2>1, <3>1, <3>2, <3>3, StayKeeps DEF LaunchInv
  <2>2. CASE t \notin Launches
    BY <1>1, <1>3, <1>4, <2>2, SameLaunches DEF LaunchInv
  <2> QED
    BY <2>1, <2>2
<1>7. ASSUME NEW l \in Launches PROVE HelperInv(l)'
  <2>1. HelperInv(l) /\ Handed(l)' = Handed(l)
    BY DEF LaunchInv, ChildrenInv, Handed
  <2>2. CASE l # t
    BY <1>1, <1>3, <1>4, <2>1, <2>2 DEF HelperInv
  <2>3. CASE l = t
    <3>1. ASSUME NEW e \in {"null", "diag_write", "recipe_read"}
          PROVE  owned[l][e] \in Numbers /\ owned[l][e] >= FirstKept /\ table[owned[l][e]] = Private(e, l)
      <4>1. e \in Ends /\ Has(l, e) /\ ~Unmoved(l, e)
        BY <1>1, <2>3 DEF Ends, Has, Unmoved
      <4>2. HasInv(l, e)
        BY <4>1 DEF LaunchInv, SupervisorInv
      <4>3. /\ owned[l][e] \in Numbers /\ owned[l][e] >= FirstKept
            /\ table[owned[l][e]].object = e /\ table[owned[l][e]].launch = l
            /\ ~table[owned[l][e]].inherits
        BY <4>1, <4>2 DEF HasInv
      <4>4. table[owned[l][e]] \in Entries
        BY <4>3 DEF LaunchInv, LaunchTypeOK
      <4> QED
        BY <4>3, <4>4 DEF Entries, Private, Inherited
    <3> QED
      BY <1>1, <1>3, <2>3, <3>1 DEF HelperInv
  <2> QED
    BY <2>2, <2>3
<1>8. ASSUME NEW c \in Commands PROVE CommandInv(c)'
  <2>1. CommandInv(c) /\ c \notin Launches
    BY DEF LaunchInv, ChildrenInv
  <2>2. CASE c # t
    BY <1>3, <1>4, <2>1, <2>2 DEF CommandInv
  <2>3. CASE c = t
    <3>1. ASSUME NEW n \in Numbers, table[n].launch # None PROVE ~table[n].inherits
      <4>1. table[n].launch \in Launches /\ table[n].object \in Ends
            /\ Has(table[n].launch, table[n].object) /\ owned[table[n].launch][table[n].object] = n
        BY <3>1 DEF LaunchInv, SupervisorInv, TableInv, LaunchTypeOK, Entries, Has, Ends
      <4> QED
        BY <4>1, <1>5 DEF LaunchInv, SupervisorInv, HasInv
    <3> QED
      BY <1>1, <1>3, <2>1, <2>3, <3>1 DEF CommandInv
  <2> QED
    BY <2>2, <2>3
<1>9. ReaderInv'
  BY <1>1, <1>3, <1>4 DEF LaunchInv, ReaderInv, Past, Tried
<1> QED
  BY <1>2, <1>6, <1>7, <1>8, <1>9 DEF LaunchInv, ChildrenInv

(* A step of one child.                                                     *)
LEMMA ChildStep ==
    ASSUME LaunchInv, drain' = drain, UNCHANGED <<platform, table, pc, line, owned, creating>>,
           NEW t \in Threads, NEW next \in {"installed", "closed", "exited"} \cup Executed,
           NEW found \in [Numbers -> Entries],
           child[t] # "none",
           child' = [child EXCEPT ![t] = next], childTable' = [childTable EXCEPT ![t] = found],
           t \in Launches => HelperInv(t)', t \in Commands => CommandInv(t)'
    PROVE  LaunchInv'
<1>1. LaunchTypeOK'
  BY DEF LaunchInv, LaunchTypeOK
<1>2. SupervisorInv'
  BY SameLaunches DEF LaunchInv
<1>3. /\ \A k \in Threads \ {t} : child'[k] = child[k] /\ childTable'[k] = childTable[k]
      /\ Launches \cup Commands \subseteq Threads
  BY DEF LaunchInv, LaunchTypeOK, Threads
<1>4. ASSUME NEW l \in Launches PROVE HelperInv(l)'
  <2>1. HelperInv(l) /\ Handed(l)' = Handed(l)
    BY DEF LaunchInv, ChildrenInv, Handed
  <2>2. CASE l # t
    BY <1>3, <2>1, <2>2 DEF HelperInv
  <2> QED
    BY <2>2
<1>5. ASSUME NEW c \in Commands PROVE CommandInv(c)'
  <2>1. CommandInv(c)
    BY DEF LaunchInv, ChildrenInv
  <2>2. CASE c # t
    BY <1>3, <2>1, <2>2 DEF CommandInv
  <2> QED
    BY <2>2
<1>6. ReaderInv'
  BY DEF LaunchInv, ReaderInv
<1> QED
  BY <1>1, <1>2, <1>4, <1>5, <1>6 DEF LaunchInv, ChildrenInv

LEMMA HandedIsTable ==
    ASSUME NEW l \in Launches
    PROVE  /\ Handed(l) \in [Numbers -> Entries]
           /\ [Handed(l) EXCEPT ![3] = Closed] \in [Numbers -> Entries]
           /\ \A n \in Numbers : n > 3 => Handed(l)[n] = Closed
           /\ Handed(l)[0] = Inherited("null", l) /\ Handed(l)[1] = Inherited("null", l)
           /\ Handed(l)[2] = Inherited("diag_write", l) /\ Handed(l)[3] = Inherited("recipe_read", l)
           /\ \A n \in Numbers : n > 3 \/ n \in {0, 1, 2, 3}
           /\ 0 \in Numbers /\ 1 \in Numbers /\ 2 \in Numbers /\ 3 \in Numbers
<1> DEFINE ends == <<"null", "null", "diag_write", "recipe_read">>
<1>1. /\ \A n \in Numbers : n > 3 \/ n \in {0, 1, 2, 3}
      /\ 0 \in Numbers /\ 1 \in Numbers /\ 2 \in Numbers /\ 3 \in Numbers
  BY DEF Numbers
<1>2. ends[1] = "null" /\ ends[2] = "null" /\ ends[3] = "diag_write" /\ ends[4] = "recipe_read"
  OBVIOUS
<1>3. Handed(l) = [n \in Numbers |-> IF n > 3 THEN Closed ELSE Inherited(ends[n + 1], l)]
  BY DEF Handed
<1> HIDE DEF ends
<1>4. /\ \A n \in Numbers : n > 3 => Handed(l)[n] = Closed
      /\ Handed(l)[0] = Inherited("null", l) /\ Handed(l)[1] = Inherited("null", l)
      /\ Handed(l)[2] = Inherited("diag_write", l) /\ Handed(l)[3] = Inherited("recipe_read", l)
  BY <1>1, <1>2, <1>3
<1>5. \A e \in {"null", "diag_write", "recipe_read"} : Inherited(e, l) \in Entries
  BY HandedEntries DEF Ends
<1>6. \A n \in Numbers : Handed(l)[n] \in Entries
  BY <1>1, <1>4, <1>5, EntriesAreRecords
<1>7. Handed(l) \in [Numbers -> Entries]
  BY <1>3, <1>6
<1> QED
  BY <1>1, <1>4, <1>7, EntriesAreRecords

(* What install_descriptors puts on 0 to 3.                                 *)
LEMMA Installs ==
    ASSUME LaunchInv, NEW l \in Launches, child[l] = "forked"
    PROVE  /\ install_descriptors(l) \in [Numbers -> Entries]
           /\ \A n \in {0, 1, 2, 3} : install_descriptors(l)[n] = Handed(l)[n]
           /\ \A n \in Numbers \ {0, 1, 2, 3} : install_descriptors(l)[n] = childTable[l][n]
<1> DEFINE from == [n \in 0..3 |-> owned[l][<<"null", "null", "diag_write", "recipe_read">>[n + 1]]]
           dup2(t, n) == [t EXCEPT ![n] = [t[from[n]] EXCEPT !.inherits = TRUE]]
<1>1. install_descriptors(l) = dup2(dup2(dup2(dup2(childTable[l], 0), 1), 2), 3)
  BY DEF install_descriptors
<1>2. /\ from[0] = owned[l]["null"] /\ from[1] = owned[l]["null"]
      /\ from[2] = owned[l]["diag_write"] /\ from[3] = owned[l]["recipe_read"]
  OBVIOUS
<1> HIDE DEF from
<1> DEFINE t0 == childTable[l]
           t1 == dup2(t0, 0)
           t2 == dup2(t1, 1)
           t3 == dup2(t2, 2)
           t4 == dup2(t3, 3)
<1>3. /\ t1 = [t0 EXCEPT ![0] = [t0[from[0]] EXCEPT !.inherits = TRUE]]
      /\ t2 = [t1 EXCEPT ![1] = [t1[from[1]] EXCEPT !.inherits = TRUE]]
      /\ t3 = [t2 EXCEPT ![2] = [t2[from[2]] EXCEPT !.inherits = TRUE]]
      /\ t4 = [t3 EXCEPT ![3] = [t3[from[3]] EXCEPT !.inherits = TRUE]]
      /\ install_descriptors(l) = t4
  BY <1>1
<1>4. /\ t0 \in [Numbers -> Entries]
      /\ \A n \in 0..3 : from[n] \in Numbers /\ from[n] \notin {0, 1, 2, 3}
      /\ t0[from[0]] = Private("null", l) /\ t0[from[1]] = Private("null", l)
      /\ t0[from[2]] = Private("diag_write", l) /\ t0[from[3]] = Private("recipe_read", l)
  <2>1. \A e \in {"null", "diag_write", "recipe_read"} :
            owned[l][e] \in Numbers /\ owned[l][e] >= FirstKept /\ childTable[l][owned[l][e]] = Private(e, l)
    BY DEF LaunchInv, ChildrenInv, HelperInv
  <2>2. \A m \in Numbers : m >= FirstKept => m \notin {0, 1, 2, 3}
    BY DEF Numbers
  <2>3. \A n \in 0..3 : n \in {0, 1, 2, 3}
    OBVIOUS
  <2>4. childTable[l] \in [Numbers -> Entries]
    BY EntriesAreRecords DEF LaunchInv, LaunchTypeOK
  <2> QED
    BY <1>2, <2>1, <2>2, <2>3, <2>4
<1>5. 0 \in Numbers /\ 1 \in Numbers /\ 2 \in Numbers /\ 3 \in Numbers
      /\ "null" \in Ends /\ "diag_write" \in Ends /\ "recipe_read" \in Ends
  BY HandedIsTable DEF Ends
<1> HIDE DEF t0, t1, t2, t3, t4
<1>6. /\ t1 \in [Numbers -> Entries] /\ t1[0] = Inherited("null", l)
      /\ \A m \in Numbers : m # 0 => t1[m] = t0[m]
  <2>1. from[0] \in Numbers
    BY <1>4
  <2>2. [t0[from[0]] EXCEPT !.inherits = TRUE] = Inherited("null", l)
    BY <1>4, <1>5, <2>1, HandedEntries
  <2>3. t1 = [t0 EXCEPT ![0] = Inherited("null", l)]
    BY <1>3, <2>2
  <2>4. Inherited("null", l) \in Entries
    BY <1>5, HandedEntries
  <2> QED
    BY <1>4, <1>5, <2>3, <2>4
<1>7. /\ t2 \in [Numbers -> Entries] /\ t2[1] = Inherited("null", l)
      /\ \A m \in Numbers : m # 1 => t2[m] = t1[m]
  <2>1. from[1] \in Numbers /\ t1[from[1]] = Private("null", l)
    BY <1>4, <1>6
  <2>2. [t1[from[1]] EXCEPT !.inherits = TRUE] = Inherited("null", l)
    BY <1>4, <1>5, <2>1, HandedEntries
  <2>3. t2 = [t1 EXCEPT ![1] = Inherited("null", l)]
    BY <1>3, <2>2
  <2>4. Inherited("null", l) \in Entries
    BY <1>5, HandedEntries
  <2> QED
    BY <1>4, <1>5, <1>6, <2>3, <2>4
<1>8. /\ t3 \in [Numbers -> Entries] /\ t3[2] = Inherited("diag_write", l)
      /\ \A m \in Numbers : m # 2 => t3[m] = t2[m]
  <2>1. from[2] \in Numbers /\ t2[from[2]] = Private("diag_write", l)
    BY <1>4, <1>6, <1>7
  <2>2. [t2[from[2]] EXCEPT !.inherits = TRUE] = Inherited("diag_write", l)
    BY <1>4, <1>5, <2>1, HandedEntries
  <2>3. t3 = [t2 EXCEPT ![2] = Inherited("diag_write", l)]
    BY <1>3, <2>2
  <2>4. Inherited("diag_write", l) \in Entries
    BY <1>5, HandedEntries
  <2> QED
    BY <1>4, <1>5, <1>7, <2>3, <2>4
<1>9. /\ t4 \in [Numbers -> Entries] /\ t4[3] = Inherited("recipe_read", l)
      /\ \A m \in Numbers : m # 3 => t4[m] = t3[m]
  <2>1. from[3] \in Numbers /\ t3[from[3]] = Private("recipe_read", l)
    BY <1>4, <1>6, <1>7, <1>8
  <2>2. [t3[from[3]] EXCEPT !.inherits = TRUE] = Inherited("recipe_read", l)
    BY <1>4, <1>5, <2>1, HandedEntries
  <2>3. t4 = [t3 EXCEPT ![3] = Inherited("recipe_read", l)]
    BY <1>3, <2>2
  <2>4. Inherited("recipe_read", l) \in Entries
    BY <1>5, HandedEntries
  <2> QED
    BY <1>4, <1>5, <1>8, <2>3, <2>4
<1>10. /\ t4[0] = Inherited("null", l) /\ t4[1] = Inherited("null", l)
       /\ t4[2] = Inherited("diag_write", l) /\ t4[3] = Inherited("recipe_read", l)
  BY <1>5, <1>6, <1>7, <1>8, <1>9
<1>11. \A n \in Numbers \ {0, 1, 2, 3} : t4[n] = childTable[l][n]
  BY <1>6, <1>7, <1>8, <1>9 DEF t0
<1> QED
  BY <1>3, <1>9, <1>10, <1>11, HandedIsTable

LEMMA ChildPreserves ==
    ASSUME LaunchInv, drain' = drain, NEW t \in Threads, Child(t), UNCHANGED <<platform, line>>
    PROVE  LaunchInv'
<1> USE DEF LaunchInv
<1>1. UNCHANGED <<pc, table, owned, creating>> /\ t \in DOMAIN child /\ t \in DOMAIN childTable
      /\ childTable[t] \in [Numbers -> Entries] /\ (t \in Launches => t \notin Commands)
      /\ Handed(t)' = Handed(t)
  BY DEF Child, LaunchTypeOK, Handed
<1>2. ASSUME t \in Launches, launch(t) PROVE LaunchInv'
  <2> DEFINE found == install_descriptors(t)
  <2>1. /\ child[t] = "forked" /\ child' = [child EXCEPT ![t] = "installed"]
        /\ childTable' = [childTable EXCEPT ![t] = found]
    BY <1>2 DEF launch
  <2>2. found \in [Numbers -> Entries] /\ \A n \in {0, 1, 2, 3} : found[n] = Handed(t)[n]
    BY <1>2, <2>1, Installs
  <2> HIDE DEF found
  <2>3. child'[t] = "installed" /\ childTable'[t] = found
    BY <1>1, <2>1
  <2>4. HelperInv(t) /\ HelperInv(t)'
    BY <1>1, <1>2, <2>1, <2>2, <2>3 DEF HelperInv, ChildrenInv
  <2> QED
    BY <1>1, <1>2, <2>1, <2>2, <2>4, ChildStep
<1>3. ASSUME t \in Launches, close_above_three(t) PROVE LaunchInv'
  <2> DEFINE found == [n \in Numbers |-> IF n > 3 THEN Closed ELSE childTable[t][n]]
  <2>1. /\ child[t] = "installed" /\ child' = [child EXCEPT ![t] = "closed"]
        /\ childTable' = [childTable EXCEPT ![t] = found]
    BY <1>1, <1>3 DEF close_above_three
  <2>2. HelperInv(t)
    BY <1>3 DEF ChildrenInv
  <2>3. found = Handed(t) /\ found \in [Numbers -> Entries]
    <3>1. \A n \in Numbers : found[n] = Handed(t)[n]
      <4>1. \A n \in {0, 1, 2, 3} : childTable[t][n] = Handed(t)[n]
        BY <2>1, <2>2 DEF HelperInv
      <4>2. \A n \in {0, 1, 2, 3} : ~(n > 3)
        OBVIOUS
      <4> QED
        BY <4>1, <4>2, <1>3, HandedIsTable
    <3> QED
      BY <3>1, <1>3, HandedIsTable
  <2> HIDE DEF found
  <2>4. child'[t] = "closed" /\ childTable'[t] = found
    BY <1>1, <2>1
  <2>5. HelperInv(t)'
    BY <1>1, <2>1, <2>2, <2>3, <2>4 DEF HelperInv, Executed
  <2> QED
    BY <1>1, <1>3, <2>1, <2>3, <2>5, ChildStep
<1>4. ASSUME t \in Launches, judge_descriptors(t) PROVE LaunchInv'
  <2>1. HelperInv(t) /\ child[t] = "running" /\ childTable[t] = Handed(t)
    BY <1>4 DEF ChildrenInv, HelperInv, judge_descriptors
  <2>2. Judged(Handed(t))
    <3> SUFFICES ASSUME NEW n \in Numbers
                 PROVE  CASE n \in {0, 1} -> Handed(t)[n].object = "null"
                          [] n \in {2, 3} -> Handed(t)[n].object \in Ends \ {"null"}
                          [] OTHER -> Handed(t)[n] = Closed
      BY DEF Judged
    <3>1. CASE n \notin {0, 1, 2, 3}
      <4>1. Handed(t)[n] = Closed
        BY <3>1, <1>4, HandedIsTable
      <4> QED
        BY <3>1, <4>1
    <3>2. CASE n \in {0, 1, 2, 3}
      <4>1. /\ n \in {0, 1} => Handed(t)[n].object = "null"
            /\ n \in {2, 3} => Handed(t)[n].object \in Ends \ {"null"}
        BY <3>2, <1>4, HandedIsTable, HandedEntries DEF Ends
      <4> QED
        BY <3>2, <4>1
    <3> QED
      BY <3>1, <3>2
  <2>3. child' = [child EXCEPT ![t] = "reading"] /\ childTable' = [childTable EXCEPT ![t] = Handed(t)]
    BY <1>1, <1>4, <2>1, <2>2 DEF judge_descriptors, LaunchTypeOK
  <2>4. child'[t] = "reading" /\ childTable'[t] = Handed(t)
    BY <1>1, <2>3
  <2>5. HelperInv(t)'
    BY <1>1, <2>1, <2>4 DEF HelperInv
  <2> QED
    BY <1>1, <1>4, <2>1, <2>3, <2>5, HandedIsTable, ChildStep DEF Executed
<1>5. ASSUME t \in Launches, read_recipe(t) PROVE LaunchInv'
  <2> DEFINE found == [Handed(t) EXCEPT ![3] = Closed]
  <2>1. HelperInv(t) /\ child[t] = "reading" /\ childTable[t] = Handed(t)
    BY <1>5 DEF ChildrenInv, HelperInv, read_recipe
  <2>2. child' = [child EXCEPT ![t] = "configured"] /\ childTable' = [childTable EXCEPT ![t] = found]
    BY <1>1, <1>5, <2>1 DEF read_recipe
  <2>3. child'[t] = "configured" /\ childTable'[t] = found
    BY <1>1, <2>2
  <2>4. HelperInv(t)'
    BY <1>1, <2>1, <2>3 DEF HelperInv
  <2> QED
    BY <1>1, <1>5, <2>1, <2>2, <2>4, HandedIsTable, ChildStep DEF Executed
<1>6. ASSUME execve(t) PROVE LaunchInv'
  <2> DEFINE found == [n \in Numbers |-> IF childTable[t][n].inherits THEN childTable[t][n] ELSE Closed]
  <2>1. child' = [child EXCEPT ![t] = "running"] /\ childTable' = [childTable EXCEPT ![t] = found]
        /\ child[t] = (IF t \in Launches THEN "closed" ELSE "forked")
    BY <1>1, <1>6 DEF execve
  <2>2. found \in [Numbers -> Entries]
    BY <1>1, EntriesAreRecords
  <2>3. ASSUME t \in Launches PROVE found = Handed(t)
    <3>1. childTable[t] = Handed(t)
      BY <2>1, <2>3 DEF ChildrenInv, HelperInv
    <3>2. \A n \in Numbers : found[n] = Handed(t)[n]
      <4>1. \A n \in {0, 1, 2, 3} : Handed(t)[n].inherits
        BY <2>3, HandedIsTable, HandedEntries DEF Ends
      <4>2. \A n \in Numbers : n \notin {0, 1, 2, 3} => Handed(t)[n] = Closed
        BY <2>3, HandedIsTable
      <4> QED
        BY <4>1, <4>2, <3>1
    <3> QED
      BY <3>2, <2>3, HandedIsTable
  <2>4. ASSUME t \in Commands PROVE \A n \in Numbers : found[n].launch = None
    BY <2>1, <2>4, EntriesAreRecords DEF ChildrenInv, CommandInv
  <2> HIDE DEF found
  <2>5. child'[t] = "running" /\ childTable'[t] = found
    BY <1>1, <2>1
  <2>6. ASSUME t \in Launches PROVE HelperInv(t)'
    BY <1>1, <2>1, <2>3, <2>5, <2>6 DEF HelperInv, ChildrenInv
  <2>7. ASSUME t \in Commands PROVE CommandInv(t)'
    BY <1>1, <2>1, <2>4, <2>5, <2>7 DEF CommandInv, ChildrenInv
  <2> QED
    BY <1>1, <2>1, <2>2, <2>6, <2>7, ChildStep DEF Executed
<1> QED
  BY <1>2, <1>3, <1>4, <1>5, <1>6 DEF Child

LEMMA ExitPreserves ==
    ASSUME LaunchInv, drain' = drain, NEW t \in Threads, Exits(t)
    PROVE  LaunchInv'
<1>1. /\ child[t] # "none" /\ UNCHANGED <<platform, table, pc, line, owned, creating>>
      /\ child' = [child EXCEPT ![t] = "exited"] /\ childTable' = [childTable EXCEPT ![t] = NoTable]
  BY DEF Exits, Exit
<1>2. child'[t] = "exited" /\ childTable'[t] = NoTable
  BY <1>1 DEF LaunchInv, LaunchTypeOK
<1>3. t \in Launches => HelperInv(t)'
  BY <1>1, <1>2 DEF HelperInv, LaunchInv, ChildrenInv
<1>4. t \in Commands => CommandInv(t)'
  BY <1>1, <1>2, EntriesAreRecords DEF CommandInv, LaunchInv, ChildrenInv, NoTable
<1> QED
  BY <1>1, <1>3, <1>4, EntriesAreRecords, ChildStep

LEMMA DropPipePreserves ==
    ASSUME LaunchInv, drop_pipe
    PROVE  LaunchInv'
<1> DEFINE l == Diagnosed
           ends == {"diag_read"}
<1>1. /\ drain = "end" /\ drain' = "done"
      /\ table' = [table EXCEPT ![owned[l]["diag_read"]] = Closed]
      /\ UNCHANGED <<platform, pc, line, owned, creating, child, childTable>>
      /\ l \in Launches
  BY DEF drop_pipe
<1>2. pc[l] \in Past
  BY <1>1 DEF LaunchInv, ReaderInv
<1>3. LaunchTypeOK'
  BY <1>1, EntriesAreRecords DEF LaunchInv, LaunchTypeOK
<1>4. Has(l, "diag_read") /\ ends \in SUBSET Ends
  BY <1>1, <1>2 DEF Has, Ends
<1>5. table' = [n \in Numbers |-> IF \E e \in ends : owned[l][e] = n THEN Closed ELSE table[n]]
  BY <1>1 DEF LaunchInv, LaunchTypeOK
<1>6. \A f \in Ends \cup {"other", None} :
          /\ Has(l, f)' <=> Has(l, f) /\ f \notin ends
          /\ ~Unmoved(l, f) /\ ~Unmoved(l, f)'
  BY <1>1, <1>2 DEF Has, Unmoved, Past, Tried
<1>7. \A f \in Ends : LacksInv(l, f)'
  <2> TAKE f \in Ends
  <2>1. LacksInv(l, f)
    BY <1>1 DEF LaunchInv, SupervisorInv
  <2> QED
    BY <1>1, <1>2, <1>6, <2>1 DEF LacksInv, Past, Tried
<1>8. pc' = [pc EXCEPT ![l] = pc[l]]
  BY <1>1 DEF LaunchInv, LaunchTypeOK
<1>9. LockInv(l)'
  BY <1>1 DEF LaunchInv, SupervisorInv, LockInv
<1>10. SupervisorInv'
  BY <1>1, <1>3, <1>4, <1>5, <1>6, <1>7, <1>8, <1>9, DropKeeps DEF LaunchInv
<1>11. ChildrenInv'
  BY <1>1, SameChildren DEF LaunchInv
<1>12. ReaderInv'
  BY <1>1, <1>2 DEF ReaderInv
<1> QED
  BY <1>3, <1>10, <1>11, <1>12 DEF LaunchInv

(* The steps of the reader, of who writes to it, and of the handshake.      *)
LEMMA OutsidePreserves ==
    ASSUME LaunchInv, UNCHANGED launchVars, TranscriptNext \/ UNCHANGED transcriptVars
    PROVE  LaunchInv'
<1>1. UNCHANGED <<platform, table, pc, line, owned, creating, child, childTable>>
  BY DEF launchVars
<1>2. /\ drain' = drain \/ (drain # "done" /\ drain' # "done")
      /\ drain' \notin {"off", "none"} => drain \notin {"off", "none"} \/ pc[Diagnosed] \in Past
  <2>1. CASE UNCHANGED transcriptVars
    BY <2>1 DEF transcriptVars
  <2>2. CASE start
    BY <2>2 DEF start, Past, Tried
  <2>3. CASE Drain
    BY <2>3 DEF Drain, loop, poll, bytes_held, drain_rest
  <2>4. CASE finish_stop \/ finish_join \/ Write \/ Heir
    BY <2>4 DEF finish_stop, finish_join, Write, Heir
  <2> QED
    BY <2>1, <2>2, <2>3, <2>4 DEF TranscriptNext
<1>3. LaunchTypeOK'
  BY <1>1 DEF LaunchInv, LaunchTypeOK
<1>4. SupervisorInv'
  BY <1>1, <1>2, SameLaunches DEF LaunchInv
<1>5. ChildrenInv'
  BY <1>1, SameChildren DEF LaunchInv
<1>6. ReaderInv'
  BY <1>1, <1>2 DEF LaunchInv, ReaderInv
<1> QED
  BY <1>3, <1>4, <1>5, <1>6 DEF LaunchInv

LEMMA LaunchStarts == Init => LaunchInv
<1> SUFFICES ASSUME LaunchInit, TranscriptInit PROVE LaunchInv
  BY DEF Init
<1>1. Launches \cup Commands \subseteq Threads
  BY DEF Threads
<1>2. \A n \in Numbers : table[n] \in Entries /\ table[n].launch = None
  BY DEF LaunchInit, Entries, Closed
<1>3. LaunchTypeOK
  <2>1. table \in [Numbers -> Entries]
    BY <1>2 DEF LaunchInit
  <2>2. \A n \in 1..MaxLine : n \in Nat
    OBVIOUS
  <2> QED
    BY <2>1, <2>2, EntriesAreRecords DEF LaunchInit, LaunchTypeOK, Preparing
<1>4. \A l \in Launches : pc[l] \in {"idle", "none"} /\ \A e \in Ends : owned[l][e] = None
  BY <1>1 DEF LaunchInit
<1>5. \A l \in Launches, e \in Ends : ~Has(l, e)
  BY <1>4 DEF Has, Creating, Past, Tried
<1>6. SupervisorInv
  BY <1>2, <1>4, <1>5, EntriesAreRecords DEF SupervisorInv, HasInv, LacksInv, TableInv, LockInv, Creating, LaunchInit
<1>7. ChildrenInv
  BY <1>1, EntriesAreRecords DEF ChildrenInv, HelperInv, CommandInv, LaunchInit, NoTable
<1>8. ReaderInv
  BY DEF ReaderInv, TranscriptInit
<1> QED
  BY <1>3, <1>6, <1>7, <1>8 DEF LaunchInv

LEMMA LaunchSteps == LaunchInv /\ [Next]_vars => LaunchInv'
<1> SUFFICES ASSUME LaunchInv, [Next]_vars PROVE LaunchInv'
  OBVIOUS
<1>1. CASE LaunchNext /\ UNCHANGED <<shakeVars, transcriptVars>>
  <2>1. drain' = drain /\ UNCHANGED <<platform, line>>
    BY <1>1 DEF transcriptVars, LaunchNext
  <2>2. ASSUME NEW l \in Launches, Prepare(l) PROVE LaunchInv'
    BY <2>1, <2>2, PreparePreserves
  <2>3. ASSUME NEW l \in Launches, drop_exec(l) PROVE LaunchInv'
    BY <2>1, <2>3, DropExecPreserves
  <2>4. ASSUME NEW t \in Threads, Spawn(t) PROVE LaunchInv'
    BY <2>1, <2>4, ForkPreserves, ForkFailsPreserves DEF Spawn
  <2>5. ASSUME NEW t \in Threads, Child(t) PROVE LaunchInv'
    BY <2>1, <2>5, ChildPreserves
  <2> QED
    BY <1>1, <2>2, <2>3, <2>4, <2>5 DEF LaunchNext
<1>2. ASSUME NEW t \in Threads, Gone(t) PROVE LaunchInv'
  <2>1. Exits(t) /\ drain' = drain
    BY <1>2 DEF Gone, transcriptVars
  <2> QED
    BY <2>1, ExitPreserves
<1>3. CASE ShakeNext /\ UNCHANGED <<launchVars, transcriptVars>>
  BY <1>3, OutsidePreserves
<1>4. CASE TranscriptNext /\ UNCHANGED <<launchVars, shakeVars>>
  BY <1>4, OutsidePreserves
<1>5. CASE drop_pipe /\ UNCHANGED shakeVars
  BY <1>5, DropPipePreserves
<1>6. CASE UNCHANGED vars
  BY <1>6, OutsidePreserves DEF vars
<1> QED
  BY <1>1, <1>2, <1>3, <1>4, <1>5, <1>6 DEF Next

(* What the supervisor and the children have of every launch.               *)
THEOREM LaunchInvariant == Spec => []LaunchInv
BY LaunchStarts, LaunchSteps, PTL DEF Spec

LEMMA LaunchIsHome == LaunchInv => EndsStayHome
<1> SUFFICES ASSUME LaunchInv PROVE EndsStayHome
  OBVIOUS
<1>1. ASSUME NEW l \in Launches, child[l] = "reading"
      PROVE  /\ childTable[l] = [n \in Numbers |->
                    IF n > 3 THEN Closed
                    ELSE [object |-> <<"null", "null", "diag_write", "recipe_read">>[n + 1],
                          launch |-> l, inherits |-> TRUE]]
             /\ ~Holds(table, "recipe_write", l)
  <2>1. childTable[l] = Handed(l) /\ pc[l] \in {"spawned", "launched"}
    BY <1>1 DEF LaunchInv, ChildrenInv, HelperInv
  <2>2. ~Has(l, "recipe_write")
    BY <2>1 DEF Has
  <2>3. ~Holds(table, "recipe_write", l)
    BY <2>2, EntriesAreRecords DEF Holds, LaunchInv, SupervisorInv, TableInv
  <2> QED
    BY <2>1, <2>3 DEF Handed, Inherited
<1>2. \A l \in Launches : child[l] # "refused"
  BY EntriesAreRecords DEF LaunchInv, LaunchTypeOK, Executed
<1>3. ASSUME NEW t \in Threads, NEW n \in Numbers, child[t] \in Executed
      PROVE  childTable[t][n].launch \in {None, t}
  <2>1. CASE t \in Launches
    <3>1. childTable[t] = Handed(t) \/ childTable[t] = [Handed(t) EXCEPT ![3] = Closed]
      BY <1>3, <2>1 DEF LaunchInv, ChildrenInv, HelperInv, Executed
    <3>2. Handed(t)[n].launch \in {None, t}
      BY <2>1, HandedIsTable, HandedEntries, EntriesAreRecords DEF Ends
    <3> QED
      BY <2>1, <3>1, <3>2, HandedIsTable, EntriesAreRecords
  <2>2. CASE t \in Commands
    BY <1>3, <2>2 DEF LaunchInv, ChildrenInv, CommandInv, Executed
  <2> QED
    BY <2>1, <2>2 DEF Threads
<1>4. ASSUME NEW l \in Launches
      PROVE  LET left == {table[n].object : n \in {m \in Numbers : table[m].launch = l}} IN
             /\ pc[l] = "refused" => left = {} /\ creating # l
             /\ pc[l] \in {"unforked", "launched"} => left \subseteq {"diag_read"}
  <2>1. \A n \in Numbers : table[n].launch = l => Has(l, table[n].object)
    BY EntriesAreRecords DEF LaunchInv, SupervisorInv, TableInv
  <2>2. pc[l] = "refused" => creating # l
    BY DEF LaunchInv, SupervisorInv, LockInv, Creating
  <2>3. pc[l] = "refused" => \A e : ~Has(l, e)
    BY DEF Has, Creating, Past, Tried
  <2>4. pc[l] \in {"unforked", "launched"} => \A e : Has(l, e) => e = "diag_read"
    BY DEF Has, Creating
  <2> QED
    BY <2>1, <2>2, <2>3, <2>4
<1> QED
  BY <1>1, <1>2, <1>3, <1>4 DEF EndsStayHome

(* A helper finds its own four descriptors, no other program an end of its  *)
(* pipes, and a refusal leaves nothing: install_descriptors,                *)
(* close_above_three, the spawn lock and the refusals of HelperExec, for    *)
(* any number of threads, descriptors and interleavings.                    *)
THEOREM DescriptorsStayHome == Spec => []EndsStayHome
BY LaunchInvariant, LaunchIsHome, PTL

----------------------------------------------------------------------------
(* The transcript                                                           *)

Kept == IF taken <= TranscriptCap THEN taken ELSE TranscriptCap

(* What the reader has done, and what it owes to the caller of finish.      *)
TranscriptInv ==
    /\ written \in Nat /\ taken \in Nat /\ bytes \in Nat /\ dropped \in Nat /\ rest \in Int
    /\ eof \in BOOLEAN /\ stop \in BOOLEAN /\ heir \in BOOLEAN
    /\ drain \in {"off", "none", "loop", "poll", "held", "rest", "end", "done"}
    /\ finish \in {"none", "join", "returned"}
    /\ atStop \in [written : Nat, closed : BOOLEAN]
    /\ taken <= written /\ bytes = Kept /\ dropped = taken - bytes
    /\ stop <=> finish # "none"
    /\ finish # "none" => drain \notin {"off", "none"} /\ atStop.written <= written
    /\ finish = "returned" => drain = "done"
    /\ eof => ~Open /\ taken = written /\ drain \in {"end", "done"}
    /\ atStop.closed => stop /\ ~Open /\ atStop.written = written
    /\ drain = "held" => stop
    /\ drain = "rest" => /\ stop
                         /\ taken + rest >= atStop.written
                         /\ atStop.closed => taken + rest = written
    /\ drain \in {"end", "done"} /\ ~eof => stop /\ taken >= atStop.written /\ ~atStop.closed

LEMMA MinOfTwo ==
    ASSUME NEW a \in Int, NEW b \in Int
    PROVE  Min({a, b}) = IF a <= b THEN a ELSE b
BY DEF Min

(* The steps of a launch end where it has its child, or none.               *)
LEMMA LaunchedStays ==
    ASSUME LaunchInv, [Next]_vars, NEW l \in Launches, pc[l] \in {"launched", "unforked"}
    PROVE  pc'[l] = pc[l]
<1>1. l \in Threads /\ pc \in [Threads -> Preparing \cup Past \cup {"none", "refused"}]
  BY EntriesAreRecords DEF LaunchInv, LaunchTypeOK
<1>2. ASSUME NEW k \in Launches, Prepare(k) PROVE pc'[l] = pc[l]
  <2>1. pc[k] \in Preparing /\ \E next : pc' = [pc EXCEPT ![k] = next]
    BY <1>2 DEF Prepare, open_null, create_pipes, write_held, with_each_descriptor_held, preload, Refuse, Goto,
         moved_above_stdio, pipe, Preparing, Creating
  <2>2. k # l
    BY <2>1 DEF Preparing, Creating
  <2> QED
    BY <1>1, <2>1, <2>2
<1>3. CASE LaunchNext
  <2>1. ASSUME NEW k \in Launches, drop_exec(k) PROVE pc'[l] = pc[l]
    BY <1>1, <2>1 DEF drop_exec, Goto
  <2>2. ASSUME NEW t \in Threads, Spawn(t) PROVE pc'[l] = pc[l]
    BY <1>1, <2>2 DEF Spawn, fork, fork_fails, MayFork, Goto
  <2>3. ASSUME NEW t \in Threads, Child(t) PROVE pc'[l] = pc[l]
    BY <2>3 DEF Child
  <2> QED
    BY <1>2, <1>3, <2>1, <2>2, <2>3 DEF LaunchNext
<1>4. ASSUME NEW t \in Threads, Gone(t) PROVE pc'[l] = pc[l]
  BY <1>4 DEF Gone, Exits
<1>5. CASE drop_pipe \/ UNCHANGED launchVars
  BY <1>5 DEF drop_pipe, launchVars
<1> QED
  BY <1>3, <1>4, <1>5 DEF Next, vars

(* Where a child's descriptors come from.                                   *)
LEMMA ChildSources ==
    ASSUME LaunchInv, [Next]_vars, NEW t \in Threads, NEW n \in Numbers
    PROVE  \/ childTable'[t][n] \in {childTable[t][n], Closed, table[n]}
           \/ t \in Launches /\ child[t] = "forked" /\ childTable'[t][n].launch = t
<1>1. childTable \in [Threads -> [Numbers -> Entries]] /\ table \in [Numbers -> Entries]
  BY DEF LaunchInv, LaunchTypeOK
<1>2. ASSUME NEW k \in Threads, Child(k)
      PROVE  \/ childTable'[t][n] \in {childTable[t][n], Closed}
             \/ t \in Launches /\ child[t] = "forked" /\ childTable'[t][n].launch = t
  <2>1. CASE k \in Launches /\ launch(k)
    <3>1. child[k] = "forked" /\ childTable' = [childTable EXCEPT ![k] = install_descriptors(k)]
      BY <2>1 DEF launch
    <3>2. CASE t # k
      BY <1>1, <3>1, <3>2
    <3>3. CASE t = k /\ n \in {0, 1, 2, 3}
      <4>1. childTable'[t][n] = Handed(t)[n]
        BY <1>1, <2>1, <3>1, <3>3, Installs
      <4>2. Handed(t)[n].launch = t
        BY <2>1, <3>3, HandedIsTable, HandedEntries DEF Ends
      <4> QED
        BY <2>1, <3>1, <3>3, <4>1, <4>2
    <3>4. CASE t = k /\ n \notin {0, 1, 2, 3}
      BY <1>1, <2>1, <3>1, <3>4, Installs
    <3> QED
      BY <3>2, <3>3, <3>4
  <2>2. CASE close_above_three(k) \/ execve(k)
    BY <1>1, <2>2 DEF close_above_three, execve
  <2>3. CASE judge_descriptors(k)
    BY <1>1, <2>3 DEF judge_descriptors, NoTable
  <2>4. CASE read_recipe(k)
    BY <1>1, <2>4 DEF read_recipe
  <2> QED
    BY <1>2, <2>1, <2>2, <2>3, <2>4 DEF Child
<1>3. CASE LaunchNext
  <2>1. ASSUME NEW k \in Launches, Prepare(k) \/ drop_exec(k) PROVE childTable'[t][n] = childTable[t][n]
    BY <2>1 DEF Prepare, drop_exec
  <2>2. ASSUME NEW k \in Threads, Spawn(k) PROVE childTable'[t][n] \in {childTable[t][n], table[n]}
    BY <1>1, <2>2 DEF Spawn, fork, fork_fails
  <2> QED
    BY <1>2, <1>3, <2>1, <2>2 DEF LaunchNext
<1>4. ASSUME NEW k \in Threads, Gone(k) PROVE childTable'[t][n] \in {childTable[t][n], Closed}
  BY <1>1, <1>4 DEF Gone, Exits, Exit, NoTable
<1>5. CASE drop_pipe \/ UNCHANGED launchVars
  BY <1>5 DEF drop_pipe, launchVars
<1> QED
  BY <1>3, <1>4, <1>5 DEF Next, vars

(* A helper that runs has its descriptor 2.                                 *)
LEMMA RunningIsOpen ==
    ASSUME LaunchInv, child[Diagnosed] \in Executed \cup {"forked"}
    PROVE  Open
<1>1. HelperInv(Diagnosed) /\ Diagnosed \in Threads
  BY DEF LaunchInv, ChildrenInv, Threads
<1>2. \E n \in Numbers : /\ childTable[Diagnosed][n].object = "diag_write"
                         /\ childTable[Diagnosed][n].launch = Diagnosed
  <2>1. "diag_write" \in Ends /\ 2 \in Numbers /\ 3 \in Numbers /\ 2 # 3
    BY HandedIsTable DEF Ends
  <2>2. CASE child[Diagnosed] = "forked"
    <3>1. /\ owned[Diagnosed]["diag_write"] \in Numbers
          /\ childTable[Diagnosed][owned[Diagnosed]["diag_write"]] = Private("diag_write", Diagnosed)
      BY <1>1, <2>2 DEF HelperInv
    <3> QED
      BY <2>1, <3>1, HandedEntries
  <2>3. CASE child[Diagnosed] \in Executed
    <3>1. childTable[Diagnosed] \in {Handed(Diagnosed), [Handed(Diagnosed) EXCEPT ![3] = Closed]}
      BY <1>1, <2>3 DEF HelperInv, Executed
    <3>2. childTable[Diagnosed][2] = Inherited("diag_write", Diagnosed)
      BY <2>1, <3>1, HandedIsTable
    <3> QED
      BY <2>1, <3>2, HandedEntries
  <2> QED
    BY <2>2, <2>3
<1> QED
  BY <1>1, <1>2 DEF Open, HeldAnywhere, Holds

(* The write end of the diagnostic pipe does not come back.                 *)
LEMMA ClosedStays ==
    ASSUME LaunchInv, LaunchInv', [Next]_vars, pc[Diagnosed] \in Past, ~Open
    PROVE  ~Open'
<1>1. ~heir /\ ~Holds(table, "diag_write", Diagnosed)
      /\ \A t \in Threads : ~Holds(childTable[t], "diag_write", Diagnosed)
  BY DEF Open, HeldAnywhere
<1>2. child[Diagnosed] \notin Executed \cup {"forked"}
  BY RunningIsOpen
<1>3. ~heir'
  <2>1. CASE TranscriptNext
    <3>1. ~Heir
      BY <1>1, <1>2 DEF Heir
    <3> QED
      BY <1>1, <2>1, <3>1 DEF TranscriptNext, start, Drain, finish_stop, finish_join, Write
  <2>2. CASE drop_pipe
    BY <1>1, <2>2 DEF drop_pipe
  <2>3. CASE UNCHANGED transcriptVars
    BY <1>1, <2>3 DEF transcriptVars
  <2> QED
    BY <2>1, <2>2, <2>3 DEF Next, Gone, vars
<1>4. ~Holds(table, "diag_write", Diagnosed)'
  <2>1. ~Has(Diagnosed, "diag_write")
    <3>1. HasInv(Diagnosed, "diag_write")
      BY DEF LaunchInv, SupervisorInv, Ends
    <3> QED
      BY <1>1, <3>1 DEF HasInv, Holds
  <2>2. pc[Diagnosed] \in {"launched", "unforked"}
    BY <2>1 DEF Has, Past, Tried
  <2>3. pc'[Diagnosed] \in {"launched", "unforked"}
    BY <2>2, LaunchedStays
  <2>4. ~Has(Diagnosed, "diag_write")'
    BY <2>3 DEF Has, Creating
  <2>5. \A n \in Numbers : TableInv(n)'
    BY DEF LaunchInv, SupervisorInv
  <2> QED
    BY <2>4, <2>5, EntriesAreRecords DEF Holds, TableInv
<1>5. ASSUME NEW t \in Threads PROVE ~Holds(childTable[t], "diag_write", Diagnosed)'
  <2> SUFFICES ASSUME NEW n \in Numbers, childTable'[t][n].object = "diag_write",
                      childTable'[t][n].launch = Diagnosed
               PROVE  FALSE
    BY DEF Holds
  <2>1. childTable'[t][n] \in {childTable[t][n], Closed, table[n]} \/ (child[t] = "forked" /\ t = Diagnosed)
    BY ChildSources
  <2> QED
    BY <1>1, <1>2, <2>1, EntriesAreRecords DEF Holds
<1> QED
  BY <1>3, <1>4, <1>5 DEF Open, HeldAnywhere

LEMMA KeepCounts ==
    ASSUME TranscriptInv, NEW count \in Nat, keep(count)
    PROVE  /\ taken' = taken + count
           /\ bytes' = Kept' /\ dropped' = taken' - bytes'
           /\ taken' \in Nat /\ bytes' \in Nat /\ dropped' \in Nat
<1> DEFINE kept == Min({count, TranscriptCap - bytes})
<1>1. TranscriptCap - bytes \in Nat /\ bytes \in Nat /\ taken \in Nat
  BY DEF TranscriptInv, Kept
<1>2. kept = IF count <= TranscriptCap - bytes THEN count ELSE TranscriptCap - bytes
  BY <1>1, MinOfTwo
<1> HIDE DEF kept
<1>3. taken' = taken + count /\ bytes' = bytes + kept /\ dropped' = dropped + count - kept
  BY DEF keep, kept
<1> QED
  BY <1>1, <1>2, <1>3 DEF TranscriptInv, Kept

(* The steps that leave the reader alone.                                   *)
LEMMA TranscriptStays ==
    ASSUME TranscriptInv, LaunchInv, LaunchInv', [Next]_vars, UNCHANGED transcriptVars
    PROVE  TranscriptInv'
<1>1. drain \notin {"off", "none"} => pc[Diagnosed] \in Past
  BY DEF LaunchInv, ReaderInv
<1>2. eof \/ atStop.closed => drain \notin {"off", "none"} /\ ~Open
  BY DEF TranscriptInv
<1>3. eof \/ atStop.closed => ~Open'
  BY <1>1, <1>2, ClosedStays
<1> QED
  BY <1>3 DEF TranscriptInv, transcriptVars, Kept

LEMMA DrainKeeps ==
    ASSUME TranscriptInv, Drain, Open' = Open
    PROVE  TranscriptInv'
<1> USE DEF TranscriptInv
<1>1. UNCHANGED <<written, stop, finish, heir, atStop>>
  BY DEF Drain
<1>2. CASE loop
  BY <1>1, <1>2 DEF loop, Kept
<1>3. CASE bytes_held
  BY <1>1, <1>3 DEF bytes_held, Kept, Held
<1> DEFINE count == Min({Held, Chunk})
<1>4. Held > 0 => count \in Nat /\ count <= Held
  BY MinOfTwo DEF Held
<1>5. ASSUME Held > 0, take
      PROVE  /\ taken' = taken + count /\ taken' <= written
             /\ bytes' = Kept' /\ dropped' = taken' - bytes'
             /\ taken' \in Nat /\ bytes' \in Nat /\ dropped' \in Nat
  <2>1. keep(count)
    BY <1>5 DEF take
  <2> HIDE DEF count
  <2> QED
    BY <1>4, <1>5, <2>1, KeepCounts DEF Held
<1> HIDE DEF count
<1>6. CASE poll
  <2>1. drain = "poll" /\ rest' = rest /\ ~eof
    BY <1>6 DEF poll
  <2>2. CASE ~Readable /\ drain' = "loop" /\ UNCHANGED <<taken, bytes, dropped, eof>>
    BY <1>1, <2>1, <2>2 DEF Kept
  <2>3. CASE Held > 0 /\ take /\ drain' = "loop" /\ UNCHANGED eof
    BY <1>1, <1>5, <2>1, <2>3
  <2>4. CASE Held = 0 /\ ~Open /\ eof' = TRUE /\ drain' = "end" /\ UNCHANGED <<taken, bytes, dropped>>
    BY <1>1, <2>1, <2>4 DEF Kept, Held
  <2> QED
    BY <1>6, <2>2, <2>3, <2>4 DEF poll
<1>7. CASE drain_rest
  <2>1. drain = "rest" /\ ~eof
    BY <1>7 DEF drain_rest
  <2>2. CASE Held > 0 /\ take /\ rest' = rest - count /\ UNCHANGED <<drain, eof>>
    BY <1>1, <1>4, <1>5, <2>1, <2>2
  <2>3. CASE Held = 0 /\ ~Open /\ eof' = TRUE /\ drain' = "end" /\ UNCHANGED <<taken, bytes, dropped, rest>>
    BY <1>1, <2>1, <2>3 DEF Kept, Held
  <2>4. CASE (~More \/ ~Readable) /\ drain' = "end" /\ UNCHANGED <<taken, bytes, dropped, eof, rest>>
    BY <1>1, <2>1, <2>4 DEF Kept, Held, More, Readable
  <2> QED
    BY <1>7, <2>2, <2>3, <2>4 DEF drain_rest, count
<1> QED
  BY <1>2, <1>3, <1>6, <1>7 DEF Drain

LEMMA TranscriptSteps == TranscriptInv /\ LaunchInv /\ LaunchInv' /\ [Next]_vars => TranscriptInv'
<1> SUFFICES ASSUME TranscriptInv, LaunchInv, LaunchInv', [Next]_vars PROVE TranscriptInv'
  OBVIOUS
<1>1. CASE UNCHANGED transcriptVars
  BY <1>1, TranscriptStays
<1>2. CASE TranscriptNext /\ UNCHANGED <<launchVars, shakeVars>>
  <2>1. HeldAnywhere("diag_write", Diagnosed)' = HeldAnywhere("diag_write", Diagnosed)
    BY <1>2 DEF launchVars, HeldAnywhere, Holds
  <2>2. heir' = heir => Open' = Open
    BY <2>1 DEF Open
  <2>3. CASE start
    BY <2>2, <2>3 DEF start, TranscriptInv, Kept
  <2>4. CASE Drain
    BY <2>2, <2>4, DrainKeeps DEF Drain
  <2>5. CASE finish_stop
    BY <2>2, <2>5 DEF finish_stop, TranscriptInv, Kept
  <2>6. CASE finish_join
    BY <2>2, <2>6 DEF finish_join, TranscriptInv, Kept
  <2>7. CASE Write
    <3>1. Open
      BY <2>7, RunningIsOpen DEF Write, Open
    <3> QED
      BY <2>2, <2>7, <3>1 DEF Write, TranscriptInv, Kept
  <2>8. CASE Heir
    <3>1. Open
      BY <2>8, RunningIsOpen DEF Heir, Open
    <3> QED
      BY <2>8, <3>1 DEF Heir, TranscriptInv, Kept
  <2> QED
    BY <1>2, <2>3, <2>4, <2>5, <2>6, <2>7, <2>8 DEF TranscriptNext
<1>3. CASE drop_pipe /\ UNCHANGED shakeVars
  <2>1. drain = "end" /\ drain' = "done"
        /\ UNCHANGED <<written, taken, bytes, dropped, eof, rest, stop, finish, heir, atStop>>
    BY <1>3 DEF drop_pipe
  <2>2. ~Open => ~Open'
    BY <2>1, ClosedStays DEF LaunchInv, ReaderInv
  <2> QED
    BY <2>1, <2>2 DEF TranscriptInv, Kept
<1> QED
  BY <1>1, <1>2, <1>3 DEF Next, Gone, vars

(* The reader's bookkeeping: what it has read is kept or counted, and what  *)
(* it still may take covers what was written at the stop.                   *)
THEOREM TranscriptInvariant == Spec => []TranscriptInv
<1>1. ASSUME Init PROVE TranscriptInv
  <2>1. TranscriptInit
    BY <1>1 DEF Init
  <2>2. atStop \in [written : Nat, closed : BOOLEAN] /\ ~atStop.closed
    BY <2>1 DEF TranscriptInit
  <2>3. bytes = Kept /\ dropped = taken - bytes
    BY <2>1 DEF TranscriptInit, Kept
  <2>4. /\ eof \in BOOLEAN /\ stop \in BOOLEAN /\ heir \in BOOLEAN
        /\ ~eof /\ ~stop
    BY <2>1, Zenon DEF TranscriptInit
  <2>5. /\ written = 0 /\ taken = 0 /\ bytes = 0 /\ dropped = 0 /\ rest = 0
        /\ drain \in {"off", "none"} /\ finish = "none"
    BY <2>1 DEF TranscriptInit
  <2> QED
    BY <2>2, <2>3, <2>4, <2>5 DEF TranscriptInv
<1> QED
  BY <1>1, LaunchInvariant, TranscriptSteps, PTL DEF Spec

LEMMA TranscriptIsKept == TranscriptInv => TranscriptIsComplete
BY MinOfTwo DEF TranscriptInv, TranscriptIsComplete, Kept

(* What finish returns is all that was written before it stopped the        *)
(* reader, and end of file is told when it was so, for any cap, chunk and   *)
(* amount written.                                                          *)
THEOREM TranscriptComplete == Spec => []TranscriptIsComplete
BY TranscriptInvariant, TranscriptIsKept, PTL

----------------------------------------------------------------------------
(* The handshake                                                            *)

AcceptSteps == {"begin", "accept", "accepted", "wait", "alive"}
ReplySteps == {"send", "read", "took", "wait_read", "alive_read", "judge", "judged"}
ReplyStages == {"NormalReply", "WithdrawalReply"}
Failures == {"Cancelled", "TimedOut", "PeerRefused", "ForeignPeer", "HelperEnded", "LivenessUnknown",
             "Closed", "FrameTooLarge", "UnexpectedBytes", "Refused"}

Connected == [phase : {"never", "new", "queued", "accepted", "closed"}, gone : BOOLEAN, asked : {0, 1, 2},
              sent : Nat, inbox : Seq({Piece} \cup Said)]

ShakeTypeOK ==
    /\ honest \in BOOLEAN /\ shutdown \in BOOLEAN /\ spent \in BOOLEAN /\ trailing \in BOOLEAN
    /\ conn \in [Connections -> Connected]
    /\ queue \in [{"control", "data"} -> Seq(Connections)]
    /\ stage \in {"NormalAccept", "WithdrawalAccept", "DataAccept"} \cup ReplyStages
    /\ step \in {"none", "ended"} \cup AcceptSteps \cup ReplySteps
    /\ frame \in Nat
    /\ reply \in Said \cup {NoLine}
    /\ streams \in Seq(Connections)
    /\ heard \in Seq(Said)
    /\ result \in {"none", "ok"} \cup Failures

(* Where the handshake is, and how many streams it has.                     *)
StepInv ==
    /\ result = "none" <=> step # "ended"
    /\ step \notin {"none", "begin"} => pc[Helper] = "launched"
    /\ step \in ReplySteps => stage \in ReplyStages
    /\ step \in AcceptSteps \cup {"none"} => stage \notin ReplyStages
    /\ step \in {"none", "begin"} => stage = "NormalAccept"
    /\ result = "ok" => stage = "DataAccept"
    /\ result \in Failures => streams = <<>>
    /\ result = "ok" => Len(streams) = 3
    /\ result = "none" /\ step # "accepted" =>
          Len(streams) = IF stage = "NormalAccept" THEN 0
                         ELSE IF stage \in {"NormalReply", "WithdrawalAccept"} THEN 1 ELSE 2
    /\ step = "accepted" =>
          Len(streams) = IF stage = "NormalAccept" THEN 1 ELSE IF stage = "WithdrawalAccept" THEN 2 ELSE 3

(* Who waits, each once and at its listener, has not been talked to.        *)
WaitsInv(q) == \A i \in 1..Len(queue[q]) : conn[queue[q][i]].phase = "queued" /\ At[queue[q][i]] = q

OnceInv(q) == \A i, j \in 1..Len(queue[q]) : queue[q][i] = queue[q][j] => i = j

FreshInv(c) ==
    conn[c].phase \in {"never", "new", "queued"} =>
        conn[c].asked = 0 /\ conn[c].sent = 0 /\ conn[c].inbox = <<>>

QueueInv ==
    /\ \A q \in {"control", "data"} : WaitsInv(q) /\ OnceInv(q)
    /\ \A c \in Connections : FreshInv(c)

(* Who was accepted is the helper, at the listener of the stage.            *)
StreamInv ==
    /\ \A i \in 1..Len(streams) :
          /\ By[streams[i]] = Helper
          /\ conn[streams[i]].phase = "accepted"
          /\ At[streams[i]] = IF i = 3 THEN "data" ELSE "control"
    /\ \A i, j \in 1..Len(streams) : streams[i] = streams[j] => i = j
    /\ \A c \in Connections : conn[c].phase = "accepted" => \E i \in 1..Len(streams) : streams[i] = c

(* What each stream was asked, and what was heard on it.                    *)
AskedInv ==
    /\ result \in {"none", "ok"} =>
          /\ stage \in {"WithdrawalAccept", "WithdrawalReply", "DataAccept"} => conn[streams[1]].asked = 1
          /\ stage = "DataAccept" => conn[streams[2]].asked = 2
          /\ step \in ReplySteps => conn[Stream].asked = IF step = "send" THEN 0 ELSE Lane(stage)
          /\ result = "ok" \/ step = "accepted" => conn[Stream].asked = 0
    /\ step = "accepted" => conn[Stream].sent = 0 /\ conn[Stream].inbox = <<>>

HeardInv ==
    /\ Len(heard) = IF stage \in {"NormalAccept", "NormalReply"} THEN 0
                    ELSE IF stage \in {"WithdrawalAccept", "WithdrawalReply"} THEN 1 ELSE 2
    /\ \A i \in 1..Len(heard) : heard[i] = Line("result", i, boot, Policy)
    /\ step \in {"judge", "judged"} => reply # NoLine
    /\ step \notin {"took", "judge", "judged", "ended"} => reply = NoLine
    /\ step = "judged" =>
          /\ reply = Line("result", Lane(stage), reply.boot, Policy)
          /\ stage = "WithdrawalReply" => reply.boot = boot

(* What an honest guest has said: pieces, and the end of the line last.     *)
Good == Line("result", Lane(stage), Boot, Policy)

Ended(said) == \E i \in 1..Len(said) : said[i].kind # "part"

Spoken(said, sent, got, told, good) ==
    /\ \A i \in 1..Len(said) : said[i].kind # "part" => i = Len(said) /\ said[i] = good
    /\ Ended(said) => sent = MaxPieces /\ got + Len(said) <= MaxResponse + 1
    /\ ~Ended(said) /\ told = NoLine => got + Len(said) <= sent /\ sent <= MaxResponse
    /\ told # NoLine => sent = MaxPieces /\ said = <<>>

HonestInv ==
    honest =>
        /\ ~trailing /\ boot = Boot
        /\ step \in ReplySteps => reply \in {NoLine, Good}
        /\ step = "send" => conn[Stream].sent = 0 /\ conn[Stream].inbox = <<>>
        /\ step \in ReplySteps \ {"send"} =>
              Spoken(conn[Stream].inbox, conn[Stream].sent, frame, reply, Good)

ShakeInv ==
    /\ ShakeTypeOK /\ StepInv /\ QueueInv /\ StreamInv /\ AskedInv /\ HeardInv /\ HonestInv
    /\ FailureIsTrue

USE HandshakeAssumption

LEMMA StreamsAreMade ==
    ASSUME ShakeInv
    PROVE  /\ Len(streams) \in Nat /\ DOMAIN streams = 1..Len(streams)
           /\ \A i \in 1..Len(streams) : streams[i] \in Connections
           /\ \A c : c \in Range(streams) <=> \E i \in 1..Len(streams) : streams[i] = c
           /\ step \in ReplySteps \cup {"accepted"} \/ result = "ok" =>
                 /\ Len(streams) >= 1 /\ Stream = streams[Len(streams)] /\ Stream \in Connections
                 /\ By[Stream] = Helper /\ conn[Stream].phase = "accepted"
<1>1. Len(streams) \in Nat /\ DOMAIN streams = 1..Len(streams)
      /\ \A i \in 1..Len(streams) : streams[i] \in Connections
  BY DEF ShakeInv, ShakeTypeOK
<1>2. \A c : c \in Range(streams) <=> \E i \in 1..Len(streams) : streams[i] = c
  BY <1>1 DEF Range
<1>3. step \in ReplySteps \cup {"accepted"} \/ result = "ok" => Len(streams) >= 1
  <2>1. result = "ok" => Len(streams) >= 1
    BY DEF ShakeInv, StepInv
  <2>2. step = "accepted" => Len(streams) >= 1
    BY DEF ShakeInv, StepInv
  <2>3. step \in ReplySteps => result = "none" /\ step # "accepted" /\ stage \in ReplyStages
    BY DEF ShakeInv, StepInv, ReplySteps
  <2>4. step \in ReplySteps => Len(streams) >= 1
    BY <2>3 DEF ShakeInv, StepInv, ReplyStages
  <2> QED
    BY <2>1, <2>2, <2>4
<1>4. Stream = streams[Len(streams)]
  BY DEF Stream, Last
<1>5. Len(streams) >= 1 => Stream \in Connections /\ By[Stream] = Helper /\ conn[Stream].phase = "accepted"
  BY <1>1, <1>4 DEF ShakeInv, StreamInv
<1> QED
  BY <1>1, <1>2, <1>3, <1>4, <1>5

LEMMA AcceptedIsStream ==
    ASSUME ShakeInv, NEW c \in Connections
    PROVE  c \in Range(streams) <=> conn[c].phase = "accepted"
<1>1. \A i \in 1..Len(streams) : conn[streams[i]].phase = "accepted"
  BY DEF ShakeInv, StreamInv
<1>2. conn[c].phase = "accepted" => \E i \in 1..Len(streams) : streams[i] = c
  BY DEF ShakeInv, StreamInv
<1>3. c \in Range(streams) <=> \E i \in 1..Len(streams) : streams[i] = c
  BY StreamsAreMade
<1> QED
  BY <1>1, <1>2, <1>3

LEMMA NotFailedYet == result \in {"none", "ok"} => FailureIsTrue
BY DEF FailureIsTrue

(* What the streams and the queues say depends on the phases.               *)
LEMMA QueueStays ==
    ASSUME ShakeInv, queue' = queue,
           \A c \in Connections : conn[c].phase = "queued" => conn'[c].phase = "queued",
           \A c \in Connections : FreshInv(c)'
    PROVE  QueueInv'
<1>1. ASSUME NEW q \in {"control", "data"} PROVE WaitsInv(q)' /\ OnceInv(q)'
  <2>1. WaitsInv(q) /\ OnceInv(q) /\ \A i \in 1..Len(queue[q]) : queue[q][i] \in Connections
    BY DEF ShakeInv, QueueInv, ShakeTypeOK
  <2>2. ASSUME NEW i \in 1..Len(queue[q])
        PROVE  conn'[queue[q][i]].phase = "queued" /\ At[queue[q][i]] = q
    BY <2>1 DEF WaitsInv
  <2>3. WaitsInv(q)'
    BY <2>2 DEF WaitsInv
  <2>4. OnceInv(q)'
    BY <2>1 DEF OnceInv
  <2> QED
    BY <2>3, <2>4
<1> QED
  BY <1>1 DEF QueueInv

LEMMA StreamsStay ==
    ASSUME ShakeInv, streams' = streams,
           \A c \in Connections : conn'[c].phase = "accepted" <=> conn[c].phase = "accepted"
    PROVE  StreamInv'
<1>1. StreamInv
  BY DEF ShakeInv
<1>2. \A i \in 1..Len(streams) : conn'[streams[i]].phase = "accepted"
  BY <1>1, StreamsAreMade DEF StreamInv
<1>3. \A c \in Connections : conn'[c].phase = "accepted" => \E i \in 1..Len(streams) : streams[i] = c
  BY <1>1 DEF StreamInv
<1> QED
  BY <1>1, <1>2, <1>3 DEF StreamInv

(* A failure closes every stream.                                           *)
LEMMA FailKeeps ==
    ASSUME ShakeInv, NEW cause \in Failures, Fail(cause), UNCHANGED <<honest, shutdown, spent, pc>>,
           step \notin {"none", "ended"}, pc[Helper] = "launched", FailureIsTrue'
    PROVE  ShakeInv'
<1>1. /\ result' = cause /\ step' = "ended" /\ streams' = <<>>
      /\ UNCHANGED <<queue, stage, frame, reply, trailing, heard, boot>>
      /\ conn' = [c \in Connections |->
                    IF c \in Range(streams) THEN [conn[c] EXCEPT !.phase = "closed"] ELSE conn[c]]
  BY DEF Fail
<1>2. ASSUME NEW c \in Connections
      PROVE  /\ conn[c] \in Connected /\ conn'[c] \in Connected
             /\ \/ conn'[c] = conn[c] /\ conn[c].phase # "accepted"
                \/ conn'[c].phase = "closed" /\ conn[c].phase = "accepted"
  <2>1. conn[c] \in Connected
    BY DEF ShakeInv, ShakeTypeOK
  <2>2. c \in Range(streams) <=> conn[c].phase = "accepted"
    BY AcceptedIsStream
  <2>3. conn'[c] = IF c \in Range(streams) THEN [conn[c] EXCEPT !.phase = "closed"] ELSE conn[c]
    BY <1>1
  <2>4. [conn[c] EXCEPT !.phase = "closed"] \in Connected /\ [conn[c] EXCEPT !.phase = "closed"].phase = "closed"
    BY <2>1 DEF Connected
  <2> QED
    BY <2>1, <2>2, <2>3, <2>4
<1>3. ShakeTypeOK'
  <2>1. conn' \in [Connections -> Connected]
    BY <1>1, <1>2
  <2> QED
    <3>1. ShakeTypeOK /\ <<>> \in Seq(Connections)
      BY DEF ShakeInv
    <3> QED
      BY <1>1, <2>1, <3>1 DEF ShakeTypeOK
<1>4. StepInv'
  BY <1>1 DEF ShakeInv, StepInv, Failures, ReplySteps, AcceptSteps
<1>5. QueueInv'
  <2>1. ASSUME NEW c \in Connections PROVE FreshInv(c)'
    <3>1. FreshInv(c)
      BY DEF ShakeInv, QueueInv
    <3> QED
      BY <3>1, <1>2 DEF FreshInv
  <2> QED
    BY <1>1, <1>2, <2>1, QueueStays
<1>6. StreamInv'
  <2>1. \A i \in 1..Len(streams') : FALSE
    BY <1>1
  <2>2. \A c \in Connections : conn'[c].phase # "accepted"
    BY <1>2
  <2> QED
    BY <2>1, <2>2 DEF StreamInv
<1>7. AskedInv' /\ HeardInv' /\ HonestInv'
  BY <1>1 DEF ShakeInv, AskedInv, HeardInv, HonestInv, Failures, ReplySteps
<1> QED
  BY <1>3, <1>4, <1>5, <1>6, <1>7 DEF ShakeInv

LEMMA GateIsTrue ==
    ASSUME ShakeInv, remaining_at # "left", Fail(remaining_at), UNCHANGED <<honest, shutdown, spent>>
    PROVE  remaining_at \in Failures /\ FailureIsTrue'
BY DEF remaining_at, Fail, FailureIsTrue, Failures

(* A step that only moves on.                                               *)
LEMMA ProceedKeeps ==
    ASSUME ShakeInv, NEW next, Proceed(next), UNCHANGED <<honest, shutdown, spent, peerVars, pc>>,
           pc[Helper] = "launched",
           \/ step \in AcceptSteps \ {"accepted"} /\ next \in AcceptSteps \ {"begin", "accepted"}
           \/ /\ step \in ReplySteps \ {"send"} /\ next \in ReplySteps \ {"send"}
              /\ next \in {"judge", "judged"} => reply # NoLine
              /\ next \notin {"judge", "judged"} => reply = NoLine
              /\ next = "judged" => /\ reply = Line("result", Lane(stage), reply.boot, Policy)
                                    /\ stage = "WithdrawalReply" => reply.boot = boot
    PROVE  ShakeInv'
<1>1. /\ step' = next /\ UNCHANGED <<conn, queue>>
      /\ UNCHANGED <<stage, frame, reply, trailing, streams, heard, boot, result>>
  BY DEF Proceed, peerVars
<1>2. step # "ended" /\ result = "none"
  BY DEF ShakeInv, StepInv, AcceptSteps, ReplySteps
<1>3. ShakeTypeOK'
  BY <1>1 DEF ShakeInv, ShakeTypeOK, AcceptSteps, ReplySteps
<1>4. StepInv'
  BY <1>1, <1>2 DEF ShakeInv, StepInv, AcceptSteps, ReplySteps
<1>5. QueueInv' /\ StreamInv'
  <2>1. \A c \in Connections : FreshInv(c)'
    BY <1>1 DEF ShakeInv, QueueInv, FreshInv
  <2> QED
    BY <1>1, <2>1, QueueStays, StreamsStay
<1>6. Stream' = Stream /\ Good' = Good
  BY <1>1 DEF Stream, Good, Last
<1>7. AskedInv'
  BY <1>1, <1>2, <1>6 DEF ShakeInv, AskedInv, AcceptSteps, ReplySteps
<1>8. HeardInv'
  BY <1>1, <1>2 DEF ShakeInv, HeardInv, AcceptSteps, ReplySteps
<1>9. HonestInv'
  BY <1>1, <1>2, <1>6 DEF ShakeInv, HonestInv, AcceptSteps, ReplySteps
<1>10. FailureIsTrue'
  BY <1>1, <1>2, NotFailedYet DEF FailureIsTrue
<1> QED
  BY <1>3, <1>4, <1>5, <1>7, <1>8, <1>9, <1>10 DEF ShakeInv

LEMMA HostIsLaunched ==
    ASSUME ShakeInv, Handshake
    PROVE  step \notin {"none", "ended"} /\ pc[Helper] = "launched" /\ result = "none"
<1>1. step \notin {"none", "ended"} /\ (step = "begin" => pc[Helper] = "launched")
  BY DEF Handshake, begin, accept, accepted, wait, alive, send, read, took, hello, judged
<1> QED
  BY <1>1 DEF ShakeInv, StepInv

(* The gate: the step, or a failure that says why.                          *)
LEMMA GateKeeps ==
    ASSUME ShakeInv, Handshake, UNCHANGED pc, remaining_at # "left", Fail(remaining_at)
    PROVE  ShakeInv'
<1>1. UNCHANGED <<honest, shutdown, spent>>
  BY DEF Handshake
<1>2. remaining_at \in Failures /\ FailureIsTrue'
  BY <1>1, GateIsTrue
<1> QED
  BY <1>1, <1>2, FailKeeps, HostIsLaunched

LEMMA WaitKeeps ==
    ASSUME ShakeInv, Handshake, UNCHANGED launchVars, begin \/ wait \/ alive \/ took
    PROVE  ShakeInv'
<1> USE DEF AcceptSteps, ReplySteps
<1>1. /\ step \notin {"none", "ended"} /\ pc[Helper] = "launched" /\ result = "none"
      /\ UNCHANGED <<honest, shutdown, spent>> /\ pc' = pc /\ child' = child
  BY HostIsLaunched DEF Handshake, launchVars
<1>2. CASE remaining_at # "left" /\ Fail(remaining_at)
  BY <1>1, <1>2, GateKeeps
<1>3. CASE begin /\ Proceed("accept") /\ UNCHANGED peerVars
  BY <1>1, <1>3, ProceedKeeps DEF begin
<1>4. CASE wait /\ Proceed(IF step = "wait" THEN "alive" ELSE "alive_read") /\ UNCHANGED peerVars
  <2>1. step = "wait_read" => reply = NoLine
    BY DEF ShakeInv, HeardInv
  <2> QED
    BY <1>1, <1>4, <2>1, ProceedKeeps DEF wait
<1>5. CASE alive /\ Proceed(IF step = "alive" THEN "accept" ELSE "read") /\ UNCHANGED peerVars
  <2>1. step = "alive_read" => reply = NoLine
    BY DEF ShakeInv, HeardInv
  <2> QED
    BY <1>1, <1>5, <2>1, ProceedKeeps DEF alive
<1>6. CASE ~Running /\ Fail("HelperEnded")
  <2>1. FailureIsTrue'
    BY <1>1, <1>6 DEF Fail, FailureIsTrue, Running
  <2> QED
    BY <1>1, <1>6, <2>1, FailKeeps DEF Failures
<1>7. CASE Fail("LivenessUnknown")
  <2>1. FailureIsTrue'
    BY <1>7 DEF Fail, FailureIsTrue
  <2> QED
    BY <1>1, <1>7, <2>1, FailKeeps DEF Failures
<1>8. CASE step = "took" /\ reply # NoLine /\ Proceed("judge") /\ UNCHANGED peerVars
  BY <1>1, <1>8, ProceedKeeps
<1>9. CASE step = "took" /\ reply = NoLine /\ Proceed("read") /\ UNCHANGED peerVars
  BY <1>1, <1>9, ProceedKeeps
<1>10. CASE step = "took" /\ reply = NoLine /\ frame > MaxResponse /\ Fail("FrameTooLarge")
  <2>1. ASSUME honest PROVE FALSE
    <3> DEFINE said == conn[Stream].inbox
               ended == Ended(said)
    <3>1. said \in Seq({Piece} \cup Said) /\ conn[Stream].sent \in Nat
      BY <1>10, StreamsAreMade DEF ShakeInv, ShakeTypeOK, Connected
    <3>2. /\ ended => frame + Len(said) <= MaxResponse + 1
          /\ ~ended => frame + Len(said) <= conn[Stream].sent /\ conn[Stream].sent <= MaxResponse
      BY <1>10, <2>1 DEF ShakeInv, HonestInv, Spoken
    <3>3. Len(said) \in Nat /\ (ended => Len(said) >= 1) /\ frame \in Nat
      BY <3>1 DEF ShakeInv, ShakeTypeOK, Ended
    <3> QED
      BY <1>10, <3>1, <3>2, <3>3
  <2>2. FailureIsTrue'
    BY <1>1, <1>10, <2>1 DEF Fail, FailureIsTrue
  <2> QED
    BY <1>1, <1>10, <2>2, FailKeeps DEF Failures
<1> QED
  BY <1>2, <1>3, <1>4, <1>5, <1>6, <1>7, <1>8, <1>9, <1>10 DEF begin, wait, alive, took, Gated

(* The one that was first leaves the queue.                                 *)
LEMMA Dequeues ==
    ASSUME ShakeInv, NEW q \in {"control", "data"}, queue[q] # <<>>, queue' = [queue EXCEPT ![q] = Tail(@)],
           \A c \in Connections : c # Head(queue[q]) /\ conn[c].phase = "queued" => conn'[c].phase = "queued",
           \A c \in Connections : FreshInv(c)'
    PROVE  QueueInv' /\ queue' \in [{"control", "data"} -> Seq(Connections)]
<1>1. /\ \A p \in {"control", "data"} : queue[p] \in Seq(Connections) /\ WaitsInv(p) /\ OnceInv(p)
      /\ queue \in [{"control", "data"} -> Seq(Connections)]
  BY DEF ShakeInv, ShakeTypeOK, QueueInv
<1>2. /\ Head(queue[q]) = queue[q][1] /\ 1 \in 1..Len(queue[q]) /\ Len(queue[q]) \in Nat
      /\ Tail(queue[q]) \in Seq(Connections) /\ Len(Tail(queue[q])) = Len(queue[q]) - 1
      /\ \A i \in 1..(Len(queue[q]) - 1) : Tail(queue[q])[i] = queue[q][i + 1] /\ i + 1 \in 1..Len(queue[q])
  BY <1>1
<1>3. queue'[q] = Tail(queue[q]) /\ \A p \in {"control", "data"} : p # q => queue'[p] = queue[p]
  BY <1>1
<1>4. ASSUME NEW p \in {"control", "data"} PROVE WaitsInv(p)' /\ OnceInv(p)'
  <2>1. CASE p # q
    <3>1. ASSUME NEW i \in 1..Len(queue[p]) PROVE conn'[queue[p][i]].phase = "queued" /\ At[queue[p][i]] = p
      <4>1. queue[p][i] \in Connections /\ At[queue[p][i]] = p /\ conn[queue[p][i]].phase = "queued"
        BY <1>1 DEF WaitsInv
      <4>2. At[Head(queue[q])] = q
        BY <1>1, <1>2 DEF WaitsInv
      <4> QED
        BY <2>1, <4>1, <4>2
    <3>2. WaitsInv(p)'
      BY <1>3, <2>1, <3>1 DEF WaitsInv
    <3>3. OnceInv(p)'
      BY <1>1, <1>3, <2>1 DEF OnceInv
    <3> QED
      BY <3>2, <3>3
  <2>2. CASE p = q
    <3>1. ASSUME NEW i \in 1..(Len(queue[q]) - 1)
          PROVE  conn'[queue[q][i + 1]].phase = "queued" /\ At[queue[q][i + 1]] = q
      <4>1. i + 1 \in 1..Len(queue[q]) /\ i + 1 # 1
        BY <1>2
      <4>2. queue[q][i + 1] \in Connections /\ At[queue[q][i + 1]] = q /\ conn[queue[q][i + 1]].phase = "queued"
        BY <1>1, <4>1 DEF WaitsInv
      <4>3. queue[q][i + 1] # Head(queue[q])
        BY <1>1, <1>2, <4>1 DEF OnceInv
      <4> QED
        BY <4>2, <4>3
    <3>0. queue'[p] = Tail(queue[q]) /\ Len(queue'[p]) = Len(queue[q]) - 1
      BY <1>2, <1>3, <2>2
    <3>2. WaitsInv(p)'
      <4>1. \A i \in 1..Len(queue'[p]) : conn'[queue'[p][i]].phase = "queued" /\ At[queue'[p][i]] = p
        BY <1>2, <2>2, <3>0, <3>1
      <4> QED
        BY <4>1 DEF WaitsInv
    <3>3. ASSUME NEW i \in 1..(Len(queue[q]) - 1), NEW j \in 1..(Len(queue[q]) - 1),
                 Tail(queue[q])[i] = Tail(queue[q])[j]
          PROVE  i = j
      <4>1. /\ i + 1 \in 1..Len(queue[q]) /\ j + 1 \in 1..Len(queue[q])
            /\ queue[q][i + 1] = queue[q][j + 1]
        BY <1>2, <3>3
      <4>2. i + 1 = j + 1
        BY <1>1, <4>1 DEF OnceInv
      <4> QED
        BY <1>2, <4>2
    <3>4. OnceInv(p)'
      <4>1. \A i, j \in 1..Len(queue'[p]) : queue'[p][i] = queue'[p][j] => i = j
        BY <3>0, <3>3
      <4> QED
        BY <4>1 DEF OnceInv
    <3> QED
      BY <3>2, <3>4
  <2> QED
    BY <2>1, <2>2
<1>5. queue' \in [{"control", "data"} -> Seq(Connections)]
  BY <1>1, <1>2
<1> QED
  BY <1>4, <1>5 DEF QueueInv

LEMMA AcceptKeeps ==
    ASSUME ShakeInv, platform \in Platforms, Handshake, UNCHANGED launchVars, accept
    PROVE  ShakeInv'
<1>1. /\ step = "accept" /\ pc[Helper] = "launched" /\ result = "none"
      /\ UNCHANGED <<honest, shutdown, spent>> /\ pc' = pc /\ platform' = platform
  BY HostIsLaunched DEF Handshake, launchVars, accept
<1>2. CASE queue[Listener] = <<>>
  BY <1>1, <1>2, ProceedKeeps DEF accept, AcceptSteps, ReplySteps
<1>3. CASE queue[Listener] # <<>>
  <2> DEFINE c == Head(queue[Listener])
             cause == IF By[c] \in Foreign \/ ~Identified(c) THEN "PeerRefused"
                      ELSE IF ~authentic(By[c]) THEN "ForeignPeer" ELSE "none"
  <2>1. /\ queue' = [queue EXCEPT ![Listener] = Tail(@)]
        /\ UNCHANGED <<stage, frame, reply, trailing, heard, boot>>
        /\ \/ /\ cause = "none"
              /\ conn' = [conn EXCEPT ![c].phase = "accepted"]
              /\ streams' = Append(streams, c)
              /\ step' = "accepted"
              /\ UNCHANGED result
           \/ /\ cause # "none"
              /\ conn' = [d \in Connections |->
                      IF d = c \/ d \in Range(streams) THEN [conn[d] EXCEPT !.phase = "closed"] ELSE conn[d]]
              /\ streams' = <<>>
              /\ step' = "ended"
              /\ result' = cause
    BY <1>3 DEF accept
  <2>2. /\ Listener \in {"control", "data"} /\ c \in Connections
        /\ conn[c].phase = "queued" /\ At[c] = Listener
        /\ conn[c].asked = 0 /\ conn[c].sent = 0 /\ conn[c].inbox = <<>>
    <3>1. Listener \in {"control", "data"}
      BY DEF Listener
    <3>2. queue[Listener] \in Seq(Connections) /\ WaitsInv(Listener)
      BY <3>1 DEF ShakeInv, ShakeTypeOK, QueueInv
    <3>3. c = queue[Listener][1] /\ 1 \in 1..Len(queue[Listener]) /\ c \in Connections
      BY <1>3, <3>2
    <3>4. FreshInv(c)
      BY <3>3 DEF ShakeInv, QueueInv
    <3>5. conn[c].phase = "queued" /\ At[c] = Listener
      BY <3>2, <3>3 DEF WaitsInv
    <3> QED
      BY <3>1, <3>3, <3>4, <3>5 DEF FreshInv
  <2>3. /\ cause = "none" => By[c] = Helper
        /\ cause = "PeerRefused" => By[c] \in Foreign \/ (platform # "linux" /\ conn[c].gone)
        /\ cause = "ForeignPeer" => By[c] # Helper
        /\ cause \in {"none", "PeerRefused", "ForeignPeer"}
    BY DEF Identified, authentic
  <2> HIDE DEF c, cause
  <2>4. conn \in [Connections -> Connected] /\ conn[c] \in Connected /\ Len(streams) \in Nat
        /\ streams \in Seq(Connections)
    BY <2>2 DEF ShakeInv, ShakeTypeOK
  <2>5. Len(streams) = (IF stage = "NormalAccept" THEN 0 ELSE IF stage = "WithdrawalAccept" THEN 1 ELSE 2)
        /\ stage \in {"NormalAccept", "WithdrawalAccept", "DataAccept"} /\ reply = NoLine
    BY <1>1 DEF ShakeInv, StepInv, ShakeTypeOK, AcceptSteps, ReplyStages, HeardInv
  <2>6. CASE cause = "none"
    <3>1. /\ conn'[c] = [conn[c] EXCEPT !.phase = "accepted"] /\ conn' \in [Connections -> Connected]
          /\ \A d \in Connections \ {c} : conn'[d] = conn[d]
      <4>1. [conn[c] EXCEPT !.phase = "accepted"] \in Connected
        BY <2>4 DEF Connected
      <4> QED
        BY <2>1, <2>2, <2>4, <2>6, <4>1
    <3>2. /\ conn'[c].phase = "accepted" /\ conn'[c].asked = 0 /\ conn'[c].sent = 0 /\ conn'[c].inbox = <<>>
      BY <2>2, <2>4, <3>1 DEF Connected
    <3>3. /\ streams' \in Seq(Connections) /\ Len(streams') = Len(streams) + 1
          /\ streams'[Len(streams) + 1] = c /\ \A i \in 1..Len(streams) : streams'[i] = streams[i]
          /\ step' = "accepted" /\ result' = "none"
      <4>1. streams' = Append(streams, c) /\ step' = "accepted" /\ result' = "none"
        BY <1>1, <2>1, <2>6
      <4> QED
        BY <2>2, <2>4, <4>1
    <3>4. \A i \in 1..Len(streams) : streams[i] \in Connections \ {c} /\ conn'[streams[i]] = conn[streams[i]]
      <4>1. \A i \in 1..Len(streams) : streams[i] \in Connections /\ conn[streams[i]].phase = "accepted"
        BY StreamsAreMade DEF ShakeInv, StreamInv
      <4> QED
        BY <2>2, <3>1, <4>1
    <3>5. QueueInv' /\ queue' \in [{"control", "data"} -> Seq(Connections)]
      <4>1. ASSUME NEW d \in Connections PROVE FreshInv(d)'
        <5>1. FreshInv(d)
          BY DEF ShakeInv, QueueInv
        <5> QED
          BY <3>1, <3>2, <5>1 DEF FreshInv
      <4>2. \A d \in Connections : d # Head(queue[Listener]) /\ conn[d].phase = "queued" => conn'[d].phase = "queued"
        BY <3>1 DEF c
      <4> QED
        BY <1>3, <2>1, <2>2, <4>1, <4>2, Dequeues
    <3>6. ShakeTypeOK'
      BY <1>1, <2>1, <3>1, <3>3, <3>5 DEF ShakeInv, ShakeTypeOK, AcceptSteps
    <3>7. StepInv'
      BY <1>1, <2>1, <2>5, <3>3 DEF ShakeInv, StepInv, AcceptSteps, ReplySteps, ReplyStages, Failures
    <3>8. StreamInv'
      <4>1. ASSUME NEW i \in 1..Len(streams')
            PROVE  /\ By[streams'[i]] = Helper
                   /\ conn'[streams'[i]].phase = "accepted"
                   /\ At[streams'[i]] = IF i = 3 THEN "data" ELSE "control"
        <5>1. CASE i = Len(streams) + 1
          <6>1. streams'[i] = c
            BY <3>3, <5>1
          <6>2. i = 3 <=> stage = "DataAccept"
            BY <2>5, <5>1
          <6>3. At[c] = IF i = 3 THEN "data" ELSE "control"
            BY <2>2, <6>2 DEF Listener
          <6>4. By[c] = Helper
            BY <2>3, <2>6
          <6> QED
            BY <3>2, <6>1, <6>3, <6>4
        <5>2. CASE i \in 1..Len(streams)
          <6>1. streams'[i] = streams[i] /\ conn'[streams[i]] = conn[streams[i]]
            BY <3>3, <3>4, <5>2
          <6>2. /\ By[streams[i]] = Helper /\ conn[streams[i]].phase = "accepted"
                /\ At[streams[i]] = IF i = 3 THEN "data" ELSE "control"
            BY <5>2 DEF ShakeInv, StreamInv
          <6> QED
            BY <6>1, <6>2
        <5> QED
          BY <2>4, <3>3, <5>1, <5>2
      <4>2. ASSUME NEW i \in 1..Len(streams'), NEW j \in 1..Len(streams'), streams'[i] = streams'[j]
            PROVE  i = j
        <5>1. CASE i \in 1..Len(streams) /\ j \in 1..Len(streams)
          BY <3>3, <4>2, <5>1 DEF ShakeInv, StreamInv
        <5>2. CASE i = Len(streams) + 1 /\ j \in 1..Len(streams)
          BY <3>3, <3>4, <4>2, <5>2
        <5>3. CASE j = Len(streams) + 1 /\ i \in 1..Len(streams)
          BY <3>3, <3>4, <4>2, <5>3
        <5> QED
          BY <2>4, <3>3, <5>1, <5>2, <5>3
      <4>3. ASSUME NEW d \in Connections, conn'[d].phase = "accepted"
            PROVE  \E i \in 1..Len(streams') : streams'[i] = d
        <5>1. CASE d = c
          BY <2>4, <3>3, <5>1
        <5>2. CASE d # c
          <6>0. conn[d].phase = "accepted"
            BY <3>1, <4>3, <5>2
          <6>1. PICK i \in 1..Len(streams) : streams[i] = d
            BY <6>0 DEF ShakeInv, StreamInv
          <6> QED
            BY <2>4, <3>3, <6>1
        <5> QED
          BY <5>1, <5>2
      <4> QED
        BY <4>1, <4>2, <4>3 DEF StreamInv
    <3>9. Stream' = c
      BY <3>3 DEF Stream, Last
    <3>10. AskedInv'
      <4>1. stage = "DataAccept" => conn[streams[2]].asked = 2 /\ 2 \in 1..Len(streams)
        BY <1>1, <2>5 DEF ShakeInv, AskedInv
      <4>2. stage \in {"WithdrawalAccept", "DataAccept"} => conn[streams[1]].asked = 1 /\ 1 \in 1..Len(streams)
        BY <1>1, <2>5 DEF ShakeInv, AskedInv
      <4>3. stage' = stage /\ stage # "WithdrawalReply"
        BY <2>1, <2>5
      <4> QED
        BY <4>1, <4>2, <4>3, <3>2, <3>3, <3>4, <3>9 DEF AskedInv, ReplySteps
    <3>11. HeardInv'
      BY <1>1, <2>1, <3>3 DEF ShakeInv, HeardInv
    <3>12. HonestInv'
      BY <1>1, <2>1, <3>3 DEF ShakeInv, HonestInv, ReplySteps
    <3>13. FailureIsTrue'
      BY <3>3 DEF FailureIsTrue
    <3> QED
      BY <3>5, <3>6, <3>7, <3>8, <3>10, <3>11, <3>12, <3>13 DEF ShakeInv
  <2>7. CASE cause # "none"
    <3>1. /\ streams' = <<>> /\ step' = "ended" /\ result' = cause /\ cause \in Failures
          /\ conn' = [d \in Connections |->
                  IF d = c \/ d \in Range(streams) THEN [conn[d] EXCEPT !.phase = "closed"] ELSE conn[d]]
      BY <2>1, <2>3, <2>7 DEF Failures
    <3>2. ASSUME NEW d \in Connections
          PROVE  /\ conn'[d] \in Connected
                 /\ \/ conn'[d] = conn[d] /\ conn[d].phase # "accepted" /\ d # c
                    \/ conn'[d].phase = "closed" /\ (conn[d].phase = "accepted" \/ d = c)
                 /\ conn'[d].gone = conn[d].gone
      <4>1. conn[d] \in Connected
        BY DEF ShakeInv, ShakeTypeOK
      <4>2. d \in Range(streams) <=> conn[d].phase = "accepted"
        BY AcceptedIsStream
      <4>3. conn'[d] = IF d = c \/ d \in Range(streams) THEN [conn[d] EXCEPT !.phase = "closed"] ELSE conn[d]
        BY <3>1
      <4>4. /\ [conn[d] EXCEPT !.phase = "closed"] \in Connected
            /\ [conn[d] EXCEPT !.phase = "closed"].phase = "closed"
            /\ [conn[d] EXCEPT !.phase = "closed"].gone = conn[d].gone
        BY <4>1 DEF Connected
      <4> QED
        BY <4>1, <4>2, <4>3, <4>4
    <3>3. QueueInv' /\ queue' \in [{"control", "data"} -> Seq(Connections)]
      <4>1. ASSUME NEW d \in Connections PROVE FreshInv(d)'
        <5>1. FreshInv(d)
          BY DEF ShakeInv, QueueInv
        <5> QED
          BY <3>2, <5>1 DEF FreshInv
      <4>2. \A d \in Connections : d # Head(queue[Listener]) /\ conn[d].phase = "queued" => conn'[d].phase = "queued"
        BY <3>2 DEF c
      <4> QED
        BY <1>3, <2>1, <2>2, <4>1, <4>2, Dequeues
    <3>4. ShakeTypeOK'
      <4>1. conn' \in [Connections -> Connected]
        BY <3>1, <3>2
      <4> QED
        <5>1. ShakeTypeOK /\ <<>> \in Seq(Connections) /\ result' \in Failures /\ step' = "ended"
          BY <3>1 DEF ShakeInv
        <5> QED
          BY <1>1, <2>1, <3>1, <3>3, <4>1, <5>1 DEF ShakeTypeOK
    <3>5. StepInv'
      BY <1>1, <2>1, <3>1 DEF ShakeInv, StepInv, Failures, ReplySteps, AcceptSteps
    <3>6. StreamInv'
      <4>1. \A i \in 1..Len(streams') : FALSE
        BY <3>1
      <4>2. \A d \in Connections : conn'[d].phase # "accepted"
        BY <3>2
      <4> QED
        BY <4>1, <4>2 DEF StreamInv
    <3>7. AskedInv' /\ HeardInv' /\ HonestInv'
      BY <1>1, <2>1, <3>1 DEF ShakeInv, AskedInv, HeardInv, HonestInv, Failures, ReplySteps
    <3>8. FailureIsTrue'
      <4>1. conn'[c].phase = "closed" /\ conn'[c].gone = conn[c].gone
        BY <2>2, <3>2
      <4>2. CASE cause = "ForeignPeer"
        BY <2>2, <2>3, <3>1, <4>1, <4>2 DEF FailureIsTrue
      <4>3. CASE cause = "PeerRefused"
        <5>1. platform = "linux" \/ platform = "darwin"
          BY DEF Platforms
        <5> QED
          BY <1>1, <2>2, <2>3, <3>1, <4>1, <4>3, <5>1 DEF FailureIsTrue
      <4> QED
        BY <2>3, <2>7, <4>2, <4>3
    <3> QED
      BY <3>3, <3>4, <3>5, <3>6, <3>7, <3>8 DEF ShakeInv
  <2> QED
    BY <2>6, <2>7
<1> QED
  BY <1>2, <1>3

(* The gate after an accept.                                                *)
LEMMA AcceptedKeeps ==
    ASSUME ShakeInv, Handshake, UNCHANGED launchVars, accepted
    PROVE  ShakeInv'
<1>1. /\ step = "accepted" /\ pc[Helper] = "launched" /\ result = "none"
      /\ UNCHANGED <<honest, shutdown, spent>> /\ pc' = pc
  BY HostIsLaunched DEF Handshake, launchVars, accepted
<1>2. CASE remaining_at # "left" /\ Fail(remaining_at)
  BY <1>1, <1>2, GateKeeps
<1>3. CASE remaining_at = "left"
  <2>1. /\ UNCHANGED <<conn, queue, frame, reply, trailing, streams, heard, boot>>
        /\ \/ stage = "DataAccept" /\ step' = "ended" /\ result' = "ok" /\ stage' = stage
           \/ /\ stage # "DataAccept" /\ step' = "send" /\ result' = result
              /\ stage' = IF stage = "NormalAccept" THEN "NormalReply" ELSE "WithdrawalReply"
    BY <1>3 DEF accepted, Gated, peerVars
  <2>2. /\ stage \in {"NormalAccept", "WithdrawalAccept", "DataAccept"}
        /\ Len(streams) = IF stage = "NormalAccept" THEN 1 ELSE IF stage = "WithdrawalAccept" THEN 2 ELSE 3
    BY <1>1 DEF ShakeInv, StepInv, ShakeTypeOK, AcceptSteps, ReplyStages
  <2>3. ShakeTypeOK'
    BY <1>1, <2>1 DEF ShakeInv, ShakeTypeOK, ReplySteps, ReplyStages
  <2>4. StepInv'
    BY <1>1, <2>1, <2>2 DEF StepInv, AcceptSteps, ReplySteps, ReplyStages, Failures
  <2>5. \A c \in Connections : FreshInv(c)'
    BY <2>1 DEF ShakeInv, QueueInv, FreshInv
  <2>6. QueueInv' /\ StreamInv'
    BY <2>1, <2>5, QueueStays, StreamsStay
  <2>7. Stream' = Stream
    BY <2>1 DEF Stream, Last
  <2>8. conn[Stream].asked = 0 /\ conn[Stream].sent = 0 /\ conn[Stream].inbox = <<>>
    BY <1>1 DEF ShakeInv, AskedInv
  <2>9. AskedInv'
    BY <1>1, <2>1, <2>2, <2>7, <2>8 DEF ShakeInv, AskedInv, ReplySteps
  <2>10. HeardInv'
    BY <1>1, <2>1, <2>2 DEF ShakeInv, HeardInv
  <2>11. HonestInv'
    <3>1. reply = NoLine
      BY <1>1 DEF ShakeInv, HeardInv
    <3> QED
      BY <1>1, <2>1, <2>7, <2>8, <3>1 DEF ShakeInv, HonestInv, ReplySteps
  <2>12. FailureIsTrue'
    BY <1>1, <2>1 DEF FailureIsTrue
  <2> QED
    BY <2>3, <2>4, <2>6, <2>9, <2>10, <2>11, <2>12 DEF ShakeInv
<1> QED
  BY <1>2, <1>3 DEF accepted, Gated

(* A step that changes what is known of the stream that is talked to.       *)
LEMMA TalkKeeps ==
    ASSUME ShakeInv, NEW c \in Connections, NEW new \in Connected, conn' = [conn EXCEPT ![c] = new],
           conn[c].phase = "accepted", new.phase = "accepted", UNCHANGED <<queue, streams>>
    PROVE  QueueInv' /\ StreamInv' /\ conn' \in [Connections -> Connected]
<1>1. /\ conn' \in [Connections -> Connected] /\ conn'[c] = new
      /\ \A d \in Connections \ {c} : conn'[d] = conn[d]
  BY DEF ShakeInv, ShakeTypeOK
<1>2. \A d \in Connections : FreshInv(d)'
  BY <1>1 DEF ShakeInv, QueueInv, FreshInv
<1> QED
  BY <1>1, <1>2, QueueStays, StreamsStay

LEMMA SendKeeps ==
    ASSUME ShakeInv, Handshake, UNCHANGED launchVars, send
    PROVE  ShakeInv'
<1>1. /\ step = "send" /\ pc[Helper] = "launched" /\ result = "none"
      /\ UNCHANGED <<honest, shutdown, spent>> /\ pc' = pc
  BY HostIsLaunched DEF Handshake, launchVars, send
<1>2. CASE remaining_at # "left" /\ Fail(remaining_at)
  BY <1>1, <1>2, GateKeeps
<1>3. /\ Stream \in Connections /\ Stream = streams[Len(streams)] /\ conn[Stream].phase = "accepted"
      /\ conn[Stream] \in Connected /\ Len(streams) \in Nat /\ conn \in [Connections -> Connected]
      /\ stage \in ReplyStages
  BY <1>1, StreamsAreMade DEF ShakeInv, ShakeTypeOK, StepInv, ReplySteps
<1>4. CASE conn[Stream].gone /\ Fail("Closed")
  <2>1. \E c \in Connections : conn'[c].gone
    <3>1. conn'[Stream].gone
      BY <1>3, <1>4 DEF Fail, Connected
    <3> QED
      BY <1>3, <3>1
  <2>2. FailureIsTrue'
    BY <1>4, <2>1 DEF Fail, FailureIsTrue
  <2> QED
    BY <1>1, <1>4, <2>2, FailKeeps DEF Failures
<1>5. CASE /\ conn' = [conn EXCEPT ![Stream].asked = Lane(stage)]
           /\ step' = "read" /\ frame' = 0
           /\ UNCHANGED <<queue, stage, reply, trailing, streams, heard, boot, result>>
  <2> DEFINE new == [conn[Stream] EXCEPT !.asked = Lane(stage)]
  <2>1. /\ new \in Connected /\ new.phase = "accepted" /\ new.asked = Lane(stage)
        /\ new.sent = conn[Stream].sent /\ new.inbox = conn[Stream].inbox
    BY <1>3 DEF Connected, Lane
  <2>2. conn' = [conn EXCEPT ![Stream] = new]
    BY <1>5
  <2> HIDE DEF new
  <2>3. QueueInv' /\ StreamInv' /\ conn' \in [Connections -> Connected]
    BY <1>3, <1>5, <2>1, <2>2, TalkKeeps
  <2>4. ShakeTypeOK'
    BY <1>1, <1>5, <2>3 DEF ShakeInv, ShakeTypeOK, ReplySteps
  <2>5. StepInv'
    BY <1>1, <1>5 DEF ShakeInv, StepInv, AcceptSteps, ReplySteps
  <2>6. Stream' = Stream /\ Good' = Good /\ conn'[Stream] = new
    BY <1>3, <1>5, <2>2 DEF Stream, Last, Good
  <2>7. AskedInv'
    <3>1. stage = "WithdrawalReply" => streams[1] \in Connections \ {Stream} /\ conn[streams[1]].asked = 1
      <4>1. stage = "WithdrawalReply" => Len(streams) = 2
        BY <1>1 DEF ShakeInv, StepInv
      <4> QED
        BY <1>1, <1>3, <4>1, StreamsAreMade DEF ShakeInv, StreamInv, AskedInv
    <3>2. stage = "WithdrawalReply" => conn'[streams[1]].asked = 1
      BY <1>3, <2>2, <3>1
    <3>3. stage # "DataAccept" /\ stage # "WithdrawalAccept" /\ stage' = stage /\ streams' = streams /\ step' = "read"
      BY <1>3, <1>5 DEF ReplyStages
    <3>4. result' = "none"
      BY <1>1, <1>5
    <3> QED
      BY <2>1, <2>6, <3>2, <3>3, <3>4 DEF AskedInv, Lane
  <2>8. HeardInv'
    BY <1>1, <1>5 DEF ShakeInv, HeardInv
  <2>9. HonestInv'
    <3>1. reply = NoLine
      BY <1>1 DEF ShakeInv, HeardInv
    <3>2. honest => new.sent = 0 /\ new.inbox = <<>> /\ ~trailing /\ boot = Boot
      BY <1>1, <2>1 DEF ShakeInv, HonestInv, ReplySteps
    <3>3. Len(<<>>) = 0 /\ 0 <= MaxResponse /\ 1..0 = {}
      OBVIOUS
    <3>4. /\ honest' = honest /\ trailing' = trailing /\ boot' = boot /\ reply' = NoLine /\ frame' = 0
          /\ step' = "read" /\ Stream' = Stream /\ conn'[Stream] = new
      BY <1>1, <1>5, <2>6, <3>1
    <3> QED
      BY <3>2, <3>3, <3>4 DEF HonestInv, ReplySteps, Spoken, Ended
  <2>10. FailureIsTrue'
    BY <1>1, <1>5 DEF FailureIsTrue
  <2> QED
    BY <2>3, <2>4, <2>5, <2>7, <2>8, <2>9, <2>10 DEF ShakeInv
<1> QED
  BY <1>2, <1>4, <1>5 DEF send, Gated

(* A line with a result says what it says in its four fields.               *)
LEMMA ResultLine ==
    ASSUME NEW said \in Said, said.kind = "result"
    PROVE  said = Line("result", said.id, said.boot, said.policy)
BY SaidAssumption DEF Lines, Line

LEMMA HelloKeeps ==
    ASSUME ShakeInv, platform \in Platforms, Handshake, UNCHANGED launchVars, hello
    PROVE  ShakeInv'
<1>1. /\ step = "judge" /\ pc[Helper] = "launched" /\ result = "none"
      /\ UNCHANGED <<honest, shutdown, spent>> /\ pc' = pc /\ platform' = platform
  BY HostIsLaunched DEF Handshake, launchVars, hello
<1>2. Stream \in Connections /\ By[Stream] = Helper /\ conn[Stream] \in Connected
  BY <1>1, StreamsAreMade DEF ShakeInv, ShakeTypeOK, ReplySteps
<1>3. reply \in Said /\ (honest => reply = Good /\ boot = Boot /\ ~trailing)
  BY <1>1 DEF ShakeInv, ShakeTypeOK, HeardInv, HonestInv, ReplySteps
<1>4. CASE ~Identified(Stream) /\ Fail("PeerRefused")
  <2>1. platform' = "darwin" /\ conn[Stream].gone
    BY <1>1, <1>4 DEF Identified, Platforms
  <2>2. conn'[Stream].gone
    BY <1>2, <1>4, <2>1 DEF Fail, Connected
  <2>3. FailureIsTrue'
    BY <1>2, <1>4, <2>1, <2>2 DEF Fail, FailureIsTrue
  <2> QED
    BY <1>1, <1>4, <2>3, FailKeeps DEF Failures
<1>5. CASE trailing /\ Fail("UnexpectedBytes")
  <2>1. FailureIsTrue'
    BY <1>1, <1>3, <1>5 DEF Fail, FailureIsTrue
  <2> QED
    BY <1>1, <1>5, <2>1, FailKeeps DEF Failures
<1>6. CASE judge = "refused" /\ Fail("Refused")
  <2>1. honest => judge = "accepted"
    BY <1>3 DEF judge, Good, Line
  <2>2. FailureIsTrue'
    BY <1>1, <1>6, <2>1 DEF Fail, FailureIsTrue
  <2> QED
    BY <1>1, <1>6, <2>2, FailKeeps DEF Failures
<1>7. CASE judge # "refused" /\ Proceed("judged") /\ UNCHANGED peerVars
  <2>1. /\ reply.kind = "result" /\ reply.id = Lane(stage) /\ reply.policy = Policy
        /\ stage = "WithdrawalReply" => reply.boot = boot
    BY <1>7 DEF judge
  <2>2. reply = Line("result", Lane(stage), reply.boot, Policy) /\ reply # NoLine
    <3>1. reply = Line("result", reply.id, reply.boot, reply.policy)
      BY <1>3, <2>1, ResultLine
    <3> QED
      BY <2>1, <3>1 DEF NoLine, Line
  <2> QED
    BY <1>1, <1>7, <2>1, <2>2, ProceedKeeps DEF ReplySteps
<1> QED
  BY <1>2, <1>4, <1>5, <1>6, <1>7 DEF hello, authentic

(* The gate after a hello.                                                  *)
LEMMA JudgedKeeps ==
    ASSUME ShakeInv, Handshake, UNCHANGED launchVars, judged
    PROVE  ShakeInv'
<1>1. /\ step = "judged" /\ pc[Helper] = "launched" /\ result = "none"
      /\ UNCHANGED <<honest, shutdown, spent>> /\ pc' = pc
  BY HostIsLaunched DEF Handshake, launchVars, judged
<1>2. CASE remaining_at # "left" /\ Fail(remaining_at)
  BY <1>1, <1>2, GateKeeps
<1>3. CASE remaining_at = "left"
  <2>1. /\ boot' = IF stage = "NormalReply" THEN reply.boot ELSE boot
        /\ stage' = IF stage = "NormalReply" THEN "WithdrawalAccept" ELSE "DataAccept"
        /\ step' = "accept" /\ heard' = Append(heard, reply) /\ reply' = NoLine /\ frame' = 0
        /\ conn' = [conn EXCEPT ![Stream].inbox = <<>>, ![Stream].sent = 0]
        /\ UNCHANGED <<queue, trailing, streams, result>>
    BY <1>3 DEF judged, Gated
  <2>2. /\ Stream \in Connections /\ Stream = streams[Len(streams)] /\ conn[Stream].phase = "accepted"
        /\ conn[Stream] \in Connected /\ Len(streams) \in Nat /\ conn \in [Connections -> Connected]
        /\ stage \in ReplyStages /\ conn[Stream].asked = Lane(stage)
        /\ Len(streams) = IF stage = "NormalReply" THEN 1 ELSE 2
    BY <1>1, StreamsAreMade DEF ShakeInv, ShakeTypeOK, StepInv, AskedInv, ReplySteps, ReplyStages
  <2> DEFINE new == [conn[Stream] EXCEPT !.inbox = <<>>, !.sent = 0]
  <2>3. new \in Connected /\ new.phase = "accepted" /\ new.asked = Lane(stage)
    <3>1. <<>> \in Seq({Piece} \cup Said)
      OBVIOUS
    <3> QED
      BY <2>2, <3>1 DEF Connected
  <2>4. conn' = [conn EXCEPT ![Stream] = new]
    BY <2>1, <2>2
  <2> HIDE DEF new
  <2>5. QueueInv' /\ StreamInv' /\ conn' \in [Connections -> Connected]
    BY <2>1, <2>2, <2>3, <2>4, TalkKeeps
  <2>6. reply \in Said /\ reply = Line("result", Lane(stage), reply.boot, Policy)
        /\ (stage = "WithdrawalReply" => reply.boot = boot)
    BY <1>1 DEF ShakeInv, ShakeTypeOK, HeardInv
  <2>7. heard \in Seq(Said) /\ Len(heard) = (IF stage = "NormalReply" THEN 0 ELSE 1)
        /\ heard' \in Seq(Said) /\ Len(heard') = Len(heard) + 1 /\ heard'[Len(heard) + 1] = reply
        /\ \A i \in 1..Len(heard) : heard'[i] = heard[i]
    <3>1. heard \in Seq(Said) /\ Len(heard) = IF stage = "NormalReply" THEN 0 ELSE 1
      BY <2>2 DEF ShakeInv, ShakeTypeOK, HeardInv, ReplyStages
    <3>2. heard' = Append(heard, reply)
      BY <2>1
    <3> QED
      BY <2>6, <3>1, <3>2
  <2>8. ShakeTypeOK'
    BY <1>1, <2>1, <2>5, <2>7 DEF ShakeInv, ShakeTypeOK, AcceptSteps
  <2>9. StepInv'
    BY <1>1, <2>1, <2>2 DEF ShakeInv, StepInv, AcceptSteps, ReplySteps, ReplyStages, Failures
  <2>10. AskedInv'
    <3>1. /\ streams' = streams /\ result' = "none" /\ step' = "accept" /\ conn'[Stream] = new
          /\ stage' = IF stage = "NormalReply" THEN "WithdrawalAccept" ELSE "DataAccept"
      BY <1>1, <2>1, <2>2, <2>4
    <3>2. CASE stage = "NormalReply"
      <4>1. streams[1] = Stream /\ new.asked = 1
        BY <2>2, <2>3, <3>2 DEF Lane
      <4> QED
        BY <3>1, <3>2, <4>1 DEF AskedInv, ReplySteps
    <3>3. CASE stage = "WithdrawalReply"
      <4>1. streams[2] = Stream /\ new.asked = 2
        BY <2>2, <2>3, <3>3 DEF Lane
      <4>2. streams[1] \in Connections /\ streams[1] # streams[2] /\ conn[streams[1]].asked = 1
        BY <1>1, <2>2, <3>3, StreamsAreMade DEF ShakeInv, StreamInv, AskedInv
      <4>3. conn'[streams[1]].asked = 1
        BY <2>2, <2>4, <4>1, <4>2
      <4> QED
        BY <3>1, <3>3, <4>1, <4>3 DEF AskedInv, ReplySteps
    <3> QED
      BY <2>2, <3>2, <3>3 DEF ReplyStages
  <2>11. HeardInv'
    <3>1. \A i \in 1..Len(heard') : heard'[i] = Line("result", i, boot', Policy)
      <4>1. CASE stage = "NormalReply"
        BY <2>1, <2>6, <2>7, <4>1 DEF Lane
      <4>2. CASE stage = "WithdrawalReply"
        <5>1. heard[1] = Line("result", 1, boot, Policy)
          BY <2>7, <4>2 DEF ShakeInv, HeardInv
        <5> QED
          BY <2>1, <2>6, <2>7, <4>2, <5>1 DEF Lane
      <4> QED
        BY <2>2, <4>1, <4>2 DEF ReplyStages
    <3>2. Len(heard') = IF stage' \in {"NormalAccept", "NormalReply"} THEN 0
                        ELSE IF stage' \in {"WithdrawalAccept", "WithdrawalReply"} THEN 1 ELSE 2
      BY <2>1, <2>2, <2>7 DEF ReplyStages
    <3> QED
      BY <2>1, <3>1, <3>2 DEF HeardInv
  <2>12. HonestInv'
    <3>1. honest => ~trailing /\ boot = Boot /\ reply \in {NoLine, Good}
      BY <1>1 DEF ShakeInv, HonestInv, ReplySteps
    <3>2. honest => reply.boot = Boot
      BY <3>1 DEF Good, NoLine, Line
    <3> QED
      BY <1>1, <2>1, <3>1, <3>2 DEF HonestInv, ReplySteps
  <2>13. FailureIsTrue'
    BY <1>1, <2>1 DEF FailureIsTrue
  <2> QED
    BY <2>5, <2>8, <2>9, <2>10, <2>11, <2>12, <2>13 DEF ShakeInv
<1> QED
  BY <1>2, <1>3 DEF judged, Gated

(* A read of what an honest guest said: parts, or the line and all of it.   *)
LEMMA SpokenParts ==
    ASSUME NEW said \in Seq({Piece} \cup Said), NEW sent \in Nat, NEW got \in Nat, NEW good,
           NEW n \in 1..Len(said), Spoken(said, sent, got, NoLine, good),
           \A i \in 1..n : said[i].kind = "part"
    PROVE  Spoken(SubSeq(said, n + 1, Len(said)), sent, got + n, NoLine, good)
<1> DEFINE left == SubSeq(said, n + 1, Len(said))
<1>1. Len(said) \in Nat /\ n \in Nat /\ n <= Len(said)
  OBVIOUS
<1>2. Len(left) = Len(said) - n /\ \A i \in 1..(Len(said) - n) : left[i] = said[i + n]
  BY <1>1
<1> HIDE DEF left
<1>3. Ended(left) <=> Ended(said)
  <2>1. ASSUME Ended(left) PROVE Ended(said)
    <3>1. PICK i \in 1..Len(left) : left[i].kind # "part"
      BY <2>1 DEF Ended
    <3>2. i + n \in 1..Len(said) /\ said[i + n].kind # "part"
      BY <1>1, <1>2, <3>1
    <3> QED
      BY <3>2 DEF Ended
  <2>2. ASSUME Ended(said) PROVE Ended(left)
    <3>1. PICK i \in 1..Len(said) : said[i].kind # "part"
      BY <2>2 DEF Ended
    <3>2. i > n
      BY <1>1, <3>1
    <3>3. i - n \in 1..Len(left) /\ left[i - n] = said[(i - n) + n] /\ (i - n) + n = i
      BY <1>1, <1>2, <3>2
    <3> QED
      BY <3>1, <3>3 DEF Ended
  <2> QED
    BY <2>1, <2>2
<1>4. ASSUME NEW i \in 1..Len(left), left[i].kind # "part"
      PROVE  i = Len(left) /\ left[i] = good
  <2>1. i + n \in 1..Len(said) /\ left[i] = said[i + n]
    BY <1>1, <1>2
  <2>2. i + n = Len(said) /\ said[i + n] = good
    BY <1>4, <2>1 DEF Spoken
  <2>3. i = Len(left)
    <3>1. Len(left) = Len(said) - n
      BY <1>2
    <3> QED
      BY <1>1, <2>2, <3>1
  <2> QED
    BY <2>1, <2>2, <2>3
<1>5. (got + n) + Len(left) = got + Len(said)
  BY <1>1, <1>2
<1>6. Spoken(left, sent, got + n, NoLine, good)
  BY <1>3, <1>4, <1>5 DEF Spoken
<1> QED
  BY <1>6 DEF left

LEMMA SpokenLine ==
    ASSUME NEW said \in Seq({Piece} \cup Said), NEW sent \in Nat, NEW got \in Nat, NEW good,
           NEW n \in 1..Len(said), Spoken(said, sent, got, NoLine, good),
           NEW first \in 1..n, said[first].kind # "part", good # NoLine, NEW more
    PROVE  /\ first = n /\ said[first] = good
           /\ Spoken(SubSeq(said, n + 1, Len(said)), sent, more, good, good)
<1>1. Len(said) \in Nat /\ n \in Nat /\ n <= Len(said) /\ first \in 1..Len(said)
  OBVIOUS
<1>2. first = Len(said) /\ said[first] = good /\ sent = MaxPieces
  BY <1>1 DEF Spoken, Ended
<1>3. n = Len(said) /\ SubSeq(said, n + 1, Len(said)) = <<>>
  BY <1>1, <1>2
<1>4. ~Ended(<<>>) /\ \A i \in 1..Len(<<>>) : FALSE
  BY DEF Ended
<1> QED
  BY <1>2, <1>3, <1>4 DEF Spoken

LEMMA TakeKeeps ==
    ASSUME ShakeInv, step = "read", UNCHANGED <<honest, shutdown, spent, pc>>,
           NEW n \in 1..Len(conn[Stream].inbox), Take(n)
    PROVE  ShakeInv'
<1> DEFINE inbox == conn[Stream].inbox
           ends == {i \in EndsLine(inbox) : i <= n}
           first == CHOOSE i \in ends : \A j \in ends : i <= j
           left == SubSeq(inbox, n + 1, Len(inbox))
           new == [conn[Stream] EXCEPT !.inbox = left]
<1>1. /\ Stream \in Connections /\ conn[Stream].phase = "accepted" /\ conn[Stream] \in Connected
      /\ conn \in [Connections -> Connected] /\ stage \in ReplyStages
      /\ result = "none" /\ pc[Helper] = "launched" /\ reply = NoLine /\ frame \in Nat
      /\ inbox \in Seq({Piece} \cup Said) /\ conn[Stream].sent \in Nat
  <2>1. Stream \in Connections /\ conn[Stream].phase = "accepted"
    BY StreamsAreMade DEF ReplySteps
  <2>2. conn[Stream] \in Connected /\ conn \in [Connections -> Connected]
    BY <2>1 DEF ShakeInv, ShakeTypeOK
  <2>3. inbox \in Seq({Piece} \cup Said) /\ conn[Stream].sent \in Nat
    BY <2>2 DEF Connected
  <2> QED
    BY <2>1, <2>2, <2>3 DEF ShakeInv, ShakeTypeOK, StepInv, HeardInv, ReplySteps
<1>2. /\ conn' = [conn EXCEPT ![Stream].inbox = left] /\ step' = "took"
      /\ UNCHANGED <<queue, stage, streams, heard, boot, result>>
      /\ ends = {} => frame' = frame + n /\ UNCHANGED <<reply, trailing>>
      /\ ends # {} => frame' = frame + first - 1 /\ reply' = inbox[first] /\ trailing' = (first < n)
  BY DEF Take
<1>3. ends # {} => first \in 1..n /\ inbox[first].kind # "part"
  <2>1. ends \subseteq Nat /\ first = Min(ends)
    BY DEF EndsLine, Min
  <2>2. ends # {} => first \in ends
    BY <2>1, LeastNumber
  <2>3. ends \subseteq {i \in 1..n : inbox[i].kind # "part"}
    BY <1>1 DEF EndsLine
  <2> HIDE DEF ends, first, inbox
  <2> QED
    BY <2>2, <2>3
<1>4. ends = {} => \A i \in 1..n : inbox[i].kind = "part"
  BY <1>1 DEF EndsLine
<1>5. left \in Seq({Piece} \cup Said)
  BY <1>1
<1>6. new \in Connected /\ new.phase = "accepted" /\ new.asked = conn[Stream].asked
      /\ new.sent = conn[Stream].sent /\ new.inbox = left
  BY <1>1, <1>5 DEF Connected
<1>7. conn' = [conn EXCEPT ![Stream] = new]
  BY <1>1, <1>2
<1> HIDE DEF new, left, ends, first, inbox
<1>8. QueueInv' /\ StreamInv' /\ conn' \in [Connections -> Connected] /\ conn'[Stream] = new
  BY <1>1, <1>2, <1>6, <1>7, TalkKeeps
<1>9. frame' \in Nat /\ reply' \in Said \cup {NoLine} /\ trailing' \in BOOLEAN
  <2>1. CASE ends = {}
    <3>1. frame' = frame + n /\ reply' = NoLine /\ trailing' = trailing
      BY <1>1, <1>2, <2>1
    <3>2. trailing \in BOOLEAN /\ n \in Nat
      BY <1>1 DEF ShakeInv, ShakeTypeOK, inbox
    <3> QED
      BY <1>1, <3>1, <3>2
  <2>2. CASE ends # {}
    <3>1. first \in Nat /\ first >= 1 /\ inbox[first] \in Said
      <4>1. first \in 1..Len(inbox)
        <5>1. n \in 1..Len(inbox) /\ Len(inbox) \in Nat
          BY <1>1 DEF inbox
        <5> QED
          BY <1>3, <2>2, <5>1
      <4>2. inbox[first] \in {Piece} \cup Said
        <5>1. inbox \in Seq({Piece} \cup Said)
          BY <1>1
        <5> QED
          BY <4>1, <5>1
      <4> QED
        BY <1>3, <2>2, <4>1, <4>2 DEF Piece
    <3>2. frame' = frame + first - 1 /\ reply' = inbox[first]
      BY <1>2, <2>2
    <3>3. trailing' \in BOOLEAN
      <4>1. trailing' = (first < n)
        BY <1>2, <2>2
      <4> QED
        BY <4>1
    <3> QED
      BY <1>1, <3>1, <3>2, <3>3
  <2> QED
    BY <2>1, <2>2
<1>10. ShakeTypeOK'
  BY <1>2, <1>8, <1>9 DEF ShakeInv, ShakeTypeOK, ReplySteps
<1>11. StepInv'
  BY <1>1, <1>2 DEF ShakeInv, StepInv, AcceptSteps, ReplySteps
<1>12. Stream' = Stream /\ Good' = Good
  BY <1>2 DEF Stream, Last, Good
<1>13. AskedInv'
  <2>1. stage = "WithdrawalReply" => streams[1] \in Connections \ {Stream} /\ conn[streams[1]].asked = 1
    <3>1. stage = "WithdrawalReply" => Len(streams) = 2
      BY <1>1 DEF ShakeInv, StepInv
    <3>2. Stream = streams[Len(streams)]
      BY DEF Stream, Last
    <3>3. stage = "WithdrawalReply" => conn[streams[1]].asked = 1
      BY <1>1 DEF ShakeInv, AskedInv
    <3>4. stage = "WithdrawalReply" => streams[1] \in Connections /\ streams[1] # streams[2]
      BY <3>1, StreamsAreMade DEF ShakeInv, StreamInv
    <3> QED
      BY <3>1, <3>2, <3>3, <3>4
  <2>2. stage = "WithdrawalReply" => conn'[streams[1]].asked = 1
    BY <1>1, <1>7, <2>1
  <2>3. conn[Stream].asked = Lane(stage)
    BY <1>1 DEF ShakeInv, AskedInv, ReplySteps
  <2>4. /\ stage \notin {"DataAccept", "WithdrawalAccept"} /\ stage' = stage /\ streams' = streams
        /\ step' = "took" /\ result' = "none"
    BY <1>1, <1>2 DEF ReplyStages
  <2> QED
    BY <1>6, <1>8, <1>12, <2>2, <2>3, <2>4 DEF AskedInv, Lane
<1>14. HeardInv'
  BY <1>1, <1>2 DEF ShakeInv, HeardInv
<1>15. HonestInv'
  <2>1. CASE honest
    <3>1. ~trailing /\ boot = Boot /\ Spoken(inbox, conn[Stream].sent, frame, NoLine, Good)
      BY <1>1, <2>1 DEF ShakeInv, HonestInv, ReplySteps, inbox
    <3>2. Good # NoLine
      BY DEF Good, NoLine, Line
    <3>3. ~trailing' /\ reply' \in {NoLine, Good} /\ Spoken(left, conn[Stream].sent, frame', reply', Good)
      <4>1. CASE ends = {}
        <5>1. Spoken(left, conn[Stream].sent, frame + n, NoLine, Good)
          <6>1. (\A i \in 1..n : inbox[i].kind = "part") /\ n \in 1..Len(inbox)
            BY <1>4, <4>1 DEF inbox
          <6> QED
            BY <1>1, <3>1, <6>1, SpokenParts DEF left
        <5> QED
          BY <1>1, <1>2, <3>1, <4>1, <5>1
      <4>2. CASE ends # {}
        <5>1. /\ first = n /\ inbox[first] = Good
              /\ Spoken(left, conn[Stream].sent, frame', Good, Good)
          <6>1. first \in 1..n /\ inbox[first].kind # "part" /\ n \in 1..Len(inbox)
            BY <1>3, <4>2 DEF inbox
          <6> QED
            BY <1>1, <3>1, <3>2, <6>1, SpokenLine DEF left
        <5>2. reply' = inbox[first] /\ trailing' = (first < n)
          BY <1>2, <4>2
        <5>3. n \in Nat
          BY <1>1 DEF inbox
        <5>4. ~(first < n)
          BY <5>1, <5>3
        <5>5. ~trailing' /\ reply' = Good
          BY <5>1, <5>2, <5>4, Zenon
        <5> QED
          BY <5>1, <5>5, Zenon
      <4> QED
        BY <4>1, <4>2
    <3> QED
      BY <1>2, <1>6, <1>8, <1>12, <3>1, <3>3 DEF HonestInv, ReplySteps
  <2>2. CASE ~honest
    BY <2>2 DEF HonestInv
  <2> QED
    BY <2>1, <2>2
<1>16. FailureIsTrue'
  BY <1>1, <1>2 DEF FailureIsTrue
<1> QED
  BY <1>8, <1>10, <1>11, <1>13, <1>14, <1>15, <1>16 DEF ShakeInv

LEMMA ReadKeeps ==
    ASSUME ShakeInv, Handshake, UNCHANGED launchVars, read
    PROVE  ShakeInv'
<1>1. /\ step = "read" /\ pc[Helper] = "launched" /\ result = "none"
      /\ UNCHANGED <<honest, shutdown, spent>> /\ pc' = pc
  BY HostIsLaunched DEF Handshake, launchVars, read
<1>2. CASE remaining_at # "left" /\ Fail(remaining_at)
  BY <1>1, <1>2, GateKeeps
<1>3. CASE \E n \in 1..Len(conn[Stream].inbox) : Take(n)
  BY <1>1, <1>3, TakeKeeps
<1>4. CASE conn[Stream].gone /\ Fail("Closed")
  <2>1. Stream \in Connections /\ conn[Stream] \in Connected
    BY <1>1, StreamsAreMade DEF ShakeInv, ShakeTypeOK, ReplySteps
  <2>2. conn'[Stream].gone
    BY <1>4, <2>1 DEF Fail, Connected
  <2>3. FailureIsTrue'
    BY <1>4, <2>1, <2>2 DEF Fail, FailureIsTrue
  <2> QED
    BY <1>1, <1>4, <2>3, FailKeeps DEF Failures
<1>5. CASE Proceed("wait_read") /\ UNCHANGED peerVars
  <2>1. reply = NoLine
    BY <1>1 DEF ShakeInv, HeardInv
  <2> QED
    BY <1>1, <1>5, <2>1, ProceedKeeps DEF ReplySteps
<1> QED
  BY <1>2, <1>3, <1>4, <1>5 DEF read, Gated

----------------------------------------------------------------------------
(* The others                                                               *)

(* Whether a stream was closed by its peer is nowhere relied on.            *)
LEMMA SameHost ==
    ASSUME ShakeInv, UNCHANGED <<honest, queue, hostVars>>, conn' \in [Connections -> Connected],
           shutdown' \in BOOLEAN, spent' \in BOOLEAN,
           \A c \in Connections : /\ conn'[c].phase = conn[c].phase /\ conn'[c].asked = conn[c].asked
                                  /\ conn'[c].sent = conn[c].sent /\ conn'[c].inbox = conn[c].inbox,
           pc[Helper] = "launched" => pc'[Helper] = "launched", FailureIsTrue'
    PROVE  ShakeInv'
<1>1. UNCHANGED <<stage, step, frame, reply, trailing, streams, heard, boot, result>>
  BY DEF hostVars
<1>2. ShakeTypeOK'
  BY <1>1 DEF ShakeInv, ShakeTypeOK
<1>3. StepInv'
  BY <1>1 DEF ShakeInv, StepInv
<1>4. QueueInv' /\ StreamInv'
  <2>1. \A c \in Connections : FreshInv(c)'
    BY DEF ShakeInv, QueueInv, FreshInv
  <2> QED
    BY <1>1, <2>1, QueueStays, StreamsStay
<1>5. Stream' = Stream /\ Good' = Good
  BY <1>1 DEF Stream, Good, Last
<1>6. step \in ReplySteps \cup {"accepted"} \/ result = "ok" => Stream \in Connections
  BY StreamsAreMade
<1>7. AskedInv'
  <2>1. /\ Len(streams) >= 1 => streams[1] \in Connections
        /\ Len(streams) >= 2 => streams[2] \in Connections
    BY StreamsAreMade
  <2>2. result \in {"none", "ok"} =>
          /\ stage \in {"WithdrawalAccept", "WithdrawalReply", "DataAccept"} => Len(streams) >= 1
          /\ stage = "DataAccept" => Len(streams) >= 2
    BY DEF ShakeInv, StepInv
  <2> QED
    BY <1>1, <1>5, <1>6, <2>1, <2>2 DEF ShakeInv, AskedInv
<1>8. HeardInv'
  BY <1>1 DEF ShakeInv, HeardInv
<1>9. HonestInv'
  BY <1>1, <1>5, <1>6 DEF ShakeInv, HonestInv, ReplySteps
<1> QED
  BY <1>2, <1>3, <1>4, <1>7, <1>8, <1>9 DEF ShakeInv

(* One more waits.                                                          *)
LEMMA Enqueues ==
    ASSUME ShakeInv, NEW c \in Connections, conn[c].phase = "new",
           queue' = [queue EXCEPT ![At[c]] = Append(@, c)],
           conn'[c].phase = "queued", \A d \in Connections \ {c} : conn'[d] = conn[d],
           \A d \in Connections : FreshInv(d)'
    PROVE  QueueInv' /\ queue' \in [{"control", "data"} -> Seq(Connections)]
<1> DEFINE q == At[c]
<1>1. /\ q \in {"control", "data"} /\ queue \in [{"control", "data"} -> Seq(Connections)]
      /\ queue[q] \in Seq(Connections) /\ Len(queue[q]) \in Nat
  BY DEF ShakeInv, ShakeTypeOK
<1>2. /\ queue' \in [{"control", "data"} -> Seq(Connections)] /\ queue'[q] = Append(queue[q], c)
      /\ \A p \in {"control", "data"} : p # q => queue'[p] = queue[p]
  BY <1>1
<1>3. /\ Len(queue'[q]) = Len(queue[q]) + 1 /\ queue'[q][Len(queue[q]) + 1] = c
      /\ \A i \in 1..Len(queue[q]) : queue'[q][i] = queue[q][i]
  BY <1>1, <1>2
<1>4. ASSUME NEW p \in {"control", "data"}, NEW i \in 1..Len(queue[p])
      PROVE  /\ queue[p][i] \in Connections \ {c} /\ At[queue[p][i]] = p
             /\ conn'[queue[p][i]].phase = "queued"
  <2>1. queue[p] \in Seq(Connections) /\ WaitsInv(p)
    BY <1>1 DEF ShakeInv, QueueInv
  <2>2. queue[p][i] \in Connections
    BY <2>1
  <2>3. conn[queue[p][i]].phase = "queued" /\ At[queue[p][i]] = p
    BY <2>1 DEF WaitsInv
  <2> QED
    BY <2>2, <2>3
<1> HIDE DEF q
<1>5. ASSUME NEW p \in {"control", "data"} PROVE WaitsInv(p)' /\ OnceInv(p)'
  <2>1. OnceInv(p)
    BY DEF ShakeInv, QueueInv
  <2>2. CASE p # q
    <3>1. queue'[p] = queue[p]
      BY <1>2, <2>2
    <3>2. WaitsInv(p)'
      BY <1>4, <3>1 DEF WaitsInv
    <3>3. OnceInv(p)'
      BY <2>1, <3>1 DEF OnceInv
    <3> QED
      BY <3>2, <3>3
  <2>3. CASE p = q
    <3>1. \A i \in 1..Len(queue'[q]) : i \in 1..Len(queue[q]) \/ i = Len(queue[q]) + 1
      BY <1>1, <1>3
    <3>2. \A i \in 1..Len(queue'[q]) : conn'[queue'[q][i]].phase = "queued" /\ At[queue'[q][i]] = q
      BY <1>1, <1>3, <1>4, <3>1 DEF q
    <3>3. WaitsInv(p)'
      BY <2>3, <3>2 DEF WaitsInv
    <3>4. \A i, j \in 1..Len(queue'[q]) : queue'[q][i] = queue'[q][j] => i = j
      <4>1. \A i, j \in 1..Len(queue[q]) : queue[q][i] = queue[q][j] => i = j
        BY <2>1, <2>3 DEF OnceInv
      <4>2. ASSUME NEW i \in 1..Len(queue[q]) PROVE queue'[q][i] # c
        <5>1. queue[q][i] \in Connections \ {c}
          BY <1>1, <1>4
        <5> QED
          BY <1>3, <5>1
      <4> QED
        BY <1>3, <3>1, <4>1, <4>2
    <3>5. OnceInv(p)'
      BY <2>3, <3>4 DEF OnceInv
    <3> QED
      BY <3>3, <3>5
  <2> QED
    BY <2>2, <2>3
<1> QED
  BY <1>2, <1>5 DEF QueueInv

LEMMA ConnectKeeps ==
    ASSUME ShakeInv, NEW c \in Connections, Connect(c), result = "none",
           UNCHANGED <<honest, shutdown, spent, hostVars, pc>>
    PROVE  ShakeInv'
<1>1. UNCHANGED <<stage, step, frame, reply, trailing, streams, heard, boot, result>>
  BY DEF hostVars
<1> DEFINE new == [conn[c] EXCEPT !.phase = "queued"]
<1>2. /\ conn[c].phase = "new" /\ conn[c] \in Connected /\ conn \in [Connections -> Connected]
      /\ conn' = [conn EXCEPT ![c].phase = "queued"]
      /\ queue' = [queue EXCEPT ![At[c]] = Append(@, c)]
  BY DEF Connect, ShakeInv, ShakeTypeOK
<1>3. /\ new \in Connected /\ new.phase = "queued" /\ new.asked = conn[c].asked
      /\ new.sent = conn[c].sent /\ new.inbox = conn[c].inbox
  BY <1>2 DEF Connected
<1>4. conn' \in [Connections -> Connected] /\ conn'[c] = new /\ \A d \in Connections \ {c} : conn'[d] = conn[d]
  BY <1>2, <1>3
<1> HIDE DEF new
<1>5. \A d \in Connections : FreshInv(d)'
  BY <1>2, <1>3, <1>4 DEF ShakeInv, QueueInv, FreshInv
<1>6. QueueInv' /\ queue' \in [{"control", "data"} -> Seq(Connections)]
  BY <1>2, <1>3, <1>4, <1>5, Enqueues
<1>7. StreamInv'
  BY <1>1, <1>2, <1>3, <1>4, StreamsStay
<1>8. ShakeTypeOK'
  BY <1>1, <1>4, <1>6 DEF ShakeInv, ShakeTypeOK
<1>9. StepInv'
  BY <1>1 DEF ShakeInv, StepInv
<1>10. \A i \in 1..Len(streams) : conn'[streams[i]] = conn[streams[i]]
  BY <1>2, <1>4, StreamsAreMade DEF ShakeInv, StreamInv
<1>11. Stream' = Stream /\ Good' = Good
       /\ (step \in ReplySteps \cup {"accepted"} => conn'[Stream] = conn[Stream])
  BY <1>1, <1>2, <1>4, StreamsAreMade DEF Stream, Good, Last
<1>12. AskedInv'
  <2>1. /\ stage \in {"WithdrawalAccept", "WithdrawalReply", "DataAccept"} => 1 \in 1..Len(streams)
        /\ stage = "DataAccept" => 2 \in 1..Len(streams)
    BY StreamsAreMade DEF ShakeInv, StepInv
  <2> QED
    BY <1>1, <1>10, <1>11, <2>1 DEF ShakeInv, AskedInv
<1>13. HeardInv'
  BY <1>1 DEF ShakeInv, HeardInv
<1>14. HonestInv'
  BY <1>1, <1>11 DEF ShakeInv, HonestInv, ReplySteps
<1>15. FailureIsTrue'
  BY <1>1 DEF FailureIsTrue
<1> QED
  BY <1>6, <1>7, <1>8, <1>9, <1>12, <1>13, <1>14, <1>15 DEF ShakeInv

(* What an honest guest adds to what it said.                               *)
LEMMA SpokenMore ==
    ASSUME NEW said \in Seq({Piece} \cup Said), NEW sent \in Nat, NEW got \in Nat, NEW good, NEW told,
           NEW piece \in {Piece} \cup Said, NEW more, Spoken(said, sent, got, told, good), sent < MaxPieces,
           IF piece.kind = "part" THEN sent < MaxResponse /\ more = sent + 1
           ELSE piece = good /\ more = MaxPieces
    PROVE  Spoken(Append(said, piece), more, got, told, good)
<1> DEFINE new == Append(said, piece)
<1>1. /\ Len(said) \in Nat /\ Len(new) = Len(said) + 1 /\ new[Len(said) + 1] = piece
      /\ \A i \in 1..Len(said) : new[i] = said[i]
  OBVIOUS
<1>2. ~Ended(said) /\ told = NoLine /\ got + Len(said) <= sent /\ sent <= MaxResponse
  BY DEF Spoken
<1> HIDE DEF new
<1>3. \A i \in 1..Len(new) : new[i].kind # "part" => i = Len(said) + 1
  BY <1>1, <1>2 DEF Ended
<1>4. CASE piece.kind = "part"
  <2>1. ~Ended(new)
    BY <1>1, <1>3, <1>4 DEF Ended
  <2>2. got + Len(new) <= more /\ more <= MaxResponse
    BY <1>1, <1>2, <1>4
  <2>3. Spoken(new, more, got, told, good)
    BY <1>2, <2>1, <2>2 DEF Spoken, Ended
  <2> QED
    BY <2>3 DEF new
<1>5. CASE piece.kind # "part"
  <2>1. Ended(new)
    BY <1>1, <1>5 DEF Ended
  <2>2. got + Len(new) <= MaxResponse + 1
    BY <1>1, <1>2
  <2>3. Spoken(new, more, got, told, good)
    BY <1>1, <1>2, <1>3, <1>5, <2>1, <2>2 DEF Spoken
  <2> QED
    BY <2>3 DEF new
<1> QED
  BY <1>4, <1>5

LEMMA AnswerKeeps ==
    ASSUME ShakeInv, NEW piece \in {Piece} \cup Said, Answer(piece), Shaking,
           UNCHANGED <<honest, shutdown, spent, hostVars, pc>>
    PROVE  ShakeInv'
<1>1. UNCHANGED <<stage, step, frame, reply, trailing, streams, heard, boot, result>> /\ queue' = queue
  BY DEF hostVars, Answer
<1>2. result = "none" /\ step \in ReplySteps /\ stage \in ReplyStages
  BY DEF Shaking, Answer, Replying, ShakeInv, ShakeTypeOK, StepInv, ReplyStages
<1>3. Stream \in Connections /\ conn[Stream].phase = "accepted" /\ conn[Stream] \in Connected
      /\ conn \in [Connections -> Connected] /\ Stream = streams[Len(streams)]
  BY <1>2, StreamsAreMade DEF ShakeInv, ShakeTypeOK
<1> DEFINE more == IF honest /\ piece.kind # "part" THEN MaxPieces ELSE conn[Stream].sent + 1
           said == conn[Stream].inbox
           new == [conn[Stream] EXCEPT !.inbox = Append(said, piece), !.sent = more]
<1>4. /\ conn[Stream].sent < MaxPieces
      /\ honest => /\ conn[Stream].asked # 0
                   /\ IF piece.kind = "part" THEN conn[Stream].sent < MaxResponse
                      ELSE piece = Line("result", conn[Stream].asked, Boot, Policy)
      /\ conn' = [conn EXCEPT ![Stream].inbox = Append(@, piece),
                              ![Stream].sent = IF honest /\ piece.kind # "part" THEN MaxPieces ELSE @ + 1]
  BY DEF Answer
<1>5. said \in Seq({Piece} \cup Said) /\ Append(said, piece) \in Seq({Piece} \cup Said)
      /\ conn[Stream].sent \in Nat /\ more \in Nat
  BY <1>3 DEF Connected
<1>6. new \in Connected /\ new.phase = "accepted" /\ new.asked = conn[Stream].asked
      /\ new.inbox = Append(said, piece) /\ new.sent = more
  <2> HIDE DEF more
  <2> QED
    BY <1>3, <1>5 DEF Connected
<1>7. conn' = [conn EXCEPT ![Stream] = new]
  BY <1>3, <1>4
<1> HIDE DEF new, more
<1>8. QueueInv' /\ StreamInv' /\ conn' \in [Connections -> Connected] /\ conn'[Stream] = new
  BY <1>1, <1>3, <1>6, <1>7, TalkKeeps
<1>9. ShakeTypeOK'
  BY <1>1, <1>8 DEF ShakeInv, ShakeTypeOK
<1>10. StepInv'
  BY <1>1 DEF ShakeInv, StepInv
<1>11. Stream' = Stream /\ Good' = Good
  BY <1>1 DEF Stream, Last, Good
<1>12. AskedInv'
  <2>1. stage = "WithdrawalReply" => streams[1] \in Connections \ {Stream} /\ conn[streams[1]].asked = 1
    <3>1. stage = "WithdrawalReply" => Len(streams) = 2
      BY <1>2 DEF ShakeInv, StepInv, ReplySteps
    <3> QED
      BY <1>2, <1>3, <3>1, StreamsAreMade DEF ShakeInv, StreamInv, AskedInv
  <2>2. stage = "WithdrawalReply" => conn'[streams[1]].asked = 1
    BY <1>3, <1>7, <2>1
  <2>3. conn[Stream].asked = IF step = "send" THEN 0 ELSE Lane(stage)
    BY <1>2 DEF ShakeInv, AskedInv
  <2>4. /\ stage \notin {"DataAccept", "WithdrawalAccept"} /\ stage' = stage /\ streams' = streams
        /\ step' = step /\ step # "accepted" /\ result' = "none"
    BY <1>1, <1>2 DEF ReplyStages, ReplySteps
  <2> QED
    BY <1>6, <1>8, <1>11, <2>2, <2>3, <2>4 DEF AskedInv, Lane
<1>13. HeardInv'
  BY <1>1 DEF ShakeInv, HeardInv
<1>14. HonestInv'
  <2>1. CASE honest
    <3>1. conn[Stream].asked = Lane(stage) /\ step # "send"
      BY <1>2, <1>4, <2>1 DEF ShakeInv, AskedInv
    <3>2. /\ ~trailing /\ boot = Boot /\ reply \in {NoLine, Good}
          /\ Spoken(said, conn[Stream].sent, frame, reply, Good)
      BY <1>2, <2>1, <3>1 DEF ShakeInv, HonestInv
    <3>3. IF piece.kind = "part" THEN conn[Stream].sent < MaxResponse /\ more = conn[Stream].sent + 1
          ELSE piece = Good /\ more = MaxPieces
      BY <1>4, <2>1, <3>1 DEF Good, more
    <3>4. frame \in Nat
      BY DEF ShakeInv, ShakeTypeOK
    <3>5. Spoken(Append(said, piece), more, frame, reply, Good)
      <4> HIDE DEF said
      <4> QED
        BY <1>4, <1>5, <3>2, <3>3, <3>4, SpokenMore
    <3> QED
      BY <1>1, <1>6, <1>8, <1>11, <3>1, <3>2, <3>5 DEF HonestInv
  <2>2. CASE ~honest
    BY <2>2 DEF HonestInv
  <2> QED
    BY <2>1, <2>2
<1>15. FailureIsTrue'
  BY <1>1, <1>2 DEF FailureIsTrue
<1> QED
  BY <1>8, <1>9, <1>10, <1>12, <1>13, <1>14, <1>15 DEF ShakeInv

LEMMA HangupKeeps ==
    ASSUME ShakeInv, NEW c \in Connections, Hangup(c), result = "none",
           UNCHANGED <<honest, shutdown, spent, hostVars, pc>>
    PROVE  ShakeInv'
<1>1. conn' = [conn EXCEPT ![c].gone = TRUE] /\ queue' = queue
  BY DEF Hangup
<1>2. /\ shutdown' \in BOOLEAN /\ spent' \in BOOLEAN /\ result' = "none"
  BY DEF ShakeInv, ShakeTypeOK, hostVars
<1>3. ASSUME NEW d \in Connections
      PROVE  /\ conn'[d] \in Connected
             /\ conn'[d].phase = conn[d].phase /\ conn'[d].asked = conn[d].asked
             /\ conn'[d].sent = conn[d].sent /\ conn'[d].inbox = conn[d].inbox
  <2>1. conn[d] \in Connected /\ conn \in [Connections -> Connected]
    BY DEF ShakeInv, ShakeTypeOK
  <2>2. conn'[d] = IF d = c THEN [conn[d] EXCEPT !.gone = TRUE] ELSE conn[d]
    BY <1>1, <2>1
  <2> QED
    BY <2>1, <2>2 DEF Connected
<1>4. conn' \in [Connections -> Connected]
  BY <1>1, <1>3 DEF ShakeInv, ShakeTypeOK
<1>5. FailureIsTrue'
  BY <1>2 DEF FailureIsTrue
<1> QED
  BY <1>1, <1>2, <1>3, <1>4, <1>5, SameHost

(* Cancellation and the passing of time.                                    *)
LEMMA BudgetKeeps ==
    ASSUME ShakeInv, Cancel \/ Spend, UNCHANGED pc
    PROVE  ShakeInv'
<1>1. /\ UNCHANGED <<honest, conn, queue, hostVars>> /\ result' = "none"
      /\ shutdown' \in BOOLEAN /\ spent' \in BOOLEAN
  BY DEF Cancel, Spend, peerVars, hostVars, Shaking, ShakeInv, ShakeTypeOK
<1>2. conn' \in [Connections -> Connected]
  BY <1>1 DEF ShakeInv, ShakeTypeOK
<1>3. FailureIsTrue'
  BY <1>1 DEF FailureIsTrue
<1> QED
  BY <1>1, <1>2, <1>3, SameHost

LEMMA ShakePreserves ==
    ASSUME ShakeInv, platform \in Platforms, ShakeNext, UNCHANGED launchVars
    PROVE  ShakeInv'
<1>1. CASE Handshake
  BY <1>1, WaitKeeps, AcceptKeeps, AcceptedKeeps, SendKeeps, ReadKeeps, HelloKeeps, JudgedKeeps DEF Handshake
<1>2. CASE Peers
  <2>1. Shaking /\ result = "none" /\ UNCHANGED <<honest, shutdown, spent, hostVars, pc>>
    BY <1>2 DEF Peers, Shaking, launchVars
  <2> QED
    BY <1>2, <2>1, ConnectKeeps, HangupKeeps, AnswerKeeps DEF Peers
<1>3. CASE Cancel \/ Spend
  BY <1>3, BudgetKeeps DEF launchVars
<1> QED
  BY <1>1, <1>2, <1>3 DEF ShakeNext

(* A child that has ended is not there again, once its launch is over.      *)
LEMMA EndedStays ==
    ASSUME LaunchInv, [Next]_vars, pc[Helper] = "launched", ~Running
    PROVE  ~Running'
<1>1. /\ Helper \in Launches /\ Helper \in Threads /\ child[Helper] \in {"none", "refused", "exited"}
      /\ DOMAIN child = Threads
  BY DEF Running, LaunchInv, LaunchTypeOK, Threads
<1>2. child'[Helper] \in {child[Helper], "exited"}
  <2>1. CASE UNCHANGED child
    BY <2>1
  <2>2. CASE LaunchNext
    <3>1. CASE \E l \in Launches : Prepare(l) \/ drop_exec(l)
      BY <3>1 DEF Prepare, drop_exec
    <3>2. ASSUME NEW t \in Threads, Spawn(t) PROVE child'[Helper] = child[Helper]
      BY <1>1, <3>2 DEF Spawn, fork, fork_fails, MayFork
    <3>3. ASSUME NEW t \in Threads, Child(t) PROVE child'[Helper] = child[Helper]
      BY <1>1, <3>3 DEF Child, launch, close_above_three, judge_descriptors, read_recipe, execve
    <3> QED
      BY <2>2, <3>1, <3>2, <3>3 DEF LaunchNext
  <2>3. ASSUME NEW t \in Threads, Gone(t) PROVE child'[Helper] \in {child[Helper], "exited"}
    BY <1>1, <2>3 DEF Gone, Exits, Exit
  <2> QED
    BY <2>1, <2>2, <2>3 DEF Next, vars, launchVars, drop_pipe
<1> QED
  BY <1>1, <1>2 DEF Running

(* The launches, the reader and the end of a child.                         *)
LEMMA OthersKeep ==
    ASSUME ShakeInv, LaunchInv, LaunchInv', [Next]_vars, UNCHANGED <<honest, shutdown, spent, queue, hostVars>>,
           conn' \in [Connections -> Connected],
           \A c \in Connections : /\ conn'[c].phase = conn[c].phase /\ conn'[c].asked = conn[c].asked
                                  /\ conn'[c].sent = conn[c].sent /\ conn'[c].inbox = conn[c].inbox
                                  /\ conn[c].gone => conn'[c].gone,
           UNCHANGED platform
    PROVE  ShakeInv'
<1>1. pc[Helper] = "launched" => pc'[Helper] = "launched"
  BY LaunchedStays
<1>2. FailureIsTrue'
  <2>1. result' = result /\ result \in {"none", "ok"} \cup Failures
    BY DEF hostVars, ShakeInv, ShakeTypeOK
  <2>2. FailureIsTrue
    BY DEF ShakeInv
  <2>3. CASE result = "HelperEnded"
    <3>1. pc[Helper] = "launched" /\ ~Running
      BY <2>2, <2>3 DEF ShakeInv, StepInv, FailureIsTrue
    <3>2. ~Running'
      BY <3>1, EndedStays
    <3> QED
      BY <2>1, <2>3, <3>2 DEF FailureIsTrue
  <2>4. CASE result = "ForeignPeer"
    BY <2>1, <2>2, <2>4 DEF FailureIsTrue
  <2>5. CASE result = "PeerRefused"
    BY <2>1, <2>2, <2>5 DEF FailureIsTrue
  <2>6. CASE result = "Closed"
    BY <2>1, <2>2, <2>6 DEF FailureIsTrue
  <2>7. CASE result \notin {"HelperEnded", "ForeignPeer", "PeerRefused", "Closed"}
    BY <2>1, <2>2, <2>7 DEF FailureIsTrue
  <2> QED
    BY <2>3, <2>4, <2>5, <2>6, <2>7
<1>3. shutdown' \in BOOLEAN /\ spent' \in BOOLEAN
  BY DEF ShakeInv, ShakeTypeOK
<1> QED
  BY <1>1, <1>2, <1>3, SameHost

LEMMA ShakeSteps == ShakeInv /\ LaunchInv /\ LaunchInv' /\ [Next]_vars => ShakeInv'
<1> SUFFICES ASSUME ShakeInv, LaunchInv, LaunchInv', [Next]_vars PROVE ShakeInv'
  OBVIOUS
<1>1. platform \in Platforms /\ conn \in [Connections -> Connected]
  BY DEF LaunchInv, LaunchTypeOK, ShakeInv, ShakeTypeOK
<1>2. CASE ShakeNext /\ UNCHANGED <<launchVars, transcriptVars>>
  BY <1>1, <1>2, ShakePreserves
<1>3. platform' = platform
  BY DEF Next, vars, LaunchNext, Gone, Exits, launchVars, drop_pipe
<1>4. CASE UNCHANGED shakeVars
  <2>1. UNCHANGED <<honest, shutdown, spent, queue, conn, hostVars>>
    BY <1>4 DEF shakeVars, peerVars
  <2> QED
    BY <1>1, <1>3, <2>1, OthersKeep
<1>5. ASSUME NEW t \in Threads, Gone(t) PROVE ShakeInv'
  <2>1. UNCHANGED <<honest, shutdown, spent, queue, hostVars>> /\ (HangupAll \/ UNCHANGED conn)
    BY <1>5 DEF Gone
  <2>2. ASSUME NEW c \in Connections
        PROVE  /\ conn'[c] \in Connected
               /\ conn'[c].phase = conn[c].phase /\ conn'[c].asked = conn[c].asked
               /\ conn'[c].sent = conn[c].sent /\ conn'[c].inbox = conn[c].inbox
               /\ conn[c].gone => conn'[c].gone
    <3>1. conn[c] \in Connected /\ conn'[c] \in {conn[c], [conn[c] EXCEPT !.gone = TRUE]}
      BY <1>1, <2>1 DEF HangupAll
    <3> QED
      BY <3>1 DEF Connected
  <2>3. conn' \in [Connections -> Connected]
    BY <1>1, <2>1, <2>2 DEF HangupAll
  <2> QED
    BY <1>3, <2>1, <2>2, <2>3, OthersKeep
<1> QED
  BY <1>2, <1>4, <1>5 DEF Next, vars

LEMMA ShakeStarts == Init => ShakeInv
<1> SUFFICES ASSUME ShakeInit PROVE ShakeInv
  BY DEF Init
<1>1. /\ honest \in BOOLEAN /\ shutdown = FALSE /\ spent = FALSE /\ trailing = FALSE
  BY Zenon DEF ShakeInit
<1>2. /\ stage = "NormalAccept" /\ step \in {"begin", "none"} /\ frame = 0 /\ reply = NoLine
      /\ streams = <<>> /\ heard = <<>> /\ boot = Boot /\ result = "none"
      /\ queue = [l \in {"control", "data"} |-> <<>>]
  BY DEF ShakeInit, NoLine, Line
<1>3. ASSUME NEW c \in Connections
      PROVE  /\ conn[c] \in Connected /\ conn[c].phase \in {"never", "new"}
             /\ conn[c].asked = 0 /\ conn[c].sent = 0 /\ conn[c].inbox = <<>>
  <2>1. PICK never \in SUBSET Connections :
          conn = [d \in Connections |->
                     [phase |-> IF d \in never THEN "never" ELSE "new",
                      gone |-> FALSE, asked |-> 0, sent |-> 0, inbox |-> <<>>]]
    BY DEF ShakeInit
  <2>2. <<>> \in Seq({Piece} \cup Said)
    OBVIOUS
  <2>3. conn[c] = [phase |-> IF c \in never THEN "never" ELSE "new",
                   gone |-> FALSE, asked |-> 0, sent |-> 0, inbox |-> <<>>]
    BY <2>1
  <2> QED
    BY <2>2, <2>3 DEF Connected
<1>4. conn \in [Connections -> Connected]
  <2>1. PICK never \in SUBSET Connections :
          conn = [d \in Connections |->
                     [phase |-> IF d \in never THEN "never" ELSE "new",
                      gone |-> FALSE, asked |-> 0, sent |-> 0, inbox |-> <<>>]]
    BY DEF ShakeInit
  <2> QED
    BY <1>3, <2>1
<1>5. <<>> \in Seq(Connections) /\ <<>> \in Seq(Said) /\ Len(<<>>) = 0
  OBVIOUS
<1>6. ShakeTypeOK
  <2>1. /\ shutdown \in BOOLEAN /\ spent \in BOOLEAN /\ trailing \in BOOLEAN
    BY <1>1
  <2> QED
    BY <1>1, <1>2, <1>4, <1>5, <2>1 DEF ShakeTypeOK, AcceptSteps
<1>7. StepInv
  BY <1>2, <1>5 DEF StepInv, ReplyStages, ReplySteps, Failures
<1>8. QueueInv
  <2>1. \A q \in {"control", "data"} : queue[q] = <<>>
    BY <1>2
  <2>2. \A q \in {"control", "data"} : WaitsInv(q) /\ OnceInv(q)
    BY <1>5, <2>1 DEF WaitsInv, OnceInv
  <2> QED
    BY <1>3, <2>2 DEF QueueInv, FreshInv
<1>9. StreamInv
  BY <1>2, <1>3, <1>5 DEF StreamInv
<1>10. AskedInv /\ HeardInv
  BY <1>2, <1>5 DEF AskedInv, HeardInv, ReplySteps
<1>11. HonestInv
  BY <1>1, <1>2 DEF HonestInv, ReplySteps
<1>12. FailureIsTrue
  BY <1>2 DEF FailureIsTrue
<1> QED
  BY <1>6, <1>7, <1>8, <1>9, <1>10, <1>11, <1>12 DEF ShakeInv

(* Where the handshake is, whom it has accepted, what was asked and heard   *)
(* on every stream, and what an honest guest may have said.                 *)
THEOREM ShakeInvariant == Spec => []ShakeInv
BY ShakeStarts, ShakeSteps, LaunchInvariant, PTL DEF Spec

LEMMA ShakeIsSound == ShakeInv => OutcomeIsTrue
<1> SUFFICES ASSUME ShakeInv PROVE AssociationIsSound
  BY DEF OutcomeIsTrue, ShakeInv
<1>1. ASSUME result = "ok"
      PROVE  /\ Len(streams) = 3
             /\ \A i \in 1..3 : By[streams[i]] = Helper /\ conn[streams[i]].phase = "accepted"
             /\ \A i \in 1..2 : At[streams[i]] = "control" /\ conn[streams[i]].asked = i
             /\ At[streams[3]] = "data" /\ conn[streams[3]].asked = 0
             /\ \A i \in 1..2 : heard[i] = Line("result", i, boot, Policy)
  <2>1. stage = "DataAccept" /\ Len(streams) = 3 /\ Len(heard) = 2
    BY <1>1 DEF ShakeInv, StepInv, HeardInv
  <2>2. Stream = streams[3]
    BY <2>1 DEF Stream, Last
  <2>3. conn[streams[1]].asked = 1 /\ conn[streams[2]].asked = 2 /\ conn[streams[3]].asked = 0
    BY <1>1, <2>1, <2>2 DEF ShakeInv, AskedInv
  <2>4. \A i \in 1..3 : /\ By[streams[i]] = Helper /\ conn[streams[i]].phase = "accepted"
                        /\ At[streams[i]] = IF i = 3 THEN "data" ELSE "control"
    BY <2>1 DEF ShakeInv, StreamInv
  <2>5. \A i \in 1..2 : heard[i] = Line("result", i, boot, Policy)
    BY <2>1 DEF ShakeInv, HeardInv
  <2>6. \A i \in 1..2 : conn[streams[i]].asked = i
    BY <2>3
  <2> QED
    BY <2>1, <2>3, <2>4, <2>5, <2>6
<1>2. ASSUME result \notin {"none", "ok"} PROVE \A c \in Connections : conn[c].phase # "accepted"
  <2>1. streams = <<>>
    BY <1>2 DEF ShakeInv, ShakeTypeOK, StepInv
  <2> QED
    BY <2>1 DEF ShakeInv, StreamInv
<1> QED
  BY <1>1, <1>2 DEF AssociationIsSound

(* What handshake returns is so, for any connections of any processes in    *)
(* any order, any replies and any allowance: an Association holds three     *)
(* streams of this helper, asked and answered on their lanes, and a failure *)
(* names what happened.                                                     *)
THEOREM HandshakeIsTrue == Spec => []OutcomeIsTrue
BY ShakeInvariant, ShakeIsSound, PTL
=============================================================================
