------------------------------- MODULE VmmChild -------------------------------
(***************************************************************************)
(* The handle of a forked child and its process group: crate                *)
(* plasmosome-membrane, vmm.rs.  Each handle has one owner, so one call     *)
(* runs on it at a time, one action per system call; handles run beside     *)
(* each other and share the numbers of the process table.                   *)
(*                                                                          *)
(* A number is taken as long as its process is not waited for or its group  *)
(* has a member, and then goes to anyone.  Leaders and workers fork and     *)
(* exit when they like; signals and waits fail.  A wait that is repeated    *)
(* when a signal interrupts it is one action.                               *)
(*                                                                          *)
(* VmmChild's contract: a group signal reaches every member at once, and    *)
(* nobody else waits for the child.  The second half is loosened where      *)
(* Thief is set: another waiter may consume the status, but not between a   *)
(* wait of a call and the signal it leads to, and the number then goes to a *)
(* process that is not this process's child.                                *)
(***************************************************************************)
EXTENDS Naturals

CONSTANTS
    Handles,
    Pids,
    Stranger,
    Nothing,
    Thief,
    MaxWorkers  \* bound: members of one group beside its leader

ASSUME VmmChildAssumption ==
    /\ Nothing \notin Handles \cup Pids
    /\ Nothing \notin {"state", "kill", "drop", "drop_failed"}
    /\ Stranger \notin Handles \cup {Nothing}
    /\ Thief \in BOOLEAN
    /\ MaxWorkers \in Nat

VARIABLES
    processes,  \* for each number: whose process, how its leader and its group stand
    pid,        \* the number of each handle's child
    lifecycle,  \* what each handle knows of it
    call,       \* the call that runs on each handle
    syscall,    \* its next system call
    stray,      \* ghost: a signal went to a process the handle does not own
    excused     \* ghost: handles whose last call was interrupted or not permitted

childVars == <<processes, pid, lifecycle, call, syscall, stray, excused>>

Free == [owner |-> Nothing, leader |-> "reaped", workers |-> 0]

ChildInit ==
    /\ processes = [p \in Pids |-> Free]
    /\ pid = [h \in Handles |-> Nothing]
    /\ lifecycle = [h \in Handles |-> "Unborn"]
    /\ call = [h \in Handles |-> Nothing]
    /\ syscall = [h \in Handles |-> "idle"]
    /\ stray = FALSE
    /\ excused = {}

Finished == {"Finished", "FinishedGroupFailed", "Lost"}

Process(h) == processes[pid[h]]

----------------------------------------------------------------------------
(* The process table                                                        *)

(* The number is released with the last of leader and members.              *)
Settled(process) ==
    IF process.leader = "reaped" /\ process.workers = 0 THEN Free ELSE process

SetProcess(p, process) == processes' = [processes EXCEPT ![p] = Settled(process)]

LeaderEnds(p) ==
    SetProcess(p, [processes[p] EXCEPT !.leader =
                      IF processes[p].owner \in Handles THEN "zombie" ELSE "reaped"])

setsid(p) ==
    /\ processes[p].leader = "setup"
    /\ SetProcess(p, [processes[p] EXCEPT !.leader = "running"])

LeaderExits(p) ==
    /\ processes[p].leader \in {"setup", "running"}
    /\ LeaderEnds(p)

(* A leader that was sent SIGKILL does nothing more.                        *)
LeaderDies(p) ==
    /\ processes[p].leader = "killed"
    /\ LeaderEnds(p)

(* Bounded by MaxWorkers.                                                   *)
WorkerForked(p) ==
    /\ processes[p].leader = "running" \/ processes[p].workers > 0
    /\ processes[p].workers < MaxWorkers
    /\ SetProcess(p, [processes[p] EXCEPT !.workers = @ + 1])

WorkerExits(p) ==
    /\ processes[p].workers > 0
    /\ SetProcess(p, [processes[p] EXCEPT !.workers = @ - 1])

StrangerStarts(p) ==
    /\ processes[p] = Free
    /\ SetProcess(p, [owner |-> Stranger, leader |-> "running", workers |-> 0])

(* Another waiter consumes the child's status.                              *)
Stolen(p) ==
    /\ Thief
    /\ processes[p].leader = "zombie"
    /\ syscall[processes[p].owner] \notin {"signal_leader", "signal_group"}
    /\ SetProcess(p, [processes[p] EXCEPT !.leader = "reaped"])

Others ==
    /\ \E p \in Pids :
          \/ setsid(p)
          \/ LeaderExits(p)
          \/ LeaderDies(p)
          \/ WorkerForked(p)
          \/ WorkerExits(p)
          \/ StrangerStarts(p)
          \/ Stolen(p)
    /\ UNCHANGED <<pid, lifecycle, call, syscall, stray, excused>>

----------------------------------------------------------------------------
(* The calls                                                                *)

NextCall(h, step) == syscall' = [syscall EXCEPT ![h] = step]

Becomes(h, state) == lifecycle' = [lifecycle EXCEPT ![h] = state]

(* The call returns, with whatever result; drop ends the handle.            *)
Return(h) == NextCall(h, IF call[h] \in {"drop", "drop_failed"} THEN "dropped" ELSE "idle")

Excuse(h) == excused' = excused \cup {h}

spawn(h, p) ==
    /\ lifecycle[h] = "Unborn"
    /\ processes[p] = Free
    /\ \A g \in Handles : pid[g] = p => lifecycle[g] \in Finished
    /\ SetProcess(p, [owner |-> h, leader |-> "setup", workers |-> 0])
    /\ pid' = [pid EXCEPT ![h] = p]
    /\ Becomes(h, "Owned")
    /\ UNCHANGED <<call, syscall, stray, excused>>

(* Mutant: an exit that an earlier call observed is not observed again.     *)
First_Trusts(h) ==
    CASE lifecycle[h] = "GroupSignaled" -> "reap"
      [] lifecycle[h] = "ExitObserved" -> "signal_group"
      [] OTHER -> "observe"

(* Where state, kill and drop begin.                                        *)
First(h) == IF lifecycle[h] = "GroupSignaled" THEN "reap" ELSE "observe"

(* state, which wait_terminal repeats, kill and drop.  On a finished handle *)
(* they use what it holds and make no system call.                          *)
Begin(h, c) ==
    /\ syscall[h] = "idle"
    /\ lifecycle[h] # "Unborn"
    /\ lifecycle[h] \in Finished => c = "drop"
    /\ call' = [call EXCEPT ![h] = c]
    /\ NextCall(h, IF lifecycle[h] \in Finished THEN "dropped" ELSE First(h))
    /\ excused' = excused \ {h}
    /\ UNCHANGED <<processes, pid, lifecycle, stray>>

(* waitid on the handle's number: the status of a child, none yet, ECHILD.  *)
IsChild(h) == Process(h).owner \in Handles /\ Process(h).leader # "reaped"
Exited(h) == IsChild(h) /\ Process(h).leader = "zombie"
StillRuns(h) == IsChild(h) /\ Process(h).leader # "zombie"

Lose(h) ==
    /\ ~IsChild(h)
    /\ Becomes(h, "Lost")
    /\ Return(h)

(* observe, without consuming.  drop repeats it until it is not interrupted *)
(* but after a leader signal that failed observes once more only.           *)
observe(h) ==
    /\ syscall[h] \in {"observe", "observe_again"}
    /\ \/ /\ Exited(h)
          /\ Becomes(h, "ExitObserved")
          /\ NextCall(h, "signal_group")
       \/ /\ StillRuns(h)
          /\ IF call[h] = "state" \/ syscall[h] = "observe_again"
             THEN Return(h) ELSE NextCall(h, "signal_leader")
          /\ UNCHANGED lifecycle
       \/ Lose(h)
    /\ UNCHANGED <<processes, pid, call, stray, excused>>

observe_interrupted(h) ==
    /\ \/ syscall[h] = "observe" /\ call[h] # "drop"
       \/ syscall[h] = "observe_again"
    /\ Return(h)
    /\ Excuse(h)
    /\ UNCHANGED <<processes, pid, lifecycle, call, stray>>

(* A signal to a number that is not the handle's own child's.               *)
Strikes(h) == Process(h).owner \notin {h, Nothing}

signal_leader(h) ==
    /\ syscall[h] = "signal_leader"
    /\ stray' = (stray \/ Strikes(h))
    /\ SetProcess(pid[h], [Process(h) EXCEPT !.leader =
                              IF @ \in {"setup", "running"} THEN "killed" ELSE @])
    /\ NextCall(h, "wait_for_leader")
    /\ UNCHANGED <<pid, lifecycle, call, excused>>

(* Mutant: drop waits for a leader that was not signalled.                  *)
leader_signal_fails_Waits(h) ==
    /\ syscall[h] = "signal_leader"
    /\ IF call[h] = "kill"
       THEN Return(h) /\ UNCHANGED call
       ELSE NextCall(h, "wait_for_leader") /\ call' = [call EXCEPT ![h] = "drop_failed"]
    /\ Excuse(h)
    /\ UNCHANGED <<processes, pid, lifecycle, stray>>

(* kill returns the error; drop_after_leader_signal_failure looks again and *)
(* blocks on nothing from here on.                                          *)
leader_signal_fails(h) ==
    /\ syscall[h] = "signal_leader"
    /\ IF call[h] = "kill"
       THEN Return(h) /\ UNCHANGED call
       ELSE NextCall(h, "observe_again") /\ call' = [call EXCEPT ![h] = "drop_failed"]
    /\ Excuse(h)
    /\ UNCHANGED <<processes, pid, lifecycle, stray>>

(* A blocking wait that does not consume, repeated when interrupted.        *)
wait_for_leader(h) ==
    /\ syscall[h] = "wait_for_leader"
    /\ \/ Exited(h) /\ Becomes(h, "ExitObserved") /\ NextCall(h, "signal_group")
       \/ Lose(h)
    /\ UNCHANGED <<processes, pid, call, stray, excused>>

(* Mutant: a leader that is gone is taken for a group that is gone.         *)
signal_group_Skipped(h) ==
    /\ syscall[h] = "signal_group"
    /\ Becomes(h, "GroupSignaled")
    /\ NextCall(h, "reap")
    /\ UNCHANGED <<processes, pid, call, stray, excused>>

(* signal_group_and_reap: SIGKILL to the group before its leader is reaped. *)
signal_group(h) ==
    /\ syscall[h] = "signal_group"
    /\ stray' = (stray \/ Strikes(h))
    /\ SetProcess(pid[h], [Process(h) EXCEPT !.workers = 0])
    /\ Becomes(h, "GroupSignaled")
    /\ NextCall(h, "reap")
    /\ UNCHANGED <<pid, call, excused>>

(* Mutant: drop gives up the child whose group it could not signal.         *)
group_signal_fails_Ends(h) ==
    /\ syscall[h] = "signal_group"
    /\ Return(h)
    /\ UNCHANGED <<processes, pid, lifecycle, call, stray, excused>>

(* The signal is not permitted.  On Darwin that is as good as sent where    *)
(* the process table shows zombies only; otherwise state and kill return    *)
(* the error, and drop reaps what it can.                                   *)
group_signal_fails(h) ==
    /\ syscall[h] = "signal_group"
    /\ \/ Process(h).workers = 0 /\ Becomes(h, "GroupSignaled") /\ NextCall(h, "reap")
       \/ /\ IF call[h] \in {"state", "kill"}
             THEN Return(h) ELSE NextCall(h, "reap_after_group_failure")
          /\ UNCHANGED lifecycle
    /\ UNCHANGED <<processes, pid, call, stray, excused>>

(* The consuming wait.                                                      *)
Consume(h, state) ==
    /\ Exited(h)
    /\ SetProcess(pid[h], [Process(h) EXCEPT !.leader = "reaped"])
    /\ Becomes(h, state)
    /\ Return(h)

reap(h) ==
    /\ syscall[h] = "reap"
    /\ \/ Consume(h, "Finished")
       \/ Lose(h) /\ UNCHANGED processes
    /\ UNCHANGED <<pid, call, stray, excused>>

(* A reap that does not block is not repeated.                              *)
reap_interrupted(h) ==
    /\ syscall[h] = "reap"
    /\ call[h] \in {"state", "drop_failed"}
    /\ Return(h)
    /\ Excuse(h)
    /\ UNCHANGED <<processes, pid, lifecycle, call, stray>>

reap_after_group_failure(h) ==
    /\ syscall[h] = "reap_after_group_failure"
    /\ \/ Consume(h, "FinishedGroupFailed")
       \/ Lose(h) /\ UNCHANGED processes
    /\ UNCHANGED <<pid, call, stray, excused>>

(* The steps of the code that do not depend on being interrupted.           *)
Step(h) ==
    \/ observe(h)
    \/ signal_leader(h)
    \/ leader_signal_fails(h)
    \/ wait_for_leader(h)
    \/ signal_group(h)
    \/ group_signal_fails(h)
    \/ reap(h)
    \/ reap_after_group_failure(h)

ChildNext ==
    \/ \E h \in Handles :
        \/ \E p \in Pids : spawn(h, p)
        \/ \E c \in {"state", "kill", "drop"} : Begin(h, c)
        \/ Step(h)
        \/ observe_interrupted(h)
        \/ reap_interrupted(h)
    \/ Others

ChildSpec == ChildInit /\ [][ChildNext]_childVars

(* The owner of a handle goes on, interruptions of one wait come to an end, *)
(* and a process that was sent SIGKILL dies.                                *)
FairChildSpec ==
    /\ ChildSpec
    /\ \A h \in Handles : WF_childVars(Step(h))
    /\ \A p \in Pids :
          WF_childVars(LeaderDies(p) /\ UNCHANGED <<pid, lifecycle, call, syscall, stray, excused>>)

----------------------------------------------------------------------------
(* Properties                                                               *)

(* Every variable has its type.                                             *)
TypeOK ==
    /\ processes \in [Pids -> [owner : Handles \cup {Stranger, Nothing},
                           leader : {"setup", "running", "killed", "zombie", "reaped"},
                           workers : 0..MaxWorkers]]
    /\ pid \in [Handles -> Pids \cup {Nothing}]
    /\ lifecycle \in [Handles -> {"Unborn", "Owned", "ExitObserved", "GroupSignaled"} \cup Finished]
    /\ call \in [Handles -> {"state", "kill", "drop", "drop_failed", Nothing}]
    /\ syscall \in [Handles -> {"idle", "dropped", "observe", "observe_again", "signal_leader",
                           "wait_for_leader", "signal_group", "reap", "reap_after_group_failure"}]
    /\ stray \in BOOLEAN
    /\ excused \subseteq Handles

(* No call of a handle ever signals a number that has passed to someone     *)
(* else: not one of a finished handle, not one after a failed call that saw *)
(* the leader's exit, not one after another waiter consumed the status.     *)
NeverSignalsAStranger == ~stray

(* "A successful terminal result means the managed group received its       *)
(* cleanup disposition and the direct child was reaped": a handle finished  *)
(* without a failure has no process left, however its leader ended.         *)
FinishedLeavesNothing ==
    \A h \in Handles : lifecycle[h] = "Finished" =>
        \A p \in Pids : processes[p].owner # h

(* A drop that was neither interrupted nor refused the leader's signal      *)
(* leaves no zombie, even where the group could not be signalled.           *)
DropReaps ==
    \A h \in Handles : syscall[h] = "dropped" /\ h \notin excused =>
        \A p \in Pids : processes[p].owner = h => processes[p].leader = "reaped"

(* state, kill and drop end, although the leader may run for ever and no    *)
(* signal need be permitted.                                                *)
CallEnds ==
    \A h \in Handles :
        syscall[h] \notin {"idle", "dropped"} ~> syscall[h] \in {"idle", "dropped"}

(* However a handle ends, by its calls or by its drop, it leaves no process *)
(* that it could have ended.                                                *)
EndsLeaveNothing == FinishedLeavesNothing /\ DropReaps
=============================================================================
