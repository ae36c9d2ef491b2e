---------------------------- MODULE SupervisorStart ----------------------------
(***************************************************************************)
(* How the controller starts a cell's membraned: crate plasmosome-core,     *)
(* supervisor_start.rs, and crate plasmosome-membrane, cell_start.rs.       *)
(*                                                                          *)
(* start_supervisor forks an intermediate, which forks the process that     *)
(* executes membraned and exits.  The start learns of the exec from the     *)
(* silence of a report pipe, gives up its copy of the supervisor lock and   *)
(* writes the config record.  Threads start several cells at once, and a    *)
(* fork copies every descriptor of the process, other starts' included.     *)
(*                                                                          *)
(* A record is a number of pieces; the pipe holds fewer.                    *)
(***************************************************************************)
EXTENDS Naturals, FiniteSets

CONSTANTS
    Starts,     \* the calls of start_supervisor, one per cell
    None,
    Record,     \* pieces in a config record
    Capacity,   \* pieces a pipe holds
    Leaky       \* starts whose pipes another spawn may inherit, as on Darwin

(* StartError's variants, and Ok.                                           *)
Results == {"Ok", "Prepare", "Exec", "ExecUnconfirmed", "SupervisorClosedPipe", "RecordNotTaken", "Write"}

ASSUME SupervisorStartAssumption ==
    /\ None \notin Results
    /\ Record \in Nat \ {0}
    /\ Capacity \in Nat \ {0}
    /\ Leaky \subseteq Starts

VARIABLES
    pc,         \* where each call of start_supervisor is
    result,     \* what it returned
    mid,        \* the intermediate of each start
    kid,        \* the process that becomes membraned
    open,       \* which processes have each start's descriptors open
    report,     \* whether a failure is in the report pipe
    sent,       \* pieces of the record written
    taken,      \* pieces membraned read
    late,       \* whether the deadline has passed
    execed,     \* ghost: membraned was executed
    killed      \* ghost: the intermediate or the new process was killed

vars == <<pc, result, mid, kid, open, report, sent, taken, late, execed, killed>>

(* The supervisor lock's open file, the report pipe's write end and the two *)
(* ends of the config pipe.                                                 *)
Ends == {"lock", "report", "read", "write"}

Controller == <<"controller">>
Stranger == <<"stranger">>
Mid(s) == <<"mid", s>>
Kid(s) == <<"kid", s>>
Processes == {Controller, Stranger} \cup {Mid(s) : s \in Starts} \cup {Kid(s) : s \in Starts}

Init ==
    /\ pc = [s \in Starts |-> "idle"]
    /\ result = [s \in Starts |-> None]
    /\ mid = [s \in Starts |-> "none"]
    /\ kid = [s \in Starts |-> "none"]
    /\ open = [s \in Starts |-> [e \in Ends |-> IF e = "lock" THEN {Controller} ELSE {}]]
    /\ report = [s \in Starts |-> FALSE]
    /\ sent = [s \in Starts |-> 0]
    /\ taken = [s \in Starts |-> 0]
    /\ late = [s \in Starts |-> FALSE]
    /\ execed = [s \in Starts |-> FALSE]
    /\ killed = [s \in Starts |-> FALSE]

(* Process p closes the ends of start s.                                    *)
Close(s, ends, p) ==
    open' = [open EXCEPT ![s] = [e \in Ends |-> IF e \in ends THEN @[e] \ {p} ELSE @[e]]]

(* Process p forks q, which has every descriptor p has.                     *)
Fork(p, q) ==
    open' = [s \in Starts |-> [e \in Ends |->
                IF p \in open[s][e] THEN open[s][e] \cup {q} ELSE open[s][e]]]

(* Process p exits.                                                         *)
Exit(p) == open' = [s \in Starts |-> [e \in Ends |-> open[s][e] \ {p}]]

(* start_supervisor returns r; everything it still owns is dropped.         *)
Return(s, r) ==
    /\ pc' = [pc EXCEPT ![s] = "done"]
    /\ result' = [result EXCEPT ![s] = r]

----------------------------------------------------------------------------
(* start_supervisor                                                         *)

(* Layout::new makes both pipes.  On Darwin a process spawned elsewhere     *)
(* while one of them is not yet close-on-exec inherits its ends.            *)
Layout_new(s) ==
    /\ pc[s] = "idle"
    /\ UNCHANGED <<mid, kid, report, sent, taken, late, execed, killed>>
    /\ \/ /\ pc' = [pc EXCEPT ![s] = "laid"]
          /\ \E leaked \in {{}, {"report"}, {"read", "write"}} :
                /\ s \in Leaky \/ leaked = {}
                /\ open' = [open EXCEPT ![s] = [e \in Ends |->
                        @[e] \cup {Controller} \cup (IF e \in leaked THEN {Stranger} ELSE {})]]
          /\ UNCHANGED result
       \/ /\ Return(s, "Prepare")
          /\ UNCHANGED open

(* The parent drops its report end once the intermediate is there.          *)
fork_intermediate(s) ==
    /\ pc[s] = "laid"
    /\ UNCHANGED <<kid, report, sent, taken, late, execed, killed>>
    /\ \/ /\ mid' = [mid EXCEPT ![s] = "run"]
          /\ pc' = [pc EXCEPT ![s] = "reap"]
          /\ open' = [t \in Starts |-> [e \in Ends |->
                (IF Controller \in open[t][e] THEN open[t][e] \cup {Mid(s)} ELSE open[t][e])
                  \ (IF t = s /\ e = "report" THEN {Controller} ELSE {})]]
          /\ UNCHANGED result
       \/ /\ \E r \in {"Prepare", "Exec"} : Return(s, r)
          /\ Close(s, {"report", "read", "write"}, Controller)
          /\ UNCHANGED mid

(* waitpid, which has no deadline.                                          *)
reap(s) ==
    /\ pc[s] = "reap"
    /\ mid[s] = "gone"
    /\ pc' = [pc EXCEPT ![s] = "report"]
    /\ UNCHANGED <<result, mid, kid, open, report, sent, taken, late, execed, killed>>

(* poll returns with a report, or with the last write end closed.           *)
report_ready(s) == report[s] \/ open[s]["report"] = {}

(* Silence is an exec: the config pipe's read end and the lock are dropped. *)
read_report(s) ==
    /\ pc[s] = "report"
    /\ UNCHANGED <<mid, kid, report, sent, taken, late, execed, killed>>
    /\ \/ /\ report_ready(s) /\ ~report[s]
          /\ pc' = [pc EXCEPT ![s] = "write"]
          /\ Close(s, {"read", "lock"}, Controller)
          /\ UNCHANGED result
       \/ /\ report_ready(s) /\ report[s]
          /\ Return(s, "Exec")
          /\ Close(s, {"read", "write"}, Controller)
       \/ /\ ~report_ready(s) /\ late[s]
          /\ Return(s, "ExecUnconfirmed")
          /\ Close(s, {"read", "write"}, Controller)

Full(s) == sent[s] - taken[s] = Capacity

write_record(s) ==
    /\ pc[s] = "write"
    /\ UNCHANGED <<mid, kid, report, taken, late, execed, killed>>
    /\ \/ /\ sent[s] = Record
          /\ Return(s, "Ok")
          /\ Close(s, {"write"}, Controller)
          /\ UNCHANGED sent
       \/ /\ sent[s] < Record
          /\ open[s]["read"] = {}
          /\ Return(s, "SupervisorClosedPipe")
          /\ Close(s, {"write"}, Controller)
          /\ UNCHANGED sent
       \/ /\ sent[s] < Record
          /\ open[s]["read"] # {} /\ ~Full(s)
          /\ sent' = [sent EXCEPT ![s] = @ + 1]
          /\ UNCHANGED <<pc, result, open>>
       \/ /\ sent[s] < Record
          /\ open[s]["read"] # {} /\ Full(s)
          /\ pc' = [pc EXCEPT ![s] = "wait"]
          /\ UNCHANGED <<result, open, sent>>

(* Mutant: the wait has no deadline.                                        *)
wait_writable_Forever(s) ==
    /\ pc[s] = "wait"
    /\ ~Full(s) \/ open[s]["read"] = {}
    /\ pc' = [pc EXCEPT ![s] = "write"]
    /\ UNCHANGED <<result, open, mid, kid, report, sent, taken, late, execed, killed>>

wait_writable(s) ==
    /\ pc[s] = "wait"
    /\ UNCHANGED <<mid, kid, report, sent, taken, late, execed, killed>>
    /\ \/ /\ late[s]
          /\ Return(s, "RecordNotTaken")
          /\ Close(s, {"write"}, Controller)
       \/ /\ ~late[s]
          /\ ~Full(s) \/ open[s]["read"] = {}
          /\ pc' = [pc EXCEPT ![s] = "write"]
          /\ UNCHANGED <<result, open>>

(* write, or the poll for room, fails for another reason.                   *)
WriteFails(s) ==
    /\ \/ pc[s] = "write" /\ sent[s] < Record
       \/ pc[s] = "wait" /\ ~late[s]
    /\ Return(s, "Write")
    /\ Close(s, {"write"}, Controller)
    /\ UNCHANGED <<mid, kid, report, sent, taken, late, execed, killed>>

(* The caller drops the lock that a failed start returned.                  *)
drop(s) ==
    /\ pc[s] = "done"
    /\ Controller \in open[s]["lock"]
    /\ Close(s, {"lock"}, Controller)
    /\ UNCHANGED <<pc, result, mid, kid, report, sent, taken, late, execed, killed>>

----------------------------------------------------------------------------
(* The two children.  One that fails writes its report and then exits.      *)

Fail(s) == report' = [report EXCEPT ![s] = TRUE]

intermediate(s) ==
    /\ mid[s] = "run"
    /\ UNCHANGED <<pc, result, sent, taken, late, execed, killed>>
    /\ \/ /\ mid' = [mid EXCEPT ![s] = "exit"]
          /\ kid' = [kid EXCEPT ![s] = "new"]
          /\ Fork(Mid(s), Kid(s))
          /\ UNCHANGED report
       \/ /\ mid' = [mid EXCEPT ![s] = "exit"]
          /\ Fail(s)
          /\ UNCHANGED <<kid, open>>

intermediate_exit(s) ==
    /\ mid[s] = "exit"
    /\ mid' = [mid EXCEPT ![s] = "gone"]
    /\ Exit(Mid(s))
    /\ UNCHANGED <<pc, result, kid, report, sent, taken, late, execed, killed>>

(* Mutant: the child goes on after its report.                              *)
grandchild_fail_GoesOn(s) ==
    /\ kid[s] \in {"new", "clean"}
    /\ Fail(s)
    /\ UNCHANGED <<pc, result, mid, kid, open, sent, taken, late, execed, killed>>

(* setsid, descriptors, signals or execve fails.                            *)
grandchild_fail(s) ==
    /\ kid[s] \in {"new", "clean"}
    /\ kid' = [kid EXCEPT ![s] = "exit"]
    /\ Fail(s)
    /\ UNCHANGED <<pc, result, mid, open, sent, taken, late, execed, killed>>

(* Mutant: the lock is not copied to descriptor 4.                          *)
Kept_NoLock == {"report", "read"}

(* Descriptors 3 and 4 and the report pipe, of its own start.               *)
Kept == {"lock", "read", "report"}

(* Mutant: only the descriptors of its own start are closed.                *)
close_above_four_OwnOnly(s) ==
    /\ kid[s] = "new"
    /\ kid' = [kid EXCEPT ![s] = "clean"]
    /\ Close(s, Ends \ Kept, Kid(s))
    /\ UNCHANGED <<pc, result, mid, report, sent, taken, late, execed, killed>>

(* install_descriptors and close_above_four leave nothing else open.        *)
close_above_four(s) ==
    /\ kid[s] = "new"
    /\ kid' = [kid EXCEPT ![s] = "clean"]
    /\ open' = [t \in Starts |-> [e \in Ends |->
                    IF t = s /\ e \in Kept THEN open[t][e] ELSE open[t][e] \ {Kid(s)}]]
    /\ UNCHANGED <<pc, result, mid, report, sent, taken, late, execed, killed>>

(* execve closes the report pipe, which is close-on-exec.                   *)
execve(s) ==
    /\ kid[s] = "clean"
    /\ kid' = [kid EXCEPT ![s] = "reading"]
    /\ execed' = [execed EXCEPT ![s] = TRUE]
    /\ Close(s, {"report"}, Kid(s))
    /\ UNCHANGED <<pc, result, mid, report, sent, taken, late, killed>>

(* A child that failed, or a membraned that ends, exits.                    *)
kid_exit(s) ==
    /\ kid[s] \in {"exit", "adopted"}
    /\ kid' = [kid EXCEPT ![s] = "gone"]
    /\ Exit(Kid(s))
    /\ UNCHANGED <<pc, result, mid, report, sent, taken, late, execed, killed>>

----------------------------------------------------------------------------
(* membraned                                                                *)

Eof(s) == sent[s] = taken[s] /\ open[s]["write"] = {}

(* Mutant: a record cut short is decoded.                                   *)
decode_Prefix(s) == taken[s] > 0

(* decode refuses a record without its final newline.                       *)
decode(s) == taken[s] = Record

(* read_config reads until EOF and closes descriptor 3.  A refusal ends     *)
(* membraned.                                                               *)
read_config(s) ==
    /\ kid[s] = "reading"
    /\ UNCHANGED <<pc, result, mid, report, sent, late, execed, killed>>
    /\ \/ /\ sent[s] > taken[s]
          /\ taken' = [taken EXCEPT ![s] = @ + 1]
          /\ UNCHANGED <<kid, open>>
       \/ /\ Eof(s)
          /\ kid' = [kid EXCEPT ![s] = IF decode(s) THEN "decoded" ELSE "exit"]
          /\ Close(s, {"read"}, Kid(s))
          /\ UNCHANGED taken

(* adopt_lock takes the lock on descriptor 4, which its open file already   *)
(* holds, and checks it against the file that the cell names, or refuses.   *)
adopt_lock(s) ==
    /\ kid[s] = "decoded"
    /\ \E state \in {"adopted", "exit"} : kid' = [kid EXCEPT ![s] = state]
    /\ UNCHANGED <<pc, result, mid, open, report, sent, taken, late, execed, killed>>

----------------------------------------------------------------------------
(* The environment: time, other spawns, and processes killed from outside.  *)

(* The call looks at the clock only where it polls, so the deadline passes  *)
(* there and nowhere earlier.                                               *)
Deadline(s) ==
    /\ ~late[s]
    /\ pc[s] \in {"report", "wait"}
    /\ late' = [late EXCEPT ![s] = TRUE]
    /\ UNCHANGED <<pc, result, mid, kid, open, report, sent, taken, execed, killed>>

StrangerExits ==
    /\ \E s \in Starts, e \in Ends : Stranger \in open[s][e]
    /\ Exit(Stranger)
    /\ UNCHANGED <<pc, result, mid, kid, report, sent, taken, late, execed, killed>>

KillMid(s) ==
    /\ mid[s] \in {"run", "exit"}
    /\ mid' = [mid EXCEPT ![s] = "gone"]
    /\ killed' = [killed EXCEPT ![s] = TRUE]
    /\ Exit(Mid(s))
    /\ UNCHANGED <<pc, result, kid, report, sent, taken, late, execed>>

KillKid(s) ==
    /\ kid[s] \notin {"none", "gone"}
    /\ kid' = [kid EXCEPT ![s] = "gone"]
    /\ killed' = [killed EXCEPT ![s] = TRUE]
    /\ Exit(Kid(s))
    /\ UNCHANGED <<pc, result, mid, report, sent, taken, late, execed>>

(* The controller's process dies, every call with it.                       *)
KillController ==
    /\ \E s \in Starts : pc[s] # "dead"
    /\ pc' = [s \in Starts |-> "dead"]
    /\ Exit(Controller)
    /\ UNCHANGED <<result, mid, kid, report, sent, taken, late, execed, killed>>

Call(s) ==
    \/ fork_intermediate(s)
    \/ reap(s)
    \/ read_report(s)
    \/ write_record(s)
    \/ wait_writable(s)

Intermediate(s) == intermediate(s) \/ intermediate_exit(s)

Grandchild(s) == grandchild_fail(s) \/ close_above_four(s) \/ execve(s) \/ read_config(s)
                  \/ adopt_lock(s)

Next ==
    \/ \E s \in Starts :
        \/ Layout_new(s)
        \/ Call(s)
        \/ WriteFails(s)
        \/ drop(s)
        \/ Intermediate(s)
        \/ Grandchild(s)
        \/ kid_exit(s)
        \/ Deadline(s)
        \/ KillMid(s)
        \/ KillKid(s)
    \/ StrangerExits
    \/ KillController

Spec == Init /\ [][Next]_vars

(* The scheduler runs every process and time passes.  Nothing is assumed of *)
(* a stranger, of a membraned that has its record, of errors or of kills.   *)
Fairness ==
    \A s \in Starts :
        /\ WF_vars(Call(s))
        /\ WF_vars(Intermediate(s))
        /\ WF_vars(Grandchild(s))
        /\ WF_vars(kid_exit(s) /\ kid[s] = "exit")
        /\ WF_vars(Deadline(s))

FairSpec == Spec /\ Fairness

----------------------------------------------------------------------------
(* Properties                                                               *)

(* "Prepare and Exec mean no membraned runs": none ran and none will.       *)
RefusedMeansNone ==
    \A s \in Starts : result[s] \in {"Prepare", "Exec"} =>
        ~execed[s] /\ mid[s] # "run" /\ kid[s] \notin {"new", "clean"}

(* The start gives up its lock only for a membraned that was executed.  The *)
(* one exception is the documented one: a child killed before its exec.     *)
GivenUpForExec ==
    \A s \in Starts :
        \/ Controller \in open[s]["lock"]
        \/ execed[s] \/ killed[s]
        \/ pc[s] = "dead"
        \/ result[s] \in {"Prepare", "Exec", "ExecUnconfirmed"}

(* "So the lock is never free": while a process of a start may be or become *)
(* membraned, the cell's lock is held through that process.                 *)
NeverFree ==
    \A s \in Starts :
        /\ kid[s] \in {"new", "clean", "reading", "decoded", "adopted"} => Kid(s) \in open[s]["lock"]
        /\ mid[s] = "run" => Mid(s) \in open[s]["lock"]

(* The lock goes with its supervisor: once the controller gave it up and    *)
(* the start's own processes are gone, only children of other starts that   *)
(* have not yet closed their copies can have it open.                       *)
LockGoesWithSupervisor ==
    \A s \in Starts : \A p \in open[s]["lock"] :
        \/ p \in {Controller, Mid(s), Kid(s)}
        \/ \E t \in Starts \ {s} :
              \/ p = Mid(t) /\ mid[t] \in {"run", "exit"}
              \/ p = Kid(t) /\ kid[t] \in {"new", "exit"}

(* A membraned adopts its cell only when start_supervisor returned Ok, or   *)
(* its process died: a failed start never leaves a working supervisor.      *)
AdoptedMeansOk ==
    \A s \in Starts : kid[s] = "adopted" =>
        sent[s] = Record /\ (result[s] = "Ok" \/ pc[s] = "dead")

(* What a start reports is what happened: a refusal left no membraned, the  *)
(* lock was given up for one that runs, and none works after a failure.     *)
ReportIsTrue == RefusedMeansNone /\ GivenUpForExec /\ AdoptedMeansOk

(* The cell's lock is with its supervisor as long as there is one, and with *)
(* nobody that outlives it.                                                 *)
LockFollows == NeverFree /\ LockGoesWithSupervisor

(* start_supervisor returns, whatever its children, strangers or a          *)
(* membraned that does not read do.                                         *)
Returns ==
    \A s \in Starts : pc[s] = "laid" ~> pc[s] \in {"done", "dead"}

(* read_config has no deadline, but it ends: every other process that has   *)
(* the pipe's write end closes it, but for a stranger that inherited it.    *)
ReadEnds ==
    \A s \in Starts :
        kid[s] = "reading" ~> kid[s] # "reading" \/ Stranger \in open[s]["write"]

(* Both sides of a start end: the controller's call and the new membraned's *)
(* read.                                                                    *)
StartEnds == Returns /\ ReadEnds
=============================================================================
