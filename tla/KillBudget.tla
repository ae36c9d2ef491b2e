------------------------------- MODULE KillBudget -------------------------------
(***************************************************************************)
(* The shares of one cell.kill: plasmosome-core/src/kill_budget.rs.  The    *)
(* kill has a deadline D from its arrival, queues behind other mutations,   *)
(* and asks for the share of each step when it comes to it: the workload    *)
(* stop, the withdrawal, the guest stop and the wait for the lock.  A step  *)
(* ends by its share; between two steps any time may pass.                  *)
(*                                                                          *)
(* Durations are whole numbers of the clock's unit, Ms of them make one     *)
(* millisecond, and a division drops the remainder as Duration's does.      *)
(***************************************************************************)
EXTENDS Integers, FiniteSets

CONSTANTS
    Ms,
    MOST_LOCK_RESERVE, MOST_WORKLOAD_STOP,
    LatestInstant,  \* the last reading that an Instant can hold
    Deadlines,      \* the D of the kills
    MaxElapsed      \* bound: time since the arrival

ASSUME KillAssumption ==
    /\ Ms \in Nat \ {0}
    /\ {MOST_LOCK_RESERVE, MOST_WORKLOAD_STOP} \subseteq Nat \ 0..(Ms - 1)
    /\ LatestInstant \in Nat /\ MaxElapsed \in Nat /\ Deadlines \subseteq Nat

VARIABLES
    kill,       \* the request: its total, whether it is a now kill, and its incomplete
    phase,      \* the step it is at
    elapsed,    \* since the arrival
    share       \* what the step that runs may take, and the reading at which it asked

killVars == <<kill, phase, elapsed, share>>

Shortfall == {"WorkloadStop", "Shutdown", "Teardown"}
NoShare == [limit |-> 0, parts |-> <<>>, asked |-> 0]

KillInit ==
    /\ kill \in [total : Deadlines, now : BOOLEAN, incomplete : {{}}]
    /\ phase = "queued" /\ elapsed = 0 /\ share = NoShare

Least(a, b) == IF a < b THEN a ELSE b
Most(a, b) == IF a > b THEN a ELSE b
clamp(d, low, high) == Most(low, Least(d, high))
saturating_sub(a, b) == Most(a - b, 0)

whole_ms(d) == (d \div Ms) * Ms

remaining == saturating_sub(kill.total, elapsed)
lock_reserve == clamp(kill.total \div 10, Ms, MOST_LOCK_RESERVE)

(* Mutant: the reserve is not kept for the lock.                            *)
spendable_All == remaining

spendable == saturating_sub(remaining, lock_reserve)

(* Incomplete::add                                                          *)
added(shortfall) ==
    IF ~kill.now \/ shortfall = "Teardown" THEN kill.incomplete \cup {shortfall} ELSE kill.incomplete
is_retirement == "Teardown" \notin kill.incomplete

----------------------------------------------------------------------------
(* The shares.  A share whose first part is under 1 ms is no budget.        *)

workload_stop ==
    LET cap == clamp(kill.total \div 10, Ms, MOST_WORKLOAD_STOP) IN
    IF kill.now THEN <<>> ELSE <<whole_ms(Least(cap, spendable \div 3))>>

(* Mutant: the publication's part is rounded up.                            *)
withdrawal_RoundsUp ==
    LET all == spendable \div 2 IN
    <<whole_ms(all), whole_ms(all \div 2), whole_ms(all \div 4),
      whole_ms(all - all \div 2 - all \div 4 + Ms - 1)>>

(* The share, and its parts: drain, effect and publication.                 *)
withdrawal ==
    LET all == spendable \div 2 IN
    <<whole_ms(all), whole_ms(all \div 2), whole_ms(all \div 4),
      whole_ms(all - all \div 2 - all \div 4)>>

(* The answer wait and the drain deadline, which are never under 1 ms.      *)
guest_stop ==
    LET answer_wait == whole_ms(Most(spendable, Ms))
        teardown == Most(Ms, answer_wait \div 4)
    IN <<answer_wait,
         IF kill.now THEN Ms ELSE whole_ms(Most(saturating_sub(answer_wait, teardown), Ms))>>

(* The span past the arrival at which the lock wait ends, for an arrival at *)
(* the given reading: D, halved until the instant can be held.              *)
halved(total, most) ==
    LET half[span \in Nat] == IF span <= most THEN span ELSE half[span \div 2] IN half[total]

lock_wait_until(arrival) == arrival + halved(kill.total, LatestInstant - arrival)

----------------------------------------------------------------------------
(* The caller                                                               *)

Wait ==
    /\ elapsed < MaxElapsed /\ phase # "answered" /\ share = NoShare
    /\ elapsed' = elapsed + 1
    /\ UNCHANGED <<kill, phase, share>>

NextStep == [queued |-> "withdraw", withdraw |-> "stop", stop |-> "lock"]

(* The step has a budget and runs.                                          *)
Run(parts) ==
    /\ \A i \in DOMAIN parts : parts[i] >= Ms
    /\ share' = [limit |-> parts[1], parts |-> parts, asked |-> elapsed]
    /\ UNCHANGED <<kill, phase, elapsed>>

(* It has none, takes its escalation and sends nothing.                     *)
Escalate(parts, shortfall) ==
    /\ \E i \in DOMAIN parts : parts[i] < Ms
    /\ kill' = [kill EXCEPT !.incomplete = added(shortfall)]
    /\ phase' = NextStep[phase]
    /\ UNCHANGED <<elapsed, share>>

WorkloadStopStep ==
    /\ phase = "queued" /\ share = NoShare
    /\ IF kill.now
       THEN phase' = "withdraw" /\ UNCHANGED <<kill, elapsed, share>>
       ELSE Run(workload_stop) \/ Escalate(workload_stop, "WorkloadStop")

(* Without a budget it is answered as a drain timeout.                      *)
WithdrawStep ==
    /\ phase = "withdraw" /\ share = NoShare
    /\ \/ Run(withdrawal)
       \/ /\ \E i \in DOMAIN withdrawal : withdrawal[i] < Ms
          /\ phase' = "stop"
          /\ UNCHANGED <<kill, elapsed, share>>

GuestStopStep ==
    /\ phase = "stop" /\ share = NoShare
    /\ Run(guest_stop)

(* The step that runs ends, in time or at its share; the stops may fall     *)
(* short.                                                                   *)
StepEnds ==
    /\ share # NoShare
    /\ \E used \in 0..share.limit, short \in BOOLEAN :
          /\ elapsed' = Least(elapsed + used, MaxElapsed)
          /\ kill' = [kill EXCEPT !.incomplete =
                         IF short /\ phase = "queued" THEN added("WorkloadStop")
                         ELSE IF short /\ phase = "stop" THEN added("Shutdown")
                         ELSE @]
    /\ phase' = NextStep[phase]
    /\ share' = NoShare

(* The lock is tried at least once; the teardown may not be clean.          *)
LockStep ==
    /\ phase = "lock"
    /\ \E clean \in BOOLEAN :
          kill' = IF clean THEN kill ELSE [kill EXCEPT !.incomplete = added("Teardown")]
    /\ phase' = "answered"
    /\ UNCHANGED <<elapsed, share>>

KillNext ==
    Wait \/ WorkloadStopStep \/ WithdrawStep \/ GuestStopStep \/ StepEnds \/ LockStep

KillSpec == KillInit /\ [][KillNext]_killVars

----------------------------------------------------------------------------
(* Properties                                                               *)

(* However long the kill queued and whatever the earlier steps used, a step *)
(* that uses all of its share leaves the lock its reserve of D, and only    *)
(* the guest stop's floor of 1 ms may reach into it; the parts that are     *)
(* sent are whole milliseconds and fit in the share; the lock wait covers D *)
(* or half of what the clock can hold; a now kill lists only a teardown.    *)
ReserveIsKept ==
    /\ share # NoShare =>
          /\ share.limit % Ms = 0 /\ \A i \in DOMAIN share.parts : share.parts[i] % Ms = 0
          /\ \/ share.asked + share.limit <= kill.total - lock_reserve
             \/ phase = "stop" /\ share.limit = Ms
          /\ phase = "withdraw" => share.parts[2] + share.parts[3] + share.parts[4] <= share.limit
          /\ phase = "stop" => share.parts[2] <= share.limit
    /\ \A arrival \in 0..LatestInstant :
          LET most == Least(kill.total, LatestInstant - arrival)
              span == lock_wait_until(arrival) - arrival
          IN span <= most /\ 2 * span >= most
    /\ kill.now => kill.incomplete \subseteq {"Teardown"}
=============================================================================
