----------------------------- MODULE LifetimeBound -----------------------------
(***************************************************************************)
(* The moment at which a lifetime ends and the fence its owner keeps:       *)
(* plasmosome-backend/src/lifetime.rs, on the three clocks of               *)
(* plasmosome-core/src/clock.rs.  The wall clock may be set either way and  *)
(* shows whole milliseconds, the continuous clock runs through sleep and    *)
(* starts again with each boot, and the wait clock stops in sleep.  A read  *)
(* of the continuous clock may be refused.                                  *)
(*                                                                          *)
(* The owner takes a reading whenever it likes, lowers the bound, and at    *)
(* each reading where the bound has passed keeps the fence by the rule in   *)
(* the comment of Bound, as the tests' fenced does.                         *)
(***************************************************************************)
EXTENDS Integers

CONSTANTS
    NsPerMs,
    U64Max,     \* what the continuous clock reads when the read is refused
    MaxNs,      \* bound: time since boot
    MaxWall,    \* bound: the wall clock, in ns
    MaxSessions, \* bound: boot sessions
    MaxLimit,   \* bound: a limit in ms
    NoBound

(* A Bound: the end on the wall clock, and on the continuous clock of a     *)
(* boot session.                                                            *)
Bounds == [not_after : Nat, boot : Nat, ns : 0..U64Max]

ASSUME LifetimeAssumption ==
    /\ NsPerMs \in Nat \ {0}
    /\ MaxNs \in Nat /\ U64Max \in Nat /\ MaxNs < U64Max
    /\ {MaxWall, MaxSessions, MaxLimit} \subseteq Nat
    /\ NoBound \notin Bounds

VARIABLES
    wall,       \* the wall clock, in ns
    session, ns, \* the continuous clock
    wait,       \* the wait clock, since boot
    bound,      \* the Bound that is kept, NoBound until there is one
    fence       \* ghost: the last fence of this boot session

lifetimeVars == <<wall, session, ns, wait, bound, fence>>

MinOf(a, b) == IF a < b THEN a ELSE b
MaxOf(a, b) == IF a > b THEN a ELSE b

LifetimeInit ==
    /\ wall \in {NsPerMs * 2, NsPerMs * 2 + 1}
    /\ session = 1 /\ ns = 0 /\ wait = 0
    /\ bound = NoBound
    /\ fence = NoBound

----------------------------------------------------------------------------
(* Clock::now: a good reading, and one whose continuous value is refused.   *)

Good == [wall |-> wall \div NsPerMs, boot |-> session, ns |-> ns, wait |-> wait]
Refused == [Good EXCEPT !.ns = U64Max]

----------------------------------------------------------------------------
(* Bound                                                                    *)

(* Bound::after; NoBound when it would overflow.                            *)
after(now, ms) ==
    IF now.ns + ms * NsPerMs > U64Max THEN NoBound
    ELSE [not_after |-> now.wall + ms, boot |-> now.boot, ns |-> now.ns + ms * NsPerMs]

passed(b, now) ==
    \/ now.wall >= b.not_after
    \/ now.boot = b.boot /\ now.ns >= b.ns

remaining_ns(b, now) ==
    LET left == (b.not_after - now.wall) * NsPerMs IN
    IF now.boot # b.boot THEN left ELSE MinOf(left, b.ns - now.ns)

(* Rounded up.                                                              *)
remaining_ms(b, now) == (MaxOf(remaining_ns(b, now), 0) + NsPerMs - 1) \div NsPerMs

(* Mutant: the readings of two boot sessions are compared.                  *)
earlier_AcrossBoots(b, c) ==
    [not_after |-> MinOf(b.not_after, c.not_after), boot |-> c.boot, ns |-> MinOf(b.ns, c.ns)]

earlier(b, c) ==
    IF b.boot # c.boot
    THEN IF c.not_after < b.not_after THEN c ELSE b
    ELSE [not_after |-> MinOf(b.not_after, c.not_after), boot |-> b.boot, ns |-> MinOf(b.ns, c.ns)]

(* Mutant: a deadline that has passed is now.                               *)
wait_deadline_Clamped(b, now, extra) == now.wait + MaxOf(remaining_ns(b, now), 0) + extra * NsPerMs

wait_deadline(b, now, extra) == now.wait + remaining_ns(b, now) + extra * NsPerMs

----------------------------------------------------------------------------
(* The fence                                                                *)

(* Mutant: the deadline is moved to the reading, not to where B fell.       *)
fenced_AtReading(b, now) ==
    [b EXCEPT !.boot = now.boot, !.ns = IF now.ns = U64Max THEN 0 ELSE now.ns]

(* The deadline is where B fell on the reading's continuous clock; 0 at a   *)
(* reading that was refused.                                                *)
fenced(b, now) ==
    LET overdue == now.wait - wait_deadline(b, now, 0) IN
    [b EXCEPT !.boot = now.boot,
              !.ns = IF now.ns = U64Max THEN 0 ELSE MaxOf(now.ns - overdue, 0)]

Keep(now) ==
    LET first == fenced(bound, now) IN
    /\ bound' = first
    /\ fence' = [deadline |-> wait_deadline(bound, now, 0), saturated |-> first.ns = 0]

(* A check of the bound at a reading.                                       *)
Check ==
    /\ bound # NoBound
    /\ \E now \in {Good, Refused} : passed(bound, now) /\ Keep(now)
    /\ UNCHANGED <<wall, session, ns, wait>>

(* A lifetime begins at a good reading, or is shortened at one.             *)
Limit(ms) ==
    LET new == after(Good, ms) IN
    /\ new # NoBound
    /\ bound' = IF bound = NoBound THEN new ELSE earlier(bound, new)
    /\ UNCHANGED <<wall, session, ns, wait, fence>>

----------------------------------------------------------------------------
(* The clocks                                                               *)

Pass(awake) ==
    /\ ns < MaxNs /\ wall < MaxWall
    /\ wall' = wall + 1
    /\ ns' = ns + 1
    /\ wait' = IF awake THEN wait + 1 ELSE wait
    /\ UNCHANGED <<session, bound, fence>>

Awake == Pass(TRUE)
Sleep == Pass(FALSE)

SetWall ==
    /\ wall' \in 0..MaxWall
    /\ UNCHANGED <<session, ns, wait, bound, fence>>

Boot ==
    /\ session < MaxSessions
    /\ session' = session + 1
    /\ ns' = 0 /\ wait' = 0
    /\ fence' = NoBound
    /\ UNCHANGED <<wall, bound>>

LifetimeNext ==
    \/ Awake \/ Sleep \/ SetWall \/ Boot \/ Check
    \/ \E ms \in 0..MaxLimit : Limit(ms)

LifetimeSpec == LifetimeInit /\ [][LifetimeNext]_lifetimeVars

----------------------------------------------------------------------------
(* Properties                                                               *)

(* A bound that was fenced reads as passed for the rest of the boot         *)
(* session, however the wall clock is set, and its wait deadline is never   *)
(* later than at the fence, or than the boot when B fell before it: this is *)
(* what withdraws a grant in time.                                          *)
FenceHolds ==
    fence # NoBound =>
        /\ passed(bound, Good) /\ passed(bound, Refused)
        /\ wait_deadline(bound, Good, 0) <= IF fence.saturated THEN 0 ELSE fence.deadline

(* Three answers about one reading agree: no time is left exactly when the  *)
(* bound has passed, and then its wait deadline is reached.  While the host *)
(* is awake and nobody sets the clock, the deadline is one instant, up to   *)
(* the millisecond in which the wall clock is read; a sleep only moves it   *)
(* earlier.  A bound that is lowered has passed when it or the new one has, *)
(* also when they are of different boot sessions.                           *)
DeadlineStands ==
    [][bound # NoBound =>
        /\ \A now \in {Good, Refused} :
              /\ passed(bound, now) <=> remaining_ms(bound, now) = 0
              /\ passed(bound, now) <=> wait_deadline(bound, now, 0) <= now.wait
        /\ LET moved == (wait_deadline(bound, Good, 0))' - wait_deadline(bound, Good, 0) IN
           /\ Awake => moved \in (1 - NsPerMs)..(NsPerMs - 1)
           /\ Sleep => moved < NsPerMs
        /\ \A ms \in 0..MaxLimit :
              Limit(ms) => passed(bound', Good) = (passed(bound, Good) \/ ms = 0)]_lifetimeVars

(* A bound that has passed stays passed, and what is said of it agrees.     *)
BoundIsKept == []FenceHolds /\ DeadlineStands
=============================================================================
