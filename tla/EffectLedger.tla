----------------------------- MODULE EffectLedger -----------------------------
(***************************************************************************)
(* The effect ledger of one plugin: crate plasmosome-ledger, lib.rs.  A     *)
(* host pushes the effects of a plugin, each with its inverse, closes the   *)
(* ledger and detaches it: the inverses are replayed on the enforcement     *)
(* backend, last first.  A call that fails leaves the cursor on the effect  *)
(* that failed, and a later call resumes there.                             *)
(*                                                                          *)
(* This module composes the ledger with the backend it replays on, so that  *)
(* refused, timed out and half-failed withdrawals are the backend's own.    *)
(* A detach call has the backend to itself; inside it every effect is one   *)
(* step.  The plugin is attached in cell Home, and a caller may name        *)
(* another cell.                                                            *)
(***************************************************************************)
EXTENDS EnforcementBackend, Sequences, FiniteSets

CONSTANTS
    Cells,
    Home,       \* the cell the plugin is attached to
    OwnerIn,    \* this plugin as an owner, in each cell
    MaxEffects, \* bound: effects ever pushed
    MaxFaults   \* bound: faults armed in the backend at once

ASSUME LedgerAssumption ==
    /\ Home \in Cells
    /\ None \notin Cells
    /\ OwnerIn \in [Cells -> Owners]
    /\ MaxEffects \in Nat
    /\ MaxFaults \in Nat

VARIABLES
    effects,    \* the ledger's effects, oldest first
    phase,      \* Ledger, SealedLedger or ForcedLedger
    pending,    \* how many effects are not yet undone: the cursor
    began,      \* the cell the first detach of this closed ledger named
    asserted,   \* the effects asserted to the operator, in replay order
    call,       \* the arguments of the detach call that runs
    undone,     \* ghost: effects that have been replayed
    reopened    \* ghost: effects undone before the ledger was unsealed

ledger == <<effects, phase, pending, began, asserted, call, undone, reopened>>
vars == <<backend, ledger>>

(* via is the inverse: "Backend" revokes a granted handle, "Universe" and   *)
(* "Compensating" remove an object of the plugin; "Delayed" is discarded;   *)
(* "Published" and "External" are left to the operator.                     *)
Inverses == {"Backend", "Universe", "Compensating"}
Outstanding == {"Published", "External"}

Effect(via, h, object) == [via |-> via, address |-> h, object |-> object]

LedgerInit ==
    /\ Init
    /\ effects = <<>>
    /\ phase = "open"
    /\ pending = 0
    /\ began = None
    /\ asserted = <<>>
    /\ call = None
    /\ undone = {}
    /\ reopened = {}

Reversible(i) == effects[i].via \in Inverses

(* A grant identity is never issued twice.                                  *)
Fresh(h) == \A i \in DOMAIN effects : effects[i].address # h

----------------------------------------------------------------------------
(* An open ledger                                                           *)

push(effect) ==
    /\ phase = "open"
    /\ Len(effects) < MaxEffects
    /\ effects' = Append(effects, effect)
    /\ UNCHANGED <<phase, pending, began, asserted, call, undone, reopened>>

(* The host grants and pushes the handle, to whomever it was granted.       *)
PushGranted(h, object, kind) ==
    /\ Fresh(h)
    /\ object.owner \notin doomed
    /\ grant(h, object, kind)
    /\ push(Effect("Backend", h, object))

(* The host applies an object of the plugin and pushes its removal.         *)
PushApplied(h, capability, via) ==
    LET object == [owner |-> OwnerIn[Home], capability |-> capability] IN
    /\ Fresh(h)
    /\ OwnerIn[Home] \notin doomed
    /\ apply(h, object)
    /\ push(Effect(via, h, object))

(* A removal that names another owner's object: detach must refuse it.      *)
PushForeign(h) ==
    /\ Fresh(h)
    /\ occupied(h)
    /\ push(Effect("Universe", h, objects[h]))
    /\ UNCHANGED backend

PushOutbox(via) ==
    /\ push(Effect(via, None, None))
    /\ UNCHANGED backend

close ==
    /\ phase = "open"
    /\ phase' = IF \E i \in DOMAIN effects : effects[i].via \in Outstanding
                THEN "forced" ELSE "sealed"
    /\ pending' = Len(effects)
    /\ asserted' = <<>>
    /\ began' = None
    /\ UNCHANGED <<backend, effects, call, undone, reopened>>

----------------------------------------------------------------------------
(* detach and detach_forced                                                 *)

(* Mutant: every call binds the cell it names.                              *)
bind_Rebinds(cell) ==
    /\ began' = cell

(* The first call binds its cell, whatever its outcome; a later call that   *)
(* names another one is CellChanged and does nothing.                       *)
bind(cell) ==
    /\ began \in {None, cell}
    /\ began' = cell

detach(cell, policy) ==
    /\ phase # "open"
    /\ call = None
    /\ bind(cell)
    /\ call' = [owner |-> OwnerIn[cell], policy |-> policy]
    /\ UNCHANGED <<backend, effects, phase, pending, asserted, undone, reopened>>

Top == effects[pending]

(* Mutant: a removal is replayed for whoever owns the object.               *)
Selected_AnyOwner ==
    IF Top.via = "Backend" THEN grants[Top.address].object ELSE Top.object

(* What the inverse of the effect under the cursor asks the backend to      *)
(* withdraw: a granted handle's own object, or an object of the caller.     *)
Selected ==
    IF Top.via = "Backend"
    THEN grants[Top.address].object
    ELSE [owner |-> call.owner, capability |-> Top.object.capability]

(* The backend takes it: revoke needs the issued record, both need exactly  *)
(* this object and a drain that does not time out.                          *)
Accepted ==
    /\ Top.via = "Backend" => grants[Top.address] # None
    /\ selects(Top.address, Selected)
    /\ ~times_out(Top.address, Selected, call.policy)

(* The inverse runs; a withdrawal that fails half way stops the replay with *)
(* the cursor on this effect.                                               *)
Undo ==
    /\ Accepted
    /\ apply_removal(Top.address, Selected, call.policy)
    /\ IF Top.address \in failing
       THEN call' = None /\ UNCHANGED <<pending, undone>>
       ELSE pending' = pending - 1 /\ undone' = undone \cup {pending} /\ UNCHANGED call
    /\ UNCHANGED <<effects, phase, began, asserted, reopened>>

(* Mutant: an inverse the backend refuses is skipped.                       *)
Refuse_Skips ==
    /\ ~Accepted
    /\ pending' = pending - 1
    /\ undone' = undone \cup {pending}
    /\ UNCHANGED <<backend, effects, phase, call, began, asserted, reopened>>

(* Mutant: an inverse that finds nothing to withdraw counts as done.        *)
Refuse_SkipsUnknown ==
    /\ ~Accepted
    /\ IF row(Top.address) = None
       THEN pending' = pending - 1 /\ undone' = undone \cup {pending} /\ UNCHANGED call
       ELSE call' = None /\ UNCHANGED <<pending, undone>>
    /\ UNCHANGED <<backend, effects, phase, began, asserted, reopened>>

(* UnknownHandle, UnknownObject or DrainTimedOut stops the replay.          *)
Refuse ==
    /\ ~Accepted
    /\ call' = None
    /\ UNCHANGED <<backend, effects, phase, pending, began, asserted, undone, reopened>>

(* Mutant: the cursor stays on an asserted effect.                          *)
PassOver_Repeats ==
    /\ asserted' = IF Top.via \in Outstanding THEN Append(asserted, pending) ELSE asserted
    /\ \/ pending' = pending - 1 /\ undone' = undone \cup {pending} /\ UNCHANGED call
       \/ call' = None /\ UNCHANGED <<pending, undone>>
    /\ UNCHANGED <<backend, effects, phase, began, reopened>>

(* Nothing can be undone: the effect is asserted, or an unpublished outbox  *)
(* entry discarded, and the cursor moves on.                                *)
PassOver ==
    /\ asserted' = IF Top.via \in Outstanding THEN Append(asserted, pending) ELSE asserted
    /\ pending' = pending - 1
    /\ undone' = undone \cup {pending}
    /\ UNCHANGED <<backend, effects, phase, call, began, reopened>>

replay ==
    /\ call # None
    /\ pending > 0
    /\ \/ Reversible(pending) /\ (Undo \/ Refuse)
       \/ ~Reversible(pending) /\ PassOver

(* Every effect is replayed: the call returns its DetachReport.             *)
Report ==
    /\ call # None
    /\ pending = 0
    /\ call' = None
    /\ UNCHANGED <<backend, effects, phase, pending, began, asserted, undone, reopened>>

(* The open ledger again, with every effect and no cursor.                  *)
unseal ==
    /\ phase # "open"
    /\ call = None
    /\ phase' = "open"
    /\ pending' = 0
    /\ began' = None
    /\ asserted' = <<>>
    /\ reopened' = reopened \cup {i \in undone : Reversible(i)}
    /\ UNCHANGED <<backend, effects, call, undone>>

----------------------------------------------------------------------------
(* The rest of the system: other owners, and the faults of the backend.     *)

Bystander(h, object) ==
    /\ call = None
    /\ Fresh(h)
    /\ object.owner # OwnerIn[Home]
    /\ apply(h, object)
    /\ UNCHANGED ledger

(* Bounded by MaxFaults.                                                    *)
ArmFault ==
    /\ call = None
    /\ Cardinality(stuck) + Cardinality(stalled) + Cardinality(refused)
          + Cardinality(doomed) + Cardinality(failing) < MaxFaults
    /\ Arm
    /\ UNCHANGED ledger

LedgerNext ==
    \/ \E h \in Addresses, object \in Objects :
        \/ \E kind \in Kinds : PushGranted(h, object, kind)
        \/ Bystander(h, object)
    \/ \E h \in Addresses, capability \in Capabilities :
        \E via \in {"Universe", "Compensating"} : PushApplied(h, capability, via)
    \/ \E h \in Addresses : PushForeign(h)
    \/ \E via \in {"Delayed", "Published", "External"} : PushOutbox(via)
    \/ close
    \/ \E cell \in Cells, policy \in Policies : detach(cell, policy)
    \/ replay
    \/ Report
    \/ unseal
    \/ ArmFault

LedgerSpec == LedgerInit /\ [][LedgerNext]_vars

----------------------------------------------------------------------------
(* Properties                                                               *)

Empty(h) == objects[h] = None /\ incomplete[h] = None /\ grants[h] = None

(* The effects a retried detach asserts to the operator are the outstanding *)
(* ones it has passed, each once, last first.                               *)
AssertedOnce ==
    phase # "open" =>
        /\ {asserted[k] : k \in DOMAIN asserted}
              = {i \in DOMAIN effects : i > pending /\ effects[i].via \in Outstanding}
        /\ \A j, k \in DOMAIN asserted : j < k => asserted[j] > asserted[k]

(* Exact reversal: once a detach has replayed every effect of a sealed      *)
(* ledger, nothing of any of them stands, is unfinished or can still be     *)
(* withdrawn, however many calls it took and wherever they failed, and what *)
(* it could not undo was asserted once.                                     *)
ExactReversal ==
    /\ AssertedOnce
    /\ phase = "sealed" /\ pending = 0 =>
          \A i \in DOMAIN effects : Reversible(i) => Empty(effects[i].address)

(* Resumable: whatever failed before, an effect that has not been undone is *)
(* still there for its inverse to find, so the next call can go on from the *)
(* cursor.                                                                  *)
PendingIsHeld ==
    \A i \in DOMAIN effects :
        i \notin undone /\ Reversible(i) =>
            /\ selects(effects[i].address, effects[i].object)
            /\ effects[i].via = "Backend" => grants[effects[i].address] # None

(* "On the reclosed one, every call fails at the first undone effect": the  *)
(* cursor of a reclosed ledger never passes an effect that was undone       *)
(* before the ledger was unsealed.                                          *)
StuckAfterUnseal ==
    phase # "open" => \A i \in reopened : i <= pending

(* Wherever a detach stopped, the next call can go on and cannot skip.      *)
Resumable == PendingIsHeld /\ StuckAfterUnseal

(* A detach touches no address but the one under the cursor, and there only *)
(* what was granted by handle or belongs to the plugin in the one cell this *)
(* closed ledger is bound to.                                               *)
OnlyItsOwn ==
    [][call # None =>
          \A h \in Addresses :
            row(h)' # row(h) =>
                /\ pending > 0 /\ h = Top.address
                /\ Top.via = "Backend" \/ row(h).owner = OwnerIn[began]]_vars

(* One detach, however many calls it takes and whatever cells they name,    *)
(* withdraws the objects of one owner only: a retry under another cell      *)
(* never continues on that cell's objects.                                  *)
OneOwnerPerDetach ==
    \A i, j \in undone \ reopened :
        /\ effects[i].via \in {"Universe", "Compensating"}
        /\ effects[j].via \in {"Universe", "Compensating"}
        => effects[i].object.owner = effects[j].object.owner

(* A detach undoes all of its own ledger's effects, for one owner, over     *)
(* however many calls.                                                      *)
DetachIsExact == ExactReversal /\ OneOwnerPerDetach

(* No step of a detach, a grant or a removal touches a holding that is not  *)
(* its own.                                                                 *)
NothingElseMoves == OnlyItsOwn /\ NeverChangesHands
=============================================================================
