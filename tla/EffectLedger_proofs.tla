-------------------------- MODULE EffectLedger_proofs --------------------------
(***************************************************************************)
(* Proofs about the enforcement backend, for any addresses, owners,         *)
(* capabilities and cells; about the effect ledger that replays on it, for  *)
(* ledgers of any length; and about the backend's paged observations, for   *)
(* any callers, accounts and page size.                                     *)
(***************************************************************************)
EXTENDS EffectLedger, ObservationPaging, TLAPS

----------------------------------------------------------------------------
(* The backend: the account is always one that EnforcementSnapshot::new     *)
(* accepts.  AccountIsAccepted is inductive together with the types.        *)

BInv == TypeOK /\ AccountIsAccepted

LEMMA NoneIsNoObject == None \notin Objects /\ None \notin Entries
  <1>1. None \notin Objects
    BY BackendAssumption DEF Objects
  <1>2. ASSUME None \in Entries PROVE FALSE
    <2>1. PICK e \in Entries : e = None
      BY <1>2
    <2>2. e.object \in Objects /\ e.kind \in Kinds /\ e = [object |-> e.object, kind |-> e.kind]
      BY DEF Entries
    <2>3. PICK owner \in Owners, capability \in Capabilities :
              e.object = [owner |-> owner, capability |-> capability]
      BY <2>2 DEF Objects
    <2> QED  BY <2>1, <2>2, <2>3, BackendAssumption
  <1> QED  BY <1>1, <1>2

LEMMA BackendInit == Init => BInv
  BY DEF Init, BInv, TypeOK, AccountIsAccepted, row

(* A holding that is made at a free address is the only row there.          *)
LEMMA InsertStep ==
    ASSUME BInv, NEW h \in Addresses, NEW object \in Objects,
           incomplete[h] = None, ~occupied(h), insert(h, object),
           UNCHANGED <<incomplete, faults>>,
           \/ UNCHANGED grants
           \/ \E kind \in Kinds :
                 grants' = [grants EXCEPT ![h] = [object |-> object, kind |-> kind]]
    PROVE  BInv'
  <1>1. TypeOK'
    BY DEF BInv, TypeOK, insert, faults, Entries
  <1>2. AccountIsAccepted'
    <2> SUFFICES ASSUME NEW k \in Addresses
                 PROVE  /\ objects'[k] = None \/ incomplete'[k] = None
                        /\ grants'[k] # None => row(k)' = grants'[k].object
      BY DEF AccountIsAccepted
    <2>1. CASE k = h
      <3>1. objects'[h] = object /\ incomplete'[h] = None /\ object # None
        BY NoneIsNoObject DEF BInv, TypeOK, insert
      <3>2. grants[h] = None
        BY NoneIsNoObject DEF BInv, AccountIsAccepted, row, occupied, TypeOK, Entries
      <3>3. grants'[h] # None => grants'[h].object = object
        BY <3>2 DEF BInv, TypeOK
      <3> QED  BY <2>1, <3>1, <3>3 DEF row
    <2>2. CASE k # h
      <3>1. objects'[k] = objects[k] /\ grants'[k] = grants[k] /\ incomplete'[k] = incomplete[k]
        BY <2>2 DEF BInv, TypeOK, insert
      <3> QED  BY <3>1 DEF BInv, AccountIsAccepted, row
    <2> QED  BY <2>1, <2>2
  <1> QED  BY <1>1, <1>2 DEF BInv

LEMMA DoomedStep ==
    ASSUME BInv, NEW h \in Addresses, NEW object \in Objects,
           incomplete[h] = None, ~occupied(h), fail_after_the_first_effect(h, object)
    PROVE  BInv'
  <1>1. TypeOK'
    BY DEF BInv, TypeOK, fail_after_the_first_effect, faults
  <1>2. grants[h] = None
    BY NoneIsNoObject DEF BInv, AccountIsAccepted, row, occupied, TypeOK, Entries
  <1>3. AccountIsAccepted'
    BY <1>2 DEF BInv, TypeOK, AccountIsAccepted, row, occupied, fail_after_the_first_effect
  <1> QED  BY <1>1, <1>3 DEF BInv

LEMMA RemovalStep ==
    ASSUME BInv, NEW h \in Addresses, NEW object \in Objects, NEW policy \in Policies,
           apply_removal(h, object, policy)
    PROVE  BInv'
  <1>1. TypeOK'
    BY DEF BInv, TypeOK, apply_removal, release, withdrawn, fails_after_release
  <1>2. object # None
    BY NoneIsNoObject
  <1>3. objects'[h] = None
    BY <1>2 DEF BInv, TypeOK, AccountIsAccepted, apply_removal, release, selects
  <1>4. \A k \in Addresses \ {h} :
            objects'[k] = objects[k] /\ grants'[k] = grants[k] /\ incomplete'[k] = incomplete[k]
    BY DEF BInv, TypeOK, apply_removal, release, withdrawn, fails_after_release
  <1>5. CASE withdrawn(h)
    <2>1. grants'[h] = None
      BY <1>5 DEF BInv, TypeOK, withdrawn
    <2> QED  BY <1>1, <1>3, <1>4, <2>1 DEF BInv, AccountIsAccepted, row
  <1>6. CASE fails_after_release(h, object)
    <2>1. incomplete'[h] = object /\ grants'[h] = grants[h]
      BY <1>6 DEF BInv, TypeOK, fails_after_release
    <2>2. grants[h] # None => grants[h].object = object
      BY <1>2 DEF BInv, AccountIsAccepted, row, apply_removal, selects
    <2> QED  BY <1>1, <1>3, <1>4, <2>1, <2>2 DEF BInv, AccountIsAccepted, row
  <1> QED  BY <1>5, <1>6 DEF apply_removal

LEMMA ArmStep == BInv /\ Arm => BInv'
  BY DEF BInv, TypeOK, AccountIsAccepted, row, Arm, account, mark_stuck, fail_next_withdrawal,
         stall_graceful_drains_for_owner, fail_before_effect_for_owner, fail_after_effect_for_owner

LEMMA BackendStep == BInv /\ [Next]_backend => BInv'
  <1> SUFFICES ASSUME BInv, [Next]_backend PROVE BInv'
    OBVIOUS
  <1>1. ASSUME NEW h \in Addresses, NEW object \in Objects, NEW kind \in Kinds,
               grant(h, object, kind)
        PROVE  BInv'
    BY <1>1, InsertStep, DoomedStep DEF grant, admitted
  <1>2. ASSUME NEW h \in Addresses, NEW object \in Objects, apply(h, object)
        PROVE  BInv'
    BY <1>2, InsertStep, DoomedStep DEF apply, admitted
  <1>3. ASSUME NEW h \in Addresses, NEW object \in Objects, plant(h, object)
        PROVE  BInv'
    BY <1>3, InsertStep DEF plant
  <1>4. ASSUME NEW h \in Addresses, NEW policy \in Policies, revoke(h, policy)
        PROVE  BInv'
    <2>1. grants[h].object \in Objects
      BY <1>4 DEF revoke, BInv, TypeOK, Entries
    <2> QED  BY <1>4, <2>1, RemovalStep DEF revoke
  <1>5. CASE UNCHANGED backend
    BY <1>5 DEF BInv, TypeOK, AccountIsAccepted, row, backend, account, faults
  <1> QED  BY <1>1, <1>2, <1>3, <1>4, <1>5, RemovalStep, ArmStep DEF Next

(* The account is well typed and EnforcementSnapshot::new accepts it: no    *)
(* sequence of grants, half-failed effects, half-failed withdrawals and     *)
(* planted residues makes the backend refuse its own observation.           *)
THEOREM AccountTheorem == Spec => []AccountIsAccepted
  <1>1. BInv => AccountIsAccepted
    BY DEF BInv
  <1> QED  BY <1>1, BackendInit, BackendStep, PTL DEF Spec

(* A step that drops or changes an issued record drops it together with     *)
(* the last trace of the holding.                                           *)
LEMMA RecordStep ==
    ASSUME BInv, [Next]_backend, NEW k \in Addresses, grants[k] # None, grants'[k] # grants[k]
    PROVE  grants'[k] = None /\ objects'[k] = None /\ incomplete'[k] = None
  <1>1. ASSUME NEW h \in Addresses, NEW object \in Objects, NEW kind \in Kinds,
               grant(h, object, kind)
        PROVE  FALSE
    <2>1. h = k
      BY <1>1 DEF grant, fail_after_the_first_effect, BInv, TypeOK
    <2> QED  BY <1>1, <2>1 DEF grant
  <1>2. ASSUME NEW h \in Addresses, NEW object \in Objects, NEW policy \in Policies,
               apply_removal(h, object, policy)
        PROVE  grants'[k] = None /\ objects'[k] = None /\ incomplete'[k] = None
    <2>1. withdrawn(h) /\ h = k
      BY <1>2 DEF apply_removal, withdrawn, fails_after_release, BInv, TypeOK
    <2>2. object # None
      BY NoneIsNoObject
    <2>3. objects'[h] = None
      BY <1>2, <2>2 DEF BInv, TypeOK, AccountIsAccepted, apply_removal, release, selects
    <2> QED  BY <2>1, <2>3 DEF withdrawn, BInv, TypeOK
  <1>3. ASSUME NEW h \in Addresses, NEW policy \in Policies, revoke(h, policy)
        PROVE  grants'[k] = None /\ objects'[k] = None /\ incomplete'[k] = None
    <2>1. grants[h].object \in Objects
      BY <1>3 DEF revoke, BInv, TypeOK, Entries
    <2> QED  BY <1>3, <2>1, <1>2 DEF revoke
  <1>4. ASSUME NEW h \in Addresses, NEW object \in Objects, apply(h, object) \/ plant(h, object)
        PROVE  FALSE
    BY <1>4 DEF apply, plant, fail_after_the_first_effect
  <1>5. ~Arm
    BY DEF Arm, account, mark_stuck, fail_next_withdrawal, stall_graceful_drains_for_owner,
           fail_before_effect_for_owner, fail_after_effect_for_owner
  <1>6. ~UNCHANGED backend
    BY DEF backend, account
  <1> QED  BY <1>1, <1>2, <1>3, <1>4, <1>5, <1>6 DEF Next

(* A withdrawal that succeeded left nothing behind, for any backend.        *)
THEOREM WithdrawalTheorem == Spec => WithdrawnLeavesNothing
  <1>1. BInv /\ [Next]_backend =>
           [\A h \in Addresses :
              grants[h] # None /\ grants'[h] # grants[h]
                => grants'[h] = None /\ objects'[h] = None /\ incomplete'[h] = None]_backend
    BY RecordStep
  <1> QED  BY <1>1, BackendInit, BackendStep, PTL DEF Spec, WithdrawnLeavesNothing

(* Nothing new is put where something stands or is unfinished.              *)
LEMMA HandsStep ==
    ASSUME BInv, [Next]_backend, NEW k \in Addresses, row(k) # None, row(k)' # None
    PROVE  row(k)' = row(k)
  <1>1. ASSUME NEW h \in Addresses, incomplete[h] = None, ~occupied(h),
               \A g \in Addresses \ {h} : objects'[g] = objects[g] /\ incomplete'[g] = incomplete[g]
        PROVE  row(k)' = row(k)
    BY <1>1 DEF row, occupied
  <1>2. ASSUME NEW h \in Addresses, NEW object \in Objects,
               \/ \E kind \in Kinds : grant(h, object, kind)
               \/ apply(h, object) \/ plant(h, object)
        PROVE  row(k)' = row(k)
    <2>1. incomplete[h] = None /\ ~occupied(h)
      BY <1>2 DEF grant, apply, plant, admitted
    <2>2. \A g \in Addresses \ {h} : objects'[g] = objects[g] /\ incomplete'[g] = incomplete[g]
      BY <1>2 DEF grant, apply, plant, insert, fail_after_the_first_effect, BInv, TypeOK
    <2> QED  BY <1>1, <2>1, <2>2
  <1>3. ASSUME NEW h \in Addresses, NEW object \in Objects, NEW policy \in Policies,
               apply_removal(h, object, policy)
        PROVE  row(k)' = row(k)
    <2>1. row(h) = object /\ objects'[h] = None /\ incomplete'[h] \in {object, None}
      BY <1>3, NoneIsNoObject DEF BInv, TypeOK, AccountIsAccepted, row, apply_removal, release,
                                  selects, withdrawn, fails_after_release
    <2>2. \A g \in Addresses \ {h} : objects'[g] = objects[g] /\ incomplete'[g] = incomplete[g]
      BY <1>3 DEF BInv, TypeOK, apply_removal, release, withdrawn, fails_after_release
    <2> QED  BY <2>1, <2>2 DEF row
  <1>4. ASSUME NEW h \in Addresses, NEW policy \in Policies, revoke(h, policy)
        PROVE  row(k)' = row(k)
    <2>1. grants[h].object \in Objects
      BY <1>4 DEF revoke, BInv, TypeOK, Entries
    <2> QED  BY <1>4, <2>1, <1>3 DEF revoke
  <1>5. Arm => row(k)' = row(k)
    BY DEF row, Arm, account, mark_stuck, fail_next_withdrawal, stall_graceful_drains_for_owner,
           fail_before_effect_for_owner, fail_after_effect_for_owner
  <1>6. UNCHANGED backend => row(k)' = row(k)
    BY DEF row, backend, account
  <1> QED  BY <1>2, <1>3, <1>4, <1>5, <1>6 DEF Next

(* A holding is withdrawn completely before another takes its address.      *)
THEOREM HandsTheorem == Spec => NeverChangesHands
  <1>1. BInv /\ [Next]_backend =>
           [\A h \in Addresses : row(h) # None /\ row(h)' # None => row(h)' = row(h)]_backend
    BY HandsStep
  <1> QED  BY <1>1, BackendInit, BackendStep, PTL DEF Spec, NeverChangesHands

----------------------------------------------------------------------------
(* The ledger                                                               *)

Vias == Inverses \cup Outstanding \cup {"Delayed"}

Removals == {"Universe", "Compensating"}

EffectRecords ==
    [via : Vias, address : Addresses \cup {None}, object : Objects \cup {None}]

LedgerTypeOK ==
    /\ effects \in Seq(EffectRecords)
    /\ \A i \in DOMAIN effects :
          Reversible(i) => effects[i].address \in Addresses /\ effects[i].object \in Objects
    /\ phase \in {"open", "sealed", "forced"}
    /\ pending \in 0..Len(effects)
    /\ began \in Cells \cup {None}
    /\ asserted \in Seq(Nat)
    /\ undone \subseteq DOMAIN effects
    /\ reopened \subseteq {i \in undone : Reversible(i)}
    /\ call # None =>
          /\ phase # "open"
          /\ began \in Cells
          /\ call.owner = OwnerIn[began]
          /\ call.policy \in Policies

(* A grant identity is never issued twice, so no two effects share one.     *)
AddressesDiffer ==
    \A i, j \in DOMAIN effects :
        Reversible(i) /\ Reversible(j) /\ effects[i].address = effects[j].address => i = j

(* Nothing of an undone effect is left, so its inverse can only be refused. *)
UndoneIsEmpty ==
    \A i \in undone : Reversible(i) => Empty(effects[i].address)

(* Everything past the cursor is undone; what is undone elsewhere was       *)
(* undone before the ledger was unsealed.                                   *)
CursorSplits ==
    /\ phase # "open" => \A i \in DOMAIN effects : i > pending => i \in undone
    /\ \A i \in undone :
          Reversible(i) /\ (phase = "open" \/ began = None \/ i <= pending) => i \in reopened

(* What this detach removed belonged to the plugin in the bound cell.       *)
RemovedFromBound ==
    \A i \in undone \ reopened :
        effects[i].via \in Removals =>
            began \in Cells /\ effects[i].object.owner = OwnerIn[began]

LedgerInv ==
    /\ BInv
    /\ LedgerTypeOK
    /\ AddressesDiffer
    /\ UndoneIsEmpty
    /\ CursorSplits
    /\ RemovedFromBound
    /\ PendingIsHeld
    /\ StuckAfterUnseal
    /\ AssertedOnce

LEMMA LedgerInitInv == LedgerInit => LedgerInv
  <1> SUFFICES ASSUME LedgerInit PROVE LedgerInv
    OBVIOUS
  <1>1. BInv
    BY BackendInit DEF LedgerInit
  <1>2. LedgerTypeOK /\ AddressesDiffer /\ UndoneIsEmpty
    BY DEF LedgerInit, LedgerTypeOK, AddressesDiffer, UndoneIsEmpty
  <1>3. CursorSplits /\ RemovedFromBound /\ PendingIsHeld /\ StuckAfterUnseal /\ AssertedOnce
    BY DEF LedgerInit, CursorSplits, RemovedFromBound, PendingIsHeld, StuckAfterUnseal, AssertedOnce
  <1> QED  BY <1>1, <1>2, <1>3 DEF LedgerInv

(* Nothing changes at an address.                                           *)
SameAt(h) == objects'[h] = objects[h] /\ grants'[h] = grants[h] /\ incomplete'[h] = incomplete[h]

(* An object stands or is unfinished at an address after the step.          *)
SelectsNext(h, object) == objects'[h] = object \/ incomplete'[h] = object

(* What the inverse under the cursor withdraws is the effect's own object,  *)
(* the only thing at its address; the backend refuses an undone effect.     *)
LEMMA AcceptedIsHeld ==
    ASSUME LedgerInv, call # None, pending > 0, Reversible(pending), Accepted
    PROVE  /\ pending \in DOMAIN effects
           /\ pending \notin undone
           /\ Top.address \in Addresses
           /\ Selected \in Objects
           /\ Selected = Top.object
           /\ row(Top.address) = Selected
           /\ Top.via \in Removals => Selected.owner = OwnerIn[began]
  <1>1. /\ pending \in DOMAIN effects
        /\ Top.address \in Addresses /\ Top.object \in Objects
        /\ call.owner \in Owners /\ call.owner = OwnerIn[began]
        /\ Top.via \in Inverses
    BY LedgerAssumption DEF LedgerInv, LedgerTypeOK, Top, Reversible
  <1>2. Selected \in Objects
    <2>1. CASE Top.via = "Backend"
      BY <1>1, <2>1 DEF Accepted, Selected, LedgerInv, BInv, TypeOK, Entries
    <2>2. CASE Top.via # "Backend"
      BY <1>1, <2>2 DEF Selected, Objects
    <2> QED  BY <2>1, <2>2
  <1>3. row(Top.address) = Selected
    BY <1>1, <1>2, NoneIsNoObject DEF Accepted, selects, row, LedgerInv, BInv, AccountIsAccepted
  <1>4. pending \notin undone
    BY <1>1, <1>2, NoneIsNoObject DEF LedgerInv, UndoneIsEmpty, Empty, Top, Accepted, selects
  <1>5. selects(Top.address, Top.object)
    BY <1>1, <1>4 DEF LedgerInv, PendingIsHeld, Top
  <1>6. row(Top.address) = Top.object
    BY <1>1, <1>5, NoneIsNoObject DEF selects, row, LedgerInv, BInv, AccountIsAccepted
  <1>7. Top.via \in Removals => Selected.owner = OwnerIn[began]
    BY <1>1 DEF Selected, Removals
  <1> QED  BY <1>1, <1>2, <1>3, <1>4, <1>6, <1>7

(* Every step of the composed system is a step of the backend, or none.     *)
LEMMA StepsOfBackend == LedgerInv /\ [LedgerNext]_vars => [Next]_backend
  <1> SUFFICES ASSUME LedgerInv, [LedgerNext]_vars PROVE [Next]_backend
    OBVIOUS
  <1>1. ASSUME NEW h \in Addresses, NEW object \in Objects, NEW kind \in Kinds,
               PushGranted(h, object, kind)
        PROVE  Next
    BY <1>1 DEF PushGranted, Next
  <1>2. ASSUME NEW h \in Addresses, NEW object \in Objects, Bystander(h, object)
        PROVE  Next
    BY <1>2 DEF Bystander, Next
  <1>3. ASSUME NEW h \in Addresses, NEW capability \in Capabilities, NEW via,
               PushApplied(h, capability, via)
        PROVE  Next
    <2>1. [owner |-> OwnerIn[Home], capability |-> capability] \in Objects
      BY LedgerAssumption DEF Objects
    <2> QED  BY <1>3, <2>1 DEF PushApplied, Next
  <1>4. ASSUME replay PROVE [Next]_backend
    <2>1. CASE Reversible(pending) /\ Undo
      <3>1. Top.address \in Addresses /\ Selected \in Objects /\ call.policy \in Policies
        BY <1>4, <2>1, AcceptedIsHeld DEF replay, Undo, LedgerInv, LedgerTypeOK
      <3> QED  BY <2>1, <3>1 DEF Undo, Next
    <2>2. CASE UNCHANGED backend
      BY <2>2
    <2> QED  BY <1>4, <2>1, <2>2 DEF replay, Refuse, PassOver
  <1>5. ArmFault => Next
    BY DEF ArmFault, Next
  <1>6. UNCHANGED vars => UNCHANGED backend
    BY DEF vars
  <1> QED
    BY <1>1, <1>2, <1>3, <1>4, <1>5, <1>6
       DEF LedgerNext, PushForeign, PushOutbox, close, detach, Report, unseal

LEMMA BackendKept == LedgerInv /\ [LedgerNext]_vars => BInv'
  BY StepsOfBackend, BackendStep DEF LedgerInv

(* An effect that is pushed is held and is at an address of its own; what   *)
(* the others hold stays.                                                   *)
LEMMA PushStep ==
    ASSUME LedgerInv, BInv', NEW effect \in EffectRecords, push(effect),
           \A i \in DOMAIN effects : Reversible(i) => SameAt(effects[i].address),
           effect.via \in Inverses =>
              /\ effect.address \in Addresses
              /\ effect.object \in Objects
              /\ Fresh(effect.address)
              /\ SelectsNext(effect.address, effect.object)
              /\ effect.via = "Backend" => grants'[effect.address] # None
    PROVE  LedgerInv'
  <1> DEFINE n == Len(effects) + 1
  <1>1. /\ effects \in Seq(EffectRecords) /\ Len(effects) \in Nat
        /\ DOMAIN effects = 1..Len(effects)
        /\ effects' = Append(effects, effect)
        /\ UNCHANGED <<phase, pending, began, asserted, call, undone, reopened>>
        /\ phase = "open"
    BY DEF LedgerInv, LedgerTypeOK, push
  <1>2. /\ effects' \in Seq(EffectRecords) /\ Len(effects') = n
        /\ DOMAIN effects' = DOMAIN effects \cup {n} /\ n \notin DOMAIN effects
        /\ effects'[n] = effect
        /\ \A i \in DOMAIN effects : effects'[i] = effects[i]
    BY <1>1
  <1>3. \A i \in DOMAIN effects : Reversible(i)' <=> Reversible(i)
    BY <1>2 DEF Reversible
  <1>4. undone \subseteq DOMAIN effects /\ reopened \subseteq undone
    BY DEF LedgerInv, LedgerTypeOK
  <1> HIDE DEF n
  <1>5. LedgerTypeOK'
    <2>1. \A i \in DOMAIN effects' :
             Reversible(i)' => effects'[i].address \in Addresses /\ effects'[i].object \in Objects
      BY <1>2, <1>3 DEF LedgerInv, LedgerTypeOK, Reversible
    <2>2. pending' \in 0..Len(effects')
      BY <1>1, <1>2 DEF LedgerInv, LedgerTypeOK, n
    <2>3. reopened' \subseteq {i \in undone' : Reversible(i)'}
      BY <1>1, <1>3, <1>4 DEF LedgerInv, LedgerTypeOK
    <2>4. undone' \subseteq DOMAIN effects'
      BY <1>1, <1>2, <1>4
    <2> QED  BY <1>1, <1>2, <2>1, <2>2, <2>3, <2>4 DEF LedgerInv, LedgerTypeOK
  <1>6. AddressesDiffer'
    BY <1>2, <1>3 DEF LedgerInv, AddressesDiffer, Fresh, Reversible
  <1>7. UndoneIsEmpty'
    BY <1>1, <1>2, <1>3, <1>4 DEF LedgerInv, UndoneIsEmpty, Empty, SameAt
  <1>8. CursorSplits'
    BY <1>1, <1>3, <1>4 DEF LedgerInv, CursorSplits
  <1>9. RemovedFromBound'
    BY <1>1, <1>2, <1>4 DEF LedgerInv, RemovedFromBound
  <1>10. PendingIsHeld'
    <2> SUFFICES ASSUME NEW i \in DOMAIN effects', i \notin undone', Reversible(i)'
                 PROVE  /\ SelectsNext(effects'[i].address, effects'[i].object)
                        /\ effects'[i].via = "Backend" => grants'[effects'[i].address] # None
      BY DEF PendingIsHeld, selects, SelectsNext
    <2>1. CASE i = n
      BY <1>2, <2>1 DEF Reversible
    <2>2. CASE i \in DOMAIN effects
      BY <1>1, <1>2, <1>3, <2>2 DEF LedgerInv, PendingIsHeld, selects, SelectsNext, SameAt
    <2> QED  BY <1>2, <2>1, <2>2
  <1>11. StuckAfterUnseal' /\ AssertedOnce'
    BY <1>1 DEF StuckAfterUnseal, AssertedOnce
  <1> QED  BY <1>5, <1>6, <1>7, <1>8, <1>9, <1>10, <1>11 DEF LedgerInv

(* The account moves only where no effect is.                               *)
LEMMA ElsewhereStep ==
    ASSUME LedgerInv, BInv', UNCHANGED ledger,
           \A i \in DOMAIN effects : Reversible(i) => SameAt(effects[i].address)
    PROVE  LedgerInv'
  <1>1. UNCHANGED <<effects, phase, pending, began, asserted, call, undone, reopened>>
    BY DEF ledger
  <1>2. LedgerTypeOK' /\ AddressesDiffer' /\ CursorSplits' /\ RemovedFromBound'
    BY <1>1 DEF LedgerInv, LedgerTypeOK, AddressesDiffer, CursorSplits, RemovedFromBound, Reversible
  <1>3. StuckAfterUnseal' /\ AssertedOnce'
    BY <1>1 DEF LedgerInv, StuckAfterUnseal, AssertedOnce
  <1>4. UndoneIsEmpty'
    BY <1>1 DEF LedgerInv, LedgerTypeOK, UndoneIsEmpty, Empty, SameAt, Reversible
  <1>5. PendingIsHeld'
    BY <1>1 DEF LedgerInv, PendingIsHeld, selects, SameAt, Reversible
  <1> QED  BY <1>2, <1>3, <1>4, <1>5 DEF LedgerInv

(* Granting or applying at a fresh address moves nothing an effect holds.   *)
LEMMA FreshIsElsewhere ==
    ASSUME LedgerInv, NEW h \in Addresses, Fresh(h),
           \A g \in Addresses \ {h} : SameAt(g)
    PROVE  \A i \in DOMAIN effects : Reversible(i) => SameAt(effects[i].address)
  BY DEF LedgerInv, LedgerTypeOK, Fresh

LEMMA GrantElsewhere ==
    ASSUME BInv, NEW h \in Addresses, NEW object \in Objects,
           apply(h, object) \/ \E kind \in Kinds : grant(h, object, kind)
    PROVE  /\ \A g \in Addresses \ {h} : SameAt(g)
           /\ object.owner \notin doomed => objects'[h] = object
  BY DEF SameAt, BInv, TypeOK, apply, grant, insert, fail_after_the_first_effect

LEMMA AnyPush ==
    ASSUME LedgerInv, BInv',
           \/ \E h \in Addresses, object \in Objects, kind \in Kinds : PushGranted(h, object, kind)
           \/ \E h \in Addresses, capability \in Capabilities :
                 \E via \in Removals : PushApplied(h, capability, via)
           \/ \E h \in Addresses : PushForeign(h)
           \/ \E via \in {"Delayed", "Published", "External"} : PushOutbox(via)
    PROVE  LedgerInv'
  <1>1. ASSUME NEW h \in Addresses, NEW object \in Objects, NEW kind \in Kinds,
               PushGranted(h, object, kind)
        PROVE  LedgerInv'
    <2> DEFINE effect == Effect("Backend", h, object)
    <2>1. effect \in EffectRecords /\ effect.address = h /\ effect.object = object
          /\ effect.via = "Backend"
      BY DEF EffectRecords, Effect, Vias, Inverses
    <2>2. push(effect) /\ Fresh(h) /\ grant(h, object, kind) /\ object.owner \notin doomed
      BY <1>1 DEF PushGranted
    <2>3. (\A g \in Addresses \ {h} : SameAt(g)) /\ objects'[h] = object
      BY <2>2, GrantElsewhere DEF LedgerInv
    <2>4. grants'[h] = [object |-> object, kind |-> kind]
      BY <2>2 DEF grant, fail_after_the_first_effect, LedgerInv, BInv, TypeOK
    <2>5. grants'[h] # None
      BY <2>4, NoneIsNoObject DEF Entries
    <2>6. SelectsNext(h, object)
      BY <2>3 DEF SelectsNext
    <2> HIDE DEF effect
    <2> QED  BY <2>1, <2>2, <2>3, <2>5, <2>6, FreshIsElsewhere, PushStep
  <1>2. ASSUME NEW h \in Addresses, NEW capability \in Capabilities, NEW via \in Removals,
               PushApplied(h, capability, via)
        PROVE  LedgerInv'
    <2> DEFINE object == [owner |-> OwnerIn[Home], capability |-> capability]
               effect == Effect(via, h, object)
    <2>1. object \in Objects /\ object.owner = OwnerIn[Home]
      BY LedgerAssumption DEF Objects
    <2>2. push(effect) /\ Fresh(h) /\ apply(h, object) /\ OwnerIn[Home] \notin doomed
      BY <1>2 DEF PushApplied
    <2> HIDE DEF object
    <2>3. effect \in EffectRecords /\ effect.address = h /\ effect.object = object
          /\ effect.via = via
      BY <2>1 DEF EffectRecords, Effect, Vias, Inverses, Removals
    <2>4. (\A g \in Addresses \ {h} : SameAt(g)) /\ objects'[h] = object
      BY <2>1, <2>2, GrantElsewhere DEF LedgerInv
    <2>5. SelectsNext(h, object) /\ via # "Backend"
      BY <2>4 DEF SelectsNext, Removals
    <2> HIDE DEF effect
    <2> QED  BY <2>1, <2>2, <2>3, <2>4, <2>5, FreshIsElsewhere, PushStep
  <1>3. ASSUME NEW h \in Addresses, PushForeign(h)
        PROVE  LedgerInv'
    <2> DEFINE effect == Effect("Universe", h, objects[h])
    <2>1. objects[h] \in Objects /\ push(effect) /\ Fresh(h) /\ UNCHANGED backend
      BY <1>3 DEF PushForeign, occupied, LedgerInv, BInv, TypeOK
    <2>2. effect \in EffectRecords /\ effect.address = h /\ effect.object = objects[h]
          /\ effect.via = "Universe"
      BY <2>1 DEF EffectRecords, Effect, Vias, Inverses
    <2>3. \A g : SameAt(g)
      BY <2>1 DEF backend, account, SameAt
    <2>4. SelectsNext(h, objects[h])
      BY <2>1 DEF SelectsNext, backend, account
    <2> HIDE DEF effect
    <2> QED  BY <2>1, <2>2, <2>3, <2>4, PushStep
  <1>4. ASSUME NEW via \in {"Delayed", "Published", "External"}, PushOutbox(via)
        PROVE  LedgerInv'
    <2> DEFINE effect == Effect(via, None, None)
    <2>1. effect \in EffectRecords /\ effect.via = via /\ via \notin Inverses
      BY DEF EffectRecords, Effect, Vias, Outstanding, Inverses
    <2>2. push(effect) /\ \A g : SameAt(g)
      BY <1>4 DEF PushOutbox, backend, account, SameAt
    <2> HIDE DEF effect
    <2> QED  BY <2>1, <2>2, PushStep
  <1> QED  BY <1>1, <1>2, <1>3, <1>4

(* Closing, binding, stopping and unsealing leave the account alone.        *)
LEMMA CallStep ==
    ASSUME LedgerInv, BInv',
           \/ close \/ Report \/ unseal \/ Refuse
           \/ \E cell \in Cells, policy \in Policies : detach(cell, policy)
    PROVE  LedgerInv'
  <1>1. UNCHANGED <<objects, grants, incomplete, effects, undone>>
    BY DEF close, Report, unseal, Refuse, detach, backend, account
  <1>2. \A i : Reversible(i)' <=> Reversible(i)
    BY <1>1 DEF Reversible
  <1>3. AddressesDiffer' /\ UndoneIsEmpty' /\ PendingIsHeld'
    BY <1>1, <1>2 DEF LedgerInv, AddressesDiffer, UndoneIsEmpty, PendingIsHeld, Empty, selects
  <1>4. /\ Len(effects) \in Nat /\ DOMAIN effects = 1..Len(effects)
        /\ undone \subseteq DOMAIN effects
        /\ reopened \subseteq {i \in undone : Reversible(i)}
    BY DEF LedgerInv, LedgerTypeOK
  <1>5. CASE close
    <2>1. phase = "open" /\ phase' \in {"sealed", "forced"} /\ pending' = Len(effects)
          /\ asserted' = <<>> /\ began' = None /\ UNCHANGED <<call, reopened>>
      BY <1>5 DEF close
    <2>2. LedgerTypeOK'
      BY <1>1, <1>2, <1>4, <2>1 DEF LedgerInv, LedgerTypeOK
    <2>3. CursorSplits' /\ StuckAfterUnseal' /\ RemovedFromBound'
      BY <1>1, <1>2, <1>4, <2>1
         DEF LedgerInv, CursorSplits, StuckAfterUnseal, RemovedFromBound, Removals, Reversible, Inverses
    <2>4. AssertedOnce'
      BY <1>1, <1>4, <2>1 DEF AssertedOnce
    <2> QED  BY <1>3, <2>2, <2>3, <2>4 DEF LedgerInv
  <1>6. CASE Report \/ Refuse
    <2>1. call' = None /\ UNCHANGED <<phase, pending, began, asserted, reopened>>
      BY <1>6 DEF Report, Refuse
    <2>2. LedgerTypeOK'
      BY <1>1, <1>2, <2>1 DEF LedgerInv, LedgerTypeOK
    <2>3. CursorSplits' /\ StuckAfterUnseal' /\ RemovedFromBound' /\ AssertedOnce'
      BY <1>1, <1>2, <2>1
         DEF LedgerInv, CursorSplits, StuckAfterUnseal, RemovedFromBound, AssertedOnce
    <2> QED  BY <1>3, <2>2, <2>3 DEF LedgerInv
  <1>7. CASE unseal
    <2>1. phase' = "open" /\ pending' = 0 /\ began' = None /\ asserted' = <<>>
          /\ call = None /\ call' = None /\ reopened' = reopened \cup {i \in undone : Reversible(i)}
      BY <1>7 DEF unseal
    <2>2. LedgerTypeOK'
      BY <1>1, <1>2, <1>4, <2>1 DEF LedgerInv, LedgerTypeOK
    <2>3. CursorSplits' /\ StuckAfterUnseal' /\ RemovedFromBound' /\ AssertedOnce'
      BY <1>1, <1>2, <2>1
         DEF CursorSplits, StuckAfterUnseal, RemovedFromBound, AssertedOnce, Removals, Reversible,
             Inverses
    <2> QED  BY <1>3, <2>2, <2>3 DEF LedgerInv
  <1>8. ASSUME NEW cell \in Cells, NEW policy \in Policies, detach(cell, policy)
        PROVE  LedgerInv'
    <2>1. phase # "open" /\ began \in {None, cell} /\ began' = cell
          /\ call' = [owner |-> OwnerIn[cell], policy |-> policy]
          /\ UNCHANGED <<phase, pending, asserted, reopened>>
      BY <1>8 DEF detach, bind
    <2>2. LedgerTypeOK'
      BY <1>1, <1>2, <2>1 DEF LedgerInv, LedgerTypeOK
    <2>3. RemovedFromBound'
      BY <1>1, <2>1, LedgerAssumption DEF LedgerInv, RemovedFromBound
    <2>4. CursorSplits' /\ StuckAfterUnseal' /\ AssertedOnce'
      BY <1>1, <1>2, <2>1, LedgerAssumption
         DEF LedgerInv, CursorSplits, StuckAfterUnseal, AssertedOnce
    <2> QED  BY <1>3, <2>2, <2>3, <2>4 DEF LedgerInv
  <1> QED  BY <1>5, <1>6, <1>7, <1>8

(* The cursor moves over an effect that cannot be undone.                   *)
LEMMA PassOverStep ==
    ASSUME LedgerInv, BInv', call # None, pending > 0, ~Reversible(pending), PassOver
    PROVE  LedgerInv'
  <1>1. /\ pending' = pending - 1 /\ undone' = undone \cup {pending}
        /\ UNCHANGED <<objects, grants, incomplete, effects, phase, call, began, reopened>>
    BY DEF PassOver, backend, account
  <1>2. /\ Len(effects) \in Nat /\ DOMAIN effects = 1..Len(effects)
        /\ pending \in DOMAIN effects /\ pending \in Nat /\ phase # "open"
        /\ undone \subseteq DOMAIN effects
        /\ reopened \subseteq {i \in undone : Reversible(i)}
        /\ asserted \in Seq(Nat) /\ began \in Cells
    BY DEF LedgerInv, LedgerTypeOK
  <1>3. \A i : Reversible(i)' <=> Reversible(i)
    BY <1>1 DEF Reversible
  <1>4. asserted' \in Seq(Nat)
    BY <1>2 DEF PassOver
  <1>5. LedgerTypeOK'
    BY <1>1, <1>2, <1>3, <1>4 DEF LedgerInv, LedgerTypeOK
  <1>6. AddressesDiffer' /\ UndoneIsEmpty' /\ PendingIsHeld'
    BY <1>1, <1>3 DEF LedgerInv, AddressesDiffer, UndoneIsEmpty, PendingIsHeld, Empty, selects
  <1>7. CursorSplits' /\ StuckAfterUnseal'
    BY <1>1, <1>2, <1>3, LedgerAssumption DEF LedgerInv, CursorSplits, StuckAfterUnseal
  <1>8. RemovedFromBound'
    BY <1>1 DEF LedgerInv, RemovedFromBound, Removals, Reversible, Inverses
  <1>9. AssertedOnce'
    <2> DEFINE passed(p) == {i \in DOMAIN effects : i > p /\ effects[i].via \in Outstanding}
    <2>1. /\ {asserted[k] : k \in DOMAIN asserted} = passed(pending)
          /\ \A j, k \in DOMAIN asserted : j < k => asserted[j] > asserted[k]
      BY <1>2 DEF LedgerInv, AssertedOnce
    <2>2. SUFFICES /\ {asserted'[k] : k \in DOMAIN asserted'} = passed(pending - 1)
                   /\ \A j, k \in DOMAIN asserted' : j < k => asserted'[j] > asserted'[k]
      BY <1>1 DEF AssertedOnce
    <2>3. CASE effects[pending].via \notin Outstanding
      <3>1. asserted' = asserted
        BY <2>3 DEF PassOver, Top
      <3>2. passed(pending - 1) = passed(pending)
        BY <1>2, <2>3
      <3> QED  BY <2>1, <3>1, <3>2
    <2>4. CASE effects[pending].via \in Outstanding
      <3>1. asserted' = Append(asserted, pending)
        BY <2>4 DEF PassOver, Top
      <3>2. /\ DOMAIN asserted' = DOMAIN asserted \cup {Len(asserted) + 1}
            /\ asserted'[Len(asserted) + 1] = pending
            /\ \A k \in DOMAIN asserted : asserted'[k] = asserted[k] /\ k < Len(asserted) + 1
            /\ DOMAIN asserted \subseteq Nat /\ Len(asserted) \in Nat
        BY <1>2, <3>1
      <3>3. passed(pending - 1) = passed(pending) \cup {pending}
        BY <1>2, <2>4
      <3>4. \A k \in DOMAIN asserted : asserted[k] > pending
        BY <2>1
      <3> HIDE DEF passed
      <3>5. {asserted'[k] : k \in DOMAIN asserted'} = passed(pending - 1)
        BY <2>1, <3>2, <3>3
      <3>6. \A j, k \in DOMAIN asserted' : j < k => asserted'[j] > asserted'[k]
        BY <1>2, <2>1, <3>2, <3>4
      <3> QED  BY <3>5, <3>6
    <2> QED  BY <2>3, <2>4
  <1> QED  BY <1>5, <1>6, <1>7, <1>8, <1>9 DEF LedgerInv

(* A withdrawal moves one address: to nothing, or to an unfinished holding  *)
(* that keeps its record.                                                   *)
LEMMA RemovalEffect ==
    ASSUME BInv, NEW h \in Addresses, NEW object \in Objects, NEW policy,
           apply_removal(h, object, policy)
    PROVE  /\ \A g \in Addresses \ {h} : SameAt(g)
           /\ objects'[h] = None
           /\ h \notin failing => incomplete'[h] = None /\ grants'[h] = None
           /\ h \in failing => incomplete'[h] = object /\ grants'[h] = grants[h]
  <1>1. object # None
    BY NoneIsNoObject
  <1>2. objects'[h] = None
    BY <1>1 DEF BInv, TypeOK, AccountIsAccepted, apply_removal, release, selects
  <1>3. \A g \in Addresses \ {h} : SameAt(g)
    BY DEF BInv, TypeOK, apply_removal, release, withdrawn, fails_after_release, SameAt
  <1>4. CASE h \in failing
    BY <1>2, <1>3, <1>4 DEF BInv, TypeOK, apply_removal, withdrawn, fails_after_release
  <1>5. CASE h \notin failing
    BY <1>2, <1>3, <1>5 DEF BInv, TypeOK, apply_removal, withdrawn, fails_after_release
  <1> QED  BY <1>4, <1>5

LEMMA UndoStep ==
    ASSUME LedgerInv, BInv', call # None, pending > 0, Reversible(pending), Undo
    PROVE  LedgerInv'
  <1> DEFINE h == Top.address
  <1>1. /\ pending \in DOMAIN effects /\ pending \notin undone
        /\ h \in Addresses /\ Selected \in Objects /\ Selected = Top.object
        /\ Top.via \in Removals => Selected.owner = OwnerIn[began]
    BY AcceptedIsHeld DEF Undo
  <1>2. /\ \A g \in Addresses \ {h} : SameAt(g)
        /\ objects'[h] = None
        /\ h \notin failing => incomplete'[h] = None /\ grants'[h] = None
        /\ h \in failing => incomplete'[h] = Selected /\ grants'[h] = grants[h]
    BY <1>1, RemovalEffect DEF Undo, LedgerInv
  <1>3. /\ Len(effects) \in Nat /\ DOMAIN effects = 1..Len(effects)
        /\ pending \in Nat /\ phase # "open"
        /\ undone \subseteq DOMAIN effects
        /\ reopened \subseteq {i \in undone : Reversible(i)}
        /\ began \in Cells
    BY DEF LedgerInv, LedgerTypeOK
  <1>4. UNCHANGED <<effects, phase, began, asserted, reopened>>
    BY DEF Undo
  <1>5. \A i : Reversible(i)' <=> Reversible(i)
    BY <1>4 DEF Reversible
  <1>6. \A i \in DOMAIN effects : Reversible(i) /\ i # pending => SameAt(effects[i].address)
    BY <1>1, <1>2 DEF LedgerInv, LedgerTypeOK, AddressesDiffer, Top
  <1>7. AddressesDiffer'
    BY <1>4, <1>5 DEF LedgerInv, AddressesDiffer
  <1>8. CASE h \in failing
    <2>1. call' = None /\ UNCHANGED <<pending, undone>>
      BY <1>8 DEF Undo
    <2>2. LedgerTypeOK'
      BY <1>4, <1>5, <2>1 DEF LedgerInv, LedgerTypeOK
    <2>3. UndoneIsEmpty'
      BY <1>1, <1>3, <1>4, <1>5, <1>6, <2>1 DEF LedgerInv, UndoneIsEmpty, Empty, SameAt
    <2>4. CursorSplits' /\ RemovedFromBound' /\ StuckAfterUnseal' /\ AssertedOnce'
      BY <1>4, <1>5, <2>1
         DEF LedgerInv, CursorSplits, RemovedFromBound, StuckAfterUnseal, AssertedOnce
    <2>5. PendingIsHeld'
      <3> SUFFICES ASSUME NEW i \in DOMAIN effects, i \notin undone, Reversible(i)
                   PROVE  /\ SelectsNext(effects[i].address, effects[i].object)
                          /\ effects[i].via = "Backend" => grants'[effects[i].address] # None
        BY <1>4, <1>5, <2>1 DEF PendingIsHeld, selects, SelectsNext
      <3>1. CASE i = pending
        BY <1>1, <1>2, <1>8, <3>1 DEF SelectsNext, Top, Undo, Accepted
      <3>2. CASE i # pending
        BY <1>6, <3>2 DEF LedgerInv, PendingIsHeld, selects, SelectsNext, SameAt
      <3> QED  BY <3>1, <3>2
    <2> QED  BY <1>7, <2>2, <2>3, <2>4, <2>5 DEF LedgerInv
  <1>9. CASE h \notin failing
    <2>1. pending' = pending - 1 /\ undone' = undone \cup {pending} /\ UNCHANGED call
      BY <1>9 DEF Undo
    <2>2. LedgerTypeOK'
      BY <1>1, <1>3, <1>4, <1>5, <2>1 DEF LedgerInv, LedgerTypeOK
    <2>3. UndoneIsEmpty'
      <3> SUFFICES ASSUME NEW i \in undone \cup {pending}, Reversible(i)
                   PROVE  /\ objects'[effects[i].address] = None
                          /\ incomplete'[effects[i].address] = None
                          /\ grants'[effects[i].address] = None
        BY <1>4, <1>5, <2>1 DEF UndoneIsEmpty, Empty
      <3>1. CASE i = pending
        BY <1>2, <1>9, <3>1 DEF Top
      <3>2. CASE i # pending
        BY <1>3, <1>6, <3>2 DEF LedgerInv, UndoneIsEmpty, Empty, SameAt
      <3> QED  BY <3>1, <3>2
    <2>4. CursorSplits' /\ StuckAfterUnseal'
      BY <1>1, <1>3, <1>4, <1>5, <2>1, LedgerAssumption DEF LedgerInv, CursorSplits, StuckAfterUnseal
    <2>5. RemovedFromBound'
      BY <1>1, <1>3, <1>4, <2>1 DEF LedgerInv, RemovedFromBound, Top
    <2>6. PendingIsHeld'
      BY <1>4, <1>5, <1>6, <2>1 DEF LedgerInv, PendingIsHeld, selects, SameAt
    <2>7. AssertedOnce'
      <3>1. effects[pending].via \notin Outstanding
        BY DEF Reversible, Inverses, Outstanding
      <3>2. {i \in DOMAIN effects : i > pending - 1 /\ effects[i].via \in Outstanding}
              = {i \in DOMAIN effects : i > pending /\ effects[i].via \in Outstanding}
        BY <1>3, <3>1
      <3> QED  BY <1>3, <1>4, <2>1, <3>2 DEF LedgerInv, AssertedOnce
    <2> QED  BY <1>7, <2>2, <2>3, <2>4, <2>5, <2>6, <2>7 DEF LedgerInv
  <1> QED  BY <1>8, <1>9

LEMMA LedgerStep == LedgerInv /\ [LedgerNext]_vars => LedgerInv'
  <1> SUFFICES ASSUME LedgerInv, [LedgerNext]_vars PROVE LedgerInv'
    OBVIOUS
  <1>1. BInv'
    BY BackendKept
  <1>2. ASSUME NEW h \in Addresses, NEW object \in Objects, Bystander(h, object)
        PROVE  LedgerInv'
    BY <1>1, <1>2, GrantElsewhere, FreshIsElsewhere, ElsewhereStep DEF Bystander, LedgerInv
  <1>3. ASSUME ArmFault PROVE LedgerInv'
    <2>1. UNCHANGED account /\ UNCHANGED ledger
      BY <1>3 DEF ArmFault, Arm, mark_stuck, fail_next_withdrawal, stall_graceful_drains_for_owner,
                  fail_before_effect_for_owner, fail_after_effect_for_owner
    <2>2. \A g : SameAt(g)
      BY <2>1 DEF account, SameAt
    <2> QED  BY <1>1, <2>1, <2>2, ElsewhereStep
  <1>4. ASSUME replay PROVE LedgerInv'
    BY <1>1, <1>4, UndoStep, CallStep, PassOverStep DEF replay
  <1>5. ASSUME UNCHANGED vars PROVE LedgerInv'
    <2>1. UNCHANGED ledger /\ \A g : SameAt(g)
      BY <1>5 DEF vars, backend, account, SameAt
    <2> QED  BY <1>1, <2>1, ElsewhereStep
  <1> QED
    BY <1>1, <1>2, <1>3, <1>4, <1>5, AnyPush, CallStep DEF LedgerNext, Removals

(* The inductive invariant of the ledger on its backend.                    *)
THEOREM LedgerInvariant == LedgerSpec => []LedgerInv
  BY LedgerInitInv, LedgerStep, PTL DEF LedgerSpec

(* A detach that has replayed every effect, over however many calls and     *)
(* whatever failed in between, left nothing of any of them, asserted each   *)
(* outstanding one once and removed the objects of one owner only.          *)
THEOREM ExactDetach == LedgerSpec => []DetachIsExact
  <1>1. LedgerInv => DetachIsExact
    <2> SUFFICES ASSUME LedgerInv PROVE ExactReversal /\ OneOwnerPerDetach
      BY DEF DetachIsExact
    <2>1. ExactReversal
      <3>1. ASSUME phase = "sealed", pending = 0, NEW i \in DOMAIN effects, Reversible(i)
            PROVE  Empty(effects[i].address)
        <4>1. i \in undone
          BY <3>1 DEF LedgerInv, LedgerTypeOK, CursorSplits
        <4> QED  BY <3>1, <4>1 DEF LedgerInv, UndoneIsEmpty
      <3> QED  BY <3>1 DEF LedgerInv, ExactReversal
    <2>2. OneOwnerPerDetach
      BY DEF LedgerInv, RemovedFromBound, Removals, OneOwnerPerDetach
    <2> QED  BY <2>1, <2>2
  <1> QED  BY <1>1, LedgerInvariant, PTL

(* Wherever a detach stopped, what is not undone is still there for its     *)
(* inverse, and a reclosed ledger never passes what was undone before.      *)
THEOREM ResumableDetach == LedgerSpec => []Resumable
  <1>1. LedgerInv => Resumable
    BY DEF LedgerInv, Resumable
  <1> QED  BY <1>1, LedgerInvariant, PTL

(* The ledger, its host and the bystanders drive the backend only through   *)
(* its operations: the composition implements the backend's specification,  *)
(* so the backend's own theorems hold of it.                                *)
THEOREM LedgerUsesBackend == LedgerSpec => Spec
  <1>1. LedgerInit => Init
    BY DEF LedgerInit
  <1> QED  BY <1>1, StepsOfBackend, LedgerInvariant, PTL DEF LedgerSpec, Spec

(* While a detach call runs, the row of an address changes only under the   *)
(* cursor.                                                                  *)
LEMMA OwnStep ==
    ASSUME LedgerInv, [LedgerNext]_vars, call # None, NEW k \in Addresses, row(k)' # row(k)
    PROVE  /\ pending > 0 /\ k = Top.address
           /\ Top.via = "Backend" \/ row(k).owner = OwnerIn[began]
  <1>1. phase # "open"
    BY DEF LedgerInv, LedgerTypeOK
  <1>2. ASSUME UNCHANGED backend PROVE FALSE
    BY <1>2 DEF backend, account, row
  <1>3. pending > 0 /\ Reversible(pending) /\ Undo
    BY <1>1, <1>2
       DEF LedgerNext, PushGranted, PushApplied, PushForeign, PushOutbox, push, Bystander, ArmFault,
           close, detach, Report, unseal, replay, Refuse, PassOver, vars
  <1>4. /\ Top.address \in Addresses /\ Selected \in Objects
        /\ row(Top.address) = Selected
        /\ Top.via \in Removals => Selected.owner = OwnerIn[began]
    BY <1>3, AcceptedIsHeld DEF Undo
  <1>5. \A g \in Addresses \ {Top.address} : SameAt(g)
    BY <1>3, <1>4, RemovalEffect DEF Undo, LedgerInv
  <1>6. k = Top.address
    BY <1>5 DEF row, SameAt
  <1>7. Top.via = "Backend" \/ Top.via \in Removals
    BY <1>3 DEF Reversible, Top, Inverses, Removals
  <1> QED  BY <1>3, <1>4, <1>6, <1>7

(* A detach touches nothing but the holding under its cursor, and there     *)
(* only what was granted by handle or belongs to the plugin in the bound    *)
(* cell; and no holding changes hands in place.                             *)
THEOREM NothingElse == LedgerSpec => NothingElseMoves
  <1>1. LedgerInv /\ [LedgerNext]_vars =>
          [call # None =>
             \A h \in Addresses :
               row(h)' # row(h) =>
                 /\ pending > 0 /\ h = Top.address
                 /\ Top.via = "Backend" \/ row(h).owner = OwnerIn[began]]_vars
    BY OwnStep
  <1>2. LedgerSpec => OnlyItsOwn
    BY <1>1, LedgerInvariant, PTL DEF LedgerSpec, OnlyItsOwn
  <1> QED  BY <1>2, LedgerUsesBackend, HandsTheorem, PTL DEF NothingElseMoves

----------------------------------------------------------------------------
(* Paged observations implement atomic ones.  PInv is the inductive         *)
(* invariant that the steps are mapped under.                               *)

Cursors == [snapshot : Nat, offset : Nat]
Causes == {"Expired", "Collect", "SnapshotsExhausted", "InvalidCursor", "UnknownSnapshot", "ScopeChanged",
           "OffsetOutOfRange"}
Refusals == [error : Causes]
Captures == [snapshot : Nat, scope : Scopes, account : Records, expires : Nat]

Callings == [phase : {"idle", "sent", "replied", "gone"}, cursor : Cursors, expires : Nat,
             reply : Pages \cup Refusals \cup {Nothing}, started : Starts \cup {Nothing},
             buffer : Seq(Bytes), told : Records \cup {Nothing}]

PagingTypeOK ==
    /\ accounts \in [Scopes -> Records]
    /\ now \in Nat
    /\ slot \in [last : Nat, current : Captures \cup {Nothing},
                 ended : [snapshot : Nat, scope : Scopes] \cup {Nothing}]
    /\ serving \in [by : Callers \cup {Nothing}, expires : Nat, frozen : Records \cup {Nothing}]
    /\ caller \in [Callers -> Callings]

(* A caller was told something only while it asks nothing, has a reply only *)
(* until it reads it, and asks for a page after the first exactly when it   *)
(* has the first.                                                           *)
CallerOK(a) ==
    /\ a.phase # "idle" => a.told = Nothing
    /\ a.phase = "sent" => a.reply = Nothing /\ (a.cursor = START <=> a.started = Nothing)
    /\ a.phase = "replied" => a.reply \in Pages \cup Refusals
    /\ a.phase \in {"idle", "gone"} => a.started = Nothing /\ a.reply = Nothing

(* What is being collected is for a caller that asked for a first page.     *)
ServingOK ==
    serving # Idle => /\ serving.by \in Callers
                      /\ caller[serving.by].phase \in {"sent", "gone"}
                      /\ caller[serving.by].cursor = START

PInv == PagingTypeOK /\ (\A c \in Callers : CallerOK(caller[c])) /\ ServingOK

----------------------------------------------------------------------------

(* Pages and what keeps their shape.                                        *)
LEMMA PageAtIsPage ==
    ASSUME NEW k \in Captures, NEW offset \in Nat PROVE page_at(k, offset) \in Pages
  <1> DEFINE end == Min2(Len(k.account), offset + PageBytes)
  <1>1. k.account \in Seq(Bytes) /\ k.account \in Records /\ k.snapshot \in Nat
    BY PagingAssumption DEF Captures
  <1>2. end \in Nat /\ end <= Len(k.account) /\ Len(k.account) \in Nat
    BY <1>1, PagingAssumption DEF Min2
  <1>3. SubSeq(k.account, offset + 1, end) \in Seq(Bytes)
    <2>1. \A i \in (offset + 1)..end : i \in 1..Len(k.account)
      BY <1>2
    <2> QED  BY <2>1, <1>1, <1>2
  <1> QED  BY <1>1, <1>2, <1>3 DEF page_at, Pages

LEMMA AlteredIsPage ==
    ASSUME NEW p \in Pages, NEW first \in BOOLEAN, NEW q \in Altered(p, first)
    PROVE  q \in Pages /\ (first => q.sha256 = p.sha256)
  <1>1. \A n \in Nat : [p EXCEPT !.snapshot = n] \in Pages /\ [p EXCEPT !.snapshot = n].sha256 = p.sha256
    BY DEF Pages
  <1>2. \A n \in Nat : [p EXCEPT !.offset = n] \in Pages /\ [p EXCEPT !.offset = n].sha256 = p.sha256
    BY DEF Pages
  <1>3. \A n \in Nat, b \in BOOLEAN : /\ [p EXCEPT !.total = n, !.complete = b] \in Pages
                                     /\ [p EXCEPT !.total = n, !.complete = b].sha256 = p.sha256
    BY DEF Pages
  <1>4. \A b \in Seq(Bytes) : [p EXCEPT !.bytes = b] \in Pages /\ [p EXCEPT !.bytes = b].sha256 = p.sha256
    BY DEF Pages
  <1>5. \A r \in Records : [p EXCEPT !.sha256 = r] \in Pages
    BY DEF Pages
  <1>6. 0..MaxSnapshot \subseteq Nat /\ 0..MaxOffset \subseteq Nat
    BY PagingAssumption
  <1>7. UNION {[1..n -> Bytes] : n \in 0..(MaxPageBytes + 1)} \subseteq Seq(Bytes)
    <2>1. ASSUME NEW n \in 0..(MaxPageBytes + 1), NEW b \in [1..n -> Bytes] PROVE b \in Seq(Bytes)
      BY PagingAssumption
    <2> QED  BY <2>1
  <1>8. CASE q \in {[p EXCEPT !.snapshot = n] : n \in 0..MaxSnapshot}
    <2>1. PICK n \in 0..MaxSnapshot : q = [p EXCEPT !.snapshot = n]
      BY <1>8
    <2>2. n \in Nat
      BY <1>6
    <2> QED  BY ONLY <2>1, <2>2, <1>1
  <1>9. CASE q \in {[p EXCEPT !.offset = n] : n \in 0..MaxOffset}
    <2>1. PICK n \in 0..MaxOffset : q = [p EXCEPT !.offset = n]
      BY <1>9
    <2>2. n \in Nat
      BY <1>6
    <2> QED  BY ONLY <2>1, <2>2, <1>2
  <1>10. CASE q \in {[p EXCEPT !.total = e[1], !.complete = e[2]] : e \in (0..MaxOffset) \X BOOLEAN}
    <2>1. PICK e \in (0..MaxOffset) \X BOOLEAN : q = [p EXCEPT !.total = e[1], !.complete = e[2]]
      BY <1>10
    <2>2. e[1] \in Nat /\ e[2] \in BOOLEAN
      BY <1>6
    <2> QED  BY ONLY <2>1, <2>2, <1>3
  <1>11. CASE q \in {[p EXCEPT !.bytes = b] : b \in UNION {[1..n -> Bytes] : n \in 0..(MaxPageBytes + 1)}}
    <2>1. PICK b \in UNION {[1..n -> Bytes] : n \in 0..(MaxPageBytes + 1)} : q = [p EXCEPT !.bytes = b]
      BY <1>11
    <2>2. b \in Seq(Bytes)
      BY <1>7
    <2> QED  BY ONLY <2>1, <2>2, <1>4
  <1>12. CASE ~first /\ q \in {[p EXCEPT !.sha256 = r] : r \in Records}
    <2>1. PICK r \in Records : q = [p EXCEPT !.sha256 = r]
      BY <1>12
    <2> QED  BY ONLY <2>1, <1>5, <1>12
  <1> DEFINE A == {[p EXCEPT !.snapshot = n] : n \in 0..MaxSnapshot}
             B == {[p EXCEPT !.offset = n] : n \in 0..MaxOffset}
             C == {[p EXCEPT !.total = e[1], !.complete = e[2]] : e \in (0..MaxOffset) \X BOOLEAN}
             D == {[p EXCEPT !.bytes = b] : b \in UNION {[1..n -> Bytes] : n \in 0..(MaxPageBytes + 1)}}
             E == {[p EXCEPT !.sha256 = r] : r \in Records}
  <1>13. Altered(p, first) = A \cup B \cup C \cup D \cup (IF first THEN {} ELSE E)
    BY DEF Altered
  <1>14. /\ q \in A \cup B \cup C \cup D => q \in Pages /\ (first => q.sha256 = p.sha256)
         /\ ~first /\ q \in E => q \in Pages /\ (first => q.sha256 = p.sha256)
    BY <1>8, <1>9, <1>10, <1>11, <1>12
  <1> HIDE DEF A, B, C, D, E
  <1> QED  BY <1>13, <1>14

(* A reply is a page or a refusal, never both.                              *)
LEMMA ErrorOrPage ==
    /\ \A p \in Pages : "error" \notin DOMAIN p
    /\ \A r \in Refusals : "error" \in DOMAIN r
  BY DEF Pages, Refusals

LEMMA RefusalIs ==
    ASSUME NEW s \in Causes PROVE Refusal(s) \in Pages \cup Refusals /\ Refusal(s) \notin Pages
  <1>1. Refusal(s) \in Refusals
    BY DEF Refusals, Refusal
  <1> QED  BY <1>1, ErrorOrPage

----------------------------------------------------------------------------

(* A caller that asks nothing.                                              *)
LEMMA UnaskedOK ==
    /\ Unasked \in Callings /\ CallerOK(Unasked)
    /\ Unasked.phase = "idle" /\ Unasked.cursor = START /\ Unasked.reply = Nothing
    /\ Unasked.started = Nothing /\ Unasked.told = Nothing
  BY DEF Unasked, Callings, CallerOK, Cursors, START

(* The connection carries a reply to a caller that waits.                   *)
LEMMA ReplyEffect ==
    ASSUME PInv, NEW c \in Callers, caller[c].phase \in {"sent", "gone"},
           NEW r \in Pages \cup Refusals, Reply(c, r)
    PROVE  /\ caller' \in [Callers -> Callings]
           /\ \A d \in Callers : CallerOK(caller'[d])
           /\ \A d \in Callers \ {c} : caller'[d] = caller[d]
           /\ caller[c].phase = "gone" => caller'[c] = Unasked
           /\ caller[c].phase = "sent" => /\ caller'[c].phase = "replied" /\ caller'[c].reply = r
                                          /\ caller'[c].started = caller[c].started
                                          /\ caller'[c].told = caller[c].told
  <1> DEFINE a == caller[c]
             b == [a EXCEPT !.phase = "replied", !.reply = r, !.cursor = START, !.expires = 0]
  <1>1. a \in Callings /\ CallerOK(a)
    BY DEF PInv, PagingTypeOK
  <1>2. /\ b \in Callings /\ b.phase = "replied" /\ b.reply = r
        /\ b.started = a.started /\ b.told = a.told
    BY <1>1 DEF Callings, Cursors, START
  <1>3. a.phase = "sent" => CallerOK(b)
    BY <1>1, <1>2 DEF CallerOK
  <1>4. caller' = [caller EXCEPT ![c] = IF a.phase = "gone" THEN Unasked ELSE b]
    BY DEF Reply
  <1>5. caller \in [Callers -> Callings] /\ \A d \in Callers : CallerOK(caller[d])
    BY DEF PInv, PagingTypeOK
  <1> HIDE DEF a, b
  <1>6. caller'[c] = IF a.phase = "gone" THEN Unasked ELSE b
    BY <1>4, <1>5
  <1>7. \A d \in Callers \ {c} : caller'[d] = caller[d]
    BY <1>4, <1>5
  <1>8. caller'[c] \in Callings /\ CallerOK(caller'[c])
    BY <1>2, <1>3, <1>6, UnaskedOK DEF a
  <1>9. caller' \in [Callers -> Callings]
    BY <1>4, <1>5, <1>6, <1>8
  <1>10. \A d \in Callers : CallerOK(caller'[d])
    BY <1>5, <1>7, <1>8
  <1> QED  BY <1>2, <1>6, <1>7, <1>9, <1>10 DEF a
----------------------------------------------------------------------------
(* What the callers of AtomicObservation see of a step.                     *)

SameView(c) ==
    /\ Asked(c)' <=> Asked(c)
    /\ Observed(c)' = Observed(c)
    /\ caller'[c].told = caller[c].told

AskView(c) ==
    /\ ~Asked(c) /\ Asked(c)'
    /\ Observed(c)' = Observed(c)
    /\ caller'[c].told = Nothing

ObserveView(c) ==
    /\ Asked(c) /\ Asked(c)'
    /\ Observed(c) = Nothing /\ Observed(c)' = accounts[Scope[c]]
    /\ caller'[c].told = caller[c].told

EndView(c) ==
    /\ Asked(c) /\ ~Asked(c)'
    /\ Observed(c)' = Nothing
    /\ caller'[c].told \in {Nothing, Observed(c)}

(* A step that no caller sees.                                              *)
LEMMA Unseen ==
    ASSUME accounts' = accounts, \A c \in Callers : SameView(c)
    PROVE  UNCHANGED Atomic!vars
  <1>1. [c \in Callers |-> Asked(c)]' = [c \in Callers |-> Asked(c)]
    BY Zenon DEF SameView, Asked
  <1>2. [c \in Callers |-> Observed(c)]' = [c \in Callers |-> Observed(c)]
    BY Zenon DEF SameView
  <1>3. [c \in Callers |-> caller[c].told]' = [c \in Callers |-> caller[c].told]
    BY Zenon DEF SameView
  <1> QED  BY <1>1, <1>2, <1>3 DEF Atomic!vars

(* A function that differs from another at one place.                       *)
LEMMA OnlyAt ==
    ASSUME NEW S, NEW f, NEW g, f = [d \in S |-> f[d]], g = [d \in S |-> g[d]],
           NEW c \in S, \A d \in S \ {c} : g[d] = f[d]
    PROVE  g = [f EXCEPT ![c] = g[c]]
  OBVIOUS

(* A step that one caller sees.                                             *)
LEMMA Seen ==
    ASSUME NEW c \in Callers, accounts' = accounts, \A d \in Callers \ {c} : SameView(d),
           AskView(c) \/ ObserveView(c) \/ EndView(c)
    PROVE  Atomic!Next
  <1> DEFINE asked == [d \in Callers |-> Asked(d)]
             kept == [d \in Callers |-> Observed(d)]
             answer == [d \in Callers |-> caller[d].told]
  <1>1. /\ asked = [d \in Callers |-> asked[d]] /\ asked' = [d \in Callers |-> asked'[d]]
        /\ kept = [d \in Callers |-> kept[d]] /\ kept' = [d \in Callers |-> kept'[d]]
        /\ answer = [d \in Callers |-> answer[d]] /\ answer' = [d \in Callers |-> answer'[d]]
    BY Zenon
  <1>2. \A d \in Callers \ {c} : asked'[d] = asked[d]
    BY Zenon DEF SameView, Asked
  <1>3. \A d \in Callers \ {c} : kept'[d] = kept[d] /\ answer'[d] = answer[d]
    BY Zenon DEF SameView
  <1>4. /\ asked[c] = Asked(c) /\ asked'[c] = Asked(c)'
        /\ kept[c] = Observed(c) /\ kept'[c] = Observed(c)'
        /\ answer[c] = caller[c].told /\ answer'[c] = caller'[c].told
    BY Zenon
  <1> HIDE DEF asked, kept, answer
  <1>5. /\ asked' = [asked EXCEPT ![c] = asked'[c]]
        /\ kept' = [kept EXCEPT ![c] = kept'[c]]
        /\ answer' = [answer EXCEPT ![c] = answer'[c]]
    BY <1>1, <1>2, <1>3, OnlyAt
  <1>6. CASE AskView(c)
    <2>1. kept'[c] = kept[c]
      BY <1>4, <1>6 DEF AskView
    <2>2. kept' = kept
      BY <1>5, <1>1, <2>1
    <2>3. asked'[c] = TRUE /\ ~asked[c]
      BY <1>4, <1>6, Zenon DEF AskView, Asked
    <2>4. Atomic!Ask(c)
      BY <1>4, <1>5, <1>6, <2>2, <2>3 DEF Atomic!Ask, AskView, asked, kept, answer
    <2> QED  BY <2>4 DEF Atomic!Next
  <1>7. CASE ObserveView(c)
    <2>1. asked'[c] = asked[c] /\ asked[c]
      BY <1>4, <1>7, Zenon DEF ObserveView, Asked
    <2>2. asked' = asked
      BY <1>5, <1>1, <2>1
    <2>3. answer'[c] = answer[c]
      BY <1>4, <1>7 DEF ObserveView
    <2>4. answer' = answer
      BY <1>5, <1>1, <2>3
    <2>5. Atomic!Observe(c)
      BY <1>4, <1>5, <1>7, <2>1, <2>2, <2>4 DEF Atomic!Observe, ObserveView, asked, kept, answer
    <2> QED  BY <2>5 DEF Atomic!Next
  <1>8. CASE EndView(c)
    <2>1. asked'[c] = FALSE /\ asked[c]
      BY <1>4, <1>8, Zenon DEF EndView, Asked
    <2>2. kept'[c] = Nothing
      BY <1>4, <1>8 DEF EndView
    <2>4. CASE answer'[c] = Nothing
      <3>1. Atomic!End(c, Nothing)
        BY <1>5, <2>1, <2>2, <2>4 DEF Atomic!End, asked, kept, answer
      <3> QED  BY <3>1, Zenon DEF Atomic!Fail, Atomic!Next
    <2>5. CASE answer'[c] # Nothing /\ answer'[c] = kept[c]
      <3>1. Atomic!Answer(c)
        BY <1>5, <2>1, <2>2, <2>5 DEF Atomic!Answer, Atomic!End, asked, kept, answer
      <3> QED  BY <3>1 DEF Atomic!Next
    <2> QED  BY <1>4, <1>8, <2>4, <2>5 DEF EndView
  <1> QED  BY <1>6, <1>7, <1>8

(* A caller that a step leaves alone sees the same, unless the step is on   *)
(* its own capture.                                                         *)
LEMMA Apart ==
    ASSUME NEW d \in Callers, caller'[d] = caller[d],
           serving' = serving \/ (serving.by # d /\ serving'.by # d)
    PROVE  SameView(d)
  BY DEF SameView, Asked, Observed
(* A caller sees of a reply only that it is refused.                        *)
LEMMA ReplySeen ==
    ASSUME PInv, NEW c \in Callers, caller[c].phase \in {"sent", "gone"},
           NEW r \in Pages \cup Refusals, Reply(c, r),
           accounts' = accounts,
           serving' = Idle, serving = Idle \/ serving.by = c,
           r \in Pages /\ caller[c].started = Nothing /\ caller[c].phase = "sent" =>
               serving.by = c /\ serving.frozen = r.sha256
    PROVE  Atomic!Next \/ UNCHANGED Atomic!vars
  <1>1. /\ \A d \in Callers \ {c} : caller'[d] = caller[d]
        /\ caller[c].phase = "gone" => caller'[c] = Unasked
        /\ caller[c].phase = "sent" => /\ caller'[c].phase = "replied" /\ caller'[c].reply = r
                                       /\ caller'[c].started = caller[c].started
                                       /\ caller'[c].told = caller[c].told
    BY ReplyEffect
  <1>2. CallerOK(caller[c]) /\ caller[c] \in Callings
    BY DEF PInv, PagingTypeOK
  <1>3. Nothing \notin Callers /\ Nothing \notin Pages /\ Nothing \notin Starts
    BY PagingAssumption
  <1>4. \A d \in Callers \ {c} : SameView(d)
    BY <1>1, <1>3, Apart DEF Idle
  <1>5. CASE caller[c].phase = "gone"
    <2>1. SameView(c)
      BY <1>1, <1>2, <1>5 DEF SameView, Asked, Observed, CallerOK, Unasked
    <2> QED  BY <1>4, <2>1, Unseen
  <1>6. CASE caller[c].phase = "sent" /\ r \in Pages
    <2>1. Asked(c) /\ Asked(c)'
      BY <1>1, <1>6, ErrorOrPage DEF Asked
    <2>2. caller[c].reply = Nothing /\ r # Nothing
      BY <1>2, <1>3, <1>6 DEF CallerOK
    <2>3. Observed(c)' = IF caller[c].started # Nothing THEN caller[c].started.sha256 ELSE r.sha256
      BY <1>1, <1>6, <2>1, <2>2 DEF Observed
    <2>4. Observed(c) = Observed(c)'
      BY <1>6, <2>1, <2>2, <2>3 DEF Observed
    <2>5. SameView(c)
      BY <1>1, <1>6, <2>1, <2>4 DEF SameView
    <2> QED  BY <1>4, <2>5, Unseen
  <1>7. CASE caller[c].phase = "sent" /\ r \in Refusals
    <2>1. Asked(c) /\ ~Asked(c)'
      BY <1>1, <1>7, ErrorOrPage DEF Asked
    <2>2. EndView(c)
      BY <1>1, <1>2, <1>7, <2>1 DEF EndView, Observed, CallerOK
    <2> QED  BY <1>4, <2>2, Seen
  <1> QED  BY <1>5, <1>6, <1>7

(* The steps, one by one: each keeps PInv and is one of AtomicObservation, or none.*)
LEMMA captureStep ==
    ASSUME PInv, NEW c \in Callers, capture(c)
    PROVE  PInv' /\ (Atomic!Next \/ UNCHANGED Atomic!vars)
  <1>1. /\ caller[c].phase \in {"sent", "gone"} /\ serving = Idle /\ caller[c].cursor = START
        /\ accounts' = accounts /\ now' = now
        /\ slot' = [slot EXCEPT !.current = Nothing, !.ended = Nothing]
    BY DEF capture, Waiting
  <1>2. slot' \in [last : Nat, current : Captures \cup {Nothing},
                   ended : [snapshot : Nat, scope : Scopes] \cup {Nothing}]
    BY <1>1 DEF PInv, PagingTypeOK
  <1>3. CASE Reply(c, Refusal("Expired")) /\ UNCHANGED serving
    <2>1. Refusal("Expired") \in Pages \cup Refusals /\ Refusal("Expired") \notin Pages
      BY RefusalIs DEF Causes
    <2>2. /\ caller' \in [Callers -> Callings]
          /\ \A d \in Callers : CallerOK(caller'[d])
      BY <1>1, <1>3, <2>1, ReplyEffect
    <2>3. PInv'
      BY <1>1, <1>2, <1>3, <2>2 DEF PInv, PagingTypeOK, ServingOK
    <2>4. Atomic!Next \/ UNCHANGED Atomic!vars
      BY <1>1, <1>3, <2>1, ReplySeen
    <2> QED  BY <2>3, <2>4
  <1>4. CASE /\ serving' = [by |-> c, expires |-> caller[c].expires, frozen |-> Nothing]
             /\ UNCHANGED caller
    <2>1. caller[c] \in Callings /\ CallerOK(caller[c])
      BY DEF PInv, PagingTypeOK
    <2>2. serving' \in [by : Callers \cup {Nothing}, expires : Nat, frozen : Records \cup {Nothing}]
      BY <1>4, <2>1 DEF Callings
    <2>3. ServingOK'
      BY <1>1, <1>4 DEF ServingOK
    <2>4. PInv'
      BY <1>1, <1>2, <1>4, <2>2, <2>3 DEF PInv, PagingTypeOK
    <2>5. \A d \in Callers \ {c} : SameView(d)
      BY <1>1, <1>4, Apart, PagingAssumption DEF Idle
    <2>6. SameView(c)
      BY <1>1, <1>4, <2>1, PagingAssumption DEF SameView, Asked, Observed, Idle, CallerOK
    <2> QED  BY <1>1, <2>4, <2>5, <2>6, Unseen
  <1> QED  BY <1>3, <1>4 DEF capture

LEMMA collectStep ==
    ASSUME PInv, collect
    PROVE  PInv' /\ (Atomic!Next \/ UNCHANGED Atomic!vars)
  <1> DEFINE c == serving.by
  <1>1. /\ serving # Idle /\ serving.frozen = Nothing
        /\ accounts' = accounts /\ now' = now /\ slot' = slot
    BY DEF collect
  <1>2. c \in Callers /\ caller[c].phase \in {"sent", "gone"} /\ caller[c].cursor = START
    BY <1>1 DEF PInv, ServingOK
  <1>3. caller[c] \in Callings /\ CallerOK(caller[c])
    BY <1>2 DEF PInv, PagingTypeOK
  <1>4. CASE serving' = [serving EXCEPT !.frozen = accounts[Scope[c]]] /\ UNCHANGED caller
    <2>1. accounts[Scope[c]] \in Records
      BY <1>2, PagingAssumption DEF PInv, PagingTypeOK
    <2>2. /\ serving' \in [by : Callers \cup {Nothing}, expires : Nat, frozen : Records \cup {Nothing}]
          /\ serving'.by = c /\ serving'.frozen = accounts[Scope[c]]
      BY <1>2, <1>4, <2>1 DEF PInv, PagingTypeOK
    <2>3. ServingOK'
      BY <1>2, <1>4, <2>2 DEF ServingOK
    <2>4. PInv'
      BY <1>1, <1>4, <2>2, <2>3 DEF PInv, PagingTypeOK
    <2>5. \A d \in Callers \ {c} : SameView(d)
      BY <1>4, <2>2, Apart
    <2>6. CASE caller[c].phase = "gone"
      <3>1. SameView(c)
        BY <1>4, <2>6 DEF SameView, Asked, Observed
      <3> QED  BY <1>1, <2>4, <2>5, <3>1, Unseen
    <2>7. CASE caller[c].phase = "sent"
      <3>1. ObserveView(c)
        BY <1>1, <1>2, <1>3, <1>4, <2>2, <2>7 DEF ObserveView, Asked, Observed, CallerOK
      <3> QED  BY <1>1, <1>2, <2>4, <2>5, <3>1, Seen
    <2> QED  BY <1>2, <2>6, <2>7
  <1>5. CASE serving' = Idle /\ Reply(c, Refusal("Collect"))
    <2>1. Refusal("Collect") \in Pages \cup Refusals /\ Refusal("Collect") \notin Pages
      BY RefusalIs DEF Causes
    <2>2. /\ caller' \in [Callers -> Callings]
          /\ \A d \in Callers : CallerOK(caller'[d])
      BY <1>2, <1>5, <2>1, ReplyEffect
    <2>3. Idle \in [by : Callers \cup {Nothing}, expires : Nat, frozen : Records \cup {Nothing}]
      BY DEF Idle
    <2>4. PInv'
      BY <1>1, <1>5, <2>2, <2>3 DEF PInv, PagingTypeOK, ServingOK
    <2>5. Atomic!Next \/ UNCHANGED Atomic!vars
      BY <1>1, <1>2, <1>5, <2>1, ReplySeen
    <2> QED  BY <2>4, <2>5
  <1> QED  BY <1>4, <1>5 DEF collect

(* The CaptureSlot.                                                         *)
SlotType == [last : Nat, current : Captures \cup {Nothing},
             ended : [snapshot : Nat, scope : Scopes] \cup {Nothing}]

LEMMA capture_collectedStep ==
    ASSUME PInv, capture_collected
    PROVE  PInv' /\ (Atomic!Next \/ UNCHANGED Atomic!vars)
  <1> DEFINE c == serving.by
             held == [snapshot |-> slot.last + 1, scope |-> Scope[c],
                      account |-> serving.frozen, expires |-> serving.expires]
  <1>1. /\ serving # Idle /\ serving.frozen # Nothing /\ serving' = Idle
        /\ accounts' = accounts /\ now' = now
    BY DEF capture_collected
  <1>2. c \in Callers /\ caller[c].phase \in {"sent", "gone"} /\ caller[c].cursor = START
    BY <1>1 DEF PInv, ServingOK
  <1>3. PICK r \in Pages \cup Refusals :
           /\ Reply(c, r) /\ slot' \in SlotType
           /\ r \in Pages => r.sha256 = serving.frozen
    <2>1. CASE Reply(c, Refusal("Expired")) /\ UNCHANGED slot
      BY <2>1, RefusalIs DEF Causes, PInv, PagingTypeOK, SlotType
    <2>2. CASE Reply(c, Refusal("SnapshotsExhausted")) /\ UNCHANGED slot
      BY <2>2, RefusalIs DEF Causes, PInv, PagingTypeOK, SlotType
    <2>3. CASE Reply(c, page_at(held, 0)) /\ slot' = [slot EXCEPT !.last = @ + 1, !.current = held]
      <3>1. held \in Captures
        BY <1>1, <1>2, PagingAssumption DEF PInv, PagingTypeOK, Captures
      <3>2. page_at(held, 0) \in Pages /\ page_at(held, 0).sha256 = serving.frozen
        BY <3>1, PageAtIsPage DEF page_at
      <3>3. slot' \in SlotType
        <4>1. slot \in SlotType
          BY DEF PInv, PagingTypeOK, SlotType
        <4>2. \A n \in Nat, k \in Captures : [slot EXCEPT !.last = n, !.current = k] \in SlotType
          BY <4>1 DEF SlotType
        <4>3. slot.last + 1 \in Nat
          BY <4>1 DEF SlotType
        <4> HIDE DEF held
        <4> QED  BY <2>3, <3>1, <4>2, <4>3
      <3> QED  BY <2>3, <3>2, <3>3
    <2> QED  BY <2>1, <2>2, <2>3 DEF capture_collected
  <1>4. /\ caller' \in [Callers -> Callings]
        /\ \A d \in Callers : CallerOK(caller'[d])
    BY <1>2, <1>3, ReplyEffect
  <1>5. Idle \in [by : Callers \cup {Nothing}, expires : Nat, frozen : Records \cup {Nothing}]
    BY DEF Idle
  <1>6. PInv'
    BY <1>1, <1>3, <1>4, <1>5 DEF PInv, PagingTypeOK, ServingOK, SlotType
  <1>7. Atomic!Next \/ UNCHANGED Atomic!vars
    BY <1>1, <1>2, <1>3, ReplySeen
  <1> QED  BY <1>6, <1>7

LEMMA pageStep ==
    ASSUME PInv, NEW c \in Callers, page(c)
    PROVE  PInv' /\ (Atomic!Next \/ UNCHANGED Atomic!vars)
  <1> DEFINE snapshot == caller[c].cursor.snapshot
             offset == caller[c].cursor.offset
             held == slot.current
             lowered == [held EXCEPT !.expires = Min2(@, caller[c].expires)]
  <1>1. /\ caller[c].phase \in {"sent", "gone"} /\ serving = Idle /\ caller[c].cursor # START
        /\ accounts' = accounts /\ now' = now /\ serving' = serving
    BY DEF page, Waiting
  <1>2. caller[c] \in Callings /\ CallerOK(caller[c]) /\ slot \in SlotType
    BY DEF PInv, PagingTypeOK, SlotType
  <1>3. Ended(slot) \in SlotType
    BY <1>2 DEF Ended, SlotType, Captures
  <1>4. PICK r \in Pages \cup Refusals : Reply(c, r) /\ slot' \in SlotType
    <2>1. CASE \E cause \in Causes : Reply(c, Refusal(cause)) /\ slot' \in {slot, Ended(slot)}
      BY <1>2, <1>3, <2>1, RefusalIs
    <2>2. CASE /\ held # Nothing
               /\ Reply(c, Refusal("OffsetOutOfRange")) \/ Reply(c, page_at(held, offset))
               /\ slot' = [slot EXCEPT !.current = lowered]
      <3>1. held \in Captures /\ offset \in Nat /\ caller[c].expires \in Nat
        BY <1>2, <2>2 DEF SlotType, Callings, Cursors
      <3>2. lowered \in Captures
        BY <3>1 DEF Captures, Min2
      <3>3. slot' \in SlotType
        <4>1. \A k \in Captures : [slot EXCEPT !.current = k] \in SlotType
          BY <1>2 DEF SlotType
        <4> HIDE DEF lowered
        <4> QED  BY <2>2, <3>2, <4>1
      <3>4. page_at(held, offset) \in Pages
        BY <3>1, PageAtIsPage
      <3>5. Refusal("OffsetOutOfRange") \in Pages \cup Refusals
        BY RefusalIs DEF Causes
      <3> QED  BY <2>2, <3>3, <3>4, <3>5
    <2> QED  BY <2>1, <2>2 DEF page, Causes
  <1>5. /\ caller' \in [Callers -> Callings]
        /\ \A d \in Callers : CallerOK(caller'[d])
    BY <1>1, <1>4, ReplyEffect
  <1>6. PInv'
    BY <1>1, <1>4, <1>5 DEF PInv, PagingTypeOK, ServingOK, SlotType
  <1>7. caller[c].phase = "sent" => caller[c].started # Nothing
    BY <1>1, <1>2 DEF CallerOK
  <1>8. Atomic!Next \/ UNCHANGED Atomic!vars
    BY <1>1, <1>4, <1>7, ReplySeen
  <1> QED  BY <1>6, <1>8

(* Steps that leave the callers and what is collected alone.                *)
LEMMA SlotStep ==
    ASSUME PInv, expire \/ discard \/ Tick \/ UNCHANGED pagingVars
    PROVE  PInv' /\ (Atomic!Next \/ UNCHANGED Atomic!vars)
  <1>1. UNCHANGED <<accounts, serving, caller>>
    BY DEF expire, discard, Tick, pagingVars
  <1>2. slot \in SlotType /\ now \in Nat
    BY DEF PInv, PagingTypeOK, SlotType
  <1>3. Ended(slot) \in SlotType
    BY <1>2 DEF Ended, SlotType, Captures
  <1>4. slot' \in SlotType /\ now' \in Nat
    BY <1>2, <1>3 DEF expire, discard, Tick, pagingVars
  <1>5. PInv'
    BY <1>1, <1>4 DEF PInv, PagingTypeOK, ServingOK, SlotType
  <1>6. \A c \in Callers : SameView(c)
    BY <1>1, Apart
  <1> QED  BY <1>1, <1>5, <1>6, Unseen

LEMMA ChangeStep ==
    ASSUME PInv, NEW s \in Scopes, Change(s)
    PROVE  PInv' /\ (Atomic!Next \/ UNCHANGED Atomic!vars)
  <1>1. UNCHANGED <<now, slot, serving, caller>>
    BY DEF Change
  <1>2. PICK r \in Records : accounts' = [accounts EXCEPT ![s] = r]
    BY DEF Change
  <1>3. PInv'
    BY <1>1, <1>2 DEF PInv, PagingTypeOK, ServingOK
  <1>4. UNCHANGED <<[c \in Callers |-> Asked(c)], [c \in Callers |-> Observed(c)],
                    [c \in Callers |-> caller[c].told]>>
    BY <1>1 DEF Asked, Observed
  <1>5. Atomic!Change(s)
    BY <1>2, <1>4 DEF Atomic!Change
  <1> QED  BY <1>3, <1>5 DEF Atomic!Next

(* One caller is put in a state that keeps the invariant.                   *)
LEMMA CallerEffect ==
    ASSUME PInv, NEW c \in Callers, NEW b \in Callings, CallerOK(b),
           caller' = [caller EXCEPT ![c] = b],
           UNCHANGED <<accounts, now, slot, serving>>,
           serving = Idle \/ serving.by # c \/ (b.phase \in {"sent", "gone"} /\ b.cursor = START)
    PROVE  /\ PInv' /\ caller'[c] = b
           /\ \A d \in Callers \ {c} : SameView(d)
  <1>1. caller \in [Callers -> Callings] /\ \A d \in Callers : CallerOK(caller[d])
    BY DEF PInv, PagingTypeOK
  <1>2. /\ caller' \in [Callers -> Callings] /\ caller'[c] = b
        /\ \A d \in Callers \ {c} : caller'[d] = caller[d]
    BY <1>1
  <1>3. \A d \in Callers : CallerOK(caller'[d])
    BY <1>1, <1>2
  <1>4. ServingOK'
    BY <1>2 DEF PInv, ServingOK
  <1>5. PInv'
    BY <1>2, <1>3, <1>4 DEF PInv, PagingTypeOK
  <1>6. \A d \in Callers \ {c} : SameView(d)
    BY <1>2, Apart
  <1> QED  BY <1>2, <1>5, <1>6

(* Only a caller that waits is being served.                                *)
LEMMA ServedWaits ==
    ASSUME PInv, NEW c \in Callers, caller[c].phase \notin {"sent", "gone"}
    PROVE  serving = Idle \/ serving.by # c
  BY DEF PInv, ServingOK

LEMMA BeginStep ==
    ASSUME PInv, NEW c \in Callers, Begin(c)
    PROVE  PInv' /\ (Atomic!Next \/ UNCHANGED Atomic!vars)
  <1>1. PICK expires \in (now + 1)..MaxTime :
           caller' = [caller EXCEPT ![c] = [Unasked EXCEPT !.phase = "sent", !.expires = expires]]
    BY DEF Begin
  <1> DEFINE b == [Unasked EXCEPT !.phase = "sent", !.expires = expires]
  <1>2. expires \in Nat
    BY PagingAssumption DEF PInv, PagingTypeOK
  <1>3. /\ b \in Callings /\ CallerOK(b) /\ b.phase = "sent"
        /\ b.told = Nothing /\ b.started = Nothing /\ b.reply = Nothing
    <2>1. /\ b \in Callings /\ b.phase = "sent" /\ b.cursor = Unasked.cursor /\ b.told = Unasked.told
          /\ b.started = Unasked.started /\ b.reply = Unasked.reply
      BY <1>2, UnaskedOK DEF Callings
    <2> QED  BY <2>1, UnaskedOK DEF CallerOK
  <1>4. caller[c].phase = "idle" /\ UNCHANGED <<accounts, now, slot, serving>>
    BY DEF Begin
  <1> HIDE DEF b
  <1>5. caller' = [caller EXCEPT ![c] = b]
    BY <1>1 DEF b
  <1>6. serving = Idle \/ serving.by # c
    BY <1>4, ServedWaits
  <1>7. PInv' /\ caller'[c] = b /\ \A d \in Callers \ {c} : SameView(d)
    BY <1>3, <1>4, <1>5, <1>6, CallerEffect
  <1>8. ~Asked(c) /\ Asked(c)'
    BY <1>3, <1>4, <1>7 DEF Asked
  <1>9. Observed(c) = Nothing
    BY <1>8 DEF Observed
  <1>10. Observed(c)' = Nothing
    BY <1>3, <1>4, <1>6, <1>7, PagingAssumption DEF Observed, Idle
  <1>11. AskView(c)
    BY <1>3, <1>7, <1>8, <1>9, <1>10 DEF AskView
  <1> QED  BY <1>4, <1>7, <1>11, Seen

LEMMA GiveUpStep ==
    ASSUME PInv, NEW c \in Callers, GiveUp(c)
    PROVE  PInv' /\ (Atomic!Next \/ UNCHANGED Atomic!vars)
  <1> DEFINE b == [Unasked EXCEPT !.phase = "gone", !.cursor = caller[c].cursor,
                                  !.expires = caller[c].expires]
  <1>1. caller[c] \in Callings
    BY DEF PInv, PagingTypeOK
  <1>2. b \in Callings /\ CallerOK(b) /\ b.phase = "gone" /\ b.told = Nothing /\ b.cursor = caller[c].cursor
    <2>1. /\ b \in Callings /\ b.phase = "gone" /\ b.cursor = caller[c].cursor
          /\ b.told = Unasked.told /\ b.started = Unasked.started /\ b.reply = Unasked.reply
      BY <1>1, UnaskedOK DEF Callings
    <2> QED  BY <2>1, UnaskedOK DEF CallerOK
  <1>3. /\ caller[c].phase = "sent" /\ UNCHANGED <<accounts, now, slot, serving>>
        /\ caller' = [caller EXCEPT ![c] = b]
    BY DEF GiveUp
  <1> HIDE DEF b
  <1>4. serving = Idle \/ serving.by # c \/ (b.phase \in {"sent", "gone"} /\ b.cursor = START)
    BY <1>2 DEF PInv, ServingOK
  <1>5. PInv' /\ caller'[c] = b /\ \A d \in Callers \ {c} : SameView(d)
    BY <1>2, <1>3, <1>4, CallerEffect
  <1>6. EndView(c)
    BY <1>2, <1>3, <1>5 DEF EndView, Asked, Observed
  <1> QED  BY <1>3, <1>5, <1>6, Seen

(* The transfer is over, and the caller is told what it assembled.          *)
LEMMA ToldStep ==
    ASSUME PInv, NEW c \in Callers, caller[c].phase = "replied",
           NEW result \in Records \cup {Nothing}, Told(c, result),
           UNCHANGED <<accounts, now, slot, serving>>,
           result # Nothing => Asked(c) /\ Observed(c) = result
    PROVE  PInv' /\ (Atomic!Next \/ UNCHANGED Atomic!vars)
  <1> DEFINE b == [Unasked EXCEPT !.told = result]
  <1>1. b \in Callings /\ CallerOK(b) /\ b.phase = "idle" /\ b.told = result
    <2>1. /\ b \in Callings /\ b.phase = Unasked.phase /\ b.told = result
          /\ b.started = Unasked.started /\ b.reply = Unasked.reply
      BY UnaskedOK DEF Callings
    <2> QED  BY <2>1, UnaskedOK DEF CallerOK
  <1>2. caller' = [caller EXCEPT ![c] = b]
    BY DEF Told
  <1> HIDE DEF b
  <1>3. serving = Idle \/ serving.by # c
    BY ServedWaits
  <1>4. PInv' /\ caller'[c] = b /\ \A d \in Callers \ {c} : SameView(d)
    BY <1>1, <1>2, <1>3, CallerEffect
  <1>5. ~Asked(c)' /\ Observed(c)' = Nothing
    BY <1>1, <1>4 DEF Asked, Observed
  <1>6. CASE Asked(c)
    <2>1. EndView(c)
      BY <1>1, <1>4, <1>5, <1>6 DEF EndView
    <2> QED  BY <1>4, <2>1, Seen
  <1>7. CASE ~Asked(c)
    <2>1. caller[c].told = Nothing /\ Observed(c) = Nothing
      BY <1>7 DEF PInv, CallerOK, Observed
    <2>2. SameView(c)
      BY <1>1, <1>4, <1>5, <1>7, <2>1 DEF SameView
    <2> QED  BY <1>4, <2>2, Unseen
  <1> QED  BY <1>6, <1>7

(* An accepted page that completes nothing leaves the assembler with the    *)
(* hash that the first page stated.                                         *)
LEMMA AcceptedEffect ==
    ASSUME NEW a \in Callings, NEW p \in Pages, Acceptable(a, p)
    PROVE  /\ accepted(a, p) \in Callings
           /\ accepted(a, p).started \in Starts
           /\ accepted(a, p).started.snapshot = p.snapshot /\ p.snapshot # 0
           /\ accepted(a, p).started.sha256 = p.sha256
           /\ a.started # Nothing => p.sha256 = a.started.sha256
           /\ accepted(a, p).reply = Nothing /\ accepted(a, p).told = a.told
  <1> DEFINE st == [snapshot |-> p.snapshot, total |-> p.total,
                    sha256 |-> p.sha256, complete |-> p.complete]
  <1>1. st \in Starts /\ st.snapshot = p.snapshot /\ st.sha256 = p.sha256
    BY DEF Pages, Starts
  <1>2. a.buffer \o p.bytes \in Seq(Bytes)
    BY DEF Callings, Pages
  <1> DEFINE t == a.buffer \o p.bytes
             b == [a EXCEPT !.buffer = t, !.reply = Nothing, !.started = st]
  <1>3. accepted(a, p) = b
    BY DEF accepted, Callings
  <1> HIDE DEF st, t
  <1>4. b \in Callings /\ b.started = st /\ b.reply = Nothing /\ b.told = a.told
    <2>1. t \in Seq(Bytes)
      BY <1>2 DEF t
    <2> QED  BY <1>1, <2>1 DEF Callings
  <1>5. p.snapshot # 0 /\ (a.started # Nothing => p.sha256 = a.started.sha256)
    BY DEF Acceptable, check, follows
  <1> HIDE DEF b
  <1> QED  BY <1>1, <1>3, <1>4, <1>5

LEMMA acceptStep ==
    ASSUME PInv, NEW c \in Callers, caller[c].phase = "replied",
           NEW reply \in Pages \cup Refusals, accept(c, reply),
           reply \in Pages => caller[c].reply \in Pages,
           reply \in Pages /\ caller[c].started = Nothing => reply.sha256 = caller[c].reply.sha256
    PROVE  PInv' /\ (Atomic!Next \/ UNCHANGED Atomic!vars)
  <1> DEFINE a == caller[c]
             b == accepted(a, reply)
  <1>1. a \in Callings /\ CallerOK(a) /\ now \in Nat
    BY DEF PInv, PagingTypeOK
  <1>2. UNCHANGED <<accounts, now, slot, serving>>
    BY DEF accept
  <1>3. serving = Idle \/ serving.by # c
    BY ServedWaits
  <1>4. CASE Told(c, Nothing)
    BY <1>2, <1>4, ToldStep
  <1>5. CASE ~Told(c, Nothing)
    <2>1. "error" \notin DOMAIN reply /\ Acceptable(a, reply)
      BY <1>5 DEF accept
    <2>2. reply \in Pages
      BY <2>1, ErrorOrPage
    <2>3. /\ b \in Callings /\ b.started \in Starts
          /\ b.started.snapshot = reply.snapshot /\ reply.snapshot # 0
          /\ b.started.sha256 = reply.sha256
          /\ a.started # Nothing => reply.sha256 = a.started.sha256
          /\ b.reply = Nothing /\ b.told = a.told
      BY <1>1, <2>1, <2>2, AcceptedEffect
    <2>4. Asked(c) /\ a.reply # Nothing
      BY <2>2, ErrorOrPage, PagingAssumption DEF Asked
    <2>5. Observed(c) = b.started.sha256
      BY <2>2, <2>3, <2>4 DEF Observed
    <2>6. CASE Told(c, finish(b))
      <3>1. finish(b) \in Records \cup {Nothing} /\ (finish(b) # Nothing => finish(b) = b.started.sha256)
        BY DEF finish
      <3> HIDE DEF b
      <3> QED  BY <1>2, <2>4, <2>5, <2>6, <3>1, ToldStep
    <2>7. CASE \E expires \in (now + 1)..MaxTime :
                  caller' = [caller EXCEPT ![c] =
                                [b EXCEPT !.phase = "sent", !.expires = expires,
                                          !.cursor = [snapshot |-> b.started.snapshot,
                                                      offset |-> Len(b.buffer)]]]
      <3> DEFINE k == [snapshot |-> b.started.snapshot, offset |-> Len(b.buffer)]
      <3> HIDE DEF b
      <3>1. PICK expires \in (now + 1)..MaxTime :
               caller' = [caller EXCEPT ![c] = [b EXCEPT !.phase = "sent", !.expires = expires, !.cursor = k]]
        BY <2>7
      <3>2. expires \in Nat
        BY <1>1, PagingAssumption
      <3>3. b.started.snapshot \in Nat /\ Len(b.buffer) \in Nat
        BY <2>3 DEF Starts, Callings
      <3>4. k \in Cursors /\ k # START
        BY <2>3, <3>3 DEF Cursors, START
      <3> DEFINE d == [b EXCEPT !.phase = "sent", !.expires = expires, !.cursor = k]
      <3> HIDE DEF k
      <3>5. /\ d \in Callings /\ d.phase = "sent" /\ d.cursor = k /\ d.started = b.started
            /\ d.reply = b.reply /\ d.told = b.told
        BY <2>3, <3>2, <3>4 DEF Callings
      <3>6. CallerOK(d) /\ d.told = a.told
        BY <1>1, <2>3, <3>4, <3>5, PagingAssumption DEF CallerOK
      <3> HIDE DEF d
      <3>7. PInv' /\ caller'[c] = d /\ \A e \in Callers \ {c} : SameView(e)
        <4>1. caller' = [caller EXCEPT ![c] = d]
          BY <3>1 DEF d
        <4> QED  BY <1>2, <1>3, <3>5, <3>6, <4>1, CallerEffect
      <3>8. Asked(c)' /\ Observed(c)' = b.started.sha256
        BY <2>3, <3>5, <3>7, PagingAssumption DEF Asked, Observed
      <3>9. SameView(c)
        BY <2>4, <2>5, <3>6, <3>7, <3>8 DEF SameView
      <3> QED  BY <1>2, <3>7, <3>9, Unseen
    <2> QED  BY <1>5, <2>1, <2>6, <2>7 DEF accept
  <1> QED  BY <1>4, <1>5

(* What a caller reads is the reply, perhaps altered.                       *)
LEMMA ReceiveStep ==
    ASSUME PInv, NEW c \in Callers, Receive(c)
    PROVE  PInv' /\ (Atomic!Next \/ UNCHANGED Atomic!vars)
  <1> DEFINE a == caller[c]
             first == a.started = Nothing
             sent == {a.reply} \cup IF c \notin Garbled \/ "error" \in DOMAIN a.reply THEN {}
                                    ELSE Altered(a.reply, first)
  <1>1. a.phase = "replied" /\ a.reply \in Pages \cup Refusals
    BY DEF Receive, PInv, CallerOK
  <1>2. PICK reply \in sent : accept(c, reply)
    BY DEF Receive
  <1>3. /\ reply \in Pages \cup Refusals
        /\ reply \in Pages => a.reply \in Pages
        /\ reply \in Pages /\ a.started = Nothing => reply.sha256 = a.reply.sha256
    <2>1. CASE reply = a.reply
      BY <1>1, <2>1
    <2>2. CASE reply # a.reply
      <3>1. "error" \notin DOMAIN a.reply /\ reply \in Altered(a.reply, first)
        BY <1>2, <2>2
      <3>2. a.reply \in Pages
        BY <1>1, <3>1, ErrorOrPage
      <3>3. first \in BOOLEAN
        OBVIOUS
      <3>4. reply \in Pages /\ (first => reply.sha256 = a.reply.sha256)
        <4> HIDE DEF first
        <4> QED  BY <3>1, <3>2, <3>3, AlteredIsPage
      <3> QED  BY <3>2, <3>4
    <2> QED  BY <2>1, <2>2
  <1> QED  BY <1>1, <1>2, <1>3, acceptStep

(* However pages, captures, deadlines, altered pages and changes interleave *)
(* and for any number of callers, scopes and any page size, every step of   *)
(* CaptureSlot and PageAssembler is a step of AtomicObservation or none:    *)
(* what finish yields is the account of the caller's scope at one moment    *)
(* after it asked.                                                          *)
THEOREM AtomicPaging == PagingSteps => AtomicSteps
  <1>1. PagingInit => PInv /\ Atomic!Init
    <2> SUFFICES ASSUME PagingInit PROVE PInv /\ Atomic!Init
      OBVIOUS
    <2>1. \A c \in Callers : caller[c] = Unasked
      BY DEF PagingInit
    <2>2. PInv
      BY <2>1, UnaskedOK DEF PInv, PagingTypeOK, PagingInit, ServingOK, Idle
    <2>3. \A c \in Callers : ~Asked(c) /\ Observed(c) = Nothing /\ caller[c].told = Nothing
      BY <2>1, UnaskedOK DEF Asked, Observed
    <2>4. [c \in Callers |-> Asked(c)] = [c \in Callers |-> FALSE]
      BY <2>3, Zenon DEF Asked
    <2>5. /\ [c \in Callers |-> Observed(c)] = [c \in Callers |-> Nothing]
          /\ [c \in Callers |-> caller[c].told] = [c \in Callers |-> Nothing]
      BY <2>3
    <2> QED  BY <2>2, <2>4, <2>5 DEF Atomic!Init, PagingInit
  <1>2. PInv /\ [PagingNext]_pagingVars => PInv' /\ [Atomic!Next]_(Atomic!vars)
    BY BeginStep, ReceiveStep, GiveUpStep, captureStep, pageStep, ChangeStep, collectStep,
       capture_collectedStep, SlotStep DEF PagingNext, Serve
  <1> QED  BY <1>1, <1>2, PTL DEF PagingSteps, AtomicSteps
=============================================================================
