-------------------------- MODULE EnforcementBackend --------------------------
(***************************************************************************)
(* The enforcement seam: crate plasmosome-backend, the trait                *)
(* EnforcementBackend as FakeBackend (fake.rs) implements it, over the      *)
(* holdings of OsState (universe.rs) and with the account a caller reads    *)
(* through EnforcementSnapshot (snapshot.rs).                               *)
(*                                                                          *)
(* An address is a class and a grant identity; an object is what stands     *)
(* there, an owner and a capability of that class.  A call that is refused  *)
(* changes nothing, so only the outcomes that change something are actions. *)
(* The faults a conformance test arms in the backend are actions too: an    *)
(* owner whose operations are refused or fail half way, a withdrawal that   *)
(* fails after it released something, a drain that never ends.              *)
(***************************************************************************)
EXTENDS Naturals

CONSTANTS
    Addresses,      \* class and grant identity
    Owners,         \* cell and plugin
    Capabilities,
    Kinds,          \* GrantKind: Hot or GenerationBound
    None

ASSUME BackendAssumption ==
    /\ \A owner \in Owners, capability \in Capabilities :
          None # [owner |-> owner, capability |-> capability]
    /\ \A owner \in Owners, capability \in Capabilities, kind \in Kinds :
          None # [object |-> [owner |-> owner, capability |-> capability], kind |-> kind]

Objects == [owner : Owners, capability : Capabilities]
Entries == [object : Objects, kind : Kinds]
Policies == {"Graceful", "Force"}

VARIABLES
    objects,    \* FakeBackend.state: what stands at each address
    grants,     \* the issued record of each address
    incomplete, \* the unfinished operation of each address
    stuck,      \* addresses whose graceful withdrawals time out
    stalled,    \* owners whose graceful withdrawals time out
    refused,    \* owners whose grants and applies fail before any effect
    doomed,     \* owners whose grants and applies fail after the first effect
    failing     \* addresses whose next withdrawal fails after it released

account == <<objects, grants, incomplete>>
faults == <<stuck, stalled, refused, doomed, failing>>
backend == <<account, faults>>

Init ==
    /\ objects = [h \in Addresses |-> None]
    /\ grants = [h \in Addresses |-> None]
    /\ incomplete = [h \in Addresses |-> None]
    /\ stuck = {}
    /\ stalled = {}
    /\ refused = {}
    /\ doomed = {}
    /\ failing = {}

----------------------------------------------------------------------------
(* Granting and applying                                                    *)

(* Mutant: an address with an unfinished effect admits a new operation.     *)
admitted_Unfinished(h, object) == object.owner \notin refused

(* An address that holds an unfinished effect admits nothing, not even the  *)
(* same operation again; neither does a refused owner.                      *)
admitted(h, object) ==
    /\ incomplete[h] = None
    /\ object.owner \notin refused

occupied(h) == objects[h] # None

(* The operation of a doomed owner stops after its first effect: it is      *)
(* incomplete, and no record is issued.                                     *)
fail_after_the_first_effect(h, object) ==
    /\ object.owner \in doomed
    /\ incomplete' = [incomplete EXCEPT ![h] = object]
    /\ UNCHANGED <<objects, grants, faults>>

insert(h, object) == objects' = [objects EXCEPT ![h] = object]

(* Mutant: a grant takes an address where an applied object stands.         *)
grant_Occupied(h, object, kind) ==
    /\ admitted(h, object)
    /\ grants[h] = None
    /\ \/ fail_after_the_first_effect(h, object)
       \/ /\ object.owner \notin doomed
          /\ insert(h, object)
          /\ grants' = [grants EXCEPT ![h] = [object |-> object, kind |-> kind]]
          /\ UNCHANGED <<incomplete, faults>>

(* A repeated grant returns the original record and changes nothing; at any *)
(* other occupied address it conflicts.                                     *)
grant(h, object, kind) ==
    /\ admitted(h, object)
    /\ grants[h] = None
    /\ ~occupied(h)
    /\ \/ fail_after_the_first_effect(h, object)
       \/ /\ object.owner \notin doomed
          /\ insert(h, object)
          /\ grants' = [grants EXCEPT ![h] = [object |-> object, kind |-> kind]]
          /\ UNCHANGED <<incomplete, faults>>

(* At an occupied address an equal object is already applied, and another   *)
(* one conflicts.                                                           *)
apply(h, object) ==
    /\ admitted(h, object)
    /\ ~occupied(h)
    /\ \/ fail_after_the_first_effect(h, object)
       \/ /\ object.owner \notin doomed
          /\ insert(h, object)
          /\ UNCHANGED <<grants, incomplete, faults>>

(* An object placed behind the backend's back, as a residue is.             *)
plant(h, object) ==
    /\ incomplete[h] = None
    /\ ~occupied(h)
    /\ insert(h, object)
    /\ UNCHANGED <<grants, incomplete, faults>>

----------------------------------------------------------------------------
(* Withdrawing                                                              *)

(* Exactly this object stands at the address, or is unfinished there.       *)
selects(h, object) ==
    \/ objects[h] = object
    \/ incomplete[h] = object

times_out(h, object, policy) ==
    /\ policy = "Graceful"
    /\ h \in stuck \/ object.owner \in stalled

release(h, object) ==
    objects' = [objects EXCEPT ![h] = IF objects[h] = object THEN None ELSE objects[h]]

(* Mutant: the record goes although the withdrawal is unfinished.           *)
fails_after_release_DropsRecord(h, object) ==
    /\ h \in failing
    /\ failing' = failing \ {h}
    /\ incomplete' = [incomplete EXCEPT ![h] = object]
    /\ grants' = [grants EXCEPT ![h] = None]
    /\ UNCHANGED <<stuck, stalled, refused, doomed>>

(* The withdrawal fails after it released something: the holding becomes    *)
(* incomplete and keeps the record that can withdraw it again.              *)
fails_after_release(h, object) ==
    /\ h \in failing
    /\ failing' = failing \ {h}
    /\ incomplete' = [incomplete EXCEPT ![h] = object]
    /\ UNCHANGED <<grants, stuck, stalled, refused, doomed>>

(* Mutant: a finished withdrawal keeps the issued record.                   *)
withdrawn_KeepsRecord(h) ==
    /\ h \notin failing
    /\ incomplete' = [incomplete EXCEPT ![h] = None]
    /\ stuck' = stuck \ {h}
    /\ UNCHANGED <<grants, stalled, refused, doomed, failing>>

withdrawn(h) ==
    /\ h \notin failing
    /\ incomplete' = [incomplete EXCEPT ![h] = None]
    /\ grants' = [grants EXCEPT ![h] = None]
    /\ stuck' = stuck \ {h}
    /\ UNCHANGED <<stalled, refused, doomed, failing>>

apply_removal(h, object, policy) ==
    /\ selects(h, object)
    /\ ~times_out(h, object, policy)
    /\ release(h, object)
    /\ withdrawn(h) \/ fails_after_release(h, object)

revoke(h, policy) ==
    /\ grants[h] # None
    /\ apply_removal(h, grants[h].object, policy)

----------------------------------------------------------------------------
(* Faults a test arms                                                       *)

mark_stuck(h) ==
    /\ h \notin stuck
    /\ stuck' = stuck \cup {h}
    /\ UNCHANGED <<account, stalled, refused, doomed, failing>>

stall_graceful_drains_for_owner(owner) ==
    /\ owner \notin stalled
    /\ stalled' = stalled \cup {owner}
    /\ UNCHANGED <<account, stuck, refused, doomed, failing>>

fail_before_effect_for_owner(owner) ==
    /\ owner \notin refused
    /\ refused' = refused \cup {owner}
    /\ UNCHANGED <<account, stuck, stalled, doomed, failing>>

fail_after_effect_for_owner(owner) ==
    /\ owner \notin doomed
    /\ doomed' = doomed \cup {owner}
    /\ UNCHANGED <<account, stuck, stalled, refused, failing>>

fail_next_withdrawal(h) ==
    /\ h \notin failing
    /\ failing' = failing \cup {h}
    /\ UNCHANGED <<account, stuck, stalled, refused, doomed>>

Arm ==
    \/ \E h \in Addresses : mark_stuck(h) \/ fail_next_withdrawal(h)
    \/ \E owner \in Owners :
        \/ stall_graceful_drains_for_owner(owner)
        \/ fail_before_effect_for_owner(owner)
        \/ fail_after_effect_for_owner(owner)

Next ==
    \/ \E h \in Addresses, object \in Objects :
        \/ \E kind \in Kinds : grant(h, object, kind)
        \/ apply(h, object)
        \/ plant(h, object)
        \/ \E policy \in Policies : apply_removal(h, object, policy)
    \/ \E h \in Addresses, policy \in Policies : revoke(h, policy)
    \/ Arm

Spec == Init /\ [][Next]_backend

----------------------------------------------------------------------------
(* The account: EnforcementSnapshot::new                                    *)

(* The row of an address: what stands there, or what is unfinished there.   *)
row(h) == IF objects[h] # None THEN objects[h] ELSE incomplete[h]

(* Properties                                                               *)

(* Every variable has its type.                                             *)
TypeOK ==
    /\ objects \in [Addresses -> Objects \cup {None}]
    /\ grants \in [Addresses -> Entries \cup {None}]
    /\ incomplete \in [Addresses -> Objects \cup {None}]
    /\ stuck \subseteq Addresses
    /\ stalled \subseteq Owners
    /\ refused \subseteq Owners
    /\ doomed \subseteq Owners
    /\ failing \subseteq Addresses

(* EnforcementSnapshot::new never refuses the backend's own account: no     *)
(* address both stands and is unfinished, and every issued record agrees    *)
(* with exactly one row, whatever failed half way before.                   *)
AccountIsAccepted ==
    \A h \in Addresses :
        /\ objects[h] = None \/ incomplete[h] = None
        /\ grants[h] # None => row(h) = grants[h].object

(* An issued record is original until it goes, and it goes only with the    *)
(* last trace of its holding: a withdrawal that reported success left       *)
(* neither a standing nor an unfinished row behind.                         *)
WithdrawnLeavesNothing ==
    [][\A h \in Addresses :
          grants[h] # None /\ grants'[h] # grants[h]
            => grants'[h] = None /\ objects'[h] = None /\ incomplete'[h] = None]_backend

(* A holding never changes hands in place: what stands or is unfinished at  *)
(* an address is withdrawn completely before anything else is there, so a   *)
(* removal that names one owner's object never takes another's.             *)
NeverChangesHands ==
    [][\A h \in Addresses :
          row(h) # None /\ row(h)' # None => row(h)' = row(h)]_backend
=============================================================================
