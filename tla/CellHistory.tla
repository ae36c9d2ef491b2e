----------------------------- MODULE CellHistory -----------------------------
(***************************************************************************)
(* The accepted history of one cell's journal: crate plasmosome-ledger,     *)
(* cell_journal/history.rs.  A journal record is admitted only when `check` *)
(* accepts it; `apply` then folds it into four pieces of state: the last    *)
(* prepared generation, the open transaction, the committed attachment of   *)
(* each plugin, and the identity of every address any prepare ever named.   *)
(*                                                                          *)
(* A refused record leaves the history unchanged, so a refusal is a         *)
(* stuttering step.                                                         *)
(***************************************************************************)
EXTENDS Naturals, Sequences

CONSTANTS
    Plugins,        \* the plugins the records of this journal name
    Addresses,      \* the exact addresses (class and id) effects can hold
    Bodies,         \* everything of a RecordedEffect but its address
    NoAddress,      \* RecordedEffect::address() = None (external, delayed)
    Unrecorded,     \* an address no prepare has named
    MaxEffects,     \* bound: effects in one replacement
    MaxGeneration   \* u64::MAX

ASSUME HistoryAssumption ==
    /\ MaxGeneration \in Nat \ {0}
    /\ MaxEffects \in Nat
    /\ NoAddress \notin Addresses
    /\ Unrecorded \notin [plugin : Plugins,
                          effect : [address : Addresses \cup {NoAddress}, body : Bodies],
                          state : {"Standing", "Introduced", "Retired"}]

VARIABLES
    lastGeneration, \* CellHistory.last_generation
    open,           \* CellHistory.open: at most one transaction
    committed,      \* CellHistory.committed
    identities      \* CellHistory.identities

historyVars == <<lastGeneration, open, committed, identities>>

----------------------------------------------------------------------------
(* Records.  The wire format names each changed plugin once, so the changes *)
(* of a prepare are a function of the plugin.                               *)

Effect == [address : Addresses \cup {NoAddress}, body : Bodies]

EffectLists == UNION {[1..n -> Effect] : n \in 0..MaxEffects}

(* What a prepare does to one plugin: nothing, remove it, or replace it.    *)
Untouched == [kind |-> "Untouched", effects |-> << >>]
Removal   == [kind |-> "Removal",   effects |-> << >>]

Change == {Untouched, Removal}
            \cup [kind : {"Replacement"}, effects : EffectLists]

(* A prepare changes at least one plugin.                                   *)
Prepares == {c \in [Plugins -> Change] : \E p \in Plugins : c[p] # Untouched}

NoChanges == [p \in Plugins |-> Untouched]

(* The addresses a list of effects holds.                                   *)
AddressesOf(list) == {list[i].address : i \in DOMAIN list} \ {NoAddress}

----------------------------------------------------------------------------
(* State                                                                    *)

NoTransaction == [generation |-> 0, changes |-> NoChanges, decision |-> "None"]

NotAttached == [generation |-> 0, effects |-> << >>]

Identity == [plugin : Plugins, effect : Effect,
             state : {"Standing", "Introduced", "Retired"}]

Transaction == [generation : 1..MaxGeneration, changes : Prepares,
                decision : {"None", "Commit", "Abort"}]

Attachment == [generation : 1..MaxGeneration, effects : EffectLists]

(* The state of an address, and the plugin it is recorded for.              *)
InState(a, s) == identities[a] # Unrecorded /\ identities[a].state = s

IsAttached(p) == committed[p].generation # 0

IsOpen == open.generation # 0

HistoryInit ==
    /\ lastGeneration = 0
    /\ open = NoTransaction
    /\ committed = [p \in Plugins |-> NotAttached]
    /\ identities = [a \in Addresses |-> Unrecorded]

----------------------------------------------------------------------------
(* check                                                                    *)

(* Two effects of one prepare hold the same address.                        *)
RepeatsAddress(changes) ==
    \E p, q \in Plugins :
        \E i \in DOMAIN changes[p].effects, j \in DOMAIN changes[q].effects :
            /\ <<p, i>> # <<q, j>>
            /\ changes[p].effects[i].address # NoAddress
            /\ changes[p].effects[i].address = changes[q].effects[j].address

(* Mutant: a retired address, or an abandoned one, may be named again.      *)
ReusesIdentity_AnyState(changes) ==
    \E p \in Plugins : \E i \in DOMAIN changes[p].effects :
        LET e == changes[p].effects[i] IN
            /\ e.address # NoAddress
            /\ identities[e.address] # Unrecorded
            /\ \/ identities[e.address].effect # e
               \/ identities[e.address].plugin # p

(* Mutant: an address may move to another plugin.                           *)
ReusesIdentity_AnyPlugin(changes) ==
    \E p \in Plugins : \E i \in DOMAIN changes[p].effects :
        LET e == changes[p].effects[i] IN
            /\ e.address # NoAddress
            /\ identities[e.address] # Unrecorded
            /\ \/ identities[e.address].effect # e
               \/ identities[e.address].state # "Standing"

(* A replaced plugin may name an address again only if it is the very same  *)
(* effect, still standing, of the same plugin.                              *)
ReusesIdentity(changes) ==
    \E p \in Plugins : \E i \in DOMAIN changes[p].effects :
        LET e == changes[p].effects[i] IN
            /\ e.address # NoAddress
            /\ identities[e.address] # Unrecorded
            /\ \/ identities[e.address].effect # e
               \/ identities[e.address].plugin # p
               \/ identities[e.address].state # "Standing"

check_identities(changes) ==
    /\ \A p \in Plugins : changes[p] = Removal => IsAttached(p)
    /\ ~RepeatsAddress(changes)
    /\ ~ReusesIdentity(changes)

(* The first generation or event-order rule a record breaks, or "Accepted". *)
check(generation, event) ==
    IF generation = 0 THEN "GenerationZero"
    ELSE IF ~IsOpen THEN
        IF event # "Prepare" THEN "EventOrder"
        ELSE IF generation # lastGeneration + 1 THEN "GenerationOrder"
        ELSE "Accepted"
    ELSE IF event = "Prepare" THEN "EventOrder"
    ELSE IF open.generation # generation THEN "GenerationOrder"
    ELSE IF (event = "Finish") = (open.decision = "None") THEN "EventOrder"
    ELSE "Accepted"

----------------------------------------------------------------------------
(* apply                                                                    *)

(* The effect of `changes` that names address `a`, and its plugin.          *)
Names(changes, p, a) == a \in AddressesOf(changes[p].effects)

Introduce(changes, a) ==
    LET p == CHOOSE q \in Plugins : Names(changes, q, a)
        i == CHOOSE j \in DOMAIN changes[p].effects :
                changes[p].effects[j].address = a
    IN  [plugin |-> p, effect |-> changes[p].effects[i], state |-> "Introduced"]

apply_prepare(generation, changes) ==
    /\ lastGeneration' = generation
    /\ open' = [generation |-> generation, changes |-> changes, decision |-> "None"]
    /\ identities' = [a \in Addresses |->
            IF /\ identities[a] = Unrecorded
               /\ \E p \in Plugins : Names(changes, p, a)
            THEN Introduce(changes, a)
            ELSE identities[a]]
    /\ UNCHANGED committed

(* Mutant: removing a plugin retires nothing.                               *)
Dropped_KeepsRemoved(p) ==
    IF open.changes[p] \in {Untouched, Removal} THEN {}
    ELSE AddressesOf(committed[p].effects) \ AddressesOf(open.changes[p].effects)

(* The addresses commit retires: held by the replaced or removed attachment *)
(* and not named again by its replacement.                                  *)
Dropped(p) ==
    IF open.changes[p] = Untouched THEN {}
    ELSE AddressesOf(committed[p].effects) \ AddressesOf(open.changes[p].effects)

apply_commit(generation) ==
    /\ open' = [open EXCEPT !.decision = "Commit"]
    /\ committed' = [p \in Plugins |->
            IF open.changes[p] = Untouched THEN committed[p]
            ELSE IF open.changes[p] = Removal THEN NotAttached
            ELSE [generation |-> generation, effects |-> open.changes[p].effects]]
    /\ identities' = [a \in Addresses |->
            IF \E p \in Plugins : Names(open.changes, p, a)
            THEN [identities[a] EXCEPT !.state = "Standing"]
            ELSE IF \E p \in Plugins : a \in Dropped(p)
            THEN [identities[a] EXCEPT !.state = "Retired"]
            ELSE identities[a]]
    /\ UNCHANGED lastGeneration

(* Mutant: abort leaves what the prepare introduced.                        *)
apply_abort_KeepsIntroduced ==
    /\ open' = [open EXCEPT !.decision = "Abort"]
    /\ UNCHANGED <<lastGeneration, committed, identities>>

apply_abort ==
    /\ open' = [open EXCEPT !.decision = "Abort"]
    /\ identities' = [a \in Addresses |->
            IF InState(a, "Introduced")
            THEN [identities[a] EXCEPT !.state = "Retired"]
            ELSE identities[a]]
    /\ UNCHANGED <<lastGeneration, committed>>

apply_finish ==
    /\ open' = NoTransaction
    /\ UNCHANGED <<lastGeneration, committed, identities>>

(* admit: check the record, then apply it.  One action per event.           *)
Prepare(generation) ==
    /\ check(generation, "Prepare") = "Accepted"
    /\ \E changes \in Prepares :
          /\ check_identities(changes)
          /\ apply_prepare(generation, changes)

Commit(generation) ==
    /\ check(generation, "Commit") = "Accepted"
    /\ apply_commit(generation)

Abort(generation) ==
    /\ check(generation, "Abort") = "Accepted"
    /\ apply_abort

Finish(generation) ==
    /\ check(generation, "Finish") = "Accepted"
    /\ apply_finish

HistoryNext ==
    \E generation \in 0..MaxGeneration :
        \/ Prepare(generation)
        \/ Commit(generation)
        \/ Abort(generation)
        \/ Finish(generation)

HistorySpec == HistoryInit /\ [][HistoryNext]_historyVars

----------------------------------------------------------------------------
(* Properties                                                               *)

(* Every part of the history has its type; in particular the generation     *)
(* never passes u64::MAX.                                                   *)
HistoryTypeOK ==
    /\ lastGeneration \in 0..MaxGeneration
    /\ open \in Transaction \cup {NoTransaction}
    /\ committed \in [Plugins -> Attachment \cup {NotAttached}]
    /\ identities \in [Addresses -> Identity \cup {Unrecorded}]

(* An address stands exactly when a committed attachment of its recorded    *)
(* plugin holds it, with the recorded effect: `identities` and `committed`, *)
(* updated by separate loops of `apply`, never disagree about what is held. *)
StandingIsCommitted ==
    /\ \A a \in Addresses :
          InState(a, "Standing") =>
              a \in AddressesOf(committed[identities[a].plugin].effects)
    /\ \A p \in Plugins : \A i \in DOMAIN committed[p].effects :
          LET e == committed[p].effects[i] IN
              e.address # NoAddress =>
                  /\ InState(e.address, "Standing")
                  /\ identities[e.address].plugin = p
                  /\ identities[e.address].effect = e

(* An address is merely introduced only while the prepare that named it is  *)
(* open and undecided: neither commit, abort nor finish leaves one behind.  *)
IntroducedIsOpen ==
    \A a \in Addresses :
        InState(a, "Introduced") =>
            /\ IsOpen
            /\ open.decision = "None"
            /\ Names(open.changes, identities[a].plugin, a)

(* The state recorded of an address is true of the rest of the history.     *)
IdentityStates == StandingIsCommitted /\ IntroducedIsOpen

(* The two `expect("recorded identity")` of commit cannot panic: everything *)
(* an undecided transaction names is recorded as it names it and is not     *)
(* retired, and everything it would drop stands for that plugin.            *)
CommitFindsIdentities ==
    IsOpen /\ open.decision = "None" =>
        \A p \in Plugins :
            /\ \A i \in DOMAIN open.changes[p].effects :
                  LET e == open.changes[p].effects[i] IN
                      e.address # NoAddress =>
                          /\ identities[e.address] # Unrecorded
                          /\ identities[e.address].plugin = p
                          /\ identities[e.address].effect = e
                          /\ identities[e.address].state # "Retired"
            /\ \A a \in Dropped(p) :
                  /\ InState(a, "Standing")
                  /\ identities[a].plugin = p

(* An identity is for life: its plugin and effect never change, a retired   *)
(* address never returns, and a standing one leaves only by retirement.     *)
IdentityIsForLife ==
    [][\A a \in Addresses : identities[a] # Unrecorded =>
          /\ identities'[a] # Unrecorded
          /\ identities'[a].plugin = identities[a].plugin
          /\ identities'[a].effect = identities[a].effect
          /\ identities[a].state = "Retired" => identities'[a].state = "Retired"
          /\ identities[a].state = "Standing" => identities'[a].state # "Introduced"]_historyVars

(* The address table agrees with the committed attachments and with the     *)
(* open transaction, so that no commit can panic.                           *)
HistoryAgrees == IdentityStates /\ CommitFindsIdentities
=============================================================================
