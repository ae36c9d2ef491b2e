---------------------------- MODULE Journals_proofs ----------------------------
(***************************************************************************)
(* What a cell leaves behind: proofs about CellHistory, for every set of    *)
(* plugins, addresses and payloads and every generation limit, and about    *)
(* SessionLog, for any number of logs, threads and events.                  *)
(***************************************************************************)
EXTENDS CellHistory, SessionLog, TLAPS

(* StandingIsCommitted alone is not inductive: commit makes what the open   *)
(* transaction names stand, so what it names has to be recorded, of the     *)
(* right plugin and with the right effect, and that is only known from the  *)
(* prepare.                                                                 *)
IInv ==
    /\ HistoryTypeOK
    /\ StandingIsCommitted
    /\ IntroducedIsOpen
    /\ CommitFindsIdentities

(* What an address list yields: every address of it is the address of one   *)
(* of its effects.                                                          *)
LEMMA AddressOfEffect ==
    ASSUME NEW list, NEW a
    PROVE  a \in AddressesOf(list)
               <=> \E i \in DOMAIN list : list[i].address = a /\ a # NoAddress
BY DEF AddressesOf

(* The empty list, of an untouched or removed plugin, holds no address.     *)
LEMMA EmptyList == DOMAIN << >> = {} /\ AddressesOf(<< >>) = {}
BY DEF AddressesOf

(* An effect list of any length up to the bound has effects at its indices. *)
LEMMA EffectOfList ==
    ASSUME NEW list \in EffectLists, NEW i \in DOMAIN list
    PROVE  list[i] \in Effect
BY DEF EffectLists

LEMMA ListOfChange ==
    ASSUME NEW c \in Change
    PROVE  /\ c.effects \in EffectLists
           /\ c.effects # << >> => c # Untouched /\ c # Removal
<1>1. << >> \in [1..0 -> Effect]
  OBVIOUS
<1>2. << >> \in EffectLists
  BY <1>1, HistoryAssumption DEF EffectLists
<1> QED
  BY <1>2 DEF Change, Untouched, Removal

(* The effects of a committed attachment are effects.                       *)
LEMMA HeldEffect ==
    ASSUME NEW held \in Attachment \cup {NotAttached}, NEW i \in DOMAIN held.effects
    PROVE  held.effects[i] \in Effect
<1>1. held # NotAttached
  BY EmptyList DEF NotAttached
<1> QED
  BY <1>1, EffectOfList DEF Attachment

(* What a commit is to find of an effect that its transaction names.        *)
LEMMA FoundIdentity ==
    ASSUME CommitFindsIdentities, IsOpen, open.decision = "None", NEW p \in Plugins,
           NEW i \in DOMAIN open.changes[p].effects, open.changes[p].effects[i].address # NoAddress
    PROVE  /\ identities[open.changes[p].effects[i].address] # Unrecorded
           /\ identities[open.changes[p].effects[i].address].plugin = p
           /\ identities[open.changes[p].effects[i].address].effect = open.changes[p].effects[i]
BY ZenonT(30) DEF CommitFindsIdentities

(* Moving an identity to another state keeps its plugin and its effect.     *)
LEMMA MovedIdentity ==
    ASSUME NEW id \in Identity, NEW s \in {"Standing", "Introduced", "Retired"}
    PROVE  /\ [id EXCEPT !.state = s] \in Identity
           /\ [id EXCEPT !.state = s] # Unrecorded
           /\ [id EXCEPT !.state = s].state = s
           /\ [id EXCEPT !.state = s].plugin = id.plugin
           /\ [id EXCEPT !.state = s].effect = id.effect
BY HistoryAssumption DEF Identity, Effect

LEMMA TypeInit == HistoryInit => HistoryTypeOK
BY HistoryAssumption DEF HistoryInit, HistoryTypeOK

LEMMA InvInit == HistoryInit => IInv
<1> SUFFICES ASSUME HistoryInit PROVE IInv
  OBVIOUS
<1>1. HistoryTypeOK
  BY TypeInit
<1>2. StandingIsCommitted
  BY EmptyList DEF HistoryInit, StandingIsCommitted, InState, NotAttached
<1>3. IntroducedIsOpen
  BY DEF HistoryInit, IntroducedIsOpen, InState
<1>4. CommitFindsIdentities
  BY DEF HistoryInit, CommitFindsIdentities, IsOpen, NoTransaction
<1> QED
  BY <1>1, <1>2, <1>3, <1>4 DEF IInv

(* A prepare that check_identities accepts names each address once, so an   *)
(* address it introduces is recorded as the effect that names it.           *)
LEMMA IntroducedAsNamed ==
    ASSUME NEW changes \in Prepares, ~RepeatsAddress(changes),
           NEW p \in Plugins, NEW i \in DOMAIN changes[p].effects,
           changes[p].effects[i].address # NoAddress
    PROVE  Introduce(changes, changes[p].effects[i].address)
             = [plugin |-> p, effect |-> changes[p].effects[i],
                state |-> "Introduced"]
<1> DEFINE a == changes[p].effects[i].address
           q == CHOOSE r \in Plugins : Names(changes, r, a)
           k == CHOOSE j \in DOMAIN changes[q].effects :
                    changes[q].effects[j].address = a
<1>1. Names(changes, p, a)
  BY DEF Names, AddressesOf
<1>2. q \in Plugins /\ Names(changes, q, a)
  BY <1>1
<1>3. \E j \in DOMAIN changes[q].effects : changes[q].effects[j].address = a
  BY <1>2 DEF Names, AddressesOf
<1>4. k \in DOMAIN changes[q].effects /\ changes[q].effects[k].address = a
  BY <1>3
<1>5. <<q, k>> = <<p, i>>
  BY <1>2, <1>4 DEF RepeatsAddress
<1> QED
  BY <1>5 DEF Introduce

(* What a prepare does to one address, in terms of the effects it names.    *)
LEMMA PrepareStep ==
    ASSUME IInv, NEW generation \in 0..MaxGeneration, Prepare(generation)
    PROVE  IInv'
<1>1. /\ generation # 0
      /\ ~IsOpen
      /\ generation = lastGeneration + 1
  BY DEF Prepare, check
<1>2. PICK changes \in Prepares :
        check_identities(changes) /\ apply_prepare(generation, changes)
  BY DEF Prepare
<1>3. changes \in [Plugins -> Change]
  BY DEF Prepares
<1>4. \A p \in Plugins : \A i \in DOMAIN changes[p].effects :
        changes[p].effects[i] \in Effect
  BY <1>3, ListOfChange, EffectOfList
<1>5. ASSUME NEW a \in Addresses, identities[a] # Unrecorded
      PROVE  identities'[a] = identities[a]
  BY <1>2, <1>5 DEF apply_prepare
<1>6. ASSUME NEW a \in Addresses, identities[a] = Unrecorded
      PROVE  \/ identities'[a] = Unrecorded
             \/ /\ identities'[a] \in Identity
                /\ identities'[a].state = "Introduced"
                /\ Names(changes, identities'[a].plugin, a)
  <2>1. CASE ~ \E p \in Plugins : Names(changes, p, a)
    BY <1>2, <1>6, <2>1 DEF apply_prepare
  <2>2. CASE \E p \in Plugins : Names(changes, p, a)
    <3>1. PICK p \in Plugins : Names(changes, p, a)
      BY <2>2
    <3>2. PICK i \in DOMAIN changes[p].effects :
            changes[p].effects[i].address = a /\ a # NoAddress
      BY <3>1 DEF Names, AddressesOf
    <3>3. identities'[a] = Introduce(changes, a)
      BY <1>2, <1>6, <2>2 DEF apply_prepare
    <3>4. ~RepeatsAddress(changes)
      BY <1>2 DEF check_identities
    <3>5. identities'[a] = [plugin |-> p, effect |-> changes[p].effects[i],
                            state |-> "Introduced"]
      BY <3>2, <3>3, <3>4, IntroducedAsNamed
    <3> QED
      BY <1>4, <3>1, <3>5 DEF Identity
  <2> QED
    BY <2>1, <2>2
<1>7. ASSUME NEW p \in Plugins, NEW i \in DOMAIN changes[p].effects,
             changes[p].effects[i].address # NoAddress
      PROVE  LET e == changes[p].effects[i] IN
             /\ identities'[e.address] # Unrecorded
             /\ identities'[e.address].plugin = p
             /\ identities'[e.address].effect = e
             /\ identities'[e.address].state # "Retired"
  <2> DEFINE e == changes[p].effects[i]
  <2>0. e \in Effect /\ e.address \in Addresses
    BY <1>4, <1>7 DEF Effect
  <2>1. CASE identities[e.address] = Unrecorded
    <3>1. Names(changes, p, e.address)
      BY <1>7 DEF Names, AddressesOf
    <3>2. identities'[e.address] = Introduce(changes, e.address)
      BY <1>2, <2>0, <2>1, <3>1 DEF apply_prepare
    <3>3. ~RepeatsAddress(changes)
      BY <1>2 DEF check_identities
    <3>4. identities'[e.address] = [plugin |-> p, effect |-> e, state |-> "Introduced"]
      BY <1>7, <3>2, <3>3, IntroducedAsNamed
    <3>5. [plugin |-> p, effect |-> e, state |-> "Introduced"] \in Identity
      BY <2>0 DEF Identity
    <3> QED
      BY <3>4, <3>5, HistoryAssumption DEF Identity, Effect
  <2>2. CASE identities[e.address] # Unrecorded
    <3>1. ~ReusesIdentity(changes)
      BY <1>2 DEF check_identities
    <3>2. /\ identities[e.address].effect = e
          /\ identities[e.address].plugin = p
          /\ identities[e.address].state = "Standing"
      BY <1>7, <2>2, <3>1 DEF ReusesIdentity
    <3> QED
      BY <1>5, <2>0, <2>2, <3>2
  <2> QED
    BY <2>1, <2>2
<1>8. HistoryTypeOK'
  <2>1. lastGeneration' \in 0..MaxGeneration
    BY <1>2 DEF apply_prepare
  <2>2. open' \in Transaction
    BY <1>1, <1>2 DEF apply_prepare, Transaction
  <2>3. committed' \in [Plugins -> Attachment \cup {NotAttached}]
    BY <1>2 DEF apply_prepare, IInv, HistoryTypeOK
  <2>4. ASSUME NEW a \in Addresses
        PROVE  identities'[a] \in Identity \cup {Unrecorded}
    <3>1. CASE identities[a] # Unrecorded
      BY <1>5, <3>1 DEF IInv, HistoryTypeOK
    <3>2. CASE identities[a] = Unrecorded
      BY <1>6, <3>2
    <3> QED
      BY <3>1, <3>2
  <2>5. identities' \in [Addresses -> Identity \cup {Unrecorded}]
    <3>1. \E f : identities' = [a \in Addresses |-> f[a]]
      <4>1. identities' = [a \in Addresses |-> identities'[a]]
        BY <1>2 DEF apply_prepare
      <4> QED
        BY <4>1
    <3> QED
      BY <2>4, <3>1
  <2> QED
    BY <2>1, <2>2, <2>3, <2>5 DEF HistoryTypeOK
<1>9. StandingIsCommitted'
  <2>1. committed' = committed
    BY <1>2 DEF apply_prepare
  <2>2. ASSUME NEW a \in Addresses, InState(a, "Standing")'
        PROVE  a \in AddressesOf(committed'[identities'[a].plugin].effects)
    <3>1. identities[a] # Unrecorded
      BY <1>6, <2>2 DEF InState
    <3>2. InState(a, "Standing") /\ identities'[a] = identities[a]
      BY <1>5, <2>2, <3>1 DEF InState
    <3> QED
      BY <2>1, <3>2 DEF IInv, StandingIsCommitted
  <2>3. ASSUME NEW p \in Plugins, NEW i \in DOMAIN committed'[p].effects,
               committed'[p].effects[i].address # NoAddress
        PROVE  /\ identities'[committed'[p].effects[i].address] # Unrecorded
               /\ identities'[committed'[p].effects[i].address].state = "Standing"
               /\ identities'[committed'[p].effects[i].address].plugin = p
               /\ identities'[committed'[p].effects[i].address].effect
                     = committed'[p].effects[i]
    <3> DEFINE e == committed[p].effects[i]
    <3>1. /\ InState(e.address, "Standing")
          /\ identities[e.address].plugin = p
          /\ identities[e.address].effect = e
      BY <2>1, <2>3 DEF IInv, StandingIsCommitted
    <3>2. e.address \in Addresses
      <4>1. e \in Effect
        BY <2>1, HeldEffect DEF IInv, HistoryTypeOK
      <4> QED
        BY <2>1, <2>3, <4>1 DEF Effect
    <3> QED
      BY <1>5, <2>1, <3>1, <3>2 DEF InState
  <2> QED
    BY <2>2, <2>3 DEF StandingIsCommitted, InState
<1>10. IntroducedIsOpen'
  <2> SUFFICES ASSUME NEW a \in Addresses, InState(a, "Introduced")'
               PROVE  /\ IsOpen'
                      /\ open'.decision = "None"
                      /\ Names(open'.changes, identities'[a].plugin, a)
    BY DEF IntroducedIsOpen, Names
  <2>1. open' = [generation |-> generation, changes |-> changes, decision |-> "None"]
    BY <1>2 DEF apply_prepare
  <2>2. identities[a] = Unrecorded
    BY <1>1, <1>5 DEF InState, IInv, IntroducedIsOpen
  <2>3. Names(changes, identities'[a].plugin, a)
    BY <1>6, <2>2 DEF InState
  <2> QED
    BY <1>1, <2>1, <2>3 DEF IsOpen
<1>11. CommitFindsIdentities'
  <2>1. open' = [generation |-> generation, changes |-> changes, decision |-> "None"]
    BY <1>2 DEF apply_prepare
  <2>2. ASSUME NEW p \in Plugins, NEW a \in Dropped(p)'
        PROVE  InState(a, "Standing")' /\ identities'[a].plugin = p
    <3>1. a \in AddressesOf(committed'[p].effects)
      BY <2>2, EmptyList DEF Dropped
    <3>2. PICK i \in DOMAIN committed'[p].effects :
            committed'[p].effects[i].address = a /\ a # NoAddress
      BY <3>1, AddressOfEffect
    <3> QED
      BY <1>9, <3>2 DEF StandingIsCommitted
  <2> QED
    BY <1>7, <2>1, <2>2 DEF CommitFindsIdentities
<1> QED
  BY <1>8, <1>9, <1>10, <1>11 DEF IInv

(* Commit is accepted for the open transaction, still undecided.            *)
LEMMA CommitStep ==
    ASSUME IInv, NEW generation \in 0..MaxGeneration, Commit(generation)
    PROVE  IInv'
<1>1. /\ generation # 0
      /\ IsOpen
      /\ open.decision = "None"
      /\ open.generation = generation
  BY DEF Commit, check
<1>2. apply_commit(generation)
  BY DEF Commit
<1>3. open \in Transaction
  BY <1>1 DEF IInv, HistoryTypeOK, IsOpen, NoTransaction
<1>4. open.changes \in [Plugins -> Change]
  BY <1>3 DEF Transaction, Prepares
<1>5. \A p \in Plugins : \A i \in DOMAIN open.changes[p].effects :
        open.changes[p].effects[i] \in Effect
  BY <1>4, ListOfChange, EffectOfList
<1>6. ASSUME NEW p \in Plugins, NEW i \in DOMAIN open.changes[p].effects,
             open.changes[p].effects[i].address # NoAddress
      PROVE  /\ identities[open.changes[p].effects[i].address] \in Identity
             /\ identities[open.changes[p].effects[i].address].plugin = p
             /\ identities[open.changes[p].effects[i].address].effect
                   = open.changes[p].effects[i]
  <2>1. open.changes[p].effects[i].address \in Addresses
    BY <1>5, <1>6 DEF Effect
  <2> DEFINE e == open.changes[p].effects[i]
  <2>2. /\ identities[e.address] # Unrecorded
        /\ identities[e.address].plugin = p /\ identities[e.address].effect = e
    BY <1>1, <1>6, FoundIdentity DEF IInv
  <2>3. identities[e.address] \in Identity
    BY <2>1, <2>2 DEF IInv, HistoryTypeOK
  <2> QED
    BY <2>2, <2>3
<1>7. ASSUME NEW p \in Plugins, NEW a \in Addresses, Names(open.changes, p, a)
      PROVE  /\ identities[a] \in Identity
             /\ identities[a].plugin = p
             /\ open.changes[p] # Untouched
             /\ open.changes[p] # Removal
             /\ identities'[a] = [identities[a] EXCEPT !.state = "Standing"]
             /\ identities'[a] \in Identity
             /\ identities'[a].state = "Standing"
             /\ identities'[a].plugin = p
  <2>1. PICK i \in DOMAIN open.changes[p].effects :
          open.changes[p].effects[i].address = a /\ a # NoAddress
    BY <1>7, AddressOfEffect DEF Names
  <2>2. open.changes[p] # Untouched /\ open.changes[p] # Removal
    BY <2>1, EmptyList DEF Untouched, Removal
  <2>3. identities'[a] = [identities[a] EXCEPT !.state = "Standing"]
    BY <1>2, <1>7 DEF apply_commit
  <2>4. identities[a] \in Identity /\ identities[a].plugin = p
    BY <1>6, <2>1
  <2> QED
    BY <2>2, <2>3, <2>4, MovedIdentity, ZenonT(30)
<1>8. ASSUME NEW p \in Plugins, NEW a \in Addresses, a \in Dropped(p)
      PROVE  /\ identities[a] \in Identity
             /\ identities[a].plugin = p
             /\ open.changes[p] # Untouched
             /\ ~ \E q \in Plugins : Names(open.changes, q, a)
             /\ identities'[a] = [identities[a] EXCEPT !.state = "Retired"]
             /\ identities'[a] \in Identity
             /\ identities'[a].state = "Retired"
             /\ identities'[a].plugin = p
  <2>1. /\ identities[a] \in Identity
        /\ identities[a].plugin = p
    <3>1. identities[a] # Unrecorded /\ identities[a].plugin = p
      BY <1>1, <1>8 DEF IInv, CommitFindsIdentities, InState
    <3> QED
      BY <3>1 DEF IInv, HistoryTypeOK
  <2>2. open.changes[p] # Untouched /\ ~Names(open.changes, p, a)
    BY <1>8 DEF Dropped, Names
  <2>3. ~ \E q \in Plugins : Names(open.changes, q, a)
    BY <1>7, <2>1, <2>2
  <2>4. identities'[a] = [identities[a] EXCEPT !.state = "Retired"]
    BY <1>2, <1>8, <2>3 DEF apply_commit
  <2> QED
    BY <2>1, <2>2, <2>3, <2>4, MovedIdentity, ZenonT(30)
<1>9. ASSUME NEW a \in Addresses,
             ~ \E p \in Plugins : Names(open.changes, p, a),
             ~ \E p \in Plugins : a \in Dropped(p)
      PROVE  identities'[a] = identities[a]
  BY <1>2, <1>9 DEF apply_commit
<1>10. ASSUME NEW a \in Addresses
       PROVE  identities'[a] \in Identity \cup {Unrecorded}
  <2>1. CASE \E p \in Plugins : Names(open.changes, p, a)
    BY <1>7, <2>1
  <2>2. CASE \E p \in Plugins : a \in Dropped(p)
    BY <1>8, <2>2
  <2> QED
    BY <1>9, <2>1, <2>2 DEF IInv, HistoryTypeOK
<1>11. HistoryTypeOK'
  <2>1. lastGeneration' \in 0..MaxGeneration
    BY <1>2 DEF apply_commit, IInv, HistoryTypeOK
  <2>2. open' \in Transaction
    BY <1>2, <1>3 DEF apply_commit, Transaction
  <2>3. ASSUME NEW p \in Plugins
        PROVE  committed'[p] \in Attachment \cup {NotAttached}
    <3>1. CASE open.changes[p] = Untouched
      BY <1>2, <3>1 DEF apply_commit, IInv, HistoryTypeOK
    <3>2. CASE open.changes[p] = Removal
      BY <1>2, <3>2 DEF apply_commit, Removal, Untouched
    <3>3. CASE open.changes[p] # Untouched /\ open.changes[p] # Removal
      <4>1. committed'[p] = [generation |-> generation,
                             effects |-> open.changes[p].effects]
        BY <1>2, <3>3 DEF apply_commit
      <4>2. open.changes[p].effects \in EffectLists
        BY <1>4, ListOfChange
      <4> QED
        BY <1>1, <4>1, <4>2 DEF Attachment
    <3> QED
      BY <3>1, <3>2, <3>3
  <2>4. committed' = [p \in Plugins |-> committed'[p]]
    BY <1>2 DEF apply_commit
  <2>5. identities' = [a \in Addresses |-> identities'[a]]
    BY <1>2 DEF apply_commit
  <2> QED
    BY <1>10, <2>1, <2>2, <2>3, <2>4, <2>5 DEF HistoryTypeOK
<1>12. ASSUME NEW a \in Addresses, InState(a, "Standing")'
       PROVE  a \in AddressesOf(committed'[identities'[a].plugin].effects)
  <2>1. CASE \E p \in Plugins : Names(open.changes, p, a)
    <3>1. PICK p \in Plugins : Names(open.changes, p, a)
      BY <2>1
    <3>2. identities'[a].plugin = p
      BY <1>7, <3>1
    <3>3. committed'[p].effects = open.changes[p].effects
      BY <1>2, <1>7, <3>1 DEF apply_commit
    <3> QED
      BY <3>1, <3>2, <3>3 DEF Names
  <2>2. CASE \E p \in Plugins : a \in Dropped(p)
    BY <1>8, <1>12, <2>2 DEF InState
  <2>3. CASE /\ ~ \E p \in Plugins : Names(open.changes, p, a)
             /\ ~ \E p \in Plugins : a \in Dropped(p)
    <3>1. identities'[a] = identities[a] /\ InState(a, "Standing")
      BY <1>9, <1>12, <2>3 DEF InState
    <3>2. identities[a].plugin \in Plugins
      BY <3>1 DEF IInv, HistoryTypeOK, InState, Identity
    <3>3. a \in AddressesOf(committed[identities[a].plugin].effects)
      BY <3>1 DEF IInv, StandingIsCommitted
    <3>4. open.changes[identities[a].plugin] = Untouched
      BY <2>3, <3>2, <3>3 DEF Dropped, Names
    <3>5. committed'[identities[a].plugin] = committed[identities[a].plugin]
      BY <1>2, <3>2, <3>4 DEF apply_commit
    <3> QED
      BY <3>1, <3>3, <3>5
  <2> QED
    BY <2>1, <2>2, <2>3
<1>13. ASSUME NEW p \in Plugins, NEW i \in DOMAIN committed'[p].effects,
              committed'[p].effects[i].address # NoAddress
       PROVE  /\ identities'[committed'[p].effects[i].address] # Unrecorded
              /\ identities'[committed'[p].effects[i].address].state = "Standing"
              /\ identities'[committed'[p].effects[i].address].plugin = p
              /\ identities'[committed'[p].effects[i].address].effect
                    = committed'[p].effects[i]
  <2> DEFINE e == committed'[p].effects[i]
  <2>1. e \in Effect /\ e.address \in Addresses
    <3>1. e \in Effect
      BY <1>11, HeldEffect DEF HistoryTypeOK
    <3> QED
      BY <1>13, <3>1 DEF Effect
  <2>2. CASE open.changes[p] = Untouched
    <3>1. committed'[p] = committed[p]
      BY <1>2, <2>2 DEF apply_commit
    <3>2. /\ InState(e.address, "Standing")
          /\ identities[e.address].plugin = p
          /\ identities[e.address].effect = e
      BY <1>13, <3>1 DEF IInv, StandingIsCommitted
    <3> HIDE DEF e
    <3>3. ASSUME NEW q \in Plugins, Names(open.changes, q, e.address)
          PROVE  FALSE
      <4>1. identities[e.address].plugin = q /\ open.changes[q] # Untouched
        BY <1>7, <2>1, <3>3
      <4> QED
        BY <2>2, <3>2, <4>1
    <3>4. ASSUME NEW q \in Plugins, e.address \in Dropped(q)
          PROVE  FALSE
      <4>1. identities[e.address].plugin = q /\ open.changes[q] # Untouched
        BY <1>8, <2>1, <3>4
      <4> QED
        BY <2>2, <3>2, <4>1
    <3>5. identities'[e.address] = identities[e.address]
      BY <1>9, <2>1, <3>3, <3>4
    <3> USE DEF e
    <3> QED
      BY <3>2, <3>5 DEF InState
  <2>3. CASE open.changes[p] # Untouched
    <3>1. committed'[p].effects = open.changes[p].effects
      BY <1>2, <1>13, <2>3, EmptyList DEF apply_commit, NotAttached
    <3>2. Names(open.changes, p, e.address)
      BY <1>13, <3>1, AddressOfEffect DEF Names
    <3>3. /\ identities[e.address] \in Identity
          /\ identities[e.address].plugin = p
          /\ identities[e.address].effect = e
      BY <1>6, <1>13, <3>1
    <3>4. identities'[e.address] = [identities[e.address] EXCEPT !.state = "Standing"]
      BY <1>7, <2>1, <3>2
    <3>5. /\ identities'[e.address] # Unrecorded
          /\ identities'[e.address].state = "Standing"
          /\ identities'[e.address].plugin = p
          /\ identities'[e.address].effect = e
      <4>1. \A id \in Identity : LET moved == [id EXCEPT !.state = "Standing"] IN
                /\ moved # Unrecorded
                /\ moved.state = "Standing"
                /\ moved.plugin = id.plugin
                /\ moved.effect = id.effect
        BY MovedIdentity
      <4> QED
        BY <3>3, <3>4, <4>1, ZenonT(30)
    <3> QED
      BY <3>5 DEF e
  <2> QED
    BY <2>2, <2>3
<1>14. StandingIsCommitted'
  BY <1>12, <1>13 DEF StandingIsCommitted, InState
<1>15. IntroducedIsOpen'
  <2> SUFFICES ASSUME NEW a \in Addresses, InState(a, "Introduced")'
               PROVE  FALSE
    BY DEF IntroducedIsOpen
  <2>1. CASE \E p \in Plugins : Names(open.changes, p, a)
    BY <1>7, <2>1 DEF InState
  <2>2. CASE \E p \in Plugins : a \in Dropped(p)
    BY <1>8, <2>2 DEF InState
  <2>3. CASE /\ ~ \E p \in Plugins : Names(open.changes, p, a)
             /\ ~ \E p \in Plugins : a \in Dropped(p)
    <3>1. InState(a, "Introduced") /\ identities[a].plugin \in Plugins
      BY <1>9, <2>3 DEF InState, IInv, HistoryTypeOK, Identity
    <3> QED
      BY <2>3, <3>1 DEF IInv, IntroducedIsOpen
  <2> QED
    BY <2>1, <2>2, <2>3
<1>16. CommitFindsIdentities'
  BY <1>2, <1>3 DEF apply_commit, CommitFindsIdentities, Transaction
<1> QED
  BY <1>11, <1>14, <1>15, <1>16 DEF IInv

LEMMA AbortStep ==
    ASSUME IInv, NEW generation \in 0..MaxGeneration, Abort(generation)
    PROVE  IInv'
<1>1. IsOpen /\ open \in Transaction
  BY DEF Abort, check, IInv, HistoryTypeOK, IsOpen, NoTransaction
<1>2. /\ open' = [open EXCEPT !.decision = "Abort"]
      /\ committed' = committed
      /\ lastGeneration' = lastGeneration
  BY DEF Abort, apply_abort
<1>3. ASSUME NEW a \in Addresses, InState(a, "Introduced")
      PROVE  /\ identities'[a] \in Identity
             /\ identities'[a].state = "Retired"
  <2>1. identities'[a] = [identities[a] EXCEPT !.state = "Retired"]
    BY <1>3 DEF Abort, apply_abort
  <2>2. identities[a] \in Identity
    BY <1>3 DEF IInv, HistoryTypeOK, InState
  <2> QED
    BY <2>1, <2>2, MovedIdentity, ZenonT(30)
<1>4. ASSUME NEW a \in Addresses, ~InState(a, "Introduced")
      PROVE  identities'[a] = identities[a]
  BY <1>4 DEF Abort, apply_abort
<1>5. HistoryTypeOK'
  <2>1. open' \in Transaction
    BY <1>1, <1>2 DEF Transaction
  <2>2. \A a \in Addresses : identities'[a] \in Identity \cup {Unrecorded}
    BY <1>3, <1>4 DEF IInv, HistoryTypeOK
  <2>3. identities' = [a \in Addresses |-> identities'[a]]
    BY DEF Abort, apply_abort
  <2> QED
    BY <1>2, <2>1, <2>2, <2>3 DEF IInv, HistoryTypeOK
<1>6. ASSUME NEW a \in Addresses, InState(a, "Standing")'
      PROVE  a \in AddressesOf(committed'[identities'[a].plugin].effects)
  <2>1. InState(a, "Standing") /\ identities'[a] = identities[a]
    BY <1>3, <1>4, <1>6 DEF InState
  <2> QED
    BY <1>2, <2>1 DEF IInv, StandingIsCommitted
<1>7. ASSUME NEW p \in Plugins, NEW i \in DOMAIN committed'[p].effects,
             committed'[p].effects[i].address # NoAddress
      PROVE  /\ identities'[committed'[p].effects[i].address] # Unrecorded
             /\ identities'[committed'[p].effects[i].address].state = "Standing"
             /\ identities'[committed'[p].effects[i].address].plugin = p
             /\ identities'[committed'[p].effects[i].address].effect
                   = committed'[p].effects[i]
  <2> DEFINE e == committed[p].effects[i]
  <2>1. e \in Effect /\ e.address \in Addresses
    <3>1. e \in Effect
      BY <1>2, HeldEffect DEF IInv, HistoryTypeOK
    <3> QED
      BY <1>2, <1>7, <3>1 DEF Effect
  <2>2. /\ InState(e.address, "Standing")
        /\ identities[e.address].plugin = p
        /\ identities[e.address].effect = e
    BY <1>2, <1>7 DEF IInv, StandingIsCommitted
  <2>3. identities'[e.address] = identities[e.address]
    BY <1>4, <2>1, <2>2 DEF InState
  <2> QED
    BY <1>2, <2>2, <2>3 DEF InState
<1>8. StandingIsCommitted'
  BY <1>6, <1>7 DEF StandingIsCommitted, InState
<1>9. IntroducedIsOpen'
  BY <1>3, <1>4 DEF IntroducedIsOpen, InState
<1>10. CommitFindsIdentities'
  BY <1>1, <1>2 DEF CommitFindsIdentities, Transaction
<1> QED
  BY <1>5, <1>8, <1>9, <1>10 DEF IInv

LEMMA FinishStep ==
    ASSUME IInv, NEW generation \in 0..MaxGeneration, Finish(generation)
    PROVE  IInv'
<1>1. IsOpen /\ open.decision # "None"
  BY DEF Finish, check
<1>2. /\ open' = NoTransaction
      /\ UNCHANGED <<lastGeneration, committed, identities>>
  BY DEF Finish, apply_finish
<1>3. HistoryTypeOK'
  BY <1>2 DEF IInv, HistoryTypeOK
<1>4. StandingIsCommitted'
  BY <1>2 DEF IInv, StandingIsCommitted, InState
<1>5. IntroducedIsOpen'
  BY <1>1, <1>2 DEF IInv, IntroducedIsOpen, InState
<1>6. CommitFindsIdentities'
  BY <1>2 DEF CommitFindsIdentities, IsOpen, NoTransaction
<1> QED
  BY <1>3, <1>4, <1>5, <1>6 DEF IInv

(* A step that changes nothing keeps the invariant.                         *)
LEMMA StutterStep == IInv /\ UNCHANGED historyVars => IInv'
<1> SUFFICES ASSUME IInv, UNCHANGED historyVars PROVE IInv'
  OBVIOUS
<1>1. UNCHANGED <<lastGeneration, open, committed, identities>>
  BY DEF historyVars
<1>2. HistoryTypeOK'
  BY <1>1 DEF IInv, HistoryTypeOK
<1>3. StandingIsCommitted'
  BY <1>1 DEF IInv, StandingIsCommitted, InState
<1>4. IntroducedIsOpen'
  BY <1>1 DEF IInv, IntroducedIsOpen, InState, IsOpen, Names
<1>5. CommitFindsIdentities'
  <2> DEFINE Found(p, changes, ids) ==
        \A i \in DOMAIN changes[p].effects :
            LET e == changes[p].effects[i] IN
                e.address # NoAddress =>
                    /\ ids[e.address] # Unrecorded
                    /\ ids[e.address].plugin = p
                    /\ ids[e.address].effect = e
                    /\ ids[e.address].state # "Retired"
  <2>1. IsOpen' = IsOpen /\ open'.decision = open.decision /\ open'.changes = open.changes
    BY <1>1 DEF IsOpen
  <2>2. ASSUME IsOpen, open.decision = "None", NEW p \in Plugins
        PROVE  /\ Found(p, open.changes, identities)
               /\ \A a \in Dropped(p) : InState(a, "Standing") /\ identities[a].plugin = p
    BY <2>2 DEF IInv, CommitFindsIdentities
  <2>3. ASSUME IsOpen', open'.decision = "None", NEW p \in Plugins
        PROVE  /\ Found(p, open'.changes, identities')
               /\ \A a \in Dropped(p)' : InState(a, "Standing")' /\ identities'[a].plugin = p
    <3>1. Dropped(p)' = Dropped(p) /\ \A a : InState(a, "Standing")' = InState(a, "Standing")
      BY <1>1 DEF Dropped, Names, InState
    <3>2. Found(p, open'.changes, identities')
      <4>1. Found(p, open.changes, identities)
        BY <2>1, <2>2, <2>3
      <4> HIDE DEF Found
      <4> QED
        BY <1>1, <2>1, <4>1
    <3> HIDE DEF Found
    <3>3. \A a \in Dropped(p) : InState(a, "Standing") /\ identities[a].plugin = p
      BY <2>1, <2>2, <2>3
    <3>4. \A a \in Dropped(p)' : InState(a, "Standing")' /\ identities'[a].plugin = p
      BY <1>1, <3>1, <3>3
    <3> QED
      BY <3>2, <3>4
  <2> QED
    BY <2>3 DEF CommitFindsIdentities
<1> QED
  BY <1>2, <1>3, <1>4, <1>5 DEF IInv

LEMMA InvStep == IInv /\ [HistoryNext]_historyVars => IInv'
<1> SUFFICES ASSUME IInv, [HistoryNext]_historyVars PROVE IInv'
  OBVIOUS
<1>1. ASSUME NEW generation \in 0..MaxGeneration,
             Prepare(generation) \/ Commit(generation)
                \/ Abort(generation) \/ Finish(generation)
      PROVE  IInv'
  BY <1>1, PrepareStep, CommitStep, AbortStep, FinishStep
<1> QED
  BY <1>1, StutterStep DEF HistoryNext

(* The invariants of the history hold in every reachable state, whatever    *)
(* records a journal holds: types, agreement of `identities` with           *)
(* `committed`, no address left merely introduced, and no panic in commit.  *)
THEOREM HistoryInvariant == HistorySpec => []IInv
BY InvInit, InvStep, PTL DEF HistorySpec

(* The address table and the committed attachments of `apply` never         *)
(* disagree, and no abort or finish leaves an address merely introduced.    *)
THEOREM StandingTheorem == HistorySpec => []IdentityStates
<1>1. IInv => IdentityStates
  BY DEF IInv, IdentityStates
<1> QED
  BY <1>1, HistoryInvariant, PTL

(* Every part of the history keeps its type.                                *)
THEOREM TypeTheorem == HistorySpec => []HistoryTypeOK
<1>1. IInv => HistoryTypeOK
  BY DEF IInv
<1> QED
  BY <1>1, HistoryInvariant, PTL

(* Commit never meets an address it has no identity for.                    *)
THEOREM NoCommitPanic == HistorySpec => []CommitFindsIdentities
<1>1. IInv => CommitFindsIdentities
  BY DEF IInv
<1> QED
  BY <1>1, HistoryInvariant, PTL

(* The history's tables agree and its commits cannot panic.                 *)
THEOREM AgreeingHistory == HistorySpec => []HistoryAgrees
  BY StandingTheorem, NoCommitPanic, PTL DEF HistoryAgrees

----------------------------------------------------------------------------
(* Identities are for life                                                  *)

(* What no step may do to the record of one address.                        *)
ForLife(a) ==
    identities[a] # Unrecorded =>
        /\ identities'[a] # Unrecorded
        /\ identities'[a].plugin = identities[a].plugin
        /\ identities'[a].effect = identities[a].effect
        /\ identities[a].state = "Retired" => identities'[a].state = "Retired"
        /\ identities[a].state = "Standing" => identities'[a].state # "Introduced"

(* A move to standing or to retirement that leaves no retirement.           *)
LEMMA MovedForLife ==
    ASSUME NEW a \in Addresses, NEW s \in {"Standing", "Retired"},
           identities[a] \in Identity,
           identities'[a] = [identities[a] EXCEPT !.state = s],
           identities[a].state = "Retired" => s = "Retired"
    PROVE  ForLife(a)
<1> DEFINE old == identities[a]
           new == identities'[a]
<1>1. old \in Identity /\ new = [old EXCEPT !.state = s]
  OBVIOUS
<1> HIDE DEF old, new
<1>2. new \in Identity
  BY <1>1 DEF Identity
<1>3. new # Unrecorded /\ new.plugin = old.plugin /\ new.effect = old.effect /\ new.state = s
  BY <1>1, <1>2, HistoryAssumption DEF Identity, Effect
<1> QED
  BY <1>3 DEF ForLife, old, new

(* Commit moves what its transaction names, which is not retired, to        *)
(* standing, and what it drops, which stands, to retired.                   *)
LEMMA CommitForLife ==
    ASSUME IInv, NEW generation \in 0..MaxGeneration, Commit(generation), NEW a \in Addresses
    PROVE  ForLife(a)
<1> SUFFICES ASSUME identities[a] # Unrecorded PROVE ForLife(a)
  BY DEF ForLife
<1>1. identities[a] \in Identity
  BY DEF IInv, HistoryTypeOK
<1>2. IsOpen /\ open.decision = "None" /\ apply_commit(generation)
  BY DEF Commit, check
<1>3. CASE \E p \in Plugins : Names(open.changes, p, a)
  <2>1. PICK p \in Plugins : Names(open.changes, p, a)
    BY <1>3
  <2>2. PICK i \in DOMAIN open.changes[p].effects :
            open.changes[p].effects[i].address = a /\ a # NoAddress
    BY <2>1 DEF Names, AddressesOf
  <2>3. identities[a].state # "Retired"
    BY <1>2, <2>2 DEF IInv, CommitFindsIdentities
  <2>4. identities'[a] = [identities[a] EXCEPT !.state = "Standing"]
    BY <1>2, <1>3 DEF apply_commit
  <2> QED
    BY <1>1, <2>3, <2>4, MovedForLife
<1>4. CASE ~ \E p \in Plugins : Names(open.changes, p, a)
  <2>1. \/ identities'[a] = identities[a]
        \/ identities'[a] = [identities[a] EXCEPT !.state = "Retired"]
    BY <1>2, <1>4 DEF apply_commit
  <2>2. CASE identities'[a] = identities[a]
    BY <2>2 DEF ForLife
  <2> QED
    BY <1>1, <2>1, <2>2, MovedForLife
<1> QED
  BY <1>3, <1>4

LEMMA StepForLife ==
    ASSUME IInv, [HistoryNext]_historyVars, NEW a \in Addresses
    PROVE  ForLife(a)
<1>1. ASSUME NEW generation \in 0..MaxGeneration, Prepare(generation)
      PROVE  ForLife(a)
  BY <1>1 DEF Prepare, apply_prepare, ForLife
<1>2. ASSUME NEW generation \in 0..MaxGeneration, Abort(generation)
      PROVE  ForLife(a)
  <2>1. CASE identities[a] # Unrecorded /\ InState(a, "Introduced")
    <3>1. identities'[a] = [identities[a] EXCEPT !.state = "Retired"]
      BY <1>2, <2>1 DEF Abort, apply_abort
    <3>2. identities[a] \in Identity /\ identities[a].state = "Introduced"
      BY <2>1 DEF InState, IInv, HistoryTypeOK
    <3> QED
      BY <3>1, <3>2, MovedForLife
  <2>2. CASE ~InState(a, "Introduced")
    BY <1>2, <2>2 DEF Abort, apply_abort, ForLife
  <2> QED
    BY <2>1, <2>2 DEF ForLife
<1>3. ASSUME UNCHANGED identities
      PROVE  ForLife(a)
  BY <1>3 DEF ForLife
<1> QED
  BY <1>1, <1>2, <1>3, CommitForLife DEF HistoryNext, Finish, apply_finish, historyVars

(* An address keeps the plugin and the effect that `apply` first recorded   *)
(* for it, never comes back from retirement and never falls back from       *)
(* standing to introduced, for any journal.                                 *)
THEOREM ForLifeTheorem == HistorySpec => IdentityIsForLife
<1>1. IInv /\ [HistoryNext]_historyVars => [\A a \in Addresses : ForLife(a)]_historyVars
  BY StepForLife
<1>2. IInv /\ [HistoryNext]_historyVars =>
        [\A a \in Addresses : identities[a] # Unrecorded =>
          /\ identities'[a] # Unrecorded
          /\ identities'[a].plugin = identities[a].plugin
          /\ identities'[a].effect = identities[a].effect
          /\ identities[a].state = "Retired" => identities'[a].state = "Retired"
          /\ identities[a].state = "Standing" => identities'[a].state # "Introduced"]_historyVars
  BY <1>1 DEF ForLife
<1> QED
  BY <1>2, HistoryInvariant, InvStep, PTL DEF HistorySpec, IdentityIsForLife

----------------------------------------------------------------------------
(* The session log: acknowledged events are kept, in order, and only the    *)
(* holder of the lock writes.  None of the three is inductive.  LockInv     *)
(* ties the flock, the state of a log, the mutex and the place of a thread  *)
(* together; FileInv says that the file under an open log is readable and   *)
(* where its numbering stands.                                              *)

Inside == {"write", "sync"}

LockInv ==
    /\ \A l \in Logs : log[l].state \in {"opening", "open"} <=> flock = l
    /\ \A t \in Threads : pc[t] = "idle" <=> using[t] = None
    /\ \A t \in Threads : using[t] # None => log[using[t]].state \in {"open", "poisoned"}
    /\ \A t \in Threads : pc[t] \in Inside => log[using[t]].state = "open"
    /\ \A t \in Threads, l \in Logs : mutex[l] = t <=> using[t] = l /\ pc[t] \in Inside

Syncing(l) == \E t \in Threads : using[t] = l /\ pc[t] = "sync"

FileInv ==
    /\ flock # None => scan_lines
    /\ \A l \in Logs : flock = l =>
          log[l].next_seq = IF Syncing(l) THEN LastSeq ELSE LastSeq + 1
    /\ \A t \in Threads : pc[t] = "sync" => durable < Len(lines) /\ Len(lines) \notin dropped

SInv == TypeOK /\ LockInv /\ FileInv /\ AckedIsKept /\ AckedInOrder

USE SessionLogAssumption

LEMMA LogInit == Init => SInv
  <1> SUFFICES ASSUME Init PROVE SInv
    OBVIOUS
  <1>1. TypeOK
    BY DEF Init, TypeOK, Closed
  <1>2. LockInv
    BY DEF Init, LockInv, Closed, Inside
  <1>3. FileInv /\ AckedIsKept /\ AckedInOrder
    BY DEF Init, FileInv, AckedIsKept, AckedInOrder
  <1> QED  BY <1>1, <1>2, <1>3 DEF SInv

----------------------------------------------------------------------------
(* Facts about the file and the logs                                        *)

LogStates == [state : {"closed", "opening", "open", "poisoned"}, next_seq : 0..MaxSeq]

LEMMA LastSeqType == ASSUME lines \in Seq(Lines) PROVE LastSeq \in 0..MaxSeq
  <1>1. CASE lines = <<>>
    BY <1>1 DEF LastSeq
  <1>2. CASE lines # <<>>
    <2>1. lines[Len(lines)] \in Lines
      BY <1>2
    <2> QED  BY <1>2, <2>1 DEF LastSeq, Lines
  <1> QED  BY <1>1, <1>2

LEMMA AppendFacts ==
    ASSUME NEW S, NEW s \in Seq(S), NEW e \in S
    PROVE  /\ Append(s, e) \in Seq(S)
           /\ Len(Append(s, e)) = Len(s) + 1
           /\ Append(s, e)[Len(s) + 1] = e
           /\ \A i \in 1..Len(s) : Append(s, e)[i] = s[i]
  OBVIOUS

LEMMA SetState ==
    ASSUME log \in [Logs -> LogStates], NEW l \in Logs,
           NEW state \in {"closed", "opening", "open", "poisoned"}
    PROVE  /\ [log EXCEPT ![l].state = state] \in [Logs -> LogStates]
           /\ [log EXCEPT ![l].state = state][l].state = state
           /\ [log EXCEPT ![l].state = state][l].next_seq = log[l].next_seq
           /\ \A k \in Logs \ {l} : [log EXCEPT ![l].state = state][k] = log[k]
  BY DEF LogStates

LEMMA SetSeq ==
    ASSUME log \in [Logs -> LogStates], NEW l \in Logs, NEW n \in 0..MaxSeq
    PROVE  /\ [log EXCEPT ![l].next_seq = n] \in [Logs -> LogStates]
           /\ [log EXCEPT ![l].next_seq = n][l].state = log[l].state
           /\ [log EXCEPT ![l].next_seq = n][l].next_seq = n
           /\ \A k \in Logs \ {l} : [log EXCEPT ![l].next_seq = n][k] = log[k]
  BY DEF LogStates

(* What a power loss leaves.                                                *)
LEMMA PowerLossFacts ==
    ASSUME TypeOK, PowerLoss
    PROVE  /\ lines' \in Seq(Lines)
           /\ durable' = Len(lines')
           /\ durable <= durable'
           /\ \A i \in 1..durable : i \notin dropped => lines'[i] = lines[i]
  <1>1. PICK keep \in durable..Len(lines), torn \in BOOLEAN :
           /\ lines' = [i \in 1..keep |->
                          [lines[i] EXCEPT !.whole =
                              /\ lines[i].whole
                              /\ i \notin dropped
                              /\ ~(torn /\ i = keep /\ keep > durable)]]
           /\ durable' = keep
    BY DEF PowerLoss
  <1>2. keep \in Nat /\ keep <= Len(lines) /\ durable <= keep /\ durable \in Nat
    BY DEF TypeOK
  <1>3. \A i \in 1..keep : lines[i] \in Lines
    BY <1>2 DEF TypeOK
  <1>4. \A i \in 1..keep : \A w \in BOOLEAN : [lines[i] EXCEPT !.whole = w] \in Lines
    BY <1>3 DEF Lines
  <1>5. \A i \in 1..keep : lines'[i] \in Lines
    BY <1>1, <1>4
  <1>6. lines' \in Seq(Lines) /\ Len(lines') = keep
    BY <1>1, <1>2, <1>5
  <1>7. ASSUME NEW i \in 1..durable, i \notin dropped PROVE lines'[i] = lines[i]
    <2>1. i \in 1..keep /\ ~(i = keep /\ keep > durable)
      BY <1>2
    <2>2. lines'[i] = [lines[i] EXCEPT !.whole = lines[i].whole]
      <3>1. lines[i].whole \in BOOLEAN
        BY <2>1, <1>3 DEF Lines
      <3>2. (/\ lines[i].whole /\ i \notin dropped
             /\ ~(torn /\ i = keep /\ keep > durable)) = lines[i].whole
        BY <2>1, <3>1, <1>7
      <3> QED  BY <1>1, <2>1, <3>2
    <2> QED  BY <2>1, <2>2, <1>3 DEF Lines
  <1> QED  BY <1>1, <1>2, <1>6, <1>7

(* A thread past the mutex is alone in its log, which holds the lock.       *)
LEMMA InsideFacts ==
    ASSUME TypeOK, LockInv, NEW t \in Threads, pc[t] \in Inside
    PROVE  /\ using[t] \in Logs
           /\ flock = using[t]
           /\ flock # None
           /\ log[using[t]].state = "open"
           /\ mutex[using[t]] = t
           /\ \A u \in Threads : using[u] = using[t] /\ pc[u] \in Inside => u = t
  <1>1. using[t] \in Logs /\ using[t] # None
    BY DEF TypeOK, LockInv, Inside
  <1>2. log[using[t]].state = "open" /\ flock = using[t]
    BY <1>1 DEF LockInv
  <1>3. mutex[using[t]] = t
    BY <1>1 DEF LockInv
  <1>4. ASSUME NEW u \in Threads, using[u] = using[t], pc[u] \in Inside PROVE u = t
    BY <1>1, <1>3, <1>4 DEF LockInv
  <1> QED  BY <1>1, <1>2, <1>3, <1>4

LEMMA WriteFacts ==
    ASSUME TypeOK, LockInv, FileInv, NEW t \in Threads, pc[t] = "write"
    PROVE  log[using[t]].next_seq = LastSeq + 1 /\ LastSeq + 1 \in 1..MaxSeq
  <1>1. pc[t] \in Inside
    BY DEF Inside
  <1>2. ~Syncing(using[t])
    BY <1>1, InsideFacts DEF Syncing, Inside
  <1>3. log[using[t]].next_seq = LastSeq + 1
    BY <1>1, <1>2, InsideFacts DEF FileInv
  <1>4. log[using[t]].next_seq \in 0..MaxSeq /\ LastSeq \in 0..MaxSeq
    BY <1>1, InsideFacts, LastSeqType DEF TypeOK
  <1> QED  BY <1>3, <1>4

LEMMA SyncFacts ==
    ASSUME TypeOK, LockInv, FileInv, NEW t \in Threads, pc[t] = "sync"
    PROVE  /\ log[using[t]].next_seq = LastSeq
           /\ Len(lines) \in 1..Len(lines)
           /\ lines[Len(lines)] \in Lines
           /\ lines[Len(lines)].seq = LastSeq
  <1>1. pc[t] \in Inside
    BY DEF Inside
  <1>2. log[using[t]].next_seq = LastSeq
    BY <1>1, InsideFacts DEF FileInv, Syncing
  <1>3. durable < Len(lines) /\ durable \in Nat /\ Len(lines) \in Nat
    BY DEF FileInv, TypeOK
  <1>4. Len(lines) \in 1..Len(lines) /\ lines # <<>>
    BY <1>3
  <1> QED  BY <1>2, <1>4 DEF TypeOK, LastSeq

LEMMA PoisonFacts ==
    ASSUME TypeOK, NEW l \in Logs, poison(l)
    PROVE  /\ log' \in [Logs -> LogStates]
           /\ log'[l].state = "poisoned"
           /\ \A k \in Logs \ {l} : log'[k] = log[k]
           /\ flock' = Unlocked(l)
           /\ flock' \in Logs \cup {None}
  <1>1. log \in [Logs -> LogStates]
    BY DEF TypeOK, LogStates
  <1> QED  BY <1>1, SetState DEF poison, Unlocked, TypeOK

LEMMA ReturnFacts ==
    ASSUME TypeOK, NEW t \in Threads, Return(t)
    PROVE  /\ pc' \in [Threads -> {"idle", "lock", "write", "sync"}]
           /\ using' \in [Threads -> Logs \cup {None}]
           /\ mutex' \in [Logs -> Threads \cup {None}]
           /\ pc'[t] = "idle" /\ using'[t] = None
           /\ \A u \in Threads \ {t} : pc'[u] = pc[u] /\ using'[u] = using[u]
           /\ \A l \in Logs : mutex'[l] = IF mutex[l] = t THEN None ELSE mutex[l]
  BY DEF TypeOK, Return

----------------------------------------------------------------------------
(* One lemma per action.                                                    *)

LEMMA TypeStep == SInv /\ [Next]_vars => TypeOK'
  <1> SUFFICES ASSUME SInv, [Next]_vars PROVE TypeOK'
    OBVIOUS
  <1>0. TypeOK /\ LockInv /\ FileInv /\ log \in [Logs -> LogStates] /\ LastSeq \in 0..MaxSeq
    BY LastSeqType DEF SInv, TypeOK, LogStates
  <1>1. ASSUME NEW l \in Logs, open_with(l) PROVE TypeOK'
    <2>1. log' \in [Logs -> LogStates]
      BY <1>0, <1>1 DEF open_with, LogStates
    <2> QED  BY <1>0, <1>1, <2>1 DEF open_with, TypeOK, file, LogStates
  <1>2. ASSUME NEW l \in Logs, sync_open(l) PROVE TypeOK'
    <2>1. log' \in [Logs -> LogStates]
      <3>1. CASE log' = [log EXCEPT ![l].state = "open"]
        BY <1>0, <3>1, SetState
      <3>2. CASE log' = [log EXCEPT ![l] = Closed]
        BY <1>0, <3>2 DEF LogStates, Closed
      <3> QED  BY <1>2, <3>1, <3>2 DEF sync_open
    <2>2. durable' \in 0..Len(lines) /\ dropped' \subseteq DOMAIN lines
      BY <1>0, <1>2 DEF sync_open, TypeOK, Undurable
    <2> QED  BY <1>0, <1>2, <2>1, <2>2 DEF sync_open, Unlocked, TypeOK, LogStates
  <1>3. ASSUME NEW l \in Logs, drop(l) \/ Die(l) PROVE TypeOK'
    <2>1. log' \in [Logs -> LogStates]
      BY <1>0, <1>3 DEF drop, Die, LogStates, Closed
    <2> QED  BY <1>0, <1>3, <2>1 DEF drop, Die, Unlocked, TypeOK, file, LogStates
  <1>5. ASSUME NEW t \in Threads, NEW l \in Logs, append(t, l) PROVE TypeOK'
    BY <1>0, <1>5 DEF append, TypeOK, file
  <1>6. ASSUME NEW t \in Threads, lock_state(t) PROVE TypeOK'
    <2>1. mutex' \in [Logs -> Threads \cup {None}] /\ pc' \in [Threads -> {"idle", "lock", "write", "sync"}]
            /\ using' \in [Threads -> Logs \cup {None}]
      <3>1. CASE Return(t)
        BY <1>0, <3>1, ReturnFacts
      <3>2. CASE /\ mutex' = [mutex EXCEPT ![using[t]] = t]
                 /\ pc' = [pc EXCEPT ![t] = "write"]
                 /\ using' = using
        BY <1>0, <3>2 DEF TypeOK
      <3> QED  BY <1>6, <3>1, <3>2 DEF lock_state
    <2> QED  BY <1>0, <1>6, <2>1 DEF lock_state, TypeOK, file
  <1>7. ASSUME NEW t \in Threads, write_all(t) PROVE TypeOK'
    <2>1. pc[t] = "write" /\ pc[t] \in Inside /\ using[t] \in Logs
      BY <1>0, <1>7, InsideFacts DEF write_all, Inside
    <2>2. ASSUME Written(using[t], TRUE) \/ Written(using[t], FALSE)
          PROVE  /\ lines' \in Seq(Lines) /\ Len(lines') = Len(lines) + 1
                 /\ events' \in 0..MaxEvents
      <3>1. events \in Nat /\ events + 1 \in 1..MaxEvents
        BY <1>0, <2>2 DEF Written, TypeOK
      <3>2. PICK line \in Lines : lines' = Append(lines, line)
        BY <1>0, <2>1, <2>2, <3>1, WriteFacts DEF Lines, Written
      <3>3. lines \in Seq(Lines) /\ events' = events + 1
        BY <1>0, <2>2 DEF Written, TypeOK
      <3> QED  BY <3>1, <3>2, <3>3, AppendFacts
    <2>3. lines' \in Seq(Lines) /\ Len(lines') >= Len(lines) /\ events' \in 0..MaxEvents
      <3>0. Len(lines) \in Nat
        BY <1>0 DEF TypeOK
      <3>1. CASE Written(using[t], TRUE)
        BY <3>0, <2>2, <3>1
      <3>2. CASE Written(using[t], FALSE)
        BY <3>0, <2>2, <3>2
      <3>3. CASE UNCHANGED <<lines, events>>
        BY <1>0, <3>0, <3>3 DEF TypeOK
      <3> QED  BY <1>7, <3>1, <3>2, <3>3 DEF write_all
    <2>4. log' \in [Logs -> LogStates] /\ flock' \in Logs \cup {None}
      BY <1>0, <1>7, <2>1, PoisonFacts DEF write_all, TypeOK
    <2>5. /\ mutex' \in [Logs -> Threads \cup {None}]
          /\ pc' \in [Threads -> {"idle", "lock", "write", "sync"}]
          /\ using' \in [Threads -> Logs \cup {None}]
      BY <1>0, <1>7, ReturnFacts DEF write_all, TypeOK
    <2>6. durable' \in 0..Len(lines') /\ dropped' \subseteq DOMAIN lines' /\ acked' \in Seq(Lines)
      BY <1>0, <1>7, <2>3 DEF write_all, TypeOK
    <2> QED  BY <2>3, <2>4, <2>5, <2>6 DEF TypeOK, LogStates
  <1>8. ASSUME NEW t \in Threads, sync_all(t) PROVE TypeOK'
    <2>1. pc[t] = "sync" /\ pc[t] \in Inside /\ using[t] \in Logs
      BY <1>0, <1>8, InsideFacts DEF sync_all, Inside
    <2>2. acked' \in Seq(Lines)
      <3>1. acked \in Seq(Lines) /\ lines[Len(lines)] \in Lines
        BY <1>0, <2>1, SyncFacts DEF TypeOK
      <3>2. acked' \in {acked, Append(acked, lines[Len(lines)])}
        BY <1>8 DEF sync_all
      <3> QED  BY <3>1, <3>2, AppendFacts
    <2>3. log[using[t]].next_seq < MaxSeq => log[using[t]].next_seq + 1 \in 0..MaxSeq
      BY <1>0, <2>1 DEF LogStates
    <2>4. log' \in [Logs -> LogStates] /\ flock' \in Logs \cup {None}
      <3>1. CASE poison(using[t])
        BY <1>0, <2>1, <3>1, PoisonFacts
      <3>2. CASE ~poison(using[t])
        <4>1. /\ log[using[t]].next_seq + 1 \in 0..MaxSeq
              /\ log' = [log EXCEPT ![using[t]].next_seq = log[using[t]].next_seq + 1]
              /\ flock' = flock
          BY <1>8, <2>3, <3>2 DEF sync_all
        <4> QED  BY <1>0, <2>1, <4>1, SetSeq DEF TypeOK
      <3> QED  BY <3>1, <3>2
    <2>5. /\ mutex' \in [Logs -> Threads \cup {None}]
          /\ pc' \in [Threads -> {"idle", "lock", "write", "sync"}]
          /\ using' \in [Threads -> Logs \cup {None}]
      BY <1>0, <1>8, ReturnFacts DEF sync_all, TypeOK
    <2>6. durable' \in 0..Len(lines) /\ dropped' \subseteq DOMAIN lines /\ UNCHANGED <<lines, events>>
      BY <1>0, <1>8 DEF sync_all, TypeOK, Undurable
    <2> QED  BY <1>0, <2>2, <2>4, <2>5, <2>6 DEF TypeOK, LogStates
  <1>9. CASE PowerLoss
    <2>1. log' \in [Logs -> LogStates]
      BY <1>9 DEF PowerLoss, Closed, LogStates
    <2>2. lines' \in Seq(Lines) /\ durable' \in 0..Len(lines')
      BY <1>0, <1>9, PowerLossFacts DEF TypeOK
    <2>3. dropped' = {} /\ flock' = None /\ events' = events /\ acked' = acked
      BY <1>9 DEF PowerLoss
    <2>4. /\ mutex' \in [Logs -> Threads \cup {None}]
          /\ pc' \in [Threads -> {"idle", "lock", "write", "sync"}]
          /\ using' \in [Threads -> Logs \cup {None}]
      BY <1>9 DEF PowerLoss
    <2> QED  BY <1>0, <2>1, <2>2, <2>3, <2>4 DEF TypeOK, LogStates
  <1>10. CASE UNCHANGED vars
    BY <1>0, <1>10 DEF vars, TypeOK
  <1> QED  BY <1>1, <1>2, <1>3, <1>5, <1>6, <1>7, <1>8, <1>9, <1>10 DEF Next

LEMMA LockStep == SInv /\ [Next]_vars => LockInv'
  <1> SUFFICES ASSUME SInv, [Next]_vars PROVE LockInv'
    OBVIOUS
  <1>0. /\ TypeOK /\ LockInv
        /\ flock \in Logs \cup {None}
        /\ log \in [Logs -> LogStates]
        /\ mutex \in [Logs -> Threads \cup {None}]
        /\ pc \in [Threads -> {"idle", "lock", "write", "sync"}]
        /\ using \in [Threads -> Logs \cup {None}]
    BY DEF SInv, TypeOK, LogStates
  <1>1. ASSUME NEW l \in Logs, open_with(l) PROVE LockInv'
    <2>1. log'[l].state = "opening" /\ \A k \in Logs \ {l} : log'[k] = log[k]
      BY <1>0, <1>1 DEF open_with
    <2> QED  BY <1>0, <1>1, <2>1 DEF open_with, LockInv
  <1>2. ASSUME NEW l \in Logs, sync_open(l) PROVE LockInv'
    <2>1. \A k \in Logs \ {l} : log'[k] = log[k]
      BY <1>0, <1>2 DEF sync_open
    <2>2. \A t \in Threads : using[t] # l
      BY <1>0, <1>2 DEF sync_open, LockInv
    <2>3. \/ log'[l].state = "open" /\ flock' = flock
          \/ log'[l].state = "closed" /\ flock' = Unlocked(l)
      <3>1. CASE log' = [log EXCEPT ![l].state = "open"] /\ flock' = flock
        BY <1>0, <3>1, SetState
      <3>2. CASE log' = [log EXCEPT ![l] = Closed] /\ flock' = Unlocked(l)
        BY <1>0, <3>2 DEF Closed
      <3> QED  BY <1>2, <3>1, <3>2 DEF sync_open
    <2>4. flock = l
      BY <1>0, <1>2 DEF sync_open, LockInv
    <2>5. \A k \in Logs : log'[k].state \in {"opening", "open"} <=> flock' = k
      BY <1>0, <2>1, <2>3, <2>4 DEF Unlocked, LockInv
    <2>6. UNCHANGED <<mutex, pc, using>>
      BY <1>2 DEF sync_open
    <2>7. \A t \in Threads : using[t] # None => log'[using[t]] = log[using[t]]
      BY <1>0, <2>1, <2>2
    <2>8. \A t \in Threads : using'[t] # None => log'[using'[t]].state \in {"open", "poisoned"}
      BY <1>0, <2>6, <2>7 DEF LockInv
    <2>9. \A t \in Threads : pc'[t] \in Inside => using[t] # None
      BY <1>0, <2>6 DEF LockInv, Inside
    <2>10. \A t \in Threads : pc'[t] \in Inside => log'[using'[t]].state = "open"
      BY <1>0, <2>6, <2>7, <2>9 DEF LockInv
    <2>11. /\ \A t \in Threads : pc'[t] = "idle" <=> using'[t] = None
           /\ \A t \in Threads, k \in Logs : mutex'[k] = t <=> using'[t] = k /\ pc'[t] \in Inside
      BY <1>0, <2>6 DEF LockInv
    <2> QED  BY <2>5, <2>8, <2>10, <2>11 DEF LockInv
  <1>3. ASSUME NEW l \in Logs, drop(l) PROVE LockInv'
    <2>1. log'[l].state = "closed" /\ \A k \in Logs \ {l} : log'[k] = log[k]
      BY <1>0, <1>3 DEF drop, Closed
    <2> QED  BY <1>0, <1>3, <2>1 DEF drop, Unlocked, LockInv
  <1>4. ASSUME NEW l \in Logs, Die(l) PROVE LockInv'
    <2>1. log'[l].state = "closed" /\ \A k \in Logs \ {l} : log'[k] = log[k]
      BY <1>0, <1>4 DEF Die, Closed
    <2> QED  BY <1>0, <1>4, <2>1 DEF Die, Unlocked, LockInv, Inside
  <1>5. ASSUME NEW t \in Threads, NEW l \in Logs, append(t, l) PROVE LockInv'
    BY <1>0, <1>5 DEF append, LockInv, Inside
  <1>6. ASSUME NEW t \in Threads, lock_state(t) PROVE LockInv'
    <2>1. CASE Return(t)
      <3>1. \A l \in Logs : mutex[l] # t
        BY <1>0, <1>6 DEF lock_state, LockInv, Inside
      <3>2. \A l \in Logs : mutex'[l] = mutex[l]
        BY <1>0, <2>1, <3>1, ReturnFacts
      <3> QED  BY <1>0, <1>6, <2>1, <3>1, <3>2, ReturnFacts DEF lock_state, LockInv, Inside
    <2>2. CASE /\ log[using[t]].state = "open"
               /\ mutex' = [mutex EXCEPT ![using[t]] = t]
               /\ pc' = [pc EXCEPT ![t] = "write"]
               /\ using' = using
      <3>1. using[t] \in Logs /\ mutex[using[t]] = None /\ pc[t] = "lock" /\ log' = log /\ flock' = flock
        BY <1>0, <1>6 DEF lock_state, LockInv
      <3>2. \A u \in Threads, l \in Logs : mutex'[l] = u <=> using[u] = l /\ pc'[u] \in Inside
        BY <1>0, <2>2, <3>1 DEF LockInv, Inside
      <3> QED  BY <1>0, <2>2, <3>1, <3>2 DEF LockInv, Inside
    <2> QED  BY <1>6, <2>1, <2>2 DEF lock_state
  <1>7. ASSUME NEW t \in Threads, pc[t] \in Inside, Return(t),
               flock' \in {flock, None},
               flock' = flock => \A l \in Logs : log'[l].state = log[l].state,
               flock' = None => /\ log'[using[t]].state = "poisoned"
                                /\ \A l \in Logs \ {using[t]} : log'[l].state = log[l].state
        PROVE  LockInv'
    <2>1. using[t] \in Logs /\ flock = using[t] /\ flock # None
      BY <1>0, <1>7, InsideFacts
    <2>2. \A l \in Logs : log'[l].state \in {"opening", "open"} <=> flock' = l
      BY <1>0, <1>7, <2>1 DEF LockInv
    <2>3. \A u \in Threads : pc'[u] = "idle" <=> using'[u] = None
      BY <1>0, <1>7, ReturnFacts DEF LockInv
    <2>4. \A u \in Threads : using'[u] # None => log'[using'[u]].state \in {"open", "poisoned"}
      <3> SUFFICES ASSUME NEW u \in Threads, using'[u] # None
                   PROVE  log'[using'[u]].state \in {"open", "poisoned"}
        OBVIOUS
      <3>1. u # t /\ using'[u] = using[u] /\ using[u] \in Logs
        BY <1>0, <1>7, ReturnFacts
      <3>2. log[using[u]].state \in {"open", "poisoned"}
        BY <1>0, <3>1 DEF LockInv
      <3> QED  BY <1>7, <3>1, <3>2
    <2>5. \A u \in Threads : pc'[u] \in Inside => log'[using'[u]].state = "open"
      <3> SUFFICES ASSUME NEW u \in Threads, pc'[u] \in Inside
                   PROVE  log'[using'[u]].state = "open"
        OBVIOUS
      <3>1. u # t /\ using'[u] = using[u] /\ pc[u] \in Inside
        BY <1>0, <1>7, ReturnFacts DEF Inside
      <3>2. using[u] \in Logs /\ using[u] # using[t] /\ flock = using[u]
        BY <1>0, <1>7, <3>1, InsideFacts
      <3> QED  BY <2>1, <3>2
    <2>6. \A u \in Threads, l \in Logs : mutex'[l] = u <=> using'[u] = l /\ pc'[u] \in Inside
      <3> SUFFICES ASSUME NEW u \in Threads, NEW l \in Logs
                   PROVE  mutex'[l] = u <=> using'[u] = l /\ pc'[u] \in Inside
        OBVIOUS
      <3>1. CASE u = t
        BY <1>0, <1>7, <3>1, ReturnFacts DEF Inside
      <3>2. CASE u # t
        BY <1>0, <1>7, <3>2, ReturnFacts DEF LockInv
      <3> QED  BY <3>1, <3>2
    <2> QED  BY <2>2, <2>3, <2>4, <2>5, <2>6 DEF LockInv
  <1>8. ASSUME NEW t \in Threads, write_all(t) \/ sync_all(t) PROVE LockInv'
    <2>1. pc[t] \in Inside
      BY <1>8 DEF write_all, sync_all, Inside
    <2>2. using[t] \in Logs /\ flock = using[t] /\ flock # None
      BY <1>0, <2>1, InsideFacts
    <2>3. CASE Return(t) /\ poison(using[t])
      BY <1>0, <1>7, <2>1, <2>2, <2>3, PoisonFacts DEF Unlocked
    <2>4. CASE Return(t) /\ ~poison(using[t])
      <3>1. /\ log' = [log EXCEPT ![using[t]].next_seq = log[using[t]].next_seq + 1]
            /\ flock' = flock
        <4>1. CASE write_all(t)
          <5>1. Return(t) => pc'[t] = "idle"
            BY <1>0, ReturnFacts
          <5>2. pc' # [pc EXCEPT ![t] = "sync"]
            BY <1>0, <2>4, <5>1
          <5> QED  BY <4>1, <2>4, <5>2 DEF write_all
        <4>2. CASE sync_all(t)
          BY <4>2, <2>4 DEF sync_all
        <4> QED  BY <1>8, <4>1, <4>2
      <3>2. \A l \in Logs : log'[l].state = log[l].state
        BY <1>0, <2>2, <3>1 DEF LogStates
      <3> QED  BY <1>7, <2>1, <2>2, <2>4, <3>1, <3>2
    <2>5. CASE ~Return(t)
      <3>1. pc' = [pc EXCEPT ![t] = "sync"] /\ UNCHANGED <<flock, log, using, mutex>>
        BY <1>8, <2>5 DEF write_all, sync_all
      <3>2. \A u \in Threads : (pc'[u] \in Inside <=> pc[u] \in Inside) /\ (pc'[u] = "idle" <=> pc[u] = "idle")
        BY <1>0, <2>1, <3>1 DEF Inside
      <3> QED  BY <1>0, <3>1, <3>2 DEF LockInv
    <2> QED  BY <2>3, <2>4, <2>5
  <1>9. CASE PowerLoss
    BY <1>9 DEF PowerLoss, Closed, LockInv, Inside
  <1>10. CASE UNCHANGED vars
    BY <1>0, <1>10 DEF vars, LockInv
  <1> QED  BY <1>1, <1>2, <1>3, <1>4, <1>5, <1>6, <1>8, <1>9, <1>10 DEF Next

----------------------------------------------------------------------------
(* FileInv: an unlocked file owes nothing, and a step that moves no thread  *)
(* into or out of the sync leaves it as it was.                             *)

LEMMA Unheld == ASSUME TypeOK', LockInv', flock' = None PROVE FileInv'
  <1>1. \A t \in Threads : pc'[t] # "sync"
    BY DEF LockInv, TypeOK, Inside
  <1> QED  BY <1>1 DEF FileInv

LEMMA FileKept ==
    ASSUME TypeOK, FileInv, flock' = flock, UNCHANGED file,
           flock # None => log'[flock].next_seq = log[flock].next_seq,
           \A t \in Threads : pc'[t] = "sync" <=> pc[t] = "sync",
           \A t \in Threads : pc[t] = "sync" => using'[t] = using[t]
    PROVE  FileInv'
  <1>1. lines' = lines /\ durable' = durable /\ dropped' = dropped
    BY DEF file
  <1>2. scan_lines' = scan_lines /\ LastSeq' = LastSeq
    BY <1>1 DEF scan_lines, LastSeq
  <1>3. \A l \in Logs : Syncing(l)' <=> Syncing(l)
    BY DEF Syncing
  <1> QED  BY <1>1, <1>2, <1>3 DEF FileInv

LEMMA FileStep == SInv /\ [Next]_vars => FileInv'
  <1> SUFFICES ASSUME SInv, [Next]_vars PROVE FileInv'
    OBVIOUS
  <1>0. /\ TypeOK /\ LockInv /\ FileInv /\ TypeOK' /\ LockInv'
        /\ log \in [Logs -> LogStates]
        /\ pc \in [Threads -> {"idle", "lock", "write", "sync"}]
        /\ using \in [Threads -> Logs \cup {None}]
        /\ LastSeq \in 0..MaxSeq
    BY TypeStep, LockStep, LastSeqType DEF SInv, TypeOK, LogStates
  <1>1. ASSUME NEW l \in Logs, open_with(l) PROVE FileInv'
    <2>1. \A t \in Threads : pc[t] # "sync"
      BY <1>0, <1>1, InsideFacts DEF open_with, Inside
    <2>2. lines' = lines /\ pc' = pc /\ flock' = l /\ log'[l].next_seq = LastSeq + 1 /\ scan_lines
      BY <1>0, <1>1 DEF open_with, file
    <2>3. scan_lines' /\ LastSeq' = LastSeq
      BY <2>2 DEF scan_lines, LastSeq
    <2> QED  BY <2>1, <2>2, <2>3 DEF FileInv, Syncing
  <1>2. ASSUME NEW l \in Logs, sync_open(l) PROVE FileInv'
    <2>1. flock = l /\ flock # None
      BY <1>0, <1>2 DEF sync_open, LockInv
    <2>2. \A t \in Threads : pc[t] # "sync"
      BY <1>0, <1>2, <2>1, InsideFacts DEF sync_open, Inside
    <2>3. CASE flock' = flock
      <3>1. log' = [log EXCEPT ![l].state = "open"] /\ lines' = lines /\ pc' = pc
        BY <1>2, <2>1, <2>3 DEF sync_open, Unlocked
      <3>2. log'[l].next_seq = LastSeq + 1
        BY <1>0, <2>1, <2>2, <3>1, SetState DEF FileInv, Syncing
      <3>3. scan_lines' /\ LastSeq' = LastSeq
        BY <1>0, <2>1, <3>1 DEF FileInv, scan_lines, LastSeq
      <3> QED  BY <2>1, <2>2, <2>3, <3>1, <3>2, <3>3 DEF FileInv, Syncing
    <2>4. CASE flock' = None
      BY <1>0, <2>4, Unheld
    <2> QED  BY <1>2, <2>1, <2>3, <2>4 DEF sync_open, Unlocked
  <1>3. ASSUME NEW l \in Logs, drop(l) \/ Die(l) PROVE FileInv'
    <2>1. CASE flock = l
      BY <1>0, <1>3, <2>1, Unheld DEF drop, Die, Unlocked
    <2>2. CASE flock # l
      <3>1. flock' = flock /\ UNCHANGED file /\ (flock # None => log'[flock] = log[flock])
        BY <1>0, <1>3, <2>2 DEF drop, Die, Unlocked, TypeOK
      <3>2. \A t \in Threads : pc[t] = "sync" => using[t] # l
        BY <1>0, <2>2, InsideFacts DEF Inside
      <3>3. \A t \in Threads : (pc'[t] = "sync" <=> pc[t] = "sync") /\ (pc[t] = "sync" => using'[t] = using[t])
        BY <1>0, <1>3, <3>2 DEF drop, Die
      <3> QED  BY <1>0, <3>1, <3>3, FileKept
    <2> QED  BY <2>1, <2>2
  <1>5. ASSUME NEW t \in Threads, NEW l \in Logs, append(t, l) PROVE FileInv'
    <2>1. \A u \in Threads : (pc'[u] = "sync" <=> pc[u] = "sync") /\ (pc[u] = "sync" => using'[u] = using[u])
      BY <1>0, <1>5 DEF append
    <2>2. UNCHANGED <<file, flock, log>>
      BY <1>5 DEF append
    <2> QED  BY <1>0, <2>1, <2>2, FileKept
  <1>6. ASSUME NEW t \in Threads, lock_state(t) PROVE FileInv'
    <2>1. \A u \in Threads : (pc'[u] = "sync" <=> pc[u] = "sync") /\ (pc[u] = "sync" => using'[u] = using[u])
      BY <1>0, <1>6 DEF lock_state, Return
    <2>2. UNCHANGED <<file, flock, log>>
      BY <1>6 DEF lock_state
    <2> QED  BY <1>0, <2>1, <2>2, FileKept
  <1>7. ASSUME NEW t \in Threads, write_all(t) PROVE FileInv'
    <2>1. pc[t] = "write" /\ using[t] \in Logs /\ flock = using[t] /\ flock # None
      BY <1>0, <1>7, InsideFacts DEF write_all, Inside
    <2>2. CASE poison(using[t])
      BY <1>0, <2>1, <2>2, Unheld DEF poison, Unlocked
    <2>3. CASE ~poison(using[t])
      <3>1. /\ Written(using[t], TRUE)
            /\ pc' = [pc EXCEPT ![t] = "sync"]
            /\ UNCHANGED <<durable, dropped, flock, log, using>>
        BY <1>7, <2>3 DEF write_all
      <3>2. lines \in Seq(Lines) /\ Len(lines) \in Nat /\ durable \in 0..Len(lines) /\ dropped \subseteq 1..Len(lines)
        BY <1>0 DEF TypeOK
      <3>3. log[using[t]].next_seq = LastSeq + 1 /\ LastSeq + 1 \in 1..MaxSeq
        BY <1>0, <2>1, WriteFacts
      <3>4. PICK line \in Lines : line.seq = LastSeq + 1 /\ line.whole /\ lines' = Append(lines, line)
        <4>1. events + 1 \in 1..MaxEvents
          BY <1>0, <3>1 DEF Written, TypeOK
        <4> QED  BY <3>1, <3>3, <4>1 DEF Written, Lines
      <3>5. /\ Len(lines') = Len(lines) + 1 /\ DOMAIN lines' = 1..(Len(lines) + 1)
            /\ lines'[Len(lines) + 1] = line
            /\ \A i \in 1..Len(lines) : lines'[i] = lines[i]
            /\ lines' # <<>>
        BY <3>2, <3>4, AppendFacts
      <3>6. scan_lines /\ \A i \in 1..Len(lines) : lines[i].whole
        BY <1>0, <2>1, <3>2 DEF FileInv, scan_lines
      <3>7. \A i \in 1..Len(lines) : lines[i].seq < LastSeq + 1
        <4> SUFFICES ASSUME NEW i \in 1..Len(lines) PROVE lines[i].seq < LastSeq + 1
          OBVIOUS
        <4>1. lines # <<>> /\ LastSeq = lines[Len(lines)].seq
          BY <3>2 DEF LastSeq
        <4>2. lines[i].seq \in Nat /\ LastSeq \in Nat
          <5>1. lines[i] \in Lines
            BY <3>2
          <5> QED  BY <1>0, <5>1 DEF Lines
        <4>3. i < Len(lines) => lines[i].seq < LastSeq
          BY <3>2, <3>6, <4>1 DEF scan_lines
        <4> QED  BY <3>2, <4>1, <4>2, <4>3
      <3>8. scan_lines'
        <4>1. \A i \in DOMAIN lines' : lines'[i].whole
          BY <3>2, <3>4, <3>5, <3>6
        <4>2. ASSUME NEW i \in DOMAIN lines', NEW j \in DOMAIN lines', i < j
              PROVE  lines'[i].seq < lines'[j].seq
          <5>1. i \in 1..Len(lines) /\ lines'[i] = lines[i]
            BY <3>2, <3>5, <4>2
          <5>2. CASE j = Len(lines) + 1
            BY <3>4, <3>5, <3>7, <5>1, <5>2
          <5>3. CASE j \in 1..Len(lines)
            BY <3>2, <3>5, <3>6, <4>2, <5>1, <5>3 DEF scan_lines
          <5> QED  BY <3>2, <3>5, <5>2, <5>3
        <4> QED  BY <4>1, <4>2 DEF scan_lines
      <3>9. LastSeq' = LastSeq + 1
        BY <3>4, <3>5 DEF LastSeq
      <3>10. \A l \in Logs : l = using[t] => Syncing(l)'
        BY <1>0, <3>1 DEF Syncing
      <3>11. durable' < Len(lines') /\ Len(lines') \notin dropped'
        BY <3>1, <3>2, <3>5
      <3>12. flock' = using[t] /\ log'[using[t]].next_seq = LastSeq'
        BY <2>1, <3>1, <3>3, <3>9
      <3>13. \A l \in Logs : flock' = l =>
                log'[l].next_seq = IF Syncing(l)' THEN LastSeq' ELSE LastSeq' + 1
        BY <3>10, <3>12
      <3> QED  BY <3>8, <3>11, <3>13 DEF FileInv
    <2> QED  BY <2>2, <2>3
  <1>8. ASSUME NEW t \in Threads, sync_all(t) PROVE FileInv'
    <2>1. pc[t] = "sync" /\ using[t] \in Logs /\ flock = using[t] /\ flock # None
      BY <1>0, <1>8, InsideFacts DEF sync_all, Inside
    <2>2. CASE poison(using[t])
      BY <1>0, <2>1, <2>2, Unheld DEF poison, Unlocked
    <2>3. CASE ~poison(using[t])
      <3>1. /\ log[using[t]].next_seq < MaxSeq
            /\ log' = [log EXCEPT ![using[t]].next_seq = log[using[t]].next_seq + 1]
            /\ Return(t) /\ flock' = flock /\ lines' = lines
        BY <1>8, <2>3 DEF sync_all
      <3>2. log[using[t]].next_seq = LastSeq
        BY <1>0, <2>1, SyncFacts
      <3>3. log'[using[t]].next_seq = LastSeq + 1
        BY <1>0, <2>1, <3>1, <3>2, SetSeq
      <3>4. \A u \in Threads : pc'[u] # "sync"
        <4> SUFFICES ASSUME NEW u \in Threads, u # t PROVE pc[u] # "sync"
          BY <1>0, <3>1, ReturnFacts
        <4> QED  BY <1>0, <2>1, InsideFacts DEF Inside
      <3>5. scan_lines' /\ LastSeq' = LastSeq
        BY <1>0, <2>1, <3>1 DEF FileInv, scan_lines, LastSeq
      <3> QED  BY <2>1, <3>1, <3>3, <3>4, <3>5 DEF FileInv, Syncing
    <2> QED  BY <2>2, <2>3
  <1>9. CASE PowerLoss
    BY <1>0, <1>9, Unheld DEF PowerLoss
  <1>10. CASE UNCHANGED vars
    BY <1>0, <1>10, FileKept DEF vars, file
  <1> QED  BY <1>1, <1>2, <1>3, <1>5, <1>6, <1>7, <1>8, <1>9, <1>10 DEF Next

----------------------------------------------------------------------------
(* Acknowledged events.  They lie in the durable part of the file, which a  *)
(* step may only extend, and which a failed sync cannot drop.               *)

LEMMA KeptStays ==
    ASSUME TypeOK, AckedIsKept, durable' \in Nat, durable <= durable', acked' = acked,
           \A i \in 1..durable : i \notin dropped => lines'[i] = lines[i] /\ i \notin dropped'
    PROVE  AckedIsKept'
  <1>1. 1..durable \subseteq 1..durable'
    BY DEF TypeOK
  <1> SUFFICES ASSUME NEW a \in DOMAIN acked
               PROVE  \E i \in 1..durable' : lines'[i] = acked[a] /\ i \notin dropped'
    BY DEF AckedIsKept
  <1>2. PICK i \in 1..durable : lines[i] = acked[a] /\ i \notin dropped
    BY DEF AckedIsKept
  <1> QED  BY <1>1, <1>2

LEMMA AckedStep == SInv /\ [Next]_vars => AckedIsKept' /\ AckedInOrder'
  <1> SUFFICES ASSUME SInv, [Next]_vars PROVE AckedIsKept' /\ AckedInOrder'
    OBVIOUS
  <1>0. /\ TypeOK /\ LockInv /\ FileInv /\ AckedIsKept /\ AckedInOrder
        /\ lines \in Seq(Lines) /\ acked \in Seq(Lines)
        /\ durable \in Nat /\ Len(lines) \in Nat /\ durable <= Len(lines)
    BY DEF SInv, TypeOK
  <1>1. ASSUME UNCHANGED <<file, acked>> PROVE AckedIsKept' /\ AckedInOrder'
    <2>1. AckedIsKept'
      BY <1>0, <1>1, KeptStays DEF file
    <2> QED  BY <1>0, <1>1, <2>1 DEF AckedInOrder
  <1>2. ASSUME NEW l \in Logs, sync_open(l) PROVE AckedIsKept' /\ AckedInOrder'
    <2>1. /\ durable' \in Nat /\ durable <= durable' /\ acked' = acked /\ lines' = lines
          /\ \A i \in 1..durable : i \notin dropped => i \notin dropped'
      BY <1>0, <1>2 DEF sync_open, Undurable
    <2> QED  BY <1>0, <2>1, KeptStays DEF AckedInOrder
  <1>3. ASSUME NEW t \in Threads, write_all(t) PROVE AckedIsKept' /\ AckedInOrder'
    <2>1. durable' = durable /\ dropped' = dropped /\ acked' = acked
      BY <1>3 DEF write_all
    <2>2. \A i \in 1..durable : lines'[i] = lines[i]
      <3>1. CASE lines' = lines
        BY <3>1
      <3>2. CASE \E line : lines' = Append(lines, line)
        <4>1. PICK line : lines' = Append(lines, line)
          BY <3>2
        <4>2. lines \in Seq(Lines \cup {line})
          BY <1>0
        <4>3. \A i \in 1..Len(lines) : lines'[i] = lines[i]
          BY <4>1, <4>2, AppendFacts
        <4> QED  BY <1>0, <4>3
      <3> QED  BY <1>3, <3>1, <3>2 DEF write_all, Written
    <2> QED  BY <1>0, <2>1, <2>2, KeptStays DEF AckedInOrder
  <1>4. ASSUME NEW t \in Threads, sync_all(t) PROVE AckedIsKept' /\ AckedInOrder'
    <2>1. CASE UNCHANGED <<durable, acked>>
      <3>1. lines' = lines /\ \A i \in 1..durable : i \notin dropped => i \notin dropped'
        BY <1>0, <1>4 DEF sync_all, Undurable
      <3> QED  BY <1>0, <2>1, <3>1, KeptStays DEF AckedInOrder
    <2>2. CASE ~UNCHANGED <<durable, acked>>
      <3> DEFINE last == lines[Len(lines)]
      <3>1. /\ lines' = lines /\ dropped' = dropped /\ durable' = Len(lines)
            /\ acked' = Append(acked, last)
        BY <1>4, <2>2 DEF sync_all
      <3>2. pc[t] = "sync" /\ pc[t] \in Inside
        BY <1>4 DEF sync_all, Inside
      <3>3. /\ durable < Len(lines) /\ Len(lines) \notin dropped /\ last \in Lines
            /\ Len(lines) \in 1..Len(lines)
            /\ scan_lines
        BY <1>0, <3>2, SyncFacts, InsideFacts DEF FileInv
      <3> HIDE DEF last
      <3>4. /\ Len(acked') = Len(acked) + 1 /\ Len(acked) \in Nat
            /\ DOMAIN acked' = 1..(Len(acked) + 1) /\ DOMAIN acked = 1..Len(acked)
            /\ acked'[Len(acked) + 1] = last
            /\ \A a \in 1..Len(acked) : acked'[a] = acked[a]
        BY <1>0, <3>1, <3>3, AppendFacts
      <3>5. \A a \in 1..Len(acked) : \E i \in 1..durable : lines[i] = acked[a] /\ i \notin dropped
        BY <1>0, <3>4 DEF AckedIsKept
      <3>6. AckedIsKept'
        <4> SUFFICES ASSUME NEW a \in DOMAIN acked'
                     PROVE  \E i \in 1..Len(lines) : lines[i] = acked'[a] /\ i \notin dropped
          BY <3>1 DEF AckedIsKept
        <4>1. CASE a \in 1..Len(acked)
          <5>1. PICK i \in 1..durable : lines[i] = acked[a] /\ i \notin dropped
            BY <3>5, <4>1
          <5> QED  BY <1>0, <3>4, <4>1, <5>1
        <4>2. CASE a = Len(acked) + 1
          BY <3>3, <3>4, <4>2 DEF last
        <4> QED  BY <3>4, <4>1, <4>2
      <3>7. \A a \in 1..Len(acked) : acked[a].seq < last.seq
        <4> SUFFICES ASSUME NEW a \in 1..Len(acked) PROVE acked[a].seq < last.seq
          OBVIOUS
        <4>1. PICK i \in 1..durable : lines[i] = acked[a]
          BY <3>5
        <4>2. i \in DOMAIN lines /\ Len(lines) \in DOMAIN lines /\ i < Len(lines)
          BY <1>0, <3>3
        <4> QED  BY <3>3, <4>1, <4>2 DEF scan_lines, last
      <3>8. AckedInOrder'
        <4> SUFFICES ASSUME NEW a \in DOMAIN acked', NEW b \in DOMAIN acked', a < b
                     PROVE  acked'[a].seq < acked'[b].seq
          BY DEF AckedInOrder
        <4>1. a \in 1..Len(acked) /\ acked'[a] = acked[a]
          BY <3>4
        <4>2. CASE b = Len(acked) + 1
          BY <3>4, <3>7, <4>1, <4>2
        <4>3. CASE b \in 1..Len(acked)
          BY <1>0, <3>4, <4>1, <4>3 DEF AckedInOrder
        <4> QED  BY <3>4, <4>2, <4>3
      <3> QED  BY <3>6, <3>8
    <2> QED  BY <2>1, <2>2
  <1>5. CASE PowerLoss
    <2>1. acked' = acked /\ dropped' = {} /\ durable' \in Nat
      BY <1>0, <1>5, PowerLossFacts DEF PowerLoss
    <2> QED  BY <1>0, <1>5, <2>1, PowerLossFacts, KeptStays DEF AckedInOrder
  <1>6. ASSUME NEW l \in Logs, open_with(l) \/ drop(l) \/ Die(l) PROVE UNCHANGED <<file, acked>>
    BY <1>6 DEF open_with, drop, Die
  <1>7. ASSUME NEW t \in Threads, (\E l \in Logs : append(t, l)) \/ lock_state(t)
        PROVE  UNCHANGED <<file, acked>>
    BY <1>7 DEF append, lock_state
  <1>8. CASE UNCHANGED vars
    BY <1>1, <1>8 DEF vars, file
  <1> QED  BY <1>1, <1>2, <1>3, <1>4, <1>5, <1>6, <1>7, <1>8 DEF Next

----------------------------------------------------------------------------
(* The inductive invariant of the session log.                              *)
THEOREM SessionLogInvariant == Spec => []SInv
  <1>1. SInv /\ [Next]_vars => SInv'
    BY TypeStep, LockStep, FileStep, AckedStep DEF SInv
  <1> QED  BY LogInit, <1>1, PTL DEF Spec

(* An event whose append returned its number is whole and on disk under     *)
(* that number from then on, whatever fails, dies or loses power later.     *)
THEOREM AckedTheorem == Spec => []AckedIsKept
  <1>1. SInv => AckedIsKept
    BY DEF SInv
  <1> QED  BY <1>1, SessionLogInvariant, PTL

(* append hands out strictly increasing numbers, across every open.         *)
THEOREM OrderTheorem == Spec => []AckedInOrder
  <1>1. SInv => AckedInOrder
    BY DEF SInv
  <1> QED  BY <1>1, SessionLogInvariant, PTL

(* A thread that writes or syncs does so under the file's lock.             *)
THEOREM WriterTheorem == Spec => []WriterHoldsLock
  <1>1. SInv => WriterHoldsLock
    BY InsideFacts DEF SInv, WriterHoldsLock, Inside
  <1> QED  BY <1>1, SessionLogInvariant, PTL

(* A log that accepts appends is over a file that reads back without fault. *)
THEOREM ReadableTheorem == Spec => []OpenIsReadable
  <1>1. SInv => OpenIsReadable
    BY DEF SInv, FileInv, OpenIsReadable
  <1> QED  BY <1>1, SessionLogInvariant, PTL

(* What SessionLog::append acknowledged is kept, in order.                  *)
THEOREM DurableTheorem == Spec => []AckedIsDurable
  BY AckedTheorem, OrderTheorem, PTL DEF AckedIsDurable

(* A thread that writes the session log owns it, and it is readable.        *)
THEOREM SoundWrites == Spec => []WritesAreSound
  BY WriterTheorem, ReadableTheorem, PTL DEF WritesAreSound
=============================================================================
