---------------------------- MODULE MCEffectLedger ----------------------------
(* One plugin attached in c1, which also holds objects in c2 that a call   *)
(* naming the wrong cell reaches for; ledgers of up to three effects.       *)
EXTENDS EffectLedger, TLC

CONSTANTS h1, h2, h3, c1, c2, own1, own2, cap

MCAddresses == {h1, h2, h3}
MCOwners == {own1, own2}
MCCapabilities == {cap}
MCKinds == {"Hot"}
MCCells == {c1, c2}
MCOwnerIn == (c1 :> own1) @@ (c2 :> own2)

Symmetry == Permutations(MCAddresses)
=============================================================================
