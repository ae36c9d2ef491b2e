----------------------------- MODULE MCObservation -----------------------------
(* Two callers share a connection and observe a scope each; accounts of two *)
(* bytes come in pages of one, and one caller's pages may come altered.     *)
EXTENDS ObservationPaging, TLC

CONSTANTS s1, s2, c1, c2

MCScope == (c1 :> s1 @@ c2 :> s2)
MCRecords == {<<"b", "b">>, <<"a", "b">>}

PagingSpec == PagingSteps /\ PagingFairness
=============================================================================
