-------------------------- MODULE MCCellDirectories --------------------------
(* Two threads of one controller and one of another; two numbers, so that  *)
(* an allocation can be contended and exhausted, and three directories.    *)
EXTENDS CellDirectories, TLC

CONSTANTS t1, t2, t3, p1, p2

const_ProcessOf == t1 :> p1 @@ t2 :> p1 @@ t3 :> p2
=============================================================================
