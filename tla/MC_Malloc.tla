------------------------------ MODULE MC_Malloc -----------------------------
(***************************************************************************)
(* Instances of Malloc for TLC.  Arrays of calloc: one that fits, and one  *)
(* whose size overflows.                                                   *)
(***************************************************************************)
EXTENDS Malloc

MCArrays == {<<1, 2>>, <<2, AddrMod \div 2>>}
=============================================================================
