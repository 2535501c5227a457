----------------------------- MODULE MCIotMain -----------------------------
(***************************************************************************)
(* Small instances of IotMain.  Heap blocks differ only by name.           *)
(***************************************************************************)
EXTENDS IotMain, TLC

BufSymmetry == Permutations(Bufs)
=============================================================================
