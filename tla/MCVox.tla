------------------------------- MODULE MCVox -------------------------------
(* Sessions after each other, a queue of two and a few shocks.             *)
EXTENDS Vox
=============================================================================
