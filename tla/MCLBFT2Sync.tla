---------------------------- MODULE MCLBFT2Sync ----------------------------
(* Instances of LBFT2Sync for TLC, with the blocks of MCLBFT2.             *)
EXTENDS LBFT2Sync, MCLBFT2

=============================================================================
