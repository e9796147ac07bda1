---------------------------- MODULE MCCancelToken ----------------------------
(***************************************************************************)
(* An instance of CancelToken for TLC.                                     *)
(***************************************************************************)
EXTENDS CancelToken

CONSTANTS w1, w2, w3, c1, c2
=============================================================================
