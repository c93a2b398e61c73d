---------------------------- MODULE MCRocketClient ----------------------------
(***************************************************************************)
(* Instances of RocketClient for TLC.                                      *)
(***************************************************************************)
EXTENDS RocketClient

CONSTANTS a, b, f, s
=============================================================================
