----------------------- MODULE MCRocketServerConnection -----------------------
(***************************************************************************)
(* Instances of RocketServerConnection for TLC.                            *)
(***************************************************************************)
EXTENDS RocketServerConnection

CONSTANTS r, o, s, k
=============================================================================
