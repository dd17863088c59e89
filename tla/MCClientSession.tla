-------------------------- MODULE MCClientSession ---------------------------
(* ClientSession for TLC: constants are model values, given in the cfg.    *)
EXTENDS ClientSession
=============================================================================
