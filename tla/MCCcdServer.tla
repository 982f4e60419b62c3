----------------------------- MODULE MCCcdServer -----------------------------
(***************************************************************************)
(* Small instances of CcdServer.  The clients that are not pollers are     *)
(* interchangeable, which the safety runs use.                             *)
(***************************************************************************)
EXTENDS CcdServer, TLC

Interchangeable == Permutations(Clients)
=============================================================================
