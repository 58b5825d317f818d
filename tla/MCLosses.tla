------------------------------ MODULE MCLosses ------------------------------
(***************************************************************************)
(* The instances of MCWatcher with the history of Losses.                  *)
(***************************************************************************)
EXTENDS MCWatcher, Losses
=============================================================================
