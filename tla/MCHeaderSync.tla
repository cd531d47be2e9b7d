---------------------------- MODULE MCHeaderSync ----------------------------
(***************************************************************************)
(* HeaderSync with one peer that answers in time and one that does as it   *)
(* likes, each in a network group of its own.                              *)
(***************************************************************************)
EXTENDS HeaderSync

Spec == SyncInit /\ [][SyncNext]_syncVars /\ SyncFairness

MCGroup == [p \in Peer |-> p]
=============================================================================
