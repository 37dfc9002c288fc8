-------------------------- MODULE MCMasternodeList --------------------------
(* Instance of MasternodeList for TLC: the masternode and its controller,  *)
(* which is a node like any other.                                         *)
EXTENDS MasternodeList
=============================================================================
