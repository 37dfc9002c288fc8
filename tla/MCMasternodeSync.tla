------------------------- MODULE MCMasternodeSync -------------------------
(* Instances of MasternodeSync for TLC.                                    *)
EXTENDS MasternodeSync

MCFivePeers == 1..5
MCThreePeers == 1..3
MCOnePeer == {1}
MCNobody == {}
=============================================================================
